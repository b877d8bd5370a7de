---------------------------- MODULE MCHostTimers ----------------------------
(* HostTimers for TLC: one activity, at its normal speed or at a halt.  A   *)
(* step and a frame take two units of time, until a frame is cut short.     *)
EXTENDS HostTimers

CONSTANT activity

OneActivity == {activity}
Frame == {2}
NoneOrShort == {0, 1}
NormalAndStill == {Step, Never}
=============================================================================
