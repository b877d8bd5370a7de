------------------------------ MODULE MCReplay ------------------------------
(* Replay for TLC: what is recorded.                                        *)
EXTENDS Replay

CONSTANT w1

Limits == [k \in {"scene", "media", "node"} |-> 0]

Stage == <<"scene", 0>>
Prop == <<"node", 0>>
Paint == <<"media", 0>>
Item(size, msg) == [size |-> size, msg |-> msg]

Setting ==
  CommandsMsg(<<AddCmd(Stage, Object(1, None)), AddCmd(Prop, Object(2, Stage)), StepCmd(1)>>)
Recast ==
  CommandsMsg(<<AddCmd(Paint, Object(3, Stage)), SetCmd(Prop, Paint), StepCmd(1),
                RemoveCmd(Prop), AddCmd(Prop, Object(4, Stage)), StepCmd(1)>>)
Positions == CorrectionMsg({[slot |-> Prop, what |-> 4]})

\* A moment that the ends of messages cut, after the end of another.
Opening == CommandsMsg(<<AddCmd(Stage, Object(1, None)), StepCmd(1), AddCmd(Prop, Object(4, Stage))>>)
Pause == CommandsMsg(<<StepCmd(1)>>)
Closing == CommandsMsg(<<StepCmd(1), RemoveCmd(Prop), StepCmd(1)>>)

Plays ==
  {<<Item("mid", Opening), Item("short", Pause), Item("long", Closing)>>,
   <<Item("short", ResetMsg), Item("mid", Setting), Item("short", Recast),
     Item("edge", Positions)>>}
=============================================================================
