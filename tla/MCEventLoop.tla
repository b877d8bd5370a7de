----------------------------- MODULE MCEventLoop -----------------------------
(* EventLoop for TLC: the main thread and the logic loop, and how much each *)
(* of them and a thread without a loop may push and set.                    *)
EXTENDS EventLoop

CONSTANTS main, logic

TwoLoops == {main, logic}
JustMain == {main}
JustLogic == {logic}
MainCallsLogic == {<<main, logic>>}

\* A thread without a loop starts main, which calls logic or pushes to it;
\* logic pushes twice to itself.
PushesToCall ==
  [p \in Pusher |-> [t \in Loop |->
     CASE p = logic /\ t = logic -> 2
       [] p = main /\ t = logic -> 1
       [] p = Outside /\ t = main -> 1
       [] OTHER -> 0]]

\* Logic has something to run from itself and from a thread without a loop.
PushesToLogic ==
  [p \in Pusher |-> [t \in Loop |-> IF p # main /\ t = logic THEN 1 ELSE 0]]

LogicTimer == [t \in Loop |-> IF t = logic THEN 1 ELSE 0]
NoTimers == [t \in Loop |-> 0]
=============================================================================
