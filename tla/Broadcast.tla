------------------------------ MODULE Broadcast ------------------------------
(* What a session stream promises: everyone who follows a host is shown the *)
(* host's moments, as they were, in order, from the next moment after       *)
(* joining on.  A moment that is late may be passed over for a later one    *)
(* that is there too, as a screen that drops frames does.                   *)
EXTENDS Integers, Sequences

CONSTANTS
  Follower,
  Blank     \* what is shown before the first moment

VARIABLES
  following,
  now,      \* what the host looks like
  owed,     \* for each follower: moments it is to be shown, and cuts
  shown     \* for each follower: the moment that it shows

vars == <<following, now, owed, shown>>

Moment(m) == [moment |-> m]
Cut == [cut |-> TRUE]  \* a new start: nothing from before is shown after it

Init ==
  /\ following \in SUBSET Follower
  /\ owed = [f \in Follower |-> <<>>]
  /\ shown = [f \in Follower |-> Blank]

\* The host does something, which nobody sees before the moment is complete.
Change == UNCHANGED <<following, shown, owed>>

\* A moment is complete.
Tick ==
  /\ UNCHANGED <<following, now, shown>>
  /\ owed' = [f \in Follower |->
                IF f \in following THEN Append(owed[f], Moment(now)) ELSE owed[f]]

Join(f) ==
  /\ f \notin following
  /\ following' = following \cup {f}
  /\ UNCHANGED <<now, shown>>
  /\ owed' = [owed EXCEPT ![f] = <<Cut>>]

Leave(f) ==
  /\ f \in following
  /\ following' = following \ {f}
  /\ UNCHANGED now
  /\ shown' = [shown EXCEPT ![f] = Blank]
  /\ owed' = [owed EXCEPT ![f] = <<>>]

\* One of the moments before the next cut is shown.
Show(f) ==
  /\ UNCHANGED <<following, now>>
  /\ \E i \in DOMAIN owed[f] :
       /\ \A j \in 1 .. i : owed[f][j] # Cut
       /\ shown' = [shown EXCEPT ![f] = owed[f][i].moment]
       /\ owed' = [owed EXCEPT ![f] = SubSeq(@, i + 1, Len(@))]

\* The first cut is reached.
Restart(f) ==
  /\ UNCHANGED <<following, now>>
  /\ shown' = [shown EXCEPT ![f] = Blank]
  /\ \E i \in DOMAIN owed[f] :
       /\ owed[f][i] = Cut
       /\ \A j \in 1 .. (i - 1) : owed[f][j] # Cut
       /\ owed' = [owed EXCEPT ![f] = SubSeq(@, i + 1, Len(@))]

\* The host gives way to another: those in "anew" start at once, the others
\* when they come to the cut.
Succeed(anew) ==
  /\ UNCHANGED following
  /\ shown' = [f \in Follower |-> IF f \in anew THEN Blank ELSE shown[f]]
  /\ owed' = [f \in Follower |-> CASE f \in anew -> <<>>
                                    [] f \in following \ anew -> Append(owed[f], Cut)
                                    [] OTHER -> owed[f]]

Next ==
  \/ Change \/ Tick
  \/ \E f \in Follower : Join(f) \/ Leave(f) \/ Show(f) \/ Restart(f)
  \/ \E anew \in SUBSET following : Succeed(anew)

Spec == Init /\ [][Next]_vars
=============================================================================
