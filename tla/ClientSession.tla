---------------------------- MODULE ClientSession ----------------------------
(* The interpreter of session commands, scene_v1::ClientSession, which a    *)
(* client of a party runs on what its host sends, and a replay on what was  *)
(* recorded.  A session is a record                                         *)
(*   objs      scenes_, nodes_, textures_, ...: what is in each slot        *)
(*   cmds      commands_, whole moments that wait to be shown               *)
(*   pending   commands_pending_, the start of a moment                     *)
(*   buffered  base_time_buffered_                                          *)
(*   ended     shutting_down_                                               *)
(*   mixed     history: a correction met another node than it was made for  *)
(* and this module has the functions from a session to the next.            *)
EXTENDS Integers, Sequences, SequencesExt, FiniteSetsExt, Functions, TLC

CONSTANTS
  ByteSize,   \* values of the byte that AddCommand reads of a step (256)
  MaxIndex    \* by kind, the last index that Update takes (100, 999, 10000)

\* FoldLeft by index, with each intermediate result worked out once.
Through(op(_, _), base, seq) ==
  LET after[i \in 0 .. Len(seq)] ==
        IF i = 0 THEN base
        ELSE CHOOSE r \in {op(s, seq[i]) : s \in {after[i - 1]}} : TRUE
  IN after[Len(seq)]

-----------------------------------------------------------------------------
(* A slot is a pair of a kind and an index.  "media" stands for textures,   *)
(* meshes, collision meshes, sounds and materials.  An object is known by   *)
(* "what", the how-manieth it is that the host made; no code looks at it.   *)

None == <<"none", 0>>
Kind(slot) == slot[1]

Kinds == {"scene", "media", "node"}
Slot == {slot \in Kinds \X Nat : slot[2] <= MaxIndex[Kind(slot)]}

Object(what, in) == [what |-> what, in |-> in, ref |-> None]

NoObjects == [slot \in {} |-> None]

Has(objs, slot) == slot \in DOMAIN objs

\* A slot is filled.
Filled(objs, slot, object) ==
  [s \in DOMAIN objs \cup {slot} |-> IF s = slot THEN object ELSE objs[s]]

\* Slots are emptied, and weak references to nodes in them with them.
Without(objs, slots) ==
  LET left == Restrict(objs, DOMAIN objs \ slots)
  IN [slot \in DOMAIN left |->
        IF Kind(left[slot].ref) = "node" /\ left[slot].ref \in slots
          THEN [left[slot] EXCEPT !.ref = None] ELSE left[slot]]

\* A scene owns its nodes, which go with it.
Nodes(objs, scene) ==
  {slot \in DOMAIN objs : Kind(slot) = "node" /\ objs[slot].in = scene}

-----------------------------------------------------------------------------
(* Commands and messages.                                                   *)

AddCmd(slot, object) == [type |-> "add", slot |-> slot, object |-> object]
RemoveCmd(slot) == [type |-> "remove", slot |-> slot]
SetCmd(node, ref) == [type |-> "set", slot |-> node, ref |-> ref]
StepCmd(diff) == [type |-> "step", diff |-> diff]
CorrectCmd(nodes) == [type |-> "correct", nodes |-> nodes]

ResetMsg == [type |-> "reset"]
CommandsMsg(cmds) == [type |-> "commands", cmds |-> cmds]
CorrectionMsg(nodes) == [type |-> "correction", nodes |-> nodes]

-----------------------------------------------------------------------------
(* Update runs one command.                                                 *)

NewClientSession ==
  [objs |-> NoObjects, cmds |-> <<>>, pending |-> <<>>, buffered |-> 0,
   ended |-> FALSE, mixed |-> FALSE]

\* An exception in Update ends the session.
Error(s) == [s EXCEPT !.ended = TRUE]

RunStepCmd(s, c) ==
  IF c.diff > 0 /\ s.buffered >= c.diff
    THEN [s EXCEPT !.buffered = @ - c.diff] ELSE Error(s)

\* The index must not be ridiculous, and the scene be there; an assert wants
\* the slot empty.
RunAdd(s, c) ==
  IF /\ c.slot[2] <= MaxIndex[Kind(c.slot)]
     /\ Kind(c.slot) # "scene" => Has(s.objs, c.object.in)
     /\ ~Has(s.objs, c.slot)
    THEN [s EXCEPT !.objs = Filled(@, c.slot, c.object)] ELSE Error(s)

RunRemove(s, c) ==
  IF Has(s.objs, c.slot)
    THEN [s EXCEPT !.objs = Without(@, {c.slot} \cup Nodes(@, c.slot))]
    ELSE Error(s)

\* The node and what its attribute is to refer to must be there.
RunSet(s, c) ==
  IF Has(s.objs, c.slot) /\ (c.ref = None \/ Has(s.objs, c.ref))
    THEN [s EXCEPT !.objs[c.slot].ref = c.ref] ELSE Error(s)

\* Whatever node is in the slot gets the position; none is no error.
RunCorrect(s, c) ==
  [s EXCEPT !.mixed =
     @ \/ \E n \in c.nodes :
            ~Has(s.objs, n.slot) \/ s.objs[n.slot].what # n.what]

RunCommand(s, c) ==
  IF s.ended THEN s
  ELSE CASE c.type = "step"    -> RunStepCmd(s, c)
         [] c.type = "add"     -> RunAdd(s, c)
         [] c.type = "remove"  -> RunRemove(s, c)
         [] c.type = "set"     -> RunSet(s, c)
         [] c.type = "correct" -> RunCorrect(s, c)

\* How far Update may run: its target time lets it stop after any step, and
\* it has to stop when there are no more commands.
Steps(cmds) == {i \in DOMAIN cmds : cmds[i].type = "step"}
Stops(cmds) == Steps(cmds) \cup (IF cmds = <<>> THEN {} ELSE {Len(cmds)})

Update(s, last) ==
  [Through(RunCommand, s, SubSeq(s.cmds, 1, last))
     EXCEPT !.cmds = SubSeq(s.cmds, last + 1, Len(s.cmds))]

-----------------------------------------------------------------------------
(* What arrives.                                                            *)

\* Mutant: commands are not held back.
AddCommandAtOnce(s, c) ==
  [s EXCEPT !.cmds = Append(@, c),
            !.buffered = @ + (IF c.type = "step" THEN c.diff % ByteSize ELSE 0)]

\* Commands are held back until the step that completes their moment; the
\* time of a step is read from its lowest byte.
AddCommand(s, c) ==
  LET held == Append(s.pending, c)
  IN IF c.type = "step"
       THEN [s EXCEPT !.cmds = @ \o held, !.pending = <<>>,
                      !.buffered = @ + (c.diff % ByteSize)]
       ELSE [s EXCEPT !.pending = held]

\* Mutant: the moments that wait are left.
ResetKeepsCommands(s) ==
  [NewClientSession EXCEPT !.ended = s.ended, !.mixed = s.mixed,
                           !.cmds = s.cmds, !.buffered = s.buffered]

\* A reset works at once, whatever waits.
Reset(s) == [NewClientSession EXCEPT !.ended = s.ended, !.mixed = s.mixed]

HandleSessionMessage(s, m) ==
  CASE m.type = "reset"      -> Reset(s)
    [] m.type = "commands"   -> Through(AddCommand, s, m.cmds)
    [] m.type = "correction" -> AddCommand(s, CorrectCmd(m.nodes))

-----------------------------------------------------------------------------
(* What a session can tell of itself: a message that makes what it has, and *)
(* one for each scene that has nodes that puts them where they are.         *)

OfKind(objs, kind) == {slot \in DOMAIN objs : Kind(slot) = kind}

\* In some order: all that matters of it is what is before what else.
Slots(objs, kind) == SetToSeq(OfKind(objs, kind))

\* The nodes that refer to something.
Referring(objs) == {n \in OfKind(objs, "node") : objs[n].ref # None}

DumpFullState(objs) ==
  LET there == Slots(objs, "scene") \o Slots(objs, "media") \o Slots(objs, "node")
      bound == SetToSeq(Referring(objs))
  IN CommandsMsg(
       [i \in DOMAIN there |->
          AddCmd(there[i], [objs[there[i]] EXCEPT !.ref = None])]
       \o [i \in DOMAIN bound |-> SetCmd(bound[i], objs[bound[i]].ref)])

GetCorrectionMessages(objs) ==
  LET scenes == SetToSeq({s \in OfKind(objs, "scene") : Nodes(objs, s) # {}})
  IN [i \in DOMAIN scenes |->
        CorrectionMsg({[slot |-> n, what |-> objs[n].what] :
                         n \in Nodes(objs, scenes[i])})]
=============================================================================
