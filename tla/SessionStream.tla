---------------------------- MODULE SessionStream ----------------------------
(* A host session's output stream (scene_v1/support/session_stream.cc) with *)
(* the session that feeds it and the clients that it feeds.                 *)
(*                                                                          *)
(* Whatever the host session does to its scenes is written as commands to   *)
(* out_message_, which is shipped at a time step.  A client that joins in   *)
(* the middle is sent the whole state; corrections of positions go to all.  *)
(* Reliable messages arrive once and in order, which Connection has.        *)
EXTENDS ClientSession, FiniteSets

CONSTANTS
  Client,
  StepCap,    \* the longest step that SetTime writes (255)
  Gaps,       \* by how much the time of the host may advance
  MaxDone     \* bound: changes to scenes, time steps, joins and host sessions

ASSUME StreamAssumption ==
  /\ ByteSize \in Nat
  /\ StepCap \in 1 .. (ByteSize - 1)
  /\ Gaps \subseteq Nat \ {0}
  /\ MaxIndex \in [Kinds -> Nat]

VARIABLES
  host,      \* the host session and its stream, see NewHost
  made,      \* history: objects made
  clients,   \* connections_to_clients_
  channel,   \* for each client, the messages under way
  session,   \* for each client, its client session
  promised,  \* history: for each client, the moments that it is owed
  done       \* history: how much of MaxDone is used

vars == <<host, made, clients, channel, session, promised, done>>

-----------------------------------------------------------------------------
(* The stream: the host's objects by slot, owners of nodes (which no        *)
(* command carries), the lists of slots by kind, and out_message_.          *)

NewHost ==
  [objs |-> NoObjects, owner |-> NoObjects, size |-> [k \in Kinds |-> 0],
   free |-> [k \in Kinds |-> <<>>], out |-> <<>>]

\* EndCommand.
Write(h, c) == [h EXCEPT !.out = Append(@, c)]

\* Mutant: the index that has been free longest is given, the last one taken.
GetFirstFreeIndex(h, kind) ==
  IF h.free[kind] # <<>> THEN Head(h.free[kind]) ELSE h.size[kind]

GetFreeIndex(h, kind) ==
  IF h.free[kind] # <<>> THEN Last(h.free[kind]) ELSE h.size[kind]

TakeIndex(h, kind) ==
  IF h.free[kind] # <<>> THEN [h EXCEPT !.free[kind] = Front(@)]
  ELSE [h EXCEPT !.size[kind] = @ + 1]

\* AddScene, AddTexture, AddNode and the like.
AddObject(h, kind, object) ==
  LET slot == <<kind, GetFreeIndex(h, kind)>>
  IN Write([TakeIndex(h, kind) EXCEPT !.objs = Filled(@, slot, object)],
           AddCmd(slot, object))

\* RemoveScene, RemoveTexture, RemoveNode and the like.
RemoveObject(h, slot) ==
  Write([h EXCEPT !.objs = Without(@, {slot}),
                  !.owner = Restrict(@, DOMAIN @ \ {slot}),
                  !.free[Kind(slot)] = Append(@, slot[2])],
        RemoveCmd(slot))

\* What the host has of a kind in a scene, in some order.
InScene(objs, kind, scene) == {slot \in OfKind(objs, kind) : objs[slot].in = scene}
HostSlotsIn(h, kind, scene) == SetToSeq(InScene(h.objs, kind, scene))

\* ~HostActivity, and ~HostSession for its own scene: the media are marked
\* dead, then the scene goes, with its nodes first.
RemoveScene(h, scene) ==
  Through(RemoveObject, h,
          HostSlotsIn(h, "media", scene) \o HostSlotsIn(h, "node", scene) \o <<scene>>)

RemoveAll(h) ==
  Through(RemoveScene, h, Slots(h.objs, "scene"))
-----------------------------------------------------------------------------
(* What a client is owed, for the history: see Broadcast.                 *)

Moment(objs) == [moment |-> objs]
Cut == [cut |-> TRUE]

-----------------------------------------------------------------------------
(* What is sent.                                                            *)

\* ShipSessionCommandsMessage, as Flush has it.
Shipped(h) == IF h.out = <<>> THEN <<>> ELSE <<CommandsMsg(h.out)>>

\* DumpFullState into a stream of its own: scene by scene what is there, all
\* nodes before the attributes that refer to them.
DumpScene(h, scene) ==
  LET there == <<scene>> \o HostSlotsIn(h, "media", scene) \o HostSlotsIn(h, "node", scene)
      bound == SetToSeq({n \in InScene(h.objs, "node", scene) : h.objs[n].ref # None})
  IN [i \in DOMAIN there |->
        AddCmd(there[i], [h.objs[there[i]] EXCEPT !.ref = None])]
       \o [i \in DOMAIN bound |-> SetCmd(bound[i], h.objs[bound[i]].ref)]

DumpInto(dump, scene) == [dump EXCEPT !.cmds = @ \o DumpScene(dump.of, scene)]

Dump(h) ==
  LET cmds == Through(DumpInto, [of |-> h, cmds |-> <<>>], Slots(h.objs, "scene")).cmds
  IN IF cmds = <<>> THEN <<>> ELSE <<CommandsMsg(cmds)>>

\* To all connections.
ToClients(msgs) ==
  [c \in Client |-> IF c \in clients THEN channel[c] \o msgs ELSE channel[c]]

-----------------------------------------------------------------------------
(* The host session at work.                                                *)

Objects(kind) == OfKind(host.objs, kind)

Counted == done < MaxDone /\ done' = done + 1

Works == Counted /\ UNCHANGED <<clients, channel, session, promised>>

\* The host enforces no limit of its own (a FIXME of Update): games have to
\* keep to fewer objects than clients have indices for.
IndexLeft(kind) == Cardinality(Objects(kind)) <= MaxIndex[kind]

\* A scene, or something in a scene, is made: it may have an owner.
Make(kind, in, owners) ==
  /\ IndexLeft(kind)
  /\ made' = made + 1
  /\ LET slot == <<kind, GetFreeIndex(host, kind)>>
     IN host' = [AddObject(host, kind, Object(made + 1, in))
                   EXCEPT !.owner = IF owners = {} THEN @
                                    ELSE Filled(@, slot, CHOOSE o \in owners : TRUE)]
  /\ Works

NewScene == Make("scene", None, {})
NewMedia == \E scene \in Objects("scene") : Make("media", scene, {})
NewNode ==
  \E scene \in Objects("scene") :
    \E owners \in {{}} \cup {{n} : n \in Nodes(host.objs, scene)} :
      Make("node", scene, owners)

\* The activity ends; the session's own scene, the first, stays.
EndActivity(scene) ==
  /\ scene # <<"scene", 0>>
  /\ host' = RemoveScene(host, scene)
  /\ UNCHANGED made /\ Works

\* Nothing refers to a texture or the like any more.
DropMedia(slot) ==
  /\ \A n \in Objects("node") : host.objs[n].ref # slot
  /\ host' = RemoveObject(host, slot)
  /\ UNCHANGED made /\ Works

\* A node's attribute is set to something of the same scene, or to nothing.
SetNodeAttr(node, ref) ==
  /\ ref # None => host.objs[ref].in = host.objs[node].in
  /\ host' = Write([host EXCEPT !.objs[node].ref = ref], SetCmd(node, ref))
  /\ UNCHANGED made /\ Works

\* Scene::DeleteNode: the node, then those that depend on it.
Dependents(h, node) ==
  Through(LAMBDA found, i : found \cup {n \in DOMAIN h.owner : h.owner[n] \in found},
           {node}, Slots(h.objs, "node"))

DeleteNode(node) ==
  LET others == (Dependents(host, node) \cap Objects("node")) \ {node}
      order == <<node>> \o SetToSeq(others)
  IN /\ host' = Through(RemoveObject, host, order)
     /\ UNCHANGED made /\ Works

\* Mutant: corrections are sent before what they are about.
DueCorrectionsFirst(h, sends) ==
  CASE sends = "nothing"     -> <<>>
    [] sends = "commands"    -> Shipped(h)
    [] sends = "corrections" -> GetCorrectionMessages(h.objs) \o Shipped(h)

\* A step is shipped when enough real time has passed since the last message,
\* and then corrections when more has since the last ones.
Due(h, sends) ==
  CASE sends = "nothing"     -> <<>>
    [] sends = "commands"    -> Shipped(h)
    [] sends = "corrections" -> Shipped(h) \o GetCorrectionMessages(h.objs)

\* Mutant: steps are not cut.
StepUncut(gap) == gap

\* More than a byte holds is cut.
Step(gap) == IF gap > StepCap THEN StepCap ELSE gap

\* SetTime, when HostSession::Update moves the time on by gap.
SetTime(gap, sends) ==
  LET stepped == Write(host, StepCmd(Step(gap)))
      msgs == Due(stepped, sends)
  IN /\ Counted
     /\ channel' = ToClients(msgs)
     /\ host' = IF msgs = <<>> THEN stepped ELSE [stepped EXCEPT !.out = <<>>]
     /\ promised' = [c \in Client |->
                        IF c \in clients
                          THEN Append(promised[c], Moment(host.objs)) ELSE <<>>]
     /\ UNCHANGED <<made, clients, session>>

-----------------------------------------------------------------------------
(* Clients come and go, and host sessions.                                  *)

\* SetController and OnClientConnected: what is pending goes to the others
\* first, as the joiner gets its outcome with the dump.
OnClientConnected(c) ==
  LET toOthers == Shipped(host) \o GetCorrectionMessages(host.objs)
      toJoiner == <<ResetMsg>> \o Dump(host) \o GetCorrectionMessages(host.objs)
  IN /\ c \notin clients
     /\ Counted
     /\ clients' = clients \cup {c}
     /\ channel' = [ToClients(toOthers) EXCEPT ![c] = toJoiner]
     /\ host' = [host EXCEPT !.out = <<>>]
     /\ promised' = [promised EXCEPT ![c] = <<Cut>>]
     /\ UNCHANGED <<made, session>>

\* The connection ends, and the client's session with it.
OnClientDisconnected(c) ==
  /\ c \in clients
  /\ clients' = clients \ {c}
  /\ channel' = [channel EXCEPT ![c] = <<>>]
  /\ session' = [session EXCEPT ![c] = NewClientSession]
  /\ promised' = [promised EXCEPT ![c] = <<>>]
  /\ UNCHANGED <<host, made, done>>

\* LaunchHostSession: the old session is taken down and its stream flushed;
\* the new stream resets the clients before anything is there to dump.
LaunchHostSession ==
  /\ Counted
  /\ made' = made + 1
  /\ channel' = ToClients(Shipped(RemoveAll(host)) \o <<ResetMsg>>)
  /\ host' = AddObject(NewHost, "scene", Object(made + 1, None))
  /\ promised' = [c \in Client |->
                     IF c \in clients THEN Append(promised[c], Cut) ELSE <<>>]
  /\ UNCHANGED <<clients, session>>

-----------------------------------------------------------------------------
(* A client.                                                                *)

\* A reset is the first cut that is owed; what is owed before it is lost.
AfterCut(owed) == SubSeq(owed, SelectInSeq(owed, LAMBDA e : e = Cut) + 1, Len(owed))

Receive(c) ==
  LET m == Head(channel[c]) IN
  /\ channel[c] # <<>>
  /\ channel' = [channel EXCEPT ![c] = Tail(@)]
  /\ session' = [session EXCEPT ![c] = HandleSessionMessage(@, m)]
  /\ promised' = IF m = ResetMsg
                   THEN [promised EXCEPT ![c] = AfterCut(@)] ELSE promised
  /\ UNCHANGED <<host, made, clients, done>>

\* Update runs commands up to some step, as far as its target time has come.
UpdateSession(c) ==
  /\ ~session[c].ended
  /\ \E last \in Stops(session[c].cmds) :
       LET shows == Cardinality({i \in Steps(session[c].cmds) : i <= last})
       IN /\ session' = [session EXCEPT ![c] = Update(@, last)]
          /\ promised' = [promised EXCEPT ![c] = SubSeq(@, shows + 1, Len(@))]
  /\ UNCHANGED <<host, made, clients, channel, done>>

-----------------------------------------------------------------------------
Init ==
  /\ host = AddObject(NewHost, "scene", Object(1, None))
  /\ made = 1
  /\ clients = {}
  /\ channel = [c \in Client |-> <<>>]
  /\ session = [c \in Client |-> NewClientSession]
  /\ promised = [c \in Client |-> <<>>]
  /\ done = 0

Next ==
  \/ NewScene \/ NewMedia \/ NewNode
  \/ \E scene \in Objects("scene") : EndActivity(scene)
  \/ \E slot \in Objects("media") : DropMedia(slot)
  \/ \E node \in Objects("node") :
       \/ \E ref \in {None} \cup Objects("media") \cup Objects("node") :
            SetNodeAttr(node, ref)
       \/ DeleteNode(node)
  \/ \E gap \in Gaps, sends \in {"nothing", "commands", "corrections"} :
       SetTime(gap, sends)
  \/ \E c \in Client :
       \/ OnClientConnected(c) \/ OnClientDisconnected(c)
       \/ Receive(c) \/ UpdateSession(c)
  \/ LaunchHostSession

Spec == Init /\ [][Next]_vars
-----------------------------------------------------------------------------
(* What is on its way to a client: its session as it will be when it has  *)
(* heard and run everything, and the moments it will have been through.     *)

Collect(a, c) ==
  LET after == RunCommand(a.session, c)
  IN [session |-> after,
      owed |-> IF c.type = "step" THEN Append(a.owed, Moment(after.objs))
               ELSE a.owed]

RunAll(a) == Through(Collect, [a EXCEPT !.session.cmds = <<>>], a.session.cmds)

Hear(a, m) ==
  RunAll([session |-> HandleSessionMessage(a.session, m),
          owed |-> IF m.type = "reset" THEN Append(a.owed, Cut)
                   ELSE a.owed])

UnderWay(c) == IF c \in clients THEN channel[c] \o Shipped(host) ELSE <<>>

Ahead(c) ==
  Through(Hear, RunAll([session |-> session[c], owed |-> <<>>]), UnderWay(c))

-----------------------------------------------------------------------------
(* Properties.                                                              *)

ObjectType ==
  [what : 1 .. made, in : Slot \cup {None}, ref : Slot \cup {None}]

\* Objects are in their slots, and an index of a list is either in use or free
\* exactly once, whatever was removed by whom.
TypeOK ==
  /\ \A slot \in DOMAIN host.objs :
       slot \in Slot /\ host.objs[slot] \in ObjectType
  /\ \A k \in Kinds :
       LET used == {slot[2] : slot \in Objects(k)}
           free == {host.free[k][i] : i \in DOMAIN host.free[k]}
       IN /\ used \cup free = 0 .. (host.size[k] - 1)
          /\ used \cap free = {}
          /\ Len(host.free[k]) = Cardinality(free)
  /\ clients \subseteq Client
  /\ \A c \in Client \ clients :
       channel[c] = <<>> /\ session[c] = NewClientSession
  /\ \A c \in Client : session[c].buffered \in Nat

\* No command meets a slot that is not as the host thought, and no step more
\* time than was counted: the commands never end a client's session, nor will
\* any that is on its way.
NoClientErrors == \A c \in Client : ~Ahead(c).session.ended

\* A correction is run when the nodes that it is about are there, and not
\* others in their slots: it does not overtake commands, nor they it.
CorrectionsFit == \A c \in Client : ~Ahead(c).session.mixed

\* What waits at a client, is on its way to it and is in out_message_ makes
\* it go through just the moments that it is owed, however it joined.
PromiseKept == \A c \in Client : Ahead(c).owed = promised[c]

\* A client shows a moment of its host or nothing: those that it is owed, in
\* order and whole, none from before it joined or from another host session.
Broadcasting ==
  INSTANCE Broadcast WITH
    Follower <- Client,
    Blank <- NoObjects,
    following <- clients,
    now <- host.objs,
    owed <- promised,
    shown <- [c \in Client |-> session[c].objs]

ImplementsBroadcast == Broadcasting!Spec
=============================================================================
