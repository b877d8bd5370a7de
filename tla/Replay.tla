------------------------------ MODULE Replay ------------------------------
(* Replays: a session hands the assets thread what it sends, messages by    *)
(* way of calls (base/assets/assets_server.cc), and another session plays   *)
(* the file to itself and to the clients that watch along                   *)
(* (scene_v1/support/client_session_replay.cc).                             *)
(*                                                                          *)
(* A write may fail in the middle of a message.  A player saves its state   *)
(* now and then with the place in the file, to go back to.                  *)
EXTENDS ClientSession

CONSTANTS
  Script,       \* what may be recorded: sequences of [msg, size]
  Watcher,
  SaveGap,      \* kReplayStateDumpIntervalMillisecs
  QueueCap,     \* messages that may wait to be written (ten megabytes)
  Goals,        \* times that are sought
  MaxRecorded,  \* bound: recordings
  MaxFails,     \* bound: errors of the file system
  MaxPlays,     \* bound: times that a replay is played
  MaxSeeks,     \* bound: seeks
  MaxJoins,     \* bound: watchers that join
  MaxChannel    \* bound: messages on the way when the player reads another

-----------------------------------------------------------------------------
(* What a session comes to when it has heard the messages and run all that  *)
(* is complete, and then what is not.                                       *)

HearAndRun(s, m) ==
  LET heard == HandleSessionMessage(s, m) IN Update(heard, Len(heard.cmds))

\* A new session after messages.
Heard(msgs) == Through(HearAndRun, NewClientSession, msgs)

Outcome(s, msgs) ==
  LET heard == Through(HearAndRun, Update(s, Len(s.cmds)), msgs)
      rest == Through(RunCommand, heard, heard.pending)
  IN [objs |-> rest.objs, ended |-> rest.ended]

-----------------------------------------------------------------------------
(* What is recorded is what a session that works sends or is sent           *)
(* (SessionStream): it can be played from its start without an error, and   *)
(* whenever a moment is complete all that is in slots is in a scene that is *)
(* there, and nodes refer to what is there.                                 *)

Ref == Slot \cup {None}
Obj == [what : Nat, in : Ref, ref : Ref]

Cmd ==
  [type : {"add"}, slot : Slot, object : Obj]
    \cup [type : {"remove"}, slot : Slot]
    \cup [type : {"set"}, slot : Slot, ref : Ref]
    \cup [type : {"step"}, diff : 1 .. (ByteSize - 1)]
    \cup [type : {"correct"}, nodes : SUBSET [slot : Slot, what : Nat]]

Msg ==
  {ResetMsg}
    \cup [type : {"commands"}, cmds : Seq(Cmd)]
    \cup [type : {"correction"}, nodes : SUBSET [slot : Slot, what : Nat]]

Homes(objs) ==
  \A slot \in DOMAIN objs :
    /\ Kind(slot) # "scene" => objs[slot].in \in OfKind(objs, "scene")
    /\ objs[slot].ref # None => Kind(slot) = "node" /\ objs[slot].ref \in DOMAIN objs

Recordable == [msg : Msg, size : {"short", "mid", "edge", "long"}]

Msgs(items) == [i \in DOMAIN items |-> items[i].msg]

Works(msgs) ==
  /\ ~Outcome(NewClientSession, msgs).ended
  /\ Heard(msgs).pending = <<>> => Homes(Heard(msgs).objs)

ASSUME ScriptAssumption ==
  /\ ByteSize \in Nat /\ MaxIndex \in [Kinds -> Nat]
  /\ Script \subseteq Seq(Recordable)
  /\ \A script \in Script : \A n \in 0 .. Len(script) :
       Works(Msgs(SubSeq(script, 1, n)))

VARIABLES
  tape,      \* what the session that records has still to send
  calls,     \* the assets thread's queue of calls
  writer,    \* AssetsServer, see NewWriter
  disk,      \* __lastReplay.brp: [header, entries]
  stale,     \* history: what was left in the queue when the file was begun
  given,     \* history: what the writer was given for this file
  player,    \* ClientSessionReplay or NoPlayer
  watchers,  \* connections_to_clients_ of the player
  channel, session,  \* of each watcher, as in SessionStream
  lost,      \* history: watchers that were not told all
  used       \* what is used of each bound

recorder == <<tape, calls>>
assets == <<writer, disk, stale, given>>
theatre == <<player, watchers, channel, session, lost>>
vars == <<recorder, assets, theatre, used>>

Bound ==
  [recorded |-> MaxRecorded, fails |-> MaxFails, plays |-> MaxPlays,
   seeks |-> MaxSeeks, joins |-> MaxJoins]

Use(what) == used[what] < Bound[what] /\ used' = [used EXCEPT ![what] = @ + 1]

-----------------------------------------------------------------------------
(* The session that records.                                                *)

NoTape == [on |-> FALSE, left |-> <<>>]

NoPlayer == [on |-> FALSE]

BeginCall == [type |-> "begin"]
EndCall == [type |-> "end"]
AddCall(item) == [type |-> "add", item |-> item]

\* PushBeginWriteReplayCall, by a stream or a net client when it starts.
StartRecording ==
  /\ Use("recorded")
  /\ ~tape.on /\ ~player.on
  /\ \E script \in Script : tape' = [on |-> TRUE, left |-> script]
  /\ calls' = Append(calls, BeginCall)
  /\ UNCHANGED <<assets, theatre>>

\* PushAddMessageToReplayCall.
Record ==
  /\ tape.left # <<>>
  /\ tape' = [tape EXCEPT !.left = Tail(@)]
  /\ calls' = Append(calls, AddCall(Head(tape.left)))
  /\ UNCHANGED <<assets, theatre, used>>

\* PushEndWriteReplayCall, when the session ends, at any time.
StopRecording ==
  /\ tape.on
  /\ tape' = NoTape
  /\ calls' = Append(calls, EndCall)
  /\ UNCHANGED <<assets, theatre, used>>

-----------------------------------------------------------------------------
(* The assets thread.  The length of a message is written in one, three or  *)
(* five bytes: "len8" says which, "width" how many bytes follow it.  The    *)
(* test for len8 and that for the width disagree about 65535, "edge".       *)

NewWriter == [writing |-> FALSE, broken |-> FALSE, open |-> FALSE, queue |-> <<>>]

Len8(size) == CASE size = "short" -> 0 [] size = "mid" -> 254
                [] size \in {"edge", "long"} -> 255
Width(size) == CASE size = "short" -> 0 [] size \in {"mid", "edge"} -> 2
                 [] size = "long" -> 4

Entry(item) == [len8 |-> Len8(item.size), width |-> Width(item.size), msg |-> item.msg]
Entries(items) == [i \in DOMAIN items |-> Entry(items[i])]

Torn == [torn |-> TRUE]  \* the rest of an entry is missing

\* Mutant: what is written is written again.
WrittenButKept == [writer |-> writer, entries |-> Entries(writer.queue)]

\* WriteReplayMessages_, all going well.
Written == [writer |-> [writer EXCEPT !.queue = <<>>],
            entries |-> Entries(writer.queue)]

\* An error at the message after n: the file is closed, and the queue is left.
Failed(n) == [writer |-> [writer EXCEPT !.open = FALSE],
              entries |-> Append(Entries(SubSeq(writer.queue, 1, n)), Torn)]

\* What may come of WriteReplayMessages_, and its part of "used".
WriteReplayMessages(result) ==
  \/ /\ ~writer.open
     /\ result = [writer |-> writer, entries |-> <<>>]
     /\ UNCHANGED used
  \/ /\ writer.open
     /\ result = Written
     /\ UNCHANGED used
  \/ /\ writer.open
     /\ \E n \in 0 .. (Len(writer.queue) - 1) : result = Failed(n)
     /\ Use("fails")

Results ==
  {[writer |-> writer, entries |-> <<>>], Written}
    \cup {Failed(n) : n \in 0 .. (Len(writer.queue) - 1)}

OnDisk(entries) == [disk EXCEPT !.entries = @ \o entries]

NextCall(call) ==
  /\ calls # <<>> /\ Head(calls) = call
  /\ calls' = Tail(calls)
  /\ UNCHANGED <<tape, theatre>>

Ignored == UNCHANGED <<assets, used>>
Break == writer' = [writer EXCEPT !.broken = TRUE] /\ UNCHANGED <<disk, stale, given, used>>

NewFile(header) ==
  /\ disk' = [header |-> header, entries |-> <<>>]
  /\ stale' = writer.queue
  /\ given' = <<>>

\* The file is opened, cannot be, or can but does not take the header.
Begin(open) ==
  /\ writer' = [writer EXCEPT !.writing = TRUE, !.open = open]
  /\ \/ open /\ NewFile(TRUE) /\ UNCHANGED used
     \/ ~open /\ NewFile(FALSE) /\ Use("fails")
     \/ ~open /\ UNCHANGED <<disk, stale, given>> /\ Use("fails")

RunBegin ==
  /\ NextCall(BeginCall)
  /\ CASE writer.broken -> Ignored
       [] writer.writing -> Break
       [] OTHER -> \E open \in BOOLEAN : Begin(open)

\* Too much waits: the recording is given up.
Overflow ==
  /\ writer' = [writer EXCEPT !.open = FALSE, !.queue = <<>>]
  /\ UNCHANGED <<disk, stale, given, used>>

Take(item) ==
  /\ writer' = [writer EXCEPT !.queue = Append(@, item)]
  /\ given' = Append(given, item)
  /\ UNCHANGED <<disk, stale, used>>

RunAdd_(item) ==
  CASE writer.broken -> Ignored
    [] ~writer.broken /\ ~writer.writing -> Break
    [] writer.writing /\ ~writer.open -> Ignored
    [] writer.open /\ Len(writer.queue) > QueueCap -> Overflow
    [] OTHER -> Take(item)

RunAddMessage ==
  \E item \in {calls[i].item : i \in {j \in DOMAIN calls : calls[j].type = "add"}} :
    NextCall(AddCall(item)) /\ RunAdd_(item)

\* Mutant: the writer goes on as if writing.
ClosedStillWriting(w) == [w EXCEPT !.open = FALSE]

Closed(w) == [w EXCEPT !.open = FALSE, !.writing = FALSE]

RunEnd ==
  /\ NextCall(EndCall)
  /\ CASE writer.broken -> Ignored
       [] ~writer.broken /\ ~writer.writing -> Break
       [] OTHER -> /\ UNCHANGED <<stale, given>>
                   /\ \E result \in Results :
                        /\ WriteReplayMessages(result)
                        /\ writer' = Closed(result.writer)
                        /\ disk' = OnDisk(result.entries)

\* Process_, whenever its timer or preloading gets to it.
Process ==
  /\ writer.writing /\ writer.queue # <<>>
  /\ \E result \in Results :
       /\ WriteReplayMessages(result)
       /\ writer' = result.writer
       /\ disk' = OnDisk(result.entries)
  /\ UNCHANGED <<recorder, stale, given, theatre>>

-----------------------------------------------------------------------------
(* The player: its session, base_time(), whether it could read the header,  *)
(* how many entries it has read, states_, and whether Update is in its      *)
(* loop; for the history, whether it was restored from the middle of a      *)
(* moment.  While the writer has the file open what was written may not yet *)
(* be seen in it.                                                           *)

NewPlayer(header) ==
  [on |-> TRUE, session |-> NewClientSession, header |-> header, time |-> 0,
   pos |-> 0, states |-> <<>>, updating |-> FALSE, torn |-> FALSE]

\* OnReset with rewind: the file is opened again, and its header read.
Rewound(p) ==
  [p EXCEPT !.session = [Reset(p.session) EXCEPT !.ended = @ \/ ~p.header],
            !.time = 0, !.pos = 0, !.updating = FALSE, !.torn = FALSE]

Tell(msgs) ==
  channel' = [w \in Watcher |->
                IF w \in watchers THEN channel[w] \o msgs ELSE channel[w]]

\* Mutant: the watchers are not told that it starts again.
RewindUntold == UNCHANGED channel

RewindTold == Tell(<<ResetMsg>>)

Playing == player.on /\ ~player.session.ended

\* What was recorded last may not be written yet, but its file is begun.
LaunchReplaySession ==
  /\ Use("plays")
  /\ ~tape.on /\ ~player.on
  /\ \A i \in DOMAIN calls : calls[i] # BeginCall
  /\ \E header \in {disk.header, disk.header /\ ~writer.open} :
       player' = Rewound(NewPlayer(header))
  /\ UNCHANGED <<recorder, assets, watchers, channel, session, lost>>

EndReplaySession ==
  /\ player.on /\ ~player.updating
  /\ player' = NoPlayer
  /\ watchers' = {}
  /\ channel' = [w \in Watcher |-> <<>>]
  /\ session' = [w \in Watcher |-> NewClientSession]
  /\ lost' = {}
  /\ UNCHANGED <<recorder, assets, used>>

\* What is saved; commands that wait for the end of their moment are not.
Saved(p) ==
  [dump |-> DumpFullState(p.session.objs),
   corrections |-> GetCorrectionMessages(p.session.objs),
   pos |-> p.pos, time |-> p.time,
   torn |-> p.torn \/ p.session.pending # <<>>]

SaveState(p) ==
  LET last == IF p.states = <<>> THEN 0 ELSE Last(p.states).time
  IN IF p.time >= last + SaveGap THEN [p EXCEPT !.states = Append(@, Saved(p))]
     ELSE p

Readable(p) == p.pos < Len(disk.entries) /\ disk.entries[p.pos + 1] # Torn

\* The length is read as it was written.
InStep(entry) ==
  entry.width = (CASE entry.len8 = 0 -> 0 [] entry.len8 = 254 -> 2 [] OTHER -> 4)

\* A round of the loop of FetchMessages: the player has nothing to run.
Fetch ==
  /\ Playing /\ player.session.cmds = <<>>
  /\ \A w \in watchers : Len(channel[w]) < MaxChannel
  /\ UNCHANGED <<recorder, assets, used>>

\* The end of the file is a command that rewinds.
ReadEnd ==
  /\ Fetch
  /\ ~Readable(player) \/ writer.open
  /\ player' = Rewound(SaveState(player))
  /\ RewindTold
  /\ UNCHANGED <<watchers, session, lost>>

\* With a length of the wrong width comes the end of the file or nonsense.
ReadGarbage ==
  /\ Fetch
  /\ Readable(player)
  /\ ~InStep(disk.entries[player.pos + 1])
  /\ \/ /\ player' = Rewound(SaveState(player))
        /\ RewindTold
     \/ /\ player' = [player EXCEPT !.session = Error(@), !.updating = FALSE]
        /\ UNCHANGED channel
  /\ UNCHANGED <<watchers, session, lost>>

ReadMessage ==
  LET entry == disk.entries[player.pos + 1]
      m == entry.msg
  IN /\ Fetch
     /\ Readable(player) /\ InStep(entry)
     /\ player' = [SaveState(player)
                     EXCEPT !.session = HandleSessionMessage(@, m),
                            !.time = IF m = ResetMsg THEN 0 ELSE @,
                            !.pos = @ + 1, !.updating = TRUE]
     /\ Tell(IF m = ResetMsg THEN <<ResetMsg, m>> ELSE <<m>>)
     /\ UNCHANGED <<watchers, session, lost>>

\* The commands up to a step, after which the target time may be reached.
RunMoment ==
  LET cmds == player.session.cmds
      last == Min(Steps(cmds))
  IN /\ Playing /\ cmds # <<>>
     /\ player' = [player EXCEPT !.session = Update(@, last),
                                 !.time = @ + cmds[last].diff,
                                 !.updating = FALSE]
     /\ UNCHANGED <<recorder, assets, watchers, channel, session, lost, used>>

\* Mutant: what the session has is left when it is restored.
RestoredOver(p, saved) ==
  [p EXCEPT !.session = Through(HandleSessionMessage, @,
                                <<saved.dump>> \o saved.corrections),
            !.time = saved.time, !.pos = saved.pos, !.torn = saved.torn]

\* RestoreFromCurrentState.
Restored(p, saved) ==
  [Rewound(p) EXCEPT
     !.session = Through(HandleSessionMessage, @,
                         <<saved.dump>> \o saved.corrections),
     !.time = saved.time, !.pos = saved.pos, !.torn = saved.torn]

\* Back to the last state before the goal, or the start; or on to the first
\* one after it, or the last there is and fast from there.
Before(goal) == {i \in DOMAIN player.states : player.states[i].time <= goal}
After(goal) == {i \in DOMAIN player.states : player.states[i].time >= goal}
Found(goal) ==
  IF goal < player.time
    THEN IF Before(goal) = {} THEN {} ELSE {Max(Before(goal))}
    ELSE IF After(goal) # {} THEN {Min(After(goal))}
         ELSE IF player.states = <<>> THEN {} ELSE {Len(player.states)}

SeekTo(goal) ==
  /\ Use("seeks")
  /\ Playing /\ ~player.updating
  /\ \/ /\ Found(goal) = {} /\ goal < player.time
        /\ player' = Rewound(player)
        /\ RewindTold
        /\ UNCHANGED lost
     \/ /\ Found(goal) = {} /\ goal >= player.time
        /\ UNCHANGED <<player, channel, lost>>
     \/ \E i \in Found(goal) :
          /\ player' = Restored(player, player.states[i])
          /\ RewindTold
          /\ lost' = watchers
  /\ UNCHANGED <<recorder, assets, watchers, session>>

-----------------------------------------------------------------------------
(* Those who watch along.                                                   *)

OnClientConnected(w) ==
  LET s == player.session
      corrections == GetCorrectionMessages(s.objs)
  IN /\ Use("joins")
     /\ player.on /\ ~player.updating /\ w \notin watchers
     /\ watchers' = watchers \cup {w}
     /\ channel' = [v \in Watcher |->
                      CASE v = w -> <<ResetMsg, DumpFullState(s.objs)>> \o corrections
                        [] v \in watchers \ {w} -> channel[v] \o corrections
                        [] OTHER -> channel[v]]
     /\ lost' = IF ~player.torn /\ s.cmds \o s.pending = <<>> THEN lost ELSE lost \cup {w}
     /\ UNCHANGED <<recorder, assets, player, session>>

OnClientDisconnected(w) ==
  /\ w \in watchers /\ ~player.updating
  /\ watchers' = watchers \ {w}
  /\ channel' = [channel EXCEPT ![w] = <<>>]
  /\ session' = [session EXCEPT ![w] = NewClientSession]
  /\ lost' = lost \ {w}
  /\ UNCHANGED <<recorder, assets, player, used>>

Receive(w) ==
  /\ channel[w] # <<>>
  /\ channel' = [channel EXCEPT ![w] = Tail(@)]
  /\ session' = [session EXCEPT ![w] = HandleSessionMessage(@, Head(channel[w]))]
  /\ UNCHANGED <<recorder, assets, player, watchers, lost, used>>

UpdateSession(w) ==
  /\ ~session[w].ended
  /\ \E last \in Stops(session[w].cmds) :
       session' = [session EXCEPT ![w] = Update(@, last)]
  /\ UNCHANGED <<recorder, assets, player, watchers, channel, lost, used>>

-----------------------------------------------------------------------------
Init ==
  /\ tape = NoTape /\ calls = <<>>
  /\ writer = NewWriter /\ disk = [header |-> FALSE, entries |-> <<>>]
  /\ stale = <<>> /\ given = <<>>
  /\ player = NoPlayer /\ watchers = {} /\ lost = {}
  /\ channel = [w \in Watcher |-> <<>>]
  /\ session = [w \in Watcher |-> NewClientSession]
  /\ used = [what \in DOMAIN Bound |-> 0]

Next ==
  \/ StartRecording \/ Record \/ StopRecording
  \/ RunBegin \/ RunAddMessage \/ RunEnd \/ Process
  \/ LaunchReplaySession \/ EndReplaySession
  \/ ReadEnd \/ ReadGarbage \/ ReadMessage \/ RunMoment
  \/ \E goal \in Goals : SeekTo(goal)
  \/ \E w \in Watcher :
       \/ OnClientConnected(w) \/ OnClientDisconnected(w)
       \/ Receive(w) \/ UpdateSession(w)

Spec == Init /\ [][Next]_vars
-----------------------------------------------------------------------------
\* The player reads one recording from its start.
Sound == player.header /\ stale = <<>>

-----------------------------------------------------------------------------
(* Properties.                                                              *)

\* The calls of one recording after another leave the writer in order: it is
\* never broken, and the files are open only while it writes.
TypeOK ==
  /\ ~writer.broken
  /\ writer.open => writer.writing
  /\ calls = <<>> => writer.writing = tape.on
  /\ watchers \subseteq Watcher /\ lost \subseteq watchers
  /\ watchers # {} => player.on
  /\ \A w \in Watcher \ watchers : channel[w] = <<>>

\* What is in a file before an error.
Whole(entries) ==
  IF entries # <<>> /\ Last(entries) = Torn THEN Front(entries) ELSE entries

\* Whatever fails, the file holds what it was given and nothing else, in order
\* and each once, after what an earlier failure left in the queue; and what is
\* not in the file of a recording that goes on is in the queue.
FileIsRecording ==
  LET whole == Whole(disk.entries)
      due == Entries(stale \o given)
  IN /\ writer.open => whole \o Entries(writer.queue) = due
     /\ disk.header => IsPrefix(whole, due)
     /\ stale # <<>> => used.fails > 0

\* However it got there, by playing, seeking back and forth, or around the end,
\* a player that could read the header has what playing the file from its start
\* to the same place gives, and no error but for a length that is not read as
\* written; unless it was restored from the middle of a moment.
PlaysTrue ==
  player.on /\ Sound /\ ~player.torn =>
    /\ LET heard == Msgs(SubSeq(disk.entries, 1, player.pos))
       IN Playing =>
            Outcome(player.session, <<>>) = Outcome(NewClientSession, heard)
    /\ player.session.ended =>
         \E i \in DOMAIN disk.entries :
           disk.entries[i] # Torn /\ ~InStep(disk.entries[i])

\* One who watches along comes to the same as the player, unless it joined while
\* commands waited at the player or after it was restored from the middle of a
\* moment, or the player was restored since it joined.
WatchersFollow ==
  Playing /\ stale = <<>> => \A w \in watchers \ lost :
    Outcome(session[w], channel[w]) = Outcome(player.session, <<>>)
=============================================================================
