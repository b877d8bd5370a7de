------------------------------ MODULE Multipart ------------------------------
(***************************************************************************)
(* Messages that do not fit a packet: SendReliableMessage cuts them into   *)
(* parts and HandleMessagePacket puts the parts together again             *)
(* (scene_v1/connection/connection.cc), and the host refuses a client      *)
(* whose message grows too long (connection_to_client.cc).                 *)
(*                                                                         *)
(* Between the two ends is the ordered, lossless channel that module       *)
(* Connection implements, in one direction.  An arriving packet may fill a *)
(* gap and so release a run of messages, which ProcessWaitingMessages then *)
(* hands on one by one, whatever becomes of the connection meanwhile.      *)
(*                                                                         *)
(* A byte is the pair of the message and its place in it; the first byte   *)
(* is the type.                                                            *)
(***************************************************************************)
EXTENDS Naturals, Sequences

CONSTANTS
  Sizes,      \* sizes of the messages that are sent
  MaxSize,    \* the greatest message that is sent whole (480)
  MaxBuffer,  \* the greatest buffer to which the host adds (50000)
  MaxSent     \* bound: messages that are sent

ASSUME SizeAssumption ==
  /\ Sizes \subseteq Nat \ {0}
  /\ MaxSize \in Nat \ {0, 1}
  /\ MaxBuffer \in Nat
  /\ MaxSent \in Nat

VARIABLES
  sizes,    \* history: the sizes of the messages sent so far
  channel,  \* messages under way
  waiting,  \* the run of messages that ProcessWaitingMessages works through
  buffer,   \* multipart_buffer_
  errored,  \* errored_
  handled   \* history: the messages that reached the game

vars == <<sizes, channel, waiting, buffer, errored, handled>>

\* A message proper: the bytes <<id, 1>> to <<id, size>>.
Bytes(id, first, last) == [i \in 1 .. (last - first + 1) |-> <<id, first + i - 1>>]

Plain(bytes) == [type |-> "GAME", bytes |-> bytes]
Part(bytes) == [type |-> "MULTIPART", bytes |-> bytes]
LastPart(bytes) == [type |-> "MULTIPART_END", bytes |-> bytes]

\* A part has room for one byte less than a packet: its own type.
PartSize == MaxSize - 1

\* What goes out for message id: part i starts after i - 1 full parts, and
\* the first part that would reach the end is the last.
Packets(id, size) ==
  LET full == (size - 1) \div PartSize IN
    IF size <= MaxSize THEN <<Plain(Bytes(id, 1, size))>>
    ELSE Append([i \in 1 .. full |->
                   Part(Bytes(id, (i - 1) * PartSize + 1, i * PartSize))],
                LastPart(Bytes(id, full * PartSize + 1, size)))

Init ==
  /\ sizes = <<>>
  /\ channel = <<>>
  /\ waiting = <<>>
  /\ buffer = <<>>
  /\ errored = FALSE
  /\ handled = <<>>

SendReliableMessage ==
  \E size \in Sizes :
    /\ Len(sizes) < MaxSent
    /\ sizes' = Append(sizes, size)
    /\ channel' = channel \o Packets(Len(sizes) + 1, size)
    /\ UNCHANGED <<waiting, buffer, errored, handled>>

\* A packet arrives that lets the next n messages be handed on.
Arrive ==
  \E n \in 1 .. Len(channel) :
    /\ waiting = <<>>
    /\ ~errored
    /\ waiting' = SubSeq(channel, 1, n)
    /\ channel' = SubSeq(channel, n + 1, Len(channel))
    /\ UNCHANGED <<sizes, buffer, errored, handled>>

HandlePlain(m) ==
  /\ m.type = "GAME"
  /\ handled' = Append(handled, m.bytes)
  /\ UNCHANGED <<buffer, errored>>

\* Mutant: no limit.
HandlePartUnlimited(m) ==
  /\ m.type = "MULTIPART"
  /\ buffer' = buffer \o m.bytes
  /\ UNCHANGED <<errored, handled>>

\* A part for a buffer that is too long already is an Error, and not kept.
HandlePart(m) ==
  /\ m.type = "MULTIPART"
  /\ IF Len(buffer) > MaxBuffer
       THEN errored' = TRUE /\ UNCHANGED buffer
       ELSE buffer' = buffer \o m.bytes /\ UNCHANGED errored
  /\ UNCHANGED handled

\* Mutant: multipart_buffer_ is not cleared.
HandleLastPartUncleared(m) ==
  /\ m.type = "MULTIPART_END"
  /\ handled' = Append(handled, buffer \o m.bytes)
  /\ buffer' = buffer \o m.bytes
  /\ UNCHANGED errored

HandleLastPart(m) ==
  /\ m.type = "MULTIPART_END"
  /\ handled' = Append(handled, buffer \o m.bytes)
  /\ buffer' = <<>>
  /\ UNCHANGED errored

HandleMessagePacket ==
  /\ waiting # <<>>
  /\ waiting' = Tail(waiting)
  /\ \/ HandlePlain(Head(waiting))
     \/ HandlePart(Head(waiting))
     \/ HandleLastPart(Head(waiting))
  /\ UNCHANGED <<sizes, channel>>

Next == SendReliableMessage \/ Arrive \/ HandleMessagePacket

Spec == Init /\ [][Next]_vars

-----------------------------------------------------------------------------
\* What the game gets are the messages as they were sent, whole and in order
\* (connection.cc:278-280: messages of any size are broken up and
\* "transparently re-assembled on the other end").  Only a client that is
\* refused may be misheard: the rest of a run is handed on after the Error, and
\* with it the end of a message whose middle was dropped.
OnlyWholeMessages ==
  ~errored => \A i \in DOMAIN handled : handled[i] = Bytes(i, 1, sizes[i])

\* The host gives up a client only for a message beyond the limit, and what
\* it holds for one client stays within one part of the limit.
LimitIsFair ==
  /\ errored => \E i \in DOMAIN sizes : sizes[i] > MaxBuffer
  /\ Len(buffer) <= MaxBuffer + PartSize
=============================================================================
