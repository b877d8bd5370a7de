----------------------------- MODULE Connection -----------------------------
(***************************************************************************)
(* The reliable transport that the host and the client of a party run over *)
(* UDP: class Connection of scene_v1/connection/connection.{h,cc}.  Both   *)
(* ends run the same code, so every variable is a function of the end it   *)
(* belongs to.  Messages are numbered modulo 2^16 and acknowledged by      *)
(* every packet: the next number wanted, plus a bit for each of the eight  *)
(* numbers after it that is already held.                                  *)
(*                                                                         *)
(* Content: the k-th reliable message an end sends has the content k, so   *)
(* that order, loss and duplication are visible in what is delivered.      *)
(*                                                                         *)
(* Time: the code compares the clock with stamps.  Here a stamp is the     *)
(* answer the comparison gives: a record is "ripe" once its resend time    *)
(* has gone by, an end is "quiet" once kKeepaliveDelay has gone by since   *)
(* it last embedded acks, and a record is pruned in any Update, the        *)
(* oldest first, when pruning is allowed at all (PruneAllowed).            *)
(***************************************************************************)
EXTENDS Integers, Sequences, FiniteSets, Functions

CONSTANTS
  Endpoint,      \* the two ends of the connection
  Peer,          \* the other end of each end
  NumCount,      \* number of message numbers (2^16: the numbers are uint16_t)
  FirstNum,      \* kFirstConnectionStateNum (65520)
  PastDistance,  \* a greater difference means "in the past" (32000)
  AckBits,       \* how many later messages an ack describes (8)
  Window,        \* see Young: the most messages sent while anything old lives
  PruneAllowed,  \* whether anything ever becomes older than kPacketPruneTime
  Mortal,        \* the ends that may be destroyed while the other goes on
  MaxSend,       \* bound: reliable messages an end sends
  MaxUnreliable, \* bound: unreliable messages an end sends in a row
  NetCap         \* bound: packets under way to an end when one more is sent

Num == 0 .. (NumCount - 1)

ASSUME PeerAssumption ==
  /\ Peer \in [Endpoint -> Endpoint]
  /\ \A e \in Endpoint : Peer[e] # e /\ Peer[Peer[e]] = e

ASSUME NumAssumption ==
  /\ NumCount \in Nat \ {0}
  /\ FirstNum \in Num
  /\ PastDistance \in Nat
  /\ AckBits \in Nat
  /\ Window \in Nat
  /\ Window + AckBits < NumCount

ASSUME BoundAssumption ==
  /\ PruneAllowed \in BOOLEAN
  /\ Mortal \subseteq Endpoint
  /\ MaxSend \in [Endpoint -> Nat]
  /\ MaxUnreliable \in [Endpoint -> 0 .. (NumCount - 1)]
  /\ NetCap \in Nat

VARIABLES
  nextOut,    \* next_out_message_num_
  nextOutU,   \* next_out_unreliable_message_num_
  out,        \* out_messages_: number -> content, acked, ripe
  nextIn,     \* next_in_message_num_
  nextInU,    \* next_in_unreliable_message_num_
  in,         \* in_messages_: number -> content
  quiet,      \* no ack embedded for more than kKeepaliveDelay
  canComm,    \* can_communicate_
  errored,    \* errored_
  dying,      \* connection_dying_
  net,        \* packets under way to each end
  sent,       \* history: how many reliable messages each end has sent
  delivered,  \* history: reliable messages given to HandleMessagePacket
  deliveredU  \* history: the same for unreliable ones, with their place

sendVars == <<nextOut, nextOutU, sent>>
recvVars == <<nextIn, nextInU, in, delivered, deliveredU>>
lifeVars == <<canComm, dying>>
vars == <<nextOut, nextOutU, out, nextIn, nextInU, in, quiet, canComm,
          errored, dying, net, sent, delivered, deliveredU>>

-----------------------------------------------------------------------------
(* Message numbers.                                                        *)

\* uint16_t arithmetic: i steps on from n, and the number before n.
AdvUnbounded(n, i) == n + i  \* mutant: the counters do not wrap
Adv(n, i) == (n + i) % NumCount
BackByNone(n) == n  \* mutant: an ack names the last message it has
Back(n) == (n + (NumCount - 1)) % NumCount

\* The number that the k-th reliable message carries.
NumOf(k) == (FirstNum + (k - 1)) % NumCount

\* The test on an arriving number: uint16_t operands are promoted to int
\* before they are subtracted, so the difference may be negative.
InThePast(num, wanted) == num - wanted > PastDistance

NoRecords == [n \in {} |-> n]
Extend(f, x, y) == [z \in DOMAIN f \cup {x} |-> IF z = x THEN y ELSE f[z]]

-----------------------------------------------------------------------------
(* Packets.                                                                *)

\* EmbedAcks.  upto is a history field: how much was delivered at the time.
AckOf(e) ==
  [next  |-> nextIn[e],
   extra |-> {i \in 1 .. AckBits : Adv(nextIn[e], i) \in DOMAIN in[e]},
   upto  |-> Len(delivered[e])]

Message(num, content, ack) ==
  [type |-> "MESSAGE", num |-> num, msg |-> content, ack |-> ack]

Keepalive(ack) == [type |-> "KEEPALIVE", ack |-> ack]

\* after is the content: how many reliable messages were sent before it.
Unreliable(num, unum, after, ack) ==
  [type |-> "MESSAGE_UNRELIABLE", num |-> num, unum |-> unum,
   after |-> after, ack |-> ack]

\* SendGamePacket: everything but handshakes and disconnects is withheld
\* until can_communicate_ is set.
Released(e, packets) == IF canComm[e] THEN packets ELSE {}

Transmit(e, packets) ==
  net' = [net EXCEPT ![Peer[e]] = @ \cup Released(e, packets)]

HasRoom(e) == Cardinality(net[Peer[e]]) < NetCap

-----------------------------------------------------------------------------
(* Sending.                                                                *)

InitialConnection ==
  /\ nextOut = [e \in Endpoint |-> FirstNum]
  /\ nextOutU = [e \in Endpoint |-> 0]
  /\ out = [e \in Endpoint |-> NoRecords]
  /\ nextIn = [e \in Endpoint |-> FirstNum]
  /\ nextInU = [e \in Endpoint |-> 0]
  /\ in = [e \in Endpoint |-> NoRecords]
  /\ canComm = [e \in Endpoint |-> FALSE]
  /\ errored = [e \in Endpoint |-> FALSE]
  /\ dying = [e \in Endpoint |-> FALSE]

Init ==
  /\ InitialConnection
  /\ quiet = [e \in Endpoint |-> TRUE]
  /\ net = [e \in Endpoint |-> {}]
  /\ sent = [e \in Endpoint |-> 0]
  /\ delivered = [e \in Endpoint |-> <<>>]
  /\ deliveredU = [e \in Endpoint |-> <<>>]

\* Everything that still refers to a message from e: the place of the oldest
\* message that each record, packet, held entry or ack may be taken for.
Live(e) ==
  LET f == Peer[e] IN
    {Len(delivered[f]) + 1}
      \cup {out[e][n].msg : n \in DOMAIN out[e]}
      \cup {in[f][n] : n \in DOMAIN in[f]}
      \cup {p.msg : p \in {q \in net[f] : q.type = "MESSAGE"}}
      \cup {p.after + 1 : p \in {q \in net[f] : q.type = "MESSAGE_UNRELIABLE"}}
      \cup {p.ack.upto + 1 : p \in net[e]}

\* Environment assumption, which the code makes by counting to 2^16: fewer
\* than Window reliable messages are sent while a packet is under way, a
\* record waits to be pruned or the other end is behind.  Numbers do wrap.
Young(e) == \A k \in Live(e) : sent[e] + 1 - k < Window

\* Messages of more than 480 bytes enter as parts, each a message here.
SendReliableMessage(e) ==
  LET num == nextOut[e]
      k == sent[e] + 1
  IN /\ ~dying[e]
     /\ k <= MaxSend[e]
     /\ HasRoom(e)
     /\ Young(e)
     /\ nextOut' = [nextOut EXCEPT ![e] = Adv(num, 1)]
     /\ nextOutU' = [nextOutU EXCEPT ![e] = 0]
     /\ out' = [out EXCEPT ![e] =
                  Extend(@, num, [msg |-> k, acked |-> FALSE, ripe |-> FALSE])]
     /\ quiet' = [quiet EXCEPT ![e] = FALSE]
     /\ Transmit(e, {Message(num, k, AckOf(e))})
     /\ sent' = [sent EXCEPT ![e] = k]
     /\ UNCHANGED <<recvVars, lifeVars, errored>>

SendUnreliableMessage(e) ==
  LET unum == nextOutU[e]
  IN /\ ~dying[e]
     /\ unum < MaxUnreliable[e]
     /\ HasRoom(e)
     /\ nextOutU' = [nextOutU EXCEPT ![e] = Adv(@, 1)]
     /\ quiet' = [quiet EXCEPT ![e] = FALSE]
     /\ Transmit(e, {Unreliable(nextOut[e], unum, sent[e], AckOf(e))})
     /\ UNCHANGED <<nextOut, out, sent, recvVars, lifeVars, errored>>

\* Ages decide what is pruned.  Send times grow with the place of a message;
\* arrival times of held messages may be in any order.
Prune(e) ==
  \E oldest \in IF PruneAllowed THEN 0 .. sent[e] ELSE {0},
     kept \in IF PruneAllowed THEN SUBSET DOMAIN in[e] ELSE {DOMAIN in[e]} :
    /\ out' = [out EXCEPT ![e] =
                 Restrict(@, {n \in DOMAIN @ : @[n].msg > oldest})]
    /\ in' = [in EXCEPT ![e] = Restrict(@, kept)]

Update(e) ==
  LET due == canComm[e] /\ quiet[e]
  IN /\ ~dying[e]
     /\ due => HasRoom(e)
     /\ Transmit(e, IF due THEN {Keepalive(AckOf(e))} ELSE {})
     /\ quiet' = [quiet EXCEPT ![e] = @ /\ ~due]
     /\ Prune(e)
     /\ UNCHANGED <<sendVars, nextIn, nextInU, delivered, deliveredU,
                    lifeVars, errored>>

-----------------------------------------------------------------------------
(* HandleResends: the acks of an arriving packet, and what they set off.   *)

\* The loop over the wanted number and the AckBits after it ends early at the
\* next number to be sent, and at a number that is no longer on record.
Ends(e, ack, i) ==
  LET num == Adv(ack.next, i) IN num = nextOut[e] \/ num \notin DOMAIN out[e]

Examined(e, ack) ==
  {i \in 0 .. AckBits : \A j \in 0 .. i : ~Ends(e, ack, j)}

\* Mutant: the end of what was sent is taken for a lost record.
TooOldAtEnd(e, ack) == \E i \in 0 .. AckBits : Adv(ack.next, i) \notin DOMAIN out[e]

\* "If we have no record for this out-packet, it's too old".
TooOld(e, ack) ==
  \E i \in 0 .. AckBits :
    /\ \A j \in 0 .. (i - 1) : ~Ends(e, ack, j)
    /\ Adv(ack.next, i) \notin {nextOut[e]} \cup DOMAIN out[e]

Acknowledged(e, ack) ==
  {Back(ack.next)}
    \cup {Adv(ack.next, i) : i \in Examined(e, ack) \cap ack.extra}

\* Mutant: the wanted message itself is not resent.
ResentExtra(e, ack) ==
  {n \in {Adv(ack.next, i) : i \in Examined(e, ack) \ {0}} \ Acknowledged(e, ack) :
     ~out[e][n].acked /\ out[e][n].ripe}

Resent(e, ack) ==
  {n \in {Adv(ack.next, i) : i \in Examined(e, ack)} \ Acknowledged(e, ack) :
     ~out[e][n].acked /\ out[e][n].ripe}

HandleResends(e, ack) ==
  /\ out' = [out EXCEPT ![e] =
       [n \in DOMAIN @ |->
          [msg   |-> @[n].msg,
           acked |-> @[n].acked \/ n \in Acknowledged(e, ack),
           ripe  |-> @[n].ripe /\ n \notin Resent(e, ack)]]]
  /\ errored' = [errored EXCEPT ![e] = @ \/ TooOld(e, ack)]
  /\ quiet' = [quiet EXCEPT ![e] = @ /\ Resent(e, ack) = {}]

\* Mutant: a resent message gets the next number instead of its own.
RepliesRenumbered(e, ack) ==
  {Message(nextOut[e], out[e][n].msg, AckOf(e)) : n \in Resent(e, ack)}

Replies(e, ack) ==
  {Message(n, out[e][n].msg, AckOf(e)) : n \in Resent(e, ack)}

\* Whether a packet that is handled also arrives again later.
Taken(e, p, again) == IF again THEN net[e] ELSE net[e] \ {p}

-----------------------------------------------------------------------------
(* Receiving.                                                              *)

\* A zombie: both subclasses drop what arrives after an error, and an object
\* whose destructor has begun gets nothing any more.
Listens(e) == ~dying[e] /\ ~errored[e]

ReplyTo(e, p, again) ==
  net' = [net EXCEPT ![e] = Taken(e, p, again),
                     ![Peer[e]] = @ \cup Released(e, Replies(e, p.ack))]

\* Mutant: what arrives is handed on without a look at its number.
AcceptUnordered(e, num, content) ==
  /\ nextIn' = [nextIn EXCEPT ![e] = Adv(num, 1)]
  /\ nextInU' = [nextInU EXCEPT ![e] = 0]
  /\ delivered' = [delivered EXCEPT ![e] = Append(@, content)]
  /\ UNCHANGED in

\* in_messages_[num] is (over)written, then ProcessWaitingMessages hands on
\* every message from the wanted one up to the first that is missing.
Accept(e, num, content) ==
  LET held == Extend(in[e], num, content)
      Wanted(i) == Adv(nextIn[e], i)
  IN \E run \in 0 .. (NumCount - 1) :
       /\ \A i \in 0 .. (run - 1) : Wanted(i) \in DOMAIN held
       /\ Wanted(run) \notin DOMAIN held
       /\ nextIn' = [nextIn EXCEPT ![e] = Wanted(run)]
       /\ nextInU' = [nextInU EXCEPT ![e] = IF run > 0 THEN 0 ELSE @]
       /\ in' = [in EXCEPT ![e] = Restrict(held,
                   DOMAIN held \ {Wanted(i) : i \in 0 .. (run - 1)})]
       /\ delivered' = [delivered EXCEPT ![e] =
                          @ \o [i \in 1 .. run |-> held[Wanted(i - 1)]]]

ReceiveKeepalive(e, p, again) ==
  /\ Listens(e)
  /\ p.type = "KEEPALIVE"
  /\ HandleResends(e, p.ack)
  /\ ReplyTo(e, p, again)
  /\ UNCHANGED <<sendVars, recvVars, lifeVars>>

\* An Error raised by the acks does not keep the message from being stored.
ReceiveMessage(e, p, again) ==
  /\ Listens(e)
  /\ p.type = "MESSAGE"
  /\ HandleResends(e, p.ack)
  /\ ReplyTo(e, p, again)
  /\ IF InThePast(p.num, nextIn[e])
       THEN UNCHANGED <<nextIn, nextInU, in, delivered>>
       ELSE Accept(e, p.num, p.msg)
  /\ UNCHANGED <<sendVars, deliveredU, lifeVars>>

\* Mutant: an old or repeated unreliable message passes.
InPlaceAgain(e, p) == p.num = nextIn[e]

InPlace(e, p) == p.num = nextIn[e] /\ p.unum >= nextInU[e]

\* The acks of an unreliable message are not looked at.
ReceiveUnreliable(e, p, again) ==
  /\ Listens(e)
  /\ p.type = "MESSAGE_UNRELIABLE"
  /\ IF InPlace(e, p)
       THEN /\ deliveredU' = [deliveredU EXCEPT ![e] =
                 Append(@, [after |-> p.after, unum |-> p.unum,
                            at |-> Len(delivered[e])])]
            /\ nextInU' = [nextInU EXCEPT ![e] = Adv(p.unum, 1)]
       ELSE UNCHANGED <<deliveredU, nextInU>>
  /\ net' = [net EXCEPT ![e] = Taken(e, p, again)]
  /\ UNCHANGED <<sendVars, out, nextIn, in, quiet, delivered, lifeVars,
                 errored>>

Ignore(e, p, again) ==
  /\ ~Listens(e)
  /\ net' = [net EXCEPT ![e] = Taken(e, p, again)]
  /\ UNCHANGED <<sendVars, out, recvVars, quiet, lifeVars, errored>>

Receive(e, p, again) ==
  \/ ReceiveKeepalive(e, p, again)
  \/ ReceiveMessage(e, p, again)
  \/ ReceiveUnreliable(e, p, again)
  \/ Ignore(e, p, again)

-----------------------------------------------------------------------------
(* The handshake, the destructor, the clock and the network.               *)

\* The handshake packet (client) or its answer (host) has arrived.
HandshakeDone(e) ==
  /\ ~dying[e] /\ ~errored[e] /\ ~canComm[e]
  /\ canComm' = [canComm EXCEPT ![e] = TRUE]
  /\ UNCHANGED <<sendVars, out, recvVars, quiet, errored, dying, net>>

Die(e) ==
  /\ e \in Mortal
  /\ ~dying[e]
  /\ dying' = [dying EXCEPT ![e] = TRUE]
  /\ UNCHANGED <<sendVars, out, recvVars, quiet, canComm, errored, net>>

\* real_time - msg.last_send_time > msg.resend_time becomes true.
ResendTimeElapses(e, num) ==
  /\ num \in DOMAIN out[e]
  /\ ~out[e][num].acked /\ ~out[e][num].ripe
  /\ out' = [out EXCEPT ![e][num].ripe = TRUE]
  /\ UNCHANGED <<sendVars, recvVars, quiet, lifeVars, errored, net>>

\* real_time - last_ack_send_time_ > kKeepaliveDelay becomes true.
KeepaliveDelayElapses(e) ==
  /\ ~quiet[e]
  /\ quiet' = [quiet EXCEPT ![e] = TRUE]
  /\ UNCHANGED <<sendVars, out, recvVars, lifeVars, errored, net>>

Lose(e, p) ==
  /\ net' = [net EXCEPT ![e] = @ \ {p}]
  /\ UNCHANGED <<sendVars, out, recvVars, quiet, lifeVars, errored>>

Next ==
  \E e \in Endpoint :
    \/ SendReliableMessage(e)
    \/ SendUnreliableMessage(e)
    \/ Update(e)
    \/ HandshakeDone(e)
    \/ Die(e)
    \/ KeepaliveDelayElapses(e)
    \/ \E num \in DOMAIN out[e] : ResendTimeElapses(e, num)
    \/ \E p \in net[e] : Lose(e, p)
    \/ \E p \in net[e], again \in BOOLEAN : Receive(e, p, again)

Spec == Init /\ [][Next]_vars

\* Update runs every frame, the clock moves on, and a network that is sent
\* the same thing again and again lets it through again and again.
Fairness ==
  \A e \in Endpoint :
    /\ WF_vars(Update(e))
    /\ WF_vars(KeepaliveDelayElapses(e))
    /\ \A k \in 1 .. MaxSend[e] : WF_vars(ResendTimeElapses(e, NumOf(k)))
    /\ SF_vars(\E p \in net[e] : ReceiveKeepalive(e, p, FALSE))
    /\ \A k \in 1 .. MaxSend[Peer[e]] :
         SF_vars(\E p \in net[e] :
                   ReceiveMessage(e, p, FALSE) /\ p.msg = k)
    /\ WF_vars(\E p \in net[e] : Ignore(e, p, FALSE))

FairSpec == Spec /\ Fairness

-----------------------------------------------------------------------------
(* What must hold.                                                         *)

Ack == [next : Num, extra : SUBSET (1 .. AckBits), upto : Nat]

Packet ==
  [type : {"MESSAGE"}, num : Num, msg : Nat, ack : Ack]
    \cup [type : {"KEEPALIVE"}, ack : Ack]
    \cup [type : {"MESSAGE_UNRELIABLE"}, num : Num, unum : Num, after : Nat,
          ack : Ack]

OutRecord == [msg : Nat, acked : BOOLEAN, ripe : BOOLEAN]

\* At each end, a partial function from numbers to V.
IsTable(t, V) ==
  /\ t = [e \in Endpoint |-> t[e]]
  /\ \A e \in Endpoint :
       /\ DOMAIN t[e] \subseteq Num
       /\ t[e] \in [DOMAIN t[e] -> V]

\* The types of the members of class Connection, and of the packets.
TypeOK ==
  /\ nextOut \in [Endpoint -> Num]
  /\ nextOutU \in [Endpoint -> Num]
  /\ IsTable(out, OutRecord)
  /\ nextIn \in [Endpoint -> Num]
  /\ nextInU \in [Endpoint -> Num]
  /\ IsTable(in, Nat)
  /\ quiet \in [Endpoint -> BOOLEAN]
  /\ canComm \in [Endpoint -> BOOLEAN]
  /\ errored \in [Endpoint -> BOOLEAN]
  /\ dying \in [Endpoint -> BOOLEAN]
  /\ net \in [Endpoint -> SUBSET Packet]
  /\ sent \in [Endpoint -> Nat]
  /\ delivered \in [Endpoint -> Seq(Nat)]
  /\ deliveredU \in [Endpoint -> Seq([after : Nat, unum : Nat, at : Nat])]

\* Reliable messages are handed on exactly once and in the order sent, for
\* any loss, duplication and reordering, through the wrap of the numbers
\* (connection.h: "these will always be delivered in the order sent").
DeliveredInOrder ==
  \A e \in Endpoint : \A i \in DOMAIN delivered[e] : delivered[e][i] = i

\* An unreliable message is handed on only at its place between the reliable
\* ones, and after every unreliable message sent before it (connection.h:
\* "delivered properly in order between other unreliable/reliable messages").
UnreliableInPlace ==
  \A e \in Endpoint : \A i \in DOMAIN deliveredU[e] :
    LET u == deliveredU[e][i] IN
      /\ u.at = u.after
      /\ \A j \in 1 .. (i - 1) :
           LET v == deliveredU[e][j] IN
             v.after < u.after \/ (v.after = u.after /\ v.unum < u.unum)

\* As long as nothing is pruned, the sender stops resending a message only
\* when the other end has it: an acked record was delivered or is held.
AckedIsHeld ==
  ~PruneAllowed =>
    \A e \in Endpoint : \A n \in DOMAIN out[e] :
      out[e][n].acked =>
        \/ out[e][n].msg <= Len(delivered[Peer[e]])
        \/ n \in DOMAIN in[Peer[e]] /\ in[Peer[e]][n] = out[e][n].msg

\* As long as nothing is pruned, no ack, however late or repeated, makes
\* HandleResends give the connection up for a missing record.
NeverTooOld == ~PruneAllowed => \A e \in Endpoint : ~errored[e]

\* The connection implements the two channels that connection.h describes.
Channels == INSTANCE ReliableChannels
              WITH sent <- sent, delivered <- delivered
ImplementsChannels == Channels!Spec

\* A message that was sent is delivered in the end, once both ends may
\* communicate and unless one of them is destroyed or gives up (which
\* NeverTooOld excludes as long as nothing is pruned).
Delivery ==
  \A e \in Endpoint : \A k \in 1 .. MaxSend[e] :
    (sent[e] >= k /\ canComm[e] /\ canComm[Peer[e]])
      ~> \/ Len(delivered[Peer[e]]) >= k
         \/ errored[e] \/ dying[e] \/ dying[Peer[e]]

-----------------------------------------------------------------------------
(* The strengthening that makes DeliveredInOrder inductive.                *)

\* A message of e that is still about: one of the last Window that e sent.
Recent(e, k) == k \in 1 .. sent[e] /\ sent[e] - k < Window

\* Both counters stand where the history says, and not too far apart.
CountersAgree(e) ==
  /\ nextOut[e] = NumOf(sent[e] + 1)
  /\ nextIn[Peer[e]] = NumOf(Len(delivered[Peer[e]]) + 1)
  /\ Len(delivered[Peer[e]]) <= sent[e]
  /\ sent[e] - Len(delivered[Peer[e]]) <= Window

\* Whatever stands for a message of e is recent, and bears its number.
RecordsAgree(e) ==
  /\ \A n \in DOMAIN out[e] :
       Recent(e, out[e][n].msg) /\ n = NumOf(out[e][n].msg)
  /\ \A n \in DOMAIN in[Peer[e]] :
       Recent(e, in[Peer[e]][n]) /\ n = NumOf(in[Peer[e]][n])
  /\ \A p \in net[Peer[e]] :
       p.type = "MESSAGE" => Recent(e, p.msg) /\ p.num = NumOf(p.msg)

\* The invariant that every step preserves.
NumbersIdentify ==
  /\ DeliveredInOrder
  /\ \A e \in Endpoint : CountersAgree(e) /\ RecordsAgree(e)
=============================================================================
