-------------------------- MODULE ConnectionProofs --------------------------
(***************************************************************************)
(* For every number of message numbers, every window and every schedule:   *)
(* the variables of Connection keep their types, reliable messages are     *)
(* delivered in the order sent, unreliable messages keep their place, and  *)
(* while nothing is pruned the sender believes no ack that is not true and *)
(* never gives up.                                                         *)
(***************************************************************************)
EXTENDS Connection, SequenceTheorems, TLAPS

-----------------------------------------------------------------------------
(* Arithmetic of message numbers.                                          *)

\* Division with remainder by NumCount.
LEMMA Division ==
  ASSUME NEW a \in Nat
  PROVE  /\ a % NumCount \in Num
         /\ a \div NumCount \in Nat
         /\ a = NumCount * (a \div NumCount) + (a % NumCount)
  BY NumAssumption DEF Num

\* Two different multiples of NumCount are at least NumCount apart.
LEMMA MultiplesApart ==
  ASSUME NEW q \in Int, NEW r \in Int, q < r
  PROVE  /\ NumCount * q \in Int
         /\ NumCount * r \in Int
         /\ NumCount * r - NumCount * q >= NumCount
  BY NumAssumption, Z3

\* A number is a multiple of NumCount plus a remainder in one way only.
LEMMA RemainderUnique ==
  ASSUME NEW q \in Int, NEW r \in Int, NEW x \in Num, NEW y \in Num,
         NumCount * q + x = NumCount * r + y
  PROVE  x = y
<1>1. /\ x \in Nat /\ x < NumCount
      /\ y \in Nat /\ y < NumCount
      /\ NumCount * q \in Int /\ NumCount * r \in Int
  BY NumAssumption DEF Num
<1>2. CASE q = r
  BY <1>1, <1>2
<1>3. CASE q < r
  BY <1>1, <1>3, MultiplesApart, NumAssumption
<1>4. CASE r < q
  BY <1>1, <1>4, MultiplesApart, NumAssumption
<1> QED
  BY <1>2, <1>3, <1>4

\* A remainder determines a number up to a distance of NumCount.
LEMMA RemainderInjective ==
  ASSUME NEW a \in Nat, NEW b \in Nat, a % NumCount = b % NumCount,
         a < b + NumCount, b < a + NumCount
  PROVE  a = b
<1> DEFINE q == a \div NumCount
           r == b \div NumCount
<1>1. /\ a = NumCount * q + (a % NumCount)
      /\ b = NumCount * r + (b % NumCount)
      /\ q \in Nat /\ r \in Nat /\ a % NumCount \in Nat
  BY Division DEF Num
<1> HIDE DEF q, r
<1>2. CASE q = r
  BY <1>1, <1>2
<1>3. CASE q < r
  BY <1>1, <1>3, MultiplesApart, NumAssumption
<1>4. CASE r < q
  BY <1>1, <1>4, MultiplesApart, NumAssumption
<1> QED
  BY <1>1, <1>2, <1>3, <1>4

\* Adding to a remainder and taking the remainder again.
LEMMA RemainderSum ==
  ASSUME NEW a \in Nat, NEW i \in Nat
  PROVE  ((a % NumCount) + i) % NumCount = (a + i) % NumCount
<1> DEFINE m == a % NumCount
           q == a \div NumCount
           x == (m + i) % NumCount
           u == (m + i) \div NumCount
           y == (a + i) % NumCount
           v == (a + i) \div NumCount
<1>1. a = NumCount * q + m /\ m \in Nat /\ q \in Nat
  BY Division DEF Num
<1>2. m + i = NumCount * u + x /\ u \in Nat /\ x \in Num
  BY Division, <1>1
<1>3. a + i = NumCount * v + y /\ v \in Nat /\ y \in Num
  BY Division
<1> HIDE DEF m, q, u, v, x, y
<1>4. /\ NumCount * (q + u) = NumCount * q + NumCount * u
      /\ NumCount * q \in Int
      /\ NumCount * u \in Int
      /\ NumCount * v \in Int
  BY <1>1, <1>2, <1>3, NumAssumption, Z3
<1>5. NumCount * q + NumCount * u + x = NumCount * v + y
  <2> DEFINE A == NumCount * q
             B == NumCount * u
             C == NumCount * v
  <2>1. a = A + m /\ m + i = B + x /\ a + i = C + y
    BY <1>1, <1>2, <1>3
  <2>2. A \in Int /\ B \in Int /\ C \in Int /\ x \in Int /\ y \in Int
    BY <1>2, <1>3, <1>4 DEF Num
  <2> HIDE DEF A, B, C
  <2>3. A + B + x = C + y
    BY <2>1, <2>2, <1>1
  <2> QED
    BY <2>3 DEF A, B, C
<1>6. x = y
  BY <1>1, <1>2, <1>3, <1>4, <1>5, RemainderUnique
<1> QED
  BY <1>6 DEF x, y, m

\* The k-th message bears a number, and the numbers follow one another.
LEMMA NumOfNext ==
  ASSUME NEW k \in Nat \ {0}, NEW i \in Nat
  PROVE  NumOf(k) \in Num /\ Adv(NumOf(k), i) = NumOf(k + i)
<1>1. FirstNum + (k - 1) \in Nat
  BY NumAssumption DEF Num
<1>2. FirstNum + (k + i - 1) = (FirstNum + (k - 1)) + i
  BY NumAssumption DEF Num
<1> QED
  BY <1>1, <1>2, Division, RemainderSum DEF NumOf, Adv

\* Messages less than NumCount apart bear different numbers.
LEMMA NumOfInjective ==
  ASSUME NEW k \in Nat \ {0}, NEW l \in Nat \ {0},
         NumOf(k) = NumOf(l), k < l + NumCount, l < k + NumCount
  PROVE  k = l
<1> DEFINE a == FirstNum + (k - 1)
           b == FirstNum + (l - 1)
<1>1. a \in Nat /\ b \in Nat /\ NumCount \in Nat /\ FirstNum \in Nat
  BY NumAssumption DEF Num
<1>2. a % NumCount = b % NumCount
  BY DEF NumOf
<1>3. a < b + NumCount /\ b < a + NumCount
  BY <1>1
<1> HIDE DEF a, b
<1>4. a = b
  BY <1>1, <1>2, <1>3, RemainderInjective
<1> QED
  BY <1>1, <1>4 DEF a, b

LEMMA AdvInNum ==
  ASSUME NEW n \in Num, NEW i \in Nat
  PROVE  Adv(n, i) \in Num
  BY NumAssumption, Division DEF Adv, Num

-----------------------------------------------------------------------------
(* Types.                                                                  *)

LEMMA TableUpdate ==
  ASSUME NEW t, NEW V, IsTable(t, V), NEW e \in Endpoint,
         NEW g, DOMAIN g \subseteq Num, g \in [DOMAIN g -> V]
  PROVE  IsTable([t EXCEPT ![e] = g], V)
  BY DEF IsTable

LEMMA RestrictType ==
  ASSUME NEW f, NEW V, f \in [DOMAIN f -> V], NEW S \in SUBSET DOMAIN f
  PROVE  /\ DOMAIN Restrict(f, S) = S
         /\ Restrict(f, S) \in [S -> V]
         /\ \A z \in S : Restrict(f, S)[z] = f[z]
  BY DEF Restrict

LEMMA AckType ==
  ASSUME TypeOK, NEW e \in Endpoint
  PROVE  AckOf(e) \in Ack
  BY DEF TypeOK, AckOf, Ack

LEMMA RepliesType ==
  ASSUME TypeOK, NEW e \in Endpoint, NEW ack \in Ack
  PROVE  /\ Replies(e, ack) \subseteq Packet
         /\ \A p \in Replies(e, ack) :
              /\ p.type = "MESSAGE"
              /\ p.num \in DOMAIN out[e]
              /\ p.msg = out[e][p.num].msg
<1>1. ASSUME NEW n \in Resent(e, ack)
      PROVE  n \in DOMAIN out[e] /\ n \in Num /\ out[e][n].msg \in Nat
  <2>1. n \in DOMAIN out[e]
    BY <1>1, NumAssumption DEF Resent, Examined, Ends
  <2> QED
    BY <2>1 DEF TypeOK, IsTable, OutRecord
<1> QED
  BY <1>1, AckType DEF Replies, Message, Packet

\* What a packet brings keeps the types of out, errored and quiet.
LEMMA HandleResendsType ==
  ASSUME TypeOK, NEW e \in Endpoint, NEW ack \in Ack, HandleResends(e, ack)
  PROVE  /\ IsTable(out', OutRecord)
         /\ errored' \in [Endpoint -> BOOLEAN]
         /\ quiet' \in [Endpoint -> BOOLEAN]
         /\ \A f \in Endpoint : DOMAIN out'[f] = DOMAIN out[f]
         /\ \A f \in Endpoint : \A n \in DOMAIN out[f] :
              out'[f][n].msg = out[f][n].msg
<1> DEFINE g == [n \in DOMAIN out[e] |->
                   [msg   |-> out[e][n].msg,
                    acked |-> out[e][n].acked \/ n \in Acknowledged(e, ack),
                    ripe  |-> out[e][n].ripe /\ n \notin Resent(e, ack)]]
<1>1. IsTable(out, OutRecord)
  BY DEF TypeOK
<1>2. out' = [out EXCEPT ![e] = g]
  BY DEF HandleResends
<1>3. DOMAIN g \subseteq Num /\ g \in [DOMAIN g -> OutRecord]
  BY <1>1 DEF IsTable, OutRecord
<1>4. \A n \in DOMAIN out[e] : g[n].msg = out[e][n].msg
  OBVIOUS
<1>5. DOMAIN g = DOMAIN out[e]
  OBVIOUS
<1> HIDE DEF g
<1>6. IsTable(out', OutRecord)
  BY <1>1, <1>2, <1>3, TableUpdate
<1>7. \A f \in Endpoint : out'[f] = IF f = e THEN g ELSE out[f]
  BY <1>1, <1>2 DEF IsTable
<1>8. \A f \in Endpoint : DOMAIN out'[f] = DOMAIN out[f]
  BY <1>5, <1>7
<1>9. \A f \in Endpoint : \A n \in DOMAIN out[f] :
        out'[f][n].msg = out[f][n].msg
  BY <1>4, <1>7
<1>10. errored' \in [Endpoint -> BOOLEAN] /\ quiet' \in [Endpoint -> BOOLEAN]
  BY DEF HandleResends, TypeOK
<1> QED
  BY <1>6, <1>8, <1>9, <1>10

\* Storing an arriving message and handing on what is in order.
LEMMA AcceptType ==
  ASSUME TypeOK, NEW e \in Endpoint, NEW num \in Num, NEW content \in Nat,
         Accept(e, num, content)
  PROVE  /\ nextIn' \in [Endpoint -> Num]
         /\ nextInU' \in [Endpoint -> Num]
         /\ IsTable(in', Nat)
         /\ delivered' \in [Endpoint -> Seq(Nat)]
<1> DEFINE held == Extend(in[e], num, content)
           Wanted(i) == Adv(nextIn[e], i)
<1>1. /\ IsTable(in, Nat)
      /\ nextIn[e] \in Num
      /\ 0 \in Num
      /\ delivered[e] \in Seq(Nat)
  BY NumAssumption DEF TypeOK, Num
<1>2. /\ DOMAIN held \subseteq Num
      /\ held \in [DOMAIN held -> Nat]
  <2>1. DOMAIN in[e] \subseteq Num /\ in[e] \in [DOMAIN in[e] -> Nat]
    BY <1>1 DEF IsTable
  <2>2. /\ DOMAIN held = DOMAIN in[e] \cup {num}
        /\ held \in [DOMAIN in[e] \cup {num} -> Nat]
    BY <2>1 DEF Extend
  <2> QED
    BY <2>1, <2>2
<1> HIDE DEF held
<1>3. PICK run \in 0 .. (NumCount - 1) :
        /\ \A i \in 0 .. (run - 1) : Wanted(i) \in DOMAIN held
        /\ nextIn' = [nextIn EXCEPT ![e] = Wanted(run)]
        /\ nextInU' = [nextInU EXCEPT ![e] = IF run > 0 THEN 0 ELSE @]
        /\ in' = [in EXCEPT ![e] = Restrict(held,
                    DOMAIN held \ {Wanted(i) : i \in 0 .. (run - 1)})]
        /\ delivered' = [delivered EXCEPT ![e] =
                           @ \o [i \in 1 .. run |-> held[Wanted(i - 1)]]]
  BY DEF Accept, held
<1>4. nextIn' \in [Endpoint -> Num] /\ nextInU' \in [Endpoint -> Num]
  <2>1. Wanted(run) \in Num
    BY <1>1, AdvInNum
  <2> HIDE DEF Wanted
  <2> QED
    BY <1>1, <1>3, <2>1 DEF TypeOK
<1>5. IsTable(in', Nat)
  <2> DEFINE S == DOMAIN held \ {Wanted(i) : i \in 0 .. (run - 1)}
  <2>1. /\ DOMAIN Restrict(held, S) = S
        /\ Restrict(held, S) \in [S -> Nat]
    BY <1>2, RestrictType
  <2>2. S \subseteq Num /\ in' = [in EXCEPT ![e] = Restrict(held, S)]
    BY <1>2, <1>3
  <2> HIDE DEF S
  <2> QED
    BY <1>1, <2>1, <2>2, TableUpdate
<1>6. delivered' \in [Endpoint -> Seq(Nat)]
  <2> DEFINE more == [i \in 1 .. run |-> held[Wanted(i - 1)]]
  <2>1. \A i \in 1 .. run : held[Wanted(i - 1)] \in Nat
    <3> TAKE i \in 1 .. run
    <3>1. i - 1 \in 0 .. (run - 1)
      OBVIOUS
    <3> QED
      BY <3>1, <1>2, <1>3
  <2>2. more \in Seq(Nat)
    BY <2>1
  <2>3. delivered[e] \o more \in Seq(Nat)
    BY <2>2, <1>1
  <2> HIDE DEF more
  <2>4. delivered' = [delivered EXCEPT ![e] = delivered[e] \o more]
    BY <1>3 DEF more
  <2> QED
    BY <2>3, <2>4 DEF TypeOK
<1> QED
  BY <1>4, <1>5, <1>6

\* Putting packets under way to the other end, and taking one off the net.
LEMMA NetType ==
  ASSUME TypeOK, NEW e \in Endpoint, NEW P \in SUBSET Packet
  PROVE  /\ Released(e, P) \subseteq P
         /\ [net EXCEPT ![Peer[e]] = @ \cup Released(e, P)]
              \in [Endpoint -> SUBSET Packet]
         /\ \A p \in net[e], again \in BOOLEAN :
              /\ Taken(e, p, again) \subseteq net[e]
              /\ [net EXCEPT ![e] = Taken(e, p, again),
                             ![Peer[e]] = @ \cup Released(e, P)]
                   \in [Endpoint -> SUBSET Packet]
<1>1. Released(e, P) \in SUBSET Packet /\ Released(e, P) \subseteq P
  BY DEF Released
<1>2. Peer[e] \in Endpoint /\ Peer[e] # e
  BY PeerAssumption
<1>3. net \in [Endpoint -> SUBSET Packet]
  BY DEF TypeOK
<1>4. \A p \in net[e], again \in BOOLEAN : Taken(e, p, again) \subseteq net[e]
  BY DEF Taken
<1> QED
  BY <1>1, <1>2, <1>3, <1>4

LEMMA TypeInit == Init => TypeOK
<1> SUFFICES ASSUME Init PROVE TypeOK
  OBVIOUS
<1>1. 0 \in Num /\ FirstNum \in Num
  BY NumAssumption DEF Num
<1>2. DOMAIN NoRecords = {} /\ \A V : NoRecords \in [{} -> V]
  BY DEF NoRecords
<1>3. IsTable(out, OutRecord) /\ IsTable(in, Nat)
  BY <1>2 DEF Init, InitialConnection, IsTable
<1> QED
  BY <1>1, <1>3 DEF Init, InitialConnection, TypeOK

LEMMA TypeSend ==
  ASSUME TypeOK, NEW e \in Endpoint,
         SendReliableMessage(e) \/ SendUnreliableMessage(e)
  PROVE  TypeOK'
<1>1. /\ nextOut[e] \in Num /\ nextOutU[e] \in Num
      /\ sent[e] \in Nat /\ sent[e] + 1 \in Nat
      /\ AckOf(e) \in Ack
      /\ 0 \in Num
      /\ IsTable(out, OutRecord) /\ IsTable(in, Nat)
  BY AckType, NumAssumption DEF TypeOK, Num
<1>2. CASE SendReliableMessage(e)
  <2> DEFINE num == nextOut[e]
             k == sent[e] + 1
             rec == [msg |-> k, acked |-> FALSE, ripe |-> FALSE]
             pkt == Message(num, k, AckOf(e))
  <2>1. pkt \in Packet /\ rec \in OutRecord
    BY <1>1 DEF Message, Packet, OutRecord
  <2>2. IsTable(out', OutRecord)
    <3>1. out' = [out EXCEPT ![e] = Extend(out[e], num, rec)]
      BY <1>2 DEF SendReliableMessage
    <3>2. DOMAIN out[e] \subseteq Num /\ out[e] \in [DOMAIN out[e] -> OutRecord]
      BY <1>1 DEF IsTable
    <3> HIDE DEF rec, num
    <3>3. /\ DOMAIN Extend(out[e], num, rec) = DOMAIN out[e] \cup {num}
          /\ Extend(out[e], num, rec) \in [DOMAIN out[e] \cup {num} -> OutRecord]
      BY <3>2, <2>1 DEF Extend
    <3> QED
      BY <3>1, <3>2, <3>3, <1>1, TableUpdate DEF num
  <2>3. net' \in [Endpoint -> SUBSET Packet]
    <3>1. net' = [net EXCEPT ![Peer[e]] = @ \cup Released(e, {pkt})]
      BY <1>2 DEF SendReliableMessage, Transmit
    <3> HIDE DEF pkt
    <3> QED
      BY <3>1, <2>1, NetType
  <2>4. Adv(num, 1) \in Num
    BY <1>1, AdvInNum
  <2> QED
    BY <1>1, <1>2, <2>2, <2>3, <2>4
    DEF TypeOK, SendReliableMessage, recvVars, lifeVars
<1>3. CASE SendUnreliableMessage(e)
  <2> DEFINE pkt == Unreliable(nextOut[e], nextOutU[e], sent[e], AckOf(e))
  <2>1. pkt \in Packet
    BY <1>1 DEF Unreliable, Packet, Num
  <2>2. net' \in [Endpoint -> SUBSET Packet]
    <3>1. net' = [net EXCEPT ![Peer[e]] = @ \cup Released(e, {pkt})]
      BY <1>3 DEF SendUnreliableMessage, Transmit
    <3> HIDE DEF pkt
    <3> QED
      BY <3>1, <2>1, NetType
  <2>3. Adv(nextOutU[e], 1) \in Num
    BY <1>1, AdvInNum
  <2> QED
    BY <1>1, <1>3, <2>2, <2>3
    DEF TypeOK, SendUnreliableMessage, recvVars, lifeVars
<1> QED
  BY <1>2, <1>3

\* Records may only disappear in a Prune.
LEMMA PruneType ==
  ASSUME TypeOK, NEW e \in Endpoint, Prune(e)
  PROVE  /\ IsTable(out', OutRecord) /\ IsTable(in', Nat)
         /\ \A f \in Endpoint :
              /\ DOMAIN out'[f] \subseteq DOMAIN out[f]
              /\ \A n \in DOMAIN out'[f] : out'[f][n] = out[f][n]
              /\ DOMAIN in'[f] \subseteq DOMAIN in[f]
              /\ \A n \in DOMAIN in'[f] : in'[f][n] = in[f][n]
<1>1. IsTable(out, OutRecord) /\ IsTable(in, Nat)
  BY DEF TypeOK
<1>2. PICK S \in SUBSET DOMAIN out[e], T \in SUBSET DOMAIN in[e] :
        /\ out' = [out EXCEPT ![e] = Restrict(out[e], S)]
        /\ in' = [in EXCEPT ![e] = Restrict(in[e], T)]
  BY DEF Prune
<1>3. /\ DOMAIN out[e] \subseteq Num /\ out[e] \in [DOMAIN out[e] -> OutRecord]
      /\ DOMAIN in[e] \subseteq Num /\ in[e] \in [DOMAIN in[e] -> Nat]
  BY <1>1 DEF IsTable
<1>4. /\ DOMAIN Restrict(out[e], S) = S
      /\ Restrict(out[e], S) \in [S -> OutRecord]
      /\ \A n \in S : Restrict(out[e], S)[n] = out[e][n]
  BY <1>3, RestrictType
<1>5. /\ DOMAIN Restrict(in[e], T) = T
      /\ Restrict(in[e], T) \in [T -> Nat]
      /\ \A n \in T : Restrict(in[e], T)[n] = in[e][n]
  BY <1>3, RestrictType
<1>6. IsTable(out', OutRecord)
  BY <1>1, <1>2, <1>3, <1>4, TableUpdate
<1>7. IsTable(in', Nat)
  BY <1>1, <1>2, <1>3, <1>5, TableUpdate
<1>8. \A f \in Endpoint : /\ f # e => out'[f] = out[f] /\ in'[f] = in[f]
                          /\ f = e => /\ out'[f] = Restrict(out[e], S)
                                      /\ in'[f] = Restrict(in[e], T)
  BY <1>1, <1>2 DEF IsTable
<1> QED
  BY <1>4, <1>5, <1>6, <1>7, <1>8

LEMMA TypeUpdate ==
  ASSUME TypeOK, NEW e \in Endpoint, Update(e)
  PROVE  TypeOK'
<1>1. IsTable(out', OutRecord) /\ IsTable(in', Nat)
  BY PruneType DEF Update
<1>2. PICK P \in SUBSET Packet : Transmit(e, P)
  BY AckType DEF Update, Keepalive, Packet
<1>3. net' \in [Endpoint -> SUBSET Packet]
  BY <1>2, NetType DEF Transmit
<1> QED
  BY <1>1, <1>3 DEF Update, TypeOK, sendVars, lifeVars

LEMMA ReplyToType ==
  ASSUME TypeOK, NEW e \in Endpoint, NEW p \in net[e], NEW again \in BOOLEAN,
         p.ack \in Ack, ReplyTo(e, p, again)
  PROVE  net' \in [Endpoint -> SUBSET Packet]
<1> DEFINE R == Replies(e, p.ack)
<1>1. R \in SUBSET Packet
  BY RepliesType
<1>2. net' = [net EXCEPT ![e] = Taken(e, p, again),
                         ![Peer[e]] = @ \cup Released(e, R)]
  BY DEF ReplyTo
<1> HIDE DEF R
<1> QED
  BY <1>1, <1>2, NetType

LEMMA TypeReceive ==
  ASSUME TypeOK, NEW e \in Endpoint, NEW p \in net[e], NEW again \in BOOLEAN,
         Receive(e, p, again)
  PROVE  TypeOK'
<1>1. p \in Packet
  BY DEF TypeOK
<1>2. /\ p.ack \in Ack
      /\ p.type = "MESSAGE" => p.num \in Num /\ p.msg \in Nat
      /\ p.type = "MESSAGE_UNRELIABLE" =>
           p.num \in Num /\ p.unum \in Num /\ p.after \in Nat
  BY <1>1 DEF Packet
<1>3. [net EXCEPT ![e] = Taken(e, p, again)] \in [Endpoint -> SUBSET Packet]
  BY DEF Taken, TypeOK
<1>4. CASE ReceiveKeepalive(e, p, again)
  <2>1. HandleResends(e, p.ack) /\ ReplyTo(e, p, again)
    BY <1>4 DEF ReceiveKeepalive
  <2>2. /\ IsTable(out', OutRecord)
        /\ errored' \in [Endpoint -> BOOLEAN]
        /\ quiet' \in [Endpoint -> BOOLEAN]
    BY <1>2, <2>1, HandleResendsType
  <2>3. net' \in [Endpoint -> SUBSET Packet]
    BY <1>2, <2>1, ReplyToType
  <2>4. UNCHANGED <<sendVars, recvVars, lifeVars>>
    BY <1>4 DEF ReceiveKeepalive
  <2> QED
    BY <2>2, <2>3, <2>4 DEF TypeOK, sendVars, recvVars, lifeVars
<1>5. CASE ReceiveMessage(e, p, again)
  <2>1. HandleResends(e, p.ack) /\ ReplyTo(e, p, again)
    BY <1>5 DEF ReceiveMessage
  <2>2. /\ IsTable(out', OutRecord)
        /\ errored' \in [Endpoint -> BOOLEAN]
        /\ quiet' \in [Endpoint -> BOOLEAN]
    BY <1>2, <2>1, HandleResendsType
  <2>3. net' \in [Endpoint -> SUBSET Packet]
    BY <1>2, <2>1, ReplyToType
  <2>4. UNCHANGED <<sendVars, deliveredU, lifeVars>>
    BY <1>5 DEF ReceiveMessage
  <2>5. /\ nextIn' \in [Endpoint -> Num]
        /\ nextInU' \in [Endpoint -> Num]
        /\ IsTable(in', Nat)
        /\ delivered' \in [Endpoint -> Seq(Nat)]
    <3>1. CASE UNCHANGED <<nextIn, nextInU, in, delivered>>
      BY <3>1 DEF TypeOK
    <3>2. CASE Accept(e, p.num, p.msg)
      <4>1. p.num \in Num /\ p.msg \in Nat
        BY <1>2, <1>5 DEF ReceiveMessage
      <4> QED
        BY <3>2, <4>1, AcceptType
    <3> QED
      BY <1>5, <3>1, <3>2 DEF ReceiveMessage
  <2> QED
    BY <2>2, <2>3, <2>4, <2>5 DEF TypeOK, sendVars, lifeVars
<1>6. CASE ReceiveUnreliable(e, p, again)
  <2>1. p.unum \in Num /\ p.after \in Nat /\ Adv(p.unum, 1) \in Num
    BY <1>2, <1>6, AdvInNum DEF ReceiveUnreliable
  <2>2. p.unum \in Nat /\ Len(delivered[e]) \in Nat
    BY <2>1, NumAssumption DEF Num, TypeOK
  <2>3. deliveredU' \in [Endpoint -> Seq([after : Nat, unum : Nat, at : Nat])]
    <3> DEFINE Entry == [after : Nat, unum : Nat, at : Nat]
               u == [after |-> p.after, unum |-> p.unum,
                     at |-> Len(delivered[e])]
    <3>1. u \in Entry
      BY <2>1, <2>2
    <3>2. deliveredU \in [Endpoint -> Seq(Entry)]
      BY DEF TypeOK
    <3>3. \/ deliveredU' = deliveredU
          \/ deliveredU' = [deliveredU EXCEPT ![e] = Append(@, u)]
      BY <1>6 DEF ReceiveUnreliable
    <3> HIDE DEF Entry, u
    <3>4. Append(deliveredU[e], u) \in Seq(Entry)
      BY <3>1, <3>2
    <3> QED
      BY <3>2, <3>3, <3>4 DEF Entry
  <2>4. nextInU' \in [Endpoint -> Num]
    BY <1>6, <2>1 DEF ReceiveUnreliable, TypeOK
  <2>5. net' \in [Endpoint -> SUBSET Packet]
    BY <1>3, <1>6 DEF ReceiveUnreliable
  <2>6. UNCHANGED <<sendVars, out, nextIn, in, quiet, delivered, lifeVars,
                    errored>>
    BY <1>6 DEF ReceiveUnreliable
  <2> QED
    BY <2>3, <2>4, <2>5, <2>6 DEF TypeOK, sendVars, lifeVars
<1>7. CASE Ignore(e, p, again)
  BY <1>3, <1>7 DEF Ignore, TypeOK, sendVars, recvVars, lifeVars
<1> QED
  BY <1>4, <1>5, <1>6, <1>7 DEF Receive

\* The handshake, the destructor, the clock, and a loss.
LEMMA TypeEnvironment ==
  ASSUME TypeOK, NEW e \in Endpoint,
         \/ HandshakeDone(e) \/ Die(e) \/ KeepaliveDelayElapses(e)
         \/ \E num \in DOMAIN out[e] : ResendTimeElapses(e, num)
         \/ \E p \in net[e] : Lose(e, p)
  PROVE  TypeOK'
<1>1. CASE HandshakeDone(e)
  BY <1>1 DEF HandshakeDone, TypeOK, sendVars, recvVars
<1>2. CASE Die(e)
  BY <1>2 DEF Die, TypeOK, sendVars, recvVars
<1>3. CASE KeepaliveDelayElapses(e)
  BY <1>3 DEF KeepaliveDelayElapses, TypeOK, sendVars, recvVars, lifeVars
<1>4. CASE \E p \in net[e] : Lose(e, p)
  BY <1>4 DEF Lose, TypeOK, sendVars, recvVars, lifeVars
<1>5. ASSUME NEW num \in DOMAIN out[e], ResendTimeElapses(e, num)
      PROVE  TypeOK'
  <2> DEFINE g == [out[e] EXCEPT ![num].ripe = TRUE]
  <2>1. IsTable(out, OutRecord)
    BY DEF TypeOK
  <2>2. out' = [out EXCEPT ![e] = g]
    BY <1>5 DEF ResendTimeElapses
  <2>3. DOMAIN g \subseteq Num /\ g \in [DOMAIN g -> OutRecord]
    BY <2>1 DEF IsTable, OutRecord
  <2> HIDE DEF g
  <2>4. IsTable(out', OutRecord)
    BY <2>1, <2>2, <2>3, TableUpdate
  <2> QED
    BY <1>5, <2>4
    DEF ResendTimeElapses, TypeOK, sendVars, recvVars, lifeVars
<1> QED
  BY <1>1, <1>2, <1>3, <1>4, <1>5

LEMMA TypeStep == TypeOK /\ [Next]_vars => TypeOK'
<1> SUFFICES ASSUME TypeOK, [Next]_vars PROVE TypeOK'
  OBVIOUS
<1>1. CASE UNCHANGED vars
  BY <1>1 DEF vars, TypeOK
<1>2. CASE Next
  BY <1>2, TypeSend, TypeUpdate, TypeReceive, TypeEnvironment DEF Next
<1> QED
  BY <1>1, <1>2

\* Every variable of the model keeps its type, at both ends.
THEOREM TypeCorrect == Spec => []TypeOK
  BY TypeInit, TypeStep, PTL DEF Spec

-----------------------------------------------------------------------------
(* Order.                                                                  *)

\* What CountersAgree and RecordsAgree read of one direction, from e to its
\* peer: when none of it changes, neither do they.
LEMMA DirectionFrame ==
  ASSUME NEW e \in Endpoint, CountersAgree(e), RecordsAgree(e),
         sent'[e] = sent[e], nextOut'[e] = nextOut[e],
         nextIn'[Peer[e]] = nextIn[Peer[e]],
         delivered'[Peer[e]] = delivered[Peer[e]],
         \A n \in DOMAIN out'[e] :
           n \in DOMAIN out[e] /\ out'[e][n].msg = out[e][n].msg,
         \A n \in DOMAIN in'[Peer[e]] :
           /\ n \in DOMAIN in[Peer[e]]
           /\ in'[Peer[e]][n] = in[Peer[e]][n],
         \A p \in net'[Peer[e]] :
           p.type = "MESSAGE" =>
             \/ p \in net[Peer[e]]
             \/ p.num \in DOMAIN out[e] /\ p.msg = out[e][p.num].msg
  PROVE  CountersAgree(e)' /\ RecordsAgree(e)'
<1>1. CountersAgree(e)'
  BY DEF CountersAgree
<1>2. ASSUME NEW p \in net'[Peer[e]], p.type = "MESSAGE"
      PROVE  Recent(e, p.msg) /\ p.num = NumOf(p.msg)
  BY <1>2 DEF RecordsAgree
<1>3. \A k : Recent(e, k)' <=> Recent(e, k)
  BY DEF Recent
<1>4. RecordsAgree(e)'
  BY <1>2, <1>3 DEF RecordsAgree
<1> QED
  BY <1>1, <1>4

LEMMA NumbersInit == Init => NumbersIdentify
<1> SUFFICES ASSUME Init PROVE NumbersIdentify
  OBVIOUS
<1>1. \A e \in Endpoint : /\ DOMAIN out[e] = {} /\ DOMAIN in[e] = {}
                          /\ net[e] = {} /\ delivered[e] = <<>>
                          /\ sent[e] = 0
                          /\ nextOut[e] = FirstNum /\ nextIn[e] = FirstNum
  BY DEF Init, InitialConnection, NoRecords
<1>2. NumOf(1) = FirstNum
  BY NumAssumption DEF NumOf, Num
<1>3. \A e \in Endpoint : Peer[e] \in Endpoint
  BY PeerAssumption
<1>4. DeliveredInOrder
  BY <1>1 DEF DeliveredInOrder
<1>5. \A e \in Endpoint : CountersAgree(e)
  BY <1>1, <1>2, <1>3, NumAssumption DEF CountersAgree
<1>6. \A e \in Endpoint : RecordsAgree(e)
  BY <1>1, <1>3 DEF RecordsAgree
<1> QED
  BY <1>4, <1>5, <1>6 DEF NumbersIdentify

LEMMA NumbersSend ==
  ASSUME TypeOK, NumbersIdentify, NEW a \in Endpoint, SendReliableMessage(a)
  PROVE  NumbersIdentify'
<1> DEFINE f == Peer[a]
           s == sent[a]
           d == Len(delivered[f])
           Soon(k) == k \in 1 .. (s + 1) /\ s + 1 - k < Window
<1>1. f \in Endpoint /\ f # a /\ s \in Nat /\ d \in Nat /\ Window \in Nat
  BY PeerAssumption, NumAssumption DEF TypeOK
<1>2. /\ sent' = [sent EXCEPT ![a] = s + 1]
      /\ nextOut' = [nextOut EXCEPT ![a] = Adv(nextOut[a], 1)]
      /\ out' = [out EXCEPT ![a] = Extend(out[a], nextOut[a],
                   [msg |-> s + 1, acked |-> FALSE, ripe |-> FALSE])]
      /\ UNCHANGED <<nextIn, in, delivered>>
      /\ Young(a)
  BY DEF SendReliableMessage, recvVars
<1>3. \A k \in Live(a) : s + 1 - k < Window
  BY <1>2 DEF Young
<1>4. CountersAgree(a) /\ RecordsAgree(a)
  BY DEF NumbersIdentify
<1>5. sent'[a] = s + 1
  BY <1>2 DEF TypeOK
<1>6. s - d < Window /\ d <= s
  <2>1. d + 1 \in Live(a)
    BY DEF Live
  <2> QED
    BY <1>1, <1>3, <1>4, <2>1 DEF CountersAgree
<1>7. CountersAgree(a)'
  <2>1. nextOut'[a] = Adv(NumOf(s + 1), 1)
    BY <1>2, <1>4 DEF CountersAgree, TypeOK
  <2>2. Adv(NumOf(s + 1), 1) = NumOf((s + 1) + 1)
    <3>1. s + 1 \in Nat \ {0} /\ 1 \in Nat
      BY <1>1
    <3> QED
      BY <3>1, NumOfNext
  <2> QED
    BY <1>1, <1>2, <1>4, <1>5, <1>6, <2>1, <2>2 DEF CountersAgree
<1>8. RecordsAgree(a)'
  <2>1. Soon(s + 1)
    BY <1>1, <1>6
  <2>2. ASSUME NEW n \in DOMAIN out'[a]
        PROVE  Soon(out'[a][n].msg) /\ n = NumOf(out'[a][n].msg)
    <3>1. out'[a] = Extend(out[a], nextOut[a],
                      [msg |-> s + 1, acked |-> FALSE, ripe |-> FALSE])
      BY <1>2 DEF TypeOK, IsTable
    <3>2. CASE n = nextOut[a]
      BY <1>4, <2>1, <3>1, <3>2 DEF Extend, CountersAgree
    <3>3. CASE n # nextOut[a]
      <4>1. n \in DOMAIN out[a] /\ out'[a][n] = out[a][n]
        BY <2>2, <3>1, <3>3 DEF Extend
      <4>2. out[a][n].msg \in Live(a)
        BY <4>1 DEF Live
      <4>3. Recent(a, out[a][n].msg) /\ n = NumOf(out[a][n].msg)
        BY <4>1, <1>4 DEF RecordsAgree
      <4> QED
        BY <1>1, <1>3, <4>1, <4>2, <4>3 DEF Recent
    <3> QED
      BY <3>2, <3>3
  <2>3. ASSUME NEW n \in DOMAIN in'[f]
        PROVE  Soon(in'[f][n]) /\ n = NumOf(in'[f][n])
    <3>1. n \in DOMAIN in[f] /\ in'[f][n] = in[f][n]
      BY <1>2, <2>3
    <3>2. in[f][n] \in Live(a)
      BY <3>1 DEF Live
    <3>3. Recent(a, in[f][n]) /\ n = NumOf(in[f][n])
      BY <3>1, <1>4 DEF RecordsAgree
    <3> QED
      BY <1>1, <1>3, <3>1, <3>2, <3>3 DEF Recent
  <2>4. ASSUME NEW p \in net'[f], p.type = "MESSAGE"
        PROVE  Soon(p.msg) /\ p.num = NumOf(p.msg)
    <3>1. \/ p \in net[f]
          \/ p = Message(nextOut[a], s + 1, AckOf(a))
      BY <1>1, <2>4 DEF SendReliableMessage, Transmit, Released, TypeOK
    <3>2. CASE p \in net[f]
      <4>1. p.msg \in Live(a)
        BY <2>4, <3>2 DEF Live
      <4>2. Recent(a, p.msg) /\ p.num = NumOf(p.msg)
        BY <2>4, <3>2, <1>4 DEF RecordsAgree
      <4> QED
        BY <1>1, <1>3, <4>1, <4>2 DEF Recent
    <3>3. CASE p = Message(nextOut[a], s + 1, AckOf(a))
      BY <1>4, <2>1, <3>3 DEF Message, CountersAgree
    <3> QED
      BY <3>1, <3>2, <3>3
  <2>5. ASSUME NEW k, Soon(k) PROVE Recent(a, k)'
    BY <1>1, <1>5, <2>5 DEF Recent
  <2> HIDE DEF Soon
  <2> QED
    BY <2>2, <2>3, <2>4, <2>5 DEF RecordsAgree
<1>9. ASSUME NEW e \in Endpoint, e # a
      PROVE  CountersAgree(e)' /\ RecordsAgree(e)'
  <2>1. Peer[e] \in Endpoint /\ Peer[e] # f
    BY <1>9, PeerAssumption
  <2>2. /\ sent'[e] = sent[e] /\ nextOut'[e] = nextOut[e]
        /\ out'[e] = out[e]
    BY <1>2, <1>9 DEF TypeOK, IsTable
  <2>3. net'[Peer[e]] = net[Peer[e]]
    BY <2>1 DEF SendReliableMessage, Transmit, TypeOK
  <2>4. CountersAgree(e) /\ RecordsAgree(e)
    BY DEF NumbersIdentify
  <2> QED
    BY <1>2, <2>2, <2>3, <2>4, DirectionFrame
<1>10. DeliveredInOrder'
  BY <1>2 DEF NumbersIdentify, DeliveredInOrder
<1> QED
  BY <1>7, <1>8, <1>9, <1>10 DEF NumbersIdentify

\* An Update, a loss, an elapsed delay: records and packets only disappear,
\* and what is put under way carries no message.
LEMMA NumbersFrame ==
  ASSUME TypeOK, NumbersIdentify,
         UNCHANGED <<sent, nextOut, nextIn, delivered>>,
         \A e \in Endpoint :
           /\ \A n \in DOMAIN out'[e] :
                n \in DOMAIN out[e] /\ out'[e][n].msg = out[e][n].msg
           /\ \A n \in DOMAIN in'[e] :
                n \in DOMAIN in[e] /\ in'[e][n] = in[e][n]
           /\ \A p \in net'[e] : p.type = "MESSAGE" =>
                \/ p \in net[e]
                \/ /\ p.num \in DOMAIN out[Peer[e]]
                   /\ p.msg = out[Peer[e]][p.num].msg
  PROVE  NumbersIdentify'
<1>1. ASSUME NEW e \in Endpoint
      PROVE  CountersAgree(e)' /\ RecordsAgree(e)'
  <2>1. Peer[e] \in Endpoint /\ Peer[Peer[e]] = e
    BY PeerAssumption
  <2>2. CountersAgree(e) /\ RecordsAgree(e)
    BY DEF NumbersIdentify
  <2> QED
    BY <2>1, <2>2, DirectionFrame
<1>2. DeliveredInOrder'
  BY DEF NumbersIdentify, DeliveredInOrder
<1> QED
  BY <1>1, <1>2 DEF NumbersIdentify

\* The heart of the matter: when a message of f arrives at e, exactly the
\* messages that follow the delivered ones are handed on, in their order.
LEMMA AcceptInOrder ==
  ASSUME TypeOK, NumbersIdentify, NEW e \in Endpoint,
         NEW num \in Num, NEW content \in Nat,
         Recent(Peer[e], content), num = NumOf(content),
         Accept(e, num, content)
  PROVE  /\ \E run \in Nat :
              /\ Len(delivered[e]) + run <= sent[Peer[e]]
              /\ delivered' = [delivered EXCEPT ![e] =
                   @ \o [i \in 1 .. run |-> Len(delivered[e]) + i]]
              /\ nextIn' = [nextIn EXCEPT ![e] =
                              NumOf(Len(delivered[e]) + run + 1)]
         /\ \A n \in DOMAIN in'[e] :
              Recent(Peer[e], in'[e][n]) /\ n = NumOf(in'[e][n])
         /\ \A g \in Endpoint : g # e => in'[g] = in[g]
<1> DEFINE f == Peer[e]
           s == sent[f]
           d == Len(delivered[e])
           held == Extend(in[e], num, content)
           Wanted(i) == Adv(nextIn[e], i)
<1>1. /\ f \in Endpoint /\ Peer[f] = e
      /\ s \in Nat /\ d \in Nat /\ Window \in Nat /\ NumCount \in Nat
      /\ Window < NumCount
  BY PeerAssumption, NumAssumption DEF TypeOK
<1>2. /\ CountersAgree(f) /\ RecordsAgree(f)
  BY <1>1 DEF NumbersIdentify
<1>3. d <= s /\ s - d <= Window /\ nextIn[e] = NumOf(d + 1)
  BY <1>1, <1>2 DEF CountersAgree
<1>4. \A i \in Nat : Wanted(i) = NumOf(d + 1 + i)
  <2>1. d + 1 \in Nat \ {0}
    BY <1>1
  <2> QED
    BY <1>3, <2>1, NumOfNext
<1>5. \A n \in DOMAIN held :
        /\ held[n] \in 1 .. s /\ s - held[n] < Window
        /\ n = NumOf(held[n])
  BY <1>1, <1>2 DEF RecordsAgree, Recent, Extend
<1>6. PICK run \in 0 .. (NumCount - 1) :
        /\ \A i \in 0 .. (run - 1) : Wanted(i) \in DOMAIN held
        /\ nextIn' = [nextIn EXCEPT ![e] = Wanted(run)]
        /\ in' = [in EXCEPT ![e] = Restrict(held,
                    DOMAIN held \ {Wanted(i) : i \in 0 .. (run - 1)})]
        /\ delivered' = [delivered EXCEPT ![e] =
                           @ \o [i \in 1 .. run |-> held[Wanted(i - 1)]]]
  BY DEF Accept
<1> HIDE DEF held, Wanted
<1>7. run \in Nat /\ run < NumCount
  BY <1>1, <1>6
\* The number after the last one sent is nowhere on record.
<1>8. d + run <= s
  <2> SUFFICES ASSUME d + run > s PROVE FALSE
    BY <1>1, <1>7
  <2>1. s - d \in 0 .. (run - 1) /\ s - d \in Nat
    BY <1>1, <1>3, <1>7
  <2>2. Wanted(s - d) \in DOMAIN held
    BY <1>6, <2>1
  <2>3. Wanted(s - d) = NumOf(s + 1)
    <3>1. d + 1 + (s - d) = s + 1
      BY <1>1
    <3> QED
      BY <1>4, <2>1, <3>1
  <2> DEFINE k == held[Wanted(s - d)]
  <2>4. k \in 1 .. s /\ s - k < Window /\ NumOf(k) = NumOf(s + 1)
    BY <1>5, <2>2, <2>3
  <2> HIDE DEF k
  <2>5. /\ k \in Nat \ {0} /\ s + 1 \in Nat \ {0}
        /\ k < (s + 1) + NumCount /\ s + 1 < k + NumCount
    BY <1>1, <2>4
  <2>6. k = s + 1
    BY <2>4, <2>5, NumOfInjective
  <2> QED
    BY <1>1, <2>4, <2>6
<1>9. \A i \in 1 .. run : held[Wanted(i - 1)] = d + i
  <2> TAKE i \in 1 .. run
  <2>1. i - 1 \in 0 .. (run - 1) /\ i - 1 \in Nat /\ i \in Nat /\ i # 0
    BY <1>7
  <2>2. Wanted(i - 1) \in DOMAIN held /\ Wanted(i - 1) = NumOf(d + i)
    <3>1. d + 1 + (i - 1) = d + i
      BY <1>1, <2>1
    <3> QED
      BY <1>4, <1>6, <2>1, <3>1
  <2> DEFINE k == held[Wanted(i - 1)]
  <2>3. k \in 1 .. s /\ s - k < Window /\ NumOf(k) = NumOf(d + i)
    BY <1>5, <2>2
  <2> HIDE DEF k
  <2>4. d + i <= s /\ d + i >= d + 1
    BY <1>1, <1>7, <1>8, <2>1
  <2>5. /\ k \in Nat \ {0} /\ d + i \in Nat \ {0}
        /\ k < (d + i) + NumCount /\ d + i < k + NumCount
    BY <1>1, <1>3, <2>1, <2>3, <2>4
  <2>6. k = d + i
    BY <2>3, <2>5, NumOfInjective
  <2> QED
    BY <2>6 DEF k
<1>10. [i \in 1 .. run |-> held[Wanted(i - 1)]] = [i \in 1 .. run |-> d + i]
  BY <1>9
<1>11. Wanted(run) = NumOf(d + run + 1)
  <2>1. d + 1 + run = d + run + 1
    BY <1>1, <1>7
  <2> QED
    BY <1>4, <1>7, <2>1
<1>12. \A n \in DOMAIN in'[e] :
         Recent(f, in'[e][n]) /\ n = NumOf(in'[e][n])
  <2>1. in'[e] = Restrict(held,
                   DOMAIN held \ {Wanted(i) : i \in 0 .. (run - 1)})
    BY <1>6 DEF TypeOK, IsTable
  <2> QED
    BY <1>5, <2>1 DEF Restrict, Recent
<1>13. \A g \in Endpoint : g # e => in'[g] = in[g]
  BY <1>6 DEF TypeOK, IsTable
<1> QED
  BY <1>6, <1>7, <1>8, <1>10, <1>11, <1>12, <1>13

\* The packets that a reply adds to the net repeat records of the sender.
LEMMA ReplyRepeats ==
  ASSUME TypeOK, NEW e \in Endpoint, NEW p \in net[e], NEW again \in BOOLEAN,
         ReplyTo(e, p, again), NEW g \in Endpoint, NEW q \in net'[g],
         q \notin net[g]
  PROVE  /\ g = Peer[e]
         /\ q.num \in DOMAIN out[e]
         /\ q.msg = out[e][q.num].msg
<1> DEFINE R == Replies(e, p.ack)
<1>1. p.ack \in Ack
  BY DEF TypeOK, Packet
<1>2. \A r \in R : r.num \in DOMAIN out[e] /\ r.msg = out[e][r.num].msg
  BY <1>1, RepliesType
<1>3. net' = [net EXCEPT ![e] = Taken(e, p, again),
                         ![Peer[e]] = @ \cup Released(e, R)]
  BY DEF ReplyTo
<1>4. Taken(e, p, again) \subseteq net[e] /\ Released(e, R) \subseteq R
  BY DEF Taken, Released
<1>5. g = Peer[e] /\ q \in R
  BY <1>3, <1>4, PeerAssumption DEF TypeOK
<1> QED
  BY <1>2, <1>5

LEMMA NumbersKeepalive ==
  ASSUME TypeOK, NumbersIdentify, NEW e \in Endpoint, NEW p \in net[e],
         NEW again \in BOOLEAN, HandleResends(e, p.ack), ReplyTo(e, p, again),
         UNCHANGED <<sent, nextOut, nextIn, in, delivered>>
  PROVE  NumbersIdentify'
<1>1. p.ack \in Ack
  BY DEF TypeOK, Packet
<1>2. \A f \in Endpoint : \A n \in DOMAIN out'[f] :
        n \in DOMAIN out[f] /\ out'[f][n].msg = out[f][n].msg
  BY <1>1, HandleResendsType
<1>3. \A g \in Endpoint : \A q \in net'[g] :
        \/ q \in net[g]
        \/ q.num \in DOMAIN out[Peer[g]] /\ q.msg = out[Peer[g]][q.num].msg
  BY ReplyRepeats, PeerAssumption
<1>4. \A f \in Endpoint : \A n \in DOMAIN in'[f] :
        n \in DOMAIN in[f] /\ in'[f][n] = in[f][n]
  OBVIOUS
<1>5. UNCHANGED <<sent, nextOut, nextIn, delivered>>
  OBVIOUS
<1> QED
  BY <1>2, <1>3, <1>4, <1>5, NumbersFrame

LEMMA NumbersMessage ==
  ASSUME TypeOK, NumbersIdentify, NEW e \in Endpoint, NEW p \in net[e],
         NEW again \in BOOLEAN, ReceiveMessage(e, p, again)
  PROVE  NumbersIdentify'
<1> DEFINE f == Peer[e]
<1>1. /\ f \in Endpoint /\ Peer[f] = e /\ f # e
      /\ p.ack \in Ack /\ p.type = "MESSAGE" /\ p.num \in Num /\ p.msg \in Nat
      /\ HandleResends(e, p.ack) /\ ReplyTo(e, p, again)
      /\ UNCHANGED <<sent, nextOut>>
  BY PeerAssumption DEF ReceiveMessage, TypeOK, Packet, sendVars
<1>2. CASE UNCHANGED <<nextIn, nextInU, in, delivered>>
  BY <1>1, <1>2, NumbersKeepalive
<1>3. CASE Accept(e, p.num, p.msg)
  <2>1. Recent(f, p.msg) /\ p.num = NumOf(p.msg)
    BY <1>1 DEF NumbersIdentify, RecordsAgree
  <2>2. PICK run \in Nat :
          /\ Len(delivered[e]) + run <= sent[f]
          /\ delivered' = [delivered EXCEPT ![e] =
               @ \o [i \in 1 .. run |-> Len(delivered[e]) + i]]
          /\ nextIn' = [nextIn EXCEPT ![e] =
                          NumOf(Len(delivered[e]) + run + 1)]
    BY <1>1, <1>3, <2>1, AcceptInOrder
  <2>3. /\ \A n \in DOMAIN in'[e] :
             Recent(f, in'[e][n]) /\ n = NumOf(in'[e][n])
        /\ \A g \in Endpoint : g # e => in'[g] = in[g]
    BY <1>1, <1>3, <2>1, AcceptInOrder
  <2>4. \A g \in Endpoint : \A n \in DOMAIN out'[g] :
          n \in DOMAIN out[g] /\ out'[g][n].msg = out[g][n].msg
    BY <1>1, HandleResendsType
  <2>5. \A g \in Endpoint : \A q \in net'[g] :
          \/ q \in net[g]
          \/ /\ q.num \in DOMAIN out[Peer[g]]
             /\ q.msg = out[Peer[g]][q.num].msg
    BY <1>1, ReplyRepeats, PeerAssumption
  <2> DEFINE more == [i \in 1 .. run |-> Len(delivered[e]) + i]
  <2>6. /\ delivered'[e] = delivered[e] \o more
        /\ nextIn'[e] = NumOf(Len(delivered[e]) + run + 1)
        /\ delivered[e] \in Seq(Nat)
        /\ \A g \in Endpoint : g # e =>
             delivered'[g] = delivered[g] /\ nextIn'[g] = nextIn[g]
    BY <2>2 DEF TypeOK
  <2>7. more \in Seq(Nat) /\ Len(more) = run
    BY <2>2, <2>6
  <2>8. /\ Len(delivered'[e]) = Len(delivered[e]) + run
        /\ \A i \in 1 .. Len(delivered[e]) : delivered'[e][i] = delivered[e][i]
        /\ \A i \in (Len(delivered[e]) + 1) .. (Len(delivered[e]) + run) :
             delivered'[e][i] = i
    BY <2>6, <2>7
  <2> HIDE DEF more
  \* The direction in which the message went.
  <2>9. CountersAgree(f)' /\ RecordsAgree(f)'
    <3>1. CountersAgree(f) /\ RecordsAgree(f)
      BY <1>1 DEF NumbersIdentify
    <3>2. CountersAgree(f)'
      <4>1. sent'[f] = sent[f] /\ nextOut'[f] = nextOut[f] /\ sent[f] \in Nat
        BY <1>1 DEF TypeOK
      <4>2. /\ Len(delivered[e]) \in Nat /\ Window \in Nat
            /\ Len(delivered'[e]) + 1 = Len(delivered[e]) + run + 1
        BY <2>6, <2>8, NumAssumption
      <4> QED
        BY <1>1, <2>2, <2>6, <2>8, <3>1, <4>1, <4>2 DEF CountersAgree
    <3>3. \A k : Recent(f, k)' <=> Recent(f, k)
      BY <1>1 DEF Recent
    <3>4. \A q \in net'[e] : q.type = "MESSAGE" =>
            Recent(f, q.msg) /\ q.num = NumOf(q.msg)
      BY <1>1, <2>5, <3>1 DEF RecordsAgree
    <3>5. \A n \in DOMAIN out'[f] :
            Recent(f, out'[f][n].msg) /\ n = NumOf(out'[f][n].msg)
      BY <1>1, <2>4, <3>1 DEF RecordsAgree
    <3> QED
      BY <1>1, <2>3, <3>2, <3>3, <3>4, <3>5 DEF RecordsAgree
  \* The other directions.
  <2>10. ASSUME NEW g \in Endpoint, g # f
         PROVE  CountersAgree(g)' /\ RecordsAgree(g)'
    <3>1. Peer[g] \in Endpoint /\ Peer[g] # e /\ Peer[Peer[g]] = g
      BY <1>1, <2>10, PeerAssumption
    <3>2. CountersAgree(g) /\ RecordsAgree(g)
      BY DEF NumbersIdentify
    <3> QED
      BY <1>1, <2>3, <2>4, <2>5, <2>6, <3>1, <3>2, DirectionFrame
  <2>11. DeliveredInOrder'
    <3>1. ASSUME NEW g \in Endpoint, NEW i \in DOMAIN delivered'[g]
          PROVE  delivered'[g][i] = i
      <4>1. CASE g # e
        BY <2>6, <3>1, <4>1 DEF NumbersIdentify, DeliveredInOrder
      <4>2. CASE g = e
        <5>1. i \in 1 .. (Len(delivered[e]) + run)
          BY <2>6, <2>7, <2>8, <3>1, <4>2
        <5>2. CASE i \in 1 .. Len(delivered[e])
          BY <2>6, <2>8, <4>2, <5>2 DEF NumbersIdentify, DeliveredInOrder
        <5>3. CASE i \in (Len(delivered[e]) + 1) .. (Len(delivered[e]) + run)
          BY <2>8, <4>2, <5>3
        <5>4. Len(delivered[e]) \in Nat
          BY <2>6
        <5> QED
          BY <2>2, <5>1, <5>2, <5>3, <5>4
      <4> QED
        BY <4>1, <4>2
    <3> QED
      BY <3>1 DEF DeliveredInOrder
  <2> QED
    BY <2>9, <2>10, <2>11 DEF NumbersIdentify
<1> QED
  BY <1>2, <1>3 DEF ReceiveMessage

LEMMA NumbersUpdate ==
  ASSUME TypeOK, NumbersIdentify, NEW e \in Endpoint, Update(e)
  PROVE  NumbersIdentify'
<1>1. UNCHANGED <<sent, nextOut, nextIn, delivered>>
  BY DEF Update, sendVars
<1>2. \A f \in Endpoint :
        /\ \A n \in DOMAIN out'[f] :
             n \in DOMAIN out[f] /\ out'[f][n].msg = out[f][n].msg
        /\ \A n \in DOMAIN in'[f] : n \in DOMAIN in[f] /\ in'[f][n] = in[f][n]
  BY PruneType DEF Update
<1>3. \A f \in Endpoint : \A p \in net'[f] : p.type = "MESSAGE" => p \in net[f]
  <2>1. Keepalive(AckOf(e)).type # "MESSAGE"
    BY DEF Keepalive
  <2>2. PICK P \in SUBSET {Keepalive(AckOf(e))} :
          net' = [net EXCEPT ![Peer[e]] = @ \cup P]
    BY DEF Update, Transmit, Released
  <2> QED
    BY <2>1, <2>2 DEF TypeOK
<1> QED
  BY <1>1, <1>2, <1>3, NumbersFrame

LEMMA NumbersReceive ==
  ASSUME TypeOK, NumbersIdentify, NEW e \in Endpoint, NEW p \in net[e],
         NEW again \in BOOLEAN, Receive(e, p, again)
  PROVE  NumbersIdentify'
<1>1. CASE ReceiveKeepalive(e, p, again)
  BY <1>1, NumbersKeepalive DEF ReceiveKeepalive, sendVars, recvVars
<1>2. CASE ReceiveMessage(e, p, again)
  BY <1>2, NumbersMessage
<1>3. CASE ReceiveUnreliable(e, p, again) \/ Ignore(e, p, again)
  <2>1. /\ UNCHANGED <<sent, nextOut, nextIn, in, delivered, out>>
        /\ net' = [net EXCEPT ![e] = Taken(e, p, again)]
    BY <1>3 DEF ReceiveUnreliable, Ignore, sendVars, recvVars
  <2>2. \A f \in Endpoint : net'[f] \subseteq net[f]
    BY <2>1 DEF Taken, TypeOK
  <2> QED
    BY <2>1, <2>2, NumbersFrame
<1> QED
  BY <1>1, <1>2, <1>3 DEF Receive

\* Steps that touch neither counters nor what is under way, but for a loss.
LEMMA NumbersOther ==
  ASSUME TypeOK, NumbersIdentify, NEW e \in Endpoint,
         \/ SendUnreliableMessage(e)
         \/ HandshakeDone(e) \/ Die(e) \/ KeepaliveDelayElapses(e)
         \/ \E num \in DOMAIN out[e] : ResendTimeElapses(e, num)
         \/ \E p \in net[e] : Lose(e, p)
  PROVE  NumbersIdentify'
<1>1. CASE SendUnreliableMessage(e)
  <2>1. UNCHANGED <<sent, nextOut, nextIn, in, delivered, out>>
    BY <1>1 DEF SendUnreliableMessage, recvVars
  <2>2. Unreliable(nextOut[e], nextOutU[e], sent[e], AckOf(e)).type # "MESSAGE"
    BY DEF Unreliable
  <2>3. PICK P \in SUBSET
               {Unreliable(nextOut[e], nextOutU[e], sent[e], AckOf(e))} :
          net' = [net EXCEPT ![Peer[e]] = @ \cup P]
    BY <1>1 DEF SendUnreliableMessage, Transmit, Released
  <2>4. \A f \in Endpoint : \A p \in net'[f] :
          p.type = "MESSAGE" => p \in net[f]
    BY <2>2, <2>3 DEF TypeOK
  <2> QED
    BY <2>1, <2>4, NumbersFrame
<1>2. CASE HandshakeDone(e) \/ Die(e) \/ KeepaliveDelayElapses(e)
  <2>1. UNCHANGED <<sent, nextOut, nextIn, in, delivered, out, net>>
    BY <1>2 DEF HandshakeDone, Die, KeepaliveDelayElapses, sendVars, recvVars
  <2> QED
    BY <2>1, NumbersFrame
<1>3. ASSUME NEW num \in DOMAIN out[e], ResendTimeElapses(e, num)
      PROVE  NumbersIdentify'
  <2>1. UNCHANGED <<sent, nextOut, nextIn, in, delivered, net>>
    BY <1>3 DEF ResendTimeElapses, sendVars, recvVars
  <2>2. \A f \in Endpoint : \A n \in DOMAIN out'[f] :
          n \in DOMAIN out[f] /\ out'[f][n].msg = out[f][n].msg
    BY <1>3 DEF ResendTimeElapses, TypeOK, IsTable, OutRecord
  <2> QED
    BY <2>1, <2>2, NumbersFrame
<1>4. ASSUME NEW p \in net[e], Lose(e, p)
      PROVE  NumbersIdentify'
  <2>1. UNCHANGED <<sent, nextOut, nextIn, in, delivered, out>>
    BY <1>4 DEF Lose, sendVars, recvVars
  <2>2. \A f \in Endpoint : net'[f] \subseteq net[f]
    BY <1>4 DEF Lose, TypeOK
  <2> QED
    BY <2>1, <2>2, NumbersFrame
<1> QED
  BY <1>1, <1>2, <1>3, <1>4

LEMMA NumbersStep ==
  TypeOK /\ NumbersIdentify /\ [Next]_vars => NumbersIdentify'
<1> SUFFICES ASSUME TypeOK, NumbersIdentify, [Next]_vars
             PROVE  NumbersIdentify'
  OBVIOUS
<1>1. CASE UNCHANGED vars
  <2>1. UNCHANGED <<sent, nextOut, nextIn, in, delivered, out, net>>
    BY <1>1 DEF vars
  <2> QED
    BY <2>1, NumbersFrame
<1>2. CASE Next
  BY <1>2, NumbersSend, NumbersUpdate, NumbersReceive, NumbersOther DEF Next
<1> QED
  BY <1>1, <1>2

\* Counters, records and packets stand for the messages the history says.
THEOREM NumbersCorrect == Spec => []NumbersIdentify
  BY TypeCorrect, NumbersInit, NumbersStep, PTL DEF Spec

\* Reliable messages are delivered exactly once and in the order sent,
\* whatever the network loses, repeats or reorders.
THEOREM Order == Spec => []DeliveredInOrder
<1>1. NumbersIdentify => DeliveredInOrder
  BY DEF NumbersIdentify
<1> QED
  BY <1>1, NumbersCorrect, PTL

-----------------------------------------------------------------------------
(* Refinement.                                                             *)

LEMMA ChannelInit == Init => Channels!Init
  BY DEF Init, Channels!Init

LEMMA ChannelAccept ==
  ASSUME TypeOK, NumbersIdentify, NEW e \in Endpoint, NEW p \in net[e],
         NEW again \in BOOLEAN, ReceiveMessage(e, p, again)
  PROVE  Channels!Deliver(e) \/ UNCHANGED <<sent, delivered>>
<1>1. /\ p.type = "MESSAGE" /\ p.num \in Num /\ p.msg \in Nat
      /\ UNCHANGED sent
  BY DEF ReceiveMessage, TypeOK, Packet, sendVars
<1>2. CASE UNCHANGED <<nextIn, nextInU, in, delivered>>
  BY <1>1, <1>2
<1>3. CASE Accept(e, p.num, p.msg)
  <2> DEFINE d == Len(delivered[e])
             s == sent[Peer[e]]
  <2>1. Peer[e] \in Endpoint /\ Peer[Peer[e]] = e
    BY PeerAssumption
  <2>2. Recent(Peer[e], p.msg) /\ p.num = NumOf(p.msg)
    BY <1>1, <2>1 DEF NumbersIdentify, RecordsAgree
  <2>3. PICK run \in Nat :
          /\ d + run <= s
          /\ delivered' = [delivered EXCEPT ![e] =
                             @ \o [i \in 1 .. run |-> d + i]]
    BY <1>1, <1>3, <2>2, AcceptInOrder
  <2>4. d \in Nat /\ s \in Nat /\ delivered[e] \in Seq(Nat)
    BY <2>1 DEF TypeOK
  <2>5. CASE run = 0
    <3>1. delivered[e] \o [i \in 1 .. run |-> d + i] = delivered[e]
      BY <2>4, <2>5
    <3> QED
      BY <1>1, <2>3, <3>1 DEF TypeOK
  <2>6. CASE run # 0
    <3>1. d < s /\ run \in 1 .. (s - d)
      BY <2>3, <2>4, <2>6
    <3> QED
      BY <1>1, <2>3, <3>1 DEF Channels!Deliver
  <2> QED
    BY <2>5, <2>6
<1> QED
  BY <1>2, <1>3 DEF ReceiveMessage

LEMMA ChannelStep ==
  TypeOK /\ NumbersIdentify /\ [Next]_vars => [Channels!Next]_(Channels!vars)
<1> SUFFICES ASSUME TypeOK, NumbersIdentify, [Next]_vars
             PROVE  Channels!Next \/ UNCHANGED <<sent, delivered>>
  BY DEF Channels!vars
<1>1. CASE UNCHANGED vars
  BY <1>1 DEF vars
<1>2. ASSUME NEW e \in Endpoint, SendReliableMessage(e)
      PROVE  Channels!Next
  BY <1>2 DEF SendReliableMessage, recvVars, Channels!Next, Channels!Send
<1>3. ASSUME NEW e \in Endpoint, NEW p \in net[e], NEW again \in BOOLEAN,
             Receive(e, p, again)
      PROVE  Channels!Next \/ UNCHANGED <<sent, delivered>>
  <2>1. CASE ReceiveMessage(e, p, again)
    BY <2>1, ChannelAccept DEF Channels!Next
  <2>2. CASE \/ ReceiveKeepalive(e, p, again)
             \/ ReceiveUnreliable(e, p, again)
             \/ Ignore(e, p, again)
    BY <2>2 DEF ReceiveKeepalive, ReceiveUnreliable, Ignore, sendVars, recvVars
  <2> QED
    BY <1>3, <2>1, <2>2 DEF Receive
<1>4. ASSUME NEW e \in Endpoint,
             \/ SendUnreliableMessage(e) \/ Update(e)
             \/ HandshakeDone(e) \/ Die(e) \/ KeepaliveDelayElapses(e)
             \/ \E num \in DOMAIN out[e] : ResendTimeElapses(e, num)
             \/ \E p \in net[e] : Lose(e, p)
      PROVE  UNCHANGED <<sent, delivered>>
  BY <1>4 DEF SendUnreliableMessage, Update, HandshakeDone, Die,
              KeepaliveDelayElapses, ResendTimeElapses, Lose, sendVars, recvVars
<1> QED
  BY <1>1, <1>2, <1>3, <1>4 DEF Next

\* Every behaviour of the two ends and the network is, seen from what was
\* sent and what was handed on, one of two channels that keep the order.
THEOREM Refinement == Spec => ImplementsChannels
  BY TypeCorrect, NumbersCorrect, ChannelInit, ChannelStep, PTL
  DEF Spec, ImplementsChannels, Channels!Spec

-----------------------------------------------------------------------------
(* The place of unreliable messages.                                       *)

\* An unreliable message under way bears the number of the reliable message
\* that comes next, and that number still means that message.  What was
\* handed on lies before what may be handed on now.
UnreliableAgree(e) ==
  /\ \A p \in net[Peer[e]] : p.type = "MESSAGE_UNRELIABLE" =>
       /\ p.after \in 0 .. sent[e] /\ sent[e] - p.after <= Window
       /\ p.num = NumOf(p.after + 1)
       /\ p.unum + 1 \in Num
  /\ \A i \in DOMAIN deliveredU[Peer[e]] :
       /\ deliveredU[Peer[e]][i].after <= Len(delivered[Peer[e]])
       /\ deliveredU[Peer[e]][i].after = Len(delivered[Peer[e]])
            => deliveredU[Peer[e]][i].unum < nextInU[Peer[e]]

UnreliableInv == UnreliableInPlace /\ \A e \in Endpoint : UnreliableAgree(e)

LEMMA UnreliableType ==
  ASSUME TypeOK, NEW e \in Endpoint, NEW i \in DOMAIN deliveredU[e]
  PROVE  /\ deliveredU[e][i].after \in Nat
         /\ deliveredU[e][i].unum \in Nat
         /\ deliveredU[e][i].at \in Nat
<1> DEFINE R == [after : Nat, unum : Nat, at : Nat]
<1>1. deliveredU[e] \in Seq(R)
  BY DEF TypeOK
<1> HIDE DEF R
<1>2. i \in 1 .. Len(deliveredU[e])
  BY <1>1
<1>3. deliveredU[e][i] \in R
  BY <1>1, <1>2, ElementOfSeq
<1> QED
  BY <1>3 DEF R

\* A direction in which no unreliable message is sent or handed on.
LEMMA UnreliableFrame ==
  ASSUME NEW e \in Endpoint, UnreliableAgree(e),
         sent'[e] = sent[e], delivered'[Peer[e]] = delivered[Peer[e]],
         deliveredU'[Peer[e]] = deliveredU[Peer[e]], nextInU'[Peer[e]] = nextInU[Peer[e]],
         \A p \in net'[Peer[e]] : p.type = "MESSAGE_UNRELIABLE" => p \in net[Peer[e]]
  PROVE  UnreliableAgree(e)'
  BY DEF UnreliableAgree

LEMMA UnreliableStays ==
  ASSUME UnreliableInv, UNCHANGED <<sent, delivered, deliveredU, nextInU>>,
         \A f \in Endpoint : \A p \in net'[f] :
           p.type = "MESSAGE_UNRELIABLE" => p \in net[f]
  PROVE  UnreliableInv'
<1>1. ASSUME NEW e \in Endpoint
      PROVE  UnreliableAgree(e)'
  <2>1. Peer[e] \in Endpoint
    BY PeerAssumption
  <2>2. UnreliableAgree(e)
    BY DEF UnreliableInv
  <2> QED
    BY <2>1, <2>2, UnreliableFrame
<1>2. UnreliableInPlace'
  BY DEF UnreliableInv, UnreliableInPlace
<1> QED
  BY <1>1, <1>2 DEF UnreliableInv

LEMMA UnreliableInit == Init => UnreliableInv
<1> SUFFICES ASSUME Init PROVE UnreliableInv
  OBVIOUS
<1>1. \A e \in Endpoint : deliveredU[e] = <<>> /\ net[e] = {} /\ Peer[e] \in Endpoint
  BY PeerAssumption DEF Init
<1>2. UnreliableInPlace
  BY <1>1 DEF UnreliableInPlace
<1> QED
  BY <1>1, <1>2 DEF UnreliableInv, UnreliableAgree

LEMMA UnreliableSendReliable ==
  ASSUME TypeOK, NumbersIdentify, UnreliableInv, NEW a \in Endpoint, SendReliableMessage(a)
  PROVE  UnreliableInv'
<1> DEFINE f == Peer[a]
           s == sent[a]
<1>1. /\ f \in Endpoint /\ f # a /\ s \in Nat /\ Window \in Nat
      /\ sent' = [sent EXCEPT ![a] = s + 1] /\ sent'[a] = s + 1
      /\ UNCHANGED <<nextInU, delivered, deliveredU>>
      /\ \A k \in Live(a) : s + 1 - k < Window
  BY PeerAssumption, NumAssumption DEF TypeOK, SendReliableMessage, recvVars, Young
<1>2. \A g \in Endpoint : \A p \in net'[g] : p.type = "MESSAGE_UNRELIABLE" => p \in net[g]
  <2>1. Message(nextOut[a], s + 1, AckOf(a)).type # "MESSAGE_UNRELIABLE"
    BY DEF Message
  <2>2. PICK P \in SUBSET {Message(nextOut[a], s + 1, AckOf(a))} :
          net' = [net EXCEPT ![f] = @ \cup P]
    BY DEF SendReliableMessage, Transmit, Released
  <2> QED
    BY <2>1, <2>2 DEF TypeOK
<1>3. UnreliableAgree(a)'
  <2>1. UnreliableAgree(a)
    BY DEF UnreliableInv
  <2>2. ASSUME NEW p \in net'[f], p.type = "MESSAGE_UNRELIABLE"
        PROVE  /\ p.after \in 0 .. (s + 1) /\ s + 1 - p.after <= Window
               /\ p.num = NumOf(p.after + 1) /\ p.unum + 1 \in Num
    <3>1. p \in net[f]
      BY <1>1, <1>2, <2>2
    <3>2. p.after + 1 \in Live(a)
      BY <2>2, <3>1 DEF Live
    <3>3. /\ p.after \in 0 .. s
          /\ p.num = NumOf(p.after + 1) /\ p.unum + 1 \in Num
      BY <2>1, <2>2, <3>1 DEF UnreliableAgree
    <3>4. s + 1 - (p.after + 1) < Window
      BY <1>1, <3>2
    <3> QED
      BY <1>1, <3>3, <3>4
  <2> QED
    BY <1>1, <2>1, <2>2 DEF UnreliableAgree
<1>4. ASSUME NEW e \in Endpoint, e # a
      PROVE  UnreliableAgree(e)'
  <2>1. Peer[e] \in Endpoint /\ UnreliableAgree(e) /\ sent'[e] = sent[e]
    BY <1>1, <1>4, PeerAssumption DEF UnreliableInv, TypeOK
  <2> QED
    BY <1>1, <1>2, <2>1, UnreliableFrame
<1>5. UnreliableInPlace'
  BY <1>1 DEF UnreliableInv, UnreliableInPlace
<1> QED
  BY <1>3, <1>4, <1>5 DEF UnreliableInv

LEMMA UnreliableSend ==
  ASSUME TypeOK, NumbersIdentify, UnreliableInv, NEW a \in Endpoint, SendUnreliableMessage(a)
  PROVE  UnreliableInv'
<1> DEFINE f == Peer[a]
           new == Unreliable(nextOut[a], nextOutU[a], sent[a], AckOf(a))
<1>1. /\ f \in Endpoint /\ f # a /\ Window \in Nat /\ sent[a] \in Nat
      /\ UNCHANGED <<sent, delivered, deliveredU, nextInU>>
  BY PeerAssumption, NumAssumption DEF TypeOK, SendUnreliableMessage, recvVars
<1>2. PICK P \in SUBSET {new} : net' = [net EXCEPT ![f] = @ \cup P]
  BY DEF SendUnreliableMessage, Transmit, Released
<1>3. UnreliableAgree(a)'
  <2>1. UnreliableAgree(a)
    BY DEF UnreliableInv
  <2>2. /\ new.after = sent[a] /\ new.num = nextOut[a] /\ new.unum = nextOutU[a]
        /\ nextOut[a] = NumOf(sent[a] + 1)
    BY DEF Unreliable, NumbersIdentify, CountersAgree
  <2>3. nextOutU[a] + 1 \in Num
    <3>1. nextOutU[a] \in Num /\ nextOutU[a] < MaxUnreliable[a] /\ MaxUnreliable[a] \in 0 .. (NumCount - 1)
      BY BoundAssumption DEF TypeOK, SendUnreliableMessage
    <3> QED
      BY <3>1, NumAssumption DEF Num
  <2> HIDE DEF new
  <2>4. \A p \in net'[f] : p \in net[f] \/ p = new
    BY <1>1, <1>2 DEF TypeOK
  <2>5. ASSUME NEW p \in net'[f], p.type = "MESSAGE_UNRELIABLE"
        PROVE  /\ p.after \in 0 .. sent[a] /\ sent[a] - p.after <= Window
               /\ p.num = NumOf(p.after + 1) /\ p.unum + 1 \in Num
    <3>1. CASE p \in net[f]
      BY <2>1, <2>5, <3>1 DEF UnreliableAgree
    <3>2. CASE p = new
      BY <1>1, <2>2, <2>3, <3>2
    <3> QED
      BY <2>4, <3>1, <3>2
  <2> QED
    BY <1>1, <2>1, <2>5 DEF UnreliableAgree
<1>4. ASSUME NEW e \in Endpoint, e # a
      PROVE  UnreliableAgree(e)'
  <2>1. Peer[e] \in Endpoint /\ Peer[e] # f /\ UnreliableAgree(e)
    BY <1>4, PeerAssumption DEF UnreliableInv
  <2>2. net'[Peer[e]] = net[Peer[e]]
    BY <1>2, <2>1 DEF TypeOK
  <2> QED
    BY <1>1, <2>1, <2>2, UnreliableFrame
<1>5. UnreliableInPlace'
  BY <1>1 DEF UnreliableInv, UnreliableInPlace
<1> QED
  BY <1>3, <1>4, <1>5 DEF UnreliableInv

\* What a packet sets off on the net: replies, to the other end only.
LEMMA ReplyAdds ==
  ASSUME TypeOK, NEW e \in Endpoint, NEW p \in net[e], NEW again \in BOOLEAN,
         ReplyTo(e, p, again), NEW g \in Endpoint, NEW q \in net'[g], q \notin net[g]
  PROVE  g = Peer[e] /\ q \in Replies(e, p.ack) /\ q.type = "MESSAGE"
<1> DEFINE R == Replies(e, p.ack)
<1>1. net' = [net EXCEPT ![e] = Taken(e, p, again), ![Peer[e]] = @ \cup Released(e, R)]
  BY DEF ReplyTo
<1>2. Taken(e, p, again) \subseteq net[e] /\ Released(e, R) \subseteq R
  BY DEF Taken, Released
<1>3. \A r \in R : r.type = "MESSAGE"
  BY DEF Replies, Message
<1> HIDE DEF R
<1>4. g = Peer[e] /\ q \in R
  BY <1>1, <1>2, PeerAssumption DEF TypeOK
<1> QED
  BY <1>3, <1>4 DEF R

\* What Accept hands on moves the place on, and nothing else does.
LEMMA AcceptMovesOn ==
  ASSUME TypeOK, NEW e \in Endpoint, NEW num \in Num, NEW content \in Nat, Accept(e, num, content)
  PROVE  /\ \/ delivered'[e] = delivered[e] /\ nextInU'[e] = nextInU[e]
            \/ Len(delivered'[e]) > Len(delivered[e])
         /\ \A g \in Endpoint : g # e => delivered'[g] = delivered[g] /\ nextInU'[g] = nextInU[g]
<1> DEFINE held == Extend(in[e], num, content)
<1>0. held \in [DOMAIN held -> Nat]
  BY DEF TypeOK, IsTable, Extend
<1>1. PICK run \in 0 .. (NumCount - 1) :
        /\ \A i \in 0 .. (run - 1) : Adv(nextIn[e], i) \in DOMAIN held
        /\ nextInU' = [nextInU EXCEPT ![e] = IF run > 0 THEN 0 ELSE @]
        /\ delivered' = [delivered EXCEPT ![e] =
                           @ \o [i \in 1 .. run |-> held[Adv(nextIn[e], i - 1)]]]
  BY DEF Accept
<1> DEFINE more == [i \in 1 .. run |-> held[Adv(nextIn[e], i - 1)]]
<1>2. more \in Seq(Nat) /\ Len(more) = run /\ run \in Nat
  <2> HIDE DEF held
  <2>1. \A i \in 1 .. run : held[Adv(nextIn[e], i - 1)] \in Nat
    <3> TAKE i \in 1 .. run
    <3>1. i - 1 \in 0 .. (run - 1)
      OBVIOUS
    <3> QED
      BY <1>0, <1>1, <3>1
  <2>2. run \in Nat
    BY NumAssumption
  <2> QED
    BY <2>1, <2>2
<1>3. /\ delivered[e] \in Seq(Nat) /\ Len(delivered[e]) \in Nat
      /\ delivered'[e] = delivered[e] \o more
      /\ nextInU'[e] = IF run > 0 THEN 0 ELSE nextInU[e]
  BY <1>1 DEF TypeOK
<1> HIDE DEF more
<1>4. CASE run = 0
  <2>1. more = <<>>
    BY <1>2, <1>4
  <2>2. delivered[e] \o more = delivered[e]
    BY <1>3, <2>1
  <2> QED
    BY <1>1, <1>3, <1>4, <2>2 DEF TypeOK
<1>5. CASE run # 0
  <2>1. Len(delivered[e] \o more) = Len(delivered[e]) + run
    BY <1>2, <1>3, ConcatProperties
  <2> QED
    BY <1>1, <1>2, <1>3, <1>5, <2>1 DEF TypeOK
<1> QED
  BY <1>4, <1>5

LEMMA UnreliableReceiveReliable ==
  ASSUME TypeOK, TypeOK', UnreliableInv, NEW e \in Endpoint, NEW p \in net[e],
         NEW again \in BOOLEAN, ReceiveKeepalive(e, p, again) \/ ReceiveMessage(e, p, again)
  PROVE  UnreliableInv'
<1>1. ReplyTo(e, p, again) /\ UNCHANGED <<sent, deliveredU>>
  BY DEF ReceiveKeepalive, ReceiveMessage, sendVars, recvVars
<1>2. \A f \in Endpoint : \A q \in net'[f] : q.type = "MESSAGE_UNRELIABLE" => q \in net[f]
  BY <1>1, ReplyAdds
<1>3. CASE UNCHANGED <<delivered, nextInU>>
  BY <1>1, <1>2, <1>3, UnreliableStays
<1>4. ASSUME NEW num \in Num, NEW content \in Nat, Accept(e, num, content)
      PROVE  UnreliableInv'
  <2>1. /\ \/ delivered'[e] = delivered[e] /\ nextInU'[e] = nextInU[e]
           \/ Len(delivered'[e]) > Len(delivered[e])
        /\ \A g \in Endpoint : g # e => delivered'[g] = delivered[g] /\ nextInU'[g] = nextInU[g]
    BY <1>4, AcceptMovesOn
  <2>2. ASSUME NEW f \in Endpoint
        PROVE  UnreliableAgree(f)'
    <3>1. Peer[f] \in Endpoint /\ UnreliableAgree(f)
      BY PeerAssumption DEF UnreliableInv
    <3>2. CASE \/ Peer[f] # e
               \/ delivered'[e] = delivered[e] /\ nextInU'[e] = nextInU[e]
      <4>1. delivered'[Peer[f]] = delivered[Peer[f]] /\ nextInU'[Peer[f]] = nextInU[Peer[f]]
        BY <2>1, <3>1, <3>2
      <4> QED
        BY <1>1, <1>2, <3>1, <4>1, UnreliableFrame
    <3>3. CASE Peer[f] = e /\ Len(delivered'[e]) > Len(delivered[e])
      <4>1. ASSUME NEW i \in DOMAIN deliveredU[e]
            PROVE  /\ deliveredU[e][i].after <= Len(delivered'[e])
                   /\ deliveredU[e][i].after # Len(delivered'[e])
        <5>1. deliveredU[e][i].after <= Len(delivered[e])
          BY <3>1, <3>3, <4>1 DEF UnreliableAgree
        <5>2. Len(delivered[e]) \in Nat /\ Len(delivered'[e]) \in Nat
          <6>1. delivered[e] \in Seq(Nat)
            BY DEF TypeOK
          <6>2. delivered'[e] \in Seq(Nat)
            BY DEF TypeOK
          <6> QED
            BY <6>1, <6>2
        <5>3. deliveredU[e][i].after \in Nat
          BY UnreliableType
        <5> QED
          BY <3>3, <5>1, <5>2, <5>3
      <4>2. \A q \in net'[e] : q.type = "MESSAGE_UNRELIABLE" =>
              /\ q.after \in 0 .. sent[f] /\ sent[f] - q.after <= Window
              /\ q.num = NumOf(q.after + 1)
              /\ q.unum + 1 \in Num
        BY <1>2, <3>1, <3>3 DEF UnreliableAgree
      <4> QED
        BY <1>1, <3>3, <4>1, <4>2 DEF UnreliableAgree
    <3> QED
      BY <2>1, <3>2, <3>3
  <2>3. UnreliableInPlace'
    BY <1>1 DEF UnreliableInv, UnreliableInPlace
  <2> QED
    BY <2>2, <2>3 DEF UnreliableInv
<1>5. ReceiveMessage(e, p, again) => p.num \in Num /\ p.msg \in Nat
  BY DEF TypeOK, Packet, ReceiveMessage
<1> QED
  BY <1>3, <1>4, <1>5 DEF ReceiveKeepalive, ReceiveMessage, recvVars

\* An unreliable message is handed on in its place, and moves the place on.
LEMMA UnreliableReceive ==
  ASSUME TypeOK, NumbersIdentify, UnreliableInv, NEW e \in Endpoint, NEW p \in net[e],
         NEW again \in BOOLEAN, ReceiveUnreliable(e, p, again)
  PROVE  UnreliableInv'
<1> DEFINE f == Peer[e]
           d == Len(delivered[e])
           s == sent[f]
           old == deliveredU[e]
           u == [after |-> p.after, unum |-> p.unum, at |-> d]
<1>1. /\ f \in Endpoint /\ Peer[f] = e /\ f # e
      /\ s \in Nat /\ d \in Nat /\ Window \in Nat /\ NumCount \in Nat /\ Window < NumCount
  BY PeerAssumption, NumAssumption DEF TypeOK
<1>2. /\ p.type = "MESSAGE_UNRELIABLE"
      /\ UNCHANGED <<sent, delivered>>
      /\ net' = [net EXCEPT ![e] = Taken(e, p, again)]
  BY DEF ReceiveUnreliable, sendVars
<1>3. \A g \in Endpoint : \A q \in net'[g] : q.type = "MESSAGE_UNRELIABLE" => q \in net[g]
  BY <1>2 DEF TypeOK, Taken
<1>4. CASE UNCHANGED <<deliveredU, nextInU>>
  BY <1>2, <1>3, <1>4, UnreliableStays
<1>5. CASE /\ InPlace(e, p)
           /\ deliveredU' = [deliveredU EXCEPT ![e] = Append(@, u)]
           /\ nextInU' = [nextInU EXCEPT ![e] = Adv(p.unum, 1)]
  <2>1. UnreliableAgree(f) /\ CountersAgree(f)
    BY <1>1 DEF UnreliableInv, NumbersIdentify
  <2>2. /\ p.after \in 0 .. s /\ s - p.after <= Window
        /\ p.num = NumOf(p.after + 1)
        /\ p.unum + 1 \in Num
    BY <1>1, <1>2, <2>1 DEF UnreliableAgree
  <2>3. /\ nextIn[e] = NumOf(d + 1) /\ d <= s /\ s - d <= Window
    BY <1>1, <2>1 DEF CountersAgree
  <2>4. p.num = nextIn[e] /\ p.unum >= nextInU[e]
    BY <1>5 DEF InPlace
  <2>5. p.after = d
    <3> DEFINE k == p.after + 1
               l == d + 1
    <3>1. k \in Nat \ {0} /\ l \in Nat \ {0} /\ k < l + NumCount /\ l < k + NumCount
      <4> HIDE DEF s, d
      <4> QED
        BY <1>1, <2>2, <2>3
    <3>2. NumOf(k) = NumOf(l)
      BY <2>2, <2>3, <2>4
    <3> HIDE DEF k, l
    <3>3. k = l
      BY <3>1, <3>2, NumOfInjective
    <3> QED
      BY <1>1, <2>2, <3>3 DEF k, l
  <2>6. p.unum \in Nat /\ nextInU[e] \in Nat
    <3>1. p \in Packet /\ nextInU[e] \in Num
      BY DEF TypeOK
    <3>2. p.unum \in Num
      BY <1>2, <3>1 DEF Packet
    <3> QED
      BY <3>1, <3>2, NumAssumption DEF Num
  <2>7. nextInU'[e] = p.unum + 1
    <3>1. Adv(p.unum, 1) = p.unum + 1
      BY <2>2, <2>6, NumAssumption DEF Adv, Num
    <3> QED
      BY <1>5, <3>1 DEF TypeOK
  <2>8. /\ Len(old) \in Nat /\ DOMAIN old = 1 .. Len(old)
        /\ DOMAIN deliveredU'[e] = 1 .. (Len(old) + 1)
        /\ \A i \in 1 .. Len(old) : deliveredU'[e][i] = old[i]
        /\ deliveredU'[e][Len(old) + 1] = u
    <3> DEFINE R == [after : Nat, unum : Nat, at : Nat]
    <3>1. u \in R
      BY <1>1, <2>2, <2>6
    <3>2. old \in Seq(R) /\ deliveredU'[e] = Append(old, u)
      BY <1>5 DEF TypeOK
    <3> HIDE DEF R, u, old
    <3> QED
      BY <3>1, <3>2, AppendProperties
  <2>9. \A i \in 1 .. Len(old) :
          /\ old[i].after \in Nat /\ old[i].unum \in Nat
          /\ old[i].after <= d
          /\ old[i].after = d => old[i].unum < nextInU[e]
    <3> TAKE i \in 1 .. Len(old)
    <3>1. i \in DOMAIN deliveredU[e]
      BY <2>8
    <3> QED
      BY <1>1, <2>1, <3>1, UnreliableType DEF UnreliableAgree
  <2>10. u.after = d /\ u.unum = p.unum /\ u.at = d
    BY <2>5
  <2> HIDE DEF u, old, d, s
  \* Everything handed on so far lies before the new one.
  <2>11. \A i \in 1 .. Len(old) :
           old[i].after < d \/ (old[i].after = d /\ old[i].unum < p.unum)
    BY <1>1, <2>4, <2>6, <2>9
  <2>12. UnreliableInPlace'
    <3> SUFFICES ASSUME NEW g \in Endpoint, NEW i \in DOMAIN deliveredU'[g]
                 PROVE  /\ deliveredU'[g][i].at = deliveredU'[g][i].after
                        /\ \A j \in 1 .. (i - 1) :
                             \/ deliveredU'[g][j].after < deliveredU'[g][i].after
                             \/ /\ deliveredU'[g][j].after = deliveredU'[g][i].after
                                /\ deliveredU'[g][j].unum < deliveredU'[g][i].unum
      BY DEF UnreliableInPlace
    <3>1. CASE g # e
      <4>1. deliveredU'[g] = deliveredU[g]
        BY <1>5, <3>1 DEF TypeOK
      <4> QED
        BY <4>1 DEF UnreliableInv, UnreliableInPlace
    <3>2. CASE g = e /\ i \in 1 .. Len(old)
      <4>1. \A j \in 1 .. (i - 1) : j \in 1 .. Len(old)
        BY <2>8, <3>2
      <4>2. i \in DOMAIN deliveredU[e]
        BY <2>8, <3>2 DEF old
      <4> QED
        BY <2>8, <3>2, <4>1, <4>2 DEF UnreliableInv, UnreliableInPlace, old
    <3>3. CASE g = e /\ i = Len(old) + 1
      <4>1. \A j \in 1 .. (i - 1) : j \in 1 .. Len(old)
        BY <2>8, <3>3
      <4> QED
        BY <2>8, <2>10, <2>11, <3>3, <4>1
    <3>4. g = e => i \in 1 .. Len(old) \/ i = Len(old) + 1
      BY <2>8
    <3> QED
      BY <3>1, <3>2, <3>3, <3>4
  <2>13. UnreliableAgree(f)'
    <3>1. \A i \in DOMAIN deliveredU'[e] :
            /\ deliveredU'[e][i].after <= d
            /\ deliveredU'[e][i].after = d => deliveredU'[e][i].unum < nextInU'[e]
      <4> TAKE i \in DOMAIN deliveredU'[e]
      <4>1. CASE i \in 1 .. Len(old)
        BY <1>1, <2>6, <2>7, <2>8, <2>9, <2>11, <4>1
      <4>2. CASE i = Len(old) + 1
        BY <1>1, <2>6, <2>7, <2>8, <2>10, <4>2
      <4>3. i \in 1 .. Len(old) \/ i = Len(old) + 1
        BY <2>8
      <4> QED
        BY <4>1, <4>2, <4>3
    <3>2. delivered' = delivered /\ sent' = sent
      BY <1>2
    <3> QED
      BY <1>1, <1>3, <2>1, <3>1, <3>2 DEF UnreliableAgree, d
  <2>14. ASSUME NEW g \in Endpoint, g # f
         PROVE  UnreliableAgree(g)'
    <3>1. Peer[g] \in Endpoint /\ Peer[g] # e /\ UnreliableAgree(g)
      BY <1>1, <2>14, PeerAssumption DEF UnreliableInv
    <3>2. deliveredU'[Peer[g]] = deliveredU[Peer[g]] /\ nextInU'[Peer[g]] = nextInU[Peer[g]]
      BY <1>5, <3>1 DEF TypeOK
    <3> QED
      BY <1>2, <1>3, <3>1, <3>2, UnreliableFrame
  <2> QED
    BY <2>12, <2>13, <2>14 DEF UnreliableInv
<1> QED
  BY <1>4, <1>5 DEF ReceiveUnreliable

LEMMA UnreliableOther ==
  ASSUME TypeOK, UnreliableInv, NEW e \in Endpoint,
         \/ Update(e)
         \/ HandshakeDone(e) \/ Die(e) \/ KeepaliveDelayElapses(e)
         \/ \E num \in DOMAIN out[e] : ResendTimeElapses(e, num)
         \/ \E p \in net[e] : Lose(e, p)
         \/ \E p \in net[e], again \in BOOLEAN : Ignore(e, p, again)
  PROVE  UnreliableInv'
<1>1. UNCHANGED <<sent, delivered, deliveredU, nextInU>>
  BY DEF Update, HandshakeDone, Die, KeepaliveDelayElapses, ResendTimeElapses, Lose, Ignore,
         sendVars, recvVars
<1>2. \A f \in Endpoint : \A q \in net'[f] : q.type = "MESSAGE_UNRELIABLE" => q \in net[f]
  <2>1. CASE Update(e)
    <3>1. Keepalive(AckOf(e)).type # "MESSAGE_UNRELIABLE"
      BY DEF Keepalive
    <3>2. PICK P \in SUBSET {Keepalive(AckOf(e))} : net' = [net EXCEPT ![Peer[e]] = @ \cup P]
      BY <2>1 DEF Update, Transmit, Released
    <3> QED
      BY <3>1, <3>2 DEF TypeOK
  <2>2. CASE ~Update(e)
    BY <2>2 DEF HandshakeDone, Die, KeepaliveDelayElapses, ResendTimeElapses, Lose, Ignore,
                Taken, TypeOK
  <2> QED
    BY <2>1, <2>2
<1> QED
  BY <1>1, <1>2, UnreliableStays

LEMMA UnreliableStep ==
  TypeOK /\ TypeOK' /\ NumbersIdentify /\ UnreliableInv /\ [Next]_vars => UnreliableInv'
<1> SUFFICES ASSUME TypeOK, TypeOK', NumbersIdentify, UnreliableInv, [Next]_vars
             PROVE  UnreliableInv'
  OBVIOUS
<1>1. CASE UNCHANGED vars
  BY <1>1, UnreliableStays DEF vars
<1>2. ASSUME NEW e \in Endpoint, NEW p \in net[e], NEW again \in BOOLEAN, Receive(e, p, again)
      PROVE  UnreliableInv'
  BY <1>2, UnreliableReceiveReliable, UnreliableReceive, UnreliableOther DEF Receive
<1>3. CASE Next
  BY <1>2, <1>3, UnreliableSendReliable, UnreliableSend, UnreliableOther DEF Next
<1> QED
  BY <1>1, <1>3

\* connection.h: unreliable messages are "delivered properly in order between
\* other unreliable/reliable messages", whatever arrives late, twice or never.
THEOREM UnreliableOrder == Spec => []UnreliableInPlace
<1>1. UnreliableInv => UnreliableInPlace
  BY DEF UnreliableInv
<1> QED
  BY <1>1, TypeCorrect, NumbersCorrect, UnreliableInit, UnreliableStep, PTL DEF Spec

-----------------------------------------------------------------------------
(* Acks, as long as nothing is pruned.                                     *)

\* Every message sent is still on record, and the numbers did not wrap.
Complete(e) ==
  /\ sent[e] <= Window
  /\ \A k \in 1 .. sent[e] :
       NumOf(k) \in DOMAIN out[e] /\ out[e][NumOf(k)].msg = k

\* The other end has the k-th message of e: delivered, or held.
HasGot(e, k) ==
  \/ k <= Len(delivered[Peer[e]])
  \/ NumOf(k) \in DOMAIN in[Peer[e]] /\ in[Peer[e]][NumOf(k)] = k

\* An ack that says nothing of the messages of e that is not so.
TrueAck(e, ack) ==
  /\ ack.upto <= Len(delivered[Peer[e]])
  /\ ack.next = NumOf(ack.upto + 1)
  /\ \A i \in ack.extra :
       ack.upto + 1 + i <= sent[e] /\ HasGot(e, ack.upto + 1 + i)

NothingLost(e) ==
  /\ Complete(e)
  /\ \A p \in net[e] : TrueAck(e, p.ack)
  /\ \A n \in DOMAIN out[e] : out[e][n].acked => HasGot(e, out[e][n].msg)
  /\ ~errored[e]

AcksInv == ~PruneAllowed => \A e \in Endpoint : NothingLost(e)

\* The numbers go round after NumCount messages.
LEMMA NumOfWrap ==
  ASSUME NEW k \in Nat \ {0}
  PROVE  NumOf(k + NumCount) = NumOf(k)
<1> DEFINE a == FirstNum + (k - 1)
           b == FirstNum + (k + NumCount - 1)
<1>1. a \in Nat /\ b \in Nat /\ b = a + NumCount /\ NumCount \in Nat
  BY NumAssumption DEF Num
<1> DEFINE x == a % NumCount
           y == b % NumCount
           q == a \div NumCount
           r == b \div NumCount
<1>2. NumOf(k) = x /\ NumOf(k + NumCount) = y
  <2>1. NumOf(k) = x
    BY DEF NumOf
  <2> DEFINE c == k + NumCount
  <2>2. b = FirstNum + (c - 1)
    BY NumAssumption DEF Num
  <2> HIDE DEF b, c
  <2>3. NumOf(c) = y
    BY <2>2 DEF NumOf
  <2> QED
    BY <2>1, <2>3 DEF c
<1> HIDE DEF a, b
<1>3. /\ x \in Num /\ y \in Num /\ q \in Nat /\ r \in Nat
      /\ a = NumCount * q + x /\ b = NumCount * r + y
  BY <1>1, Division
<1> HIDE DEF x, y, q, r
<1>4. NumCount * (q + 1) = NumCount * q + NumCount
  BY <1>1, <1>3
<1>5. NumCount * (q + 1) + x = NumCount * r + y
  <2> DEFINE A == NumCount * q
             B == NumCount * r
  <2>1. A \in Nat /\ B \in Nat /\ x \in Nat /\ y \in Nat
    BY <1>1, <1>3 DEF Num
  <2>2. a = A + x /\ b = B + y
    BY <1>3
  <2> HIDE DEF A, B
  <2>3. A + NumCount + x = B + y
    BY <1>1, <2>1, <2>2
  <2> QED
    BY <1>4, <2>3 DEF A, B
<1>6. q + 1 \in Int /\ r \in Int
  BY <1>3
<1>7. x = y
  BY <1>3, <1>5, <1>6, RemainderUnique
<1> QED
  BY <1>2, <1>7

\* The number before the wanted one is that of the last one delivered.
LEMMA BackNumOf ==
  ASSUME NEW k \in Nat
  PROVE  Back(NumOf(k + 1)) = NumOf(k + NumCount)
<1> DEFINE l == k + 1
           i == NumCount - 1
<1>1. l \in Nat \ {0} /\ i \in Nat /\ l + i = k + NumCount
  BY NumAssumption
<1>2. Back(NumOf(l)) = Adv(NumOf(l), i)
  BY DEF Back, Adv
<1> HIDE DEF l, i
<1>3. Adv(NumOf(l), i) = NumOf(l + i)
  BY <1>1, NumOfNext
<1> QED
  BY <1>1, <1>2, <1>3 DEF l

\* A record that bears the number of a message that an ack may speak of is
\* the record of that message.
LEMMA OutIdentifies ==
  ASSUME TypeOK, NumbersIdentify, NEW e \in Endpoint, Complete(e),
         NEW n \in DOMAIN out[e], NEW k \in 1 .. (Window + AckBits + 1), n = NumOf(k)
  PROVE  out[e][n].msg = k /\ k \in 1 .. sent[e]
<1> DEFINE m == out[e][n].msg
<1>1. m \in 1 .. sent[e] /\ n = NumOf(m)
  BY DEF NumbersIdentify, RecordsAgree, Recent
<1>2. sent[e] \in Nat /\ sent[e] <= Window
  BY DEF TypeOK, Complete
<1> HIDE DEF m
<1>3. /\ m \in Nat \ {0} /\ k \in Nat \ {0} /\ NumOf(m) = NumOf(k)
      /\ m < k + NumCount /\ k < m + NumCount
  BY <1>1, <1>2, NumAssumption
<1>4. m = k
  BY <1>3, NumOfInjective
<1> QED
  BY <1>1, <1>4 DEF m

\* The same for a message that is held.
LEMMA InIdentifies ==
  ASSUME TypeOK, NumbersIdentify, NEW e \in Endpoint, Complete(e),
         NEW n \in DOMAIN in[Peer[e]], NEW k \in 1 .. (Window + AckBits + 1), n = NumOf(k)
  PROVE  in[Peer[e]][n] = k /\ k \in 1 .. sent[e]
<1> DEFINE m == in[Peer[e]][n]
<1>1. m \in 1 .. sent[e] /\ n = NumOf(m)
  BY DEF NumbersIdentify, RecordsAgree, Recent
<1>2. sent[e] \in Nat /\ sent[e] <= Window
  BY DEF TypeOK, Complete
<1> HIDE DEF m
<1>3. /\ m \in Nat \ {0} /\ k \in Nat \ {0} /\ NumOf(m) = NumOf(k)
      /\ m < k + NumCount /\ k < m + NumCount
  BY <1>1, <1>2, NumAssumption
<1>4. m = k
  BY <1>3, NumOfInjective
<1> QED
  BY <1>1, <1>4 DEF m

\* What an end says of itself when it embeds its acks is so.
LEMMA AckOfTrue ==
  ASSUME TypeOK, NumbersIdentify, NEW e \in Endpoint, Complete(e)
  PROVE  TrueAck(e, AckOf(Peer[e]))
<1> DEFINE f == Peer[e]
           d == Len(delivered[f])
           ack == AckOf(f)
<1>1. /\ f \in Endpoint /\ d \in Nat /\ sent[e] \in Nat /\ d <= sent[e] /\ sent[e] <= Window
      /\ nextIn[f] = NumOf(d + 1)
  BY PeerAssumption DEF TypeOK, NumbersIdentify, CountersAgree, Complete
<1>2. /\ ack.upto = d /\ ack.next = nextIn[f]
      /\ \A i \in ack.extra : i \in 1 .. AckBits /\ Adv(nextIn[f], i) \in DOMAIN in[f]
  BY DEF AckOf
<1> HIDE DEF ack
<1>3. ASSUME NEW i \in ack.extra
      PROVE  d + 1 + i <= sent[e] /\ HasGot(e, d + 1 + i)
  <2> DEFINE l == d + 1
             k == d + 1 + i
  <2>1. /\ l \in Nat \ {0} /\ i \in Nat /\ l + i = k
        /\ k \in 1 .. (Window + AckBits + 1)
    <3>1. i \in 1 .. AckBits /\ AckBits \in Nat /\ Window \in Nat
      BY <1>2, <1>3, NumAssumption
    <3> HIDE DEF d
    <3> QED
      BY <1>1, <3>1
  <2>2. Adv(NumOf(l), i) = NumOf(l + i)
    <3> HIDE DEF l
    <3> QED
      BY <2>1, NumOfNext
  <2>3. NumOf(k) \in DOMAIN in[f]
    BY <1>1, <1>2, <1>3, <2>1, <2>2
  <2> HIDE DEF k
  <2>4. in[f][NumOf(k)] = k /\ k \in 1 .. sent[e]
    BY <2>1, <2>3, InIdentifies
  <2>5. k <= sent[e] /\ HasGot(e, k)
    BY <1>1, <2>3, <2>4 DEF HasGot
  <2> QED
    BY <2>5 DEF k
<1>4. TrueAck(e, ack)
  BY <1>1, <1>2, <1>3 DEF TrueAck
<1> QED
  BY <1>4 DEF ack

\* HandleResends takes for acknowledged only what the other end has.
LEMMA AcksBelieved ==
  ASSUME TypeOK, NumbersIdentify, NEW e \in Endpoint, Complete(e),
         NEW ack \in Ack, TrueAck(e, ack),
         NEW n \in DOMAIN out[e], n \in Acknowledged(e, ack)
  PROVE  HasGot(e, out[e][n].msg)
<1> DEFINE f == Peer[e]
           d == Len(delivered[f])
           u == ack.upto
           m == out[e][n].msg
<1>1. /\ f \in Endpoint /\ d \in Nat /\ sent[e] \in Nat /\ d <= sent[e] /\ sent[e] <= Window
      /\ u \in Nat /\ u <= d /\ ack.next = NumOf(u + 1)
  BY PeerAssumption DEF TypeOK, NumbersIdentify, CountersAgree, Complete, TrueAck, Ack
<1>2. CASE n = Back(ack.next)
  <2>1. n = NumOf(u + NumCount)
    BY <1>1, <1>2, BackNumOf
  <2>2. m \in 1 .. sent[e] /\ n = NumOf(m)
    BY DEF NumbersIdentify, RecordsAgree, Recent
  <2>3. CASE u = 0
    <3>1. NumOf(m) = NumOf(NumCount) /\ NumCount \in Nat \ {0} /\ u + NumCount = NumCount
      BY <2>1, <2>2, <2>3, NumAssumption
    <3>2. m \in Nat \ {0} /\ m < NumCount + NumCount /\ NumCount < m + NumCount /\ m < NumCount
      BY <1>1, <2>2, NumAssumption
    <3> HIDE DEF m
    <3>3. m = NumCount
      BY <3>1, <3>2, NumOfInjective
    <3> QED
      BY <3>2, <3>3
  <2>4. CASE u # 0
    <3>1. u \in Nat \ {0}
      BY <1>1, <2>4
    <3>2. n = NumOf(u)
      BY <2>1, <3>1, NumOfWrap
    <3>3. u \in 1 .. (Window + AckBits + 1)
      BY <1>1, <3>1, NumAssumption
    <3>4. m = u
      BY <3>2, <3>3, OutIdentifies
    <3> QED
      BY <1>1, <3>4 DEF HasGot
  <2> QED
    BY <2>3, <2>4
<1>3. ASSUME NEW i \in Examined(e, ack) \cap ack.extra, n = Adv(ack.next, i)
      PROVE  HasGot(e, m)
  <2> DEFINE l == u + 1
             k == u + 1 + i
  <2>1. i \in 1 .. AckBits
    BY <1>3 DEF Ack
  <2>2. /\ l \in Nat \ {0} /\ i \in Nat /\ l + i = k
        /\ k \in 1 .. (Window + AckBits + 1)
    BY <1>1, <2>1, NumAssumption
  <2>3. Adv(NumOf(l), i) = NumOf(l + i)
    <3> HIDE DEF l
    <3> QED
      BY <2>2, NumOfNext
  <2>4. n = NumOf(k)
    BY <1>1, <1>3, <2>2, <2>3
  <2>5. HasGot(e, k)
    BY <1>3 DEF TrueAck
  <2> HIDE DEF k
  <2>6. m = k
    BY <2>2, <2>4, OutIdentifies
  <2> QED
    BY <2>5, <2>6
<1> QED
  BY <1>2, <1>3 DEF Acknowledged

\* The loop of HandleResends meets the end of what was sent before it could
\* miss a record.
LEMMA AckInTime ==
  ASSUME TypeOK, NumbersIdentify, NEW e \in Endpoint, Complete(e),
         NEW ack \in Ack, TrueAck(e, ack)
  PROVE  ~TooOld(e, ack)
<1> DEFINE f == Peer[e]
           d == Len(delivered[f])
           s == sent[e]
           u == ack.upto
           l == u + 1
<1>1. /\ f \in Endpoint /\ d \in Nat /\ s \in Nat /\ d <= s
      /\ u \in Nat /\ u <= d /\ ack.next = NumOf(l) /\ l \in Nat \ {0}
      /\ nextOut[e] = NumOf(s + 1)
  BY PeerAssumption DEF TypeOK, NumbersIdentify, CountersAgree, TrueAck, Ack
<1> HIDE DEF s
<1>2. \A i \in Nat : Adv(ack.next, i) = NumOf(l + i)
  <2> HIDE DEF l
  <2> QED
    BY <1>1, NumOfNext
<1> SUFFICES ASSUME NEW i \in 0 .. AckBits,
                    \A j \in 0 .. (i - 1) : ~Ends(e, ack, j),
                    Adv(ack.next, i) \notin {nextOut[e]} \cup DOMAIN out[e]
             PROVE  FALSE
  BY DEF TooOld
<1>3. i \in Nat
  BY NumAssumption
<1>4. CASE l + i <= s
  <2>1. l + i \in 1 .. s
    BY <1>1, <1>3, <1>4
  <2>2. NumOf(l + i) \in DOMAIN out[e]
    BY <2>1 DEF Complete, s
  <2> QED
    BY <1>2, <1>3, <2>2
<1>5. CASE l + i > s
  <2> DEFINE j == s - u
  <2>1. j \in Nat /\ l + j = s + 1 /\ j <= i
    BY <1>1, <1>3, <1>5
  <2> HIDE DEF j
  <2>2. Adv(ack.next, j) = nextOut[e]
    BY <1>1, <1>2, <2>1
  <2>3. j # i
    BY <2>2
  <2>4. j \in 0 .. (i - 1)
    BY <1>3, <2>1, <2>3
  <2> QED
    BY <2>2, <2>4 DEF Ends
<1> QED
  BY <1>1, <1>3, <1>4, <1>5

\* A step after which the other end still has what it had, and in which every
\* new packet says what was so before the step.
LEMMA NothingLostStays ==
  ASSUME TypeOK, TypeOK', NumbersIdentify, NEW e \in Endpoint, NothingLost(e), Complete(e)',
         sent[e] <= sent'[e], Len(delivered[Peer[e]]) <= Len(delivered'[Peer[e]]),
         \A k \in 1 .. sent[e] : HasGot(e, k) => HasGot(e, k)',
         \A p \in net'[e] : p \in net[e] \/ p.ack = AckOf(Peer[e]),
         \A n \in DOMAIN out'[e] : out'[e][n].acked =>
           /\ n \in DOMAIN out[e] /\ out'[e][n].msg = out[e][n].msg
           /\ HasGot(e, out[e][n].msg),
         ~errored'[e]
  PROVE  NothingLost(e)'
<1>1. /\ sent[e] \in Nat /\ sent'[e] \in Nat
      /\ Len(delivered[Peer[e]]) \in Nat /\ Len(delivered'[Peer[e]]) \in Nat
  <2>1. Peer[e] \in Endpoint
    BY PeerAssumption
  <2>2. delivered[Peer[e]] \in Seq(Nat) /\ sent[e] \in Nat
    BY <2>1 DEF TypeOK
  <2>3. delivered'[Peer[e]] \in Seq(Nat) /\ sent'[e] \in Nat
    BY <2>1 DEF TypeOK
  <2> QED
    BY <2>2, <2>3
<1>2. ASSUME NEW ack \in Ack, TrueAck(e, ack)
      PROVE  TrueAck(e, ack)'
  <2>1. ack.upto \in Nat /\ ack.upto <= Len(delivered'[Peer[e]]) /\ ack.next = NumOf(ack.upto + 1)
    BY <1>1, <1>2 DEF TrueAck, Ack
  <2>2. ASSUME NEW i \in ack.extra
        PROVE  ack.upto + 1 + i <= sent'[e] /\ HasGot(e, ack.upto + 1 + i)'
    <3>1. i \in Nat /\ i # 0
      BY <1>2, <2>2, NumAssumption DEF Ack
    <3>2. ack.upto + 1 + i <= sent[e] /\ HasGot(e, ack.upto + 1 + i)
      BY <1>2, <2>2 DEF TrueAck
    <3> DEFINE k == ack.upto + 1 + i
    <3>3. k \in 1 .. sent[e] /\ k <= sent'[e]
      BY <1>1, <2>1, <3>1, <3>2
    <3>4. HasGot(e, k)
      BY <3>2
    <3> HIDE DEF k
    <3>5. HasGot(e, k)'
      BY <3>3, <3>4
    <3> QED
      BY <3>3, <3>5 DEF k
  <2> QED
    BY <2>1, <2>2 DEF TrueAck
<1>3. ASSUME NEW p \in net'[e]
      PROVE  TrueAck(e, p.ack)'
  <2>1. CASE p \in net[e]
    <3>1. p.ack \in Ack
      BY <2>1 DEF TypeOK, Packet
    <3> QED
      BY <1>2, <2>1, <3>1 DEF NothingLost
  <2>2. CASE p.ack = AckOf(Peer[e])
    <3> DEFINE ack == AckOf(Peer[e])
    <3>1. ack \in Ack
      BY AckType, PeerAssumption
    <3>2. TrueAck(e, ack)
      BY AckOfTrue DEF NothingLost
    <3> HIDE DEF ack
    <3>3. TrueAck(e, p.ack)
      BY <2>2, <3>2 DEF ack
    <3>4. p.ack \in Ack
      BY <2>2, <3>1 DEF ack
    <3> QED
      BY <1>2, <3>3, <3>4
  <2> QED
    BY <1>3, <2>1, <2>2
<1>4. ASSUME NEW n \in DOMAIN out'[e], out'[e][n].acked, NEW k, k = out'[e][n].msg
      PROVE  HasGot(e, k)'
  <2>1. n \in DOMAIN out[e] /\ k = out[e][n].msg /\ HasGot(e, k)
    BY <1>4
  <2>2. k \in 1 .. sent[e]
    BY <2>1 DEF NumbersIdentify, RecordsAgree, Recent
  <2> QED
    BY <2>1, <2>2
<1>5. \A n \in DOMAIN out'[e] : out'[e][n].acked =>
        \A k : k = out'[e][n].msg => HasGot(e, k)'
  BY <1>4
<1>6. (\A n \in DOMAIN out[e] : out[e][n].acked => HasGot(e, out[e][n].msg))'
  BY <1>5 DEF HasGot
<1> QED
  BY <1>3, <1>6 DEF NothingLost

\* Records that stay what they are, but for acks and resend times.
LEMMA CompleteStays ==
  ASSUME TypeOK, NEW e \in Endpoint, Complete(e), sent'[e] = sent[e],
         \A n \in DOMAIN out[e] : n \in DOMAIN out'[e] /\ out'[e][n].msg = out[e][n].msg
  PROVE  Complete(e)'
  BY DEF Complete

\* What is sent goes to the other end, and says what its sender has.
LEMMA SentAcks ==
  ASSUME TypeOK, NEW a \in Endpoint, NEW P, net' = [net EXCEPT ![Peer[a]] = @ \cup P],
         \A p \in P : p.ack = AckOf(a)
  PROVE  \A e \in Endpoint : \A p \in net'[e] : p \in net[e] \/ p.ack = AckOf(Peer[e])
<1>1. net \in [Endpoint -> SUBSET Packet] /\ Peer[Peer[a]] = a /\ Peer[a] \in Endpoint
  BY PeerAssumption DEF TypeOK
<1>2. \A e \in Endpoint : net'[e] = IF e = Peer[a] THEN net[e] \cup P ELSE net[e]
  BY <1>1
<1> QED
  BY <1>1, <1>2

LEMMA AcksInit == Init => AcksInv
<1> SUFFICES ASSUME Init, NEW e \in Endpoint PROVE NothingLost(e)
  BY DEF AcksInv
<1>1. sent[e] = 0 /\ DOMAIN out[e] = {} /\ net[e] = {} /\ errored[e] = FALSE
  BY DEF Init, InitialConnection, NoRecords
<1> QED
  BY <1>1, NumAssumption DEF NothingLost, Complete

LEMMA AcksSendReliable ==
  ASSUME TypeOK, TypeOK', NumbersIdentify, AcksInv, ~PruneAllowed,
         NEW a \in Endpoint, SendReliableMessage(a)
  PROVE  \A e \in Endpoint : NothingLost(e)'
<1> DEFINE s == sent[a]
           new == [msg |-> s + 1, acked |-> FALSE, ripe |-> FALSE]
<1>1. /\ sent' = [sent EXCEPT ![a] = s + 1]
      /\ out' = [out EXCEPT ![a] = Extend(out[a], nextOut[a], new)]
      /\ UNCHANGED <<in, delivered, errored>>
      /\ \A k \in Live(a) : s + 1 - k < Window
  BY DEF SendReliableMessage, recvVars, Young
<1>2. /\ s \in Nat /\ sent'[a] = s + 1 /\ Window \in Nat /\ NumCount \in Nat /\ Window < NumCount
      /\ nextOut[a] = NumOf(s + 1)
      /\ out'[a] = Extend(out[a], nextOut[a], new)
      /\ \A e \in Endpoint : e # a => sent'[e] = sent[e] /\ out'[e] = out[e]
  BY <1>1, NumAssumption DEF TypeOK, IsTable, NumbersIdentify, CountersAgree
<1>3. \A e \in Endpoint : \A p \in net'[e] : p \in net[e] \/ p.ack = AckOf(Peer[e])
  <2> DEFINE P == Released(a, {Message(nextOut[a], s + 1, AckOf(a))})
  <2>1. net' = [net EXCEPT ![Peer[a]] = @ \cup P]
    BY DEF SendReliableMessage, Transmit
  <2>2. \A p \in P : p.ack = AckOf(a)
    BY DEF Released, Message
  <2> HIDE DEF P
  <2> QED
    BY <2>1, <2>2, SentAcks
<1>4. NothingLost(a) /\ Complete(a)
  BY DEF AcksInv, NothingLost
<1>5. s + 1 <= Window
  <2>1. CASE s = 0
    <3>1. Len(delivered[Peer[a]]) + 1 = 1
      <4>1. Len(delivered[Peer[a]]) \in Nat /\ Len(delivered[Peer[a]]) <= s
        BY PeerAssumption DEF TypeOK, NumbersIdentify, CountersAgree
      <4> QED
        BY <2>1, <4>1
    <3>2. 1 \in Live(a)
      BY <3>1 DEF Live
    <3> QED
      BY <1>1, <1>2, <2>1, <3>2
  <2>2. CASE s # 0
    <3>1. 1 \in 1 .. s
      BY <1>2, <2>2
    <3>2. NumOf(1) \in DOMAIN out[a] /\ out[a][NumOf(1)].msg = 1
      BY <1>4, <3>1 DEF Complete
    <3>3. 1 \in Live(a)
      BY <3>2 DEF Live
    <3> QED
      BY <1>1, <1>2, <3>3
  <2> QED
    BY <2>1, <2>2
<1>6. Complete(a)'
  <2>1. ASSUME NEW k \in 1 .. (s + 1)
        PROVE  NumOf(k) \in DOMAIN out'[a] /\ out'[a][NumOf(k)].msg = k
    <3>1. CASE k = s + 1
      BY <1>2, <3>1 DEF Extend
    <3>2. CASE k # s + 1
      <4>1. k \in 1 .. s
        BY <1>2, <3>2
      <4>2. NumOf(k) \in DOMAIN out[a] /\ out[a][NumOf(k)].msg = k
        BY <1>4, <4>1 DEF Complete
      <4>3. NumOf(k) # nextOut[a]
        <5> DEFINE l == s + 1
        <5>1. k \in Nat \ {0} /\ l \in Nat \ {0} /\ k < l + NumCount /\ l < k + NumCount /\ k # l
          BY <1>2, <1>5, <4>1
        <5> HIDE DEF l
        <5>2. NumOf(k) # NumOf(l)
          BY <5>1, NumOfInjective
        <5> QED
          BY <1>2, <5>2 DEF l
      <4> QED
        BY <1>2, <4>2, <4>3 DEF Extend
    <3> QED
      BY <3>1, <3>2
  <2> QED
    BY <1>2, <1>5, <2>1 DEF Complete
<1> SUFFICES ASSUME NEW e \in Endpoint PROVE NothingLost(e)'
  OBVIOUS
<1>7. NothingLost(e) /\ Complete(e)' /\ ~errored'[e]
  <2>1. NothingLost(e) /\ Complete(e) /\ ~errored[e]
    BY DEF AcksInv, NothingLost
  <2>2. CASE e # a
    <3>1. Complete(e)'
      BY <1>2, <2>1, <2>2, CompleteStays
    <3> QED
      BY <1>1, <2>1, <3>1
  <2> QED
    BY <1>1, <1>6, <2>1, <2>2
<1>8. sent[e] <= sent'[e] /\ Len(delivered[Peer[e]]) <= Len(delivered'[Peer[e]])
  <2>1. sent[e] \in Nat /\ Len(delivered[Peer[e]]) \in Nat
    BY PeerAssumption DEF TypeOK
  <2> QED
    BY <1>1, <1>2, <2>1
<1>9. \A k \in 1 .. sent[e] : HasGot(e, k) => HasGot(e, k)'
  BY <1>1 DEF HasGot
<1>10. \A n \in DOMAIN out'[e] : out'[e][n].acked =>
         /\ n \in DOMAIN out[e] /\ out'[e][n].msg = out[e][n].msg
         /\ HasGot(e, out[e][n].msg)
  <2>1. \A n \in DOMAIN out'[e] : out'[e][n].acked =>
          n \in DOMAIN out[e] /\ out'[e][n] = out[e][n]
    <3>1. CASE e = a
      <4>1. new.acked = FALSE
        OBVIOUS
      <4> HIDE DEF new
      <4> QED
        BY <1>2, <3>1, <4>1 DEF Extend
    <3>2. CASE e # a
      BY <1>2, <3>2
    <3> QED
      BY <3>1, <3>2
  <2> QED
    BY <1>7, <2>1 DEF NothingLost
<1> QED
  BY <1>3, <1>7, <1>8, <1>9, <1>10, NothingLostStays

\* A step that sends, if anything, packets with true acks.
LEMMA AcksStay ==
  ASSUME TypeOK, TypeOK', NumbersIdentify, AcksInv, ~PruneAllowed,
         UNCHANGED <<sent, delivered, errored>>,
         \A e \in Endpoint :
           /\ DOMAIN out'[e] = DOMAIN out[e]
           /\ \A n \in DOMAIN out[e] : /\ out'[e][n].msg = out[e][n].msg
                                       /\ out'[e][n].acked = out[e][n].acked
           /\ DOMAIN in'[e] = DOMAIN in[e]
           /\ \A n \in DOMAIN in[e] : in'[e][n] = in[e][n],
         \A e \in Endpoint : \A p \in net'[e] : p \in net[e] \/ p.ack = AckOf(Peer[e])
  PROVE  \A e \in Endpoint : NothingLost(e)'
<1> SUFFICES ASSUME NEW e \in Endpoint PROVE NothingLost(e)'
  OBVIOUS
<1>1. NothingLost(e) /\ Complete(e) /\ ~errored[e] /\ Peer[e] \in Endpoint
  BY PeerAssumption DEF AcksInv, NothingLost
<1>2. Complete(e)'
  BY <1>1, CompleteStays
<1>3. sent[e] <= sent'[e] /\ Len(delivered[Peer[e]]) <= Len(delivered'[Peer[e]])
  <2>1. sent[e] \in Nat /\ Len(delivered[Peer[e]]) \in Nat
    BY PeerAssumption DEF TypeOK
  <2> QED
    BY <2>1
<1>4. \A k \in 1 .. sent[e] : HasGot(e, k) => HasGot(e, k)'
  BY <1>1 DEF HasGot
<1>5. \A n \in DOMAIN out'[e] : out'[e][n].acked =>
        /\ n \in DOMAIN out[e] /\ out'[e][n].msg = out[e][n].msg
        /\ HasGot(e, out[e][n].msg)
  BY <1>1 DEF NothingLost
<1> QED
  BY <1>1, <1>2, <1>3, <1>4, <1>5, NothingLostStays

\* What was held is, after a message arrived, held still or delivered.
LEMMA AcceptKeeps ==
  ASSUME TypeOK, NumbersIdentify, NEW e \in Endpoint, Complete(Peer[e]),
         NEW num \in Num, NEW content \in Nat,
         Recent(Peer[e], content), num = NumOf(content), Accept(e, num, content)
  PROVE  /\ Len(delivered[e]) <= Len(delivered'[e])
         /\ \A k \in 1 .. sent[Peer[e]] : HasGot(Peer[e], k) => HasGot(Peer[e], k)'
         /\ \A g \in Endpoint : g # e => delivered'[g] = delivered[g] /\ in'[g] = in[g]
<1> DEFINE f == Peer[e]
           s == sent[f]
           d == Len(delivered[e])
           held == Extend(in[e], num, content)
           Wanted(i) == Adv(nextIn[e], i)
<1>1. /\ f \in Endpoint /\ Peer[f] = e
      /\ s \in Nat /\ d \in Nat /\ Window \in Nat /\ NumCount \in Nat
      /\ Window < NumCount /\ s <= Window
      /\ nextIn[e] = NumOf(d + 1) /\ d <= s
      /\ content \in 1 .. s
  <2>1. f \in Endpoint /\ Peer[f] = e
    BY PeerAssumption
  <2>2. /\ s \in Nat /\ d \in Nat /\ Window \in Nat /\ NumCount \in Nat
        /\ Window < NumCount
    BY <2>1, NumAssumption DEF TypeOK
  <2>3. CountersAgree(f)
    BY <2>1 DEF NumbersIdentify
  <2>4. nextIn[e] = NumOf(d + 1) /\ d <= s
    BY <2>1, <2>3 DEF CountersAgree
  <2>5. s <= Window /\ content \in 1 .. s
    BY DEF Complete, Recent
  <2> QED
    BY <2>1, <2>2, <2>4, <2>5
<1>2. PICK run \in 0 .. (NumCount - 1) :
        /\ \A i \in 0 .. (run - 1) : Wanted(i) \in DOMAIN held
        /\ in' = [in EXCEPT ![e] = Restrict(held,
                    DOMAIN held \ {Wanted(i) : i \in 0 .. (run - 1)})]
        /\ delivered' = [delivered EXCEPT ![e] =
                           @ \o [i \in 1 .. run |-> held[Wanted(i - 1)]]]
  BY DEF Accept
<1>3. PICK rest \in Nat :
        /\ d + rest <= s
        /\ delivered' = [delivered EXCEPT ![e] = @ \o [i \in 1 .. rest |-> d + i]]
  BY AcceptInOrder
<1>4. run = rest /\ Len(delivered'[e]) = d + run
  <2> DEFINE a == [i \in 1 .. run |-> held[Wanted(i - 1)]]
             b == [i \in 1 .. rest |-> d + i]
  <2>1. run \in Nat
    BY NumAssumption
  <2>2. b \in Seq(Nat) /\ Len(b) = rest
    BY <1>1, <1>3
  <2>3. a \in Seq(Nat) /\ Len(a) = run
    <3>1. held \in [DOMAIN held -> Nat]
      BY DEF TypeOK, IsTable, Extend
    <3>2. \A i \in 1 .. run : i - 1 \in 0 .. (run - 1)
      BY <2>1
    <3> HIDE DEF held
    <3>3. \A i \in 1 .. run : held[Wanted(i - 1)] \in Nat
      BY <1>2, <3>1, <3>2
    <3> QED
      BY <2>1, <3>3
  <2>4. delivered[e] \in Seq(Nat)
    BY DEF TypeOK
  <2>5. delivered'[e] = delivered[e] \o a /\ delivered'[e] = delivered[e] \o b
    BY <1>2, <1>3 DEF TypeOK
  <2> HIDE DEF a, b
  <2>6. Len(delivered'[e]) = d + run
    BY <2>3, <2>4, <2>5, ConcatProperties
  <2>7. Len(delivered'[e]) = d + rest
    BY <2>2, <2>4, <2>5, ConcatProperties
  <2> QED
    BY <1>1, <1>3, <2>1, <2>6, <2>7
<1>5. \A g \in Endpoint : g # e => delivered'[g] = delivered[g] /\ in'[g] = in[g]
  BY <1>2 DEF TypeOK, IsTable
<1>6. in'[e] = Restrict(held, DOMAIN held \ {Wanted(i) : i \in 0 .. (run - 1)})
  BY <1>2 DEF TypeOK, IsTable
<1>7. ASSUME NEW k \in 1 .. s, HasGot(f, k)
      PROVE  HasGot(f, k)'
  <2>1. \A l \in 1 .. s : NumOf(l) = NumOf(k) => l = k
    <3> TAKE l \in 1 .. s
    <3>1. /\ k \in Nat \ {0} /\ l \in Nat \ {0}
          /\ k < l + NumCount /\ l < k + NumCount
      BY <1>1, <1>7
    <3> QED
      BY <3>1, NumOfInjective
  <2>2. CASE k <= d + run
    BY <1>1, <1>4, <2>2 DEF HasGot
  <2>3. CASE ~(k <= d + run)
    <3>1. NumOf(k) \in DOMAIN in[e] /\ in[e][NumOf(k)] = k
      <4>1. ~(k <= d)
        BY <1>1, <1>4, <2>3
      <4> QED
        BY <1>1, <1>7, <4>1 DEF HasGot
    <3>2. NumOf(k) \in DOMAIN held /\ held[NumOf(k)] = k
      <4>1. num = NumOf(k) => content = k
        BY <1>1, <2>1
      <4> QED
        BY <3>1, <4>1 DEF Extend
    <3>3. ASSUME NEW i \in 0 .. (run - 1)
          PROVE  Wanted(i) # NumOf(k)
      <4> DEFINE l == d + 1
                 m == l + i
      <4>1. l \in Nat \ {0} /\ i \in Nat /\ m \in 1 .. s /\ m <= d + run
        BY <1>1, <1>3, <1>4, <3>3
      <4>2. Adv(NumOf(l), i) = NumOf(m)
        <5> HIDE DEF l
        <5> QED
          BY <4>1, NumOfNext
      <4> HIDE DEF m
      <4>3. NumOf(m) # NumOf(k)
        BY <2>1, <2>3, <4>1
      <4> QED
        BY <1>1, <4>2, <4>3
    <3> DEFINE S == DOMAIN held \ {Wanted(i) : i \in 0 .. (run - 1)}
    <3>4. NumOf(k) \in S
      BY <3>2, <3>3
    <3> HIDE DEF S, held
    <3>5. DOMAIN in'[e] = S /\ in'[e][NumOf(k)] = k
      BY <1>6, <3>2, <3>4 DEF Restrict, S
    <3> QED
      BY <1>1, <3>4, <3>5 DEF HasGot
  <2> QED
    BY <2>2, <2>3
<1>8. Len(delivered[e]) <= Len(delivered'[e])
  BY <1>1, <1>3, <1>4
<1> QED
  BY <1>5, <1>7, <1>8

\* A packet arrives: its acks are true, so none of them is too old and what
\* they set off is so; and its message takes nothing away.
LEMMA AcksReceive ==
  ASSUME TypeOK, TypeOK', NumbersIdentify, AcksInv, ~PruneAllowed,
         NEW a \in Endpoint, NEW p \in net[a], NEW again \in BOOLEAN,
         ReceiveKeepalive(a, p, again) \/ ReceiveMessage(a, p, again)
  PROVE  \A e \in Endpoint : NothingLost(e)'
<1>1. /\ HandleResends(a, p.ack) /\ ReplyTo(a, p, again)
      /\ UNCHANGED sent
      /\ p.ack \in Ack
  BY DEF ReceiveKeepalive, ReceiveMessage, sendVars, TypeOK, Packet
<1>2. NothingLost(a) /\ TrueAck(a, p.ack) /\ Complete(a)
  BY DEF AcksInv, NothingLost
<1>3. \A e \in Endpoint : \A n \in DOMAIN out[e] :
        n \in DOMAIN out'[e] /\ out'[e][n].msg = out[e][n].msg
  BY <1>1, HandleResendsType
<1>4. \A e \in Endpoint : DOMAIN out'[e] = DOMAIN out[e]
  BY <1>1, HandleResendsType
<1>5. \A e \in Endpoint : ~errored'[e]
  <2>1. ~TooOld(a, p.ack)
    BY <1>1, <1>2, AckInTime
  <2>2. \A e \in Endpoint : errored[e] = FALSE
    BY DEF AcksInv, NothingLost, TypeOK
  <2>3. errored' = [errored EXCEPT ![a] = errored[a] \/ TooOld(a, p.ack)]
    BY <1>1 DEF HandleResends
  <2>4. errored[a] = FALSE /\ (errored[a] \/ TooOld(a, p.ack)) = FALSE
    BY <2>1, <2>2
  <2> QED
    BY <2>2, <2>3, <2>4 DEF TypeOK
<1>6. ASSUME NEW e \in Endpoint, NEW n \in DOMAIN out'[e], out'[e][n].acked
      PROVE  HasGot(e, out[e][n].msg)
  <2>0. n \in DOMAIN out[e]
    BY <1>4, <1>6
  <2>1. NothingLost(e)
    BY DEF AcksInv
  <2>2. CASE out[e][n].acked
    BY <2>0, <2>1, <2>2 DEF NothingLost
  <2>3. CASE ~out[e][n].acked
    <3>1. e = a /\ n \in Acknowledged(a, p.ack)
      <4> DEFINE g == [m \in DOMAIN out[a] |->
                         [msg   |-> out[a][m].msg,
                          acked |-> out[a][m].acked \/ m \in Acknowledged(a, p.ack),
                          ripe  |-> out[a][m].ripe /\ m \notin Resent(a, p.ack)]]
      <4>1. out' = [out EXCEPT ![a] = g]
        BY <1>1 DEF HandleResends
      <4>2. out'[e] = IF e = a THEN g ELSE out[e]
        <5> HIDE DEF g
        <5> QED
          BY <4>1 DEF TypeOK, IsTable
      <4>3. e = a
        BY <1>6, <2>3, <4>2
      <4>4. out'[e][n].acked = (out[a][n].acked \/ n \in Acknowledged(a, p.ack))
        BY <2>0, <4>2, <4>3
      <4> QED
        BY <1>6, <2>3, <4>3, <4>4
    <3> QED
      BY <1>1, <1>2, <2>0, <3>1, AcksBelieved
  <2> QED
    BY <2>2, <2>3
<1>7. \A e \in Endpoint : \A q \in net'[e] : q \in net[e] \/ q.ack = AckOf(Peer[e])
  <2> SUFFICES ASSUME NEW e \in Endpoint, NEW q \in net'[e], q \notin net[e]
               PROVE  q.ack = AckOf(Peer[e])
    OBVIOUS
  <2>1. e = Peer[a] /\ q \in Replies(a, p.ack)
    BY <1>1, ReplyAdds
  <2>2. Peer[e] = a
    BY <2>1, PeerAssumption
  <2>3. q.ack = AckOf(a)
    BY <2>1 DEF Replies, Message
  <2> QED
    BY <2>2, <2>3
<1>8. \A e \in Endpoint :
        /\ Len(delivered[Peer[e]]) <= Len(delivered'[Peer[e]])
        /\ \A k \in 1 .. sent[e] : HasGot(e, k) => HasGot(e, k)'
  <2> SUFFICES ASSUME NEW e \in Endpoint
               PROVE  /\ Len(delivered[Peer[e]]) <= Len(delivered'[Peer[e]])
                      /\ \A k \in 1 .. sent[e] : HasGot(e, k) => HasGot(e, k)'
    OBVIOUS
  <2>1. Peer[e] \in Endpoint /\ Peer[Peer[e]] = e /\ Len(delivered[Peer[e]]) \in Nat
    BY PeerAssumption DEF TypeOK
  <2>2. CASE UNCHANGED <<in, delivered>>
    BY <2>1, <2>2 DEF HasGot
  <2>3. CASE ReceiveMessage(a, p, again) /\ Accept(a, p.num, p.msg)
    <3>1. p.type = "MESSAGE" /\ p.num \in Num /\ p.msg \in Nat /\ Peer[a] \in Endpoint /\ Peer[Peer[a]] = a
      BY <2>3, PeerAssumption DEF ReceiveMessage, TypeOK, Packet
    <3>2. Recent(Peer[a], p.msg) /\ p.num = NumOf(p.msg)
      BY <3>1 DEF NumbersIdentify, RecordsAgree
    <3>3. Complete(Peer[a])
      BY <3>1 DEF AcksInv, NothingLost
    <3>4. /\ Len(delivered[a]) <= Len(delivered'[a])
          /\ \A k \in 1 .. sent[Peer[a]] : HasGot(Peer[a], k) => HasGot(Peer[a], k)'
          /\ \A g \in Endpoint : g # a => delivered'[g] = delivered[g] /\ in'[g] = in[g]
      BY <2>3, <3>1, <3>2, <3>3, AcceptKeeps
    <3>5. CASE Peer[e] = a
      BY <2>1, <3>4, <3>5
    <3>6. CASE Peer[e] # a
      BY <2>1, <3>4, <3>6 DEF HasGot
    <3> QED
      BY <3>5, <3>6
  <2> QED
    BY <2>2, <2>3 DEF ReceiveKeepalive, ReceiveMessage, recvVars
<1> SUFFICES ASSUME NEW e \in Endpoint PROVE NothingLost(e)'
  OBVIOUS
<1>9. NothingLost(e) /\ Complete(e)
  BY DEF AcksInv, NothingLost
<1>10. Complete(e)'
  BY <1>1, <1>3, <1>9, CompleteStays
<1>11. sent[e] <= sent'[e]
  BY <1>1 DEF TypeOK
<1>12. \A n \in DOMAIN out'[e] : out'[e][n].acked =>
         /\ n \in DOMAIN out[e] /\ out'[e][n].msg = out[e][n].msg
         /\ HasGot(e, out[e][n].msg)
  BY <1>3, <1>4, <1>6
<1> QED
  BY <1>5, <1>7, <1>8, <1>9, <1>10, <1>11, <1>12, NothingLostStays

\* Without pruning, an Update leaves every record where it is.
LEMMA UpdateKeeps ==
  ASSUME TypeOK, NumbersIdentify, ~PruneAllowed, NEW a \in Endpoint, Prune(a), NEW e \in Endpoint
  PROVE  /\ DOMAIN out'[e] = DOMAIN out[e] /\ \A n \in DOMAIN out[e] : out'[e][n] = out[e][n]
         /\ DOMAIN in'[e] = DOMAIN in[e] /\ \A n \in DOMAIN in[e] : in'[e][n] = in[e][n]
<1>1. /\ out' = [out EXCEPT ![a] = Restrict(out[a], {n \in DOMAIN out[a] : out[a][n].msg > 0})]
      /\ in' = [in EXCEPT ![a] = Restrict(in[a], DOMAIN in[a])]
  BY DEF Prune
<1>2. {n \in DOMAIN out[a] : out[a][n].msg > 0} = DOMAIN out[a]
  <2>1. sent[a] \in Nat
    BY DEF TypeOK
  <2>2. \A n \in DOMAIN out[a] : out[a][n].msg \in 1 .. sent[a]
    BY DEF NumbersIdentify, RecordsAgree, Recent
  <2> QED
    BY <2>1, <2>2
<1>3. /\ out'[e] = IF e = a THEN Restrict(out[a], DOMAIN out[a]) ELSE out[e]
      /\ in'[e] = IF e = a THEN Restrict(in[a], DOMAIN in[a]) ELSE in[e]
  BY <1>1, <1>2 DEF TypeOK, IsTable
<1> QED
  BY <1>3 DEF Restrict

LEMMA AcksOther ==
  ASSUME TypeOK, TypeOK', NumbersIdentify, AcksInv, ~PruneAllowed, NEW a \in Endpoint,
         \/ SendUnreliableMessage(a) \/ Update(a)
         \/ HandshakeDone(a) \/ Die(a) \/ KeepaliveDelayElapses(a)
         \/ \E num \in DOMAIN out[a] : ResendTimeElapses(a, num)
         \/ \E p \in net[a] : Lose(a, p)
         \/ \E p \in net[a], again \in BOOLEAN :
              ReceiveUnreliable(a, p, again) \/ Ignore(a, p, again)
  PROVE  \A e \in Endpoint : NothingLost(e)'
<1>1. UNCHANGED <<sent, delivered, errored>>
  BY DEF SendUnreliableMessage, Update, HandshakeDone, Die, KeepaliveDelayElapses,
         ResendTimeElapses, Lose, ReceiveUnreliable, Ignore, sendVars, recvVars
<1>2. \A e \in Endpoint :
        /\ DOMAIN out'[e] = DOMAIN out[e]
        /\ \A n \in DOMAIN out[e] : /\ out'[e][n].msg = out[e][n].msg
                                    /\ out'[e][n].acked = out[e][n].acked
        /\ DOMAIN in'[e] = DOMAIN in[e]
        /\ \A n \in DOMAIN in[e] : in'[e][n] = in[e][n]
  <2>1. CASE Update(a)
    <3>1. Prune(a)
      BY <2>1 DEF Update
    <3> QED
      BY <3>1, UpdateKeeps
  <2>2. ASSUME NEW num \in DOMAIN out[a], ResendTimeElapses(a, num), NEW e \in Endpoint
        PROVE  /\ DOMAIN out'[e] = DOMAIN out[e]
               /\ \A n \in DOMAIN out[e] : /\ out'[e][n].msg = out[e][n].msg
                                           /\ out'[e][n].acked = out[e][n].acked
               /\ DOMAIN in'[e] = DOMAIN in[e]
               /\ \A n \in DOMAIN in[e] : in'[e][n] = in[e][n]
    <3>1. out' = [out EXCEPT ![a] = [out[a] EXCEPT ![num] = [out[a][num] EXCEPT !.ripe = TRUE]]] /\ in' = in
      BY <2>2 DEF ResendTimeElapses, recvVars
    <3>2. out'[e] = IF e = a THEN [out[a] EXCEPT ![num] = [out[a][num] EXCEPT !.ripe = TRUE]] ELSE out[e]
      BY <3>1 DEF TypeOK, IsTable
    <3>3. out[a] \in [DOMAIN out[a] -> OutRecord]
      BY DEF TypeOK, IsTable
    <3>4. CASE e = a
      BY <3>1, <3>2, <3>3, <3>4 DEF OutRecord
    <3>5. CASE e # a
      BY <3>1, <3>2, <3>5
    <3> QED
      BY <3>4, <3>5
  <2>3. CASE UNCHANGED <<out, in>>
    BY <2>3
  <2> QED
    BY <2>1, <2>2, <2>3
    DEF SendUnreliableMessage, HandshakeDone, Die, KeepaliveDelayElapses,
        Lose, ReceiveUnreliable, Ignore, recvVars
<1>3. \A e \in Endpoint : \A p \in net'[e] : p \in net[e] \/ p.ack = AckOf(Peer[e])
  <2>1. CASE SendUnreliableMessage(a)
    <3> DEFINE P == Released(a, {Unreliable(nextOut[a], nextOutU[a], sent[a], AckOf(a))})
    <3>1. net' = [net EXCEPT ![Peer[a]] = @ \cup P]
      BY <2>1 DEF SendUnreliableMessage, Transmit
    <3>2. \A p \in P : p.ack = AckOf(a)
      BY DEF Released, Unreliable
    <3> HIDE DEF P
    <3> QED
      BY <3>1, <3>2, SentAcks
  <2>2. CASE Update(a)
    <3> DEFINE P == Released(a, IF canComm[a] /\ quiet[a] THEN {Keepalive(AckOf(a))} ELSE {})
    <3>1. net' = [net EXCEPT ![Peer[a]] = @ \cup P]
      BY <2>2 DEF Update, Transmit
    <3>2. \A p \in P : p.ack = AckOf(a)
      BY DEF Released, Keepalive
    <3> HIDE DEF P
    <3> QED
      BY <3>1, <3>2, SentAcks
  <2>3. CASE \A e \in Endpoint : net'[e] \subseteq net[e]
    BY <2>3
  <2>4. CASE \/ \E p \in net[a] : Lose(a, p)
             \/ \E p \in net[a], again \in BOOLEAN :
                  ReceiveUnreliable(a, p, again) \/ Ignore(a, p, again)
    <3>1. PICK left \in SUBSET net[a] : net' = [net EXCEPT ![a] = left]
      BY <2>4 DEF Lose, ReceiveUnreliable, Ignore, Taken
    <3>2. \A e \in Endpoint : net'[e] \subseteq net[e]
      BY <3>1 DEF TypeOK
    <3> QED
      BY <2>3, <3>2
  <2>5. CASE UNCHANGED net
    BY <2>5
  <2> QED
    BY <2>1, <2>2, <2>4, <2>5 DEF HandshakeDone, Die, KeepaliveDelayElapses, ResendTimeElapses
<1> QED
  BY <1>1, <1>2, <1>3, AcksStay

LEMMA AcksStep ==
  TypeOK /\ TypeOK' /\ NumbersIdentify /\ AcksInv /\ [Next]_vars => AcksInv'
<1> SUFFICES ASSUME TypeOK, TypeOK', NumbersIdentify, AcksInv, [Next]_vars, ~PruneAllowed
             PROVE  \A e \in Endpoint : NothingLost(e)'
  BY DEF AcksInv
<1>1. CASE UNCHANGED vars
  BY <1>1, AcksStay DEF vars
<1>2. ASSUME NEW e \in Endpoint, NEW p \in net[e], NEW again \in BOOLEAN, Receive(e, p, again)
      PROVE  \A f \in Endpoint : NothingLost(f)'
  BY <1>2, AcksReceive, AcksOther DEF Receive
<1>3. CASE Next
  BY <1>2, <1>3, AcksSendReliable, AcksOther DEF Next
<1> QED
  BY <1>1, <1>3

LEMMA AcksCorrect == Spec => []AcksInv
  BY TypeCorrect, NumbersCorrect, AcksInit, AcksStep, PTL DEF Spec

\* connection.cc, HandleResends: as long as nothing is pruned, a message that
\* the sender counts as acknowledged was delivered or is held at the other end.
THEOREM AcksAreTrue == Spec => []AckedIsHeld
<1>1. TypeOK /\ NumbersIdentify /\ AcksInv => AckedIsHeld
  <2> SUFFICES ASSUME TypeOK, NumbersIdentify, AcksInv, ~PruneAllowed,
                      NEW e \in Endpoint, NEW n \in DOMAIN out[e], out[e][n].acked
               PROVE  \/ out[e][n].msg <= Len(delivered[Peer[e]])
                      \/ n \in DOMAIN in[Peer[e]] /\ in[Peer[e]][n] = out[e][n].msg
    BY DEF AckedIsHeld
  <2>1. HasGot(e, out[e][n].msg)
    BY DEF AcksInv, NothingLost
  <2>2. n = NumOf(out[e][n].msg)
    BY DEF NumbersIdentify, RecordsAgree
  <2> QED
    BY <2>1, <2>2 DEF HasGot
<1> QED
  BY <1>1, TypeCorrect, NumbersCorrect, AcksCorrect, PTL

\* connection.cc, HandleResends: as long as nothing is pruned, no ack that
\* comes late or twice makes the sender give the connection up.
THEOREM AcksNeverTooOld == Spec => []NeverTooOld
<1>1. AcksInv => NeverTooOld
  BY DEF AcksInv, NothingLost, NeverTooOld
<1> QED
  BY <1>1, AcksCorrect, PTL

=============================================================================
