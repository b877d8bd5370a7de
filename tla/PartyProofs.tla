----------------------------- MODULE PartyProofs -----------------------------
(***************************************************************************)
(* For any number of apps, places and calls, whatever the network does:    *)
(* the variables of Party keep their types, a party keeps its limit and    *)
(* has each client in one place, only who joined is a member, what bears a *)
(* request id comes from the host that was asked with it, and a new client *)
(* gets a client id that nothing speaks of any more.                       *)
(***************************************************************************)
EXTENDS Party, FiniteSetTheorems, WellFoundedInduction, TLAPS

-----------------------------------------------------------------------------
(* The inductive invariant.                                                *)

RequestId == 0 .. (ReqCount - 1)

LinkRecord ==
  [to : App, req : RequestId, id : ClientId \cup {NoId},
   can : BOOLEAN, errored : BOOLEAN, died : BOOLEAN, silent : BOOLEAN]

SeatRecord ==
  [addr : App, req : RequestId,
   can : BOOLEAN, errored : BOOLEAN, died : BOOLEAN, silent : BOOLEAN]

Call ==
  [op : {"connect"}, to : App] \cup [op : {"leave", "clear"}]
    \cup [op : {"gone"}, id : ClientId]

\* Packets that tell a request by its id, and those that name a client id.
RequestPacket ==
  [type : {"REQUEST"}, from : App, to : App, req : RequestId]
AcceptPacket ==
  [type : {"ACCEPT"}, from : App, to : App, req : RequestId, id : ClientId]
DenyPacket ==
  [type : {"DENY"}, from : App, to : App, req : RequestId,
   why : {"full", "elsewhere", "slots"}]
GoodbyePacket ==
  [type : {"CLIENT_ACK", "HOST_REQUEST"}, from : App, to : App, id : ClientId]
ClientPacket ==
  [type : {"CLIENT_REQUEST", "CLIENT_GAMEPACKET"}, from : App, to : App,
   id : ClientId, body : {"disconnect", "response", "mismatch", "data"}]
GamePacket ==
  [type : {"HOST_GAMEPACKET"}, from : App, to : App, req : RequestId,
   body : {"handshake", "data", "disconnect"}]
Packet ==
  RequestPacket \cup AcceptPacket \cup DenyPacket \cup GoodbyePacket
    \cup ClientPacket \cup GamePacket

LinksTyped ==
  /\ DOMAIN link = App
  /\ \A a \in App : Linked(a) => link[a] \in LinkRecord /\ link[a].to \in Hosts[a]

SeatsTyped ==
  /\ DOMAIN seats = App
  /\ \A h \in App :
       /\ DOMAIN seats[h] \subseteq ClientId
       /\ seats[h] \in [DOMAIN seats[h] -> SeatRecord]

CallsTyped ==
  /\ calls \in [App -> Seq(Call)]
  /\ \A a \in App : \A i \in 1 .. Len(calls[a]) :
       calls[a][i].op = "connect" => calls[a][i].to \in Hosts[a]

CountersTyped ==
  /\ nextId \in [App -> Nat]
  /\ \A h \in App : nextId[h] \in FirstId .. (FirstId + MaxSeats[h])
  /\ nextReq \in [App -> RequestId]

NetTyped == net \subseteq Packet

\* Only a link that has come to communicate answers a handshake so.
ResponsesJoined ==
  \A p \in net :
    p.type = "CLIENT_GAMEPACKET" /\ p.body = "response"
      => <<p.from, p.to>> \in joined

SeatsFine == SeatsTyped /\ SeatsKept /\ MembersJoined

Inv ==
  /\ LinksTyped /\ CallsTyped /\ CountersTyped
  /\ NetTyped /\ ResponsesJoined
  /\ SeatsFine

-----------------------------------------------------------------------------
(* Ids.                                                                    *)

LEMMA Remainder ==
  ASSUME NEW x \in Nat, NEW n \in Nat \ {0}
  PROVE  x % n \in 0 .. (n - 1)
  OBVIOUS

LEMMA NextRequestIdType ==
  ASSUME NEW req \in RequestId
  PROVE  NextRequestId(req) \in RequestId
<1>1. ReqCount \in Nat \ {0} /\ req + 1 \in Nat
  BY IdAssumption DEF RequestId
<1> QED
  BY <1>1, Remainder DEF NextRequestId, RequestId

\* A set of naturals that is not empty has a least element.
LEMMA Least ==
  ASSUME NEW S \in SUBSET Nat, S # {}
  PROVE  \E i \in S : \A j \in S : i <= j
<1>1. PICK i \in S : \A j \in S : ~(<<j, i>> \in OpToRel(<, Nat))
  BY NatLessThanWellFounded, WFMin
<1>2. \A j \in S : ~(j < i)
  BY <1>1 DEF OpToRel
<1> QED
  BY <1>2

LEMMA FreeIdType ==
  ASSUME NEW h \in App, nextId[h] \in Nat, FreeTries(h) # {}
  PROVE  FreeId(h) \in ClientId /\ FreeId(h) \notin DOMAIN seats[h]
<1> DEFINE i == CHOOSE i \in FreeTries(h) : \A j \in FreeTries(h) : i <= j
<1>1. FreeTries(h) \in SUBSET Nat
  BY IdAssumption DEF FreeTries
<1>2. i \in FreeTries(h)
  BY <1>1, Least
<1> HIDE DEF i
<1>3. i \in Nat /\ (nextId[h] + i) % IdCount \notin DOMAIN seats[h]
  BY <1>1, <1>2 DEF FreeTries
<1>4. (nextId[h] + i) % IdCount \in ClientId
  <2>1. nextId[h] + i \in Nat /\ IdCount \in Nat \ {0}
    BY <1>3, IdAssumption
  <2> QED
    BY <2>1, Remainder DEF ClientId
<1> QED
  BY <1>3, <1>4 DEF FreeId, i

LEMMA SeatsFinite ==
  ASSUME SeatsTyped, NEW h \in App
  PROVE  IsFiniteSet(DOMAIN seats[h]) /\ Cardinality(DOMAIN seats[h]) \in Nat
<1>1. IsFiniteSet(ClientId)
  BY IdAssumption, FS_Interval DEF ClientId
<1> QED
  BY <1>1, FS_Subset, FS_CardinalityType DEF SeatsTyped

-----------------------------------------------------------------------------
(* Packets.                                                                *)

LEMMA TransmitKeeps ==
  ASSUME NEW underWay, NEW packets, Transmit(underWay, packets)
  PROVE  net' \subseteq underWay \cup packets
  BY DEF Transmit

LEMMA RestKeeps ==
  ASSUME NEW p, NEW again
  PROVE  Rest(p, again) \subseteq net
  BY DEF Rest

\* What a step may add to the network.
Harmless(packets) ==
  /\ packets \subseteq Packet
  /\ \A p \in packets : ~(p.type = "CLIENT_GAMEPACKET" /\ p.body = "response")

LEMMA NetKept ==
  ASSUME NetTyped, ResponsesJoined, NEW packets, Harmless(packets),
         net' \subseteq net \cup packets, joined \subseteq joined'
  PROVE  NetTyped' /\ ResponsesJoined'
  BY DEF NetTyped, ResponsesJoined, Harmless

LEMMA LinkSendsTyped ==
  ASSUME NEW a \in App, NEW l \in LinkRecord,
         NEW type \in {"CLIENT_REQUEST", "CLIENT_GAMEPACKET"},
         NEW body \in {"disconnect", "response", "mismatch", "data"}
  PROVE  /\ LinkSends(a, l, type, body) \subseteq Packet
         /\ \A p \in LinkSends(a, l, type, body) :
              /\ p.type = type /\ p.body = body
              /\ p.from = a /\ p.to = l.to
<1>1. CASE l.id = NoId
  BY <1>1 DEF LinkSends
<1>2. CASE l.id # NoId
  <2> DEFINE p == [type |-> type, from |-> a, to |-> l.to, id |-> l.id, body |-> body]
  <2>1. l.id \in ClientId /\ l.to \in App
    BY <1>2 DEF LinkRecord
  <2>2. p \in ClientPacket
    BY <2>1 DEF ClientPacket
  <2> QED
    BY <1>2, <2>2 DEF LinkSends, Packet
<1> QED
  BY <1>1, <1>2

-----------------------------------------------------------------------------
(* Calls that wait.                                                        *)

LEMMA PushTyped ==
  ASSUME CallsTyped, NEW a \in App, NEW call \in Call, Push(a, call),
         call.op = "connect" => call.to \in Hosts[a]
  PROVE  CallsTyped'
<1>1. calls[a] \in Seq(Call)
  BY DEF CallsTyped
<1>2. calls' = [calls EXCEPT ![a] = Append(calls[a], call)]
  BY DEF Push
<1>3. calls' \in [App -> Seq(Call)]
  BY <1>1, <1>2 DEF CallsTyped
<1>4. ASSUME NEW i \in 1 .. Len(Append(calls[a], call)),
             Append(calls[a], call)[i].op = "connect"
      PROVE  Append(calls[a], call)[i].to \in Hosts[a]
  <2>1. CASE i \in 1 .. Len(calls[a])
    <3>1. Append(calls[a], call)[i] = calls[a][i]
      BY <1>1, <2>1
    <3> QED
      BY <3>1, <1>4, <2>1 DEF CallsTyped
  <2>2. CASE i = Len(calls[a]) + 1
    BY <1>1, <1>4, <2>2
  <2> QED
    BY <1>1, <2>1, <2>2
<1> QED
  BY <1>2, <1>3, <1>4 DEF CallsTyped

LEMMA TakeTyped ==
  ASSUME CallsTyped, NEW a \in App, NEW op, TakeCall(a, op)
  PROVE  /\ CallsTyped'
         /\ Head(calls[a]) \in Call /\ Head(calls[a]).op = op
         /\ op = "connect" => Head(calls[a]).to \in Hosts[a]
<1>1. calls[a] \in Seq(Call) /\ calls[a] # <<>>
  BY DEF CallsTyped, TakeCall
<1>2. calls' = [calls EXCEPT ![a] = Tail(calls[a])]
  BY DEF TakeCall
<1>3. /\ Tail(calls[a]) \in Seq(Call) /\ Len(calls[a]) \in Nat \ {0}
      /\ Len(Tail(calls[a])) = Len(calls[a]) - 1
      /\ \A i \in 1 .. Len(Tail(calls[a])) : Tail(calls[a])[i] = calls[a][i + 1]
      /\ Head(calls[a]) = calls[a][1] /\ Head(calls[a]) \in Call
  BY <1>1
<1>4. calls' \in [App -> Seq(Call)]
  BY <1>2, <1>3 DEF CallsTyped
<1>5. \A i \in 1 .. Len(Tail(calls[a])) :
        Tail(calls[a])[i].op = "connect" => Tail(calls[a])[i].to \in Hosts[a]
  <2> SUFFICES ASSUME NEW i \in 1 .. Len(Tail(calls[a])), calls[a][i + 1].op = "connect"
               PROVE  calls[a][i + 1].to \in Hosts[a]
    BY <1>3
  <2>1. i + 1 \in 1 .. Len(calls[a])
    BY <1>3
  <2> QED
    BY <2>1 DEF CallsTyped
<1>6. CallsTyped'
  BY <1>2, <1>4, <1>5 DEF CallsTyped
<1>7. Head(calls[a]).op = op
  BY DEF TakeCall
<1>8. op = "connect" => Head(calls[a]).to \in Hosts[a]
  <2>1. 1 \in 1 .. Len(calls[a])
    BY <1>3
  <2> QED
    BY <1>3, <1>7, <2>1 DEF CallsTyped
<1> QED
  BY <1>3, <1>6, <1>7, <1>8

-----------------------------------------------------------------------------
(* Links and seats.                                                        *)

LEMMA LinkReplaced ==
  ASSUME LinksTyped, NEW a \in App, NEW l \in LinkRecord, l.to \in Hosts[a],
         link' = [link EXCEPT ![a] = l]
  PROVE  LinksTyped'
  BY DEF LinksTyped, Linked

LEMMA LinkDropped ==
  ASSUME LinksTyped, NEW a \in App, link' = [link EXCEPT ![a] = NoLink]
  PROVE  LinksTyped' /\ \A b \in App : Linked(b)' => Linked(b)
  BY DEF LinksTyped, Linked

\* Where there was no link before, there is none now.
NoNewLink == \A a \in App : Linked(a)' => Linked(a)

LEMMA SameLinks ==
  ASSUME LinksTyped, UNCHANGED link
  PROVE  LinksTyped' /\ NoNewLink
  BY DEF LinksTyped, Linked, NoNewLink

LEMMA LinkChanged ==
  ASSUME LinksTyped, NEW a \in App, Linked(a), NEW l, link' = [link EXCEPT ![a] = l]
  PROVE  NoNewLink
  BY DEF LinksTyped, Linked, NoNewLink

LEMMA SameSeats ==
  ASSUME SeatsFine, UNCHANGED seats, NoNewLink, joined \subseteq joined'
  PROVE  SeatsFine'
<1>1. SeatsTyped'
  BY DEF SeatsFine, SeatsTyped
<1>2. SeatsKept'
  BY DEF SeatsFine, SeatsKept, NoNewLink
<1>3. MembersJoined'
  BY DEF SeatsFine, MembersJoined
<1> QED
  BY <1>1, <1>2, <1>3 DEF SeatsFine

LEMMA SeatReplaced ==
  ASSUME SeatsFine, NEW h \in App, NEW id \in DOMAIN seats[h], NEW s \in SeatRecord,
         s.addr = seats[h][id].addr, s.can => <<s.addr, h>> \in joined',
         seats' = [seats EXCEPT ![h] = [@ EXCEPT ![id] = s]],
         NoNewLink, joined \subseteq joined'
  PROVE  SeatsFine'
<1>1. /\ DOMAIN seats' = App
      /\ \A g \in App : DOMAIN seats'[g] = DOMAIN seats[g]
      /\ \A g \in App \ {h} : seats'[g] = seats[g]
      /\ seats'[h][id] = s
      /\ \A i \in DOMAIN seats[h] \ {id} : seats'[h][i] = seats[h][i]
      /\ seats'[h] = [seats[h] EXCEPT ![id] = s]
  BY DEF SeatsFine, SeatsTyped
<1>2. SeatsTyped'
  <2>1. seats'[h] \in [DOMAIN seats[h] -> SeatRecord]
    BY <1>1 DEF SeatsFine, SeatsTyped
  <2> QED
    BY <1>1, <2>1 DEF SeatsFine, SeatsTyped
<1>3. \A g \in App : \A i \in DOMAIN seats[g] : seats'[g][i].addr = seats[g][i].addr
  BY <1>1
<1>4. SeatsKept'
  <2> SUFFICES ASSUME NEW g \in App
               PROVE  /\ seats'[g] # NoSeats => Cardinality(DOMAIN seats'[g]) < MaxSize
                      /\ \A i, j \in DOMAIN seats'[g] :
                           seats'[g][i].addr = seats'[g][j].addr => i = j
                      /\ Linked(g)' => seats'[g] = NoSeats
    BY DEF SeatsKept
  <2>1. seats[h] # NoSeats
    BY DEF NoSeats
  <2>2. CASE g = h
    BY <1>1, <1>3, <2>1, <2>2 DEF SeatsFine, SeatsKept, NoNewLink
  <2>3. CASE g # h
    BY <1>1, <2>3 DEF SeatsFine, SeatsKept, NoNewLink
  <2> QED
    BY <2>2, <2>3
<1>5. MembersJoined'
  <2> SUFFICES ASSUME NEW g \in App, NEW i \in DOMAIN seats'[g], seats'[g][i].can
               PROVE  <<seats'[g][i].addr, g>> \in joined'
    BY DEF MembersJoined
  <2>1. CASE g = h /\ i = id
    BY <1>1, <2>1
  <2>2. CASE ~(g = h /\ i = id)
    BY <1>1, <2>2 DEF SeatsFine, MembersJoined
  <2> QED
    BY <2>1, <2>2
<1> QED
  BY <1>2, <1>4, <1>5 DEF SeatsFine

LEMMA SeatsEmptied ==
  ASSUME SeatsFine, NEW h \in App, seats' = [seats EXCEPT ![h] = NoSeats],
         \A a \in App \ {h} : Linked(a)' => Linked(a), joined \subseteq joined'
  PROVE  SeatsFine'
<1>1. /\ seats'[h] = NoSeats /\ DOMAIN NoSeats = {}
      /\ \A g \in App \ {h} : seats'[g] = seats[g]
      /\ DOMAIN seats' = App
  BY DEF SeatsFine, SeatsTyped, NoSeats
<1>2. NoSeats \in [DOMAIN NoSeats -> SeatRecord]
  BY DEF NoSeats
<1>3. SeatsTyped'
  BY <1>1, <1>2 DEF SeatsFine, SeatsTyped
<1>4. SeatsKept'
  BY <1>1 DEF SeatsFine, SeatsKept
<1>5. MembersJoined'
  BY <1>1 DEF SeatsFine, MembersJoined
<1> QED
  BY <1>3, <1>4, <1>5 DEF SeatsFine

LEMMA SeatRemoved ==
  ASSUME SeatsFine, NEW h \in App, NEW id,
         seats' = [seats EXCEPT ![h] = Remove(seats[h], id)],
         NoNewLink, joined \subseteq joined'
  PROVE  SeatsFine'
<1> DEFINE D == DOMAIN seats[h]
<1>1. /\ seats'[h] = Remove(seats[h], id) /\ DOMAIN seats'[h] = D \ {id}
      /\ \A i \in D \ {id} : seats'[h][i] = seats[h][i]
      /\ \A g \in App \ {h} : seats'[g] = seats[g]
      /\ DOMAIN seats' = App
  BY DEF SeatsFine, SeatsTyped, Remove
<1>2. SeatsTyped'
  <2>1. seats'[h] \in [D \ {id} -> SeatRecord]
    BY <1>1 DEF SeatsFine, SeatsTyped, Remove
  <2> QED
    BY <1>1, <2>1 DEF SeatsFine, SeatsTyped
<1>3. SeatsKept'
  <2> SUFFICES ASSUME NEW g \in App
               PROVE  /\ seats'[g] # NoSeats => Cardinality(DOMAIN seats'[g]) < MaxSize
                      /\ \A i, j \in DOMAIN seats'[g] :
                           seats'[g][i].addr = seats'[g][j].addr => i = j
                      /\ Linked(g)' => seats'[g] = NoSeats
    BY DEF SeatsKept
  <2>1. seats[h] = NoSeats => seats'[h] = NoSeats
    BY <1>1 DEF Remove, NoSeats
  <2>2. CASE g = h
    <3>1. IsFiniteSet(D) /\ Cardinality(D) \in Nat
      BY SeatsFinite DEF SeatsFine
    <3>2. Cardinality(D \ {id}) <= Cardinality(D) /\ Cardinality(D \ {id}) \in Nat
      BY <3>1, FS_Subset, FS_CardinalityType
    <3>3. seats'[h] # NoSeats => Cardinality(D) < MaxSize
      BY <2>1 DEF SeatsFine, SeatsKept
    <3>4. seats'[h] # NoSeats => Cardinality(D \ {id}) < MaxSize
      BY <3>1, <3>2, <3>3, IdAssumption
    <3> QED
      BY <1>1, <2>1, <2>2, <3>4 DEF SeatsFine, SeatsKept, NoNewLink
  <2>3. CASE g # h
    BY <1>1, <2>3 DEF SeatsFine, SeatsKept, NoNewLink
  <2> QED
    BY <2>2, <2>3
<1>4. MembersJoined'
  BY <1>1 DEF SeatsFine, MembersJoined
<1> QED
  BY <1>2, <1>3, <1>4 DEF SeatsFine

LEMMA SeatAdded ==
  ASSUME SeatsFine, NEW h \in App, NEW id \in ClientId, NEW s \in SeatRecord, ~s.can,
         seats' = [seats EXCEPT ![h] = Extend(seats[h], id, s)],
         \A i \in DOMAIN seats[h] : seats[h][i].addr # s.addr,
         ~Full(h), ~Linked(h), NoNewLink, joined \subseteq joined'
  PROVE  SeatsFine'
<1> DEFINE D == DOMAIN seats[h]
<1>1. /\ seats'[h] = Extend(seats[h], id, s) /\ DOMAIN seats'[h] = D \cup {id}
      /\ seats'[h][id] = s
      /\ \A i \in D \ {id} : seats'[h][i] = seats[h][i]
      /\ \A g \in App \ {h} : seats'[g] = seats[g]
      /\ DOMAIN seats' = App
  BY DEF SeatsFine, SeatsTyped, Extend
<1>2. SeatsTyped'
  <2>1. seats'[h] \in [D \cup {id} -> SeatRecord]
    BY <1>1 DEF SeatsFine, SeatsTyped, Extend
  <2> QED
    BY <1>1, <2>1 DEF SeatsFine, SeatsTyped
<1>3. SeatsKept'
  <2> SUFFICES ASSUME NEW g \in App
               PROVE  /\ seats'[g] # NoSeats => Cardinality(DOMAIN seats'[g]) < MaxSize
                      /\ \A i, j \in DOMAIN seats'[g] :
                           seats'[g][i].addr = seats'[g][j].addr => i = j
                      /\ Linked(g)' => seats'[g] = NoSeats
    BY DEF SeatsKept
  <2>1. CASE g = h
    <3>1. IsFiniteSet(D) /\ Cardinality(D) \in Nat
      BY SeatsFinite DEF SeatsFine
    <3>2. Cardinality(D \cup {id}) \in {Cardinality(D), Cardinality(D) + 1}
      BY <3>1, FS_AddElement
    <3>3. Cardinality(D) + 1 < MaxSize
      BY <3>1, IdAssumption DEF Full
    <3>4. Cardinality(D \cup {id}) < MaxSize
      BY <3>1, <3>2, <3>3, IdAssumption
    <3>5. ~Linked(h)'
      BY DEF NoNewLink
    <3>6. ASSUME NEW i \in D \cup {id}, NEW j \in D \cup {id},
                 seats'[h][i].addr = seats'[h][j].addr
          PROVE  i = j
      BY <1>1, <3>6 DEF SeatsFine, SeatsKept
    <3> QED
      BY <1>1, <2>1, <3>4, <3>5, <3>6
  <2>2. CASE g # h
    BY <1>1, <2>2 DEF SeatsFine, SeatsKept, NoNewLink
  <2> QED
    BY <2>1, <2>2
<1>4. MembersJoined'
  <2> SUFFICES ASSUME NEW g \in App, NEW i \in DOMAIN seats'[g], seats'[g][i].can
               PROVE  <<seats'[g][i].addr, g>> \in joined'
    BY DEF MembersJoined
  <2>1. CASE g = h /\ i = id
    BY <1>1, <2>1
  <2>2. CASE ~(g = h /\ i = id)
    BY <1>1, <2>2 DEF SeatsFine, MembersJoined
  <2> QED
    BY <2>1, <2>2
<1> QED
  BY <1>2, <1>3, <1>4 DEF SeatsFine

-----------------------------------------------------------------------------
(* The actions.                                                            *)

LEMMA SameRest ==
  ASSUME Inv
  PROVE  /\ UNCHANGED calls => CallsTyped'
         /\ UNCHANGED counters => CountersTyped'
         /\ UNCHANGED net /\ joined \subseteq joined' => NetTyped' /\ ResponsesJoined'
  BY DEF Inv, CallsTyped, CountersTyped, counters, NetTyped, ResponsesJoined

\* What one link or one seat makes of the network.
LEMMA NetSent ==
  ASSUME Inv, NEW underWay \in SUBSET net, NEW packets,
         Transmit(underWay, packets), Harmless(packets), joined \subseteq joined'
  PROVE  NetTyped' /\ ResponsesJoined'
<1>1. net' \subseteq net \cup packets
  BY TransmitKeeps
<1> QED
  BY <1>1, NetKept DEF Inv

LEMMA LinkSendsHarmless ==
  ASSUME NEW a \in App, NEW l \in LinkRecord
  PROVE  /\ Harmless(DisconnectFromClient(a, l))
         /\ \A body \in {"mismatch", "data"} : Harmless(ClientGame(a, l, body))
  BY LinkSendsTyped DEF DisconnectFromClient, ClientGame, Harmless

LEMMA GoodbyesHarmless ==
  ASSUME NEW h \in App, NEW S, S \subseteq ClientId,
         \A id \in S : seats[h][id].addr \in App
  PROVE  Harmless({DisconnectFromHost(h, seats[h][id], id) : id \in S})
<1>1. ASSUME NEW id \in S
      PROVE  /\ DisconnectFromHost(h, seats[h][id], id) \in GoodbyePacket
             /\ DisconnectFromHost(h, seats[h][id], id).type = "HOST_REQUEST"
  BY <1>1 DEF DisconnectFromHost, GoodbyePacket
<1> QED
  BY <1>1 DEF Harmless, Packet

LEMMA PythonStep ==
  ASSUME Inv, NEW a \in App,
         \/ \E h \in Hosts[a] : ConnectToParty(a, h)
         \/ DisconnectFromParty(a)
  PROVE  Inv'
<1>1. /\ UNCHANGED <<link, seats, net, counters, joined>>
      /\ \/ \E h \in Hosts[a] : Push(a, Connect(h))
         \/ Push(a, Leave)
  BY DEF ConnectToParty, DisconnectFromParty, Act
<1>2. /\ \A h \in Hosts[a] : Connect(h) \in Call /\ Connect(h).op = "connect" /\ Connect(h).to = h
      /\ Leave \in Call /\ Leave.op # "connect"
  BY AppAssumption DEF Connect, Leave, Call
<1>3. CallsTyped'
  BY <1>1, <1>2, PushTyped DEF Inv
<1>4. LinksTyped' /\ NoNewLink
  BY <1>1, SameLinks DEF Inv
<1>5. SeatsFine'
  BY <1>1, <1>4, SameSeats DEF Inv
<1> QED
  BY <1>1, <1>3, <1>4, <1>5, SameRest DEF Inv

LEMMA DisconnectClientStep ==
  ASSUME Inv, NEW h \in App, NEW id \in DOMAIN seats[h], DisconnectClient(h, id)
  PROVE  Inv'
<1> DEFINE s == [seats[h][id] EXCEPT !.errored = TRUE]
<1>1. /\ seats[h][id] \in SeatRecord /\ id \in ClientId
      /\ seats[h][id].can => <<seats[h][id].addr, h>> \in joined
  BY DEF Inv, SeatsFine, SeatsTyped, MembersJoined
<1>2. s \in SeatRecord /\ s.addr = seats[h][id].addr /\ s.can = seats[h][id].can
  BY <1>1 DEF SeatRecord
<1>3. /\ seats' = [seats EXCEPT ![h] = [@ EXCEPT ![id] = s]]
      /\ UNCHANGED <<link, counters, joined>>
      /\ Push(h, Gone(id))
      /\ Transmit(net, {DisconnectFromHost(h, seats[h][id], id)})
  BY DEF DisconnectClient, Act
<1>4. LinksTyped' /\ NoNewLink
  BY <1>3, SameLinks DEF Inv
<1>5. SeatsFine'
  <2>1. s.can => <<s.addr, h>> \in joined'
    BY <1>1, <1>2, <1>3
  <2> HIDE DEF s
  <2> QED
    BY <1>2, <1>3, <1>4, <2>1, SeatReplaced DEF Inv
<1>6. CallsTyped'
  <2>1. Gone(id) \in Call /\ Gone(id).op # "connect"
    BY <1>1 DEF Gone, Call
  <2> QED
    BY <1>3, <2>1, PushTyped DEF Inv
<1>7. NetTyped' /\ ResponsesJoined'
  <2>1. Harmless({DisconnectFromHost(h, seats[h][i], i) : i \in {id}})
    BY <1>1, GoodbyesHarmless DEF SeatRecord
  <2>2. Harmless({DisconnectFromHost(h, seats[h][id], id)})
    BY <2>1
  <2> QED
    BY <1>3, <2>2, NetSent
<1> QED
  BY <1>3, <1>4, <1>5, <1>6, <1>7, SameRest DEF Inv

LEMMA LaunchStep ==
  ASSUME Inv, NEW a \in App, PrepareForLaunchHostSession(a)
  PROVE  Inv'
<1>1. /\ link' = [link EXCEPT ![a] = NoLink]
      /\ UNCHANGED <<seats, calls, counters, joined>>
      /\ Linked(a)
      /\ Transmit(net, DisconnectFromClient(a, link[a]))
  BY DEF PrepareForLaunchHostSession, Act
<1>2. LinksTyped' /\ NoNewLink
  BY <1>1, LinkDropped DEF Inv, NoNewLink
<1>3. SeatsFine'
  BY <1>1, <1>2, SameSeats DEF Inv
<1>4. NetTyped' /\ ResponsesJoined'
  <2>1. Harmless(DisconnectFromClient(a, link[a]))
    BY <1>1, LinkSendsHarmless DEF Inv, LinksTyped
  <2> QED
    BY <1>1, <2>1, NetSent
<1> QED
  BY <1>1, <1>2, <1>3, <1>4, SameRest DEF Inv

LEMMA RunConnectStep ==
  ASSUME Inv, NEW a \in App, RunConnect(a)
  PROVE  Inv'
<1> DEFINE h == Head(calls[a]).to
           goodbyes == {DisconnectFromHost(a, seats[a][id], id) : id \in DOMAIN seats[a]}
<1>1. /\ CallsTyped' /\ h \in Hosts[a]
  BY TakeTyped DEF RunConnect, Inv
<1>2. /\ Transmit(net, goodbyes)
      /\ seats' = [seats EXCEPT ![a] = NoSeats]
      /\ link' = [link EXCEPT ![a] = NewLink(h, nextReq[a])]
      /\ nextReq' = [nextReq EXCEPT ![a] = NextRequestId(@)]
      /\ UNCHANGED <<nextId, acts, joined>>
  BY DEF RunConnect, TakeCall, history
<1>3. nextReq \in [App -> RequestId] /\ nextReq[a] \in RequestId /\ h \in App
  BY <1>1, AppAssumption DEF Inv, CountersTyped
<1> HIDE DEF h
<1>4. NewLink(h, nextReq[a]) \in LinkRecord /\ NewLink(h, nextReq[a]).to = h
  BY <1>3 DEF NewLink, LinkRecord
<1>5. LinksTyped'
  BY <1>1, <1>2, <1>4, LinkReplaced DEF Inv
<1>6. SeatsFine'
  <2>1. \A b \in App \ {a} : Linked(b)' => Linked(b)
    BY <1>2 DEF Linked, Inv, LinksTyped
  <2> QED
    BY <1>2, <2>1, SeatsEmptied DEF Inv
<1>7. CountersTyped'
  <2>1. nextReq' \in [App -> RequestId]
    BY <1>2, <1>3, NextRequestIdType
  <2> QED
    BY <1>2, <2>1 DEF Inv, CountersTyped
<1>8. NetTyped' /\ ResponsesJoined'
  <2>1. /\ DOMAIN seats[a] \subseteq ClientId
        /\ \A id \in DOMAIN seats[a] : seats[a][id] \in SeatRecord
    BY DEF Inv, SeatsFine, SeatsTyped
  <2>2. \A id \in DOMAIN seats[a] : seats[a][id].addr \in App
    BY <2>1 DEF SeatRecord
  <2>3. Harmless(goodbyes)
    BY <2>1, <2>2, GoodbyesHarmless
  <2> HIDE DEF goodbyes
  <2> QED
    BY <1>2, <2>3, NetSent
<1> QED
  BY <1>1, <1>5, <1>6, <1>7, <1>8 DEF Inv

LEMMA RunLeaveStep ==
  ASSUME Inv, NEW a \in App, RunLeave(a)
  PROVE  Inv'
<1>1. CallsTyped'
  BY TakeTyped DEF RunLeave, Inv
<1>2. UNCHANGED <<seats, counters, joined>>
  BY DEF RunLeave, TakeCall, history, counters
<1>3. CASE Linked(a)
  <2> DEFINE l == [link[a] EXCEPT !.errored = TRUE]
  <2>1. /\ link[a] \in LinkRecord /\ link[a].to \in Hosts[a]
    BY <1>3 DEF Inv, LinksTyped
  <2>2. l \in LinkRecord /\ l.to = link[a].to
    BY <2>1 DEF LinkRecord
  <2>3. link' = [link EXCEPT ![a] = l] /\ Transmit(net, DisconnectFromClient(a, link[a]))
    BY <1>3 DEF RunLeave
  <2> HIDE DEF l
  <2>4. LinksTyped' /\ NoNewLink
    BY <1>3, <2>1, <2>2, <2>3, LinkReplaced, LinkChanged DEF Inv
  <2>5. SeatsFine'
    BY <1>2, <2>4, SameSeats DEF Inv
  <2>6. NetTyped' /\ ResponsesJoined'
    BY <1>2, <2>1, <2>3, LinkSendsHarmless, NetSent
  <2> QED
    BY <1>1, <1>2, <2>4, <2>5, <2>6, SameRest DEF Inv
<1>4. CASE ~Linked(a)
  <2>1. UNCHANGED <<link, net>>
    BY <1>4 DEF RunLeave
  <2>2. LinksTyped' /\ NoNewLink
    BY <2>1, SameLinks DEF Inv
  <2>3. SeatsFine'
    BY <1>2, <2>2, SameSeats DEF Inv
  <2> QED
    BY <1>1, <1>2, <2>1, <2>2, <2>3, SameRest DEF Inv
<1> QED
  BY <1>3, <1>4

LEMMA RunClearStep ==
  ASSUME Inv, NEW a \in App, RunClear(a)
  PROVE  Inv'
<1>1. CallsTyped'
  BY TakeTyped DEF RunClear, Inv
<1>2. /\ UNCHANGED <<seats, counters, joined, net>>
      /\ link' = [link EXCEPT ![a] = NoLink]
  BY DEF RunClear, TakeCall, history, counters
<1>3. LinksTyped' /\ NoNewLink
  BY <1>2, LinkDropped DEF Inv, NoNewLink
<1>4. SeatsFine'
  BY <1>2, <1>3, SameSeats DEF Inv
<1> QED
  BY <1>1, <1>2, <1>3, <1>4, SameRest DEF Inv

LEMMA RunGoneStep ==
  ASSUME Inv, NEW a \in App, RunGone(a)
  PROVE  Inv'
<1>1. CallsTyped'
  BY TakeTyped DEF RunGone, Inv
<1>2. /\ UNCHANGED <<link, counters, joined, net>>
      /\ seats' = [seats EXCEPT ![a] = Remove(seats[a], Head(calls[a]).id)]
  BY DEF RunGone, TakeCall, history, counters
<1>3. LinksTyped' /\ NoNewLink
  BY <1>2, SameLinks DEF Inv
<1>4. SeatsFine'
  BY <1>2, <1>3, SeatRemoved DEF Inv
<1> QED
  BY <1>1, <1>2, <1>3, <1>4, SameRest DEF Inv

LEMMA SilenceStep ==
  ASSUME Inv, NEW a \in App,
         LinkSilence(a) \/ \E id \in DOMAIN seats[a] : SeatSilence(a, id)
  PROVE  Inv'
<1>1. CASE LinkSilence(a)
  <2> DEFINE l == [link[a] EXCEPT !.silent = TRUE]
  <2>1. /\ Linked(a) /\ link' = [link EXCEPT ![a] = l]
        /\ UNCHANGED <<seats, counters, calls, net, joined>>
    BY <1>1 DEF LinkSilence, history
  <2>2. link[a] \in LinkRecord /\ link[a].to \in Hosts[a]
    BY <2>1 DEF Inv, LinksTyped
  <2>3. l \in LinkRecord /\ l.to \in Hosts[a]
    BY <2>2 DEF LinkRecord
  <2> HIDE DEF l
  <2>4. LinksTyped' /\ NoNewLink
    BY <2>1, <2>3, LinkReplaced, LinkChanged DEF Inv
  <2>5. SeatsFine'
    BY <2>1, <2>4, SameSeats DEF Inv
  <2> QED
    BY <2>1, <2>4, <2>5, SameRest DEF Inv
<1>2. ASSUME NEW id \in DOMAIN seats[a], SeatSilence(a, id)
      PROVE  Inv'
  <2> DEFINE s == [seats[a][id] EXCEPT !.silent = TRUE]
  <2>1. /\ seats' = [seats EXCEPT ![a] = [@ EXCEPT ![id] = s]]
        /\ UNCHANGED <<link, counters, calls, net, joined>>
    BY <1>2 DEF SeatSilence, history
  <2>2. /\ seats[a][id] \in SeatRecord
        /\ seats[a][id].can => <<seats[a][id].addr, a>> \in joined
    BY DEF Inv, SeatsFine, SeatsTyped, MembersJoined
  <2>3. /\ s \in SeatRecord /\ s.addr = seats[a][id].addr
        /\ s.can => <<s.addr, a>> \in joined'
    BY <2>1, <2>2 DEF SeatRecord
  <2> HIDE DEF s
  <2>4. LinksTyped' /\ NoNewLink
    BY <2>1, SameLinks DEF Inv
  <2>5. SeatsFine'
    BY <2>1, <2>3, <2>4, SeatReplaced DEF Inv
  <2> QED
    BY <2>1, <2>4, <2>5, SameRest DEF Inv
<1> QED
  BY <1>1, <1>2

LEMMA ClearTyped ==
  ASSUME Inv, NEW a \in App, Push(a, Clear) \/ UNCHANGED calls
  PROVE  CallsTyped'
<1>1. Clear \in Call /\ Clear.op # "connect"
  BY DEF Clear, Call
<1> QED
  BY <1>1, PushTyped, SameRest DEF Inv

LEMMA GoneTyped ==
  ASSUME Inv, NEW a \in App, NEW id \in ClientId, Push(a, Gone(id)) \/ UNCHANGED calls
  PROVE  CallsTyped'
<1>1. Gone(id) \in Call /\ Gone(id).op # "connect"
  BY DEF Gone, Call
<1> QED
  BY <1>1, PushTyped, SameRest DEF Inv

LEMMA UpdateLinkStep ==
  ASSUME Inv, NEW a \in App, UpdateLink(a)
  PROVE  Inv'
<1> DEFINE l == [link[a] EXCEPT !.died = @ \/ Dies(link[a])]
<1>1. /\ Linked(a) /\ link' = [link EXCEPT ![a] = l]
      /\ Transmit(net, UpdateSends(a, link[a]))
      /\ Push(a, Clear) \/ UNCHANGED calls
      /\ UNCHANGED <<seats, counters, joined>>
  BY DEF UpdateLink, history
<1>2. link[a] \in LinkRecord /\ link[a].to \in Hosts[a]
  BY <1>1 DEF Inv, LinksTyped
<1>3. l \in LinkRecord /\ l.to \in Hosts[a]
  <2>1. (link[a].died \/ Dies(link[a])) \in BOOLEAN
    BY <1>2 DEF LinkRecord
  <2> QED
    BY <1>2, <2>1 DEF LinkRecord
<1> HIDE DEF l
<1>4. LinksTyped' /\ NoNewLink
  BY <1>1, <1>3, LinkReplaced, LinkChanged DEF Inv
<1>5. SeatsFine'
  BY <1>1, <1>4, SameSeats DEF Inv
<1>6. NetTyped' /\ ResponsesJoined'
  <2>1. Request(a, link[a]) \in RequestPacket /\ Request(a, link[a]).type = "REQUEST"
    BY <1>2 DEF Request, RequestPacket, LinkRecord
  <2>2. Harmless({Request(a, link[a])})
    BY <2>1 DEF Harmless, Packet
  <2>3. Harmless(UpdateSends(a, link[a]))
    BY <1>2, <2>2, LinkSendsHarmless DEF UpdateSends, Harmless
  <2> QED
    BY <1>1, <2>3, NetSent
<1>7. CallsTyped'
  BY <1>1, ClearTyped
<1> QED
  BY <1>1, <1>4, <1>5, <1>6, <1>7, SameRest DEF Inv

LEMMA HostGameHarmless ==
  ASSUME NEW h \in App, NEW s \in SeatRecord, NEW body \in {"handshake", "data", "disconnect"}
  PROVE  Harmless({HostGame(h, s, body)})
<1>1. HostGame(h, s, body) \in GamePacket /\ HostGame(h, s, body).type = "HOST_GAMEPACKET"
  BY DEF HostGame, GamePacket, SeatRecord
<1> QED
  BY <1>1 DEF Harmless, Packet

LEMMA UpdateSeatStep ==
  ASSUME Inv, NEW h \in App, NEW id \in DOMAIN seats[h], UpdateSeat(h, id)
  PROVE  Inv'
<1> DEFINE s == [seats[h][id] EXCEPT !.died = @ \/ SeatDies(seats[h][id])]
<1>1. /\ seats' = [seats EXCEPT ![h] = [@ EXCEPT ![id] = s]]
      /\ Transmit(net, {HostGame(h, seats[h][id],
                                 IF seats[h][id].can THEN "data" ELSE "handshake")})
      /\ Push(h, Gone(id)) \/ UNCHANGED calls
      /\ UNCHANGED <<link, counters, joined>>
  BY DEF UpdateSeat, history
<1>2. /\ seats[h][id] \in SeatRecord /\ id \in ClientId
      /\ seats[h][id].can => <<seats[h][id].addr, h>> \in joined
  BY DEF Inv, SeatsFine, SeatsTyped, MembersJoined
<1>3. /\ s \in SeatRecord /\ s.addr = seats[h][id].addr
      /\ s.can => <<s.addr, h>> \in joined'
  <2>1. (seats[h][id].died \/ SeatDies(seats[h][id])) \in BOOLEAN
    BY <1>2 DEF SeatRecord
  <2> QED
    BY <1>1, <1>2, <2>1 DEF SeatRecord
<1> HIDE DEF s
<1>4. LinksTyped' /\ NoNewLink
  BY <1>1, SameLinks DEF Inv
<1>5. SeatsFine'
  BY <1>1, <1>3, <1>4, SeatReplaced DEF Inv
<1>6. NetTyped' /\ ResponsesJoined'
  <2>1. (IF seats[h][id].can THEN "data" ELSE "handshake") \in {"handshake", "data", "disconnect"}
    OBVIOUS
  <2> QED
    BY <1>1, <1>2, <2>1, HostGameHarmless, NetSent
<1>7. CallsTyped'
  BY <1>1, <1>2, GoneTyped
<1> QED
  BY <1>1, <1>4, <1>5, <1>6, <1>7, SameRest DEF Inv

-----------------------------------------------------------------------------
(* Packets that arrive.                                                    *)

LEMMA PacketFields ==
  ASSUME Inv, NEW p \in net
  PROVE  /\ p \in Packet /\ p.from \in App /\ p.to \in App
         /\ p.type = "REQUEST" => p \in RequestPacket /\ p.req \in RequestId
         /\ p.type = "ACCEPT" => p \in AcceptPacket /\ p.id \in ClientId
         /\ p.type \in {"CLIENT_REQUEST", "CLIENT_GAMEPACKET"} => p \in ClientPacket
         /\ p.type = "HOST_GAMEPACKET" => p \in GamePacket
<1>1. p \in Packet
  BY DEF Inv, NetTyped
<1> QED
  BY <1>1 DEF Packet, RequestPacket, AcceptPacket, DenyPacket, GoodbyePacket,
              ClientPacket, GamePacket

\* A request is answered.
LEMMA AnswerHarmless ==
  ASSUME NEW h \in App, NEW a \in App, NEW req \in RequestId
  PROVE  /\ \A id \in ClientId : Harmless({Accept(h, a, req, id)})
         /\ \A why \in {"full", "elsewhere", "slots"} : Harmless({Deny(h, a, req, why)})
<1>1. ASSUME NEW id \in ClientId
      PROVE  Accept(h, a, req, id) \in AcceptPacket /\ Accept(h, a, req, id).type = "ACCEPT"
  BY DEF Accept, AcceptPacket
<1>2. ASSUME NEW why \in {"full", "elsewhere", "slots"}
      PROVE  Deny(h, a, req, why) \in DenyPacket /\ Deny(h, a, req, why).type = "DENY"
  BY DEF Deny, DenyPacket
<1> QED
  BY <1>1, <1>2 DEF Harmless, Packet

LEMMA ReceiveRequestStep ==
  ASSUME Inv, NEW p \in net, NEW again \in BOOLEAN, ReceiveRequest(p, again)
  PROVE  Inv'
<1> DEFINE h == p.to
<1>1. /\ h \in App /\ p.from \in App /\ p.req \in RequestId
  BY PacketFields DEF ReceiveRequest
<1>2. UNCHANGED <<link, calls, joined, nextReq>>
  BY DEF ReceiveRequest, Refuse, AcceptOld, AcceptNew, counters, history
<1>3. LinksTyped' /\ NoNewLink
  BY <1>2, SameLinks DEF Inv
<1>4. Rest(p, again) \subseteq net
  BY RestKeeps
<1> HIDE DEF h
<1>5. CASE UNCHANGED <<seats, counters>> /\
           \E packets : Harmless(packets) /\ Transmit(Rest(p, again), packets)
  <2>1. SeatsFine'
    BY <1>2, <1>3, <1>5, SameSeats DEF Inv
  <2>2. NetTyped' /\ ResponsesJoined'
    BY <1>2, <1>4, <1>5, NetSent
  <2> QED
    BY <1>2, <1>3, <1>5, <2>1, <2>2, SameRest DEF Inv
<1>6. ASSUME NEW why \in {"full", "elsewhere"}, Refuse(h, p, again, why)
      PROVE  Inv'
  <2>1. Harmless({Deny(h, p.from, p.req, why)})
    BY <1>1, AnswerHarmless
  <2> QED
    BY <1>5, <1>6, <2>1 DEF Refuse
<1>7. CASE AcceptOld(h, p, again)
  <2>1. PICK id \in SeatsOf(h, p) : Transmit(Rest(p, again), {Accept(h, p.from, p.req, id)})
    BY <1>7 DEF AcceptOld
  <2>2. id \in ClientId
    BY <1>1 DEF SeatsOf, Inv, SeatsFine, SeatsTyped
  <2>3. Harmless({Accept(h, p.from, p.req, id)})
    BY <1>1, <2>2, AnswerHarmless
  <2> QED
    BY <1>5, <1>7, <2>1, <2>3 DEF AcceptOld
<1>8. CASE ~Full(h) /\ ~Linked(h) /\ AcceptNew(h, p, again)
  <2>1. CountersTyped'
    <3>1. /\ nextId' = [nextId EXCEPT ![h] = @ + 1] /\ nextReq' = nextReq
          /\ nextId[h] < FirstId + MaxSeats[h]
      BY <1>8 DEF AcceptNew
    <3>2. FirstId \in Nat /\ \A g \in App : MaxSeats[g] \in Nat
      BY IdAssumption
    <3>3. /\ nextId \in [App -> Nat]
          /\ \A g \in App : nextId[g] \in FirstId .. (FirstId + MaxSeats[g])
      BY DEF Inv, CountersTyped
    <3>4. nextId' \in [App -> Nat]
      BY <1>1, <3>1, <3>3
    <3>5. ASSUME NEW g \in App
          PROVE  nextId'[g] \in FirstId .. (FirstId + MaxSeats[g])
      BY <1>1, <3>1, <3>2, <3>3
    <3> QED
      BY <3>1, <3>4, <3>5 DEF Inv, CountersTyped
  <2>2. CASE FreeTries(h) = {}
    <3>1. UNCHANGED seats /\ Transmit(Rest(p, again), {Deny(h, p.from, p.req, "slots")})
      BY <1>8, <2>2 DEF AcceptNew
    <3>2. SeatsFine'
      BY <1>2, <1>3, <3>1, SameSeats DEF Inv
    <3>3. NetTyped' /\ ResponsesJoined'
      BY <1>1, <1>2, <1>4, <3>1, AnswerHarmless, NetSent
    <3> QED
      BY <1>2, <1>3, <2>1, <3>2, <3>3, SameRest DEF Inv
  <2>3. CASE FreeTries(h) # {}
    <3> DEFINE id == FreeId(h)
               s == NewSeat(p.from, p.req)
    <3>1. /\ seats' = [seats EXCEPT ![h] = Extend(seats[h], id, s)]
          /\ Transmit(Rest(p, again), {Accept(h, p.from, p.req, id)})
          /\ SeatsOf(h, p) = {}
      BY <1>8, <2>3 DEF AcceptNew
    <3>2. id \in ClientId
      BY <1>1, <2>3, FreeIdType DEF Inv, CountersTyped
    <3>3. s \in SeatRecord /\ ~s.can /\ s.addr = p.from
      BY <1>1 DEF NewSeat, SeatRecord
    <3>4. \A i \in DOMAIN seats[h] : seats[h][i].addr # p.from
      BY <3>1 DEF SeatsOf
    <3> HIDE DEF id, s
    <3>5. SeatsFine'
      BY <1>1, <1>2, <1>3, <1>8, <3>1, <3>2, <3>3, <3>4, SeatAdded DEF Inv
    <3>6. NetTyped' /\ ResponsesJoined'
      BY <1>1, <1>2, <1>4, <3>1, <3>2, AnswerHarmless, NetSent
    <3> QED
      BY <1>2, <1>3, <2>1, <3>5, <3>6, SameRest DEF Inv
  <2> QED
    BY <2>2, <2>3
<1> QED
  BY <1>6, <1>7, <1>8 DEF ReceiveRequest, h

LEMMA ReceiveDisconnectFromClientStep ==
  ASSUME Inv, NEW p \in net, NEW again \in BOOLEAN, ReceiveDisconnectFromClient(p, again)
  PROVE  Inv'
<1>1. /\ UNCHANGED <<link, seats, counters, joined>>
      /\ Push(p.to, Gone(p.id))
      /\ Transmit(Rest(p, again), {DisconnectAck(p.to, p.from, p.id)})
  BY DEF ReceiveDisconnectFromClient, history
<1>2. p.from \in App /\ p.to \in App /\ p.id \in ClientId
  BY PacketFields DEF ReceiveDisconnectFromClient, ClientPacket
<1>3. CallsTyped'
  BY <1>1, <1>2, GoneTyped
<1>4. LinksTyped' /\ NoNewLink
  BY <1>1, SameLinks DEF Inv
<1>5. SeatsFine'
  BY <1>1, <1>4, SameSeats DEF Inv
<1>6. NetTyped' /\ ResponsesJoined'
  <2>1. /\ DisconnectAck(p.to, p.from, p.id) \in GoodbyePacket
        /\ DisconnectAck(p.to, p.from, p.id).type = "CLIENT_ACK"
    BY <1>2 DEF DisconnectAck, GoodbyePacket
  <2>2. Harmless({DisconnectAck(p.to, p.from, p.id)})
    BY <2>1 DEF Harmless, Packet
  <2> QED
    BY <1>1, <2>2, RestKeeps, NetSent
<1> QED
  BY <1>1, <1>3, <1>4, <1>5, <1>6, SameRest DEF Inv

\* A seat comes to communicate by a response, which joined members send.
LEMMA ReceiveClientGameStep ==
  ASSUME Inv, NEW p \in net, NEW again \in BOOLEAN, ReceiveClientGame(p, again)
  PROVE  Inv'
<1> DEFINE h == p.to
           old == seats[h][p.id]
<1>1. PICK fault \in BOOLEAN : seats' = [seats EXCEPT ![h][p.id] = Heard(old, p, fault)]
  BY DEF ReceiveClientGame
<1> DEFINE s == Heard(old, p, fault)
<1>2. /\ p.type = "CLIENT_GAMEPACKET"
      /\ p.id \in DOMAIN seats[h] /\ old.addr = p.from
      /\ seats' = [seats EXCEPT ![h] = [@ EXCEPT ![p.id] = s]]
      /\ Transmit(Rest(p, again), IF old.errored THEN {HostGame(h, old, "disconnect")} ELSE {})
      /\ UNCHANGED <<link, counters, calls, joined>>
  BY <1>1 DEF ReceiveClientGame, Verified, history
<1>3. h \in App /\ p.from \in App
  BY PacketFields
<1>4. old \in SeatRecord /\ (old.can => <<old.addr, h>> \in joined)
  BY <1>2, <1>3 DEF Inv, SeatsFine, SeatsTyped, MembersJoined
<1>5. s \in SeatRecord /\ s.addr = old.addr /\ (s.can => old.can \/ Welcome(old, p, fault))
  <2>1. /\ (old.can \/ Welcome(old, p, fault)) \in BOOLEAN
        /\ (old.errored \/ Faulty(old, p, fault)) \in BOOLEAN
    OBVIOUS
  <2> HIDE DEF old
  <2> QED
    BY <1>4, <2>1 DEF SeatRecord, Heard
<1>6. s.can => <<s.addr, h>> \in joined'
  <2>1. Welcome(old, p, fault) => <<p.from, p.to>> \in joined
    BY <1>2 DEF Welcome, Inv, ResponsesJoined
  <2> HIDE DEF s, old
  <2> QED
    BY <1>2, <1>4, <1>5, <2>1
<1>7. LinksTyped' /\ NoNewLink
  BY <1>2, SameLinks DEF Inv
<1>8. SeatsFine'
  <2> HIDE DEF s
  <2> QED
    BY <1>2, <1>3, <1>5, <1>6, <1>7, SeatReplaced DEF Inv
<1>9. NetTyped' /\ ResponsesJoined'
  <2>1. Harmless(IF old.errored THEN {HostGame(h, old, "disconnect")} ELSE {})
    BY <1>3, <1>4, HostGameHarmless DEF Harmless
  <2> QED
    BY <1>2, <2>1, RestKeeps, NetSent
<1> QED
  BY <1>2, <1>7, <1>8, <1>9, SameRest DEF Inv

LEMMA Forgotten ==
  ASSUME Inv, NEW p \in net, NEW again \in BOOLEAN,
         net' = Rest(p, again), joined \subseteq joined'
  PROVE  NetTyped' /\ ResponsesJoined'
  BY RestKeeps DEF Inv, NetTyped, ResponsesJoined

LEMMA ReceiveAnswerStep ==
  ASSUME Inv, NEW p \in net, NEW again \in BOOLEAN,
         \/ ReceiveAccept(p, again)
         \/ ReceiveDeny(p, again)
         \/ ReceiveDisconnect(p, again)
         \/ Drop(p, again)
  PROVE  Inv'
<1>1. /\ UNCHANGED <<seats, counters, joined>> /\ net' = Rest(p, again)
  BY DEF ReceiveAccept, ReceiveDeny, ReceiveDisconnect, Drop, history
<1>2. NetTyped' /\ ResponsesJoined'
  BY <1>1, Forgotten
<1>3. p.to \in App
  BY PacketFields
<1>4. CASE ReceiveAccept(p, again)
  <2> DEFINE l == [link[p.to] EXCEPT !.id = p.id]
  <2>1. /\ Linked(p.to) /\ p.id \in ClientId
        /\ link' = [link EXCEPT ![p.to] = l] /\ UNCHANGED calls
    BY <1>4, PacketFields DEF ReceiveAccept, ForMyRequest
  <2>2. link[p.to] \in LinkRecord /\ link[p.to].to \in Hosts[p.to]
    BY <1>3, <2>1 DEF Inv, LinksTyped
  <2>3. l \in LinkRecord /\ l.to \in Hosts[p.to]
    BY <2>1, <2>2 DEF LinkRecord
  <2> HIDE DEF l
  <2>4. LinksTyped' /\ NoNewLink
    BY <1>3, <2>1, <2>3, LinkReplaced, LinkChanged DEF Inv
  <2>5. SeatsFine'
    BY <1>1, <2>4, SameSeats DEF Inv
  <2> QED
    BY <1>1, <1>2, <2>1, <2>4, <2>5, SameRest DEF Inv
<1>5. CASE ReceiveDeny(p, again) \/ ReceiveDisconnect(p, again) \/ Drop(p, again)
  <2>1. UNCHANGED link /\ (Push(p.to, Clear) \/ UNCHANGED calls)
    BY <1>5 DEF ReceiveDeny, ReceiveDisconnect, Drop
  <2>2. LinksTyped' /\ NoNewLink
    BY <2>1, SameLinks DEF Inv
  <2>3. SeatsFine'
    BY <1>1, <2>2, SameSeats DEF Inv
  <2>4. CallsTyped'
    BY <1>3, <2>1, ClearTyped
  <2> QED
    BY <1>1, <1>2, <2>2, <2>3, <2>4, SameRest DEF Inv
<1> QED
  BY <1>4, <1>5

\* The link that answers a handshake has joined by then.
LEMMA ReceiveHostGameStep ==
  ASSUME Inv, NEW p \in net, NEW again \in BOOLEAN, ReceiveHostGame(p, again)
  PROVE  Inv'
<1> DEFINE a == p.to
           l == [link[a] EXCEPT !.silent = FALSE]
           Replies(body) == IF p.body = "handshake" THEN ClientGame(a, l, body) ELSE {}
<1>1. /\ a \in App /\ Linked(a)
      /\ UNCHANGED <<seats, counters>>
  BY PacketFields DEF ReceiveHostGame, ForMyRequest
<1>2. link[a] \in LinkRecord /\ link[a].to \in Hosts[a]
  BY <1>1 DEF Inv, LinksTyped
<1>3. l \in LinkRecord /\ l.to = link[a].to
  BY <1>2 DEF LinkRecord
<1>4. \/ /\ link' = [link EXCEPT ![a] = l]
         /\ net' = Rest(p, again)
         /\ UNCHANGED <<calls, joined>>
      \/ /\ LinkError(a, l, Rest(p, again), Replies("mismatch"))
         /\ UNCHANGED joined
      \/ /\ link' = [link EXCEPT ![a] = [l EXCEPT !.can = TRUE]]
         /\ joined' = joined \cup {<<a, l.to>>}
         /\ Transmit(Rest(p, again), Replies("response"))
         /\ UNCHANGED calls
  BY DEF ReceiveHostGame
<1>5. Replies("mismatch") \subseteq ClientGame(a, l, "mismatch")
      /\ Replies("response") \subseteq ClientGame(a, l, "response")
  OBVIOUS
<1> HIDE DEF a, l, Replies
<1>6. CASE /\ link' = [link EXCEPT ![a] = l]
           /\ net' = Rest(p, again)
           /\ UNCHANGED <<calls, joined>>
  <2>1. LinksTyped' /\ NoNewLink
    BY <1>1, <1>2, <1>3, <1>6, LinkReplaced, LinkChanged DEF Inv
  <2>2. SeatsFine'
    BY <1>1, <1>6, <2>1, SameSeats DEF Inv
  <2>3. NetTyped' /\ ResponsesJoined'
    BY <1>6, Forgotten
  <2> QED
    BY <1>1, <1>6, <2>1, <2>2, <2>3, SameRest DEF Inv
<1>7. CASE LinkError(a, l, Rest(p, again), Replies("mismatch")) /\ UNCHANGED joined
  <2> DEFINE m == [l EXCEPT !.errored = TRUE, !.died = @ \/ l.id = NoId]
  <2>1. /\ link' = [link EXCEPT ![a] = m]
        /\ Transmit(Rest(p, again), Replies("mismatch") \cup DisconnectFromClient(a, l))
        /\ Push(a, Clear) \/ UNCHANGED calls
    BY <1>7 DEF LinkError
  <2>2. m \in LinkRecord /\ m.to = l.to
    <3>1. (l.died \/ l.id = NoId) \in BOOLEAN
      BY <1>3 DEF LinkRecord
    <3> QED
      BY <1>3, <3>1 DEF LinkRecord
  <2> HIDE DEF m
  <2>3. LinksTyped' /\ NoNewLink
    BY <1>1, <1>2, <1>3, <2>1, <2>2, LinkReplaced, LinkChanged DEF Inv
  <2>4. SeatsFine'
    BY <1>1, <1>7, <2>3, SameSeats DEF Inv
  <2>5. NetTyped' /\ ResponsesJoined'
    <3>1. Harmless(Replies("mismatch") \cup DisconnectFromClient(a, l))
      BY <1>1, <1>3, <1>5, LinkSendsHarmless DEF Harmless
    <3> QED
      BY <1>7, <2>1, <3>1, RestKeeps, NetSent
  <2>6. CallsTyped'
    BY <1>1, <2>1, ClearTyped
  <2> QED
    BY <1>1, <2>3, <2>4, <2>5, <2>6, SameRest DEF Inv
<1>8. CASE /\ link' = [link EXCEPT ![a] = [l EXCEPT !.can = TRUE]]
           /\ joined' = joined \cup {<<a, l.to>>}
           /\ Transmit(Rest(p, again), Replies("response"))
           /\ UNCHANGED calls
  <2> DEFINE m == [l EXCEPT !.can = TRUE]
  <2>1. m \in LinkRecord /\ m.to = l.to
    BY <1>3 DEF LinkRecord
  <2>2. link' = [link EXCEPT ![a] = m]
    BY <1>8
  <2> HIDE DEF m
  <2>3. LinksTyped' /\ NoNewLink
    BY <1>1, <1>2, <1>3, <2>1, <2>2, LinkReplaced, LinkChanged DEF Inv
  <2>4. SeatsFine'
    BY <1>1, <1>8, <2>3, SameSeats DEF Inv
  <2>5. net' \subseteq net \cup Replies("response")
    BY <1>8, TransmitKeeps, RestKeeps
  <2>6. \A q \in Replies("response") : q \in Packet /\ q.from = a /\ q.to = l.to
    BY <1>1, <1>3, <1>5, LinkSendsTyped DEF ClientGame
  <2>7. NetTyped'
    BY <2>5, <2>6 DEF Inv, NetTyped
  <2>8. ResponsesJoined'
    BY <1>8, <2>5, <2>6 DEF Inv, ResponsesJoined
  <2> QED
    BY <1>1, <1>8, <2>3, <2>4, <2>7, <2>8, SameRest DEF Inv
<1> QED
  BY <1>4, <1>6, <1>7, <1>8

-----------------------------------------------------------------------------
(* The theorems.                                                           *)

LEMMA InvInit == Init => Inv
<1> SUFFICES ASSUME Init PROVE Inv
  OBVIOUS
<1>1. LinksTyped
  BY DEF Init, LinksTyped, Linked
<1>2. SeatsFine
  <2>1. DOMAIN NoSeats = {} /\ NoSeats \in [DOMAIN NoSeats -> SeatRecord]
    BY DEF NoSeats
  <2>2. DOMAIN seats = App /\ \A h \in App : seats[h] = NoSeats
    BY DEF Init
  <2>3. SeatsTyped
    BY <2>1, <2>2 DEF SeatsTyped
  <2>4. SeatsKept
    BY <2>1, <2>2 DEF SeatsKept
  <2>5. MembersJoined
    BY <2>1, <2>2 DEF MembersJoined
  <2> QED
    BY <2>3, <2>4, <2>5 DEF SeatsFine
<1>3. CallsTyped
  BY DEF Init, CallsTyped
<1>4. CountersTyped
  <2>1. 0 \in RequestId
    BY IdAssumption DEF RequestId
  <2>2. \A h \in App : FirstId \in FirstId .. (FirstId + MaxSeats[h])
    BY IdAssumption
  <2> QED
    BY <2>1, <2>2, IdAssumption DEF Init, CountersTyped
<1>5. NetTyped /\ ResponsesJoined
  BY DEF Init, NetTyped, ResponsesJoined
<1> QED
  BY <1>1, <1>2, <1>3, <1>4, <1>5 DEF Inv

LEMMA InvStep == Inv /\ [Next]_vars => Inv'
<1> SUFFICES ASSUME Inv, [Next]_vars PROVE Inv'
  OBVIOUS
<1>1. CASE UNCHANGED vars
  <2>1. UNCHANGED <<link, seats, counters, calls, net, joined>>
    BY <1>1 DEF vars, counters
  <2>2. LinksTyped' /\ NoNewLink
    BY <2>1, SameLinks DEF Inv
  <2>3. SeatsFine'
    BY <2>1, <2>2, SameSeats DEF Inv
  <2> QED
    BY <2>1, <2>2, <2>3, SameRest DEF Inv
<1>2. ASSUME NEW a \in App,
             \/ \E h \in Hosts[a] : ConnectToParty(a, h)
             \/ DisconnectFromParty(a)
             \/ PrepareForLaunchHostSession(a)
             \/ \E id \in DOMAIN seats[a] :
                  DisconnectClient(a, id) \/ UpdateSeat(a, id) \/ SeatSilence(a, id)
             \/ RunCall(a)
             \/ UpdateLink(a)
             \/ LinkSilence(a)
      PROVE  Inv'
  BY <1>2, PythonStep, LaunchStep, DisconnectClientStep, UpdateSeatStep, SilenceStep,
     RunConnectStep, RunLeaveStep, RunClearStep, RunGoneStep, UpdateLinkStep
  DEF RunCall
<1>3. ASSUME NEW p \in net, NEW again \in BOOLEAN, Receive(p, again)
      PROVE  Inv'
  BY <1>3, ReceiveRequestStep, ReceiveDisconnectFromClientStep, ReceiveClientGameStep,
     ReceiveAnswerStep, ReceiveHostGameStep
  DEF Receive
<1> QED
  BY <1>1, <1>2, <1>3 DEF Next

LEMMA Invariant == Spec => []Inv
  BY InvInit, InvStep, PTL DEF Spec

LEMMA InvTypeOK == Inv => TypeOK
<1> SUFFICES ASSUME Inv PROVE TypeOK
  OBVIOUS
<1>1. ASSUME NEW a \in App, Linked(a)
      PROVE  /\ link[a].to \in Hosts[a]
             /\ link[a].req \in 0 .. (ReqCount - 1)
             /\ link[a].id \in ClientId \cup {NoId}
             /\ FlagsOf(link[a]) \in Flags
  BY <1>1 DEF Inv, LinksTyped, LinkRecord, RequestId, FlagsOf, Flags
<1>2. ASSUME NEW h \in App, NEW id \in DOMAIN seats[h]
      PROVE  seats[h][id].addr \in App /\ FlagsOf(seats[h][id]) \in Flags
  <2>1. seats[h][id] \in SeatRecord
    BY DEF Inv, SeatsFine, SeatsTyped
  <2> QED
    BY <2>1 DEF SeatRecord, FlagsOf, Flags
<1>3. \A h \in App : DOMAIN seats[h] \subseteq ClientId
  BY DEF Inv, SeatsFine, SeatsTyped
<1>4. /\ \A h \in App : nextId[h] \in FirstId .. (FirstId + MaxSeats[h])
      /\ nextReq \in [App -> 0 .. (ReqCount - 1)]
  BY DEF Inv, CountersTyped, RequestId
<1>5. \A a \in App : calls[a] \in Seq([op : {"connect"}, to : App]
                                      \cup [op : {"leave", "clear"}]
                                      \cup [op : {"gone"}, id : ClientId])
  BY DEF Inv, CallsTyped, Call
<1> QED
  BY <1>1, <1>2, <1>3, <1>4, <1>5 DEF TypeOK

\* The members of ConnectionSet and of the connections it keeps have values of
\* their kind, and client and request ids stay within their bounds.
THEOREM PartyTypes == Spec => []TypeOK
  BY Invariant, InvTypeOK, PTL

\* However many ask at once, again, or with a delay: a party keeps its limit,
\* no client has two places in it, and who has a link hosts nobody.
THEOREM PartySeats == Spec => []SeatsKept
<1>1. Inv => SeatsKept
  BY DEF Inv, SeatsFine
<1> QED
  BY <1>1, Invariant, PTL

\* A host counts as connected only clients whose link was connected to it.
THEOREM PartyMembers == Spec => []MembersJoined
<1>1. Inv => MembersJoined
  BY DEF Inv, SeatsFine
<1> QED
  BY <1>1, Invariant, PTL

-----------------------------------------------------------------------------
(* What bears an id.                                                       *)

Answers == {"ACCEPT", "DENY", "HOST_GAMEPACKET"}

\* Something says that app a asked host h with request id r: the request, an
\* answer, the seat that was made for it, or the link that asks.
Asked(a, r, h) ==
  \/ \E p \in net : p.type = "REQUEST" /\ p.from = a /\ p.to = h /\ p.req = r
  \/ \E p \in net : p.type \in Answers /\ p.from = h /\ p.to = a /\ p.req = r
  \/ \E id \in DOMAIN seats[h] : seats[h][id].addr = a /\ seats[h][id].req = r
  \/ Linked(a) /\ link[a].to = h /\ link[a].req = r

\* Something speaks of the client id of host h, or a client has it.
Known(h, id) == Named(h, id) \/ id \in DOMAIN seats[h]

\* The connects that wait, and how many there may still be.
Waiting(a) == {i \in 1 .. Len(calls[a]) : calls[a][i].op = "connect"}
Left(a) == acts[a] + Cardinality(Waiting(a))

ActsTyped == acts \in [App -> Nat]

OneHost ==
  \A a, h1, h2 \in App : \A r \in RequestId :
    Asked(a, r, h1) /\ Asked(a, r, h2) => h1 = h2

\* The counter is past every id that was used, and goes round only when nobody
\* will use it again.
Used ==
  \A a, h \in App : \A r \in RequestId : Asked(a, r, h) => r < nextReq[a] \/ Left(a) = 0

Budget == \A a \in App : nextReq[a] + Left(a) <= ReqCount \/ Left(a) = 0

\* Host h has given out this client id, as it has every id after the first round.
Given(h, id) ==
  \/ FirstId + IdCount < nextId[h]
  \/ \E k \in FirstId .. (nextId[h] - 1) : id = k % IdCount

IdsGiven == \A h \in App : \A id \in ClientId : Known(h, id) => Given(h, id)

IdsInv == ActsTyped /\ OneHost /\ Used /\ Budget /\ IdsGiven

-----------------------------------------------------------------------------
(* Nothing bears an id that nothing bore before.                           *)

AskedKept ==
  \A a, h \in App : \A r \in RequestId : Asked(a, r, h)' => Asked(a, r, h)

KnownKept == \A h \in App : \A id \in ClientId : Known(h, id)' => Known(h, id)

PacketTraced(p) ==
  /\ p.type = "REQUEST" => Asked(p.from, p.req, p.to)
  /\ p.type \in Answers => Asked(p.to, p.req, p.from)
  /\ p.type \in {"ACCEPT", "CLIENT_ACK", "HOST_REQUEST"} => Known(p.from, p.id)
  /\ p.type \in {"CLIENT_REQUEST", "CLIENT_GAMEPACKET"} => Known(p.to, p.id)

LinkTraced(a, l) ==
  /\ Asked(a, l.req, l.to)
  /\ l.id \in ClientId => Known(l.to, l.id)

SeatTraced(h, id, s) ==
  Asked(s.addr, s.req, h) /\ id \in DOMAIN seats[h] /\ s.addr = seats[h][id].addr

\* All that is there after a step goes back to what was there before.
Traced ==
  /\ \A p \in net' : PacketTraced(p)
  /\ \A a \in App : Linked(a)' => LinkTraced(a, link'[a])
  /\ \A h \in App : \A id \in DOMAIN seats'[h] : SeatTraced(h, id, seats'[h][id])
  /\ \A h \in App : \A i \in 1 .. Len(calls'[h]) : \A id \in ClientId :
       calls'[h][i] = Gone(id) => Known(h, id)

LEMMA TracedKeeps ==
  ASSUME Traced
  PROVE  AskedKept /\ KnownKept
<1>1. AskedKept
  <2> SUFFICES ASSUME NEW a \in App, NEW h \in App, NEW r \in RequestId, Asked(a, r, h)'
               PROVE  Asked(a, r, h)
    BY DEF AskedKept
  <2>1. CASE \E p \in net' : p.type = "REQUEST" /\ p.from = a /\ p.to = h /\ p.req = r
    BY <2>1 DEF Traced, PacketTraced
  <2>2. CASE \E p \in net' : p.type \in Answers /\ p.from = h /\ p.to = a /\ p.req = r
    BY <2>2 DEF Traced, PacketTraced
  <2>3. CASE \E id \in DOMAIN seats'[h] : seats'[h][id].addr = a /\ seats'[h][id].req = r
    BY <2>3 DEF Traced, SeatTraced
  <2>4. CASE Linked(a)' /\ link'[a].to = h /\ link'[a].req = r
    BY <2>4 DEF Traced, LinkTraced
  <2> QED
    BY <2>1, <2>2, <2>3, <2>4 DEF Asked
<1>2. KnownKept
  <2> SUFFICES ASSUME NEW h \in App, NEW id \in ClientId, Known(h, id)'
               PROVE  Known(h, id)
    BY DEF KnownKept
  <2>1. CASE \E i \in 1 .. Len(calls'[h]) : calls'[h][i] = Gone(id)
    BY <2>1 DEF Traced
  <2>2. CASE \E p \in net' :
               /\ \/ p.type \in {"ACCEPT", "CLIENT_ACK", "HOST_REQUEST"} /\ p.from = h
                  \/ p.type \in {"CLIENT_REQUEST", "CLIENT_GAMEPACKET"} /\ p.to = h
               /\ p.id = id
    BY <2>2 DEF Traced, PacketTraced
  <2>3. CASE \E a \in App : Linked(a)' /\ link'[a].to = h /\ link'[a].id = id
    BY <2>3 DEF Traced, LinkTraced
  <2>4. CASE id \in DOMAIN seats'[h]
    BY <2>4 DEF Traced, SeatTraced, Known
  <2> QED
    BY <2>1, <2>2, <2>3, <2>4 DEF Known, Named
<1> QED
  BY <1>1, <1>2

\* What is there already.
LEMMA Sources ==
  ASSUME Inv
  PROVE  /\ \A p \in net : PacketTraced(p)
         /\ \A a \in App : Linked(a) => LinkTraced(a, link[a])
         /\ \A h \in App : \A id \in DOMAIN seats[h] : SeatTraced(h, id, seats[h][id])
         /\ \A h \in App : \A i \in 1 .. Len(calls[h]) : \A id \in ClientId :
              calls[h][i] = Gone(id) => Known(h, id)
<1>1. ASSUME NEW p \in net
      PROVE  PacketTraced(p)
  BY DEF PacketTraced, Asked, Known, Named
<1>2. ASSUME NEW a \in App, Linked(a)
      PROVE  LinkTraced(a, link[a])
  BY <1>2 DEF LinkTraced, Asked, Known, Named
<1>3. ASSUME NEW h \in App, NEW id \in DOMAIN seats[h]
      PROVE  SeatTraced(h, id, seats[h][id])
  BY <1>3 DEF SeatTraced, Asked
<1>4. ASSUME NEW h \in App, NEW i \in 1 .. Len(calls[h]), NEW id \in ClientId,
             calls[h][i] = Gone(id)
      PROVE  Known(h, id)
  BY <1>4 DEF Known, Named
<1> QED
  BY <1>1, <1>2, <1>3, <1>4

\* A step, taken apart.
LEMMA NetTraced ==
  ASSUME Inv, NEW packets, net' \subseteq net \cup packets,
         \A p \in packets : PacketTraced(p)
  PROVE  \A p \in net' : PacketTraced(p)
  BY Sources

LEMMA LinksTraced ==
  ASSUME Inv, UNCHANGED link \/
         \E a \in App : \E l : /\ link' = [link EXCEPT ![a] = l]
                               /\ l = NoLink \/ LinkTraced(a, l)
  PROVE  \A a \in App : Linked(a)' => LinkTraced(a, link'[a])
<1>1. CASE UNCHANGED link
  BY <1>1, Sources DEF Linked
<1>2. ASSUME NEW a \in App, NEW l, link' = [link EXCEPT ![a] = l],
             l = NoLink \/ LinkTraced(a, l)
      PROVE  \A b \in App : Linked(b)' => LinkTraced(b, link'[b])
  BY <1>2, Sources DEF Linked, Inv, LinksTyped
<1> QED
  BY <1>1, <1>2

LEMMA SeatsTraced ==
  ASSUME Inv, UNCHANGED seats \/
         \E h \in App : \E new :
           /\ seats' = [seats EXCEPT ![h] = new]
           /\ \A id \in DOMAIN new : SeatTraced(h, id, new[id])
  PROVE  \A h \in App : \A id \in DOMAIN seats'[h] : SeatTraced(h, id, seats'[h][id])
<1>1. CASE UNCHANGED seats
  BY <1>1, Sources
<1>2. ASSUME NEW h \in App, NEW new, seats' = [seats EXCEPT ![h] = new],
             \A id \in DOMAIN new : SeatTraced(h, id, new[id])
      PROVE  \A g \in App : \A id \in DOMAIN seats'[g] : SeatTraced(g, id, seats'[g][id])
  BY <1>2, Sources DEF Inv, SeatsFine, SeatsTyped
<1> QED
  BY <1>1, <1>2

-----------------------------------------------------------------------------
(* Calls that wait, and those that may still be made.                      *)

WaitingCounted ==
  \A a \in App : IsFiniteSet(Waiting(a)) /\ Cardinality(Waiting(a)) \in Nat

LEMMA WaitingFinite ==
  ASSUME CallsTyped
  PROVE  WaitingCounted
<1> SUFFICES ASSUME NEW a \in App
             PROVE  IsFiniteSet(Waiting(a)) /\ Cardinality(Waiting(a)) \in Nat
  BY DEF WaitingCounted
<1>1. Len(calls[a]) \in Nat
  BY DEF CallsTyped
<1>2. IsFiniteSet(1 .. Len(calls[a]))
  BY <1>1, FS_Interval
<1>3. Waiting(a) \in SUBSET (1 .. Len(calls[a]))
  BY DEF Waiting
<1> QED
  BY <1>2, <1>3, FS_Subset, FS_CardinalityType

\* A call that is pushed is the last to wait.
LEMMA Pushed ==
  ASSUME CallsTyped, NEW a \in App, NEW call \in Call, Push(a, call)
  PROVE  /\ calls' = [calls EXCEPT ![a] = Append(calls[a], call)]
         /\ \A b \in App \ {a} : Waiting(b)' = Waiting(b)
         /\ call.op # "connect" => Waiting(a)' = Waiting(a)
         /\ Cardinality(Waiting(a)') <= Cardinality(Waiting(a)) + 1
         /\ \A i \in 1 .. Len(calls'[a]) :
              \/ calls'[a][i] = call
              \/ i \in 1 .. Len(calls[a]) /\ calls'[a][i] = calls[a][i]
<1>1. calls' = [calls EXCEPT ![a] = Append(calls[a], call)]
  BY DEF Push
<1>2. calls[a] \in Seq(Call) /\ calls'[a] = Append(calls[a], call) /\ Len(calls[a]) \in Nat
  BY <1>1 DEF CallsTyped
<1>3. /\ Len(calls'[a]) = Len(calls[a]) + 1
      /\ calls'[a][Len(calls[a]) + 1] = call
      /\ \A i \in 1 .. Len(calls[a]) : calls'[a][i] = calls[a][i]
  BY <1>2
<1>4. \A b \in App \ {a} : Waiting(b)' = Waiting(b)
  BY <1>1 DEF Waiting, CallsTyped
<1>5. \/ Waiting(a)' = Waiting(a)
      \/ call.op = "connect" /\ Waiting(a)' = Waiting(a) \cup {Len(calls[a]) + 1}
  <2>1. 1 .. Len(calls'[a]) = (1 .. Len(calls[a])) \cup {Len(calls[a]) + 1}
    BY <1>2, <1>3
  <2>2. \A i \in 1 .. Len(calls[a]) : i \in Waiting(a)' <=> i \in Waiting(a)
    BY <1>3, <2>1 DEF Waiting
  <2>3. Len(calls[a]) + 1 \in Waiting(a)' <=> call.op = "connect"
    BY <1>3, <2>1 DEF Waiting
  <2>4. Waiting(a)' \subseteq 1 .. Len(calls'[a]) /\ Waiting(a) \subseteq 1 .. Len(calls[a])
    BY DEF Waiting
  <2>5. Len(calls[a]) + 1 \notin Waiting(a)
    BY <1>2, <2>4
  <2> QED
    BY <2>1, <2>2, <2>3, <2>4, <2>5
<1>6. Cardinality(Waiting(a)') <= Cardinality(Waiting(a)) + 1
  <2> DEFINE S == Waiting(a)
             T == Waiting(a)'
             x == Len(calls[a]) + 1
  <2>1. IsFiniteSet(S) /\ Cardinality(S) \in Nat
    BY WaitingFinite DEF WaitingCounted
  <2>2. T = S \/ T = S \cup {x}
    BY <1>5
  <2> HIDE DEF S, T, x
  <2>3. Cardinality(S \cup {x}) <= Cardinality(S) + 1
    BY <2>1, FS_AddElement
  <2>4. Cardinality(T) <= Cardinality(S) + 1
    <3>1. CASE T = S
      BY <2>1, <3>1
    <3>2. CASE T = S \cup {x}
      BY <2>3, <3>2
    <3> QED
      BY <2>2, <3>1, <3>2
  <2> QED
    BY <2>4 DEF S, T
<1>7. ASSUME NEW i \in 1 .. Len(calls'[a])
      PROVE  calls'[a][i] = call \/ (i \in 1 .. Len(calls[a]) /\ calls'[a][i] = calls[a][i])
  BY <1>2, <1>3
<1> QED
  BY <1>1, <1>4, <1>5, <1>6, <1>7

\* The call that runs is the first that waits.
LEMMA Taken ==
  ASSUME CallsTyped, NEW a \in App, NEW op \in {"connect", "leave", "clear", "gone"},
         TakeCall(a, op)
  PROVE  /\ calls[a] # <<>> /\ Head(calls[a]) = calls[a][1] /\ 1 \in 1 .. Len(calls[a])
         /\ \A b \in App \ {a} : Waiting(b)' = Waiting(b)
         /\ Cardinality(Waiting(a)') = Cardinality(Waiting(a) \ {1})
         /\ 1 \in Waiting(a) <=> op = "connect"
         /\ \A b \in App : \A i \in 1 .. Len(calls'[b]) :
              \E j \in 1 .. Len(calls[b]) : calls'[b][i] = calls[b][j]
<1>1. calls[a] \in Seq(Call) /\ calls[a] # <<>> /\ Head(calls[a]).op = op
  BY DEF CallsTyped, TakeCall
<1>2. calls' = [calls EXCEPT ![a] = Tail(calls[a])] /\ DOMAIN calls = App
  BY DEF TakeCall, CallsTyped
<1>3. /\ Len(calls[a]) \in Nat \ {0}
      /\ Len(calls'[a]) = Len(calls[a]) - 1
      /\ \A i \in 1 .. Len(calls'[a]) : calls'[a][i] = calls[a][i + 1]
      /\ Head(calls[a]) = calls[a][1]
  BY <1>1, <1>2
<1>4. \A b \in App \ {a} : Waiting(b)' = Waiting(b)
  BY <1>2 DEF Waiting
<1>5. 1 \in Waiting(a) <=> op = "connect"
  BY <1>1, <1>3 DEF Waiting
<1>6. Cardinality(Waiting(a)') = Cardinality(Waiting(a) \ {1})
  <2> DEFINE S == Waiting(a) \ {1}
             T == Waiting(a)'
             f == [i \in S |-> i - 1]
  <2>1. \A i \in S : i \in 2 .. Len(calls[a]) /\ calls[a][i].op = "connect"
    BY <1>3 DEF Waiting
  <2>2. \A i \in 1 .. Len(calls'[a]) : i \in T <=> i + 1 \in S
    BY <1>3 DEF Waiting
  <2>3. T \subseteq 1 .. Len(calls'[a])
    BY DEF Waiting
  <2>4. IsFiniteSet(S)
    BY WaitingFinite, FS_RemoveElement DEF WaitingCounted
  <2> HIDE DEF S, T
  <2>5. ASSUME NEW i \in S
        PROVE  i - 1 \in T
    <3>1. i - 1 \in 1 .. Len(calls'[a]) /\ (i - 1) + 1 = i
      BY <1>3, <2>1
    <3> QED
      BY <2>2, <3>1
  <2>6. f \in [S -> T] /\ \A i, j \in S : f[i] = f[j] => i = j
    BY <2>1, <2>5
  <2>7. ASSUME NEW i \in T
        PROVE  \E j \in S : f[j] = i
    <3>1. i + 1 \in S /\ (i + 1) - 1 = i
      BY <2>2, <2>3
    <3> QED
      BY <3>1
  <2>8. ExistsBijection(S, T)
    <3> HIDE DEF f
    <3>1. f \in Bijection(S, T)
      BY <2>6, <2>7 DEF Bijection, Injection, Surjection, IsInjective
    <3> QED
      BY <3>1 DEF ExistsBijection
  <2>9. Cardinality(T) = Cardinality(S)
    BY <2>4, <2>8, FS_Bijection
  <2> QED
    BY <2>9 DEF S, T
<1>7. \A b \in App : \A i \in 1 .. Len(calls'[b]) :
        \E j \in 1 .. Len(calls[b]) : calls'[b][i] = calls[b][j]
  <2> SUFFICES ASSUME NEW b \in App, NEW i \in 1 .. Len(calls'[b])
               PROVE  \E j \in 1 .. Len(calls[b]) : calls'[b][i] = calls[b][j]
    OBVIOUS
  <2>1. CASE b = a
    <3>1. i + 1 \in 1 .. Len(calls[a])
      BY <1>3, <2>1
    <3> QED
      BY <1>3, <2>1, <3>1
  <2>2. CASE b # a
    BY <1>2, <2>2
  <2> QED
    BY <2>1, <2>2
<1>8. 1 \in 1 .. Len(calls[a])
  BY <1>3
<1> QED
  BY <1>1, <1>3, <1>4, <1>5, <1>6, <1>7, <1>8

\* What an action that runs no connect does to the calls.
Calm(a) ==
  \/ UNCHANGED calls
  \/ Push(a, Clear)
  \/ Push(a, Leave)
  \/ \E id \in ClientId : Known(a, id) /\ Push(a, Gone(id))
  \/ \E h \in Hosts[a] : Push(a, Connect(h)) /\ acts[a] > 0 /\ acts' = [acts EXCEPT ![a] = @ - 1]
  \/ \E op \in {"leave", "clear", "gone"} : TakeCall(a, op)

CallsKnown ==
  \A h \in App : \A i \in 1 .. Len(calls'[h]) : \A id \in ClientId :
    calls'[h][i] = Gone(id) => Known(h, id)

\* No step of this kind makes more of what is left, or turns the counter back.
Spare == \A a \in App : Left(a)' <= Left(a) /\ Left(a) \in Nat /\ Left(a)' \in Nat

LEMMA CalmCalls ==
  ASSUME Inv, NEW a \in App, Calm(a)
  PROVE  CallsKnown
<1> SUFFICES ASSUME NEW h \in App, NEW i \in 1 .. Len(calls'[h]), NEW id \in ClientId,
                    calls'[h][i] = Gone(id)
             PROVE  Known(h, id)
  BY DEF CallsKnown
<1>1. CallsTyped /\ DOMAIN calls = App
  BY DEF Inv, CallsTyped
<1>2. CASE UNCHANGED calls
  BY <1>2, Sources
<1>3. ASSUME NEW call \in Call, Push(a, call),
             \A x \in ClientId : call = Gone(x) => Known(a, x)
      PROVE  Known(h, id)
  <2>1. CASE h = a
    BY <1>1, <1>3, <2>1, Pushed, Sources
  <2>2. CASE h # a
    <3>1. calls'[h] = calls[h]
      BY <1>1, <1>3, <2>2, Pushed
    <3> QED
      BY <3>1, Sources
  <2> QED
    BY <2>1, <2>2
<1>4. CASE Push(a, Clear) \/ Push(a, Leave)
  <2>1. /\ Clear \in Call /\ Leave \in Call
        /\ \A x \in ClientId : Clear # Gone(x) /\ Leave # Gone(x)
    <3>1. Clear.op = "clear" /\ Leave.op = "leave" /\ \A x \in ClientId : Gone(x).op = "gone"
      BY DEF Clear, Leave, Gone
    <3> QED
      BY <3>1 DEF Clear, Leave, Call
  <2> QED
    BY <1>3, <1>4, <2>1
<1>5. ASSUME NEW x \in ClientId, Known(a, x), Push(a, Gone(x))
      PROVE  Known(h, id)
  <2>1. Gone(x) \in Call /\ \A y \in ClientId : Gone(x) = Gone(y) => x = y
    <3>1. \A y \in ClientId : Gone(y).id = y
      BY DEF Gone
    <3> QED
      BY <3>1 DEF Gone, Call
  <2> QED
    BY <1>3, <1>5, <2>1
<1>6. ASSUME NEW g \in Hosts[a], Push(a, Connect(g))
      PROVE  Known(h, id)
  <2>1. Connect(g) \in Call /\ \A y \in ClientId : Connect(g) # Gone(y)
    <3>1. Connect(g).op = "connect" /\ \A y \in ClientId : Gone(y).op = "gone"
      BY DEF Connect, Gone
    <3> QED
      BY <3>1, AppAssumption DEF Connect, Call
  <2> QED
    BY <1>3, <1>6, <2>1
<1>7. ASSUME NEW op \in {"leave", "clear", "gone"}, TakeCall(a, op)
      PROVE  Known(h, id)
  <2>1. PICK j \in 1 .. Len(calls[h]) : calls'[h][i] = calls[h][j]
    BY <1>1, <1>7, Taken
  <2> QED
    BY <2>1, Sources
<1> QED
  BY <1>2, <1>4, <1>5, <1>6, <1>7 DEF Calm

\* Python's calls are counted down, and nothing else counts them.
LEMMA ActsFall ==
  ASSUME ActsTyped, NEW a \in App, Act(a) \/ UNCHANGED acts
  PROVE  ActsTyped' /\ \A b \in App : acts'[b] <= acts[b] /\ acts[b] \in Nat /\ acts'[b] \in Nat
<1>1. CASE UNCHANGED acts
  BY <1>1 DEF ActsTyped
<1>2. CASE Act(a)
  <2>1. /\ acts[a] \in Nat /\ acts[a] > 0
        /\ acts' = [acts EXCEPT ![a] = acts[a] - 1]
    BY <1>2 DEF Act, ActsTyped
  <2>2. acts[a] - 1 \in Nat
    BY <2>1
  <2> QED
    BY <2>1, <2>2 DEF ActsTyped
<1> QED
  BY <1>1, <1>2

LEMMA CalmSpares ==
  ASSUME Inv, ActsTyped, NEW a \in App, Calm(a), Act(a) \/ UNCHANGED acts
  PROVE  Spare
<1>1. /\ CallsTyped
      /\ \A b \in App : acts'[b] <= acts[b] /\ acts[b] \in Nat /\ acts'[b] \in Nat
  BY ActsFall DEF Inv
<1>2. /\ \A b \in App : Cardinality(Waiting(b)) \in Nat
  BY <1>1, WaitingFinite DEF WaitingCounted
<1>3. ASSUME \A b \in App : /\ Cardinality(Waiting(b)') <= Cardinality(Waiting(b))
                            /\ Cardinality(Waiting(b)') \in Nat
      PROVE  Spare
  <2> SUFFICES ASSUME NEW b \in App
               PROVE  Left(b)' <= Left(b) /\ Left(b) \in Nat /\ Left(b)' \in Nat
    BY DEF Spare
  <2>1. Left(b) = acts[b] + Cardinality(Waiting(b))
    BY DEF Left
  <2>2. Left(b)' = acts'[b] + Cardinality(Waiting(b)')
    BY DEF Left
  <2> QED
    BY <1>1, <1>2, <1>3, <2>1, <2>2
<1>4. ASSUME \A b \in App : Waiting(b)' = Waiting(b)
      PROVE  Spare
  BY <1>2, <1>3, <1>4
<1>5. CASE UNCHANGED calls
  BY <1>4, <1>5 DEF Waiting
<1>6. ASSUME NEW call \in Call, Push(a, call), call.op # "connect"
      PROVE  Spare
  BY <1>1, <1>4, <1>6, Pushed
<1>7. CASE Push(a, Clear) \/ Push(a, Leave)
  BY <1>6, <1>7 DEF Clear, Leave, Call
<1>8. ASSUME NEW x \in ClientId, Push(a, Gone(x))
      PROVE  Spare
  BY <1>6, <1>8 DEF Gone, Call
<1>9. ASSUME NEW g \in Hosts[a], Push(a, Connect(g)), acts[a] > 0,
             acts' = [acts EXCEPT ![a] = @ - 1]
      PROVE  Spare
  <2>1. Connect(g) \in Call
    BY AppAssumption DEF Connect, Call
  <2>2. /\ \A b \in App \ {a} : Waiting(b)' = Waiting(b)
        /\ Cardinality(Waiting(a)') <= Cardinality(Waiting(a)) + 1
    BY <1>1, <1>9, <2>1, Pushed
  <2>3. Cardinality(Waiting(a)') \in Nat
    <3>1. WaitingCounted'
      <4>1. CallsTyped'
        BY <1>9, <2>1, PushTyped DEF Inv, Connect
      <4> QED
        BY <4>1, WaitingFinite, PTL
    <3> QED
      BY <3>1 DEF WaitingCounted
  <2>4. acts'[a] = acts[a] - 1
    BY <1>9 DEF ActsTyped
  <2> SUFFICES ASSUME NEW b \in App
               PROVE  Left(b)' <= Left(b) /\ Left(b) \in Nat /\ Left(b)' \in Nat
    BY DEF Spare
  <2>5. Left(b) = acts[b] + Cardinality(Waiting(b))
    BY DEF Left
  <2>6. Left(b)' = acts'[b] + Cardinality(Waiting(b)')
    BY DEF Left
  <2>7. CASE b = a
    BY <1>1, <1>2, <2>2, <2>3, <2>4, <2>5, <2>6, <2>7
  <2>8. CASE b # a
    BY <1>1, <1>2, <2>2, <2>5, <2>6, <2>8
  <2> QED
    BY <2>7, <2>8
<1>10. ASSUME NEW op \in {"leave", "clear", "gone"}, TakeCall(a, op)
      PROVE  Spare
  <2>1. /\ \A b \in App \ {a} : Waiting(b)' = Waiting(b)
        /\ Cardinality(Waiting(a)') = Cardinality(Waiting(a) \ {1})
        /\ 1 \in Waiting(a) <=> op = "connect"
    BY <1>1, <1>10, Taken
  <2>2. Waiting(a) \ {1} = Waiting(a)
    BY <1>10, <2>1
  <2>3. Cardinality(Waiting(a)') = Cardinality(Waiting(a))
    BY <2>1, <2>2
  <2>4. ASSUME NEW b \in App
        PROVE  /\ Cardinality(Waiting(b)') <= Cardinality(Waiting(b))
               /\ Cardinality(Waiting(b)') \in Nat
    <3>1. Cardinality(Waiting(b)') = Cardinality(Waiting(b))
      BY <2>1, <2>3
    <3> QED
      BY <1>2, <3>1
  <2> QED
    BY <1>3, <2>4
<1> QED
  BY <1>5, <1>7, <1>8, <1>9, <1>10 DEF Calm

-----------------------------------------------------------------------------
(* The steps that give no id.                                              *)

\* The counter of client ids does not go back.
Onward ==
  \A h \in App : nextId[h] \in Nat /\ nextId'[h] \in Nat /\ nextId[h] <= nextId'[h]

Quiet == Traced /\ Spare /\ ActsTyped' /\ Onward /\ UNCHANGED nextReq

\* A seat keeps its client, and in the first round nothing names a new one's id.
FreshSeats ==
  \A h \in App : \A id \in DOMAIN seats'[h] :
    IF id \in DOMAIN seats[h]
      THEN seats'[h][id].addr = seats[h][id].addr
      ELSE FirstRound(h) => ~Named(h, id)

LEMMA QuietOnward ==
  ASSUME Inv, ActsTyped, NEW a \in App, Calm(a), Act(a) \/ UNCHANGED acts,
         NEW packets, net' \subseteq net \cup packets,
         \A p \in packets : PacketTraced(p),
         \/ UNCHANGED link
         \/ \E b \in App : \E l : /\ link' = [link EXCEPT ![b] = l]
                                  /\ l = NoLink \/ LinkTraced(b, l),
         \/ UNCHANGED seats
         \/ \E h \in App : \E new :
              /\ seats' = [seats EXCEPT ![h] = new]
              /\ \A id \in DOMAIN new : SeatTraced(h, id, new[id]),
         Onward, UNCHANGED nextReq
  PROVE  Quiet
<1>1. Spare /\ ActsTyped'
  BY CalmSpares, ActsFall
<1>2. \A p \in net' : PacketTraced(p)
  BY NetTraced
<1>3. \A b \in App : Linked(b)' => LinkTraced(b, link'[b])
  BY LinksTraced
<1>4. \A h \in App : \A id \in DOMAIN seats'[h] : SeatTraced(h, id, seats'[h][id])
  BY SeatsTraced
<1>5. CallsKnown
  BY CalmCalls
<1> QED
  BY <1>1, <1>2, <1>3, <1>4, <1>5 DEF Quiet, Traced, CallsKnown

\* The same for a step that leaves the counters alone.
LEMMA QuietStep ==
  ASSUME Inv, ActsTyped, NEW a \in App, Calm(a), Act(a) \/ UNCHANGED acts,
         NEW packets, net' \subseteq net \cup packets,
         \A p \in packets : PacketTraced(p),
         \/ UNCHANGED link
         \/ \E b \in App : \E l : /\ link' = [link EXCEPT ![b] = l]
                                  /\ l = NoLink \/ LinkTraced(b, l),
         \/ UNCHANGED seats
         \/ \E h \in App : \E new :
              /\ seats' = [seats EXCEPT ![h] = new]
              /\ \A id \in DOMAIN new : SeatTraced(h, id, new[id]),
         UNCHANGED counters
  PROVE  Quiet
<1>1. Onward
  BY DEF Onward, counters, Inv, CountersTyped
<1> QED
  BY <1>1, QuietOnward DEF counters

\* The same for a step that sends nothing.
LEMMA QuietSilent ==
  ASSUME Inv, ActsTyped, NEW a \in App, Calm(a), Act(a) \/ UNCHANGED acts,
         net' \subseteq net,
         \/ UNCHANGED link
         \/ \E b \in App : \E l : /\ link' = [link EXCEPT ![b] = l]
                                  /\ l = NoLink \/ LinkTraced(b, l),
         \/ UNCHANGED seats
         \/ \E h \in App : \E new :
              /\ seats' = [seats EXCEPT ![h] = new]
              /\ \A id \in DOMAIN new : SeatTraced(h, id, new[id]),
         UNCHANGED counters
  PROVE  Quiet
<1> DEFINE none == {}
<1>1. net' \subseteq net \cup none /\ \A p \in none : PacketTraced(p)
  OBVIOUS
<1> HIDE DEF none
<1> QED
  BY <1>1, QuietStep

\* A seat or a link that changes keeps what it goes back to.
LEMMA SeatSame ==
  ASSUME Inv, NEW h \in App, NEW id \in DOMAIN seats[h], NEW s,
         s.addr = seats[h][id].addr, s.req = seats[h][id].req,
         seats' = [seats EXCEPT ![h] = [@ EXCEPT ![id] = s]]
  PROVE  \E new : /\ seats' = [seats EXCEPT ![h] = new]
                  /\ \A i \in DOMAIN new : SeatTraced(h, i, new[i])
<1> DEFINE new == [seats[h] EXCEPT ![id] = s]
<1>1. seats' = [seats EXCEPT ![h] = new]
  BY DEF Inv, SeatsFine, SeatsTyped
<1>2. ASSUME NEW i \in DOMAIN new
      PROVE  SeatTraced(h, i, new[i])
  BY Sources DEF SeatTraced
<1> QED
  BY <1>1, <1>2

LEMMA LinkSame ==
  ASSUME Inv, NEW a \in App, Linked(a), NEW l,
         l.to = link[a].to, l.req = link[a].req, l.id = link[a].id
  PROVE  LinkTraced(a, l)
  BY Sources DEF LinkTraced

LEMMA LinkSendsTraced ==
  ASSUME NEW a \in App, NEW l \in LinkRecord, LinkTraced(a, l),
         NEW type \in {"CLIENT_REQUEST", "CLIENT_GAMEPACKET"},
         NEW body \in {"disconnect", "response", "mismatch", "data"}
  PROVE  \A p \in LinkSends(a, l, type, body) : PacketTraced(p)
<1> SUFFICES ASSUME l.id # NoId, NEW p,
                    p = [type |-> type, from |-> a, to |-> l.to, id |-> l.id, body |-> body]
             PROVE  PacketTraced(p)
  BY DEF LinkSends
<1>1. p.type = type /\ p.to = l.to /\ p.id = l.id
  OBVIOUS
<1>2. Known(l.to, l.id)
  BY DEF LinkTraced, LinkRecord
<1> QED
  BY <1>1, <1>2 DEF PacketTraced, Answers

LEMMA SentByLink ==
  ASSUME NEW a \in App, NEW l \in LinkRecord, LinkTraced(a, l)
  PROVE  /\ \A p \in DisconnectFromClient(a, l) : PacketTraced(p)
         /\ \A body \in {"response", "mismatch", "data"} :
              \A p \in ClientGame(a, l, body) : PacketTraced(p)
         /\ PacketTraced(Request(a, l))
<1>1. PacketTraced(Request(a, l))
  <2>1. /\ Request(a, l).type = "REQUEST" /\ Request(a, l).from = a
        /\ Request(a, l).to = l.to /\ Request(a, l).req = l.req
    BY DEF Request
  <2> QED
    BY <2>1 DEF PacketTraced, LinkTraced, Answers
<1> QED
  BY <1>1, LinkSendsTraced DEF DisconnectFromClient, ClientGame

LEMMA SentByHost ==
  ASSUME NEW h \in App, NEW id, NEW s, SeatTraced(h, id, s), NEW body
  PROVE  PacketTraced(HostGame(h, s, body)) /\ PacketTraced(DisconnectFromHost(h, s, id))
<1>1. /\ HostGame(h, s, body).type = "HOST_GAMEPACKET" /\ HostGame(h, s, body).from = h
      /\ HostGame(h, s, body).to = s.addr /\ HostGame(h, s, body).req = s.req
  BY DEF HostGame
<1>2. /\ DisconnectFromHost(h, s, id).type = "HOST_REQUEST"
      /\ DisconnectFromHost(h, s, id).from = h /\ DisconnectFromHost(h, s, id).id = id
  BY DEF DisconnectFromHost
<1> QED
  BY <1>1, <1>2 DEF PacketTraced, SeatTraced, Answers, Known

LEMMA PythonQuiet ==
  ASSUME Inv, ActsTyped, NEW a \in App,
         \/ \E h \in Hosts[a] : ConnectToParty(a, h)
         \/ DisconnectFromParty(a)
  PROVE  Quiet
<1>1. UNCHANGED <<link, seats, net, counters>> /\ Act(a)
  BY DEF ConnectToParty, DisconnectFromParty, Act
<1>2. Calm(a)
  BY DEF ConnectToParty, DisconnectFromParty, Act, Calm
<1> QED
  BY <1>1, <1>2, QuietSilent

LEMMA DisconnectClientQuiet ==
  ASSUME Inv, ActsTyped, NEW h \in App, NEW id \in DOMAIN seats[h], DisconnectClient(h, id)
  PROVE  Quiet
<1> DEFINE s == [seats[h][id] EXCEPT !.errored = TRUE]
<1>1. seats[h][id] \in SeatRecord /\ id \in ClientId /\ SeatTraced(h, id, seats[h][id])
  BY Sources DEF Inv, SeatsFine, SeatsTyped
<1>2. s.addr = seats[h][id].addr /\ s.req = seats[h][id].req
  BY <1>1 DEF SeatRecord
<1>3. /\ seats' = [seats EXCEPT ![h] = [@ EXCEPT ![id] = s]]
      /\ UNCHANGED <<link, counters>> /\ Act(h)
      /\ Push(h, Gone(id))
      /\ net' \subseteq net \cup {DisconnectFromHost(h, seats[h][id], id)}
  BY TransmitKeeps DEF DisconnectClient, Act
<1> HIDE DEF s
<1>4. Calm(h)
  BY <1>1, <1>3 DEF Calm, SeatTraced, Known
<1>5. \A p \in {DisconnectFromHost(h, seats[h][id], id)} : PacketTraced(p)
  BY <1>1, SentByHost
<1> QED
  BY <1>2, <1>3, <1>4, <1>5, SeatSame, QuietStep

LEMMA LaunchQuiet ==
  ASSUME Inv, ActsTyped, NEW a \in App, PrepareForLaunchHostSession(a)
  PROVE  Quiet
<1>1. /\ link' = [link EXCEPT ![a] = NoLink]
      /\ UNCHANGED <<seats, calls, counters>> /\ Act(a)
      /\ Linked(a)
      /\ net' \subseteq net \cup DisconnectFromClient(a, link[a])
  BY TransmitKeeps DEF PrepareForLaunchHostSession, Act
<1>2. Calm(a)
  BY <1>1 DEF Calm
<1>3. \A p \in DisconnectFromClient(a, link[a]) : PacketTraced(p)
  BY <1>1, Sources, SentByLink DEF Inv, LinksTyped
<1> QED
  BY <1>1, <1>2, <1>3, QuietStep

LEMMA RunLeaveQuiet ==
  ASSUME Inv, ActsTyped, NEW a \in App, RunLeave(a)
  PROVE  Quiet
<1>1. UNCHANGED <<seats, counters, acts>> /\ Calm(a)
  BY DEF RunLeave, TakeCall, history, counters, Calm
<1>2. CASE Linked(a)
  <2> DEFINE l == [link[a] EXCEPT !.errored = TRUE]
  <2>1. link[a] \in LinkRecord /\ LinkTraced(a, link[a])
    BY <1>2, Sources DEF Inv, LinksTyped
  <2>2. l.to = link[a].to /\ l.req = link[a].req /\ l.id = link[a].id
    BY <2>1 DEF LinkRecord
  <2>3. link' = [link EXCEPT ![a] = l] /\ net' \subseteq net \cup DisconnectFromClient(a, link[a])
    BY <1>2, TransmitKeeps DEF RunLeave
  <2> HIDE DEF l
  <2>4. LinkTraced(a, l)
    BY <1>2, <2>2, LinkSame
  <2> QED
    BY <1>1, <2>1, <2>3, <2>4, SentByLink, QuietStep
<1>3. CASE ~Linked(a)
  BY <1>1, <1>3, QuietSilent DEF RunLeave
<1> QED
  BY <1>2, <1>3

LEMMA RunClearQuiet ==
  ASSUME Inv, ActsTyped, NEW a \in App, RunClear(a)
  PROVE  Quiet
<1>1. /\ UNCHANGED <<seats, counters, acts, net>> /\ Calm(a)
      /\ link' = [link EXCEPT ![a] = NoLink]
  BY DEF RunClear, TakeCall, history, counters, Calm
<1> QED
  BY <1>1, QuietSilent

LEMMA RunGoneQuiet ==
  ASSUME Inv, ActsTyped, NEW a \in App, RunGone(a)
  PROVE  Quiet
<1> DEFINE new == Remove(seats[a], Head(calls[a]).id)
<1>1. /\ UNCHANGED <<link, counters, acts, net>> /\ Calm(a)
      /\ seats' = [seats EXCEPT ![a] = new]
  BY DEF RunGone, TakeCall, history, counters, Calm
<1>2. \A id \in DOMAIN new : SeatTraced(a, id, new[id])
  BY Sources DEF Remove
<1> HIDE DEF new
<1> QED
  BY <1>1, <1>2, QuietSilent

LEMMA SilenceQuiet ==
  ASSUME Inv, ActsTyped, NEW a \in App,
         LinkSilence(a) \/ \E id \in DOMAIN seats[a] : SeatSilence(a, id)
  PROVE  Quiet
<1>1. CASE LinkSilence(a)
  <2> DEFINE l == [link[a] EXCEPT !.silent = TRUE]
  <2>1. /\ Linked(a) /\ link' = [link EXCEPT ![a] = l]
        /\ UNCHANGED <<seats, counters, calls, net, acts>>
    BY <1>1 DEF LinkSilence, history
  <2>2. link[a] \in LinkRecord
    BY <2>1 DEF Inv, LinksTyped
  <2>3. l.to = link[a].to /\ l.req = link[a].req /\ l.id = link[a].id
    BY <2>2 DEF LinkRecord
  <2> HIDE DEF l
  <2>4. LinkTraced(a, l) /\ Calm(a)
    BY <2>1, <2>3, LinkSame DEF Calm
  <2> QED
    BY <2>1, <2>4, QuietSilent
<1>2. ASSUME NEW id \in DOMAIN seats[a], SeatSilence(a, id)
      PROVE  Quiet
  <2> DEFINE s == [seats[a][id] EXCEPT !.silent = TRUE]
  <2>1. /\ seats' = [seats EXCEPT ![a] = [@ EXCEPT ![id] = s]]
        /\ UNCHANGED <<link, counters, calls, net, acts>>
    BY <1>2 DEF SeatSilence, history
  <2>2. seats[a][id] \in SeatRecord
    BY DEF Inv, SeatsFine, SeatsTyped
  <2>3. s.addr = seats[a][id].addr /\ s.req = seats[a][id].req
    BY <2>2 DEF SeatRecord
  <2> HIDE DEF s
  <2>4. Calm(a)
    BY <2>1 DEF Calm
  <2> QED
    BY <2>1, <2>3, <2>4, SeatSame, QuietSilent
<1> QED
  BY <1>1, <1>2

LEMMA UpdateLinkQuiet ==
  ASSUME Inv, ActsTyped, NEW a \in App, UpdateLink(a)
  PROVE  Quiet
<1> DEFINE l == [link[a] EXCEPT !.died = @ \/ Dies(link[a])]
<1>1. /\ Linked(a) /\ link' = [link EXCEPT ![a] = l]
      /\ net' \subseteq net \cup UpdateSends(a, link[a])
      /\ Calm(a)
      /\ UNCHANGED <<seats, counters, acts>>
  BY TransmitKeeps DEF UpdateLink, history, Calm
<1>2. link[a] \in LinkRecord /\ LinkTraced(a, link[a])
  BY <1>1, Sources DEF Inv, LinksTyped
<1>3. l.to = link[a].to /\ l.req = link[a].req /\ l.id = link[a].id
  BY <1>2 DEF LinkRecord
<1> HIDE DEF l
<1>4. LinkTraced(a, l)
  BY <1>1, <1>3, LinkSame
<1>5. \A p \in UpdateSends(a, link[a]) : PacketTraced(p)
  BY <1>2, SentByLink DEF UpdateSends
<1> QED
  BY <1>1, <1>4, <1>5, QuietStep

LEMMA UpdateSeatQuiet ==
  ASSUME Inv, ActsTyped, NEW h \in App, NEW id \in DOMAIN seats[h], UpdateSeat(h, id)
  PROVE  Quiet
<1> DEFINE s == [seats[h][id] EXCEPT !.died = @ \/ SeatDies(seats[h][id])]
           body == IF seats[h][id].can THEN "data" ELSE "handshake"
<1>1. /\ seats' = [seats EXCEPT ![h] = [@ EXCEPT ![id] = s]]
      /\ net' \subseteq net \cup {HostGame(h, seats[h][id], body)}
      /\ Push(h, Gone(id)) \/ UNCHANGED calls
      /\ UNCHANGED <<link, counters, acts>>
  BY TransmitKeeps DEF UpdateSeat, history
<1>2. seats[h][id] \in SeatRecord /\ id \in ClientId /\ SeatTraced(h, id, seats[h][id])
  BY Sources DEF Inv, SeatsFine, SeatsTyped
<1>3. s.addr = seats[h][id].addr /\ s.req = seats[h][id].req
  BY <1>2 DEF SeatRecord
<1> HIDE DEF s, body
<1>4. Calm(h)
  BY <1>1, <1>2 DEF Calm, SeatTraced, Known
<1>5. \A p \in {HostGame(h, seats[h][id], body)} : PacketTraced(p)
  BY <1>2, SentByHost
<1> QED
  BY <1>1, <1>3, <1>4, <1>5, SeatSame, QuietStep

LEMMA AnswersTraced ==
  ASSUME Inv, NEW p \in net, p.type = "REQUEST"
  PROVE  /\ \A why : PacketTraced(Deny(p.to, p.from, p.req, why))
         /\ \A id : Known(p.to, id) => PacketTraced(Accept(p.to, p.from, p.req, id))
<1>1. Asked(p.from, p.req, p.to)
  BY Sources DEF PacketTraced
<1>2. ASSUME NEW why
      PROVE  PacketTraced(Deny(p.to, p.from, p.req, why))
  <2> DEFINE q == Deny(p.to, p.from, p.req, why)
  <2>1. q.type = "DENY" /\ q.from = p.to /\ q.to = p.from /\ q.req = p.req
    BY DEF Deny
  <2> HIDE DEF q
  <2>2. PacketTraced(q)
    BY <1>1, <2>1 DEF PacketTraced, Answers
  <2> QED
    BY <2>2 DEF q
<1>3. ASSUME NEW id, Known(p.to, id)
      PROVE  PacketTraced(Accept(p.to, p.from, p.req, id))
  <2> DEFINE q == Accept(p.to, p.from, p.req, id)
  <2>1. q.type = "ACCEPT" /\ q.from = p.to /\ q.to = p.from /\ q.req = p.req /\ q.id = id
    BY DEF Accept
  <2> HIDE DEF q
  <2>2. PacketTraced(q)
    BY <1>1, <1>3, <2>1 DEF PacketTraced, Answers
  <2> QED
    BY <2>2 DEF q
<1> QED
  BY <1>2, <1>3

\* A newcomer for whom there is no id: the counter goes on.
LEMMA DenyQuiet ==
  ASSUME Inv, ActsTyped, NEW p \in net, NEW again \in BOOLEAN, p.type = "REQUEST",
         AcceptNew(p.to, p, again), FreeTries(p.to) = {}
  PROVE  Quiet
<1> DEFINE h == p.to
           packets == {Deny(h, p.from, p.req, "slots")}
<1>1. /\ UNCHANGED <<link, seats, calls, acts, nextReq>> /\ Calm(h) /\ h \in App
      /\ nextId' = [nextId EXCEPT ![h] = @ + 1]
      /\ Transmit(Rest(p, again), packets)
  BY PacketFields DEF AcceptNew, history, Calm
<1>2. Onward
  BY <1>1 DEF Onward, Inv, CountersTyped
<1>3. \A q \in packets : PacketTraced(q)
  BY AnswersTraced
<1>4. net' \subseteq net \cup packets
  BY <1>1, TransmitKeeps, RestKeeps
<1> HIDE DEF h, packets
<1> QED
  BY <1>1, <1>2, <1>3, <1>4, QuietOnward

\* A request that makes no new seat.
LEMMA RefuseQuiet ==
  ASSUME Inv, ActsTyped, NEW p \in net, NEW again \in BOOLEAN, p.type = "REQUEST",
         AcceptOld(p.to, p, again) \/ \E why : Refuse(p.to, p, again, why)
  PROVE  Quiet
<1> DEFINE h == p.to
<1>1. /\ UNCHANGED <<link, seats, counters, calls, acts>> /\ Calm(h) /\ h \in App
  BY PacketFields DEF AcceptOld, Refuse, history, Calm
<1>2. ASSUME NEW packets, Transmit(Rest(p, again), packets), \A q \in packets : PacketTraced(q)
      PROVE  Quiet
  <2>1. net' \subseteq net \cup packets
    BY <1>2, TransmitKeeps, RestKeeps
  <2> QED
    BY <1>1, <1>2, <2>1, QuietStep
<1>3. ASSUME NEW why, Refuse(h, p, again, why)
      PROVE  Quiet
  BY <1>2, <1>3, AnswersTraced DEF Refuse
<1>4. CASE AcceptOld(h, p, again)
  <2>1. PICK id \in SeatsOf(h, p) : Transmit(Rest(p, again), {Accept(h, p.from, p.req, id)})
    BY <1>4 DEF AcceptOld
  <2>2. Known(h, id)
    BY DEF SeatsOf, Known
  <2> QED
    BY <1>2, <2>1, <2>2, AnswersTraced
<1> QED
  BY <1>3, <1>4

LEMMA ReceiveDisconnectFromClientQuiet ==
  ASSUME Inv, ActsTyped, NEW p \in net, NEW again \in BOOLEAN,
         ReceiveDisconnectFromClient(p, again)
  PROVE  Quiet
<1> DEFINE q == DisconnectAck(p.to, p.from, p.id)
<1>1. /\ UNCHANGED <<link, seats, counters, acts>>
      /\ Push(p.to, Gone(p.id))
      /\ net' \subseteq net \cup {q}
  BY TransmitKeeps, RestKeeps DEF ReceiveDisconnectFromClient, history
<1>2. p.to \in App /\ p.id \in ClientId
  BY PacketFields DEF ReceiveDisconnectFromClient, ClientPacket
<1>3. Known(p.to, p.id)
  BY DEF ReceiveDisconnectFromClient, Verified, Known
<1>4. PacketTraced(q)
  <2>1. q.type = "CLIENT_ACK" /\ q.from = p.to /\ q.id = p.id
    BY DEF DisconnectAck
  <2> HIDE DEF q
  <2> QED
    BY <1>3, <2>1 DEF PacketTraced, Answers
<1> HIDE DEF q
<1> DEFINE acks == {q}
<1>6. net' \subseteq net \cup acks /\ \A x \in acks : PacketTraced(x)
  BY <1>1, <1>4
<1> HIDE DEF acks
<1>5. Calm(p.to)
  BY <1>1, <1>2, <1>3 DEF Calm
<1> QED
  BY <1>1, <1>2, <1>5, <1>6, QuietStep

LEMMA ReceiveClientGameQuiet ==
  ASSUME Inv, ActsTyped, NEW p \in net, NEW again \in BOOLEAN, ReceiveClientGame(p, again)
  PROVE  Quiet
<1> DEFINE h == p.to
           old == seats[h][p.id]
           replies == IF old.errored THEN {HostGame(h, old, "disconnect")} ELSE {}
<1>1. PICK fault \in BOOLEAN : seats' = [seats EXCEPT ![h][p.id] = Heard(old, p, fault)]
  BY DEF ReceiveClientGame
<1> DEFINE s == Heard(old, p, fault)
<1>2. /\ p.id \in DOMAIN seats[h]
      /\ seats' = [seats EXCEPT ![h] = [@ EXCEPT ![p.id] = s]]
      /\ Transmit(Rest(p, again), replies)
      /\ UNCHANGED <<link, counters, calls, acts>> /\ Calm(h)
  BY <1>1 DEF ReceiveClientGame, Verified, history, Calm
<1>3. h \in App
  BY PacketFields
<1>4. old \in SeatRecord /\ SeatTraced(h, p.id, old)
  BY <1>2, <1>3, Sources DEF Inv, SeatsFine, SeatsTyped
<1>5. s.addr = old.addr /\ s.req = old.req
  <2> HIDE DEF old
  <2> QED
    BY <1>4 DEF SeatRecord, Heard
<1>6. \A q \in replies : PacketTraced(q)
  <2> HIDE DEF old
  <2>1. PacketTraced(HostGame(h, old, "disconnect"))
    BY <1>3, <1>4, SentByHost
  <2> QED
    BY <2>1
<1> HIDE DEF s, replies
<1>7. net' \subseteq net \cup replies
  BY <1>2, TransmitKeeps, RestKeeps
<1> QED
  BY <1>2, <1>3, <1>5, <1>6, <1>7, SeatSame, QuietStep

\* What a link takes for an answer comes from the host that it asked.
LEMMA Mine ==
  ASSUME Inv, OneHost, NEW p \in net, p.type \in Answers, ForMyRequest(p)
  PROVE  p.from = link[p.to].to
<1>1. /\ p.to \in App /\ p.from \in App
      /\ Linked(p.to) /\ link[p.to].req = p.req
  BY PacketFields DEF ForMyRequest
<1>2. link[p.to].to \in App /\ p.req \in RequestId
  BY <1>1 DEF Inv, LinksTyped, LinkRecord
<1>3. Asked(p.to, p.req, p.from)
  BY Sources DEF PacketTraced
<1>4. Asked(p.to, p.req, link[p.to].to)
  BY <1>1, Sources DEF LinkTraced
<1> QED
  BY <1>1, <1>2, <1>3, <1>4 DEF OneHost

\* A link gets the id that the host it asked has for it.
LEMMA ReceiveAnswerQuiet ==
  ASSUME Inv, ActsTyped, OneHost, NEW p \in net, NEW again \in BOOLEAN,
         \/ ReceiveAccept(p, again)
         \/ ReceiveDeny(p, again)
         \/ ReceiveDisconnect(p, again)
         \/ Drop(p, again)
  PROVE  Quiet
<1>1. UNCHANGED <<seats, counters, acts>> /\ net' \subseteq net /\ p.to \in App
  BY RestKeeps, PacketFields DEF ReceiveAccept, ReceiveDeny, ReceiveDisconnect, Drop, history
<1>2. CASE ReceiveAccept(p, again)
  <2> DEFINE l == [link[p.to] EXCEPT !.id = p.id]
  <2>1. /\ Linked(p.to) /\ p.type = "ACCEPT" /\ ForMyRequest(p)
        /\ link' = [link EXCEPT ![p.to] = l] /\ UNCHANGED calls
    BY <1>2 DEF ReceiveAccept, ForMyRequest
  <2>2. link[p.to] \in LinkRecord
    BY <1>1, <2>1 DEF Inv, LinksTyped
  <2>3. l.to = link[p.to].to /\ l.req = link[p.to].req /\ l.id = p.id
    BY <2>2 DEF LinkRecord
  <2> HIDE DEF l
  <2>4. p.from = link[p.to].to
    BY <2>1, Mine DEF Answers
  <2>5. Known(l.to, l.id)
    BY <2>1, <2>3, <2>4, Sources DEF PacketTraced
  <2>6. LinkTraced(p.to, l)
    BY <1>1, <2>1, <2>3, <2>5, Sources DEF LinkTraced
  <2>7. Calm(p.to)
    BY <2>1 DEF Calm
  <2> QED
    BY <1>1, <2>1, <2>6, <2>7, QuietSilent
<1>3. CASE ReceiveDeny(p, again) \/ ReceiveDisconnect(p, again) \/ Drop(p, again)
  <2>1. UNCHANGED link /\ Calm(p.to)
    BY <1>3 DEF ReceiveDeny, ReceiveDisconnect, Drop, Calm
  <2> QED
    BY <1>1, <2>1, QuietSilent
<1> QED
  BY <1>2, <1>3

LEMMA ReceiveHostGameQuiet ==
  ASSUME Inv, ActsTyped, NEW p \in net, NEW again \in BOOLEAN, ReceiveHostGame(p, again)
  PROVE  Quiet
<1> DEFINE a == p.to
           l == [link[a] EXCEPT !.silent = FALSE]
           Replies(body) == IF p.body = "handshake" THEN ClientGame(a, l, body) ELSE {}
<1>1. /\ a \in App /\ Linked(a)
      /\ UNCHANGED <<seats, counters, acts>>
  BY PacketFields DEF ReceiveHostGame, ForMyRequest
<1>2. link[a] \in LinkRecord
  BY <1>1 DEF Inv, LinksTyped
<1>3. l \in LinkRecord /\ l.to = link[a].to /\ l.req = link[a].req /\ l.id = link[a].id
  BY <1>2 DEF LinkRecord
<1>4. \/ /\ link' = [link EXCEPT ![a] = l]
         /\ net' = Rest(p, again)
         /\ UNCHANGED calls
      \/ LinkError(a, l, Rest(p, again), Replies("mismatch"))
      \/ /\ link' = [link EXCEPT ![a] = [l EXCEPT !.can = TRUE]]
         /\ Transmit(Rest(p, again), Replies("response"))
         /\ UNCHANGED calls
  BY DEF ReceiveHostGame
<1>5. Replies("mismatch") \subseteq ClientGame(a, l, "mismatch")
      /\ Replies("response") \subseteq ClientGame(a, l, "response")
  OBVIOUS
<1> HIDE DEF a, l, Replies
<1>6. LinkTraced(a, l)
  BY <1>1, <1>3, LinkSame
<1>7. CASE /\ link' = [link EXCEPT ![a] = l]
           /\ net' = Rest(p, again)
           /\ UNCHANGED calls
  <2>1. Calm(a)
    BY <1>7 DEF Calm
  <2> QED
    BY <1>1, <1>6, <1>7, <2>1, RestKeeps, QuietSilent
<1>8. CASE LinkError(a, l, Rest(p, again), Replies("mismatch"))
  <2> DEFINE m == [l EXCEPT !.errored = TRUE, !.died = @ \/ l.id = NoId]
             sent == Replies("mismatch") \cup DisconnectFromClient(a, l)
  <2>1. link' = [link EXCEPT ![a] = m] /\ Transmit(Rest(p, again), sent) /\ Calm(a)
    BY <1>8 DEF LinkError, Calm
  <2>2. m.to = l.to /\ m.req = l.req /\ m.id = l.id
    BY <1>3 DEF LinkRecord
  <2>3. \A q \in sent : PacketTraced(q)
    BY <1>1, <1>3, <1>5, <1>6, SentByLink
  <2> HIDE DEF m, sent
  <2>4. LinkTraced(a, m)
    BY <1>1, <1>3, <2>2, LinkSame
  <2>5. net' \subseteq net \cup sent
    BY <2>1, TransmitKeeps, RestKeeps
  <2> QED
    BY <1>1, <2>1, <2>3, <2>4, <2>5, QuietStep
<1>9. CASE /\ link' = [link EXCEPT ![a] = [l EXCEPT !.can = TRUE]]
           /\ Transmit(Rest(p, again), Replies("response"))
           /\ UNCHANGED calls
  <2> DEFINE m == [l EXCEPT !.can = TRUE]
             sent == Replies("response")
  <2>1. link' = [link EXCEPT ![a] = m] /\ Transmit(Rest(p, again), sent) /\ Calm(a)
    BY <1>9 DEF Calm
  <2>2. m.to = l.to /\ m.req = l.req /\ m.id = l.id
    BY <1>3 DEF LinkRecord
  <2>3. \A q \in sent : PacketTraced(q)
    BY <1>1, <1>3, <1>5, <1>6, SentByLink
  <2> HIDE DEF m, sent
  <2>4. LinkTraced(a, m)
    BY <1>1, <1>3, <2>2, LinkSame
  <2>5. net' \subseteq net \cup sent
    BY <2>1, TransmitKeeps, RestKeeps
  <2> QED
    BY <1>1, <2>1, <2>3, <2>4, <2>5, QuietStep
<1> QED
  BY <1>4, <1>7, <1>8, <1>9

\* All steps but two: a link is made with the next request id, and a seat with
\* the next client id.
LEMMA AllButTwo ==
  ASSUME Inv, ActsTyped, OneHost, [Next]_vars
  PROVE  \/ Quiet
         \/ \E a \in App : RunConnect(a)
         \/ \E p \in net, again \in BOOLEAN :
              p.type = "REQUEST" /\ FreeTries(p.to) # {} /\ AcceptNew(p.to, p, again)
<1>1. CASE UNCHANGED vars
  <2>1. UNCHANGED <<link, seats, counters, calls, net, acts>>
    BY <1>1 DEF vars, counters
  <2>2. CASE App = {}
    BY <2>1, <2>2, Sources DEF Quiet, Traced, Spare, ActsTyped, Onward, counters
  <2>3. ASSUME NEW a \in App
        PROVE  Quiet
    <3>1. Calm(a)
      BY <2>1 DEF Calm
    <3> QED
      BY <2>1, <3>1, QuietSilent
  <2> QED
    BY <2>2, <2>3
<1>2. ASSUME NEW a \in App,
             \/ \E h \in Hosts[a] : ConnectToParty(a, h)
             \/ DisconnectFromParty(a)
             \/ PrepareForLaunchHostSession(a)
             \/ \E id \in DOMAIN seats[a] :
                  DisconnectClient(a, id) \/ UpdateSeat(a, id) \/ SeatSilence(a, id)
             \/ RunCall(a)
             \/ UpdateLink(a)
             \/ LinkSilence(a)
      PROVE  Quiet \/ RunConnect(a)
  BY <1>2, PythonQuiet, LaunchQuiet, DisconnectClientQuiet, UpdateSeatQuiet, SilenceQuiet,
     RunLeaveQuiet, RunClearQuiet, RunGoneQuiet, UpdateLinkQuiet
  DEF RunCall
<1>3. ASSUME NEW p \in net, NEW again \in BOOLEAN, Receive(p, again)
      PROVE  Quiet \/ (/\ p.type = "REQUEST" /\ FreeTries(p.to) # {}
                       /\ AcceptNew(p.to, p, again))
  <2>1. CASE ReceiveRequest(p, again)
    BY <2>1, RefuseQuiet, DenyQuiet DEF ReceiveRequest
  <2> QED
    BY <1>3, <2>1, ReceiveDisconnectFromClientQuiet, ReceiveClientGameQuiet,
       ReceiveAnswerQuiet, ReceiveHostGameQuiet
    DEF Receive
<1> QED
  BY <1>1, <1>2, <1>3 DEF Next

-----------------------------------------------------------------------------
(* A new request id, a new client id.                                      *)

\* The id that a connect takes was used by nothing that is left.
LEMMA RunConnectIds ==
  ASSUME Inv, IdsInv, NEW a \in App, RunConnect(a)
  PROVE  IdsInv'
<1> DEFINE h == Head(calls[a]).to
           r0 == nextReq[a]
           goodbyes == {DisconnectFromHost(a, seats[a][id], id) : id \in DOMAIN seats[a]}
<1>1. TakeCall(a, "connect") /\ h \in Hosts[a] /\ CallsTyped /\ DOMAIN calls = App
  BY TakeTyped DEF RunConnect, Inv, CallsTyped
<1>2. /\ net' \subseteq net \cup goodbyes
      /\ seats' = [seats EXCEPT ![a] = NoSeats]
      /\ link' = [link EXCEPT ![a] = NewLink(h, r0)]
      /\ nextReq' = [nextReq EXCEPT ![a] = NextRequestId(@)]
      /\ UNCHANGED <<nextId, acts>>
  BY TransmitKeeps DEF RunConnect, TakeCall, history
<1>3. /\ nextReq \in [App -> RequestId] /\ r0 \in RequestId /\ h \in App
      /\ DOMAIN link = App /\ DOMAIN seats = App
  BY <1>1, AppAssumption DEF Inv, CountersTyped, LinksTyped, SeatsFine, SeatsTyped
<1>4. /\ NewLink(h, r0).to = h /\ NewLink(h, r0).req = r0
      /\ NewLink(h, r0).id = NoId /\ NoId \notin ClientId
  BY IdAssumption DEF NewLink, NoId, ClientId
<1>5. /\ \A b \in App \ {a} : Waiting(b)' = Waiting(b)
      /\ Cardinality(Waiting(a)') = Cardinality(Waiting(a) \ {1})
      /\ 1 \in Waiting(a)
      /\ \A b \in App : \A i \in 1 .. Len(calls'[b]) :
           \E j \in 1 .. Len(calls[b]) : calls'[b][i] = calls[b][j]
  BY <1>1, Taken
<1>6. /\ \A b \in App : Left(b) \in Nat
      /\ \A b \in App \ {a} : Left(b)' = Left(b)
      /\ Left(a) > 0 /\ Left(a)' = Left(a) - 1
  <2>1. \A b \in App : /\ acts[b] \in Nat
                       /\ IsFiniteSet(Waiting(b)) /\ Cardinality(Waiting(b)) \in Nat
    BY <1>1, WaitingFinite DEF WaitingCounted, IdsInv, ActsTyped
  <2>2. Cardinality(Waiting(a) \ {1}) = Cardinality(Waiting(a)) - 1
    BY <1>5, <2>1, FS_RemoveElement
  <2>3. Cardinality(Waiting(a)) # 0
    BY <1>5, <2>1, FS_EmptySet
  <2>4. \A b \in App : Left(b) = acts[b] + Cardinality(Waiting(b))
    BY DEF Left
  <2>5. Left(a)' = acts[a] + (Cardinality(Waiting(a)) - 1)
    BY <1>2, <1>5, <2>2 DEF Left
  <2>6. ASSUME NEW b \in App \ {a}
        PROVE  Left(b)' = Left(b)
    BY <1>2, <1>5 DEF Left
  <2> QED
    BY <2>1, <2>3, <2>4, <2>5, <2>6
<1> HIDE DEF h, goodbyes
<1>7. \A q \in goodbyes : q.type = "HOST_REQUEST" /\ q.from = a /\ q.id \in DOMAIN seats[a]
  BY DEF goodbyes, DisconnectFromHost
<1>8. ASSUME NEW b \in App, NEW g \in App, NEW r \in RequestId, Asked(b, r, g)'
      PROVE  Asked(b, r, g) \/ (b = a /\ r = r0 /\ g = h)
  <2>1. CASE \E p \in net' : p.type = "REQUEST" /\ p.from = b /\ p.to = g /\ p.req = r
    BY <1>2, <1>7, <2>1 DEF Asked
  <2>2. CASE \E p \in net' : p.type \in Answers /\ p.from = g /\ p.to = b /\ p.req = r
    BY <1>2, <1>7, <2>2 DEF Asked, Answers
  <2>3. CASE \E id \in DOMAIN seats'[g] : seats'[g][id].addr = b /\ seats'[g][id].req = r
    BY <1>2, <1>3, <2>3 DEF Asked, NoSeats
  <2>4. CASE Linked(b)' /\ link'[b].to = g /\ link'[b].req = r
    BY <1>2, <1>3, <1>4, <2>4 DEF Asked, Linked
  <2> QED
    BY <1>8, <2>1, <2>2, <2>3, <2>4 DEF Asked
<1>9. \A g \in App : ~Asked(a, r0, g)
  <2>1. \A g \in App : Asked(a, r0, g) => r0 < r0 \/ Left(a) = 0
    BY <1>3 DEF IdsInv, Used
  <2> QED
    BY <1>3, <1>6, <2>1 DEF RequestId
<1>10. OneHost'
  <2> SUFFICES ASSUME NEW b \in App, NEW g1 \in App, NEW g2 \in App, NEW r \in RequestId,
                      Asked(b, r, g1)', Asked(b, r, g2)'
               PROVE  g1 = g2
    BY DEF OneHost
  <2> QED
    BY <1>8, <1>9 DEF IdsInv, OneHost
<1>11. /\ nextReq'[a] = (IF r0 + 1 < ReqCount THEN r0 + 1 ELSE 0)
       /\ \A b \in App \ {a} : nextReq'[b] = nextReq[b]
       /\ r0 + 1 < ReqCount \/ r0 + 1 = ReqCount
  <2>1. r0 \in Nat /\ r0 < ReqCount /\ ReqCount \in Nat \ {0}
    BY <1>3, IdAssumption DEF RequestId
  <2>2. nextReq'[a] = (r0 + 1) % ReqCount
    BY <1>2, <1>3 DEF NextRequestId
  <2>3. r0 + 1 < ReqCount => (r0 + 1) % ReqCount = r0 + 1
    BY <2>1
  <2>4. r0 + 1 = ReqCount => (r0 + 1) % ReqCount = 0
    <3> SUFFICES ReqCount % ReqCount = 0
      OBVIOUS
    <3> QED
      BY <2>1
  <2> QED
    BY <1>2, <1>3, <2>1, <2>2, <2>3, <2>4
<1>12. ~(r0 + 1 < ReqCount) => Left(a)' = 0
  <2>1. r0 + Left(a) <= ReqCount
    BY <1>6 DEF IdsInv, Budget
  <2>2. r0 \in Nat /\ ReqCount \in Nat
    BY <1>3, IdAssumption DEF RequestId
  <2> QED
    BY <1>6, <2>1, <2>2
<1>13. Used'
  <2> SUFFICES ASSUME NEW b \in App, NEW g \in App, NEW r \in RequestId, Asked(b, r, g)'
               PROVE  r < nextReq'[b] \/ Left(b)' = 0
    BY DEF Used
  <2>1. CASE b = a
    <3>1. r \in Nat /\ r0 \in Nat
      BY <1>3 DEF RequestId
    <3>2. r < r0 \/ r = r0
      BY <1>6, <1>8, <2>1 DEF IdsInv, Used
    <3> QED
      BY <1>11, <1>12, <2>1, <3>1, <3>2
  <2>2. CASE b # a
    <3>1. r < nextReq[b] \/ Left(b) = 0
      BY <1>8, <2>2 DEF IdsInv, Used
    <3> QED
      BY <1>6, <1>11, <2>2, <3>1
  <2> QED
    BY <2>1, <2>2
<1>14. Budget'
  <2> SUFFICES ASSUME NEW b \in App
               PROVE  nextReq'[b] + Left(b)' <= ReqCount \/ Left(b)' = 0
    BY DEF Budget
  <2>1. CASE b = a
    <3>1. r0 \in Nat /\ ReqCount \in Nat
      BY <1>3, IdAssumption DEF RequestId
    <3>2. r0 + Left(a) <= ReqCount
      BY <1>6 DEF IdsInv, Budget
    <3> QED
      BY <1>6, <1>11, <1>12, <2>1, <3>1, <3>2
  <2>2. CASE b # a
    BY <1>6, <1>11, <2>2 DEF IdsInv, Budget
  <2> QED
    BY <2>1, <2>2
<1>15. KnownKept
  <2> SUFFICES ASSUME NEW g \in App, NEW id \in ClientId, Known(g, id)'
               PROVE  Known(g, id)
    BY DEF KnownKept
  <2>1. CASE \E i \in 1 .. Len(calls'[g]) : calls'[g][i] = Gone(id)
    BY <1>5, <2>1, Sources
  <2>2. CASE \E p \in net' :
               /\ \/ p.type \in {"ACCEPT", "CLIENT_ACK", "HOST_REQUEST"} /\ p.from = g
                  \/ p.type \in {"CLIENT_REQUEST", "CLIENT_GAMEPACKET"} /\ p.to = g
               /\ p.id = id
    BY <1>2, <1>7, <2>2 DEF Known, Named
  <2>3. CASE \E b \in App : Linked(b)' /\ link'[b].to = g /\ link'[b].id = id
    BY <1>2, <1>3, <1>4, <2>3 DEF Known, Named, Linked
  <2>4. CASE id \in DOMAIN seats'[g]
    BY <1>2, <1>3, <2>4 DEF Known, NoSeats
  <2> QED
    BY <2>1, <2>2, <2>3, <2>4 DEF Known, Named
<1>16. IdsGiven' /\ ActsTyped'
  BY <1>2, <1>15 DEF IdsInv, IdsGiven, KnownKept, Given, ActsTyped
<1> QED
  BY <1>10, <1>13, <1>14, <1>16 DEF IdsInv

\* Numbers less than n apart have different remainders.
LEMMA RemaindersDiffer ==
  ASSUME NEW n \in Nat \ {0}, NEW j \in Nat, NEW k \in Nat, j < k, k < j + n
  PROVE  j % n # k % n
<1> DEFINE q == j \div n
           r == k \div n
           x == n * q
           y == n * r
<1>1. /\ j = x + (j % n) /\ k = y + (k % n)
      /\ q \in Nat /\ r \in Nat /\ j % n \in Nat /\ k % n \in Nat
  OBVIOUS
<1>2. x \in Nat /\ y \in Nat
  BY <1>1
<1>3. ASSUME NEW d \in Int, d >= 1
      PROVE  n * d \in Int /\ n * d >= n
  BY <1>3, Z3
<1>4. q < r => y - x >= n
  <2>1. y - x = n * (r - q)
    BY <1>1
  <2> QED
    BY <1>1, <1>3, <2>1
<1>5. r < q => x - y >= n
  <2>1. x - y = n * (q - r)
    BY <1>1
  <2> QED
    BY <1>1, <1>3, <2>1
<1>6. q = r => x = y
  OBVIOUS
<1> HIDE DEF q, r, x, y
<1> QED
  BY <1>1, <1>2, <1>4, <1>5, <1>6

\* In the first round the next client id is free, and nothing speaks of it.
LEMMA NextIdFresh ==
  ASSUME Inv, IdsInv, NEW h \in App, FirstRound(h)
  PROVE  FreeId(h) = nextId[h] % IdCount /\ ~Known(h, FreeId(h))
<1> DEFINE n == nextId[h]
<1>1. /\ n \in Nat /\ n >= FirstId /\ FirstId \in Nat /\ IdCount \in Nat \ {0}
      /\ n < FirstId + IdCount
  BY IdAssumption DEF Inv, CountersTyped, FirstRound
<1>2. n % IdCount \in ClientId
  BY <1>1, Remainder DEF ClientId
<1>3. ~Given(h, n % IdCount)
  <2> SUFFICES ASSUME NEW k \in FirstId .. (n - 1), n % IdCount = k % IdCount
               PROVE  FALSE
    BY <1>1 DEF Given
  <2>1. k \in Nat /\ k < n /\ n < k + IdCount
    BY <1>1
  <2> HIDE DEF n
  <2> QED
    BY <1>1, <2>1, RemaindersDiffer
<1>4. ~Known(h, n % IdCount)
  BY <1>2, <1>3 DEF IdsInv, IdsGiven
<1>5. 0 \in FreeTries(h)
  <2>1. n + 0 = n /\ 0 \in 0 .. IdCount
    BY <1>1
  <2>2. n % IdCount \notin DOMAIN seats[h]
    BY <1>4 DEF Known
  <2> QED
    BY <2>1, <2>2 DEF FreeTries
<1>6. (CHOOSE i \in FreeTries(h) : \A j \in FreeTries(h) : i <= j) = 0
  <2>1. \A i \in FreeTries(h) : i \in Nat
    BY <1>1 DEF FreeTries
  <2>2. \A i \in FreeTries(h) : (\A j \in FreeTries(h) : i <= j) <=> i = 0
    BY <1>5, <2>1
  <2> QED
    BY <1>5, <2>2
<1>7. FreeId(h) = n % IdCount
  <2>1. FreeId(h) = (n + 0) % IdCount
    BY <1>6 DEF FreeId
  <2>2. n + 0 = n
    BY <1>1
  <2> QED
    BY <2>1, <2>2
<1> QED
  BY <1>4, <1>7

LEMMA AcceptNewIds ==
  ASSUME Inv, IdsInv, NEW p \in net, NEW again \in BOOLEAN,
         p.type = "REQUEST", FreeTries(p.to) # {}, AcceptNew(p.to, p, again)
  PROVE  IdsInv' /\ FreshSeats
<1> DEFINE h == p.to
           id0 == FreeId(h)
           s == NewSeat(p.from, p.req)
           ack == Accept(h, p.from, p.req, id0)
<1>1. h \in App /\ p.from \in App
  BY PacketFields
<1>2. /\ nextId[h] \in Nat /\ nextId[h] >= FirstId
      /\ id0 \in ClientId /\ id0 \notin DOMAIN seats[h]
      /\ FirstRound(h) => id0 = nextId[h] % IdCount /\ ~Known(h, id0)
  <2>1. nextId[h] \in Nat /\ nextId[h] >= FirstId
    BY <1>1, IdAssumption DEF Inv, CountersTyped
  <2> QED
    BY <1>1, <2>1, FreeIdType, NextIdFresh
<1>3. /\ seats' = [seats EXCEPT ![h] = Extend(seats[h], id0, s)]
      /\ Transmit(Rest(p, again), {ack})
      /\ nextId' = [nextId EXCEPT ![h] = @ + 1]
      /\ UNCHANGED <<link, nextReq, calls, acts>>
  BY DEF AcceptNew, history
<1>4. /\ ack.type = "ACCEPT" /\ ack.from = h /\ ack.to = p.from
      /\ ack.req = p.req /\ ack.id = id0
      /\ s.addr = p.from /\ s.req = p.req
  BY DEF Accept, NewSeat
<1> HIDE DEF h, id0, s, ack
<1>5. net' \subseteq net \cup {ack}
  BY <1>3, TransmitKeeps, RestKeeps
<1>6. Asked(p.from, p.req, h)
  BY Sources DEF PacketTraced, h
<1>7. /\ \A g \in App \ {h} : seats'[g] = seats[g]
      /\ DOMAIN seats'[h] = DOMAIN seats[h] \cup {id0}
      /\ seats'[h][id0] = s
      /\ \A id \in DOMAIN seats[h] \ {id0} : seats'[h][id] = seats[h][id]
  BY <1>1, <1>3 DEF Inv, SeatsFine, SeatsTyped, Extend
<1>8. AskedKept
  <2> SUFFICES ASSUME NEW b \in App, NEW g \in App, NEW r \in RequestId, Asked(b, r, g)'
               PROVE  Asked(b, r, g)
    BY DEF AskedKept
  <2>1. CASE \E q \in net' : q.type = "REQUEST" /\ q.from = b /\ q.to = g /\ q.req = r
    BY <1>4, <1>5, <2>1 DEF Asked
  <2>2. CASE \E q \in net' : q.type \in Answers /\ q.from = g /\ q.to = b /\ q.req = r
    BY <1>4, <1>5, <1>6, <2>2 DEF Asked
  <2>3. ASSUME NEW id \in DOMAIN seats'[g], seats'[g][id].addr = b, seats'[g][id].req = r
        PROVE  Asked(b, r, g)
    <3>1. CASE g = h /\ id = id0
      BY <1>4, <1>6, <1>7, <2>3, <3>1
    <3>2. CASE ~(g = h /\ id = id0)
      <4>1. id \in DOMAIN seats[g] /\ seats'[g][id] = seats[g][id]
        BY <1>7, <3>2
      <4> QED
        BY <2>3, <4>1 DEF Asked
    <3> QED
      BY <3>1, <3>2
  <2>4. CASE Linked(b)' /\ link'[b].to = g /\ link'[b].req = r
    BY <1>3, <2>4 DEF Asked, Linked
  <2> QED
    BY <2>1, <2>2, <2>3, <2>4 DEF Asked
<1>9. ASSUME NEW g \in App, NEW id \in ClientId, Known(g, id)'
      PROVE  Known(g, id) \/ (g = h /\ id = id0)
  <2>1. CASE \E i \in 1 .. Len(calls'[g]) : calls'[g][i] = Gone(id)
    BY <1>3, <2>1 DEF Known, Named
  <2>2. CASE \E q \in net' :
               /\ \/ q.type \in {"ACCEPT", "CLIENT_ACK", "HOST_REQUEST"} /\ q.from = g
                  \/ q.type \in {"CLIENT_REQUEST", "CLIENT_GAMEPACKET"} /\ q.to = g
               /\ q.id = id
    BY <1>4, <1>5, <2>2 DEF Known, Named
  <2>3. CASE \E b \in App : Linked(b)' /\ link'[b].to = g /\ link'[b].id = id
    BY <1>3, <2>3 DEF Known, Named, Linked
  <2>4. CASE id \in DOMAIN seats'[g]
    BY <1>7, <2>4 DEF Known
  <2> QED
    BY <1>9, <2>1, <2>2, <2>3, <2>4 DEF Known, Named
<1>10. \A b \in App : Left(b)' = Left(b)
  BY <1>3 DEF Left, Waiting
<1>11. OneHost' /\ Used' /\ Budget' /\ ActsTyped'
  BY <1>3, <1>8, <1>10 DEF IdsInv, AskedKept, OneHost, Used, Budget, ActsTyped
<1>12. IdsGiven'
  <2> SUFFICES ASSUME NEW g \in App, NEW id \in ClientId, Known(g, id)'
               PROVE  \/ FirstId + IdCount < nextId'[g]
                      \/ \E k \in FirstId .. (nextId'[g] - 1) : id = k % IdCount
    BY DEF IdsGiven, Given
  <2>1. /\ nextId \in [App -> Nat] /\ FirstId \in Nat /\ IdCount \in Nat
        /\ nextId'[h] = nextId[h] + 1 /\ \A b \in App \ {h} : nextId'[b] = nextId[b]
    BY <1>1, <1>3, IdAssumption DEF Inv, CountersTyped
  <2>2. CASE g = h /\ ~FirstRound(h)
    BY <1>1, <2>1, <2>2 DEF FirstRound
  <2>3. CASE g = h /\ id = id0 /\ FirstRound(h)
    <3>1. nextId[h] \in FirstId .. (nextId'[h] - 1)
      BY <1>1, <1>2, <2>1
    <3> QED
      BY <1>2, <2>3, <3>1
  <2>4. CASE Known(g, id)
    <3>1. \/ FirstId + IdCount < nextId[g]
          \/ \E k \in FirstId .. (nextId[g] - 1) : id = k % IdCount
      BY <2>4 DEF IdsInv, IdsGiven, Given
    <3>2. nextId[g] \in Nat /\ (nextId'[g] = nextId[g] + 1 \/ nextId'[g] = nextId[g])
      BY <2>1
    <3>3. FirstId .. (nextId[g] - 1) \subseteq FirstId .. (nextId'[g] - 1)
      BY <2>1, <3>2
    <3>4. FirstId + IdCount < nextId[g] => FirstId + IdCount < nextId'[g]
      BY <2>1, <3>2
    <3> QED
      BY <3>1, <3>3, <3>4
  <2> QED
    BY <1>9, <2>2, <2>3, <2>4
<1>13. FreshSeats
  <2> SUFFICES ASSUME NEW g \in App, NEW id \in DOMAIN seats'[g]
               PROVE  IF id \in DOMAIN seats[g]
                        THEN seats'[g][id].addr = seats[g][id].addr
                        ELSE FirstRound(g) => ~Named(g, id)
    BY DEF FreshSeats
  <2>1. CASE id \in DOMAIN seats[g]
    <3>1. seats'[g][id] = seats[g][id]
      BY <1>2, <1>7, <2>1
    <3> QED
      BY <2>1, <3>1
  <2>2. CASE id \notin DOMAIN seats[g]
    <3>1. g = h /\ id = id0
      BY <1>7, <2>2
    <3> QED
      BY <1>2, <2>2, <3>1 DEF Known
  <2> QED
    BY <2>1, <2>2
<1> QED
  BY <1>11, <1>12, <1>13 DEF IdsInv

LEMMA QuietIds ==
  ASSUME Inv, IdsInv, Quiet
  PROVE  IdsInv' /\ FreshSeats
<1>1. AskedKept /\ KnownKept /\ Onward /\ UNCHANGED nextReq /\ ActsTyped'
  BY TracedKeeps DEF Quiet
<1>2. OneHost'
  BY <1>1 DEF IdsInv, OneHost, AskedKept
<1>3. \A a \in App : /\ Left(a)' <= Left(a) /\ Left(a) \in Nat /\ Left(a)' \in Nat
                     /\ nextReq[a] \in Nat /\ nextReq'[a] = nextReq[a]
  BY <1>1, IdAssumption DEF Quiet, Spare, Inv, CountersTyped, RequestId
<1>4. Used'
  <2> SUFFICES ASSUME NEW a \in App, NEW h \in App, NEW r \in RequestId, Asked(a, r, h)'
               PROVE  r < nextReq'[a] \/ Left(a)' = 0
    BY DEF Used
  <2>1. r < nextReq[a] \/ Left(a) = 0
    BY <1>1 DEF AskedKept, IdsInv, Used
  <2> QED
    BY <1>3, <2>1
<1>5. Budget'
  <2> SUFFICES ASSUME NEW a \in App
               PROVE  nextReq'[a] + Left(a)' <= ReqCount \/ Left(a)' = 0
    BY DEF Budget
  <2>1. nextReq[a] + Left(a) <= ReqCount \/ Left(a) = 0
    BY DEF IdsInv, Budget
  <2> QED
    BY <1>3, <2>1, IdAssumption
<1>6. IdsGiven'
  <2> SUFFICES ASSUME NEW h \in App, NEW id \in ClientId, Known(h, id)'
               PROVE  \/ FirstId + IdCount < nextId'[h]
                      \/ \E k \in FirstId .. (nextId'[h] - 1) : id = k % IdCount
    BY DEF IdsGiven, Given
  <2>1. \/ FirstId + IdCount < nextId[h]
        \/ \E k \in FirstId .. (nextId[h] - 1) : id = k % IdCount
    BY <1>1 DEF KnownKept, IdsInv, IdsGiven, Given
  <2>2. nextId[h] \in Nat /\ nextId'[h] \in Nat /\ nextId[h] <= nextId'[h]
    BY <1>1 DEF Onward
  <2>3. FirstId .. (nextId[h] - 1) \subseteq FirstId .. (nextId'[h] - 1)
    BY <2>2, IdAssumption
  <2>4. FirstId + IdCount < nextId[h] => FirstId + IdCount < nextId'[h]
    BY <2>2, IdAssumption
  <2> QED
    BY <2>1, <2>3, <2>4
<1>7. FreshSeats
  BY DEF FreshSeats, Quiet, Traced, SeatTraced
<1> QED
  BY <1>1, <1>2, <1>4, <1>5, <1>6, <1>7 DEF IdsInv

-----------------------------------------------------------------------------
(* The theorems.                                                           *)

LEMMA IdsInit == Init => IdsInv
<1> SUFFICES ASSUME Init PROVE IdsInv
  OBVIOUS
<1>1. /\ net = {} /\ link = [a \in App |-> NoLink] /\ seats = [a \in App |-> NoSeats]
      /\ calls = [a \in App |-> <<>>] /\ acts = MaxActs /\ nextReq = [a \in App |-> 0]
      /\ DOMAIN NoSeats = {}
  BY DEF Init, NoSeats
<1>2. \A a, h \in App : \A r \in RequestId : ~Asked(a, r, h)
  BY <1>1 DEF Asked, Linked
<1>3. \A h \in App : \A id \in ClientId : ~Known(h, id)
  BY <1>1 DEF Known, Named, Linked
<1>4. \A a \in App : MaxActs[a] \in 0 .. ReqCount
  BY IdAssumption
<1>5. ActsTyped
  BY <1>1, IdAssumption DEF ActsTyped
<1>6. ASSUME NEW a \in App
      PROVE  nextReq[a] + Left(a) <= ReqCount
  <2>1. Waiting(a) = {}
    BY <1>1 DEF Waiting
  <2>2. Left(a) = MaxActs[a] + 0
    BY <1>1, <2>1, FS_EmptySet DEF Left
  <2> QED
    BY <1>1, <1>4, <2>2, IdAssumption
<1> QED
  BY <1>2, <1>3, <1>5, <1>6 DEF IdsInv, OneHost, Used, Budget, IdsGiven

LEMMA IdsStep ==
  ASSUME Inv, IdsInv, [Next]_vars
  PROVE  IdsInv' /\ FreshSeats
<1>1. CASE Quiet
  BY <1>1, QuietIds
<1>2. ASSUME NEW a \in App, RunConnect(a)
      PROVE  IdsInv' /\ FreshSeats
  <2>1. FreshSeats
    <3>1. seats' = [seats EXCEPT ![a] = NoSeats] /\ DOMAIN NoSeats = {}
      BY <1>2 DEF RunConnect, NoSeats
    <3>2. seats'[a] = NoSeats /\ \A h \in App \ {a} : seats'[h] = seats[h]
      BY <3>1 DEF Inv, SeatsFine, SeatsTyped
    <3> QED
      BY <3>1, <3>2 DEF FreshSeats
  <2> QED
    BY <1>2, <2>1, RunConnectIds
<1>3. ASSUME NEW p \in net, NEW again \in BOOLEAN, p.type = "REQUEST",
             FreeTries(p.to) # {}, AcceptNew(p.to, p, again)
      PROVE  IdsInv' /\ FreshSeats
  BY <1>3, AcceptNewIds
<1> QED
  BY <1>1, <1>2, <1>3, AllButTwo DEF IdsInv

LEMMA IdsInvariant == Spec => [](Inv /\ IdsInv)
<1>1. Inv /\ IdsInv /\ [Next]_vars => (Inv /\ IdsInv)'
  BY IdsStep, InvStep
<1> QED
  BY <1>1, InvInit, IdsInit, PTL DEF Spec

\* A link never acts on what another host answered to an earlier request of the
\* same app, though only the request id tells the two apart.
THEOREM PartyAnswers == Spec => []AnswersAreMine
<1>1. Inv /\ IdsInv => AnswersAreMine
  BY Mine DEF AnswersAreMine, Answers, IdsInv
<1> QED
  BY <1>1, IdsInvariant, PTL

\* In the first round the client id of a new seat is nowhere in use: no call will
\* free the seat, no packet is for it, and no link takes it for its own.
THEOREM PartyFreshIds == Spec => FreshIds
<1>1. Inv /\ IdsInv /\ [Next]_vars =>
        [\A h \in App : FirstRound(h) =>
           \A id \in DOMAIN seats'[h] \ DOMAIN seats[h] : ~Named(h, id)]_vars
  BY IdsStep DEF FreshSeats
<1> QED
  BY <1>1, IdsInvariant, PTL DEF Spec, FreshIds

\* Though the counter comes round, a seat is never taken over by a newcomer: as
\* long as it is there it is the same client's.
SeatsStand ==
  [][\A h \in App : \A id \in DOMAIN seats[h] \cap DOMAIN seats'[h] :
       seats'[h][id].addr = seats[h][id].addr]_vars

\* A newcomer gets no id that a client still has, in any round of the counter.
THEOREM PartySeatsStand == Spec => SeatsStand
<1>1. Inv /\ IdsInv /\ [Next]_vars =>
        [\A h \in App : \A id \in DOMAIN seats[h] \cap DOMAIN seats'[h] :
           seats'[h][id].addr = seats[h][id].addr]_vars
  BY IdsStep DEF FreshSeats
<1> QED
  BY <1>1, IdsInvariant, PTL DEF Spec, SeatsStand

=============================================================================
