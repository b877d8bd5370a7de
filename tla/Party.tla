------------------------------- MODULE Party -------------------------------
(***************************************************************************)
(* How players join and leave a party over UDP: class ConnectionSet with   *)
(* ConnectionToHostUDP and ConnectionToClientUDP, the two kinds of         *)
(* connection it keeps (scene_v1/connection/).  Every app runs the same    *)
(* code: it may have a link to a host, or seats for the clients of its     *)
(* own party.                                                              *)
(*                                                                         *)
(* A link is told apart by its request id, which its app chose; a seat by  *)
(* its client id, which the host chose.  An app also has an instance uuid  *)
(* and an address: both are the app itself here.                           *)
(*                                                                         *)
(* What either connection does once it can communicate is module           *)
(* Connection; here its traffic is "data", and the Error it may raise a    *)
(* choice.  Time: "silent" says that no game packet has arrived for as     *)
(* long as the timeout (5 s before, 10 s after it can communicate); what   *)
(* is sent again at intervals is sent in every Update.                     *)
(***************************************************************************)
EXTENDS Integers, Sequences, FiniteSets

CONSTANTS
  App,      \* the running programs
  Hosts,    \* for each app, the apps whose party it may join
  NoLink,   \* the null reference for connection_to_host_
  MaxSize,  \* public_party_max_size_ of every app
  IdCount,  \* number of client ids (255)
  FirstId,  \* where every app starts to give them out (113)
  ReqCount, \* number of request ids (256: the counter is a uint8_t)
  MaxActs,  \* bound: calls that each app's Python code makes
  MaxSeats, \* bound: seats each app ever gives out
  MaxCalls, \* bound: calls waiting in each event loop when one more is pushed
  NetCap    \* bound: packets under way

ClientId == 0 .. (IdCount - 1)
NoId == -1

ASSUME AppAssumption == Hosts \in [App -> SUBSET App] /\ \A a \in App : a \notin Hosts[a]

\* No request id comes round within the bounds: the code counts to 256.  Client
\* ids do: a host may give out more seats than it has ids.
ASSUME IdAssumption ==
  /\ MaxSize \in Nat
  /\ IdCount \in Nat \ {0}
  /\ FirstId \in Nat
  /\ ReqCount \in Nat \ {0}
  /\ MaxActs \in [App -> 0 .. ReqCount]
  /\ MaxSeats \in [App -> Nat]
  /\ MaxCalls \in [App -> Nat]
  /\ NetCap \in Nat

VARIABLES
  link,     \* connection_to_host_ of each app
  seats,    \* connections_to_clients_ of each app: client id -> connection
  nextId,   \* next_connection_to_client_id_
  nextReq,  \* the static next_request_id of GetRequestID_
  calls,    \* runnables of this class that wait in the logic event loop
  net,      \* packets under way
  acts,     \* calls left to each app's Python code
  joined    \* history: <<app, host>> of each link that came to communicate

counters == <<nextId, nextReq>>
history == <<acts, joined>>
vars == <<link, seats, nextId, nextReq, calls, net, acts, joined>>

Linked(a) == link[a] # NoLink

-----------------------------------------------------------------------------
(* Connections and packets.                                                *)

NewLink(h, req) ==
  [to |-> h, req |-> req, id |-> NoId,
   can |-> FALSE, errored |-> FALSE, died |-> FALSE, silent |-> FALSE]

NewSeat(a, req) ==
  [addr |-> a, req |-> req,
   can |-> FALSE, errored |-> FALSE, died |-> FALSE, silent |-> FALSE]

Request(a, l) == [type |-> "REQUEST", from |-> a, to |-> l.to, req |-> l.req]
Accept(h, a, req, id) ==
  [type |-> "ACCEPT", from |-> h, to |-> a, req |-> req, id |-> id]
Deny(h, a, req, why) ==
  [type |-> "DENY", from |-> h, to |-> a, req |-> req, why |-> why]
DisconnectAck(h, a, id) ==
  [type |-> "CLIENT_ACK", from |-> h, to |-> a, id |-> id]

\* Without a client id, ConnectionToHostUDP sends no disconnect request, and
\* its game packets carry 255, which is nobody's id.
LinkSends(a, l, type, body) ==
  IF l.id = NoId THEN {}
    ELSE {[type |-> type, from |-> a, to |-> l.to, id |-> l.id, body |-> body]}

DisconnectFromClient(a, l) == LinkSends(a, l, "CLIENT_REQUEST", "disconnect")
ClientGame(a, l, body) == LinkSends(a, l, "CLIENT_GAMEPACKET", body)

DisconnectFromHost(h, s, id) ==
  [type |-> "HOST_REQUEST", from |-> h, to |-> s.addr, id |-> id]

HostGame(h, s, body) ==
  [type |-> "HOST_GAMEPACKET", from |-> h, to |-> s.addr, req |-> s.req,
   body |-> body]

\* Any of the packets that are sent may get lost.
Transmit(underWay, packets) ==
  \E kept \in SUBSET packets :
    /\ net' = underWay \cup kept
    /\ Cardinality(net') <= NetCap

\* A packet that is handled may arrive again.
Rest(p, again) == IF again THEN net ELSE net \ {p}

Push(a, call) ==
  /\ Len(calls[a]) < MaxCalls[a]
  /\ calls' = [calls EXCEPT ![a] = Append(@, call)]

Connect(h) == [op |-> "connect", to |-> h]
Leave == [op |-> "leave"]
Clear == [op |-> "clear"]
Gone(id) == [op |-> "gone", id |-> id]

Remove(f, id) == [x \in DOMAIN f \ {id} |-> f[x]]
Extend(f, id, s) == [x \in DOMAIN f \cup {id} |-> IF x = id THEN s ELSE f[x]]

NoSeats == [x \in {} |-> x]

Init ==
  /\ link = [a \in App |-> NoLink]
  /\ seats = [a \in App |-> NoSeats]
  /\ nextId = [a \in App |-> FirstId]
  /\ nextReq = [a \in App |-> 0]
  /\ calls = [a \in App |-> <<>>]
  /\ net = {}
  /\ acts = MaxActs
  /\ joined = {}

-----------------------------------------------------------------------------
(* What Python asks for.                                                   *)

Act(a) ==
  /\ acts[a] > 0
  /\ acts' = [acts EXCEPT ![a] = @ - 1]
  /\ UNCHANGED <<counters, joined>>

ConnectToParty(a, h) ==
  /\ Act(a)
  /\ Push(a, Connect(h))
  /\ UNCHANGED <<link, seats, net>>

\* Nothing keeps the user from asking when there is no link.
DisconnectFromParty(a) ==
  /\ Act(a)
  /\ Hosts[a] # {}
  /\ Push(a, Leave)
  /\ UNCHANGED <<link, seats, net>>

\* A host throws a client out.  (With a link it sends a vote instead.)
DisconnectClient(h, id) ==
  /\ Act(h)
  /\ ~Linked(h)
  /\ seats' = [seats EXCEPT ![h][id].errored = TRUE]
  /\ Transmit(net, {DisconnectFromHost(h, seats[h][id], id)})
  /\ Push(h, Gone(id))
  /\ UNCHANGED link

\* LaunchHostSession drops a link on the spot.
PrepareForLaunchHostSession(a) ==
  /\ Act(a)
  /\ Linked(a)
  /\ Transmit(net, DisconnectFromClient(a, link[a]))
  /\ link' = [link EXCEPT ![a] = NoLink]
  /\ UNCHANGED <<seats, calls>>

-----------------------------------------------------------------------------
(* Calls that the event loop runs, in order.                               *)

TakeCall(a, op) ==
  /\ calls[a] # <<>>
  /\ Head(calls[a]).op = op
  /\ calls' = [calls EXCEPT ![a] = Tail(@)]
  /\ UNCHANGED <<nextId, history>>

\* Mutant: the counter behind request ids stands still.
SameRequestId(req) == req

\* GetRequestID_
NextRequestId(req) == (req + 1) % ReqCount

\* CleanUpBeforeConnectingToHost tells every client once and forgets it.  A
\* link that is there already is replaced without a word to its host.
RunConnect(a) ==
  LET h == Head(calls[a]).to
  IN /\ TakeCall(a, "connect")
     /\ Transmit(net, {DisconnectFromHost(a, seats[a][id], id) :
                         id \in DOMAIN seats[a]})
     /\ seats' = [seats EXCEPT ![a] = NoSeats]
     /\ link' = [link EXCEPT ![a] = NewLink(h, nextReq[a])]
     /\ nextReq' = [nextReq EXCEPT ![a] = NextRequestId(@)]

RunLeave(a) ==
  /\ TakeCall(a, "leave")
  /\ IF Linked(a)
       THEN /\ link' = [link EXCEPT ![a].errored = TRUE]
            /\ Transmit(net, DisconnectFromClient(a, link[a]))
       ELSE UNCHANGED <<link, net>>
  /\ UNCHANGED <<seats, nextReq>>

\* Whatever link is there when the call runs is the one that goes.
RunClear(a) ==
  /\ TakeCall(a, "clear")
  /\ link' = [link EXCEPT ![a] = NoLink]
  /\ UNCHANGED <<seats, nextReq, net>>

RunGone(a) ==
  /\ TakeCall(a, "gone")
  /\ seats' = [seats EXCEPT ![a] = Remove(@, Head(calls[a]).id)]
  /\ UNCHANGED <<link, nextReq, net>>

RunCall(a) == RunConnect(a) \/ RunLeave(a) \/ RunClear(a) \/ RunGone(a)

-----------------------------------------------------------------------------
(* Update and the timeouts.                                                *)

\* Environment assumption: no packet lives as long as the timeouts (5 s), so
\* what would have broken the silence is gone.  What is sent just now is as
\* good as sent right after this step.
LinkSilence(a) ==
  /\ Linked(a)
  /\ ~\E p \in net : p.type = "HOST_GAMEPACKET" /\ p.to = a /\ p.req = link[a].req
  /\ link' = [link EXCEPT ![a].silent = TRUE]
  /\ UNCHANGED <<seats, counters, calls, net, history>>

SeatSilence(h, id) ==
  /\ ~\E p \in net : p.type = "CLIENT_GAMEPACKET" /\ p.to = h /\ p.id = id
  /\ seats' = [seats EXCEPT ![h][id].silent = TRUE]
  /\ UNCHANGED <<link, counters, calls, net, history>>

\* Mutant: a link that errored waits for its host for ever.
DiesIfWell(l) == (l.silent /\ ~l.errored) \/ (l.errored /\ l.id = NoId)

\* Silence, or an Error before the host has given us an id to leave with.
Dies(l) == l.silent \/ (l.errored /\ l.id = NoId)

UpdateSends(a, l) ==
  (IF l.can THEN ClientGame(a, l, "data") ELSE {})
    \cup (IF ~l.errored /\ l.id = NoId THEN {Request(a, l)} ELSE {})
    \cup (IF l.errored /\ ~l.silent THEN DisconnectFromClient(a, l) ELSE {})

UpdateLink(a) ==
  LET l == link[a]
  IN /\ Linked(a)
     /\ Transmit(net, UpdateSends(a, l))
     /\ link' = [link EXCEPT ![a].died = @ \/ Dies(l)]
     /\ IF Dies(l) /\ ~l.died THEN Push(a, Clear) ELSE UNCHANGED calls
     /\ UNCHANGED <<seats, counters, history>>

\* Mutant: only the handshake is guarded by a timeout.
SeatDiesEarly(s) == s.silent /\ ~s.can

SeatDies(s) == s.silent

UpdateSeat(h, id) ==
  LET s == seats[h][id]
  IN /\ Transmit(net, {HostGame(h, s, IF s.can THEN "data" ELSE "handshake")})
     /\ seats' = [seats EXCEPT ![h][id].died = @ \/ SeatDies(s)]
     /\ IF SeatDies(s) /\ ~s.died THEN Push(h, Gone(id)) ELSE UNCHANGED calls
     /\ UNCHANGED <<link, counters, history>>

-----------------------------------------------------------------------------
(* Packets that reach a host.                                              *)

\* We count ourself as well.
Full(h) == Cardinality(DOMAIN seats[h]) + 1 >= MaxSize

\* Mutant: requests are told apart by their request id.
SeatsForRequest(h, p) == {id \in DOMAIN seats[h] : seats[h][id].req = p.req}

\* By the instance uuid, so that a client that asks again keeps its seat.
SeatsOf(h, p) == {id \in DOMAIN seats[h] : seats[h][id].addr = p.from}

FreeTries(h) ==
  {i \in 0 .. IdCount : (nextId[h] + i) % IdCount \notin DOMAIN seats[h]}

\* Mutant: a free id, without the turn they are given out in.
AnyFreeId(h) == CHOOSE id \in ClientId : id \notin DOMAIN seats[h]

\* Mutant: ids do not start again at 0.
FreeIdUnwrapped(h) ==
  nextId[h] + (CHOOSE i \in FreeTries(h) : \A j \in FreeTries(h) : i <= j)

\* The first free id from the counter on.  The counter itself goes on by one
\* only, past what was skipped or not: an id that was given ahead of its turn
\* has its turn again right afterwards.
FreeId(h) ==
  (nextId[h] + (CHOOSE i \in FreeTries(h) : \A j \in FreeTries(h) : i <= j)) % IdCount

Refuse(h, p, again, why) ==
  /\ Transmit(Rest(p, again), {Deny(h, p.from, p.req, why)})
  /\ UNCHANGED <<link, seats, counters, calls, history>>

AcceptOld(h, p, again) ==
  /\ \E id \in SeatsOf(h, p) :
       Transmit(Rest(p, again), {Accept(h, p.from, p.req, id)})
  /\ UNCHANGED <<link, seats, counters, calls, history>>

AcceptNew(h, p, again) ==
  /\ SeatsOf(h, p) = {}
  /\ nextId[h] < FirstId + MaxSeats[h]
  /\ nextId' = [nextId EXCEPT ![h] = @ + 1]
  /\ IF FreeTries(h) = {}
       THEN /\ Transmit(Rest(p, again), {Deny(h, p.from, p.req, "slots")})
            /\ UNCHANGED seats
       ELSE LET id == FreeId(h) IN
            /\ seats' = [seats EXCEPT ![h] = Extend(@, id, NewSeat(p.from, p.req))]
            /\ Transmit(Rest(p, again), {Accept(h, p.from, p.req, id)})
  /\ UNCHANGED <<link, nextReq, calls, history>>

\* The party's size is looked at first, then our own link, then who asks.
ReceiveRequest(p, again) ==
  LET h == p.to
  IN /\ p.type = "REQUEST"
     /\ \/ Full(h) /\ Refuse(h, p, again, "full")
        \/ ~Full(h) /\ Linked(h) /\ Refuse(h, p, again, "elsewhere")
        \/ /\ ~Full(h) /\ ~Linked(h)
           /\ AcceptOld(h, p, again) \/ AcceptNew(h, p, again)

\* VerifyClientAddr, which also fails for an id that is not in use.
Verified(p) ==
  p.id \in DOMAIN seats[p.to] /\ seats[p.to][p.id].addr = p.from

ReceiveDisconnectFromClient(p, again) ==
  /\ p.type = "CLIENT_REQUEST"
  /\ Verified(p)
  /\ Push(p.to, Gone(p.id))
  /\ Transmit(Rest(p, again), {DisconnectAck(p.to, p.from, p.id)})
  /\ UNCHANGED <<link, seats, counters, history>>

\* Mutant: the version in a response is not compared with ours.
WelcomeAll(s, p, fault) == ~s.errored /\ ~fault /\ p.body # "data"

\* A response is checked (version, bans) before we can communicate.
Welcome(s, p, fault) == ~s.errored /\ ~fault /\ p.body = "response"

\* Error: the check fails, or data that counts, now that we can communicate.
Faulty(s, p, fault) ==
  ~s.errored /\ (p.body = "mismatch" \/ (fault /\ (p.body = "response" \/ s.can)))

\* What a game packet makes of a seat.
Heard(s, p, fault) ==
  [s EXCEPT !.silent = FALSE,
            !.can = @ \/ Welcome(s, p, fault),
            !.errored = @ \/ Faulty(s, p, fault)]

\* A seat that errored answers everything by telling the client to go.
ReceiveClientGame(p, again) ==
  LET h == p.to
      s == seats[h][p.id]
  IN /\ p.type = "CLIENT_GAMEPACKET"
     /\ Verified(p)
     /\ \E fault \in BOOLEAN : seats' = [seats EXCEPT ![h][p.id] = Heard(s, p, fault)]
     /\ Transmit(Rest(p, again),
                 IF s.errored THEN {HostGame(h, s, "disconnect")} ELSE {})
     /\ UNCHANGED <<link, counters, calls, history>>

-----------------------------------------------------------------------------
(* Packets that reach a client.                                            *)

\* Answers name the request; what is about a seat names the client id.  Where
\* a packet comes from is not looked at.
ForMyRequest(p) == Linked(p.to) /\ link[p.to].req = p.req
ForMyId(p) == Linked(p.to) /\ link[p.to].id = p.id

ReceiveAccept(p, again) ==
  /\ p.type = "ACCEPT"
  /\ ForMyRequest(p)
  /\ net' = Rest(p, again)
  /\ link' = [link EXCEPT ![p.to].id = p.id]
  /\ UNCHANGED <<seats, counters, calls, history>>

ReceiveDeny(p, again) ==
  /\ p.type = "DENY"
  /\ ForMyRequest(p)
  /\ net' = Rest(p, again)
  /\ Push(p.to, Clear)
  /\ UNCHANGED <<link, seats, counters, history>>

\* The host has let us go, or tells us to.
ReceiveDisconnect(p, again) ==
  /\ p.type \in {"CLIENT_ACK", "HOST_REQUEST"}
  /\ ForMyId(p)
  /\ net' = Rest(p, again)
  /\ Push(p.to, Clear)
  /\ UNCHANGED <<link, seats, counters, history>>

\* ConnectionToHostUDP::Error, on a link that has not errored before: a host
\* that gave us an id is told, otherwise we die at once.
LinkError(a, l, underWay, packets) ==
  /\ link' = [link EXCEPT ![a] =
                [l EXCEPT !.errored = TRUE, !.died = @ \/ l.id = NoId]]
  /\ Transmit(underWay, packets \cup DisconnectFromClient(a, l))
  /\ IF l.id = NoId /\ ~l.died THEN Push(a, Clear) ELSE UNCHANGED calls

\* A handshake is answered each time it comes, with our version if we do not
\* know theirs.  A link that errored only notices that the host is there.
ReceiveHostGame(p, again) ==
  LET a == p.to
      l == [link[a] EXCEPT !.silent = FALSE]
      Replies(body) == IF p.body = "handshake" THEN ClientGame(a, l, body) ELSE {}
      Ignored == l.errored \/ (p.body = "data" /\ ~l.can)
  IN /\ p.type = "HOST_GAMEPACKET"
     /\ ForMyRequest(p)
     /\ \/ /\ Ignored
           /\ link' = [link EXCEPT ![a] = l]
           /\ net' = Rest(p, again)
           /\ UNCHANGED <<calls, joined>>
        \/ /\ ~Ignored
           /\ LinkError(a, l, Rest(p, again), Replies("mismatch"))
           /\ UNCHANGED joined
        \/ /\ ~Ignored
           /\ p.body # "disconnect"
           /\ link' = [link EXCEPT ![a] = [l EXCEPT !.can = TRUE]]
           /\ joined' = joined \cup {<<a, l.to>>}
           /\ Transmit(Rest(p, again), Replies("response"))
           /\ UNCHANGED calls
     /\ UNCHANGED <<seats, counters, acts>>

\* What is not for anyone is dropped without an answer.
Unwanted(p) ==
  \/ p.type \in {"CLIENT_REQUEST", "CLIENT_GAMEPACKET"} /\ ~Verified(p)
  \/ p.type \in {"ACCEPT", "DENY", "HOST_GAMEPACKET"} /\ ~ForMyRequest(p)
  \/ p.type \in {"CLIENT_ACK", "HOST_REQUEST"} /\ ~ForMyId(p)

Drop(p, again) ==
  /\ Unwanted(p)
  /\ net' = Rest(p, again)
  /\ UNCHANGED <<link, seats, counters, calls, history>>

Receive(p, again) ==
  \/ ReceiveRequest(p, again)
  \/ ReceiveDisconnectFromClient(p, again)
  \/ ReceiveClientGame(p, again)
  \/ ReceiveAccept(p, again)
  \/ ReceiveDeny(p, again)
  \/ ReceiveDisconnect(p, again)
  \/ ReceiveHostGame(p, again)
  \/ Drop(p, again)

-----------------------------------------------------------------------------
Next ==
  \/ \E a \in App :
       \/ \E h \in Hosts[a] : ConnectToParty(a, h)
       \/ DisconnectFromParty(a)
       \/ PrepareForLaunchHostSession(a)
       \/ \E id \in DOMAIN seats[a] :
            DisconnectClient(a, id) \/ UpdateSeat(a, id) \/ SeatSilence(a, id)
       \/ RunCall(a)
       \/ UpdateLink(a)
       \/ LinkSilence(a)
  \/ \E p \in net, again \in BOOLEAN : Receive(p, again)

Spec == Init /\ [][Next]_vars

Kinds == {"REQUEST", "ACCEPT", "DENY", "CLIENT_REQUEST", "CLIENT_ACK",
          "HOST_REQUEST", "CLIENT_GAMEPACKET", "HOST_GAMEPACKET"}

Arrives(kind, a) == \E p \in net : p.type = kind /\ p.to = a /\ Receive(p, FALSE)

\* The disconnect request that an errored link repeats gets under way.
AsksToLeave(a) ==
  /\ UpdateLink(a)
  /\ \E p \in net' \ net : p.type = "CLIENT_REQUEST"

\* The clock goes on, Update runs every frame, packets under way arrive and
\* what is sent again and again gets through.
FairSpec ==
  /\ Spec
  /\ \A a \in App :
       /\ WF_vars(RunCall(a))
       /\ WF_vars(UpdateLink(a))
       /\ WF_vars(LinkSilence(a))
       /\ WF_vars(\E id \in DOMAIN seats[a] : UpdateSeat(a, id))
       /\ WF_vars(\E id \in DOMAIN seats[a] : SeatSilence(a, id))
       /\ \A kind \in Kinds : WF_vars(Arrives(kind, a))
       /\ SF_vars(AsksToLeave(a))

-----------------------------------------------------------------------------
(* Properties.                                                             *)

Flags == [can : BOOLEAN, errored : BOOLEAN, died : BOOLEAN, silent : BOOLEAN]
FlagsOf(c) == [can |-> c.can, errored |-> c.errored, died |-> c.died, silent |-> c.silent]

\* Every variable holds values of its kind.
TypeOK ==
  /\ \A a \in App : Linked(a) =>
       /\ link[a].to \in Hosts[a]
       /\ link[a].req \in 0 .. (ReqCount - 1)
       /\ link[a].id \in ClientId \cup {NoId}
       /\ FlagsOf(link[a]) \in Flags
  /\ \A h \in App : DOMAIN seats[h] \subseteq ClientId
  /\ \A h \in App : \A id \in DOMAIN seats[h] :
       /\ seats[h][id].addr \in App
       /\ FlagsOf(seats[h][id]) \in Flags
  /\ \A h \in App : nextId[h] \in FirstId .. (FirstId + MaxSeats[h])
  /\ nextReq \in [App -> 0 .. (ReqCount - 1)]
  /\ \A a \in App : calls[a] \in Seq([op : {"connect"}, to : App]
                                      \cup [op : {"leave", "clear"}]
                                      \cup [op : {"gone"}, id : ClientId])

\* An answer under way that a link would take for its own comes from the host
\* that the link asked: request ids keep those of an earlier host apart.
AnswersAreMine ==
  \A p \in net :
    p.type \in {"ACCEPT", "DENY", "HOST_GAMEPACKET"} /\ ForMyRequest(p)
      => p.from = link[p.to].to

\* A client that the host counts as connected has been connected to it: some
\* link of that app to this host has come to communicate.
MembersJoined ==
  \A h \in App : \A id \in DOMAIN seats[h] :
    seats[h][id].can => <<seats[h][id].addr, h>> \in joined

\* A party is never larger than its limit, nobody sits in it twice, and an
\* app with a link has no party.
SeatsKept ==
  \A h \in App :
    /\ seats[h] # NoSeats => Cardinality(DOMAIN seats[h]) < MaxSize
    /\ \A id1, id2 \in DOMAIN seats[h] :
         seats[h][id1].addr = seats[h][id2].addr => id1 = id2
    /\ Linked(h) => seats[h] = NoSeats

\* Whatever still speaks of a client id of host h: a call that will free it, a
\* packet that names it, a link that believes to have it.
Named(h, id) ==
  \/ \E i \in 1 .. Len(calls[h]) : calls[h][i] = Gone(id)
  \/ \E p \in net :
       /\ \/ p.type \in {"ACCEPT", "CLIENT_ACK", "HOST_REQUEST"} /\ p.from = h
          \/ p.type \in {"CLIENT_REQUEST", "CLIENT_GAMEPACKET"} /\ p.to = h
       /\ p.id = id
  \/ \E a \in App : Linked(a) /\ link[a].to = h /\ link[a].id = id

\* The counter has not come round to an id that it has given out.
FirstRound(h) == nextId[h] < FirstId + IdCount

\* Until all ids were given out once, a new client gets an id that nothing left
\* over from an earlier client can free, address or end: not a call that waits,
\* nor a packet, nor a link.  Later an id may be given again while it is still
\* named, even in the very next seat.
FreshIds ==
  [][\A h \in App : FirstRound(h) =>
       \A id \in DOMAIN seats'[h] \ DOMAIN seats[h] : ~Named(h, id)]_vars

\* "Regardless of whether we already had a connection or not, tell them they're
\* accepted": who has a seat for a request is not refused when it is repeated.
AcceptedAgain ==
  [][\A p \in net' \ net :
       p.type = "DENY" =>
         \A id \in DOMAIN seats[p.from] :
           seats[p.from][id].addr = p.to => seats[p.from][id].req # p.req]_vars

\* A link that errored, or that its user wants to leave, does not stay: the
\* disconnect requests end it, or the silence after the host has obeyed them.
LeaversGo ==
  \A a \in App, r \in 0 .. (ReqCount - 1) :
    LET Mine == Linked(a) /\ link[a].req = r
    IN (Mine /\ link[a].errored) ~> ~Mine

\* The client that a seat was made for has no link any more, or a later one.
Abandoned(h, id) ==
  LET a == seats[h][id].addr
  IN ~Linked(a) \/ link[a].to # h \/ link[a].req # seats[h][id].req

\* A seat whose client is gone is given up, even if nothing that the client
\* sent to say so has arrived, and though a later link of it may use its id.
NoGhosts ==
  \A h \in App, id \in ClientId :
    (id \in DOMAIN seats[h] /\ Abandoned(h, id)) ~> (id \notin DOMAIN seats[h])

=============================================================================
