-------------------------- MODULE SessionStreamProofs --------------------------
(***************************************************************************)
(* For any number of clients, changes, steps, joins and host sessions: the *)
(* lists of slots of a stream are right, and what is on its way to a       *)
(* client makes it what the host is, through the moments that it is owed.  *)
(***************************************************************************)
EXTENDS SessionStream, SequenceTheorems, FiniteSetTheorems, TLAPS

-----------------------------------------------------------------------------
(* Types.                                                                  *)

Ref == Slot \cup {None}
Obj == [what : Nat, in : Ref, ref : Ref]
Objs == UNION {[D -> Obj] : D \in SUBSET Slot}
Named == [slot : Slot, what : Nat]

Cmd ==
  [type : {"add"}, slot : Slot, object : Obj]
    \cup [type : {"remove"}, slot : Slot]
    \cup [type : {"set"}, slot : Slot, ref : Ref]
    \cup [type : {"step"}, diff : 1 .. StepCap]
    \cup [type : {"correct"}, nodes : SUBSET Named]

Msg ==
  {ResetMsg}
    \cup [type : {"commands"}, cmds : Seq(Cmd)]
    \cup [type : {"correction"}, nodes : SUBSET Named]

Session ==
  [objs : Objs, cmds : Seq(Cmd), pending : Seq(Cmd), buffered : Nat,
   ended : BOOLEAN, mixed : BOOLEAN]

Owed == [moment : Objs] \cup {Cut}

-----------------------------------------------------------------------------
(* A play of commands that knows no time, no queue and no recovery: what a *)
(* client has, whether all was well, and the moments that it went through. *)

World == [ok : BOOLEAN, objs : Objs, owed : Seq(Owed)]

Fits(objs, c) ==
  CASE c.type = "add"     -> /\ Kind(c.slot) # "scene" => Has(objs, c.object.in)
                             /\ ~Has(objs, c.slot)
    [] c.type = "remove"  -> Has(objs, c.slot)
    [] c.type = "set"     -> Has(objs, c.slot) /\ (c.ref = None \/ Has(objs, c.ref))
    [] c.type = "correct" -> \A n \in c.nodes :
                               Has(objs, n.slot) /\ objs[n.slot].what = n.what
    [] OTHER              -> TRUE

Effect(objs, c) ==
  CASE c.type = "add"    -> Filled(objs, c.slot, c.object)
    [] c.type = "remove" -> Without(objs, {c.slot} \cup Nodes(objs, c.slot))
    [] c.type = "set"    -> [objs EXCEPT ![c.slot].ref = c.ref]
    [] c.type = "reset"  -> NoObjects
    [] OTHER             -> objs

Owes(objs, c) ==
  CASE c.type = "step"  -> <<Moment(objs)>>
    [] c.type = "reset" -> <<Cut>>
    [] OTHER            -> <<>>

Play(w, c) ==
  IF w.ok /\ Fits(w.objs, c)
    THEN [ok |-> TRUE, objs |-> Effect(w.objs, c),
          owed |-> w.owed \o Owes(w.objs, c)]
    ELSE [ok |-> FALSE, objs |-> w.objs, owed |-> w.owed]

Playing == INSTANCE FoldProofs WITH Op <- Play

\* A message by message.
Items(m) ==
  CASE m.type = "reset"      -> <<ResetMsg>>
    [] m.type = "commands"   -> m.cmds
    [] m.type = "correction" -> <<CorrectCmd(m.nodes)>>

PlayMsg(w, m) == Playing!Fold(w, Items(m))

Hearing == INSTANCE FoldProofs WITH Op <- PlayMsg

\* The time of the steps among some commands.
AddDiff(n, c) == IF c.type = "step" THEN n + c.diff ELSE n

Timing == INSTANCE FoldProofs WITH Op <- AddDiff

Time(cmds) == Timing!Fold(0, cmds)

-----------------------------------------------------------------------------
(* The inductive invariant.                                                *)

NoSteps(cmds) == \A i \in 1 .. Len(cmds) : cmds[i].type # "step"

\* Whole moments wait, and the start of one, with the time of those that wait.
Good(s) ==
  /\ s \in Session
  /\ s.cmds # <<>> => s.cmds[Len(s.cmds)].type = "step"
  /\ NoSteps(s.pending)
  /\ s.buffered = Time(s.cmds)

Begin(s, owed) == [ok |-> ~s.ended /\ ~s.mixed, objs |-> s.objs, owed |-> owed]

\* What comes of a session when it has run what it has.
Outcome(s, owed) == Playing!Fold(Begin(s, owed), s.cmds \o s.pending)

\* ... and heard what is on its way, up to what the host has written.
Fate(c) ==
  Playing!Fold(Hearing!Fold(Outcome(session[c], <<>>), channel[c]),
               IF c \in clients THEN host.out ELSE <<>>)

\* What the host has in its slots.
Home(objs, slot) ==
  /\ objs[slot].ref # None => Kind(slot) = "node"
  /\ Kind(slot) # "scene" => /\ objs[slot].in \in DOMAIN objs
                             /\ Kind(objs[slot].in) = "scene"
  /\ objs[slot].ref # None => /\ objs[slot].ref \in DOMAIN objs
                              /\ Kind(objs[slot].ref) # "scene"
                              /\ objs[objs[slot].ref].in = objs[slot].in

Homes(objs) == \A slot \in DOMAIN objs : Home(objs, slot)

\* The lists of slots.
Used(h, k) == {slot[2] : slot \in OfKind(h.objs, k)}
Free(h, k) == {h.free[k][i] : i \in DOMAIN h.free[k]}

Lists(h) ==
  /\ h.size \in [Kinds -> Nat]
  /\ h.free \in [Kinds -> Seq(Nat)]
  /\ \A k \in Kinds :
       /\ h.size[k] <= MaxIndex[k] + 1
       /\ Used(h, k) \cup Free(h, k) = 0 .. (h.size[k] - 1)
       /\ Used(h, k) \cap Free(h, k) = {}
       /\ \A i, j \in DOMAIN h.free[k] : h.free[k][i] = h.free[k][j] => i = j

Shape(h) ==
  h = [objs |-> h.objs, owner |-> h.owner, size |-> h.size,
       free |-> h.free, out |-> h.out]

HostOK(h) ==
  /\ Shape(h)
  /\ h.objs \in Objs
  /\ IsFiniteSet(DOMAIN h.objs)
  /\ Homes(h.objs)
  /\ Lists(h)
  /\ h.out \in Seq(Cmd)

Typed ==
  /\ made \in Nat
  /\ \A slot \in DOMAIN host.objs : host.objs[slot].what \in 1 .. made
  /\ clients \subseteq Client
  /\ channel \in [Client -> Seq(Msg)]
  /\ session \in [Client -> Session]
  /\ promised \in [Client -> Seq(Owed)]

Waits(c) ==
  /\ Good(session[c])
  /\ c \notin clients => /\ channel[c] = <<>>
                         /\ session[c] = NewClientSession
                         /\ promised[c] = <<>>

\* All is well on the way, and leads to where the host is.
Arrives(c) ==
  /\ Fate(c).ok
  /\ Fate(c).owed = promised[c]
  /\ c \in clients => Fate(c).objs = host.objs

IInv ==
  /\ Typed
  /\ HostOK(host)
  /\ \A c \in Client : Waits(c) /\ Arrives(c)

-----------------------------------------------------------------------------
(* Induction over sequences, for properties that are sets.                 *)

LEMMA SequenceInduction ==
  ASSUME NEW S, NEW T, <<>> \in T,
         \A p \in Seq(S), x \in S : p \in T => Append(p, x) \in T
  PROVE  \A seq \in Seq(S) : seq \in T
<1> SUFFICES ASSUME NEW seq \in Seq(S) PROVE seq \in T
  OBVIOUS
<1> DEFINE n == Len(seq)
           U == {i \in 0 .. n : SubSeq(seq, 1, i) \in T}
<1>1. n \in Nat
  BY LenProperties
<1>2. 0 \in U
  <2>1. SubSeq(seq, 1, 0) = <<>>
    BY SubSeqEmpty
  <2>2. SubSeq(seq, 1, 0) \in T
    BY <2>1, Zenon
  <2>3. 0 \in 0 .. n
    BY <1>1
  <2> QED
    BY <2>2, <2>3
<1>3. ASSUME NEW i \in 0 .. (n - 1), i \in U PROVE i + 1 \in U
  <2>1. i + 1 \in 1 .. n /\ (i + 1) - 1 = i /\ seq[i + 1] \in S /\ i + 1 \in 0 .. n
    BY <1>1, ElementOfSeq
  <2>2. SubSeq(seq, 1, i + 1) = Append(SubSeq(seq, 1, i), seq[i + 1])
    <3>1. 1 <= i + 1 /\ 1 \in 1 .. (n + 1) /\ i + 1 \in 1 .. n
      BY <1>1, <2>1
    <3> QED
      BY <2>1, <3>1, SubSeqRecursiveSecond
  <2>3. SubSeq(seq, 1, i) \in Seq(S)
    BY <1>1, <2>1, SubSeqProperties
  <2>4. SubSeq(seq, 1, i) \in T
    BY <1>3
  <2>5. Append(SubSeq(seq, 1, i), seq[i + 1]) \in T
    BY <2>1, <2>3, <2>4
  <2>6. SubSeq(seq, 1, i + 1) \in T
    BY <2>2, <2>5
  <2> QED
    BY <2>1, <2>6
<1>4. \A i \in 0 .. n : i \in U
  <2> HIDE DEF U
  <2> QED
    BY <1>1, <1>2, <1>3, Playing!Induction
<1>5. SubSeq(seq, 1, n) = seq
  BY SubSeqFull
<1>6. n \in 0 .. n
  BY <1>1
<1>7. SubSeq(seq, 1, n) \in T
  BY <1>4, <1>6
<1> QED
  BY <1>5, <1>7

LEMMA Associates ==
  /\ \A a, b, d \in Seq(Cmd) : (a \o b) \o d = a \o (b \o d)
  /\ \A a, b, d \in Seq(Owed) : (a \o b) \o d = a \o (b \o d)
  /\ \A a, b, d \in Seq(Msg) : (a \o b) \o d = a \o (b \o d)
<1>1. \A a, b, d \in Seq(Cmd) : (a \o b) \o d = a \o (b \o d)
  BY ConcatAssociative
<1>2. \A a, b, d \in Seq(Owed) : (a \o b) \o d = a \o (b \o d)
  BY ConcatAssociative
<1>3. \A a, b, d \in Seq(Msg) : (a \o b) \o d = a \o (b \o d)
  BY ConcatAssociative
<1> QED
  BY <1>1, <1>2, <1>3

-----------------------------------------------------------------------------
(* Objects in slots.                                                       *)

LEMMA Kind3 == \A slot \in Slot : Kind(slot) \in Kinds /\ slot # None
  BY DEF Slot, Kind, Kinds, None

LEMMA ObjsParts ==
  ASSUME NEW objs \in Objs
  PROVE  /\ DOMAIN objs \subseteq Slot
         /\ objs = [slot \in DOMAIN objs |-> objs[slot]]
         /\ \A slot \in DOMAIN objs : objs[slot] \in Obj
<1>1. PICK D \in SUBSET Slot : objs \in [D -> Obj]
  BY DEF Objs
<1> QED
  BY <1>1

LEMMA ObjsMade ==
  ASSUME NEW D \in SUBSET Slot, NEW f, f = [slot \in D |-> f[slot]],
         \A slot \in D : f[slot] \in Obj
  PROVE  f \in Objs /\ DOMAIN f = D
<1>1. f \in [D -> Obj]
  OBVIOUS
<1> QED
  BY <1>1 DEF Objs

LEMMA NoObjectsType == NoObjects \in Objs /\ DOMAIN NoObjects = {}
<1>1. DOMAIN NoObjects = {} /\ NoObjects = [slot \in {} |-> NoObjects[slot]]
  BY DEF NoObjects
<1> HIDE DEF NoObjects
<1> QED
  BY <1>1, ObjsMade

LEMMA Added ==
  ASSUME NEW objs \in Objs, NEW slot \in Slot, NEW object \in Obj
  PROVE  /\ Filled(objs, slot, object) \in Objs
         /\ DOMAIN Filled(objs, slot, object) = DOMAIN objs \cup {slot}
         /\ \A s \in DOMAIN objs \cup {slot} :
              Filled(objs, slot, object)[s] = IF s = slot THEN object ELSE objs[s]
<1> DEFINE more == Filled(objs, slot, object)
<1>1. more = [s \in DOMAIN objs \cup {slot} |-> IF s = slot THEN object ELSE objs[s]]
  BY DEF Filled
<1>2. \A s \in DOMAIN objs : objs[s] \in Obj
  BY ObjsParts
<1>3. DOMAIN objs \cup {slot} \in SUBSET Slot
  BY ObjsParts
<1> HIDE DEF more
<1>4. /\ DOMAIN more = DOMAIN objs \cup {slot}
      /\ \A s \in DOMAIN objs \cup {slot} : more[s] = IF s = slot THEN object ELSE objs[s]
      /\ more = [s \in DOMAIN objs \cup {slot} |-> more[s]]
  BY <1>1
<1>5. \A s \in DOMAIN objs \cup {slot} : more[s] \in Obj
  BY <1>1, <1>2
<1>6. more \in Objs
  BY <1>3, <1>4, <1>5, ObjsMade
<1> QED
  BY <1>4, <1>6 DEF more

Unbound(object, slots) ==
  IF Kind(object.ref) = "node" /\ object.ref \in slots
    THEN [object EXCEPT !.ref = None] ELSE object

LEMMA Removed ==
  ASSUME NEW objs \in Objs, NEW slots
  PROVE  /\ Without(objs, slots) \in Objs
         /\ DOMAIN Without(objs, slots) = DOMAIN objs \ slots
         /\ \A s \in DOMAIN objs \ slots :
              Without(objs, slots)[s] = Unbound(objs[s], slots)
<1> DEFINE left == Without(objs, slots)
<1>1. left = [s \in DOMAIN objs \ slots |-> Unbound(objs[s], slots)]
  BY DEF Without, Restrict, Unbound
<1>2. \A s \in DOMAIN objs : objs[s] \in Obj
  BY ObjsParts
<1>3. DOMAIN objs \ slots \in SUBSET Slot
  BY ObjsParts
<1>4. \A object \in Obj : Unbound(object, slots) \in Obj
  BY DEF Unbound, Obj, Ref
<1> HIDE DEF left
<1>5. /\ DOMAIN left = DOMAIN objs \ slots
      /\ \A s \in DOMAIN objs \ slots : left[s] = Unbound(objs[s], slots)
      /\ left = [s \in DOMAIN objs \ slots |-> left[s]]
  BY <1>1
<1>6. \A s \in DOMAIN objs \ slots : left[s] \in Obj
  BY <1>2, <1>4, <1>5
<1>7. left \in Objs
  BY <1>3, <1>5, <1>6, ObjsMade
<1> QED
  BY <1>5, <1>7 DEF left

LEMMA Bound ==
  ASSUME NEW objs \in Objs, NEW slot, NEW ref \in Ref
  PROVE  /\ [objs EXCEPT ![slot].ref = ref] \in Objs
         /\ DOMAIN [objs EXCEPT ![slot].ref = ref] = DOMAIN objs
         /\ \A s \in DOMAIN objs :
              [objs EXCEPT ![slot].ref = ref][s] =
                IF s = slot THEN [objs[s] EXCEPT !.ref = ref] ELSE objs[s]
<1> DEFINE set == [objs EXCEPT ![slot].ref = ref]
<1>1. set = [s \in DOMAIN objs |-> IF s = slot THEN [objs[s] EXCEPT !.ref = ref] ELSE objs[s]]
  OBVIOUS
<1>2. \A s \in DOMAIN objs : objs[s] \in Obj
  BY ObjsParts
<1>3. DOMAIN objs \in SUBSET Slot
  BY ObjsParts
<1>4. \A object \in Obj : [object EXCEPT !.ref = ref] \in Obj
  BY DEF Obj
<1> HIDE DEF set
<1>5. /\ DOMAIN set = DOMAIN objs
      /\ \A s \in DOMAIN objs : set[s] =
           IF s = slot THEN [objs[s] EXCEPT !.ref = ref] ELSE objs[s]
      /\ set = [s \in DOMAIN objs |-> set[s]]
  BY <1>1
<1>6. \A s \in DOMAIN objs : set[s] \in Obj
  BY <1>2, <1>4, <1>5
<1>7. set \in Objs
  BY <1>3, <1>5, <1>6, ObjsMade
<1> QED
  BY <1>5, <1>7 DEF set

-----------------------------------------------------------------------------
(* A play keeps its type, and once not well never is again.                *)

LEMMA CmdParts ==
  ASSUME NEW c \in Cmd
  PROVE  /\ c.type \in {"add", "remove", "set", "step", "correct"}
         /\ c.type = "add" => c.slot \in Slot /\ c.object \in Obj
         /\ c.type = "remove" => c.slot \in Slot
         /\ c.type = "set" => c.slot \in Slot /\ c.ref \in Ref
         /\ c.type = "step" => c.diff \in 1 .. StepCap
         /\ c.type = "correct" => c.nodes \in SUBSET Named
<1>1. CASE c \in [type : {"add"}, slot : Slot, object : Obj]
  BY <1>1
<1>2. CASE c \in [type : {"remove"}, slot : Slot]
  BY <1>2
<1>3. CASE c \in [type : {"set"}, slot : Slot, ref : Ref]
  BY <1>3
<1>4. CASE c \in [type : {"step"}, diff : 1 .. StepCap]
  BY <1>4
<1>5. CASE c \in [type : {"correct"}, nodes : SUBSET Named]
  BY <1>5
<1> QED
  BY <1>1, <1>2, <1>3, <1>4, <1>5 DEF Cmd

\* What is played: commands, and resets among them.
Item == Cmd \cup {ResetMsg}

LEMMA EffectType ==
  ASSUME NEW objs \in Objs, NEW c \in Item
  PROVE  Effect(objs, c) \in Objs /\ Owes(objs, c) \in Seq(Owed)
<1>1. CASE c = ResetMsg
  <2>1. c.type = "reset"
    BY <1>1 DEF ResetMsg
  <2>2. Effect(objs, c) = NoObjects /\ Owes(objs, c) = <<Cut>>
    BY <2>1 DEF Effect, Owes
  <2>3. Cut \in Owed
    BY DEF Owed
  <2> QED
    BY <2>2, <2>3, NoObjectsType
<1>2. CASE c \in Cmd
  <2>6. /\ c.type \in {"add", "remove", "set", "step", "correct"}
        /\ c.type = "add" => c.slot \in Slot /\ c.object \in Obj
        /\ c.type = "set" => c.ref \in Ref
        /\ <<>> \in Seq(Owed)
    BY <1>2, CmdParts, EmptySeq
  <2>1. CASE c.type = "add"
    <3>1. Effect(objs, c) = Filled(objs, c.slot, c.object) /\ Owes(objs, c) = <<>>
      BY <2>1 DEF Effect, Owes
    <3>2. Filled(objs, c.slot, c.object) \in Objs
      BY <2>1, <2>6, Added
    <3> QED
      BY <2>6, <3>1, <3>2
  <2>2. CASE c.type = "remove"
    <3>1. /\ Effect(objs, c) = Without(objs, {c.slot} \cup Nodes(objs, c.slot))
          /\ Owes(objs, c) = <<>>
      BY <2>2 DEF Effect, Owes
    <3>2. Without(objs, {c.slot} \cup Nodes(objs, c.slot)) \in Objs
      BY Removed
    <3> QED
      BY <2>6, <3>1, <3>2
  <2>3. CASE c.type = "set"
    <3>1. /\ Effect(objs, c) = [objs EXCEPT ![c.slot].ref = c.ref]
          /\ Owes(objs, c) = <<>>
      BY <2>3 DEF Effect, Owes
    <3>2. [objs EXCEPT ![c.slot].ref = c.ref] \in Objs
      BY <2>3, <2>6, Bound
    <3> QED
      BY <2>6, <3>1, <3>2
  <2>4. CASE c.type = "step"
    <3>1. Effect(objs, c) = objs /\ Owes(objs, c) = <<Moment(objs)>>
      BY <2>4 DEF Effect, Owes
    <3>2. Moment(objs) \in Owed
      BY DEF Moment, Owed
    <3> QED
      BY <3>1, <3>2
  <2>5. CASE c.type = "correct"
    BY <2>5, <2>6 DEF Effect, Owes
  <2> QED
    BY <2>1, <2>2, <2>3, <2>4, <2>5, <2>6
<1> QED
  BY <1>1, <1>2 DEF Item

LEMMA PlayType ==
  ASSUME NEW w \in World, NEW c \in Item
  PROVE  /\ Play(w, c) \in World
         /\ Play(w, c).ok => w.ok /\ Fits(w.objs, c)
<1>1. w.objs \in Objs /\ w.owed \in Seq(Owed)
  BY DEF World
<1>2. Effect(w.objs, c) \in Objs /\ w.owed \o Owes(w.objs, c) \in Seq(Owed)
  BY <1>1, EffectType, ConcatProperties
<1> QED
  BY <1>1, <1>2 DEF Play, World

LEMMA PlayWell ==
  ASSUME NEW w, NEW c, w.ok, Fits(w.objs, c)
  PROVE  Play(w, c) = [ok |-> TRUE, objs |-> Effect(w.objs, c),
                       owed |-> w.owed \o Owes(w.objs, c)]
  BY DEF Play

LEMMA PlayedType ==
  ASSUME NEW w \in World, NEW q \in Seq(Item)
  PROVE  /\ Playing!Fold(w, q) \in World
         /\ Playing!Fold(w, q).ok => w.ok
<1>1. \A s \in World, i \in 1 .. Len(q) : Play(s, q[i]) \in World
  BY PlayType, ElementOfSeq
<1>2. Playing!Fold(w, q) \in World
  BY <1>1, Playing!FoldKeeps
<1> DEFINE Ill == {s \in World : ~s.ok}
<1>3. ASSUME ~w.ok PROVE Playing!Fold(w, q) \in Ill
  <2>1. w \in Ill
    BY <1>3
  <2>2. \A s \in Ill, i \in 1 .. Len(q) : Play(s, q[i]) \in Ill
    BY <1>1, PlayType, ElementOfSeq
  <2> HIDE DEF Ill
  <2> QED
    BY <2>1, <2>2, Playing!FoldKeeps
<1> QED
  BY <1>2, <1>3

\* What is owed from before stays as it is, and nothing looks at it.
Owing(w, p) == [ok |-> w.ok, objs |-> w.objs, owed |-> p \o w.owed]

LEMMA OwingType ==
  ASSUME NEW w \in World, NEW p \in Seq(Owed)
  PROVE  Owing(w, p) \in World
<1>1. p \o w.owed \in Seq(Owed)
  BY ConcatProperties DEF World
<1> QED
  BY <1>1 DEF World, Owing

LEMMA PlayOwing ==
  ASSUME NEW w \in World, NEW p \in Seq(Owed), NEW c \in Item
  PROVE  Play(Owing(w, p), c) = Owing(Play(w, c), p)
<1>1. CASE w.ok /\ Fits(w.objs, c)
  <2>1. w.objs \in Objs /\ w.owed \in Seq(Owed) /\ Owes(w.objs, c) \in Seq(Owed)
    BY EffectType DEF World
  <2>2. \A a, b, d \in Seq(Owed) : (a \o b) \o d = a \o (b \o d)
    BY Associates
  <2>3. (p \o w.owed) \o Owes(w.objs, c) = p \o (w.owed \o Owes(w.objs, c))
    BY <2>1, <2>2
  <2>4. Play(w, c) = [ok |-> TRUE, objs |-> Effect(w.objs, c),
                      owed |-> w.owed \o Owes(w.objs, c)]
    BY <1>1, PlayWell
  <2>5. Owing(w, p).ok /\ Fits(Owing(w, p).objs, c)
    BY <1>1 DEF Owing
  <2>6. Play(Owing(w, p), c) = [ok |-> TRUE, objs |-> Effect(w.objs, c),
                                owed |-> (p \o w.owed) \o Owes(w.objs, c)]
    <3> DEFINE v == Owing(w, p)
    <3>1. v.ok /\ v.objs = w.objs /\ v.owed = p \o w.owed
      BY <2>5 DEF Owing
    <3>2. Fits(v.objs, c)
      BY <2>5
    <3> HIDE DEF v
    <3>3. Play(v, c) = [ok |-> TRUE, objs |-> Effect(v.objs, c),
                        owed |-> v.owed \o Owes(v.objs, c)]
      BY <3>1, <3>2, PlayWell
    <3> QED
      BY <3>1, <3>3 DEF v
  <2> QED
    BY <2>3, <2>4, <2>6 DEF Owing
<1>2. CASE ~(w.ok /\ Fits(w.objs, c))
  BY <1>2 DEF Play, Owing
<1> QED
  BY <1>1, <1>2

LEMMA PlayedOwing ==
  ASSUME NEW w \in World, NEW p \in Seq(Owed), NEW q \in Seq(Item)
  PROVE  Playing!Fold(Owing(w, p), q) = Owing(Playing!Fold(w, q), p)
<1> DEFINE R == {pair \in World \X World : pair[1] = Owing(pair[2], p)}
<1>1. <<Owing(w, p), w>> \in R
  BY OwingType
<1>2. ASSUME NEW s, NEW t, NEW i \in 1 .. Len(q), <<s, t>> \in R
      PROVE  <<Play(s, q[i]), Play(t, q[i])>> \in R
  <2>1. s \in World /\ t \in World /\ s = Owing(t, p) /\ q[i] \in Item
    BY <1>2, ElementOfSeq
  <2> QED
    BY <2>1, PlayOwing, PlayType
<1> HIDE DEF R
<1>3. <<Playing!Fold(Owing(w, p), q), Playing!Fold(w, q)>> \in R
  BY <1>1, <1>2, Playing!FoldRelates
<1> QED
  BY <1>3 DEF R

LEMMA PlayedConcat ==
  ASSUME NEW w, NEW p \in Seq(Item), NEW q \in Seq(Item)
  PROVE  Playing!Fold(w, p \o q) = Playing!Fold(Playing!Fold(w, p), q)
  BY Playing!FoldConcat

LEMMA CmdIsItem == \A q \in Seq(Cmd) : q \in Seq(Item)
<1>1. Cmd \subseteq Item
  BY DEF Item
<1> QED
  BY <1>1, SeqMonotonic

\* Commands cut nothing.
NoCut(owed) == \A i \in 1 .. Len(owed) : owed[i] # Cut

LEMMA MomentNoCut == \A objs : Moment(objs) # Cut
<1>1. \A objs : DOMAIN Moment(objs) = {"moment"}
  BY DEF Moment
<1>2. DOMAIN Cut = {"cut"}
  BY DEF Cut
<1>3. "moment" # "cut"
  OBVIOUS
<1> QED
  BY <1>1, <1>2, <1>3

LEMMA PlayNoCut ==
  ASSUME NEW w \in World, NEW c \in Cmd, NoCut(w.owed)
  PROVE  NoCut(Play(w, c).owed)
<1>1. w.owed \in Seq(Owed) /\ w.objs \in Objs
  BY DEF World
<1>2. c.type # "reset"
  BY CmdParts
<1>3. CASE w.ok /\ Fits(w.objs, c) /\ c.type = "step"
  <2>1. Play(w, c).owed = w.owed \o <<Moment(w.objs)>>
    BY <1>3 DEF Play, Owes
  <2>2. Moment(w.objs) \in Owed /\ Moment(w.objs) # Cut
    BY <1>1, MomentNoCut DEF Moment, Owed
  <2> DEFINE m == Moment(w.objs)
             o == w.owed
  <2> HIDE DEF m, o
  <2>3. m \in Owed /\ m # Cut /\ o \in Seq(Owed) /\ NoCut(o)
    BY <1>1, <2>2 DEF m, o
  <2>4. NoCut(o \o <<m>>)
    BY <2>3 DEF NoCut
  <2> QED
    BY <2>1, <2>4 DEF m, o
<1>4. CASE ~(w.ok /\ Fits(w.objs, c) /\ c.type = "step")
  <2>1. Play(w, c).owed \in {w.owed, w.owed \o <<>>}
    BY <1>2, <1>4 DEF Play, Owes
  <2>2. w.owed \o <<>> = w.owed
    BY <1>1, ConcatEmptySeq
  <2> QED
    BY <2>1, <2>2
<1> QED
  BY <1>3, <1>4

LEMMA PlayedNoCut ==
  ASSUME NEW w \in World, NEW q \in Seq(Cmd), NoCut(w.owed)
  PROVE  NoCut(Playing!Fold(w, q).owed)
<1> DEFINE P == {s \in World : NoCut(s.owed)}
<1>1. w \in P
  OBVIOUS
<1>2. \A s \in P, i \in 1 .. Len(q) : Play(s, q[i]) \in P
  <2> TAKE s \in P, i \in 1 .. Len(q)
  <2>1. q[i] \in Cmd /\ q[i] \in Item
    BY ElementOfSeq DEF Item
  <2> QED
    BY <2>1, PlayNoCut, PlayType
<1> HIDE DEF P
<1>3. Playing!Fold(w, q) \in P
  BY <1>1, <1>2, Playing!FoldKeeps
<1> QED
  BY <1>3 DEF P

\* What is no step adds nothing to what is owed.
LEMMA PlayQuiet ==
  ASSUME NEW w \in World, NEW c \in Cmd, c.type # "step"
  PROVE  Play(w, c).owed = w.owed
<1>1. w.owed \in Seq(Owed)
  BY DEF World
<1>2. Play(w, c).owed \in {w.owed, w.owed \o <<>>}
  BY CmdParts DEF Play, Owes
<1>3. w.owed \o <<>> = w.owed
  BY <1>1, ConcatEmptySeq
<1> QED
  BY <1>2, <1>3

LEMMA PlayedQuiet ==
  ASSUME NEW w \in World, NEW q \in Seq(Cmd), NoSteps(q)
  PROVE  Playing!Fold(w, q).owed = w.owed
<1> DEFINE P == {s \in World : s.owed = w.owed}
<1>1. w \in P
  OBVIOUS
<1>2. \A s \in P, i \in 1 .. Len(q) : Play(s, q[i]) \in P
  <2> TAKE s \in P, i \in 1 .. Len(q)
  <2>1. q[i] \in Cmd /\ q[i] \in Item /\ q[i].type # "step"
    BY ElementOfSeq DEF Item, NoSteps
  <2> QED
    BY <2>1, PlayQuiet, PlayType
<1> HIDE DEF P
<1>3. Playing!Fold(w, q) \in P
  BY <1>1, <1>2, Playing!FoldKeeps
<1> QED
  BY <1>3 DEF P

-----------------------------------------------------------------------------
(* ... message by message.                                                 *)

LEMMA MsgParts ==
  ASSUME NEW m \in Msg
  PROVE  /\ m.type \in {"reset", "commands", "correction"}
         /\ m.type = "reset" => m = ResetMsg
         /\ m.type = "commands" => m.cmds \in Seq(Cmd)
         /\ m.type = "correction" => m.nodes \in SUBSET Named
<1>1. CASE m \in [type : {"commands"}, cmds : Seq(Cmd)]
  BY <1>1
<1>2. CASE m \in [type : {"correction"}, nodes : SUBSET Named]
  BY <1>2
<1>3. CASE m = ResetMsg
  BY <1>3 DEF ResetMsg
<1> QED
  BY <1>1, <1>2, <1>3 DEF Msg

LEMMA CorrectIsCmd == \A nodes \in SUBSET Named : CorrectCmd(nodes) \in Cmd
  BY DEF CorrectCmd, Cmd

LEMMA ItemsType ==
  ASSUME NEW m \in Msg
  PROVE  /\ Items(m) \in Seq(Item)
         /\ m.type # "reset" => Items(m) \in Seq(Cmd)
<1>1. CASE m.type = "reset"
  <2>1. Items(m) = <<ResetMsg>> /\ ResetMsg \in Item
    BY <1>1 DEF Items, Item
  <2> QED
    BY <1>1, <2>1
<1>2. CASE m.type = "commands"
  BY <1>2, MsgParts, CmdIsItem DEF Items
<1>3. CASE m.type = "correction"
  <2>1. Items(m) = <<CorrectCmd(m.nodes)>> /\ CorrectCmd(m.nodes) \in Cmd
    BY <1>3, MsgParts, CorrectIsCmd DEF Items
  <2>2. Items(m) \in Seq(Cmd)
    BY <2>1
  <2> QED
    BY <2>2, CmdIsItem
<1> QED
  BY <1>1, <1>2, <1>3, MsgParts

LEMMA HeardType ==
  ASSUME NEW w \in World, NEW q \in Seq(Msg)
  PROVE  /\ Hearing!Fold(w, q) \in World
         /\ Hearing!Fold(w, q).ok => w.ok
<1>1. ASSUME NEW s \in World, NEW i \in 1 .. Len(q)
      PROVE  PlayMsg(s, q[i]) \in World /\ (PlayMsg(s, q[i]).ok => s.ok)
  <2>1. Items(q[i]) \in Seq(Item)
    BY ElementOfSeq, ItemsType
  <2> QED
    BY <2>1, PlayedType DEF PlayMsg
<1>2. Hearing!Fold(w, q) \in World
  BY <1>1, Hearing!FoldKeeps
<1> DEFINE Ill == {s \in World : ~s.ok}
<1>3. ASSUME ~w.ok PROVE Hearing!Fold(w, q) \in Ill
  <2>1. w \in Ill
    BY <1>3
  <2>2. \A s \in Ill, i \in 1 .. Len(q) : PlayMsg(s, q[i]) \in Ill
    BY <1>1
  <2> HIDE DEF Ill
  <2> QED
    BY <2>1, <2>2, Hearing!FoldKeeps
<1> QED
  BY <1>2, <1>3

LEMMA HeardOwing ==
  ASSUME NEW w \in World, NEW p \in Seq(Owed), NEW q \in Seq(Msg)
  PROVE  Hearing!Fold(Owing(w, p), q) = Owing(Hearing!Fold(w, q), p)
<1> DEFINE R == {pair \in World \X World : pair[1] = Owing(pair[2], p)}
<1>1. <<Owing(w, p), w>> \in R
  BY OwingType
<1>2. ASSUME NEW s, NEW t, NEW i \in 1 .. Len(q), <<s, t>> \in R
      PROVE  <<PlayMsg(s, q[i]), PlayMsg(t, q[i])>> \in R
  <2>1. s \in World /\ t \in World /\ s = Owing(t, p) /\ Items(q[i]) \in Seq(Item)
    BY <1>2, ElementOfSeq, ItemsType
  <2> QED
    BY <2>1, PlayedOwing, PlayedType DEF PlayMsg
<1> HIDE DEF R
<1>3. <<Hearing!Fold(Owing(w, p), q), Hearing!Fold(w, q)>> \in R
  BY <1>1, <1>2, Hearing!FoldRelates
<1> QED
  BY <1>3 DEF R

-----------------------------------------------------------------------------
(* What arrives waits as it is, with its time.                             *)

Adding == INSTANCE FoldProofs WITH Op <- AddCommand

LEMMA AddedAll == \A b, q : Through(AddCommand, b, q) = Adding!Fold(b, q)
  BY DEF Through, Adding!Fold

LEMMA AddDiffType ==
  ASSUME NEW n \in Nat, NEW c \in Cmd
  PROVE  AddDiff(n, c) \in Nat /\ AddDiff(n, c) >= n
<1>1. CASE c.type = "step"
  <2>1. c.diff \in Nat
    BY <1>1, CmdParts, StreamAssumption
  <2> QED
    BY <1>1, <2>1 DEF AddDiff
<1>2. CASE c.type # "step"
  BY <1>2 DEF AddDiff
<1> QED
  BY <1>1, <1>2

LEMMA TimedType ==
  ASSUME NEW n \in Nat, NEW q \in Seq(Cmd)
  PROVE  Timing!Fold(n, q) \in Nat
<1>1. \A s \in Nat, i \in 1 .. Len(q) : AddDiff(s, q[i]) \in Nat
  BY AddDiffType, ElementOfSeq
<1> QED
  BY <1>1, Timing!FoldKeeps

LEMMA TimedQuiet ==
  ASSUME NEW n \in Nat, NEW q \in Seq(Cmd), NoSteps(q)
  PROVE  Timing!Fold(n, q) = n
<1>1. \A s \in {n}, i \in 1 .. Len(q) : AddDiff(s, q[i]) \in {n}
  BY DEF AddDiff, NoSteps
<1>2. Timing!Fold(n, q) \in {n}
  BY <1>1, Timing!FoldKeeps
<1> QED
  BY <1>2

\* The time of commands comes on top of what there is.
LEMMA TimedMore ==
  ASSUME NEW n \in Nat, NEW q \in Seq(Cmd)
  PROVE  Timing!Fold(n, q) = n + Time(q)
<1> DEFINE R == {pair \in Nat \X Nat : pair[1] = n + pair[2]}
<1>1. <<n, 0>> \in R
  OBVIOUS
<1>2. ASSUME NEW s, NEW t, NEW i \in 1 .. Len(q), <<s, t>> \in R
      PROVE  <<AddDiff(s, q[i]), AddDiff(t, q[i])>> \in R
  <2>1. s \in Nat /\ t \in Nat /\ s = n + t /\ q[i] \in Cmd
    BY <1>2, ElementOfSeq
  <2>2. AddDiff(s, q[i]) \in Nat /\ AddDiff(t, q[i]) \in Nat
    BY <2>1, AddDiffType
  <2>3. AddDiff(s, q[i]) = n + AddDiff(t, q[i])
    <3>1. CASE q[i].type = "step"
      <4>1. q[i].diff \in Nat
        BY <2>1, <3>1, CmdParts, StreamAssumption
      <4> QED
        BY <2>1, <3>1, <4>1 DEF AddDiff
    <3>2. CASE q[i].type # "step"
      BY <2>1, <3>2 DEF AddDiff
    <3> QED
      BY <3>1, <3>2
  <2> QED
    BY <2>2, <2>3
<1> HIDE DEF R
<1>3. <<Timing!Fold(n, q), Timing!Fold(0, q)>> \in R
  BY <1>1, <1>2, Timing!FoldRelates
<1> QED
  BY <1>3 DEF R, Time

LEMMA ByteOfStep ==
  ASSUME NEW d \in 1 .. StepCap PROVE d % ByteSize = d
<1>1. d \in Nat /\ ByteSize \in Nat /\ d < ByteSize
  BY StreamAssumption
<1> QED
  BY <1>1

LEMMA AddedGood ==
  ASSUME NEW s, Good(s), NEW c \in Cmd
  PROVE  LET t == AddCommand(s, c) IN
         /\ Good(t)
         /\ t.cmds \o t.pending = Append(s.cmds \o s.pending, c)
         /\ t.objs = s.objs /\ t.ended = s.ended /\ t.mixed = s.mixed
<1> DEFINE held == Append(s.pending, c)
           t == AddCommand(s, c)
<1>1. s \in Session /\ NoSteps(s.pending) /\ s.buffered = Time(s.cmds)
  BY DEF Good
<1>2. s.cmds \in Seq(Cmd) /\ s.pending \in Seq(Cmd) /\ s.buffered \in Nat
  BY <1>1 DEF Session
<1>3. held \in Seq(Cmd) /\ Len(held) = Len(s.pending) + 1 /\ Len(s.pending) \in Nat
      /\ held[Len(held)] = c /\ \A i \in 1 .. Len(s.pending) : held[i] = s.pending[i]
  BY <1>2, AppendProperties, LenProperties
<1>4. held = s.pending \o <<c>>
  BY <1>2, AppendIsConcat
<1>5. s.cmds \o held = Append(s.cmds \o s.pending, c) /\ s.cmds \o held \in Seq(Cmd)
  <2>1. <<c>> \in Seq(Cmd) /\ s.cmds \o s.pending \in Seq(Cmd)
    BY <1>2, ConcatProperties
  <2>2. \A a, b, d \in Seq(Cmd) : (a \o b) \o d = a \o (b \o d)
    BY Associates
  <2>3. (s.cmds \o s.pending) \o <<c>> = s.cmds \o (s.pending \o <<c>>)
    BY <1>2, <2>1, <2>2
  <2>4. Append(s.cmds \o s.pending, c) = (s.cmds \o s.pending) \o <<c>>
    BY <2>1, AppendIsConcat
  <2> QED
    BY <1>2, <1>3, <1>4, <2>3, <2>4, ConcatProperties
<1> HIDE DEF held
<1>6. CASE c.type = "step"
  <2>1. c.diff \in 1 .. StepCap /\ c.diff % ByteSize = c.diff /\ c.diff \in Nat
    BY <1>6, CmdParts, ByteOfStep, StreamAssumption
  <2>2. t = [s EXCEPT !.cmds = s.cmds \o held, !.pending = <<>>,
                      !.buffered = s.buffered + c.diff]
    BY <1>6, <2>1 DEF AddCommand, held
  <2>3. /\ t.cmds = s.cmds \o held /\ t.pending = <<>>
        /\ t.buffered = s.buffered + c.diff
        /\ t.objs = s.objs /\ t.ended = s.ended /\ t.mixed = s.mixed
    BY <1>1, <2>2 DEF Session
  <2>4. t \in Session
    <3>1. s.buffered + c.diff \in Nat /\ <<>> \in Seq(Cmd)
      BY <1>2, <2>1, EmptySeq
    <3>2. \A q1, q2 \in Seq(Cmd), n \in Nat :
            [s EXCEPT !.cmds = q1, !.pending = q2, !.buffered = n] \in Session
      BY <1>1 DEF Session
    <3>3. [s EXCEPT !.cmds = s.cmds \o held, !.pending = <<>>,
                    !.buffered = s.buffered + c.diff] \in Session
      BY <1>5, <3>1, <3>2
    <3> QED
      BY <2>2, <3>3
  <2>5. t.cmds \o t.pending = t.cmds
    BY <1>5, <2>3, ConcatEmptySeq
  <2>6. t.cmds # <<>> /\ t.cmds[Len(t.cmds)] = c
    <3>1. /\ Len(s.cmds \o held) = Len(s.cmds) + Len(held)
          /\ \A i \in 1 .. Len(s.cmds) + Len(held) :
               (s.cmds \o held)[i] = IF i <= Len(s.cmds) THEN s.cmds[i] ELSE held[i - Len(s.cmds)]
      BY <1>2, <1>3, ConcatProperties
    <3>2. Len(s.cmds) \in Nat /\ Len(held) \in Nat \ {0}
      BY <1>2, <1>3, LenProperties
    <3>3. /\ Len(s.cmds) + Len(held) \in 1 .. Len(s.cmds) + Len(held)
          /\ ~(Len(s.cmds) + Len(held) <= Len(s.cmds))
          /\ (Len(s.cmds) + Len(held)) - Len(s.cmds) = Len(held)
      BY <3>2
    <3> DEFINE n == Len(s.cmds) + Len(held)
    <3>6. (s.cmds \o held)[n] = IF n <= Len(s.cmds) THEN s.cmds[n] ELSE held[n - Len(s.cmds)]
      BY <3>1, <3>3
    <3>7. (s.cmds \o held)[n] = held[Len(held)]
      BY <3>3, <3>6
    <3>8. n # 0
      BY <3>2
    <3>9. Len(s.cmds \o held) = n
      BY <3>1
    <3> HIDE DEF n
    <3>4. (s.cmds \o held)[Len(s.cmds \o held)] = c /\ Len(s.cmds \o held) # 0
      BY <1>3, <3>7, <3>8, <3>9
    <3>5. s.cmds \o held # <<>>
      BY <3>4
    <3> QED
      BY <2>3, <3>4, <3>5
  <2>7. t.buffered = Time(t.cmds)
    <3>1. Time(s.cmds \o held) = Timing!Fold(Time(s.cmds), held)
      BY <1>2, <1>3, Timing!FoldConcat DEF Time
    <3>2. Time(s.cmds) \in Nat
      BY <1>1, <1>2
    <3>3. Timing!Fold(Time(s.cmds), held) = AddDiff(Timing!Fold(Time(s.cmds), s.pending), c)
      BY <1>2, Timing!FoldAppend DEF held
    <3>4. Timing!Fold(Time(s.cmds), s.pending) = Time(s.cmds)
      BY <1>1, <1>2, <3>2, TimedQuiet
    <3> QED
      BY <1>1, <1>6, <2>3, <3>1, <3>3, <3>4 DEF AddDiff
  <2>8. NoSteps(t.pending)
    BY <2>3 DEF NoSteps
  <2> QED
    BY <1>5, <1>6, <2>3, <2>4, <2>5, <2>6, <2>7, <2>8 DEF Good
<1>7. CASE c.type # "step"
  <2>1. t = [s EXCEPT !.pending = held]
    BY <1>7 DEF AddCommand, held
  <2>2. /\ t.cmds = s.cmds /\ t.pending = held /\ t.buffered = s.buffered
        /\ t.objs = s.objs /\ t.ended = s.ended /\ t.mixed = s.mixed
        /\ t \in Session
    BY <1>1, <1>3, <2>1 DEF Session
  <2>3. NoSteps(held)
    <3>1. ASSUME NEW i \in 1 .. Len(held) PROVE held[i].type # "step"
      <4>1. CASE i = Len(held)
        BY <1>3, <1>7, <4>1
      <4>2. CASE i # Len(held)
        <5>1. i \in 1 .. Len(s.pending)
          BY <1>3, <4>2
        <5> QED
          BY <1>1, <1>3, <5>1 DEF NoSteps
      <4> QED
        BY <4>1, <4>2
    <3> QED
      BY <3>1 DEF NoSteps
  <2> QED
    BY <1>1, <1>5, <2>2, <2>3 DEF Good
<1> QED
  BY <1>6, <1>7

LEMMA Queued ==
  ASSUME NEW s, Good(s), NEW q \in Seq(Cmd)
  PROVE  LET t == Through(AddCommand, s, q) IN
         /\ Good(t)
         /\ t.cmds \o t.pending = (s.cmds \o s.pending) \o q
         /\ t.objs = s.objs /\ t.ended = s.ended /\ t.mixed = s.mixed
<1> DEFINE all == s.cmds \o s.pending
           Is(p, t) == /\ Good(t)
                       /\ t.cmds \o t.pending = all \o p
                       /\ t.objs = s.objs /\ t.ended = s.ended /\ t.mixed = s.mixed
           P == {pair \in Seq(Cmd) \X Session : Is(pair[1], pair[2])}
<1>1. s \in Session /\ all \in Seq(Cmd)
  BY ConcatProperties DEF Good, Session
<1> HIDE DEF all
<1>2. << <<>>, s >> \in P
  <2>1. all \o <<>> = all
    BY <1>1, ConcatEmptySeq
  <2> QED
    BY <1>1, <2>1, EmptySeq DEF all
<1>3. ASSUME NEW p \in Seq(Cmd), NEW x \in Cmd, NEW t, <<p, t>> \in P
      PROVE  <<Append(p, x), AddCommand(t, x)>> \in P
  <2> DEFINE u == AddCommand(t, x)
  <2>1. Is(p, t)
    BY <1>3
  <2>2. /\ Good(u) /\ u.cmds \o u.pending = Append(t.cmds \o t.pending, x)
        /\ u.objs = t.objs /\ u.ended = t.ended /\ u.mixed = t.mixed
    BY <2>1, AddedGood
  <2> HIDE DEF u
  <2>3. Append(all \o p, x) = all \o Append(p, x)
    <3>1. <<x>> \in Seq(Cmd) /\ all \o p \in Seq(Cmd)
      BY <1>1, ConcatProperties
    <3>2. \A a, b, d \in Seq(Cmd) : (a \o b) \o d = a \o (b \o d)
      BY Associates
    <3>3. (all \o p) \o <<x>> = all \o (p \o <<x>>)
      BY <1>1, <3>1, <3>2
    <3>4. Append(all \o p, x) = (all \o p) \o <<x>> /\ Append(p, x) = p \o <<x>>
      BY <3>1, AppendIsConcat
    <3> QED
      BY <3>3, <3>4
  <2>4. Is(Append(p, x), u)
    BY <2>1, <2>2, <2>3
  <2>5. u \in Session /\ Append(p, x) \in Seq(Cmd)
    BY <2>2, AppendProperties DEF Good
  <2> HIDE DEF Is
  <2> QED
    BY <2>4, <2>5 DEF u
<1> HIDE DEF P
<1>4. <<q, Adding!Fold(s, q)>> \in P
  <2> DEFINE T == {p \in Seq(Cmd) : <<p, Adding!Fold(s, p)>> \in P}
  <2>1. <<>> \in T
    BY <1>2, Adding!FoldEmpty, EmptySeq
  <2>2. ASSUME NEW p \in Seq(Cmd), NEW x \in Cmd, p \in T PROVE Append(p, x) \in T
    <3>1. Adding!Fold(s, Append(p, x)) = AddCommand(Adding!Fold(s, p), x)
      BY Adding!FoldAppend
    <3>2. Append(p, x) \in Seq(Cmd)
      OBVIOUS
    <3>3. <<Append(p, x), AddCommand(Adding!Fold(s, p), x)>> \in P
      BY <1>3, <2>2
    <3> QED
      BY <3>1, <3>2, <3>3
  <2> HIDE DEF T
  <2>3. q \in T
    BY <2>1, <2>2, SequenceInduction
  <2> QED
    BY <2>3 DEF T
<1>5. Is(q, Through(AddCommand, s, q))
  BY <1>4, AddedAll DEF P
<1> QED
  BY <1>5 DEF all

-----------------------------------------------------------------------------
(* What runs goes as in the play when there is time for it.                *)

Collecting == INSTANCE FoldProofs WITH Op <- Collect
Running == INSTANCE FoldProofs WITH Op <- RunCommand

LEMMA CollectedAll == \A b, q : Through(Collect, b, q) = Collecting!Fold(b, q)
  BY DEF Through, Collecting!Fold

LEMMA RanAll == \A b, q : Through(RunCommand, b, q) = Running!Fold(b, q)
  BY DEF Through, Running!Fold

Path == [session : Session, owed : Seq(Owed)]

LEMMA SessionExcept ==
  ASSUME NEW s \in Session
  PROVE  /\ \A o \in Objs : [s EXCEPT !.objs = o] \in Session
         /\ \A n \in Nat : [s EXCEPT !.buffered = n] \in Session
         /\ \A b \in BOOLEAN : [s EXCEPT !.ended = b] \in Session
         /\ \A b \in BOOLEAN : [s EXCEPT !.mixed = b] \in Session
         /\ \A q \in Seq(Cmd) : [s EXCEPT !.cmds = q] \in Session
  BY DEF Session

LEMMA RunType ==
  ASSUME NEW s \in Session, NEW c \in Cmd
  PROVE  RunCommand(s, c) \in Session
<1>1. s.objs \in Objs /\ s.buffered \in Nat
  BY DEF Session
<1>2. Error(s) \in Session
  BY SessionExcept DEF Error
<1>3. c.type \in {"add", "remove", "set", "step", "correct"}
  BY CmdParts
<1>4. CASE s.ended
  BY <1>4 DEF RunCommand
<1>5. CASE ~s.ended /\ c.type = "step"
  <2>1. RunCommand(s, c) = RunStepCmd(s, c)
    BY <1>5 DEF RunCommand
  <2>2. c.diff \in Nat
    BY <1>5, CmdParts, StreamAssumption
  <2>3. s.buffered >= c.diff => s.buffered - c.diff \in Nat
    BY <1>1, <2>2
  <2> QED
    BY <1>2, <2>1, <2>3, SessionExcept DEF RunStepCmd
<1>6. CASE ~s.ended /\ c.type = "add"
  <2>1. RunCommand(s, c) = RunAdd(s, c)
    BY <1>6 DEF RunCommand
  <2>2. Filled(s.objs, c.slot, c.object) \in Objs
    BY <1>1, <1>6, CmdParts, Added
  <2>3. [s EXCEPT !.objs = Filled(s.objs, c.slot, c.object)] \in Session
    BY <2>2, SessionExcept
  <2> QED
    BY <1>2, <2>1, <2>3 DEF RunAdd
<1>7. CASE ~s.ended /\ c.type = "remove"
  <2>1. RunCommand(s, c) = RunRemove(s, c)
    BY <1>7 DEF RunCommand
  <2>2. Without(s.objs, {c.slot} \cup Nodes(s.objs, c.slot)) \in Objs
    BY <1>1, Removed
  <2>3. [s EXCEPT !.objs = Without(s.objs, {c.slot} \cup Nodes(s.objs, c.slot))] \in Session
    BY <2>2, SessionExcept
  <2> QED
    BY <1>2, <2>1, <2>3 DEF RunRemove
<1>8. CASE ~s.ended /\ c.type = "set"
  <2>1. RunCommand(s, c) = RunSet(s, c)
    BY <1>8 DEF RunCommand
  <2>2. c.ref \in Ref
    BY <1>8, CmdParts
  <2>3. [s.objs EXCEPT ![c.slot].ref = c.ref] \in Objs
    BY <1>1, <2>2, Bound
  <2>4. [s EXCEPT !.objs = [s.objs EXCEPT ![c.slot].ref = c.ref]] \in Session
    BY <2>3, SessionExcept
  <2> QED
    BY <1>2, <2>1, <2>4 DEF RunSet
<1>9. CASE ~s.ended /\ c.type = "correct"
  <2> DEFINE other == \E n \in c.nodes :
                        ~Has(s.objs, n.slot) \/ s.objs[n.slot].what # n.what
  <2>1. RunCommand(s, c) = [s EXCEPT !.mixed = s.mixed \/ other]
    BY <1>9 DEF RunCommand, RunCorrect
  <2> HIDE DEF other
  <2>2. (s.mixed \/ other) \in BOOLEAN
    OBVIOUS
  <2> QED
    BY <2>1, <2>2, SessionExcept
<1> QED
  BY <1>3, <1>4, <1>5, <1>6, <1>7, <1>8, <1>9

LEMMA CollectType ==
  ASSUME NEW a \in Path, NEW c \in Cmd
  PROVE  Collect(a, c) \in Path
<1> DEFINE after == RunCommand(a.session, c)
<1>1. after \in Session /\ after.objs \in Objs
  BY RunType DEF Path, Session
<1>2. Collect(a, c) = [session |-> after,
                       owed |-> IF c.type = "step" THEN Append(a.owed, Moment(after.objs))
                                ELSE a.owed]
  BY DEF Collect
<1> HIDE DEF after
<1>3. Moment(after.objs) \in Owed
  BY <1>1 DEF Moment, Owed
<1>4. a.owed \in Seq(Owed)
  BY DEF Path
<1>5. Append(a.owed, Moment(after.objs)) \in Seq(Owed)
  BY <1>3, <1>4, AppendProperties
<1> QED
  BY <1>1, <1>2, <1>4, <1>5 DEF Path

Later(s, objs, buffered) == [s EXCEPT !.objs = objs, !.buffered = buffered]

\* One command goes in a session as in the play.
LEMMA RunMatches ==
  ASSUME NEW s \in Session, NEW c \in Cmd, ~s.ended, ~s.mixed, Fits(s.objs, c),
         AddDiff(0, c) <= s.buffered
  PROVE  RunCommand(s, c) = Later(s, Effect(s.objs, c), s.buffered - AddDiff(0, c))
<1>1. s.buffered \in Nat
  BY DEF Session
<1>2. c.type \in {"add", "remove", "set", "step", "correct"}
  BY CmdParts
<1>3. s = [s EXCEPT !.objs = s.objs, !.buffered = s.buffered]
  BY DEF Session
<1>4. \A o : [s EXCEPT !.objs = o] = [s EXCEPT !.objs = o, !.buffered = s.buffered]
  BY DEF Session
<1>5. \A n : [s EXCEPT !.buffered = n] = [s EXCEPT !.objs = s.objs, !.buffered = n]
  BY DEF Session
<1>6. c.type # "step" => s.buffered - AddDiff(0, c) = s.buffered
  BY <1>1 DEF AddDiff
<1>7. CASE c.type = "step"
  <2>1. c.diff \in Nat /\ c.diff > 0
    BY <1>7, CmdParts, StreamAssumption
  <2>2. AddDiff(0, c) = c.diff
    BY <1>7, <2>1 DEF AddDiff
  <2>3. RunCommand(s, c) = [s EXCEPT !.buffered = s.buffered - c.diff]
    BY <1>1, <1>7, <2>1, <2>2 DEF RunCommand, RunStepCmd
  <2>4. Effect(s.objs, c) = s.objs
    BY <1>7 DEF Effect
  <2> QED
    BY <1>5, <2>2, <2>3, <2>4 DEF Later
<1>8. CASE c.type = "add"
  <2>0. c.slot[2] <= MaxIndex[Kind(c.slot)]
    BY <1>8, CmdParts DEF Slot
  <2>1. RunCommand(s, c) = [s EXCEPT !.objs = Filled(s.objs, c.slot, c.object)]
    BY <1>8, <2>0 DEF RunCommand, RunAdd, Fits
  <2>2. Effect(s.objs, c) = Filled(s.objs, c.slot, c.object)
    BY <1>8 DEF Effect
  <2> QED
    BY <1>4, <1>6, <1>8, <2>1, <2>2 DEF Later
<1>9. CASE c.type = "remove"
  <2> DEFINE left == Without(s.objs, {c.slot} \cup Nodes(s.objs, c.slot))
  <2>1. RunCommand(s, c) = [s EXCEPT !.objs = left]
    BY <1>9 DEF RunCommand, RunRemove, Fits
  <2>2. Effect(s.objs, c) = left
    BY <1>9 DEF Effect
  <2> HIDE DEF left
  <2> QED
    BY <1>4, <1>6, <1>9, <2>1, <2>2 DEF Later
<1>10. CASE c.type = "set"
  <2> DEFINE set == [s.objs EXCEPT ![c.slot].ref = c.ref]
  <2>1. RunCommand(s, c) = [s EXCEPT !.objs = set]
    BY <1>10 DEF RunCommand, RunSet, Fits
  <2>2. Effect(s.objs, c) = set
    BY <1>10 DEF Effect
  <2> HIDE DEF set
  <2> QED
    BY <1>4, <1>6, <1>10, <2>1, <2>2 DEF Later
<1>11. CASE c.type = "correct"
  <2> DEFINE other == \E n \in c.nodes :
                        ~Has(s.objs, n.slot) \/ s.objs[n.slot].what # n.what
  <2>1. ~other
    BY <1>11 DEF Fits
  <2>2. RunCommand(s, c) = [s EXCEPT !.mixed = s.mixed \/ other]
    BY <1>11 DEF RunCommand, RunCorrect
  <2> HIDE DEF other
  <2>3. [s EXCEPT !.mixed = s.mixed \/ other] = s
    <3>1. (s.mixed \/ other) = s.mixed
      BY <2>1 DEF Session
    <3> QED
      BY <3>1 DEF Session
  <2>4. Effect(s.objs, c) = s.objs
    BY <1>11 DEF Effect
  <2> QED
    BY <1>3, <1>6, <1>11, <2>2, <2>3, <2>4 DEF Later
<1> QED
  BY <1>2, <1>7, <1>8, <1>9, <1>10, <1>11

LEMMA BeginType ==
  ASSUME NEW s \in Session, NEW o \in Seq(Owed)
  PROVE  Begin(s, o) \in World
  BY DEF Begin, World, Session

LEMMA TimeAppend ==
  ASSUME NEW p \in Seq(Cmd), NEW x \in Cmd
  PROVE  /\ Time(p) \in Nat /\ AddDiff(0, x) \in Nat
         /\ Time(Append(p, x)) = Time(p) + AddDiff(0, x)
<1>1. Time(p) \in Nat /\ AddDiff(0, x) \in Nat
  BY TimedType, AddDiffType DEF Time
<1>2. Time(Append(p, x)) = AddDiff(Time(p), x)
  BY Timing!FoldAppend DEF Time
<1>3. AddDiff(Time(p), x) = Time(p) + AddDiff(0, x)
  <2>1. CASE x.type = "step"
    <3>1. x.diff \in Nat
      BY <2>1, CmdParts, StreamAssumption
    <3> QED
      BY <1>1, <2>1, <3>1 DEF AddDiff
  <2>2. CASE x.type # "step"
    BY <1>1, <2>2 DEF AddDiff
  <2> QED
    BY <2>1, <2>2
<1> QED
  BY <1>1, <1>2, <1>3

LEMMA Collected ==
  ASSUME NEW s \in Session, ~s.ended, ~s.mixed, NEW o \in Seq(Owed),
         NEW q \in Seq(Cmd), Time(q) <= s.buffered,
         Playing!Fold(Begin(s, o), q).ok
  PROVE  LET played == Playing!Fold(Begin(s, o), q)
             later == Later(s, played.objs, s.buffered - Time(q))
         IN /\ Collecting!Fold([session |-> s, owed |-> o], q) =
                 [session |-> later, owed |-> played.owed]
            /\ Running!Fold(s, q) = later
<1> DEFINE F(p) == Playing!Fold(Begin(s, o), p)
           later(p) == Later(s, F(p).objs, s.buffered - Time(p))
           col(p) == Collecting!Fold([session |-> s, owed |-> o], p)
           run(p) == Running!Fold(s, p)
           T == {p \in Seq(Cmd) :
                   F(p).ok /\ Time(p) <= s.buffered =>
                     /\ col(p) = [session |-> later(p), owed |-> F(p).owed]
                     /\ run(p) = later(p)}
<1>1. s.buffered \in Nat /\ s.objs \in Objs
  BY DEF Session
<1>2. <<>> \in T
  <2>1. F(<<>>) = Begin(s, o) /\ col(<<>>) = [session |-> s, owed |-> o] /\ run(<<>>) = s
    BY Playing!FoldEmpty, Collecting!FoldEmpty, Running!FoldEmpty
  <2>2. Time(<<>>) = 0
    BY Timing!FoldEmpty DEF Time
  <2>3. Later(s, s.objs, s.buffered) = s
    BY DEF Later, Session
  <2>4. later(<<>>) = s /\ F(<<>>).owed = o
    <3>1. F(<<>>).objs = s.objs /\ F(<<>>).owed = o
      BY <2>1 DEF Begin
    <3>2. s.buffered - Time(<<>>) = s.buffered
      BY <1>1, <2>2
    <3> QED
      BY <2>3, <3>1, <3>2
  <2> HIDE DEF F, col, run, later
  <2> QED
    BY <2>1, <2>4, EmptySeq
<1>3. ASSUME NEW p \in Seq(Cmd), NEW x \in Cmd, p \in T
      PROVE  Append(p, x) \in T
  <2> DEFINE px == Append(p, x)
  <2>1. px \in Seq(Cmd)
    BY AppendProperties
  <2>2. F(px) = Play(F(p), x)
    <3>1. p \in Seq(Item) /\ x \in Item
      BY CmdIsItem DEF Item
    <3> QED
      BY <3>1, Playing!FoldAppend
  <2>3. col(px) = Collect(col(p), x) /\ run(px) = RunCommand(run(p), x)
    BY Collecting!FoldAppend, Running!FoldAppend
  <2>4. Time(p) \in Nat /\ AddDiff(0, x) \in Nat /\ Time(px) = Time(p) + AddDiff(0, x)
    BY TimeAppend
  <2>5. F(p) \in World
    <3>1. p \in Seq(Item) /\ Begin(s, o) \in World
      BY CmdIsItem, BeginType
    <3> QED
      BY <3>1, PlayedType
  <2> HIDE DEF F, col, run, px
  <2> SUFFICES ASSUME F(px).ok, Time(px) <= s.buffered
               PROVE  /\ col(px) = [session |-> later(px), owed |-> F(px).owed]
                      /\ run(px) = later(px)
    BY <2>1 DEF px
  <2> DEFINE t == later(p)
  <2>6. F(p).ok /\ Fits(F(p).objs, x)
    <3>1. x \in Item
      BY DEF Item
    <3> QED
      BY <2>2, <2>5, <3>1, PlayType
  <2>7. F(px) = [ok |-> TRUE, objs |-> Effect(F(p).objs, x),
                 owed |-> F(p).owed \o Owes(F(p).objs, x)]
    BY <2>2, <2>6, PlayWell
  <2>8. Time(p) <= s.buffered /\ AddDiff(0, x) <= s.buffered - Time(p)
        /\ s.buffered - Time(p) \in Nat
        /\ (s.buffered - Time(p)) - AddDiff(0, x) = s.buffered - Time(px)
    BY <1>1, <2>4
  <2>9. col(p) = [session |-> t, owed |-> F(p).owed] /\ run(p) = t
    BY <1>3, <2>6, <2>8
  <2>10. /\ t \in Session /\ ~t.ended /\ ~t.mixed
         /\ t.objs = F(p).objs /\ t.buffered = s.buffered - Time(p)
    <3>1. F(p).objs \in Objs
      BY <2>5 DEF World
    <3>2. \A ob \in Objs, n \in Nat : LET u == Later(s, ob, n) IN
            u \in Session /\ ~u.ended /\ ~u.mixed /\ u.objs = ob /\ u.buffered = n
      BY DEF Session, Later
    <3> QED
      BY <2>8, <3>1, <3>2
  <2>11. \A ob1, ob2, n1, n2 : Later(Later(s, ob1, n1), ob2, n2) = Later(s, ob2, n2)
    BY DEF Later, Session
  <2>12. RunCommand(t, x) = later(px)
    <3> DEFINE n == s.buffered - Time(p)
    <3>1. RunCommand(t, x) = Later(t, Effect(t.objs, x), t.buffered - AddDiff(0, x))
      <4>1. Fits(t.objs, x) /\ AddDiff(0, x) <= t.buffered
        BY <2>6, <2>8, <2>10
      <4> HIDE DEF t
      <4> QED
        BY <2>10, <4>1, RunMatches
    <3>2. Effect(t.objs, x) = F(px).objs
      BY <2>7, <2>10
    <3>3. t.buffered - AddDiff(0, x) = s.buffered - Time(px)
      BY <2>8, <2>10
    <3> QED
      BY <2>11, <3>1, <3>2, <3>3
  <2>13. Collect(col(p), x) = [session |-> later(px), owed |-> F(px).owed]
    <3>1. later(px).objs = F(px).objs
      BY DEF Later, Session
    <3>2. F(p).owed \in Seq(Owed) /\ F(p).objs \in Objs
      BY <2>5 DEF World
    <3>3. CASE x.type = "step"
      <4>1. F(px).objs = F(p).objs /\ F(px).owed = F(p).owed \o <<Moment(F(p).objs)>>
        BY <2>7, <3>3 DEF Effect, Owes
      <4>2. Moment(F(p).objs) \in Owed
        BY <3>2 DEF Moment, Owed
      <4>3. F(px).owed = Append(F(p).owed, Moment(F(p).objs))
        BY <3>2, <4>1, <4>2, AppendIsConcat
      <4>4. Collect(col(p), x) = [session |-> later(px),
                                  owed |-> Append(F(p).owed, Moment(later(px).objs))]
        BY <2>9, <2>12, <3>3 DEF Collect
      <4> QED
        BY <3>1, <4>1, <4>3, <4>4
    <3>4. CASE x.type # "step"
      <4>5. Owes(F(p).objs, x) = <<>>
        BY <3>4, CmdParts DEF Owes
      <4>1. F(px).owed = F(p).owed \o <<>>
        BY <2>7, <4>5
      <4>2. F(px).owed = F(p).owed
        BY <3>2, <4>1, ConcatEmptySeq
      <4>3. Collect(col(p), x) = [session |-> later(px), owed |-> F(p).owed]
        BY <2>9, <2>12, <3>4 DEF Collect
      <4> QED
        BY <4>2, <4>3
    <3> QED
      BY <3>3, <3>4
  <2> QED
    BY <2>3, <2>9, <2>12, <2>13
<1>4. q \in T
  <2> HIDE DEF T
  <2> QED
    BY <1>2, <1>3, SequenceInduction
<1> QED
  BY <1>4

-----------------------------------------------------------------------------
(* What is on its way to a client does what the play says.                 *)

Heard == INSTANCE FoldProofs WITH Op <- Hear

LEMMA HeardAll == \A b, q : Through(Hear, b, q) = Heard!Fold(b, q)
  BY DEF Through, Heard!Fold

LEMMA OutcomeSplit ==
  ASSUME NEW s \in Session, NEW o \in Seq(Owed)
  PROVE  /\ Outcome(s, o) = Playing!Fold(Playing!Fold(Begin(s, o), s.cmds), s.pending)
         /\ Outcome(s, o) \in World
         /\ Playing!Fold(Begin(s, o), s.cmds) \in World
         /\ Outcome(s, o).ok => Playing!Fold(Begin(s, o), s.cmds).ok
<1>1. s.cmds \in Seq(Cmd) /\ s.pending \in Seq(Cmd)
  BY DEF Session
<1>2. s.cmds \in Seq(Item) /\ s.pending \in Seq(Item)
  BY <1>1, CmdIsItem
<1>3. Outcome(s, o) = Playing!Fold(Playing!Fold(Begin(s, o), s.cmds), s.pending)
  BY <1>2, PlayedConcat DEF Outcome
<1>4. Playing!Fold(Begin(s, o), s.cmds) \in World
  BY <1>2, BeginType, PlayedType
<1> QED
  BY <1>2, <1>3, <1>4, PlayedType

\* What cannot run yet is only the start of a moment.
Idle(a) == Good(a.session) /\ a.session.cmds = <<>> /\ a.owed \in Seq(Owed)

Out(a) == Outcome(a.session, a.owed)

LEMMA IdleOut ==
  ASSUME NEW a, Idle(a)
  PROVE  /\ Out(a) = Playing!Fold(Begin(a.session, a.owed), a.session.pending)
         /\ Out(a) \in World
         /\ Out(a).owed = a.owed
         /\ Out(a).ok => ~a.session.ended /\ ~a.session.mixed
<1>1. /\ a.session \in Session /\ a.session.pending \in Seq(Cmd)
      /\ NoSteps(a.session.pending) /\ a.owed \in Seq(Owed)
  BY DEF Idle, Good, Session
<1>2. Playing!Fold(Begin(a.session, a.owed), <<>>) = Begin(a.session, a.owed)
  BY Playing!FoldEmpty
<1>3. Out(a) = Playing!Fold(Begin(a.session, a.owed), a.session.pending) /\ Out(a) \in World
  BY <1>1, <1>2, OutcomeSplit DEF Idle, Out
<1>4. Begin(a.session, a.owed) \in World
  BY <1>1, BeginType
<1>5. Out(a).owed = Begin(a.session, a.owed).owed
  BY <1>1, <1>3, <1>4, PlayedQuiet
<1>6. Out(a).ok => Begin(a.session, a.owed).ok
  BY <1>1, <1>3, <1>4, PlayedType, CmdIsItem
<1> QED
  BY <1>3, <1>5, <1>6 DEF Begin

LEMMA RunsAll ==
  ASSUME NEW s, Good(s), NEW o \in Seq(Owed), Outcome(s, o).ok
  PROVE  LET a == RunAll([session |-> s, owed |-> o])
         IN Idle(a) /\ Out(a) = Outcome(s, o)
<1> DEFINE q == s.cmds
           t == [s EXCEPT !.cmds = <<>>]
           played == Playing!Fold(Begin(s, o), q)
           a == [session |-> Later(t, played.objs, 0), owed |-> played.owed]
<1>1. s \in Session /\ q \in Seq(Cmd) /\ NoSteps(s.pending) /\ s.buffered = Time(q)
      /\ s.buffered \in Nat
  BY DEF Good, Session
<1>2. /\ t \in Session /\ t.buffered = s.buffered /\ t.objs = s.objs /\ t.cmds = <<>>
      /\ t.ended = s.ended /\ t.mixed = s.mixed /\ t.pending = s.pending
  <2>1. <<>> \in Seq(Cmd)
    BY EmptySeq
  <2> QED
    BY <1>1, <2>1, SessionExcept DEF Session
<1>3. Begin(t, o) = Begin(s, o)
  BY <1>2 DEF Begin
<1>4. played.ok /\ played \in World
  BY <1>1, OutcomeSplit
<1>5. ~s.ended /\ ~s.mixed
  <2>1. Begin(s, o).ok
    BY <1>1, <1>4, BeginType, PlayedType, CmdIsItem
  <2> QED
    BY <2>1 DEF Begin
<1>6. RunAll([session |-> s, owed |-> o]) = Collecting!Fold([session |-> t, owed |-> o], q)
  <2>1. [[session |-> s, owed |-> o] EXCEPT !.session.cmds = <<>>] = [session |-> t, owed |-> o]
    OBVIOUS
  <2> QED
    BY <2>1, CollectedAll DEF RunAll
<1> HIDE DEF t, q
<1>7. Collecting!Fold([session |-> t, owed |-> o], q) =
        [session |-> Later(t, played.objs, t.buffered - Time(q)), owed |-> played.owed]
  <2>1. Time(q) <= t.buffered /\ ~t.ended /\ ~t.mixed
    BY <1>1, <1>2, <1>5
  <2>2. Playing!Fold(Begin(t, o), q).ok
    BY <1>3, <1>4
  <2> QED
    BY <1>1, <1>2, <1>3, <2>1, <2>2, Collected
<1>8. t.buffered - Time(q) = 0
  BY <1>1, <1>2
<1>9. RunAll([session |-> s, owed |-> o]) = a
  BY <1>6, <1>7, <1>8
<1>10. played.objs \in Objs /\ played.owed \in Seq(Owed)
  BY <1>4 DEF World
<1> HIDE DEF played
<1>11. /\ a.session \in Session /\ a.session.cmds = <<>> /\ a.session.pending = s.pending
       /\ a.session.buffered = 0 /\ a.session.objs = played.objs
       /\ ~a.session.ended /\ ~a.session.mixed /\ a.owed = played.owed
  BY <1>2, <1>5, <1>10 DEF Later, Session
<1>12. Time(<<>>) = 0
  BY Timing!FoldEmpty DEF Time
<1> HIDE DEF a
<1>13. Idle(a)
  BY <1>1, <1>10, <1>11, <1>12 DEF Idle, Good
<1>14. Begin(a.session, a.owed) = played
  BY <1>4, <1>11 DEF Begin, World
<1>15. Out(a) = Playing!Fold(played, s.pending)
  BY <1>11, <1>13, <1>14, IdleOut
<1>16. Outcome(s, o) = Playing!Fold(played, s.pending)
  BY <1>1, OutcomeSplit DEF played, q
<1> QED
  BY <1>9, <1>13, <1>15, <1>16

\* A message other than a reset makes the play go on.
LEMMA Received ==
  ASSUME NEW s, Good(s), NEW m \in Msg, m.type # "reset", NEW o \in Seq(Owed)
  PROVE  /\ Good(HandleSessionMessage(s, m))
         /\ Outcome(HandleSessionMessage(s, m), o) = PlayMsg(Outcome(s, o), m)
         /\ HandleSessionMessage(s, m).objs = s.objs
<1> DEFINE t == HandleSessionMessage(s, m)
           q == Items(m)
           all == s.cmds \o s.pending
<1>1. q \in Seq(Cmd)
  BY ItemsType
<1>2. t = Through(AddCommand, s, q)
  <2>1. CASE m.type = "commands"
    BY <2>1 DEF HandleSessionMessage, Items
  <2>2. CASE m.type = "correction"
    <3>1. t = AddCommand(s, CorrectCmd(m.nodes)) /\ q = <<CorrectCmd(m.nodes)>>
      BY <2>2 DEF HandleSessionMessage, Items
    <3>2. \A x : Through(AddCommand, s, <<x>>) = AddCommand(s, x)
      BY AddedAll, Adding!FoldOne
    <3> QED
      BY <3>1, <3>2
  <2> QED
    BY <2>1, <2>2, MsgParts
<1>3. /\ Good(t) /\ t.cmds \o t.pending = all \o q
      /\ t.objs = s.objs /\ t.ended = s.ended /\ t.mixed = s.mixed
  <2> HIDE DEF q, t
  <2> QED
    BY <1>1, <1>2, Queued
<1>4. Begin(t, o) = Begin(s, o)
  BY <1>3 DEF Begin
<1>5. all \in Seq(Cmd)
  BY ConcatProperties DEF Good, Session
<1>6. all \in Seq(Item) /\ q \in Seq(Item)
  BY <1>1, <1>5, CmdIsItem
<1> HIDE DEF q, t, all
<1>7. Outcome(t, o) = Playing!Fold(Begin(s, o), all \o q)
  BY <1>3, <1>4 DEF Outcome
<1>8. Playing!Fold(Begin(s, o), all \o q) = Playing!Fold(Playing!Fold(Begin(s, o), all), q)
  BY <1>6, PlayedConcat
<1>9. Playing!Fold(Begin(s, o), all) = Outcome(s, o)
  BY DEF Outcome, all
<1>10. PlayMsg(Outcome(s, o), m) = Playing!Fold(Outcome(s, o), q)
  BY DEF PlayMsg, q
<1> QED
  BY <1>3, <1>7, <1>8, <1>9, <1>10 DEF t

LEMMA NewParts ==
  /\ NewClientSession \in Session
  /\ NewClientSession.objs = NoObjects /\ NewClientSession.cmds = <<>>
  /\ NewClientSession.pending = <<>> /\ NewClientSession.buffered = 0
  /\ NewClientSession.ended = FALSE /\ NewClientSession.mixed = FALSE
<1>1. NoObjects \in Objs /\ <<>> \in Seq(Cmd)
  BY NoObjectsType, EmptySeq
<1> QED
  BY <1>1 DEF NewClientSession, Session

LEMMA ResetParts ==
  ASSUME NEW s \in Session
  PROVE  LET t == Reset(s) IN
         /\ Good(t) /\ t.cmds = <<>> /\ t.pending = <<>> /\ t.objs = NoObjects
         /\ t.ended = s.ended /\ t.mixed = s.mixed
<1> DEFINE t == Reset(s)
           new == NewClientSession
<1>1. s.ended \in BOOLEAN /\ s.mixed \in BOOLEAN
  BY DEF Session
<1>2. t = [new EXCEPT !.ended = s.ended, !.mixed = s.mixed]
  BY DEF Reset
<1>3. /\ new \in Session /\ new.objs = NoObjects /\ new.cmds = <<>>
      /\ new.pending = <<>> /\ new.buffered = 0
  BY NewParts
<1> HIDE DEF t, new
<1>4. /\ t \in Session /\ t.objs = new.objs /\ t.cmds = new.cmds
      /\ t.pending = new.pending /\ t.buffered = new.buffered
      /\ t.ended = s.ended /\ t.mixed = s.mixed
  BY <1>1, <1>2, <1>3 DEF Session
<1>5. Time(<<>>) = 0
  BY Timing!FoldEmpty DEF Time
<1>6. NoSteps(<<>>)
  BY DEF NoSteps
<1> QED
  BY <1>3, <1>4, <1>5, <1>6 DEF Good, t

LEMMA PlayReset ==
  ASSUME NEW w, w.ok
  PROVE  PlayMsg(w, ResetMsg) =
           [ok |-> TRUE, objs |-> NoObjects, owed |-> w.owed \o <<Cut>>]
<1>1. ResetMsg.type = "reset"
  BY DEF ResetMsg
<1>2. Items(ResetMsg) = <<ResetMsg>>
  BY <1>1 DEF Items
<1>3. Playing!Fold(w, <<ResetMsg>>) = Play(w, ResetMsg)
  BY Playing!FoldOne
<1>4. Fits(w.objs, ResetMsg) /\ Effect(w.objs, ResetMsg) = NoObjects
      /\ Owes(w.objs, ResetMsg) = <<Cut>>
  BY <1>1 DEF Fits, Effect, Owes
<1> QED
  BY <1>2, <1>3, <1>4, PlayWell DEF PlayMsg

LEMMA EmptyOutcome ==
  ASSUME NEW s, s.cmds = <<>>, s.pending = <<>>, NEW o
  PROVE  Outcome(s, o) = Begin(s, o)
<1>1. <<>> \o <<>> = <<>>
  OBVIOUS
<1> QED
  BY <1>1, Playing!FoldEmpty DEF Outcome

LEMMA Hears ==
  ASSUME NEW a, Idle(a), NEW m \in Msg, PlayMsg(Out(a), m).ok
  PROVE  Idle(Hear(a, m)) /\ Out(Hear(a, m)) = PlayMsg(Out(a), m)
<1>1. Good(a.session) /\ a.session \in Session /\ a.owed \in Seq(Owed) /\ Out(a) \in World
  BY IdleOut DEF Idle, Good
<1>2. CASE m.type = "reset"
  <2> DEFINE t == Reset(a.session)
             o == Append(a.owed, Cut)
  <2>1. m = ResetMsg
    BY <1>2, MsgParts
  <2>2. Out(a).ok
    <3>1. Items(m) \in Seq(Item)
      BY ItemsType
    <3> QED
      BY <1>1, <3>1, PlayedType DEF PlayMsg
  <2>3. Out(a).owed = a.owed /\ ~a.session.ended /\ ~a.session.mixed
    BY <2>2, IdleOut
  <2>4. PlayMsg(Out(a), m) = [ok |-> TRUE, objs |-> NoObjects, owed |-> a.owed \o <<Cut>>]
    BY <2>1, <2>2, <2>3, PlayReset
  <2>5. Cut \in Owed
    BY DEF Owed
  <2>6. o \in Seq(Owed) /\ o = a.owed \o <<Cut>>
    BY <1>1, <2>5, AppendProperties, AppendIsConcat
  <2>7. Good(t) /\ t.cmds = <<>> /\ t.pending = <<>> /\ t.objs = NoObjects
        /\ t.ended = a.session.ended /\ t.mixed = a.session.mixed
    BY <1>1, ResetParts
  <2>8. Hear(a, m) = RunAll([session |-> t, owed |-> o])
    BY <1>2 DEF Hear, HandleSessionMessage
  <2> HIDE DEF t, o
  <2>9. Outcome(t, o) = [ok |-> TRUE, objs |-> NoObjects, owed |-> o]
    BY <2>3, <2>7, EmptyOutcome DEF Begin
  <2> QED
    BY <2>4, <2>6, <2>7, <2>8, <2>9, RunsAll
<1>3. CASE m.type # "reset"
  <2> DEFINE t == HandleSessionMessage(a.session, m)
  <2>1. Hear(a, m) = RunAll([session |-> t, owed |-> a.owed])
    BY <1>3 DEF Hear
  <2>2. Good(t) /\ Outcome(t, a.owed) = PlayMsg(Out(a), m)
    BY <1>1, <1>3, Received DEF Out
  <2> HIDE DEF t
  <2> QED
    BY <1>1, <2>1, <2>2, RunsAll
<1> QED
  BY <1>2, <1>3

LEMMA HearsAll ==
  ASSUME NEW a, Idle(a), NEW q \in Seq(Msg), Hearing!Fold(Out(a), q).ok
  PROVE  /\ Idle(Heard!Fold(a, q))
         /\ Out(Heard!Fold(a, q)) = Hearing!Fold(Out(a), q)
<1> DEFINE W(p) == Hearing!Fold(Out(a), p)
           A(p) == Heard!Fold(a, p)
           T == {p \in Seq(Msg) : W(p).ok => Idle(A(p)) /\ Out(A(p)) = W(p)}
<1>1. <<>> \in T
  <2>1. W(<<>>) = Out(a) /\ A(<<>>) = a
    BY Hearing!FoldEmpty, Heard!FoldEmpty
  <2> HIDE DEF W, A
  <2> QED
    BY <2>1, EmptySeq
<1>2. ASSUME NEW p \in Seq(Msg), NEW x \in Msg, p \in T
      PROVE  Append(p, x) \in T
  <2>1. W(Append(p, x)) = PlayMsg(W(p), x) /\ A(Append(p, x)) = Hear(A(p), x)
    BY Hearing!FoldAppend, Heard!FoldAppend
  <2>2. Append(p, x) \in Seq(Msg)
    BY AppendProperties
  <2>3. W(p) \in World
    BY IdleOut, HeardType
  <2>4. PlayMsg(W(p), x).ok => W(p).ok
    BY <2>3, ItemsType, PlayedType DEF PlayMsg
  <2> HIDE DEF W, A
  <2>5. ASSUME W(Append(p, x)).ok
        PROVE  Idle(A(Append(p, x))) /\ Out(A(Append(p, x))) = W(Append(p, x))
    <3>1. Idle(A(p)) /\ Out(A(p)) = W(p)
      BY <1>2, <2>1, <2>4, <2>5
    <3>2. PlayMsg(Out(A(p)), x).ok
      BY <2>1, <2>5, <3>1
    <3> QED
      BY <2>1, <3>1, <3>2, Hears
  <2> QED
    BY <2>2, <2>5
<1>3. q \in T
  <2> HIDE DEF T
  <2> QED
    BY <1>1, <1>2, SequenceInduction
<1> QED
  BY <1>3

-----------------------------------------------------------------------------
(* The properties follow from the invariant.                               *)

LEMMA HostShipped ==
  ASSUME NEW h, h.out \in Seq(Cmd), NEW w
  PROVE  /\ Shipped(h) \in Seq(Msg)
         /\ Hearing!Fold(w, Shipped(h)) = Playing!Fold(w, h.out)
<1>1. CASE h.out = <<>>
  BY <1>1, Hearing!FoldEmpty, Playing!FoldEmpty, EmptySeq DEF Shipped
<1>2. CASE h.out # <<>>
  <2> DEFINE m == CommandsMsg(h.out)
  <2>1. Shipped(h) = <<m>>
    BY <1>2 DEF Shipped
  <2>2. m \in Msg /\ m.type = "commands" /\ m.cmds = h.out
    BY DEF CommandsMsg, Msg
  <2> HIDE DEF m
  <2>3. Items(m) = h.out
    BY <2>2 DEF Items
  <2>4. Hearing!Fold(w, <<m>>) = PlayMsg(w, m)
    BY Hearing!FoldOne
  <2> QED
    BY <2>1, <2>2, <2>3, <2>4 DEF PlayMsg
<1> QED
  BY <1>1, <1>2

LEMMA InvParts ==
  ASSUME IInv, NEW c \in Client
  PROVE  /\ Good(session[c]) /\ session[c] \in Session
         /\ channel[c] \in Seq(Msg) /\ promised[c] \in Seq(Owed)
         /\ host.out \in Seq(Cmd)
         /\ Fate(c).ok /\ Fate(c).owed = promised[c]
         /\ c \in clients => Fate(c).objs = host.objs
  BY DEF IInv, Typed, HostOK, Waits, Arrives, Good

\* Ahead runs to what the play comes to.
LEMMA AheadIsFate ==
  ASSUME IInv, NEW c \in Client
  PROVE  Idle(Ahead(c)) /\ Out(Ahead(c)) = Fate(c)
<1> DEFINE s == session[c]
           a == RunAll([session |-> s, owed |-> <<>>])
           shipped == IF c \in clients THEN Shipped(host) ELSE <<>>
           out == IF c \in clients THEN host.out ELSE <<>>
           w == Outcome(s, <<>>)
           v == Hearing!Fold(w, channel[c])
<1>1. /\ Good(s) /\ s \in Session /\ channel[c] \in Seq(Msg)
      /\ host.out \in Seq(Cmd) /\ Fate(c).ok
  BY InvParts
<1>2. <<>> \in Seq(Owed) /\ <<>> \in Seq(Cmd) /\ <<>> \in Seq(Msg)
  BY EmptySeq
<1>3. UnderWay(c) = channel[c] \o shipped /\ shipped \in Seq(Msg)
      /\ UnderWay(c) \in Seq(Msg)
  <2>1. CASE c \in clients
    BY <1>1, <2>1, HostShipped, ConcatProperties DEF UnderWay
  <2>2. CASE c \notin clients
    <3>1. channel[c] = <<>>
      BY <2>2 DEF IInv, Waits
    <3>2. <<>> \o <<>> = <<>>
      OBVIOUS
    <3> QED
      BY <1>2, <2>2, <3>1, <3>2 DEF UnderWay
  <2> QED
    BY <2>1, <2>2
<1>4. Hearing!Fold(v, shipped) = Playing!Fold(v, out) /\ out \in Seq(Item)
  <2>1. CASE c \in clients
    BY <1>1, <2>1, HostShipped, CmdIsItem
  <2>2. CASE c \notin clients
    BY <1>2, <2>2, Hearing!FoldEmpty, Playing!FoldEmpty, CmdIsItem
  <2> QED
    BY <2>1, <2>2
<1>5. Fate(c) = Playing!Fold(v, out)
  BY DEF Fate
<1>6. w \in World /\ v \in World
  BY <1>1, <1>2, OutcomeSplit, HeardType
<1> HIDE DEF s, a, shipped, out, w, v
<1>7. v.ok
  BY <1>1, <1>4, <1>5, <1>6, PlayedType
<1>8. w.ok
  BY <1>1, <1>6, <1>7, HeardType DEF v
<1>9. Idle(a) /\ Out(a) = w
  BY <1>1, <1>2, <1>8, RunsAll DEF a, w
<1>10. Hearing!Fold(w, UnderWay(c)) = Fate(c)
  <2>1. Hearing!Fold(w, channel[c] \o shipped) = Hearing!Fold(v, shipped)
    BY <1>1, <1>3, Hearing!FoldConcat DEF v
  <2> QED
    BY <1>3, <1>4, <1>5, <2>1
<1>11. Ahead(c) = Heard!Fold(a, UnderWay(c))
  BY HeardAll DEF Ahead, a, s
<1> QED
  BY <1>1, <1>3, <1>9, <1>10, <1>11, HearsAll

LEMMA IInvPromises ==
  ASSUME IInv
  PROVE  NoClientErrors /\ CorrectionsFit /\ PromiseKept
<1>1. ASSUME NEW c \in Client
      PROVE  /\ ~Ahead(c).session.ended /\ ~Ahead(c).session.mixed
             /\ Ahead(c).owed = promised[c]
  <2>1. Idle(Ahead(c)) /\ Out(Ahead(c)) = Fate(c)
    BY AheadIsFate
  <2>2. Fate(c).ok /\ Fate(c).owed = promised[c]
    BY InvParts
  <2> QED
    BY <2>1, <2>2, IdleOut
<1> QED
  BY <1>1 DEF NoClientErrors, CorrectionsFit, PromiseKept

LEMMA IInvTypeOK ==
  ASSUME IInv
  PROVE  TypeOK
<1>1. /\ Typed /\ Lists(host) /\ host.objs \in Objs
      /\ \A c \in Client : Waits(c)
  BY DEF IInv, HostOK
<1>2. ASSUME NEW slot \in DOMAIN host.objs
      PROVE  slot \in Slot /\ host.objs[slot] \in ObjectType
  <2>1. slot \in Slot /\ host.objs[slot] \in Obj
    BY <1>1, ObjsParts
  <2>2. host.objs[slot].what \in 1 .. made
    BY <1>1 DEF Typed
  <2> QED
    BY <2>1, <2>2 DEF Obj, Ref, ObjectType
<1>3. ASSUME NEW k \in Kinds
      PROVE  LET used == {slot[2] : slot \in Objects(k)}
                 free == {host.free[k][i] : i \in DOMAIN host.free[k]}
             IN /\ used \cup free = 0 .. (host.size[k] - 1)
                /\ used \cap free = {}
                /\ Len(host.free[k]) = Cardinality(free)
  <2> DEFINE f == host.free[k]
             free == {f[i] : i \in DOMAIN f}
  <2>1. Used(host, k) = {slot[2] : slot \in Objects(k)} /\ Free(host, k) = free
    BY DEF Used, Free, Objects
  <2>2. /\ Used(host, k) \cup Free(host, k) = 0 .. (host.size[k] - 1)
        /\ Used(host, k) \cap Free(host, k) = {}
    BY <1>1 DEF Lists
  <2>3. f \in Seq(Nat) /\ \A i, j \in DOMAIN f : f[i] = f[j] => i = j
    BY <1>1 DEF Lists
  <2>4. Len(f) = Cardinality(free)
    <3> HIDE DEF f
    <3>1. DOMAIN f = 1 .. Len(f) /\ Len(f) \in Nat
      BY <2>3, LenProperties
    <3> DEFINE n == Len(f)
    <3>2. f \in [1 .. n -> free]
      <4>1. f \in [1 .. n -> Nat]
        BY <2>3, LenProperties
      <4> QED
        BY <3>1, <4>1
    <3>3. f \in Bijection(1 .. n, free)
      <4>1. f \in Injection(1 .. n, free)
        BY <2>3, <3>1, <3>2 DEF Injection, IsInjective
      <4>2. f \in Surjection(1 .. n, free)
        BY <3>1, <3>2 DEF Surjection
      <4> QED
        BY <4>1, <4>2 DEF Bijection
    <3>5. ExistsBijection(1 .. n, free)
      BY <3>3 DEF ExistsBijection
    <3> HIDE DEF free
    <3> QED
      BY <3>1, <3>5, FS_CountingElements
  <2> QED
    BY <2>1, <2>2, <2>4
<1>4. ASSUME NEW c \in Client \ clients
      PROVE  channel[c] = <<>> /\ session[c] = NewClientSession
  BY <1>1 DEF Waits
<1>5. \A c \in Client : session[c].buffered \in Nat
  BY <1>1 DEF Typed, Session
<1>6. clients \subseteq Client
  BY <1>1 DEF Typed
<1> QED
  BY <1>2, <1>3, <1>4, <1>5, <1>6 DEF TypeOK

-----------------------------------------------------------------------------
(* Sets in some order.                                                     *)

LEMMA InOrder ==
  ASSUME NEW S, IsFiniteSet(S)
  PROVE  LET seq == SetToSeq(S) IN
         /\ seq \in Seq(S)
         /\ DOMAIN seq = 1 .. Len(seq)
         /\ \A i, j \in DOMAIN seq : seq[i] = seq[j] => i = j
         /\ {seq[i] : i \in DOMAIN seq} = S
<1> DEFINE n == Cardinality(S)
           seq == SetToSeq(S)
<1>1. n \in Nat /\ ExistsBijection(1 .. n, S)
  BY FS_CardinalityType
<1>2. PICK f : f \in [1 .. n -> S] /\ IsInjective(f)
  BY <1>1 DEF ExistsBijection, Bijection, Injection
<1>3. seq \in [1 .. n -> S] /\ IsInjective(seq)
  BY <1>2 DEF SetToSeq
<1> HIDE DEF n, seq
<1>4. seq \in Seq(S) /\ Len(seq) = n /\ DOMAIN seq = 1 .. n
  BY <1>1, <1>3, IsASeq
<1>5. seq \in Surjection(1 .. n, S)
  <2>1. seq \in Injection(1 .. n, S)
    BY <1>3 DEF Injection
  <2>2. Cardinality(1 .. n) = n
    <3>1. ExistsBijection(1 .. n, 1 .. n)
      <4>1. [i \in 1 .. n |-> i] \in Bijection(1 .. n, 1 .. n)
        BY DEF Bijection, Injection, Surjection, IsInjective
      <4> QED
        BY <4>1 DEF ExistsBijection
    <3> QED
      BY <1>1, <3>1, FS_CountingElements
  <2> QED
    BY <2>1, <2>2, FS_Injection DEF n
<1> QED
  BY <1>3, <1>4, <1>5 DEF IsInjective, Surjection, seq

-----------------------------------------------------------------------------
(* The lists of slots.                                                     *)

Sound(h) ==
  /\ Shape(h)
  /\ h.objs \in Objs
  /\ IsFiniteSet(DOMAIN h.objs)
  /\ Lists(h)
  /\ h.out \in Seq(Cmd)

LEMMA UsedSlots ==
  ASSUME NEW h, h.objs \in Objs, NEW k \in Kinds
  PROVE  Used(h, k) = {i \in Nat : <<k, i>> \in DOMAIN h.objs}
<1>1. DOMAIN h.objs \subseteq Kinds \X Nat
  BY ObjsParts DEF Slot
<1> QED
  BY <1>1 DEF Used, OfKind, Kind

LEMMA OneList ==
  ASSUME NEW h, Lists(h), NEW k \in Kinds
  PROVE  /\ h.size[k] \in Nat /\ h.size[k] <= MaxIndex[k] + 1
         /\ h.free[k] \in Seq(Nat)
         /\ DOMAIN h.free[k] = 1 .. Len(h.free[k]) /\ Len(h.free[k]) \in Nat
         /\ Used(h, k) \cup Free(h, k) = 0 .. (h.size[k] - 1)
         /\ Used(h, k) \cap Free(h, k) = {}
         /\ \A i, j \in DOMAIN h.free[k] : h.free[k][i] = h.free[k][j] => i = j
<1>1. h.free[k] \in Seq(Nat)
  BY DEF Lists
<1> QED
  BY <1>1, LenProperties DEF Lists

\* The lists of one kind change, and others stay as they are.
LEMMA ListsKept ==
  ASSUME NEW h, Sound(h), NEW g, g.objs \in Objs, NEW kind \in Kinds,
         NEW size \in Nat, NEW free \in Seq(Nat), size <= MaxIndex[kind] + 1,
         g.size = [h.size EXCEPT ![kind] = size],
         g.free = [h.free EXCEPT ![kind] = free],
         \A k \in Kinds \ {kind}, i \in Nat :
           <<k, i>> \in DOMAIN g.objs <=> <<k, i>> \in DOMAIN h.objs,
         \A i \in Nat : <<kind, i>> \in DOMAIN g.objs \/ (\E j \in DOMAIN free : free[j] = i)
                        <=> i < size,
         \A i \in DOMAIN free : <<kind, free[i]>> \notin DOMAIN g.objs,
         \A i, j \in DOMAIN free : free[i] = free[j] => i = j
  PROVE  Lists(g)
<1>1. h.size \in [Kinds -> Nat] /\ h.free \in [Kinds -> Seq(Nat)] /\ h.objs \in Objs
  BY DEF Sound, Lists
<1>2. g.size \in [Kinds -> Nat] /\ g.free \in [Kinds -> Seq(Nat)]
  BY <1>1
<1>3. ASSUME NEW k \in Kinds
      PROVE  /\ g.size[k] <= MaxIndex[k] + 1
             /\ Used(g, k) \cup Free(g, k) = 0 .. (g.size[k] - 1)
             /\ Used(g, k) \cap Free(g, k) = {}
             /\ \A i, j \in DOMAIN g.free[k] : g.free[k][i] = g.free[k][j] => i = j
  <2>1. CASE k = kind
    <3>1. g.size[k] = size /\ g.free[k] = free
      BY <1>1, <2>1
    <3>2. Used(g, k) = {i \in Nat : <<k, i>> \in DOMAIN g.objs}
      BY UsedSlots
    <3>3. Free(g, k) = {free[j] : j \in DOMAIN free}
      BY <3>1 DEF Free
    <3>4. \A j \in DOMAIN free : free[j] \in Nat
      BY LenProperties, ElementOfSeq
    <3>5. Used(g, k) \cup Free(g, k) = {i \in Nat : i < size}
      BY <2>1, <3>2, <3>3, <3>4
    <3>6. {i \in Nat : i < size} = 0 .. (size - 1)
      OBVIOUS
    <3>7. Used(g, k) \cap Free(g, k) = {}
      BY <2>1, <3>2, <3>3
    <3> QED
      BY <2>1, <3>1, <3>5, <3>6, <3>7
  <2>2. CASE k # kind
    <3>1. g.size[k] = h.size[k] /\ g.free[k] = h.free[k]
      BY <1>1, <2>2
    <3>2. Used(g, k) = Used(h, k)
      <4>1. Used(g, k) = {i \in Nat : <<k, i>> \in DOMAIN g.objs}
        BY UsedSlots
      <4>2. Used(h, k) = {i \in Nat : <<k, i>> \in DOMAIN h.objs}
        BY <1>1, UsedSlots
      <4>3. \A i \in Nat : <<k, i>> \in DOMAIN g.objs <=> <<k, i>> \in DOMAIN h.objs
        BY <2>2
      <4> QED
        BY <4>1, <4>2, <4>3
    <3>3. Free(g, k) = Free(h, k)
      BY <3>1 DEF Free
    <3>4. /\ h.size[k] <= MaxIndex[k] + 1
          /\ Used(h, k) \cup Free(h, k) = 0 .. (h.size[k] - 1)
          /\ Used(h, k) \cap Free(h, k) = {}
          /\ \A i, j \in DOMAIN h.free[k] : h.free[k][i] = h.free[k][j] => i = j
      BY OneList DEF Sound
    <3> QED
      BY <3>1, <3>2, <3>3, <3>4
  <2> QED
    BY <2>1, <2>2
<1> QED
  BY <1>2, <1>3 DEF Lists

\* The host has fewer of a kind than clients have indices for.
Room(h, kind) == Cardinality(OfKind(h.objs, kind)) <= MaxIndex[kind]

\* With all indices in use there are as many as objects.
LEMMA AllUsed ==
  ASSUME NEW h, Sound(h), NEW kind \in Kinds, h.free[kind] = <<>>
  PROVE  h.size[kind] = Cardinality(OfKind(h.objs, kind))
<1> DEFINE n == h.size[kind]
           N == 0 .. (n - 1)
           S == OfKind(h.objs, kind)
           f == [i \in N |-> <<kind, i>>]
<1>1. n \in Nat /\ Used(h, kind) \cup Free(h, kind) = N
  BY OneList DEF Sound
<1>2. Free(h, kind) = {}
  BY DEF Free
<1>3. Used(h, kind) = {i \in Nat : <<kind, i>> \in DOMAIN h.objs}
  BY UsedSlots DEF Sound
<1>4. DOMAIN h.objs \subseteq Kinds \X Nat
  BY ObjsParts DEF Sound, Slot
<1>5. S = {<<kind, i>> : i \in N}
  <2>1. ASSUME NEW slot \in S PROVE \E i \in N : slot = <<kind, i>>
    <3>1. slot \in DOMAIN h.objs /\ slot \in Kinds \X Nat /\ slot[1] = kind
      BY <1>4 DEF OfKind, Kind
    <3> QED
      BY <1>1, <1>2, <1>3, <3>1
  <2>2. ASSUME NEW i \in N PROVE <<kind, i>> \in S
    BY <1>1, <1>2, <1>3 DEF OfKind, Kind
  <2> QED
    BY <2>1, <2>2
<1> HIDE DEF N, S
<1>6. f \in Bijection(N, S)
  <2>1. f \in [N -> S]
    BY <1>5
  <2>2. f \in Injection(N, S)
    BY <2>1 DEF Injection, IsInjective
  <2>3. f \in Surjection(N, S)
    BY <1>5, <2>1 DEF Surjection
  <2> QED
    BY <2>2, <2>3 DEF Bijection
<1>7. ExistsBijection(N, S)
  BY <1>6 DEF ExistsBijection
<1>8. IsFiniteSet(N) /\ Cardinality(N) = n
  <2> HIDE DEF n
  <2>1. 0 \in Int /\ n - 1 \in Int /\ n \in Nat
    BY <1>1
  <2>2. /\ IsFiniteSet(0 .. (n - 1))
        /\ Cardinality(0 .. (n - 1)) = IF 0 > n - 1 THEN 0 ELSE (n - 1) - 0 + 1
    BY <2>1, FS_Interval
  <2> QED
    BY <2>1, <2>2 DEF N
<1>9. Cardinality(S) = Cardinality(N)
  BY <1>7, <1>8, FS_Bijection
<1> QED
  BY <1>8, <1>9 DEF S

LEMMA FreeIndex ==
  ASSUME NEW h, Sound(h), NEW kind \in Kinds, Room(h, kind)
  PROVE  /\ GetFreeIndex(h, kind) \in Nat
         /\ <<kind, GetFreeIndex(h, kind)>> \in Slot \ DOMAIN h.objs
<1> DEFINE free == h.free[kind]
           index == GetFreeIndex(h, kind)
<1>1. /\ h.size[kind] \in Nat /\ free \in Seq(Nat)
      /\ DOMAIN free = 1 .. Len(free) /\ Len(free) \in Nat
      /\ Used(h, kind) \cup Free(h, kind) = 0 .. (h.size[kind] - 1)
      /\ Used(h, kind) \cap Free(h, kind) = {}
  BY OneList DEF Sound
<1>2. Used(h, kind) = {i \in Nat : <<kind, i>> \in DOMAIN h.objs}
  BY UsedSlots DEF Sound
<1>0. h.size[kind] <= MaxIndex[kind] + 1 /\ MaxIndex[kind] \in Nat
  BY OneList, StreamAssumption DEF Sound
<1>3. index \in Nat /\ index <= MaxIndex[kind] /\ index \notin Used(h, kind)
  <2>1. CASE free # <<>>
    <3>1. index = free[Len(free)]
      BY <2>1 DEF GetFreeIndex, Last
    <3>2. Len(free) \in 1 .. Len(free)
      BY <1>1, <2>1, EmptySeq
    <3>3. index \in Free(h, kind)
      BY <1>1, <3>1, <3>2 DEF Free
    <3>4. index \in Nat
      BY <1>1, <3>1, <3>2, ElementOfSeq
    <3>5. index \in 0 .. (h.size[kind] - 1)
      BY <1>1, <3>3
    <3> QED
      BY <1>0, <1>1, <3>3, <3>4, <3>5
  <2>2. CASE free = <<>>
    <3>1. index = h.size[kind]
      BY <2>2 DEF GetFreeIndex
    <3>2. index \notin 0 .. (h.size[kind] - 1)
      BY <1>1, <3>1
    <3>3. index <= MaxIndex[kind]
      BY <2>2, <3>1, AllUsed DEF Room
    <3> QED
      BY <1>1, <3>1, <3>2, <3>3
  <2> QED
    BY <2>1, <2>2
<1> QED
  BY <1>2, <1>3 DEF Slot, Kind

\* What a list with its last element taken is.
LEMMA FrontParts ==
  ASSUME NEW S, NEW seq \in Seq(S), seq # <<>>
  PROVE  /\ Front(seq) \in Seq(S)
         /\ Len(Front(seq)) = Len(seq) - 1 /\ Len(seq) \in Nat \ {0}
         /\ DOMAIN seq = 1 .. Len(seq) /\ DOMAIN Front(seq) = 1 .. (Len(seq) - 1)
         /\ \A i \in 1 .. (Len(seq) - 1) : Front(seq)[i] = seq[i]
<1> DEFINE n == Len(seq)
<1>1. n \in Nat /\ n # 0 /\ DOMAIN seq = 1 .. n
  BY LenProperties, EmptySeq
<1>2. \A i \in 1 .. (n - 1) : seq[i] \in S
  BY <1>1, ElementOfSeq
<1>3. /\ SubSeq(seq, 1, n - 1) \in Seq(S)
      /\ Len(SubSeq(seq, 1, n - 1)) = n - 1
      /\ \A i \in 1 .. (n - 1) : SubSeq(seq, 1, n - 1)[i] = seq[i]
  <2>1. n - 1 \in Int /\ 1 \in Int
    BY <1>1
  <2>2. /\ SubSeq(seq, 1, n - 1) \in Seq(S)
        /\ Len(SubSeq(seq, 1, n - 1)) = IF 1 <= n - 1 THEN (n - 1) - 1 + 1 ELSE 0
        /\ \A i \in 1 .. (n - 1) - 1 + 1 : SubSeq(seq, 1, n - 1)[i] = seq[1 + i - 1]
    BY <1>2, <2>1, SubSeqProperties
  <2>3. (n - 1) - 1 + 1 = n - 1 /\ \A i \in 1 .. (n - 1) : 1 + i - 1 = i
    BY <1>1
  <2>4. ~(1 <= n - 1) => n - 1 = 0
    BY <1>1
  <2> QED
    BY <2>2, <2>3, <2>4
<1> DEFINE front == Front(seq)
<1>4. /\ front \in Seq(S) /\ Len(front) = n - 1
      /\ \A i \in 1 .. (n - 1) : front[i] = seq[i]
  BY <1>3 DEF Front
<1> HIDE DEF front
<1>5. DOMAIN front = 1 .. (n - 1)
  BY <1>4, LenProperties
<1> QED
  BY <1>1, <1>4, <1>5 DEF front

LEMMA ShapeParts ==
  ASSUME NEW h, Shape(h)
  PROVE  /\ \A objs : [h EXCEPT !.objs = objs] =
              [objs |-> objs, owner |-> h.owner, size |-> h.size, free |-> h.free, out |-> h.out]
         /\ \A free : [h EXCEPT !.free = free] =
              [objs |-> h.objs, owner |-> h.owner, size |-> h.size, free |-> free, out |-> h.out]
         /\ \A size : [h EXCEPT !.size = size] =
              [objs |-> h.objs, owner |-> h.owner, size |-> size, free |-> h.free, out |-> h.out]
         /\ \A owner : [h EXCEPT !.owner = owner] =
              [objs |-> h.objs, owner |-> owner, size |-> h.size, free |-> h.free, out |-> h.out]
         /\ \A out : [h EXCEPT !.out = out] =
              [objs |-> h.objs, owner |-> h.owner, size |-> h.size, free |-> h.free, out |-> out]
  BY DEF Shape

\* An index is neither in use nor free, and all others are one of both.
Taken(objs, kind, index, size, free) ==
  /\ size <= MaxIndex[kind] + 1
  /\ \A i \in Nat : \/ <<kind, i>> \in DOMAIN objs \/ i = index
                    \/ \E j \in DOMAIN free : free[j] = i
                    <=> i < size
  /\ \A i \in DOMAIN free : <<kind, free[i]>> \notin DOMAIN objs /\ free[i] # index
  /\ \A i, j \in DOMAIN free : free[i] = free[j] => i = j

LEMMA TakenIndex ==
  ASSUME NEW h, Sound(h), NEW kind \in Kinds, Room(h, kind)
  PROVE  LET g == TakeIndex(h, kind) IN
         /\ Shape(g) /\ g.objs = h.objs /\ g.owner = h.owner /\ g.out = h.out
         /\ \E size \in Nat, free \in Seq(Nat) :
              /\ g.size = [h.size EXCEPT ![kind] = size]
              /\ g.free = [h.free EXCEPT ![kind] = free]
              /\ Taken(h.objs, kind, GetFreeIndex(h, kind), size, free)
<1> DEFINE f == h.free[kind]
           n == h.size[kind]
           g == TakeIndex(h, kind)
           index == GetFreeIndex(h, kind)
<1>1. /\ n \in Nat /\ f \in Seq(Nat) /\ DOMAIN f = 1 .. Len(f) /\ Len(f) \in Nat
      /\ Used(h, kind) \cup Free(h, kind) = 0 .. (n - 1)
      /\ Used(h, kind) \cap Free(h, kind) = {}
      /\ \A i, j \in DOMAIN f : f[i] = f[j] => i = j
  BY OneList DEF Sound
<1>0. n <= MaxIndex[kind] + 1 /\ MaxIndex[kind] \in Nat
  BY OneList, StreamAssumption DEF Sound
<1>2. Used(h, kind) = {i \in Nat : <<kind, i>> \in DOMAIN h.objs}
  BY UsedSlots DEF Sound
<1>3. Free(h, kind) = {f[i] : i \in DOMAIN f} /\ \A i \in DOMAIN f : f[i] \in Nat
  BY <1>1, ElementOfSeq DEF Free
<1>4. Shape(h) /\ h.size \in [Kinds -> Nat] /\ h.free \in [Kinds -> Seq(Nat)]
  BY DEF Sound, Lists
<1>5. \A i \in Nat : (<<kind, i>> \in DOMAIN h.objs \/ \E j \in DOMAIN f : f[j] = i) <=> i < n
  <2>1. \A i \in Nat : i \in 0 .. (n - 1) <=> i < n
    BY <1>1
  <2> HIDE DEF f, n
  <2>2. \A i \in Nat : (i \in Used(h, kind) \/ i \in Free(h, kind)) <=> i < n
    BY <1>1, <2>1
  <2> QED
    BY <1>2, <1>3, <2>2
<1>6. \A i \in DOMAIN f : <<kind, f[i]>> \notin DOMAIN h.objs
  BY <1>1, <1>2, <1>3
<1>7. CASE f # <<>>
  <2> DEFINE free == Front(f)
  <2>1. g = [h EXCEPT !.free = [h.free EXCEPT ![kind] = free]]
    BY <1>7 DEF TakeIndex
  <2>2. /\ Shape(g) /\ g.objs = h.objs /\ g.owner = h.owner /\ g.out = h.out
        /\ g.free = [h.free EXCEPT ![kind] = free] /\ g.size = h.size
    <3> HIDE DEF free
    <3> QED
      BY <1>4, <2>1, ShapeParts DEF Shape
  <2>3. h.size = [h.size EXCEPT ![kind] = n]
    BY <1>4
  <2>4. index = f[Len(f)]
    BY <1>7 DEF GetFreeIndex, Last
  <2>5. /\ free \in Seq(Nat) /\ Len(f) \in Nat \ {0}
        /\ DOMAIN free = 1 .. (Len(f) - 1)
        /\ \A i \in 1 .. (Len(f) - 1) : free[i] = f[i]
    BY <1>1, <1>7, FrontParts
  <2> HIDE DEF f, g, n, free, index
  <2>6. \A i : (\E j \in DOMAIN f : f[j] = i) <=> (i = index \/ \E j \in DOMAIN free : free[j] = i)
    <3> TAKE i
    <3>1. ASSUME NEW j \in DOMAIN f, f[j] = i PROVE i = index \/ \E k \in DOMAIN free : free[k] = i
      <4>1. CASE j = Len(f)
        BY <2>4, <3>1, <4>1
      <4>2. CASE j # Len(f)
        <5>1. j \in 1 .. (Len(f) - 1)
          BY <1>1, <4>2
        <5> QED
          BY <2>5, <3>1, <5>1
      <4> QED
        BY <4>1, <4>2
    <3>2. ASSUME i = index PROVE \E j \in DOMAIN f : f[j] = i
      <4>1. Len(f) \in DOMAIN f
        BY <1>1, <2>5
      <4> QED
        BY <2>4, <3>2, <4>1
    <3>3. ASSUME NEW k \in DOMAIN free, free[k] = i PROVE \E j \in DOMAIN f : f[j] = i
      <4>1. k \in DOMAIN f
        BY <1>1, <2>5
      <4> QED
        BY <2>5, <3>3, <4>1
    <3> QED
      BY <3>1, <3>2, <3>3
  <2>7. \A i \in Nat : \/ <<kind, i>> \in DOMAIN h.objs \/ i = index
                       \/ \E j \in DOMAIN free : free[j] = i
                       <=> i < n
    BY <1>5, <2>6
  <2>8. \A i \in DOMAIN free : i \in DOMAIN f /\ free[i] = f[i] /\ i # Len(f)
    BY <1>1, <2>5
  <2>9. \A i \in DOMAIN free : <<kind, free[i]>> \notin DOMAIN h.objs /\ free[i] # index
    <3>1. Len(f) \in DOMAIN f
      BY <1>1, <2>5
    <3> QED
      BY <1>1, <1>6, <2>4, <2>8, <3>1
  <2>10. \A i, j \in DOMAIN free : free[i] = free[j] => i = j
    BY <1>1, <2>8
  <2>11. g.size = [h.size EXCEPT ![kind] = n]
    BY <2>2, <2>3
  <2>12. Taken(h.objs, kind, index, n, free)
    BY <1>0, <2>7, <2>9, <2>10 DEF Taken
  <2> QED
    BY <1>1, <2>2, <2>5, <2>11, <2>12 DEF g, index
<1>8. CASE f = <<>>
  <2>1. g = [h EXCEPT !.size = [h.size EXCEPT ![kind] = n + 1]]
    BY <1>8 DEF TakeIndex
  <2>2. /\ Shape(g) /\ g.objs = h.objs /\ g.owner = h.owner /\ g.out = h.out
        /\ g.free = h.free /\ g.size = [h.size EXCEPT ![kind] = n + 1]
    <3> DEFINE size == [h.size EXCEPT ![kind] = n + 1]
    <3> HIDE DEF size
    <3> QED
      BY <1>4, <2>1, ShapeParts DEF Shape, size
  <2>3. h.free = [h.free EXCEPT ![kind] = f]
    BY <1>4
  <2>4. index = n
    BY <1>8 DEF GetFreeIndex
  <2>5. DOMAIN f = {} /\ n <= MaxIndex[kind]
    BY <1>8, AllUsed DEF Room
  <2> HIDE DEF f, g, n, index
  <2>6. \A i \in Nat : \/ <<kind, i>> \in DOMAIN h.objs \/ i = index
                       \/ \E j \in DOMAIN f : f[j] = i
                       <=> i < n + 1
    <3>1. \A i \in Nat : i < n + 1 <=> (i < n \/ i = n)
      BY <1>1
    <3> QED
      BY <1>5, <2>4, <3>1
  <2>7. n + 1 \in Nat /\ n + 1 <= MaxIndex[kind] + 1
    BY <1>0, <1>1, <2>5
  <2>8. g.free = [h.free EXCEPT ![kind] = f]
    BY <2>2, <2>3
  <2>9. Taken(h.objs, kind, index, n + 1, f)
    BY <2>5, <2>6, <2>7 DEF Taken
  <2> QED
    BY <1>1, <2>2, <2>7, <2>8, <2>9 DEF g, index
<1> QED
  BY <1>7, <1>8

\* Nothing else than the objects, the lists and what is written matters.
LEMMA SoundLike ==
  ASSUME NEW h, Sound(h), NEW g, Shape(g), g.objs = h.objs, g.size = h.size,
         g.free = h.free, g.out \in Seq(Cmd)
  PROVE  Sound(g)
<1>1. \A k : Used(g, k) = Used(h, k) /\ Free(g, k) = Free(h, k)
  BY DEF Used, Free
<1>2. Lists(g)
  BY <1>1 DEF Sound, Lists
<1> QED
  BY <1>2 DEF Sound

LEMMA Wrote ==
  ASSUME NEW h, Shape(h), NEW c
  PROVE  /\ Shape(Write(h, c)) /\ Write(h, c).objs = h.objs /\ Write(h, c).owner = h.owner
         /\ Write(h, c).size = h.size /\ Write(h, c).free = h.free
         /\ Write(h, c).out = Append(h.out, c)
<1>1. Write(h, c) = [objs |-> h.objs, owner |-> h.owner, size |-> h.size,
                     free |-> h.free, out |-> Append(h.out, c)]
  BY ShapeParts DEF Write
<1> QED
  BY <1>1 DEF Shape

LEMMA AddedSound ==
  ASSUME NEW h, Sound(h), NEW kind \in Kinds, NEW object \in Obj, Room(h, kind)
  PROVE  LET slot == <<kind, GetFreeIndex(h, kind)>>
             g == AddObject(h, kind, object)
         IN /\ slot \in Slot /\ slot \notin DOMAIN h.objs /\ Kind(slot) = kind
            /\ Sound(g)
            /\ g.objs = Filled(h.objs, slot, object)
            /\ g.owner = h.owner
            /\ g.out = Append(h.out, AddCmd(slot, object))
<1> DEFINE index == GetFreeIndex(h, kind)
           slot == <<kind, index>>
           t == TakeIndex(h, kind)
           objs == Filled(h.objs, slot, object)
           u == [t EXCEPT !.objs = Filled(t.objs, slot, object)]
           g == AddObject(h, kind, object)
           c == AddCmd(slot, object)
<1>1. index \in Nat /\ slot \in Slot /\ slot \notin DOMAIN h.objs
  BY FreeIndex
<1>2. Kind(slot) = kind
  BY DEF Kind
<1>3. g = Write(u, c)
  BY DEF AddObject
<1>4. Shape(t) /\ t.objs = h.objs /\ t.owner = h.owner /\ t.out = h.out
  BY TakenIndex
<1>5. PICK size \in Nat, free \in Seq(Nat) :
         /\ t.size = [h.size EXCEPT ![kind] = size]
         /\ t.free = [h.free EXCEPT ![kind] = free]
         /\ Taken(h.objs, kind, index, size, free)
  BY TakenIndex
<1>6. h.objs \in Objs /\ IsFiniteSet(DOMAIN h.objs) /\ h.out \in Seq(Cmd)
  BY DEF Sound
<1>7. objs \in Objs /\ DOMAIN objs = DOMAIN h.objs \cup {slot}
  BY <1>1, <1>6, Added
<1>8. c \in Cmd
  BY <1>1 DEF AddCmd, Cmd
<1> HIDE DEF index, t, objs, c
<1>9. u = [objs |-> objs, owner |-> t.owner, size |-> t.size, free |-> t.free, out |-> t.out]
  BY <1>4, ShapeParts DEF objs
<1> HIDE DEF u
<1>10. Shape(u) /\ u.objs = objs /\ u.owner = h.owner /\ u.size = t.size
       /\ u.free = t.free /\ u.out = h.out
  BY <1>4, <1>9 DEF Shape
<1> HIDE DEF g
<1>11. /\ Shape(g) /\ g.objs = objs /\ g.owner = h.owner
       /\ g.size = [h.size EXCEPT ![kind] = size]
       /\ g.free = [h.free EXCEPT ![kind] = free]
       /\ g.out = Append(h.out, c)
  BY <1>3, <1>5, <1>10, Wrote
<1>12. g.out \in Seq(Cmd) /\ IsFiniteSet(DOMAIN g.objs)
  <2>1. IsFiniteSet(DOMAIN h.objs \cup {slot})
    BY <1>6, FS_AddElement
  <2>2. Append(h.out, c) \in Seq(Cmd)
    BY <1>6, <1>8, AppendProperties
  <2> QED
    BY <1>7, <1>11, <2>1, <2>2
<1>13. Lists(g)
  <2>1. \A i : <<kind, i>> \in DOMAIN g.objs <=> <<kind, i>> \in DOMAIN h.objs \/ i = index
    BY <1>7, <1>11
  <2>2. \A k \in Kinds \ {kind}, i \in Nat :
          <<k, i>> \in DOMAIN g.objs <=> <<k, i>> \in DOMAIN h.objs
    BY <1>7, <1>11
  <2>3. \A i \in Nat : <<kind, i>> \in DOMAIN g.objs \/ (\E j \in DOMAIN free : free[j] = i)
                       <=> i < size
    BY <1>5, <2>1 DEF Taken
  <2>4. \A i \in DOMAIN free : <<kind, free[i]>> \notin DOMAIN g.objs
    BY <1>5, <2>1 DEF Taken
  <2>5. \A i, j \in DOMAIN free : free[i] = free[j] => i = j
    BY <1>5 DEF Taken
  <2>6. g.objs \in Objs
    BY <1>7, <1>11
  <2>7. size <= MaxIndex[kind] + 1
    BY <1>5 DEF Taken
  <2> QED
    BY <1>11, <2>2, <2>3, <2>4, <2>5, <2>6, <2>7, ListsKept
<1>14. Sound(g)
  BY <1>7, <1>11, <1>12, <1>13 DEF Sound
<1> QED
  BY <1>1, <1>2, <1>11, <1>14 DEF g, c, objs, index

LEMMA RemovedSound ==
  ASSUME NEW h, Sound(h), NEW slot \in DOMAIN h.objs
  PROVE  LET g == RemoveObject(h, slot)
         IN /\ Sound(g)
            /\ g.objs = Without(h.objs, {slot})
            /\ g.out = Append(h.out, RemoveCmd(slot))
<1> DEFINE kind == Kind(slot)
           index == slot[2]
           f == h.free[kind]
           n == h.size[kind]
           free == Append(f, index)
           objs == Without(h.objs, {slot})
           owner == Restrict(h.owner, DOMAIN h.owner \ {slot})
           u == [h EXCEPT !.objs = Without(h.objs, {slot}),
                          !.owner = Restrict(h.owner, DOMAIN h.owner \ {slot}),
                          !.free[Kind(slot)] = Append(h.free[Kind(slot)], slot[2])]
           c == RemoveCmd(slot)
           g == RemoveObject(h, slot)
<1>1. h.objs \in Objs /\ IsFiniteSet(DOMAIN h.objs) /\ h.out \in Seq(Cmd) /\ Shape(h)
      /\ h.size \in [Kinds -> Nat] /\ h.free \in [Kinds -> Seq(Nat)]
  BY DEF Sound, Lists
<1>2. slot \in Slot
  BY <1>1, ObjsParts
<1>3. kind \in Kinds /\ index \in Nat /\ slot = <<kind, index>>
  BY <1>2 DEF Slot, Kind
<1>4. c \in Cmd
  BY <1>2 DEF RemoveCmd, Cmd
<1>5. g = Write(u, c)
  BY DEF RemoveObject
<1>6. objs \in Objs /\ DOMAIN objs = DOMAIN h.objs \ {slot}
  BY <1>1, Removed
<1>7. /\ n \in Nat /\ n <= MaxIndex[kind] + 1 /\ f \in Seq(Nat) /\ DOMAIN f = 1 .. Len(f) /\ Len(f) \in Nat
      /\ Used(h, kind) \cup Free(h, kind) = 0 .. (n - 1)
      /\ Used(h, kind) \cap Free(h, kind) = {}
      /\ \A i, j \in DOMAIN f : f[i] = f[j] => i = j
  BY <1>3, OneList DEF Sound
<1>8. Used(h, kind) = {i \in Nat : <<kind, i>> \in DOMAIN h.objs}
  BY <1>1, <1>3, UsedSlots
<1>9. Free(h, kind) = {f[i] : i \in DOMAIN f} /\ \A i \in DOMAIN f : f[i] \in Nat
  BY <1>7, ElementOfSeq DEF Free
<1> HIDE DEF kind, index, f, n
<1>10. /\ free \in Seq(Nat) /\ DOMAIN free = 1 .. (Len(f) + 1)
       /\ \A i \in DOMAIN f : free[i] = f[i]
       /\ free[Len(f) + 1] = index
  <2>1. /\ free \in Seq(Nat) /\ Len(free) = Len(f) + 1
        /\ \A i \in 1 .. Len(f) : free[i] = f[i]
        /\ free[Len(f) + 1] = index
    BY <1>3, <1>7, AppendProperties
  <2> HIDE DEF free
  <2>2. DOMAIN free = 1 .. Len(free)
    BY <2>1, LenProperties
  <2> QED
    BY <1>7, <2>1, <2>2
<1> HIDE DEF free, objs, owner
<1>11. u = [objs |-> objs, owner |-> owner, size |-> h.size,
            free |-> [h.free EXCEPT ![kind] = free], out |-> h.out]
  <2>1. u = [h EXCEPT !.objs = objs, !.owner = owner,
                      !.free = [h.free EXCEPT ![kind] = free]]
    BY DEF objs, owner, free, kind, index, f
  <2>2. \A o, w, l : [h EXCEPT !.objs = o, !.owner = w, !.free = l] =
          [objs |-> o, owner |-> w, size |-> h.size, free |-> l, out |-> h.out]
    <3> TAKE o, w, l
    <3> DEFINE u1 == [h EXCEPT !.objs = o]
               u2 == [u1 EXCEPT !.owner = w]
    <3>1. u1 = [objs |-> o, owner |-> h.owner, size |-> h.size, free |-> h.free, out |-> h.out]
      BY <1>1, ShapeParts
    <3>2. [h EXCEPT !.objs = o, !.owner = w, !.free = l] = [u2 EXCEPT !.free = l]
      OBVIOUS
    <3> HIDE DEF u1
    <3>3. Shape(u1)
      BY <3>1 DEF Shape
    <3>4. u2 = [objs |-> o, owner |-> w, size |-> h.size, free |-> h.free, out |-> h.out]
      BY <3>1, <3>3, ShapeParts
    <3> HIDE DEF u2
    <3>5. Shape(u2)
      BY <3>4 DEF Shape
    <3> QED
      BY <3>2, <3>4, <3>5, ShapeParts
  <2> QED
    BY <2>1, <2>2
<1> HIDE DEF u
<1>12. Shape(u) /\ u.objs = objs /\ u.size = h.size /\ u.out = h.out
       /\ u.free = [h.free EXCEPT ![kind] = free]
  BY <1>11 DEF Shape
<1> HIDE DEF g, c
<1>13. /\ Shape(g) /\ g.objs = objs /\ g.size = h.size /\ g.out = Append(h.out, c)
       /\ g.free = [h.free EXCEPT ![kind] = free]
  BY <1>5, <1>12, Wrote
<1>14. g.out \in Seq(Cmd)
  BY <1>1, <1>4, <1>13, AppendProperties
<1>15. IsFiniteSet(DOMAIN g.objs)
  <2>1. IsFiniteSet(DOMAIN h.objs \ {slot})
    BY <1>1, FS_RemoveElement
  <2> QED
    BY <1>6, <1>13, <2>1
<1>16. Lists(g)
  <2>1. \A i \in Nat : <<kind, i>> \in DOMAIN g.objs <=> <<kind, i>> \in DOMAIN h.objs /\ i # index
    BY <1>3, <1>6, <1>13
  <2>2. \A k \in Kinds \ {kind}, i \in Nat :
          <<k, i>> \in DOMAIN g.objs <=> <<k, i>> \in DOMAIN h.objs
    BY <1>3, <1>6, <1>13
  <2>3. \A i \in Nat : (\E j \in DOMAIN free : free[j] = i) <=>
                       (i = index \/ \E j \in DOMAIN f : f[j] = i)
    <3> TAKE i \in Nat
    <3>1. ASSUME NEW j \in DOMAIN free, free[j] = i PROVE i = index \/ \E k \in DOMAIN f : f[k] = i
      <4>1. CASE j = Len(f) + 1
        BY <1>10, <3>1, <4>1
      <4>2. CASE j # Len(f) + 1
        <5>1. j \in DOMAIN f
          BY <1>7, <1>10, <4>2
        <5> QED
          BY <1>10, <3>1, <5>1
      <4> QED
        BY <4>1, <4>2
    <3>2. ASSUME i = index PROVE \E j \in DOMAIN free : free[j] = i
      <4>1. Len(f) + 1 \in DOMAIN free
        BY <1>7, <1>10
      <4> QED
        BY <1>10, <3>2, <4>1
    <3>3. ASSUME NEW k \in DOMAIN f, f[k] = i PROVE \E j \in DOMAIN free : free[j] = i
      <4>1. k \in DOMAIN free
        BY <1>7, <1>10
      <4> QED
        BY <1>10, <3>3, <4>1
    <3> QED
      BY <3>1, <3>2, <3>3
  <2>4. \A i \in Nat : (<<kind, i>> \in DOMAIN h.objs \/ \E j \in DOMAIN f : f[j] = i) <=> i < n
    <3>1. \A i \in Nat : i \in 0 .. (n - 1) <=> i < n
      BY <1>7
    <3>2. \A i \in Nat : (i \in Used(h, kind) \/ i \in Free(h, kind)) <=> i < n
      BY <1>7, <3>1
    <3> QED
      BY <1>8, <1>9, <3>2
  <2>5. <<kind, index>> \in DOMAIN h.objs
    BY <1>3
  <2>6. \A i \in Nat : <<kind, i>> \in DOMAIN g.objs \/ (\E j \in DOMAIN free : free[j] = i)
                       <=> i < n
    BY <1>3, <2>1, <2>3, <2>4, <2>5
  <2>7. \A j \in DOMAIN f : f[j] # index /\ <<kind, f[j]>> \notin DOMAIN h.objs
    BY <1>3, <1>7, <1>8, <1>9, <2>5
  <2>8. \A j \in DOMAIN free : j \in DOMAIN f \/ j = Len(f) + 1
    BY <1>7, <1>10
  <2>9. \A i \in DOMAIN free : <<kind, free[i]>> \notin DOMAIN g.objs
    BY <1>3, <1>9, <1>10, <2>1, <2>7, <2>8
  <2>10. \A i, j \in DOMAIN free : free[i] = free[j] => i = j
    BY <1>7, <1>10, <2>7, <2>8
  <2>11. g.size = [h.size EXCEPT ![kind] = n]
    BY <1>1, <1>3, <1>13 DEF n
  <2>12. g.objs \in Objs
    BY <1>6, <1>13
  <2> QED
    BY <1>3, <1>7, <1>10, <1>13, <2>2, <2>6, <2>9, <2>10, <2>11, <2>12, ListsKept
<1>17. Sound(g)
  BY <1>6, <1>13, <1>14, <1>15, <1>16 DEF Sound
<1> QED
  BY <1>13, <1>17 DEF g, objs, c

-----------------------------------------------------------------------------
(* What the host does, and what it writes of it.                           *)

Well(objs, owed) == [ok |-> TRUE, objs |-> objs, owed |-> owed]

\* Who has what h has and plays what g wrote after it has what g has.
Mirror(h, g) ==
  \E cs \in Seq(Cmd) :
    /\ g.out = h.out \o cs
    /\ \A owed \in Seq(Owed) :
         Playing!Fold(Well(h.objs, owed), cs) = Well(g.objs, owed)

LEMMA MirrorSame ==
  ASSUME NEW h, h.out \in Seq(Cmd), NEW g, g.out = h.out, g.objs = h.objs
  PROVE  Mirror(h, g)
<1>1. h.out \o <<>> = h.out /\ <<>> \in Seq(Cmd)
  BY ConcatEmptySeq, EmptySeq
<1>2. \A owed : Playing!Fold(Well(h.objs, owed), <<>>) = Well(g.objs, owed)
  BY Playing!FoldEmpty
<1> QED
  BY <1>1, <1>2 DEF Mirror

LEMMA MirrorOne ==
  ASSUME NEW h, h.out \in Seq(Cmd), NEW c \in Cmd, c.type # "step", Fits(h.objs, c),
         NEW g, g.out = Append(h.out, c), g.objs = Effect(h.objs, c)
  PROVE  Mirror(h, g)
<1>1. <<c>> \in Seq(Cmd) /\ g.out = h.out \o <<c>>
  BY AppendIsConcat
<1>2. ASSUME NEW owed \in Seq(Owed)
      PROVE  Playing!Fold(Well(h.objs, owed), <<c>>) = Well(g.objs, owed)
  <2>1. Playing!Fold(Well(h.objs, owed), <<c>>) = Play(Well(h.objs, owed), c)
    BY Playing!FoldOne
  <2>2. Owes(h.objs, c) = <<>>
    BY CmdParts DEF Owes
  <2>3. owed \o <<>> = owed
    BY ConcatEmptySeq
  <2> DEFINE w == Well(h.objs, owed)
  <2>4. w.ok /\ w.objs = h.objs /\ w.owed = owed
    BY DEF Well
  <2> HIDE DEF w
  <2>5. Play(w, c) = [ok |-> TRUE, objs |-> Effect(w.objs, c),
                      owed |-> w.owed \o Owes(w.objs, c)]
    BY <2>4, PlayWell
  <2>6. Play(w, c) = Well(g.objs, owed)
    BY <2>2, <2>3, <2>4, <2>5 DEF Well
  <2> QED
    BY <2>1, <2>6 DEF w
<1> QED
  BY <1>1, <1>2 DEF Mirror

LEMMA MirrorTrans ==
  ASSUME NEW h, h.out \in Seq(Cmd), NEW g, NEW f, Mirror(h, g), Mirror(g, f)
  PROVE  Mirror(h, f)
<1>1. PICK cs \in Seq(Cmd) :
         /\ g.out = h.out \o cs
         /\ \A owed \in Seq(Owed) :
              Playing!Fold(Well(h.objs, owed), cs) = Well(g.objs, owed)
  BY DEF Mirror
<1>2. PICK ds \in Seq(Cmd) :
         /\ f.out = g.out \o ds
         /\ \A owed \in Seq(Owed) :
              Playing!Fold(Well(g.objs, owed), ds) = Well(f.objs, owed)
  BY DEF Mirror
<1>3. \A a, b, d \in Seq(Cmd) : (a \o b) \o d = a \o (b \o d)
  BY Associates
<1>4. f.out = h.out \o (cs \o ds) /\ cs \o ds \in Seq(Cmd)
  <2>1. (h.out \o cs) \o ds = h.out \o (cs \o ds)
    BY <1>3
  <2> QED
    BY <1>1, <1>2, <2>1, ConcatProperties
<1>5. ASSUME NEW owed \in Seq(Owed)
      PROVE  Playing!Fold(Well(h.objs, owed), cs \o ds) = Well(f.objs, owed)
  <2>1. cs \in Seq(Item) /\ ds \in Seq(Item)
    BY CmdIsItem
  <2>2. Playing!Fold(Well(h.objs, owed), cs \o ds) =
          Playing!Fold(Playing!Fold(Well(h.objs, owed), cs), ds)
    BY <2>1, PlayedConcat
  <2> QED
    BY <1>1, <1>2, <2>2
<1> QED
  BY <1>4, <1>5 DEF Mirror

LEMMA ObjsEqual ==
  ASSUME NEW a \in Objs, NEW b \in Objs, DOMAIN a = DOMAIN b,
         \A s \in DOMAIN a : a[s] = b[s]
  PROVE  a = b
<1>1. a = [s \in DOMAIN a |-> a[s]] /\ b = [s \in DOMAIN b |-> b[s]]
  BY ObjsParts
<1> QED
  BY <1>1

LEMMA UnboundParts ==
  ASSUME NEW object \in Obj, NEW S
  PROVE  /\ Unbound(object, S).in = object.in /\ Unbound(object, S).what = object.what
         /\ Unbound(object, S).ref = IF Kind(object.ref) = "node" /\ object.ref \in S
                                      THEN None ELSE object.ref
  BY DEF Unbound, Obj

LEMMA WithoutMore ==
  ASSUME NEW objs \in Objs, NEW S, NEW x
  PROVE  Without(Without(objs, S), {x}) = Without(objs, S \cup {x})
<1> DEFINE a == Without(objs, S)
           b == Without(a, {x})
           c == Without(objs, S \cup {x})
<1>1. /\ a \in Objs /\ DOMAIN a = DOMAIN objs \ S
      /\ \A s \in DOMAIN objs \ S : a[s] = Unbound(objs[s], S)
  BY Removed
<1> HIDE DEF a
<1>2. /\ b \in Objs /\ DOMAIN b = DOMAIN a \ {x}
      /\ \A s \in DOMAIN a \ {x} : b[s] = Unbound(a[s], {x})
  BY <1>1, Removed
<1>3. /\ c \in Objs /\ DOMAIN c = DOMAIN objs \ (S \cup {x})
      /\ \A s \in DOMAIN objs \ (S \cup {x}) : c[s] = Unbound(objs[s], S \cup {x})
  BY Removed
<1> HIDE DEF b, c
<1>4. DOMAIN b = DOMAIN c
  BY <1>1, <1>2, <1>3
<1>5. ASSUME NEW s \in DOMAIN b PROVE b[s] = c[s]
  <2>1. b[s] = Unbound(Unbound(objs[s], S), {x}) /\ c[s] = Unbound(objs[s], S \cup {x})
    BY <1>1, <1>2, <1>3, <1>4
  <2>2. objs[s] \in Obj
    BY <1>1, <1>2, ObjsParts
  <2>3. ASSUME NEW o \in Obj PROVE Unbound(Unbound(o, S), {x}) = Unbound(o, S \cup {x})
    <3>1. Kind(None) # "node"
      BY DEF Kind, None
    <3>2. CASE Kind(o.ref) = "node" /\ o.ref \in S
      <4>1. Unbound(o, S) = [o EXCEPT !.ref = None] /\ Unbound(o, S \cup {x}) = [o EXCEPT !.ref = None]
        BY <3>2 DEF Unbound
      <4>2. [o EXCEPT !.ref = None].ref = None
        BY DEF Obj
      <4>3. Unbound([o EXCEPT !.ref = None], {x}) = [o EXCEPT !.ref = None]
        BY <3>1, <4>2 DEF Unbound
      <4> QED
        BY <4>1, <4>3
    <3>3. CASE ~(Kind(o.ref) = "node" /\ o.ref \in S)
      <4>1. Unbound(o, S) = o
        BY <3>3 DEF Unbound
      <4>2. Unbound(o, {x}) = Unbound(o, S \cup {x})
        BY <3>3 DEF Unbound
      <4> QED
        BY <4>1, <4>2
    <3> QED
      BY <3>2, <3>3
  <2> QED
    BY <2>1, <2>2, <2>3
<1>6. b = c
  BY <1>2, <1>3, <1>4, <1>5, ObjsEqual
<1> QED
  BY <1>6 DEF a, b, c

LEMMA WithoutNone ==
  ASSUME NEW objs \in Objs
  PROVE  Without(objs, {}) = objs
<1> DEFINE a == Without(objs, {})
<1>1. /\ a \in Objs /\ DOMAIN a = DOMAIN objs
      /\ \A s \in DOMAIN objs : a[s] = Unbound(objs[s], {})
  BY Removed
<1>2. \A s : Unbound(objs[s], {}) = objs[s]
  BY DEF Unbound
<1> HIDE DEF a
<1> QED
  BY <1>1, <1>2, ObjsEqual DEF a

LEMMA NodesLeft ==
  ASSUME NEW objs \in Objs, NEW S, NEW x
  PROVE  Nodes(Without(objs, S), x) = Nodes(objs, x) \ S
<1> DEFINE a == Without(objs, S)
<1>1. /\ DOMAIN a = DOMAIN objs \ S
      /\ \A s \in DOMAIN objs \ S : a[s] = Unbound(objs[s], S)
  BY Removed
<1>2. \A s \in DOMAIN objs : objs[s] \in Obj
  BY ObjsParts
<1> HIDE DEF a
<1>3. \A s \in DOMAIN objs \ S : a[s].in = objs[s].in
  BY <1>1, <1>2, UnboundParts
<1>4. Nodes(a, x) = Nodes(objs, x) \ S
  BY <1>1, <1>3 DEF Nodes
<1> QED
  BY <1>4 DEF a

-----------------------------------------------------------------------------
(* Objects are removed in an order in which nodes go before their scene.   *)

Elems(p) == {p[i] : i \in DOMAIN p}

Orderly(objs, p) ==
  /\ \A i, j \in DOMAIN p : p[i] = p[j] => i = j
  /\ \A i \in DOMAIN p :
       Kind(p[i]) = "scene" => Nodes(objs, p[i]) \subseteq {p[j] : j \in 1 .. (i - 1)}

Removing == INSTANCE FoldProofs WITH Op <- RemoveObject

LEMMA RemovedEach == \A b, q : Through(RemoveObject, b, q) = Removing!Fold(b, q)
  BY DEF Through, Removing!Fold

LEMMA OrderlyAppend ==
  ASSUME NEW objs, NEW D, NEW p \in Seq(D), NEW x \in D, Orderly(objs, Append(p, x))
  PROVE  /\ Orderly(objs, p)
         /\ x \notin Elems(p)
         /\ Kind(x) = "scene" => Nodes(objs, x) \subseteq Elems(p)
         /\ Elems(Append(p, x)) = Elems(p) \cup {x}
<1> DEFINE n == Len(p)
           px == Append(p, x)
<1>1. n \in Nat /\ DOMAIN p = 1 .. n
  BY LenProperties
<1>2. /\ Len(px) = n + 1 /\ px \in Seq(D)
      /\ \A i \in 1 .. n : px[i] = p[i]
      /\ px[n + 1] = x
  BY AppendProperties
<1>3. Orderly(objs, px)
  OBVIOUS
<1> HIDE DEF px, n
<1>4. DOMAIN px = 1 .. (n + 1)
  BY <1>2, LenProperties
<1>5. \A i, j \in 1 .. n : p[i] = p[j] => i = j
  <2>1. \A i \in 1 .. n : i \in 1 .. (n + 1)
    BY <1>1
  <2> QED
    BY <1>2, <1>3, <1>4, <2>1 DEF Orderly
<1>6. x \notin Elems(p)
  <2> SUFFICES ASSUME NEW i \in 1 .. n, p[i] = x PROVE FALSE
    BY <1>1 DEF Elems
  <2>1. i \in 1 .. (n + 1) /\ n + 1 \in 1 .. (n + 1) /\ i # n + 1 /\ px[i] = px[n + 1]
    BY <1>1, <1>2
  <2> QED
    BY <1>3, <1>4, <2>1 DEF Orderly
<1>7. \A i \in 1 .. (n + 1) : {px[j] : j \in 1 .. (i - 1)} = {p[j] : j \in 1 .. (i - 1)}
  <2> TAKE i \in 1 .. (n + 1)
  <2>1. \A j \in 1 .. (i - 1) : j \in 1 .. n
    BY <1>1
  <2> QED
    BY <1>2, <2>1
<1>8. ASSUME NEW i \in 1 .. n, Kind(p[i]) = "scene"
      PROVE  Nodes(objs, p[i]) \subseteq {p[j] : j \in 1 .. (i - 1)}
  <2>1. i \in 1 .. (n + 1) /\ px[i] = p[i]
    BY <1>1, <1>2
  <2>2. Nodes(objs, px[i]) \subseteq {px[j] : j \in 1 .. (i - 1)}
    BY <1>3, <1>4, <1>8, <2>1 DEF Orderly
  <2> QED
    BY <1>7, <2>1, <2>2
<1>9. ASSUME Kind(x) = "scene" PROVE Nodes(objs, x) \subseteq Elems(p)
  <2>1. n + 1 \in 1 .. (n + 1) /\ (n + 1) - 1 = n
    BY <1>1
  <2>2. Nodes(objs, px[n + 1]) \subseteq {px[j] : j \in 1 .. ((n + 1) - 1)}
    BY <1>2, <1>3, <1>4, <1>9, <2>1 DEF Orderly
  <2>3. {px[j] : j \in 1 .. ((n + 1) - 1)} = {p[j] : j \in 1 .. n}
    BY <1>7, <2>1
  <2> QED
    BY <1>1, <1>2, <2>2, <2>3 DEF Elems
<1>10. Elems(px) = Elems(p) \cup {x}
  <2>1. \A i \in 1 .. (n + 1) : i \in 1 .. n \/ i = n + 1
    BY <1>1
  <2>2. \A i \in 1 .. n : i \in 1 .. (n + 1)
    BY <1>1
  <2>3. n + 1 \in 1 .. (n + 1)
    BY <1>1
  <2> QED
    BY <1>1, <1>2, <1>4, <2>1, <2>2, <2>3 DEF Elems
<1> QED
  BY <1>1, <1>5, <1>6, <1>8, <1>9, <1>10 DEF Orderly, px

LEMMA RemovedOrderly ==
  ASSUME NEW h, HostOK(h), NEW order \in Seq(DOMAIN h.objs), Orderly(h.objs, order)
  PROVE  LET g == Removing!Fold(h, order)
         IN /\ Sound(g)
            /\ g.objs = Without(h.objs, Elems(order))
            /\ Mirror(h, g)
<1> DEFINE G(p) == Removing!Fold(h, p)
           D == DOMAIN h.objs
           Is(p) == /\ Sound(G(p))
                    /\ G(p).objs = Without(h.objs, Elems(p))
                    /\ Mirror(h, G(p))
           T == {p \in Seq(D) : Orderly(h.objs, p) => Is(p)}
<1>1. Sound(h) /\ h.objs \in Objs /\ h.out \in Seq(Cmd) /\ Homes(h.objs)
  BY DEF HostOK, Sound
<1>2. <<>> \in T
  <2>1. G(<<>>) = h
    BY Removing!FoldEmpty
  <2>2. Elems(<<>>) = {}
    BY DEF Elems
  <2>3. Without(h.objs, {}) = h.objs
    BY <1>1, WithoutNone
  <2>4. Mirror(h, h)
    BY <1>1, MirrorSame
  <2> HIDE DEF G
  <2>5. Is(<<>>)
    BY <1>1, <2>1, <2>2, <2>3, <2>4
  <2> HIDE DEF Is
  <2> QED
    BY <2>5, EmptySeq
<1>3. ASSUME NEW p \in Seq(D), NEW x \in D, p \in T PROVE Append(p, x) \in T
  <2> DEFINE px == Append(p, x)
  <2>1. px \in Seq(D)
    BY AppendProperties
  <2>2. ASSUME Orderly(h.objs, px) PROVE Is(px)
    <3> DEFINE g == G(p)
               f == G(px)
               c == RemoveCmd(x)
    <3>1. /\ Orderly(h.objs, p) /\ x \notin Elems(p)
          /\ Kind(x) = "scene" => Nodes(h.objs, x) \subseteq Elems(p)
          /\ Elems(px) = Elems(p) \cup {x}
      BY <2>2, OrderlyAppend
    <3>2. Is(p)
      BY <1>3, <3>1
    <3>3. f = RemoveObject(g, x)
      BY Removing!FoldAppend
    <3> HIDE DEF G, px
    <3>4. Sound(g) /\ g.objs = Without(h.objs, Elems(p)) /\ Mirror(h, g)
      BY <3>2
    <3>5. DOMAIN g.objs = D \ Elems(p) /\ g.objs \in Objs
      <4>1. /\ Without(h.objs, Elems(p)) \in Objs
            /\ DOMAIN Without(h.objs, Elems(p)) = DOMAIN h.objs \ Elems(p)
        BY <1>1, Removed
      <4> HIDE DEF g
      <4> QED
        BY <3>4, <4>1
    <3>6. x \in DOMAIN g.objs
      BY <3>1, <3>5
    <3> HIDE DEF f, g
    <3>7. Sound(f) /\ f.objs = Without(g.objs, {x}) /\ f.out = Append(g.out, c)
      BY <3>3, <3>4, <3>6, RemovedSound
    <3>8. Nodes(g.objs, x) = {}
      <4>1. Nodes(g.objs, x) = Nodes(h.objs, x) \ Elems(p)
        BY <1>1, <3>4, NodesLeft
      <4>2. CASE Kind(x) = "scene"
        BY <3>1, <4>1, <4>2
      <4>3. CASE Kind(x) # "scene"
        <5>1. Nodes(h.objs, x) = {}
          BY <1>1, <4>3 DEF Nodes, Homes, Home
        <5> QED
          BY <4>1, <5>1
      <4> QED
        BY <4>2, <4>3
    <3>9. c \in Cmd /\ c.type = "remove" /\ c.slot = x
      <4>1. x \in Slot
        BY <1>1, ObjsParts
      <4> QED
        BY <4>1 DEF RemoveCmd, Cmd
    <3>10. Fits(g.objs, c) /\ Effect(g.objs, c) = Without(g.objs, {x} \cup Nodes(g.objs, x))
      BY <3>6, <3>9 DEF Fits, Effect, Has
    <3>11. Effect(g.objs, c) = f.objs
      <4>1. {x} \cup Nodes(g.objs, x) = {x}
        BY <3>8
      <4> QED
        BY <3>7, <3>10, <4>1
    <3>12. Mirror(g, f)
      <4>1. g.out \in Seq(Cmd)
        BY <3>4 DEF Sound
      <4> HIDE DEF c
      <4> QED
        BY <3>7, <3>9, <3>10, <3>11, <4>1, MirrorOne
    <3>13. Mirror(h, f)
      BY <1>1, <3>4, <3>12, MirrorTrans
    <3>14. f.objs = Without(h.objs, Elems(px))
      <4>1. Without(Without(h.objs, Elems(p)), {x}) = Without(h.objs, Elems(p) \cup {x})
        BY <1>1, WithoutMore
      <4> QED
        BY <3>1, <3>4, <3>7, <4>1
    <3> QED
      BY <3>7, <3>13, <3>14 DEF f
  <2> HIDE DEF Is
  <2> QED
    BY <2>1, <2>2
<1>4. order \in T
  <2> HIDE DEF T
  <2> QED
    BY <1>2, <1>3, SequenceInduction
<1> QED
  BY <1>4

-----------------------------------------------------------------------------
(* The host's objects stay at home.                                        *)

LEMMA HostSplit ==
  ASSUME NEW h
  PROVE  HostOK(h) <=> Sound(h) /\ Homes(h.objs)
  BY DEF HostOK, Sound

LEMMA HomesWithout ==
  ASSUME NEW objs \in Objs, Homes(objs), NEW S,
         \A n \in DOMAIN objs \ S :
           /\ Kind(n) # "scene" => objs[n].in \notin S
           /\ objs[n].ref \in S => Kind(objs[n].ref) = "node"
  PROVE  Homes(Without(objs, S))
<1> DEFINE left == Without(objs, S)
<1>1. /\ left \in Objs /\ DOMAIN left = DOMAIN objs \ S
      /\ \A s \in DOMAIN objs \ S : left[s] = Unbound(objs[s], S)
  BY Removed
<1> HIDE DEF left
<1>2. \A s \in DOMAIN left :
        /\ left[s].in = objs[s].in
        /\ left[s].ref = IF Kind(objs[s].ref) = "node" /\ objs[s].ref \in S
                           THEN None ELSE objs[s].ref
  BY <1>1, ObjsParts, UnboundParts
<1>3. ASSUME NEW n \in DOMAIN left PROVE Home(left, n)
  <2>1. Home(objs, n) /\ n \in DOMAIN objs \ S
    BY <1>1 DEF Homes
  <2>2. Kind(n) # "scene" => left[n].in \in DOMAIN left /\ Kind(left[n].in) = "scene"
    BY <1>1, <1>2, <2>1 DEF Home
  <2>3. ASSUME left[n].ref # None
        PROVE  /\ Kind(n) = "node" /\ left[n].ref \in DOMAIN left
               /\ Kind(left[n].ref) # "scene"
               /\ left[left[n].ref].in = left[n].in
    <3>1. left[n].ref = objs[n].ref /\ objs[n].ref # None /\ objs[n].ref \notin S
      BY <1>2, <2>1, <2>3
    <3>2. objs[n].ref \in DOMAIN left
      BY <1>1, <2>1, <3>1 DEF Home
    <3>3. left[objs[n].ref].in = objs[objs[n].ref].in /\ left[n].in = objs[n].in
      BY <1>2, <3>2
    <3> QED
      BY <2>1, <3>1, <3>2, <3>3 DEF Home
  <2> QED
    BY <2>2, <2>3 DEF Home
<1> QED
  BY <1>3 DEF Homes, left

\* A new object refers to nothing, and is in a scene or is one.
LEMMA AddedHome ==
  ASSUME NEW h, HostOK(h), NEW kind \in Kinds, NEW object \in Obj, object.ref = None,
         Room(h, kind),
         kind # "scene" => object.in \in DOMAIN h.objs /\ Kind(object.in) = "scene"
  PROVE  LET g == AddObject(h, kind, object)
         IN HostOK(g) /\ Mirror(h, g)
<1> DEFINE slot == <<kind, GetFreeIndex(h, kind)>>
           g == AddObject(h, kind, object)
           c == AddCmd(slot, object)
           objs == h.objs
           more == Filled(objs, slot, object)
<1>1. Sound(h) /\ Homes(objs) /\ objs \in Objs /\ h.out \in Seq(Cmd)
  BY HostSplit DEF Sound
<1>2. /\ slot \in Slot /\ slot \notin DOMAIN objs /\ Kind(slot) = kind
      /\ Sound(g) /\ g.objs = more /\ g.out = Append(h.out, c)
  BY <1>1, AddedSound
<1> HIDE DEF slot
<1> HIDE DEF objs
<1>3. /\ DOMAIN more = DOMAIN objs \cup {slot}
      /\ \A s \in DOMAIN objs \cup {slot} : more[s] = IF s = slot THEN object ELSE objs[s]
  <2>1. objs \in Objs /\ slot \in Slot /\ object \in Obj
    BY <1>1, <1>2
  <2> HIDE DEF more
  <2>2. /\ DOMAIN Filled(objs, slot, object) = DOMAIN objs \cup {slot}
        /\ \A s \in DOMAIN objs \cup {slot} :
             Filled(objs, slot, object)[s] = IF s = slot THEN object ELSE objs[s]
    <3> HIDE DEF g, c
    <3>1. DOMAIN Filled(objs, slot, object) = DOMAIN objs \cup {slot}
      BY <2>1, Added
    <3>2. ASSUME NEW s \in DOMAIN objs \cup {slot}
          PROVE  Filled(objs, slot, object)[s] = IF s = slot THEN object ELSE objs[s]
      BY DEF Filled
    <3> QED
      BY <3>1, <3>2
  <2> QED
    BY <2>2 DEF more
<1>4. c \in Cmd /\ c.type = "add" /\ c.slot = slot /\ c.object = object
  BY <1>2 DEF AddCmd, Cmd
<1> HIDE DEF g, more, objs, c
<1>5. ASSUME NEW n \in DOMAIN more PROVE Home(more, n)
  <2>1. CASE n = slot
    <3>1. more[n] = object
      BY <1>3, <2>1
    <3> QED
      BY <1>2, <1>3, <2>1, <3>1 DEF Home, objs
  <2>2. CASE n # slot
    <3>1. n \in DOMAIN objs /\ more[n] = objs[n] /\ Home(objs, n)
      BY <1>1, <1>3, <2>2 DEF Homes
    <3>2. \A s \in DOMAIN objs : s \in DOMAIN more /\ more[s] = objs[s]
      BY <1>2, <1>3
    <3> QED
      BY <3>1, <3>2 DEF Home
  <2> QED
    BY <2>1, <2>2
<1>6. HostOK(g)
  BY <1>2, <1>5, HostSplit DEF Homes
<1>7. Fits(objs, c) /\ Effect(objs, c) = more
  BY <1>2, <1>4 DEF Fits, Effect, Has, objs, more
<1>8. Mirror(h, g)
  <2>1. c.type # "step" /\ h.out \in Seq(Cmd)
    BY <1>1, <1>4
  <2> QED
    BY <1>2, <1>4, <1>7, <2>1, MirrorOne DEF objs
<1> QED
  BY <1>6, <1>8 DEF g

LEMMA Joined ==
  ASSUME NEW D, NEW p \in Seq(D), NEW q \in Seq(D),
         \A i, j \in DOMAIN p : p[i] = p[j] => i = j,
         \A i, j \in DOMAIN q : q[i] = q[j] => i = j,
         Elems(p) \cap Elems(q) = {}
  PROVE  /\ p \o q \in Seq(D)
         /\ \A i, j \in DOMAIN (p \o q) : (p \o q)[i] = (p \o q)[j] => i = j
         /\ Elems(p \o q) = Elems(p) \cup Elems(q)
<1> DEFINE m == Len(p)
           n == Len(q)
           pq == p \o q
<1>1. m \in Nat /\ n \in Nat /\ DOMAIN p = 1 .. m /\ DOMAIN q = 1 .. n
  BY LenProperties
<1>2. /\ pq \in Seq(D) /\ Len(pq) = m + n
      /\ \A i \in 1 .. m + n : pq[i] = IF i <= m THEN p[i] ELSE q[i - m]
  BY ConcatProperties
<1> HIDE DEF m, n, pq
<1>3. DOMAIN pq = 1 .. m + n
  BY <1>2, LenProperties
<1>4. \A i \in 1 .. m + n :
        (i \in 1 .. m /\ pq[i] = p[i]) \/ (i - m \in 1 .. n /\ pq[i] = q[i - m])
  <2> TAKE i \in 1 .. m + n
  <2>1. CASE i <= m
    <3>1. i \in 1 .. m
      BY <1>1, <2>1
    <3>2. pq[i] = p[i]
      BY <1>2, <2>1
    <3> QED
      BY <3>1, <3>2
  <2>2. CASE ~(i <= m)
    <3>1. i - m \in 1 .. n
      BY <1>1, <2>2
    <3>2. pq[i] = q[i - m]
      BY <1>2, <2>2
    <3> QED
      BY <3>1, <3>2
  <2> QED
    BY <2>1, <2>2
<1>5. \A i \in 1 .. m : i \in 1 .. m + n /\ pq[i] = p[i]
  BY <1>1, <1>2
<1>6. \A i \in 1 .. n : i + m \in 1 .. m + n /\ pq[i + m] = q[i]
  <2> TAKE i \in 1 .. n
  <2>1. i + m \in 1 .. m + n /\ ~(i + m <= m) /\ (i + m) - m = i
    BY <1>1
  <2> QED
    BY <1>2, <2>1
<1>7. \A i \in 1 .. m, j \in 1 .. n : p[i] # q[j]
  BY <1>1 DEF Elems
<1>8. ASSUME NEW i \in 1 .. m + n, NEW j \in 1 .. m + n, pq[i] = pq[j] PROVE i = j
  <2>1. CASE i \in 1 .. m /\ pq[i] = p[i] /\ j \in 1 .. m /\ pq[j] = p[j]
    BY <1>1, <1>8, <2>1
  <2>2. CASE i - m \in 1 .. n /\ pq[i] = q[i - m] /\ j - m \in 1 .. n /\ pq[j] = q[j - m]
    <3>1. i - m = j - m
      BY <1>1, <1>8, <2>2
    <3> QED
      BY <1>1, <3>1
  <2>3. CASE i \in 1 .. m /\ pq[i] = p[i] /\ j - m \in 1 .. n /\ pq[j] = q[j - m]
    BY <1>7, <1>8, <2>3
  <2>4. CASE i - m \in 1 .. n /\ pq[i] = q[i - m] /\ j \in 1 .. m /\ pq[j] = p[j]
    BY <1>7, <1>8, <2>4
  <2> QED
    BY <1>4, <2>1, <2>2, <2>3, <2>4
<1>9. Elems(pq) = Elems(p) \cup Elems(q)
  <2>1. ASSUME NEW e \in Elems(pq) PROVE e \in Elems(p) \cup Elems(q)
    <3>1. PICK i \in 1 .. m + n : e = pq[i]
      BY <1>3 DEF Elems
    <3>2. CASE i \in 1 .. m /\ pq[i] = p[i]
      BY <1>1, <3>1, <3>2 DEF Elems
    <3>3. CASE i - m \in 1 .. n /\ pq[i] = q[i - m]
      BY <1>1, <3>1, <3>3 DEF Elems
    <3> QED
      BY <1>4, <3>2, <3>3
  <2>2. ASSUME NEW e \in Elems(p) PROVE e \in Elems(pq)
    <3>1. PICK i \in 1 .. m : e = p[i]
      BY <1>1 DEF Elems
    <3>2. i \in DOMAIN pq /\ e = pq[i]
      BY <1>1, <1>3, <1>5, <3>1
    <3> QED
      BY <3>2 DEF Elems
  <2>3. ASSUME NEW e \in Elems(q) PROVE e \in Elems(pq)
    <3>1. PICK i \in 1 .. n : e = q[i]
      BY <1>1 DEF Elems
    <3>2. i + m \in DOMAIN pq /\ e = pq[i + m]
      BY <1>1, <1>3, <1>6, <3>1
    <3> QED
      BY <3>2 DEF Elems
  <2> QED
    BY <2>1, <2>2, <2>3
<1> QED
  BY <1>2, <1>3, <1>8, <1>9 DEF pq

LEMMA JoinedOne ==
  ASSUME NEW D, NEW p \in Seq(D), NEW x \in D \ Elems(p),
         \A i, j \in DOMAIN p : p[i] = p[j] => i = j
  PROVE  /\ p \o <<x>> \in Seq(D)
         /\ \A i, j \in DOMAIN (p \o <<x>>) : (p \o <<x>>)[i] = (p \o <<x>>)[j] => i = j
         /\ Elems(p \o <<x>>) = Elems(p) \cup {x}
         /\ Len(p \o <<x>>) = Len(p) + 1 /\ Len(p) \in Nat
         /\ DOMAIN (p \o <<x>>) = 1 .. (Len(p) + 1)
         /\ \A i \in 1 .. Len(p) : (p \o <<x>>)[i] = p[i]
         /\ (p \o <<x>>)[Len(p) + 1] = x
<1> DEFINE q == <<x>>
<1>1. q \in Seq(D) /\ DOMAIN q = 1 .. 1 /\ q[1] = x /\ Len(q) = 1
  OBVIOUS
<1> HIDE DEF q
<1>2. \A i \in DOMAIN q : i = 1
  BY <1>1
<1>3. Elems(q) = {x}
  BY <1>1, <1>2 DEF Elems
<1>4. /\ p \o q \in Seq(D)
      /\ \A i, j \in DOMAIN (p \o q) : (p \o q)[i] = (p \o q)[j] => i = j
      /\ Elems(p \o q) = Elems(p) \cup {x}
  <2>1. Elems(p) \cap Elems(q) = {} /\ \A i, j \in DOMAIN q : q[i] = q[j] => i = j
    BY <1>2, <1>3
  <2> QED
    BY <1>1, <1>3, <2>1, Joined
<1> DEFINE pq == p \o q
<1>5. pq = Append(p, x) /\ pq \in Seq(D)
  BY <1>4, AppendIsConcat DEF q
<1>6. Len(Append(p, x)) = Len(p) + 1 /\ \A i \in 1 .. Len(p) : Append(p, x)[i] = p[i]
  BY AppendProperties
<1>7. Append(p, x)[Len(p) + 1] = x /\ Len(p) \in Nat
  BY AppendProperties, LenProperties
<1> HIDE DEF pq
<1>8. DOMAIN pq = 1 .. Len(pq)
  BY <1>5, LenProperties
<1> QED
  BY <1>4, <1>5, <1>6, <1>7, <1>8 DEF q, pq

\* What is there is what was there.
Fewer(h, g) ==
  \A n \in DOMAIN g.objs : n \in DOMAIN h.objs /\ g.objs[n].what = h.objs[n].what

LEMMA RemovedHome ==
  ASSUME NEW h, HostOK(h), NEW order \in Seq(DOMAIN h.objs), Orderly(h.objs, order),
         \A n \in DOMAIN h.objs \ Elems(order) :
           /\ Kind(n) # "scene" => h.objs[n].in \notin Elems(order)
           /\ h.objs[n].ref \in Elems(order) => Kind(h.objs[n].ref) = "node"
  PROVE  LET g == Through(RemoveObject, h, order)
         IN /\ HostOK(g) /\ Mirror(h, g) /\ Fewer(h, g)
            /\ DOMAIN g.objs = DOMAIN h.objs \ Elems(order)
<1> DEFINE g == Through(RemoveObject, h, order)
<1>1. Sound(g) /\ g.objs = Without(h.objs, Elems(order)) /\ Mirror(h, g)
  BY RemovedEach, RemovedOrderly
<1> HIDE DEF g
<1>2. h.objs \in Objs /\ Homes(h.objs)
  BY DEF HostOK
<1>3. Homes(g.objs)
  BY <1>1, <1>2, HomesWithout
<1>4. /\ DOMAIN g.objs = DOMAIN h.objs \ Elems(order)
      /\ \A s \in DOMAIN h.objs \ Elems(order) :
           g.objs[s] = Unbound(h.objs[s], Elems(order))
  BY <1>1, <1>2, Removed
<1>5. Fewer(h, g)
  BY <1>2, <1>4, ObjsParts, UnboundParts DEF Fewer
<1> QED
  BY <1>1, <1>3, <1>4, <1>5, HostSplit DEF g

LEMMA OrderlyNone ==
  ASSUME NEW objs, NEW D, NEW p \in Seq(D),
         \A i, j \in DOMAIN p : p[i] = p[j] => i = j,
         \A x \in Elems(p) : Kind(x) # "scene"
  PROVE  Orderly(objs, p)
  BY DEF Orderly, Elems

LEMMA OrderlyScene ==
  ASSUME NEW objs, NEW D, NEW p \in Seq(D), NEW x \in D \ Elems(p),
         \A i, j \in DOMAIN p : p[i] = p[j] => i = j,
         \A y \in Elems(p) : Kind(y) # "scene",
         Nodes(objs, x) \subseteq Elems(p),
         NEW pq, pq = p \o <<x>>
  PROVE  /\ pq \in Seq(D)
         /\ Orderly(objs, pq)
<1> DEFINE m == Len(p)
<1>1. /\ pq \in Seq(D)
      /\ \A i, j \in DOMAIN pq : pq[i] = pq[j] => i = j
      /\ Elems(pq) = Elems(p) \cup {x}
      /\ m \in Nat
      /\ DOMAIN pq = 1 .. (m + 1)
      /\ \A i \in 1 .. m : pq[i] = p[i]
      /\ pq[m + 1] = x
  BY JoinedOne
<1>2. DOMAIN p = 1 .. m
  BY LenProperties
<1> HIDE DEF m
<1>3. ASSUME NEW i \in DOMAIN pq, Kind(pq[i]) = "scene"
      PROVE  Nodes(objs, pq[i]) \subseteq {pq[j] : j \in 1 .. (i - 1)}
  <2>1. CASE i \in 1 .. m
    <3>1. pq[i] \in Elems(p)
      BY <1>1, <1>2, <2>1 DEF Elems
    <3> QED
      BY <1>3, <3>1
  <2>2. CASE i = m + 1
    <3>1. i - 1 = m /\ pq[i] = x
      BY <1>1, <2>2
    <3>2. Elems(p) = {p[j] : j \in 1 .. m}
      BY <1>2 DEF Elems
    <3>3. {p[j] : j \in 1 .. m} = {pq[j] : j \in 1 .. m}
      BY <1>1
    <3> QED
      BY <3>1, <3>2, <3>3
  <2>3. i \in 1 .. (m + 1)
    BY <1>1
  <2>4. i \in 1 .. m \/ i = m + 1
    BY <1>1, <2>3
  <2> QED
    BY <2>1, <2>2, <2>4
<1> QED
  BY <1>1, <1>3 DEF Orderly

\* A scene goes with what is in it.
LEMMA RemovedScene ==
  ASSUME NEW h, HostOK(h), NEW scene \in OfKind(h.objs, "scene")
  PROVE  LET g == RemoveScene(h, scene)
         IN /\ HostOK(g) /\ Mirror(h, g) /\ Fewer(h, g)
            /\ OfKind(h.objs, "scene") \ {scene} \subseteq OfKind(g.objs, "scene")
<1> DEFINE objs == h.objs
           D == DOMAIN objs
           M == InScene(objs, "media", scene)
           N == InScene(objs, "node", scene)
           pm == HostSlotsIn(h, "media", scene)
           pn == HostSlotsIn(h, "node", scene)
           p == pm \o pn
           order == p \o <<scene>>
<1>1. objs \in Objs /\ IsFiniteSet(D) /\ Homes(objs) /\ D \subseteq Slot
  BY ObjsParts DEF HostOK
<1>2. /\ scene \in D /\ Kind(scene) = "scene"
      /\ M \in SUBSET D /\ \A n \in M : Kind(n) = "media" /\ objs[n].in = scene
      /\ N \in SUBSET D /\ \A n \in N : Kind(n) = "node" /\ objs[n].in = scene
      /\ \A n \in D : Kind(n) = "media" /\ objs[n].in = scene => n \in M
      /\ \A n \in D : Kind(n) = "node" /\ objs[n].in = scene => n \in N
      /\ N = Nodes(objs, scene)
  BY DEF InScene, OfKind, Nodes
<1>3. IsFiniteSet(M) /\ IsFiniteSet(N)
  BY <1>1, <1>2, FS_Subset
<1>4. pm = SetToSeq(M) /\ pn = SetToSeq(N)
  BY DEF HostSlotsIn
<1> HIDE DEF M, N, pm, pn, objs
<1>5. /\ pm \in Seq(M) /\ Elems(pm) = M
      /\ \A i, j \in DOMAIN pm : pm[i] = pm[j] => i = j
  BY <1>3, <1>4, InOrder DEF Elems
<1>6. /\ pn \in Seq(N) /\ Elems(pn) = N
      /\ \A i, j \in DOMAIN pn : pn[i] = pn[j] => i = j
  BY <1>3, <1>4, InOrder DEF Elems
<1>7. pm \in Seq(D) /\ pn \in Seq(D)
  BY <1>2, <1>5, <1>6, SeqMonotonic
<1>8. Elems(pm) \cap Elems(pn) = {}
  BY <1>2, <1>5, <1>6
<1>9. /\ p \in Seq(D)
      /\ \A i, j \in DOMAIN p : p[i] = p[j] => i = j
      /\ Elems(p) = M \cup N
  BY <1>5, <1>6, <1>7, <1>8, Joined
<1> HIDE DEF p
<1>10. order \in Seq(D) /\ Orderly(objs, order) /\ Elems(order) = M \cup N \cup {scene}
  <2>1. scene \in D \ Elems(p) /\ \A y \in Elems(p) : Kind(y) # "scene"
    BY <1>2, <1>9
  <2>2. Nodes(objs, scene) \subseteq Elems(p)
    BY <1>2, <1>9
  <2> HIDE DEF D
  <2>3. order = p \o <<scene>>
    OBVIOUS
  <2> HIDE DEF order
  <2>4. /\ order \in Seq(D) /\ Orderly(objs, order)
        /\ Elems(order) = Elems(p) \cup {scene}
    <3>1. order \in Seq(D)
      BY <1>9, <2>1, <2>2, <2>3, OrderlyScene
    <3>2. Orderly(objs, order)
      BY <1>9, <2>1, <2>2, <2>3, OrderlyScene
    <3>3. Elems(order) = Elems(p) \cup {scene}
      BY <1>9, <2>1, <2>3, JoinedOne
    <3> QED
      BY <3>1, <3>2, <3>3
  <2> QED
    BY <1>9, <2>4
<1> HIDE DEF order
<1>11. ASSUME NEW n \in D \ Elems(order)
       PROVE  /\ Kind(n) # "scene" => objs[n].in \notin Elems(order)
              /\ objs[n].ref \in Elems(order) => Kind(objs[n].ref) = "node"
  <2>1. Home(objs, n) /\ n \in D /\ n \notin M /\ n \notin N
    BY <1>1, <1>10 DEF Homes
  <2>2. Kind(n) \in Kinds
    BY <1>1, Kind3
  <2>3. ASSUME Kind(n) # "scene" PROVE objs[n].in \notin Elems(order)
    <3>1. Kind(objs[n].in) = "scene" /\ objs[n].in # scene
      BY <1>2, <2>1, <2>2, <2>3 DEF Home, Kinds
    <3> QED
      BY <1>2, <1>10, <3>1
  <2>4. ASSUME objs[n].ref \in Elems(order), Kind(objs[n].ref) # "node" PROVE FALSE
    <3>1. objs[n].ref \in D /\ objs[n].ref # None
      BY <1>1, <1>2, <1>10, <2>4, Kind3
    <3>2. Kind(n) = "node" /\ objs[objs[n].ref].in = objs[n].in /\ Kind(objs[n].ref) # "scene"
      BY <2>1, <3>1 DEF Home
    <3>3. objs[n].ref \in M
      BY <1>2, <1>10, <2>4, <3>2
    <3> QED
      BY <1>2, <2>1, <3>2, <3>3
  <2> QED
    BY <2>3, <2>4
<1>12. LET g == Through(RemoveObject, h, order)
       IN /\ HostOK(g) /\ Mirror(h, g) /\ Fewer(h, g)
          /\ DOMAIN g.objs = D \ Elems(order)
  BY <1>10, <1>11, RemovedHome DEF objs
<1>13. RemoveScene(h, scene) = Through(RemoveObject, h, order)
  BY DEF RemoveScene, order, p, pm, pn
<1> DEFINE g == RemoveScene(h, scene)
<1>14. HostOK(g) /\ Mirror(h, g) /\ Fewer(h, g) /\ DOMAIN g.objs = D \ Elems(order)
  BY <1>12, <1>13
<1> HIDE DEF g
<1>15. OfKind(objs, "scene") \ {scene} \subseteq OfKind(g.objs, "scene")
  BY <1>2, <1>10, <1>14 DEF OfKind
<1> QED
  BY <1>14, <1>15 DEF g, objs

Clearing == INSTANCE FoldProofs WITH Op <- RemoveScene

LEMMA ClearedEach == \A b, q : Through(RemoveScene, b, q) = Clearing!Fold(b, q)
  BY DEF Through, Clearing!Fold

LEMMA MirrorSelf == ASSUME NEW h, HostOK(h) PROVE Mirror(h, h)
  BY MirrorSame DEF HostOK

LEMMA RemovedAll ==
  ASSUME NEW h, HostOK(h)
  PROVE  HostOK(RemoveAll(h)) /\ Mirror(h, RemoveAll(h))
<1> DEFINE S == OfKind(h.objs, "scene")
           q == Slots(h.objs, "scene")
           Once(p) == Orderly(NoObjects, p)
           T == {p \in Seq(S) :
                   Once(p) => /\ HostOK(Clearing!Fold(h, p))
                              /\ Mirror(h, Clearing!Fold(h, p))
                              /\ S \ Elems(p) \subseteq OfKind(Clearing!Fold(h, p).objs, "scene")}
<1>1. IsFiniteSet(S)
  <2>1. IsFiniteSet(DOMAIN h.objs) /\ S \subseteq DOMAIN h.objs
    BY DEF HostOK, OfKind
  <2> QED
    BY <2>1, FS_Subset
<1>2. q \in Seq(S) /\ \A i, j \in DOMAIN q : q[i] = q[j] => i = j
  BY <1>1, InOrder DEF Slots
<1>3. h.out \in Seq(Cmd)
  BY DEF HostOK
<1> HIDE DEF q
<1>4. Once(q)
  <2>1. \A x : Nodes(NoObjects, x) = {}
    BY NoObjectsType DEF Nodes
  <2> QED
    BY <1>2, <2>1 DEF Orderly
<1>5. <<>> \in T
  <2>1. Clearing!Fold(h, <<>>) = h
    BY Clearing!FoldEmpty
  <2> QED
    BY <2>1, EmptySeq, MirrorSelf
<1>6. ASSUME NEW p \in Seq(S), NEW x \in S, p \in T
      PROVE  Append(p, x) \in T
  <2> DEFINE g == Clearing!Fold(h, p)
             f == Clearing!Fold(h, Append(p, x))
  <2>1. Append(p, x) \in Seq(S)
    BY AppendProperties
  <2>2. f = RemoveScene(g, x)
    BY Clearing!FoldAppend
  <2> HIDE DEF f
  <2>3. ASSUME Once(Append(p, x))
        PROVE  HostOK(f) /\ Mirror(h, f) /\ S \ Elems(Append(p, x)) \subseteq OfKind(f.objs, "scene")
    <3>1. Once(p) /\ x \notin Elems(p) /\ Elems(Append(p, x)) = Elems(p) \cup {x}
      BY <2>3, OrderlyAppend
    <3>2. HostOK(g) /\ Mirror(h, g) /\ S \ Elems(p) \subseteq OfKind(g.objs, "scene")
      BY <1>6, <3>1
    <3> HIDE DEF S, g, Once
    <3>3. x \in OfKind(g.objs, "scene")
      BY <3>1, <3>2
    <3>4. /\ HostOK(f) /\ Mirror(g, f)
          /\ OfKind(g.objs, "scene") \ {x} \subseteq OfKind(f.objs, "scene")
      BY <2>2, <3>2, <3>3, RemovedScene
    <3>5. Mirror(h, f)
      BY <1>3, <3>2, <3>4, MirrorTrans
    <3>6. S \ Elems(Append(p, x)) \subseteq OfKind(f.objs, "scene")
      BY <3>1, <3>2, <3>4
    <3> QED
      BY <3>4, <3>5, <3>6
  <2> QED
    BY <2>1, <2>3 DEF f
<1> HIDE DEF T, S
<1>7. q \in T
  BY <1>2, <1>5, <1>6, SequenceInduction
<1>8. RemoveAll(h) = Clearing!Fold(h, q)
  BY ClearedEach DEF RemoveAll, q
<1> QED
  BY <1>4, <1>7, <1>8 DEF T

LEMMA DeletedNodes ==
  ASSUME NEW h, HostOK(h), NEW node \in OfKind(h.objs, "node"),
         NEW others \in SUBSET (OfKind(h.objs, "node") \ {node})
  PROVE  LET g == Through(RemoveObject, h, <<node>> \o SetToSeq(others))
         IN HostOK(g) /\ Mirror(h, g) /\ Fewer(h, g)
<1> DEFINE objs == h.objs
           D == DOMAIN objs
           p == <<node>>
           q == SetToSeq(others)
           order == p \o q
<1>1. objs \in Objs /\ IsFiniteSet(D) /\ Homes(objs) /\ D \subseteq Slot
  BY ObjsParts DEF HostOK
<1>2. node \in D /\ Kind(node) = "node" /\ others \in SUBSET D /\ node \notin others
      /\ \A n \in others : Kind(n) = "node"
  BY DEF OfKind
<1>3. IsFiniteSet(others)
  BY <1>1, <1>2, FS_Subset
<1>4. q \in Seq(others) /\ Elems(q) = others /\ \A i, j \in DOMAIN q : q[i] = q[j] => i = j
  BY <1>3, InOrder DEF Elems
<1>5. p \in Seq(D) /\ DOMAIN p = 1 .. 1 /\ p[1] = node
  BY <1>2
<1> HIDE DEF p, q, objs
<1>6. \A i \in DOMAIN p : i = 1
  BY <1>5
<1>7. Elems(p) = {node} /\ \A i, j \in DOMAIN p : p[i] = p[j] => i = j
  BY <1>5, <1>6 DEF Elems
<1>8. q \in Seq(D)
  BY <1>2, <1>4, SeqMonotonic
<1>9. Elems(p) \cap Elems(q) = {}
  BY <1>2, <1>4, <1>7
<1>10. /\ order \in Seq(D)
       /\ \A i, j \in DOMAIN order : order[i] = order[j] => i = j
       /\ Elems(order) = {node} \cup others
  <2>1. /\ order \in Seq(D)
        /\ \A i, j \in DOMAIN order : order[i] = order[j] => i = j
        /\ Elems(order) = Elems(p) \cup Elems(q)
    <3> HIDE DEF D
    <3> QED
      BY <1>4, <1>5, <1>7, <1>8, <1>9, Joined
  <2> QED
    BY <1>4, <1>7, <2>1
<1> HIDE DEF order
<1>11. \A n \in Elems(order) : Kind(n) = "node"
  BY <1>2, <1>10
<1>12. Orderly(objs, order)
  <2>1. \A n \in Elems(order) : Kind(n) # "scene"
    BY <1>11
  <2> QED
    BY <1>10, <2>1, OrderlyNone
<1>13. ASSUME NEW n \in D \ Elems(order)
       PROVE  /\ Kind(n) # "scene" => objs[n].in \notin Elems(order)
              /\ objs[n].ref \in Elems(order) => Kind(objs[n].ref) = "node"
  BY <1>1, <1>11 DEF Homes, Home
<1>14. LET g == Through(RemoveObject, h, order)
       IN HostOK(g) /\ Mirror(h, g) /\ Fewer(h, g)
  BY <1>10, <1>12, <1>13, RemovedHome DEF objs
<1> QED
  BY <1>14 DEF order, p, q

LEMMA DroppedMedia ==
  ASSUME NEW h, HostOK(h), NEW slot \in OfKind(h.objs, "media"),
         \A n \in OfKind(h.objs, "node") : h.objs[n].ref # slot
  PROVE  LET g == RemoveObject(h, slot)
         IN HostOK(g) /\ Mirror(h, g) /\ Fewer(h, g)
<1> DEFINE objs == h.objs
           D == DOMAIN objs
           order == <<slot>>
<1>1. Homes(objs) /\ D \subseteq Slot
  BY ObjsParts DEF HostOK
<1>2. slot \in D /\ Kind(slot) = "media"
  BY DEF OfKind
<1>3. order \in Seq(D) /\ DOMAIN order = 1 .. 1 /\ order[1] = slot
  <2>1. slot \in D
    BY <1>2
  <2> HIDE DEF D
  <2> QED
    BY <2>1
<1>4. Through(RemoveObject, h, order) = RemoveObject(h, slot)
  BY RemovedEach, Removing!FoldOne
<1> HIDE DEF order, objs
<1>5. \A i \in DOMAIN order : i = 1
  BY <1>3
<1>6. Elems(order) = {slot} /\ \A i, j \in DOMAIN order : order[i] = order[j] => i = j
  BY <1>3, <1>5 DEF Elems
<1>7. Orderly(objs, order)
  <2>1. \A n \in Elems(order) : Kind(n) # "scene"
    BY <1>2, <1>6
  <2> QED
    BY <1>3, <1>6, <2>1, OrderlyNone
<1>8. ASSUME NEW n \in D \ Elems(order)
      PROVE  /\ Kind(n) # "scene" => objs[n].in \notin Elems(order)
             /\ objs[n].ref \in Elems(order) => Kind(objs[n].ref) = "node"
  <2>1. Home(objs, n) /\ n \in D
    BY <1>1 DEF Homes
  <2>2. Kind(n) # "scene" => objs[n].in # slot
    BY <1>2, <2>1 DEF Home
  <2>3. objs[n].ref # slot
    <3>1. CASE Kind(n) = "node"
      BY <2>1, <3>1 DEF OfKind, objs
    <3>2. CASE Kind(n) # "node"
      BY <1>1, <1>2, <2>1, <3>2, Kind3 DEF Home
    <3> QED
      BY <3>1, <3>2
  <2> QED
    BY <1>6, <2>2, <2>3
<1>9. LET g == Through(RemoveObject, h, order)
      IN HostOK(g) /\ Mirror(h, g) /\ Fewer(h, g)
  BY <1>3, <1>7, <1>8, RemovedHome DEF objs
<1> QED
  BY <1>4, <1>9

LEMMA AttrSet ==
  ASSUME NEW h, HostOK(h), NEW node \in OfKind(h.objs, "node"),
         NEW ref \in {None} \cup OfKind(h.objs, "media") \cup OfKind(h.objs, "node"),
         ref # None => h.objs[ref].in = h.objs[node].in
  PROVE  LET g == Write([h EXCEPT !.objs[node].ref = ref], SetCmd(node, ref))
         IN HostOK(g) /\ Mirror(h, g) /\ Fewer(h, g)
<1> DEFINE objs == h.objs
           D == DOMAIN objs
           c == SetCmd(node, ref)
           set == [objs EXCEPT ![node].ref = ref]
           f == [h EXCEPT !.objs[node].ref = ref]
           g == Write(f, c)
<1>1. /\ objs \in Objs /\ IsFiniteSet(D) /\ Homes(objs) /\ D \subseteq Slot
      /\ Shape(h) /\ Lists(h) /\ h.out \in Seq(Cmd) /\ \A n \in D : objs[n] \in Obj
  BY ObjsParts DEF HostOK
<1>2. /\ node \in D /\ Kind(node) = "node" /\ node \in Slot
      /\ ref \in Ref
      /\ ref # None => ref \in D /\ Kind(ref) # "scene" /\ objs[ref].in = objs[node].in
  BY <1>1 DEF OfKind, Ref
<1>3. f = [h EXCEPT !.objs = set]
  OBVIOUS
<1>4. /\ set \in Objs /\ DOMAIN set = D
      /\ \A s \in D : set[s] = IF s = node THEN [objs[s] EXCEPT !.ref = ref] ELSE objs[s]
  BY <1>1, <1>2, Bound
<1>5. /\ Shape(f) /\ f.objs = set /\ f.size = h.size /\ f.free = h.free /\ f.out = h.out
  <2>1. f = [objs |-> set, owner |-> h.owner, size |-> h.size, free |-> h.free, out |-> h.out]
    BY <1>1, <1>3, ShapeParts
  <2> QED
    BY <2>1 DEF Shape
<1>6. c \in Cmd /\ c.type = "set" /\ c.slot = node /\ c.ref = ref
  BY <1>2 DEF SetCmd, Cmd
<1> HIDE DEF f, c
<1>7. /\ Shape(g) /\ g.objs = set /\ g.size = h.size /\ g.free = h.free
      /\ g.out = Append(h.out, c)
  BY <1>5, Wrote
<1>8. Fits(objs, c) /\ Effect(objs, c) = set
  BY <1>2, <1>6 DEF Fits, Effect, Has
<1> HIDE DEF g, objs
<1>9. Mirror(h, g)
  BY <1>1, <1>6, <1>7, <1>8, MirrorOne DEF objs
<1> HIDE DEF set
<1>10. \A n \in D : /\ set[n].in = objs[n].in /\ set[n].what = objs[n].what
                    /\ set[n].ref = IF n = node THEN ref ELSE objs[n].ref
  BY <1>1, <1>4 DEF Obj
<1>11. Homes(set)
  <2> SUFFICES ASSUME NEW n \in D PROVE Home(set, n)
    BY <1>4 DEF Homes
  <2>1. Home(objs, n)
    BY <1>1 DEF Homes
  <2>2. CASE n = node
    BY <1>2, <1>4, <1>10, <2>1, <2>2 DEF Home
  <2>3. CASE n # node
    BY <1>2, <1>4, <1>10, <2>1, <2>3 DEF Home
  <2> QED
    BY <2>2, <2>3
<1>12. Lists(g)
  <2>1. \A k : Used(g, k) = Used(h, k) /\ Free(g, k) = Free(h, k)
    BY <1>4, <1>7 DEF Used, Free, OfKind, objs
  <2> QED
    BY <1>1, <1>7, <2>1 DEF Lists
<1>13. g.out \in Seq(Cmd)
  BY <1>1, <1>6, <1>7, AppendProperties
<1>14. HostOK(g)
  BY <1>1, <1>4, <1>7, <1>11, <1>12, <1>13 DEF HostOK
<1>15. Fewer(h, g)
  BY <1>4, <1>7, <1>10 DEF Fewer, objs
<1> QED
  BY <1>9, <1>14, <1>15 DEF g, f, c

-----------------------------------------------------------------------------
(* What is on the way, up to what the host has.                            *)

FateOf(w, q, out) == Playing!Fold(Hearing!Fold(w, q), out)

LEMMA WellType ==
  ASSUME NEW objs \in Objs, NEW owed \in Seq(Owed)
  PROVE  /\ Well(objs, owed) \in World /\ Well(objs, owed).ok
         /\ Well(objs, owed).objs = objs /\ Well(objs, owed).owed = owed
  BY DEF Well, World

LEMMA WellWorld ==
  ASSUME NEW w \in World, w.ok
  PROVE  w = Well(w.objs, w.owed)
  BY DEF Well, World

LEMMA FateMirror ==
  ASSUME NEW h, NEW g, NEW w, NEW q, NEW owed \in Seq(Owed),
         h.out \in Seq(Cmd), Mirror(h, g), FateOf(w, q, h.out) = Well(h.objs, owed)
  PROVE  FateOf(w, q, g.out) = Well(g.objs, owed)
<1>1. PICK cs \in Seq(Cmd) :
         /\ g.out = h.out \o cs
         /\ \A o \in Seq(Owed) : Playing!Fold(Well(h.objs, o), cs) = Well(g.objs, o)
  BY DEF Mirror
<1>2. h.out \in Seq(Item) /\ cs \in Seq(Item)
  BY CmdIsItem
<1> DEFINE heard == Hearing!Fold(w, q)
<1>3. Playing!Fold(heard, h.out \o cs) = Playing!Fold(Playing!Fold(heard, h.out), cs)
  BY <1>2, PlayedConcat
<1> QED
  BY <1>1, <1>3 DEF FateOf

LEMMA StepIsCmd ==
  ASSUME NEW d \in 1 .. StepCap
  PROVE  StepCmd(d) \in Cmd /\ StepCmd(d).type = "step"
  BY DEF StepCmd, Cmd

LEMMA FateStep ==
  ASSUME NEW out \in Seq(Cmd), NEW d \in 1 .. StepCap, NEW w, NEW q,
         NEW objs, NEW owed \in Seq(Owed), FateOf(w, q, out) = Well(objs, owed)
  PROVE  FateOf(w, q, Append(out, StepCmd(d))) = Well(objs, Append(owed, Moment(objs)))
<1> DEFINE c == StepCmd(d)
           v == Well(objs, owed)
           heard == Hearing!Fold(w, q)
<1>1. c \in Cmd /\ c.type = "step"
  BY StepIsCmd
<1> HIDE DEF c, heard
<1>2. Playing!Fold(heard, Append(out, c)) = Play(Playing!Fold(heard, out), c)
  BY <1>1, Playing!FoldAppend
<1>3. v.ok /\ v.objs = objs /\ v.owed = owed
  BY DEF Well
<1>4. Fits(v.objs, c) /\ Effect(v.objs, c) = v.objs /\ Owes(v.objs, c) = <<Moment(v.objs)>>
  BY <1>1 DEF Fits, Effect, Owes
<1> HIDE DEF v
<1>5. Play(v, c) = [ok |-> TRUE, objs |-> Effect(v.objs, c),
                    owed |-> v.owed \o Owes(v.objs, c)]
  BY <1>3, <1>4, PlayWell
<1>6. owed \o <<Moment(objs)>> = Append(owed, Moment(objs))
  BY AppendIsConcat
<1>7. Play(v, c) = Well(objs, Append(owed, Moment(objs)))
  BY <1>3, <1>4, <1>5, <1>6 DEF Well
<1> QED
  BY <1>2, <1>7 DEF FateOf, v, c, heard

LEMMA HeardConcat ==
  ASSUME NEW w, NEW p \in Seq(Msg), NEW q \in Seq(Msg)
  PROVE  Hearing!Fold(w, p \o q) = Hearing!Fold(Hearing!Fold(w, p), q)
  BY Hearing!FoldConcat

\* What is written is shipped.
LEMMA FateShipped ==
  ASSUME NEW h, h.out \in Seq(Cmd), NEW w, NEW q \in Seq(Msg)
  PROVE  /\ q \o Shipped(h) \in Seq(Msg)
         /\ Hearing!Fold(w, q \o Shipped(h)) = FateOf(w, q, h.out)
         /\ FateOf(w, q \o Shipped(h), <<>>) = FateOf(w, q, h.out)
<1> DEFINE heard == Hearing!Fold(w, q)
<1>1. /\ Shipped(h) \in Seq(Msg)
      /\ Hearing!Fold(heard, Shipped(h)) = Playing!Fold(heard, h.out)
  BY HostShipped
<1>2. Hearing!Fold(w, q \o Shipped(h)) = Hearing!Fold(heard, Shipped(h))
  BY <1>1, HeardConcat
<1>3. \A v : Playing!Fold(v, <<>>) = v
  BY Playing!FoldEmpty
<1>4. q \o Shipped(h) \in Seq(Msg)
  BY <1>1, ConcatProperties
<1> QED
  BY <1>1, <1>2, <1>3, <1>4 DEF FateOf

\* Corrections fit what they are made of, and change nothing in the play.
LEMMA Corrected ==
  ASSUME NEW objs \in Objs, IsFiniteSet(DOMAIN objs)
  PROVE  /\ GetCorrectionMessages(objs) \in Seq(Msg)
         /\ \A owed \in Seq(Owed) :
              Hearing!Fold(Well(objs, owed), GetCorrectionMessages(objs)) = Well(objs, owed)
<1> DEFINE S == {s \in OfKind(objs, "scene") : Nodes(objs, s) # {}}
           scenes == SetToSeq(S)
           Nods(s) == {[slot |-> n, what |-> objs[n].what] : n \in Nodes(objs, s)}
           msgs == [i \in DOMAIN scenes |-> CorrectionMsg(Nods(scenes[i]))]
<1>1. IsFiniteSet(S)
  <2>1. S \subseteq DOMAIN objs
    BY DEF OfKind
  <2> QED
    BY <2>1, FS_Subset
<1>2. scenes \in Seq(S) /\ DOMAIN scenes = 1 .. Len(scenes)
  BY <1>1, InOrder
<1>3. msgs = GetCorrectionMessages(objs)
  BY DEF GetCorrectionMessages
<1>4. \A s : Nods(s) \in SUBSET Named
  BY ObjsParts DEF Nodes, Named, Obj
<1>5. \A s : \A n \in Nods(s) : Has(objs, n.slot) /\ objs[n.slot].what = n.what
  BY DEF Nodes, Has
<1> HIDE DEF Nods, S, scenes
<1>6. Len(scenes) \in Nat
  BY <1>2, LenProperties
<1>7. /\ \A i \in 1 .. Len(scenes) : msgs[i] = CorrectionMsg(Nods(scenes[i]))
      /\ msgs \in Seq(Msg) /\ DOMAIN msgs = 1 .. Len(scenes)
  <2>1. \A s : CorrectionMsg(Nods(s)) \in Msg
    BY <1>4 DEF CorrectionMsg, Msg
  <2>2. msgs \in [1 .. Len(scenes) -> Msg]
    BY <1>2, <2>1
  <2>3. msgs \in Seq(Msg)
    BY <1>6, <2>2 DEF Seq
  <2> QED
    BY <1>2, <2>3
<1>8. ASSUME NEW owed \in Seq(Owed)
      PROVE  Hearing!Fold(Well(objs, owed), msgs) = Well(objs, owed)
  <2> DEFINE w == Well(objs, owed)
  <2>1. w.ok /\ w.objs = objs /\ w.owed = owed
    BY DEF Well
  <2>2. ASSUME NEW i \in 1 .. Len(msgs)
        PROVE  PlayMsg(w, msgs[i]) = w
    <3> DEFINE N == Nods(scenes[i])
               c == CorrectCmd(N)
    <3>1. i \in 1 .. Len(scenes)
      BY <1>6, <1>7, LenProperties
    <3>2. msgs[i] = CorrectionMsg(N)
      BY <1>7, <3>1
    <3>3. Items(msgs[i]) = <<c>>
      BY <3>2 DEF CorrectionMsg, Items
    <3>4. c.type = "correct" /\ c.nodes = N
      BY DEF CorrectCmd
    <3> HIDE DEF c, N
    <3>5. Fits(objs, c) /\ Effect(objs, c) = objs /\ Owes(objs, c) = <<>>
      BY <1>5, <3>4 DEF Fits, Effect, Owes, N
    <3> HIDE DEF w
    <3>6. Play(w, c) = [ok |-> TRUE, objs |-> Effect(w.objs, c),
                        owed |-> w.owed \o Owes(w.objs, c)]
      BY <2>1, <3>5, PlayWell
    <3>7. owed \o <<>> = owed
      BY ConcatEmptySeq
    <3>8. Play(w, c) = Well(objs, owed)
      BY <2>1, <3>5, <3>6, <3>7 DEF Well
    <3>9. Playing!Fold(w, <<c>>) = Play(w, c)
      BY Playing!FoldOne
    <3> QED
      BY <3>3, <3>8, <3>9 DEF PlayMsg, w
  <2> HIDE DEF w, msgs
  <2>3. \A s \in {w}, i \in 1 .. Len(msgs) : PlayMsg(s, msgs[i]) \in {w}
    BY <2>2
  <2>4. Hearing!Fold(w, msgs) \in {w}
    BY <1>7, <2>3, Hearing!FoldKeeps
  <2> QED
    BY <2>4 DEF w
<1> HIDE DEF msgs
<1> QED
  BY <1>3, <1>7, <1>8

LEMMA FateCorrected ==
  ASSUME NEW objs \in Objs, IsFiniteSet(DOMAIN objs), NEW owed \in Seq(Owed),
         NEW w, NEW q \in Seq(Msg), Hearing!Fold(w, q) = Well(objs, owed)
  PROVE  /\ q \o GetCorrectionMessages(objs) \in Seq(Msg)
         /\ Hearing!Fold(w, q \o GetCorrectionMessages(objs)) = Well(objs, owed)
<1>1. /\ GetCorrectionMessages(objs) \in Seq(Msg)
      /\ Hearing!Fold(Well(objs, owed), GetCorrectionMessages(objs)) = Well(objs, owed)
  BY Corrected
<1>2. Hearing!Fold(w, q \o GetCorrectionMessages(objs)) =
        Hearing!Fold(Hearing!Fold(w, q), GetCorrectionMessages(objs))
  BY <1>1, HeardConcat
<1> QED
  BY <1>1, <1>2, ConcatProperties

LEMMA FateReset ==
  ASSUME NEW objs, NEW owed \in Seq(Owed),
         NEW w, NEW q \in Seq(Msg), Hearing!Fold(w, q) = Well(objs, owed)
  PROVE  /\ q \o <<ResetMsg>> \in Seq(Msg)
         /\ Hearing!Fold(w, q \o <<ResetMsg>>) = Well(NoObjects, Append(owed, Cut))
<1> DEFINE m == ResetMsg
           v == Well(objs, owed)
<1>1. m \in Msg
  BY DEF Msg
<1>2. v.ok /\ v.owed = owed
  BY DEF Well
<1> HIDE DEF m, v
<1>3. <<m>> \in Seq(Msg) /\ q \o <<m>> \in Seq(Msg)
  BY <1>1, ConcatProperties
<1>4. Hearing!Fold(w, q \o <<m>>) = Hearing!Fold(Hearing!Fold(w, q), <<m>>)
  BY <1>3, HeardConcat
<1>5. Hearing!Fold(v, <<m>>) = PlayMsg(v, m)
  BY Hearing!FoldOne
<1>6. PlayMsg(v, m) = [ok |-> TRUE, objs |-> NoObjects, owed |-> v.owed \o <<Cut>>]
  BY <1>2, PlayReset DEF m
<1>7. owed \o <<Cut>> = Append(owed, Cut)
  BY AppendIsConcat
<1>8. PlayMsg(v, m) = Well(NoObjects, Append(owed, Cut))
  BY <1>2, <1>6, <1>7 DEF Well
<1> QED
  BY <1>3, <1>4, <1>5, <1>8 DEF m, v

-----------------------------------------------------------------------------
(* A dump makes what the host has.                                         *)

Bare(object) == [object EXCEPT !.ref = None]

\* A part of what there is, with a part of it bound.
Build(objs, there, bound) ==
  [n \in there |-> IF n \in bound THEN objs[n] ELSE Bare(objs[n])]

Adds(objs, p) ==
  [i \in DOMAIN p |-> AddCmd(p[i], Bare(objs[p[i]]))]
Sets(objs, p) == [i \in DOMAIN p |-> SetCmd(p[i], objs[p[i]].ref)]

LEMMA Unref ==
  ASSUME NEW object \in Obj
  PROVE  /\ Bare(object) \in Obj
         /\ \A ref \in Ref : [object EXCEPT !.ref = ref] \in Obj
         /\ [Bare(object) EXCEPT !.ref = object.ref] = object
         /\ [object EXCEPT !.ref = object.ref] = object
         /\ object.ref = None => Bare(object) = object
         /\ Bare(object).in = object.in
         /\ object.ref \in Ref /\ object.in \in Ref
<1>1. None \in Ref
  BY DEF Ref
<1>2. object = [what |-> object.what, in |-> object.in, ref |-> object.ref]
  BY DEF Obj
<1> QED
  BY <1>1, <1>2 DEF Obj, Bare

LEMMA BuildType ==
  ASSUME NEW objs \in Objs, NEW there \in SUBSET DOMAIN objs, NEW bound
  PROVE  /\ Build(objs, there, bound) \in Objs
         /\ DOMAIN Build(objs, there, bound) = there
         /\ \A n \in there : Build(objs, there, bound)[n] =
              IF n \in bound THEN objs[n] ELSE Bare(objs[n])
<1> DEFINE b == Build(objs, there, bound)
<1>1. /\ DOMAIN b = there
      /\ \A n \in there : b[n] = IF n \in bound THEN objs[n] ELSE Bare(objs[n])
      /\ b = [n \in there |-> b[n]]
  BY DEF Build
<1>2. there \in SUBSET Slot /\ \A n \in there : objs[n] \in Obj
  BY ObjsParts
<1> HIDE DEF b
<1>3. \A n \in there : b[n] \in Obj
  <2> TAKE n \in there
  <2>1. objs[n] \in Obj /\ Bare(objs[n]) \in Obj
    BY <1>2, Unref
  <2> QED
    BY <1>1, <2>1
<1>4. b \in Objs
  BY <1>1, <1>2, <1>3, ObjsMade
<1> QED
  BY <1>1, <1>4 DEF b

\* One more is there.
LEMMA BuildAdd ==
  ASSUME NEW objs \in Objs, NEW there \in SUBSET DOMAIN objs, NEW bound \in SUBSET there,
         NEW x \in DOMAIN objs \ there
  PROVE  Filled(Build(objs, there, bound), x, Bare(objs[x]))
           = Build(objs, there \cup {x}, bound)
<1> DEFINE a == Build(objs, there, bound)
           b == Build(objs, there \cup {x}, bound)
           o == Bare(objs[x])
           f == Filled(a, x, o)
<1>1. x \in Slot /\ objs[x] \in Obj /\ o \in Obj
  BY ObjsParts, Unref
<1>2. /\ a \in Objs /\ DOMAIN a = there
      /\ \A n \in there : a[n] = IF n \in bound THEN objs[n] ELSE Bare(objs[n])
  BY BuildType
<1>3. /\ b \in Objs /\ DOMAIN b = there \cup {x}
      /\ \A n \in there \cup {x} :
           b[n] = IF n \in bound THEN objs[n] ELSE Bare(objs[n])
  <2> DEFINE more == there \cup {x}
  <2>1. more \in SUBSET DOMAIN objs
    OBVIOUS
  <2> HIDE DEF more
  <2>2. /\ Build(objs, more, bound) \in Objs /\ DOMAIN Build(objs, more, bound) = more
        /\ \A n \in more : Build(objs, more, bound)[n] =
             IF n \in bound THEN objs[n] ELSE Bare(objs[n])
    BY <2>1, BuildType
  <2> QED
    BY <2>2 DEF more
<1> HIDE DEF a, b
<1>4. f \in Objs /\ DOMAIN f = there \cup {x}
  BY <1>1, <1>2, Added
<1>5. \A n \in there \cup {x} : f[n] = IF n = x THEN o ELSE a[n]
  BY <1>2 DEF Filled
<1> HIDE DEF f
<1>6. \A n \in there \cup {x} : f[n] = b[n]
  BY <1>2, <1>3, <1>5
<1>7. f = b
  BY <1>3, <1>4, <1>6, ObjsEqual
<1> QED
  BY <1>7 DEF f, a, b

\* One more is bound.
LEMMA BuildSet ==
  ASSUME NEW objs \in Objs, NEW there \in SUBSET DOMAIN objs, NEW bound, NEW x \in there
  PROVE  Effect(Build(objs, there, bound), SetCmd(x, objs[x].ref))
           = Build(objs, there, bound \cup {x})
<1> DEFINE a == Build(objs, there, bound)
           b == Build(objs, there, bound \cup {x})
           f == [a EXCEPT ![x].ref = objs[x].ref]
<1>1. \A n \in DOMAIN objs : objs[n] \in Obj
  BY ObjsParts
<1>2. /\ a \in Objs /\ DOMAIN a = there
      /\ \A n \in there : a[n] = IF n \in bound THEN objs[n] ELSE Bare(objs[n])
  BY BuildType
<1>3. /\ b \in Objs /\ DOMAIN b = there
      /\ \A n \in there :
           b[n] = IF n \in bound \cup {x} THEN objs[n] ELSE Bare(objs[n])
  BY BuildType
<1>4. objs[x].ref \in Ref
  BY <1>1, Unref
<1> HIDE DEF a, b
<1>5. /\ f \in Objs /\ DOMAIN f = there
      /\ \A n \in there : f[n] = IF n = x THEN [a[n] EXCEPT !.ref = objs[x].ref] ELSE a[n]
  BY <1>2, <1>4, Bound
<1> HIDE DEF f
<1>6. ASSUME NEW n \in there PROVE f[n] = b[n]
  <2>1. CASE n # x
    BY <1>2, <1>3, <1>5, <2>1
  <2>2. CASE n = x
    <3>1. b[n] = objs[n] /\ f[n] = [a[n] EXCEPT !.ref = objs[n].ref]
      BY <1>3, <1>5, <2>2
    <3>2. objs[n] \in Obj
      BY <1>1
    <3>3. CASE n \in bound
      <4>1. a[n] = objs[n]
        BY <1>2, <3>3
      <4> QED
        BY <3>1, <3>2, <4>1, Unref
    <3>4. CASE n \notin bound
      <4>1. a[n] = Bare(objs[n])
        BY <1>2, <3>4
      <4> QED
        BY <3>1, <3>2, <4>1, Unref
    <3> QED
      BY <3>3, <3>4
  <2> QED
    BY <2>1, <2>2
<1>7. f = b
  BY <1>3, <1>5, <1>6, ObjsEqual
<1>8. Effect(a, SetCmd(x, objs[x].ref)) = f
  BY DEF Effect, SetCmd, f
<1> QED
  BY <1>7, <1>8 DEF a, b

LEMMA AddsAppend ==
  ASSUME NEW objs, NEW S, NEW p \in Seq(S), NEW x \in S
  PROVE  Adds(objs, Append(p, x)) =
           Append(Adds(objs, p), AddCmd(x, Bare(objs[x])))
  BY DEF Adds

LEMMA SetsAppend ==
  ASSUME NEW objs, NEW S, NEW p \in Seq(S), NEW x \in S
  PROVE  Sets(objs, Append(p, x)) = Append(Sets(objs, p), SetCmd(x, objs[x].ref))
  BY DEF Sets

LEMMA DumpCmds ==
  ASSUME NEW objs \in Objs, NEW p \in Seq(DOMAIN objs)
  PROVE  Adds(objs, p) \in Seq(Cmd) /\ Sets(objs, p) \in Seq(Cmd)
<1>1. ASSUME NEW x \in DOMAIN objs
      PROVE  /\ AddCmd(x, Bare(objs[x])) \in Cmd
             /\ SetCmd(x, objs[x].ref) \in Cmd
  <2>1. x \in Slot /\ objs[x] \in Obj
    BY ObjsParts
  <2>2. Bare(objs[x]) \in Obj /\ objs[x].ref \in Ref
    BY <2>1, Unref
  <2> QED
    BY <2>1, <2>2 DEF AddCmd, SetCmd, Cmd
<1>2. DOMAIN p = 1 .. Len(p) /\ Len(p) \in Nat /\ \A i \in 1 .. Len(p) : p[i] \in DOMAIN objs
  BY LenProperties, ElementOfSeq
<1>3. Adds(objs, p) \in [1 .. Len(p) -> Cmd] /\ Sets(objs, p) \in [1 .. Len(p) -> Cmd]
  BY <1>1, <1>2 DEF Adds, Sets
<1> QED
  BY <1>2, <1>3 DEF Seq

LEMMA PlayFits ==
  ASSUME NEW objs, NEW owed \in Seq(Owed), NEW c \in Cmd, c.type # "step", Fits(objs, c)
  PROVE  Play(Well(objs, owed), c) = Well(Effect(objs, c), owed)
<1> DEFINE w == Well(objs, owed)
<1>1. w.ok /\ w.objs = objs /\ w.owed = owed
  BY DEF Well
<1>2. Owes(objs, c) = <<>> /\ owed \o <<>> = owed
  BY CmdParts, ConcatEmptySeq DEF Owes
<1> HIDE DEF w
<1>3. Play(w, c) = [ok |-> TRUE, objs |-> Effect(w.objs, c),
                    owed |-> w.owed \o Owes(w.objs, c)]
  BY <1>1, PlayWell
<1>4. Play(w, c) = Well(Effect(objs, c), owed)
  BY <1>1, <1>2, <1>3 DEF Well
<1> QED
  BY <1>4 DEF w

\* Each is new, and what it is in was there before it.
Grounded(objs, there, p) ==
  /\ \A i, j \in DOMAIN p : p[i] = p[j] => i = j
  /\ \A i \in DOMAIN p :
       /\ p[i] \notin there
       /\ Kind(p[i]) # "scene" =>
            objs[p[i]].in \in there \cup {p[j] : j \in 1 .. (i - 1)}

LEMMA GroundedAppend ==
  ASSUME NEW objs, NEW there, NEW D, NEW p \in Seq(D), NEW x \in D,
         Grounded(objs, there, Append(p, x))
  PROVE  /\ Grounded(objs, there, p)
         /\ x \notin Elems(p) /\ x \notin there
         /\ Kind(x) # "scene" => objs[x].in \in there \cup Elems(p)
         /\ Elems(Append(p, x)) = Elems(p) \cup {x}
<1> DEFINE n == Len(p)
           px == Append(p, x)
<1>1. n \in Nat /\ DOMAIN p = 1 .. n
  BY LenProperties
<1>2. /\ Len(px) = n + 1 /\ px \in Seq(D)
      /\ \A i \in 1 .. n : px[i] = p[i]
      /\ px[n + 1] = x
  BY AppendProperties
<1>3. Grounded(objs, there, px)
  OBVIOUS
<1>4. Orderly(NoObjects, px)
  <2>1. \A s : Nodes(NoObjects, s) = {}
    BY NoObjectsType DEF Nodes
  <2> QED
    BY <2>1 DEF Orderly, Grounded
<1>5. /\ Orderly(NoObjects, p) /\ x \notin Elems(p)
      /\ Elems(px) = Elems(p) \cup {x}
  BY <1>4, OrderlyAppend
<1> HIDE DEF px, n
<1>6. DOMAIN px = 1 .. (n + 1)
  BY <1>2, LenProperties
<1>7. \A i \in 1 .. (n + 1) : {px[j] : j \in 1 .. (i - 1)} = {p[j] : j \in 1 .. (i - 1)}
  <2> TAKE i \in 1 .. (n + 1)
  <2>1. \A j \in 1 .. (i - 1) : j \in 1 .. n
    BY <1>1
  <2> QED
    BY <1>2, <2>1
<1>8. ASSUME NEW i \in 1 .. (n + 1)
      PROVE  /\ px[i] \notin there
             /\ Kind(px[i]) # "scene" =>
                  objs[px[i]].in \in there \cup {p[j] : j \in 1 .. (i - 1)}
  BY <1>3, <1>6, <1>7 DEF Grounded
<1>9. ASSUME NEW i \in 1 .. n
      PROVE  /\ p[i] \notin there
             /\ Kind(p[i]) # "scene" =>
                  objs[p[i]].in \in there \cup {p[j] : j \in 1 .. (i - 1)}
  <2>1. i \in 1 .. (n + 1) /\ px[i] = p[i]
    BY <1>1, <1>2
  <2> QED
    BY <1>8, <2>1
<1>10. x \notin there /\ (Kind(x) # "scene" => objs[x].in \in there \cup Elems(p))
  <2>1. n + 1 \in 1 .. (n + 1) /\ (n + 1) - 1 = n
    BY <1>1
  <2>2. {p[j] : j \in 1 .. n} = Elems(p)
    BY <1>1 DEF Elems
  <2> QED
    BY <1>2, <1>8, <2>1, <2>2
<1>11. Grounded(objs, there, p)
  BY <1>1, <1>5, <1>9 DEF Grounded, Orderly
<1> QED
  BY <1>5, <1>10, <1>11 DEF px

LEMMA AddsPlayed ==
  ASSUME NEW objs \in Objs, NEW there \in SUBSET DOMAIN objs, NEW bound \in SUBSET there,
         NEW owed \in Seq(Owed), NEW q \in Seq(DOMAIN objs), Grounded(objs, there, q)
  PROVE  Playing!Fold(Well(Build(objs, there, bound), owed), Adds(objs, q))
           = Well(Build(objs, there \cup Elems(q), bound), owed)
<1> DEFINE D == DOMAIN objs
           w == Well(Build(objs, there, bound), owed)
           T == {p \in Seq(D) :
                   Grounded(objs, there, p) =>
                     /\ Elems(p) \subseteq D
                     /\ Playing!Fold(w, Adds(objs, p))
                          = Well(Build(objs, there \cup Elems(p), bound), owed)}
<1>1. <<>> \in T
  <2>1. Elems(<<>>) = {} /\ Adds(objs, <<>>) = <<>>
    BY DEF Elems, Adds
  <2>2. Playing!Fold(w, <<>>) = w /\ there \cup {} = there
    BY Playing!FoldEmpty
  <2> QED
    BY <2>1, <2>2, EmptySeq
<1>2. ASSUME NEW p \in Seq(D), NEW x \in D, p \in T
      PROVE  Append(p, x) \in T
  <2> DEFINE px == Append(p, x)
             c == AddCmd(x, Bare(objs[x]))
             built == there \cup Elems(p)
             b == Build(objs, built, bound)
  <2>1. px \in Seq(D)
    BY AppendProperties
  <2>2. ASSUME Grounded(objs, there, px)
        PROVE  /\ Elems(px) \subseteq D
               /\ Playing!Fold(w, Adds(objs, px))
                    = Well(Build(objs, there \cup Elems(px), bound), owed)
    <3>1. /\ Grounded(objs, there, p)
          /\ x \notin Elems(p) /\ x \notin there
          /\ Kind(x) # "scene" => objs[x].in \in there \cup Elems(p)
          /\ Elems(px) = Elems(p) \cup {x}
      BY <2>2, GroundedAppend
    <3>2. Elems(p) \subseteq D /\ Playing!Fold(w, Adds(objs, p)) = Well(b, owed)
      BY <1>2, <3>1
    <3>3. Adds(objs, px) = Append(Adds(objs, p), c) /\ Adds(objs, p) \in Seq(Cmd)
      BY AddsAppend, DumpCmds
    <3>4. x \in Slot /\ objs[x] \in Obj
      BY ObjsParts
    <3>5. c \in Cmd /\ c.type = "add" /\ c.slot = x /\ c.object = Bare(objs[x])
      BY <3>4, Unref DEF AddCmd, Cmd
    <3>6. Bare(objs[x]).in = objs[x].in
      BY <3>4, Unref
    <3> HIDE DEF c
    <3>7. built \in SUBSET D /\ x \in D \ built /\ bound \in SUBSET built
          /\ (Kind(x) # "scene" => objs[x].in \in built)
      BY <3>1, <3>2
    <3> HIDE DEF built
    <3>8. DOMAIN b = built
      BY <3>7, BuildType
    <3>9. Filled(b, x, Bare(objs[x])) = Build(objs, built \cup {x}, bound)
      BY <3>7, BuildAdd
    <3> HIDE DEF b
    <3>10. Fits(b, c) /\ Effect(b, c) = Build(objs, built \cup {x}, bound)
      BY <3>5, <3>6, <3>7, <3>8, <3>9 DEF Fits, Effect, Has
    <3>11. Play(Well(b, owed), c) = Well(Build(objs, built \cup {x}, bound), owed)
      BY <3>5, <3>10, PlayFits
    <3>12. Playing!Fold(w, Append(Adds(objs, p), c)) = Play(Playing!Fold(w, Adds(objs, p)), c)
      BY <3>3, <3>5, Playing!FoldAppend
    <3>13. built \cup {x} = there \cup Elems(px)
      BY <3>1 DEF built
    <3>14. Playing!Fold(w, Adds(objs, px)) = Well(Build(objs, there \cup Elems(px), bound), owed)
      BY <3>2, <3>3, <3>11, <3>12, <3>13
    <3> QED
      BY <3>1, <3>2, <3>14
  <2> HIDE DEF px, w
  <2> QED
    BY <2>1, <2>2 DEF px
<1> HIDE DEF T, D
<1>3. q \in T
  <2>1. q \in Seq(D)
    BY DEF D
  <2> QED
    BY <1>1, <1>2, <2>1, SequenceInduction
<1> QED
  BY <1>3 DEF T, w

LEMMA SetsPlayed ==
  ASSUME NEW objs \in Objs, NEW there \in SUBSET DOMAIN objs, NEW bound,
         NEW owed \in Seq(Owed), NEW q \in Seq(there),
         \A x \in there : objs[x].ref # None => objs[x].ref \in there
  PROVE  Playing!Fold(Well(Build(objs, there, bound), owed), Sets(objs, q))
           = Well(Build(objs, there, bound \cup Elems(q)), owed)
<1> DEFINE w == Well(Build(objs, there, bound), owed)
           T == {p \in Seq(there) :
                   Playing!Fold(w, Sets(objs, p))
                     = Well(Build(objs, there, bound \cup Elems(p)), owed)}
<1>1. <<>> \in T
  <2>1. Elems(<<>>) = {} /\ Sets(objs, <<>>) = <<>>
    BY DEF Elems, Sets
  <2>2. Playing!Fold(w, <<>>) = w /\ bound \cup {} = bound
    BY Playing!FoldEmpty
  <2> QED
    BY <2>1, <2>2, EmptySeq
<1>2. ASSUME NEW p \in Seq(there), NEW x \in there, p \in T
      PROVE  Append(p, x) \in T
  <2> DEFINE px == Append(p, x)
             c == SetCmd(x, objs[x].ref)
             set == bound \cup Elems(p)
             b == Build(objs, there, set)
  <2>1. px \in Seq(there)
    BY AppendProperties
  <2>2. Playing!Fold(w, Sets(objs, p)) = Well(b, owed)
    BY <1>2
  <2>3. Sets(objs, px) = Append(Sets(objs, p), c) /\ Sets(objs, p) \in Seq(Cmd)
    <3>1. p \in Seq(DOMAIN objs)
      BY SeqMonotonic
    <3> QED
      BY <3>1, SetsAppend, DumpCmds
  <2>4. x \in Slot /\ objs[x].ref \in Ref
    BY ObjsParts, Unref
  <2>5. c \in Cmd /\ c.type = "set" /\ c.slot = x /\ c.ref = objs[x].ref
    BY <2>4 DEF SetCmd, Cmd
  <2> HIDE DEF c, set
  <2>6. DOMAIN b = there
    BY BuildType
  <2>7. Effect(b, c) = Build(objs, there, set \cup {x})
    BY BuildSet DEF c
  <2> HIDE DEF b
  <2>8. Fits(b, c)
    BY <2>5, <2>6 DEF Fits, Has
  <2>9. Play(Well(b, owed), c) = Well(Build(objs, there, set \cup {x}), owed)
    BY <2>5, <2>7, <2>8, PlayFits
  <2>10. Playing!Fold(w, Append(Sets(objs, p), c)) = Play(Playing!Fold(w, Sets(objs, p)), c)
    BY <2>3, <2>5, Playing!FoldAppend
  <2>11. Elems(px) = Elems(p) \cup {x}
    <3> HIDE DEF px
    <3>2. DOMAIN p = 1 .. Len(p) /\ Len(p) \in Nat
      BY LenProperties
    <3>3. DOMAIN px = 1 .. (Len(p) + 1) /\ px[Len(p) + 1] = x
          /\ \A i \in 1 .. Len(p) : px[i] = p[i]
      BY AppendProperties, LenProperties DEF px
    <3>4. \A i \in 1 .. (Len(p) + 1) : i \in 1 .. Len(p) \/ i = Len(p) + 1
      BY <3>2
    <3>5. \A i \in 1 .. Len(p) : i \in 1 .. (Len(p) + 1)
      BY <3>2
    <3>6. Len(p) + 1 \in 1 .. (Len(p) + 1)
      BY <3>2
    <3> QED
      BY <3>2, <3>3, <3>4, <3>5, <3>6 DEF Elems
  <2>12. set \cup {x} = bound \cup Elems(px)
    BY <2>11 DEF set
  <2>13. Playing!Fold(w, Sets(objs, px)) = Well(Build(objs, there, bound \cup Elems(px)), owed)
    BY <2>2, <2>3, <2>9, <2>10, <2>12
  <2> HIDE DEF px, w
  <2> QED
    BY <2>1, <2>13 DEF px
<1> HIDE DEF T
<1>3. q \in T
  BY <1>1, <1>2, SequenceInduction
<1> QED
  BY <1>3 DEF T, w

\* Some scenes and what is in them.
Within(objs, S) ==
  {n \in DOMAIN objs : IF Kind(n) = "scene" THEN n \in S ELSE objs[n].in \in S}

LEMMA BuildWhole ==
  ASSUME NEW objs \in Objs, NEW there \in SUBSET DOMAIN objs, NEW bound,
         \A n \in there : n \in bound \/ objs[n].ref = None
  PROVE  Build(objs, there, bound) = Build(objs, there, there)
<1>1. ASSUME NEW n \in there PROVE n \notin bound => Bare(objs[n]) = objs[n]
  <2>1. objs[n] \in Obj
    BY ObjsParts
  <2> QED
    BY <2>1, Unref
<1> QED
  BY <1>1 DEF Build

LEMMA WithinScene ==
  ASSUME NEW objs \in Objs, Homes(objs), NEW S, NEW scene \in OfKind(objs, "scene"),
         scene \notin S
  PROVE  /\ Within(objs, S \cup {scene}) =
              Within(objs, S) \cup {scene} \cup InScene(objs, "media", scene)
                \cup InScene(objs, "node", scene)
         /\ scene \notin Within(objs, S)
         /\ \A k : \A n \in InScene(objs, k, scene) :
              k # "scene" => n \notin Within(objs, S)
         /\ \A n \in Within(objs, S \cup {scene}) :
              objs[n].ref # None => objs[n].ref \in Within(objs, S \cup {scene})
<1> DEFINE D == DOMAIN objs
           V == Within(objs, S \cup {scene})
<1>1. \A n \in D : Kind(n) \in Kinds /\ Home(objs, n)
  BY ObjsParts, Kind3 DEF Homes
<1>2. scene \in D /\ Kind(scene) = "scene"
  BY DEF OfKind
<1>3. ASSUME NEW n \in D
      PROVE  n \in V <=> \/ n \in Within(objs, S) \/ n = scene
                         \/ n \in InScene(objs, "media", scene)
                         \/ n \in InScene(objs, "node", scene)
  BY <1>1, <1>2 DEF Within, InScene, OfKind, Kinds
<1>4. V = Within(objs, S) \cup {scene} \cup InScene(objs, "media", scene)
            \cup InScene(objs, "node", scene)
  <2>1. V \subseteq D /\ Within(objs, S) \subseteq D /\ scene \in D
    BY <1>2 DEF Within
  <2>2. \A k : InScene(objs, k, scene) \subseteq D
    BY DEF InScene, OfKind
  <2> HIDE DEF V
  <2> QED
    BY <1>3, <2>1, <2>2
<1>5. scene \notin Within(objs, S)
  BY <1>2 DEF Within
<1>6. \A k : \A n \in InScene(objs, k, scene) : k # "scene" => n \notin Within(objs, S)
  BY DEF Within, InScene, OfKind
<1>7. ASSUME NEW n \in V, objs[n].ref # None PROVE objs[n].ref \in V
  <2>1. n \in D /\ Home(objs, n)
    BY <1>1 DEF Within
  <2>2. /\ Kind(n) = "node" /\ objs[n].ref \in D /\ Kind(objs[n].ref) # "scene"
        /\ objs[objs[n].ref].in = objs[n].in
    BY <1>7, <2>1 DEF Home
  <2> QED
    BY <1>7, <2>2 DEF Within
<1> QED
  BY <1>4, <1>5, <1>6, <1>7

LEMMA JoinedAfter ==
  ASSUME NEW D, NEW x \in D, NEW p \in Seq(D), NEW q \in Seq(D)
  PROVE  /\ (<<x>> \o p) \o q \in Seq(D)
         /\ ((<<x>> \o p) \o q)[1] = x
         /\ DOMAIN ((<<x>> \o p) \o q) = 1 .. Len((<<x>> \o p) \o q)
         /\ Len((<<x>> \o p) \o q) \in Nat
<1> DEFINE o == <<x>>
           a == o \o p
           b == a \o q
<1>1. o \in Seq(D) /\ Len(o) = 1 /\ o[1] = x
  OBVIOUS
<1> HIDE DEF o
<1>2. Len(p) \in Nat /\ Len(q) \in Nat
  BY LenProperties
<1>3. a \in Seq(D) /\ Len(a) = 1 + Len(p) /\ a[1] = x
  <2>1. /\ o \o p \in Seq(D) /\ Len(o \o p) = Len(o) + Len(p)
        /\ \A i \in 1 .. (Len(o) + Len(p)) : (o \o p)[i] = IF i <= Len(o) THEN o[i] ELSE p[i - Len(o)]
    BY <1>1, ConcatProperties
  <2>2. 1 \in 1 .. (1 + Len(p))
    BY <1>2
  <2> QED
    BY <1>1, <2>1, <2>2
<1> HIDE DEF a
<1>4. b \in Seq(D) /\ b[1] = x
  <2>1. /\ a \o q \in Seq(D) /\ Len(a \o q) = Len(a) + Len(q)
        /\ \A i \in 1 .. (Len(a) + Len(q)) : (a \o q)[i] = IF i <= Len(a) THEN a[i] ELSE q[i - Len(a)]
    <3>1. a \in Seq(D)
      BY <1>3
    <3> QED
      BY ONLY <3>1, q \in Seq(D), ConcatProperties
  <2>2. 1 \in 1 .. (Len(a) + Len(q)) /\ 1 <= Len(a)
    BY <1>2, <1>3
  <2> QED
    BY <1>3, <2>1, <2>2
<1> HIDE DEF b
<1>5. DOMAIN b = 1 .. Len(b) /\ Len(b) \in Nat
  BY <1>4, LenProperties
<1> QED
  BY <1>4, <1>5 DEF b, a, o

\* Commands that lead a client from some scenes to more.
Leads(h, S, more, cmds) ==
  /\ cmds \in Seq(Cmd)
  /\ \A owed \in Seq(Owed) :
       Playing!Fold(Well(Build(h.objs, Within(h.objs, S), Within(h.objs, S)), owed), cmds)
         = Well(Build(h.objs, Within(h.objs, more), Within(h.objs, more)), owed)

LEMMA SceneDumped ==
  ASSUME NEW h, HostOK(h), NEW S, NEW scene \in OfKind(h.objs, "scene"), scene \notin S,
         NEW more, more = S \cup {scene}
  PROVE  Leads(h, S, more, DumpScene(h, scene))
<1> DEFINE objs == h.objs
           D == DOMAIN objs
           W == Within(objs, S)
           V == Within(objs, more)
           M == InScene(objs, "media", scene)
           N == InScene(objs, "node", scene)
           R == {n \in N : objs[n].ref # None}
           pm == HostSlotsIn(h, "media", scene)
           pn == HostSlotsIn(h, "node", scene)
           o == <<scene>>
           po == o \o pm
           there == po \o pn
           bound == SetToSeq(R)
<1>1. objs \in Objs /\ IsFiniteSet(D) /\ Homes(objs) /\ D \subseteq Slot
  BY ObjsParts DEF HostOK
<1>2. /\ scene \in D /\ Kind(scene) = "scene"
      /\ M \in SUBSET D /\ \A n \in M : Kind(n) = "media" /\ objs[n].in = scene
      /\ N \in SUBSET D /\ \A n \in N : Kind(n) = "node" /\ objs[n].in = scene
      /\ R \in SUBSET N
  BY DEF InScene, OfKind
<1>3. IsFiniteSet(M) /\ IsFiniteSet(N) /\ IsFiniteSet(R)
  BY <1>1, <1>2, FS_Subset
<1>4. pm = SetToSeq(M) /\ pn = SetToSeq(N)
  BY DEF HostSlotsIn
<1>5. DumpScene(h, scene) = Adds(objs, there) \o Sets(objs, bound)
  BY DEF DumpScene, Adds, Sets, Bare
<1>6. /\ W \in SUBSET D /\ V \in SUBSET D
      /\ V = W \cup {scene} \cup M \cup N
      /\ scene \notin W /\ (\A n \in M \cup N : n \notin W)
      /\ \A n \in V : objs[n].ref # None => objs[n].ref \in V
  <2>1. W \in SUBSET D /\ V \in SUBSET D
    BY DEF Within
  <2>2. scene \in OfKind(objs, "scene")
    OBVIOUS
  <2> HIDE DEF objs
  <2>3. /\ V = W \cup {scene} \cup M \cup N
        /\ scene \notin W
        /\ \A k : \A n \in InScene(objs, k, scene) : k # "scene" => n \notin W
        /\ \A n \in V : objs[n].ref # None => objs[n].ref \in V
    BY <1>1, <2>2, WithinScene
  <2> QED
    BY <2>1, <2>3
<1>7. \A n \in D : Home(objs, n)
  BY <1>1 DEF Homes
<1>8. \A n \in N : objs[n].ref # None => n \in R
  OBVIOUS
<1> HIDE DEF M, N, R, W, V, pm, pn, objs
<1>9. /\ pm \in Seq(M) /\ Elems(pm) = M
      /\ \A i, j \in DOMAIN pm : pm[i] = pm[j] => i = j
  BY <1>3, <1>4, InOrder DEF Elems
<1>10. /\ pn \in Seq(N) /\ Elems(pn) = N
       /\ \A i, j \in DOMAIN pn : pn[i] = pn[j] => i = j
  BY <1>3, <1>4, InOrder DEF Elems
<1>11. bound \in Seq(R) /\ Elems(bound) = R
  BY <1>3, InOrder DEF Elems
<1> HIDE DEF bound
<1>12. pm \in Seq(D) /\ pn \in Seq(D)
  BY <1>2, <1>9, <1>10, SeqMonotonic
<1>13. /\ o \in Seq(D) /\ Elems(o) = {scene}
       /\ \A i, j \in DOMAIN o : o[i] = o[j] => i = j
  <2>1. o \in Seq(D) /\ DOMAIN o = 1 .. 1 /\ o[1] = scene
    BY <1>2
  <2> HIDE DEF o
  <2>2. \A i \in DOMAIN o : i = 1
    BY <2>1
  <2> QED
    BY <2>1, <2>2 DEF Elems
<1>14. there \in Seq(D) /\ there[1] = scene /\ DOMAIN there = 1 .. Len(there) /\ Len(there) \in Nat
  BY <1>2, <1>12, JoinedAfter
<1> HIDE DEF o
<1>15. /\ po \in Seq(D)
       /\ \A i, j \in DOMAIN po : po[i] = po[j] => i = j
       /\ Elems(po) = Elems(o) \cup Elems(pm)
  <2>1. Elems(o) \cap Elems(pm) = {}
    BY <1>2, <1>9, <1>13
  <2> HIDE DEF D
  <2> QED
    BY <1>9, <1>12, <1>13, <2>1, Joined
<1> HIDE DEF po
<1>16. /\ \A i, j \in DOMAIN there : there[i] = there[j] => i = j
       /\ Elems(there) = Elems(po) \cup Elems(pn)
  <2>1. Elems(po) \cap Elems(pn) = {}
    BY <1>2, <1>9, <1>10, <1>13, <1>15
  <2> HIDE DEF D
  <2> QED
    <3>1. \A i, j \in DOMAIN there : there[i] = there[j] => i = j
      BY <1>10, <1>12, <1>15, <2>1, Joined
    <3>2. Elems(there) = Elems(po) \cup Elems(pn)
      BY <1>10, <1>12, <1>15, <2>1, Joined
    <3> QED
      BY <3>1, <3>2
<1> HIDE DEF there
<1>17. Elems(there) = {scene} \cup M \cup N
  BY <1>9, <1>10, <1>13, <1>15, <1>16
<1>18. Grounded(objs, W, there)
  <2>1. ASSUME NEW i \in DOMAIN there
        PROVE  /\ there[i] \notin W
               /\ Kind(there[i]) # "scene" =>
                    objs[there[i]].in \in W \cup {there[j] : j \in 1 .. (i - 1)}
    <3>1. there[i] \in {scene} \cup M \cup N
      BY <1>17 DEF Elems
    <3>2. there[i] \notin W
      BY <1>6, <3>1
    <3>3. ASSUME Kind(there[i]) # "scene"
          PROVE  objs[there[i]].in \in {there[j] : j \in 1 .. (i - 1)}
      <4>1. objs[there[i]].in = scene
        BY <1>2, <3>1, <3>3
      <4>2. i # 1
        BY <1>2, <1>14, <3>3
      <4>3. 1 \in 1 .. (i - 1)
        BY <1>14, <4>2
      <4> QED
        BY <1>14, <4>1, <4>3
    <3> QED
      BY <3>2, <3>3
  <2> QED
    BY <1>16, <2>1 DEF Grounded
<1> DEFINE adds == Adds(objs, there)
           sets == Sets(objs, bound)
<1>19. adds \in Seq(Cmd) /\ sets \in Seq(Cmd)
  <2>1. bound \in Seq(D)
    BY <1>2, <1>11, SeqMonotonic
  <2> QED
    BY <1>1, <1>14, <2>1, DumpCmds
<1>20. ASSUME NEW owed \in Seq(Owed)
       PROVE  Playing!Fold(Well(Build(objs, W, W), owed), adds) = Well(Build(objs, V, W), owed)
  <2>1. Playing!Fold(Well(Build(objs, W, W), owed), adds)
          = Well(Build(objs, W \cup Elems(there), W), owed)
    BY <1>1, <1>6, <1>14, <1>18, AddsPlayed
  <2>2. W \cup Elems(there) = V
    BY <1>6, <1>17
  <2> QED
    BY <2>1, <2>2
<1>21. ASSUME NEW owed \in Seq(Owed)
       PROVE  Playing!Fold(Well(Build(objs, V, W), owed), sets) = Well(Build(objs, V, W \cup R), owed)
  <2>1. bound \in Seq(V)
    BY <1>2, <1>6, <1>11, SeqMonotonic
  <2> QED
    BY <1>1, <1>6, <1>11, <2>1, SetsPlayed
<1>22. Build(objs, V, W \cup R) = Build(objs, V, V)
  <2>1. ASSUME NEW n \in V PROVE n \in W \cup R \/ objs[n].ref = None
    BY <1>2, <1>6, <1>7, <1>8 DEF Home
  <2> QED
    BY <1>1, <1>6, <2>1, BuildWhole
<1> HIDE DEF adds, sets
<1>23. adds \in Seq(Item) /\ sets \in Seq(Item)
  BY <1>19, CmdIsItem
<1>24. adds \o sets \in Seq(Cmd)
  BY <1>19, ConcatProperties
<1>25. ASSUME NEW owed \in Seq(Owed)
       PROVE  Playing!Fold(Well(Build(objs, W, W), owed), adds \o sets) = Well(Build(objs, V, V), owed)
  <2> DEFINE w == Well(Build(objs, W, W), owed)
  <2>1. Playing!Fold(w, adds) = Well(Build(objs, V, W), owed)
    BY <1>20
  <2> HIDE DEF w
  <2>2. Playing!Fold(w, adds \o sets) = Playing!Fold(Playing!Fold(w, adds), sets)
    BY <1>23, PlayedConcat
  <2>3. Playing!Fold(w, adds \o sets) = Well(Build(objs, V, V), owed)
    BY <1>21, <1>22, <2>1, <2>2
  <2> QED
    BY <2>3 DEF w
<1>26. DumpScene(h, scene) = adds \o sets
  BY <1>5 DEF adds, sets
<1> QED
  BY <1>24, <1>25, <1>26 DEF W, V, objs, Leads

Dumping == INSTANCE FoldProofs WITH Op <- DumpInto

LEMMA DumpedEach == \A b, q : Through(DumpInto, b, q) = Dumping!Fold(b, q)
  BY DEF Through, Dumping!Fold

LEMMA WithinAll ==
  ASSUME NEW objs \in Objs, Homes(objs)
  PROVE  /\ Build(objs, Within(objs, OfKind(objs, "scene")), Within(objs, OfKind(objs, "scene"))) = objs
         /\ Build(objs, Within(objs, {}), Within(objs, {})) = NoObjects
<1>1. Within(objs, OfKind(objs, "scene")) = DOMAIN objs
  BY DEF Within, OfKind, Homes, Home
<1>2. Within(objs, {}) = {}
  BY DEF Within
<1>3. Build(objs, DOMAIN objs, DOMAIN objs) = objs
  <2> DEFINE b == Build(objs, DOMAIN objs, DOMAIN objs)
  <2>1. /\ b \in Objs /\ DOMAIN b = DOMAIN objs
        /\ \A n \in DOMAIN objs : b[n] = IF n \in DOMAIN objs THEN objs[n] ELSE Bare(objs[n])
    BY BuildType
  <2> HIDE DEF b
  <2>2. \A n \in DOMAIN b : b[n] = objs[n]
    BY <2>1
  <2>3. b = objs
    BY <2>1, <2>2, ObjsEqual
  <2> QED
    BY <2>3 DEF b
<1>4. Build(objs, {}, {}) = NoObjects
  <2> DEFINE b == Build(objs, {}, {})
  <2>1. b \in Objs /\ DOMAIN b = {}
    BY BuildType
  <2> HIDE DEF b
  <2>2. b = NoObjects
    BY <2>1, NoObjectsType, ObjsEqual
  <2> QED
    BY <2>2 DEF b
<1> QED
  BY <1>1, <1>2, <1>3, <1>4

\* A dump so far.
Makes(h, S, dump) ==
  /\ dump = [of |-> h, cmds |-> dump.cmds]
  /\ Leads(h, {}, S, dump.cmds)

LEMMA MakesMore ==
  ASSUME NEW h, HostOK(h), NEW S, NEW scene \in OfKind(h.objs, "scene"), scene \notin S,
         NEW dump, Makes(h, S, dump), NEW both, both = S \cup {scene}
  PROVE  Makes(h, both, DumpInto(dump, scene))
<1> DEFINE cs == DumpScene(h, scene)
           B(R) == Build(h.objs, Within(h.objs, R), Within(h.objs, R))
           b == dump.cmds
           more == DumpInto(dump, scene)
<1>1. Leads(h, S, both, cs)
  BY SceneDumped
<1>2. more.cmds = b \o cs /\ more = [of |-> h, cmds |-> more.cmds]
  <2>1. dump = [of |-> h, cmds |-> b]
    BY DEF Makes
  <2>2. dump.of = h
    BY <2>1
  <2> HIDE DEF b
  <2>3. [of |-> h, cmds |-> b].cmds = b
    OBVIOUS
  <2>4. dump.cmds = b
    BY <2>1, <2>3
  <2>5. more = [dump EXCEPT !.cmds = b \o cs]
    BY <2>2, <2>4 DEF DumpInto
  <2> HIDE DEF more, cs
  <2>6. \A d : [[of |-> h, cmds |-> b] EXCEPT !.cmds = d] = [of |-> h, cmds |-> d]
    OBVIOUS
  <2>7. more = [of |-> h, cmds |-> b \o cs]
    BY <2>1, <2>5, <2>6
  <2> QED
    BY <2>7
<1> HIDE DEF cs, more
<1>3. b \in Seq(Cmd) /\ cs \in Seq(Cmd)
  BY <1>1 DEF Makes, Leads
<1>4. b \o cs \in Seq(Cmd) /\ b \in Seq(Item) /\ cs \in Seq(Item)
  BY <1>3, ConcatProperties, CmdIsItem
<1>5. ASSUME NEW owed \in Seq(Owed)
      PROVE  Playing!Fold(Well(B({}), owed), b \o cs) = Well(B(both), owed)
  <2> DEFINE w == Well(B({}), owed)
  <2>1. Playing!Fold(w, b) = Well(B(S), owed)
    BY DEF Makes, Leads
  <2>2. Playing!Fold(Well(B(S), owed), cs) = Well(B(both), owed)
    BY <1>1 DEF Leads
  <2> HIDE DEF w, B, b
  <2>3. Playing!Fold(w, b \o cs) = Playing!Fold(Playing!Fold(w, b), cs)
    BY <1>4, PlayedConcat
  <2>4. Playing!Fold(w, b \o cs) = Well(B(both), owed)
    BY <2>1, <2>2, <2>3
  <2> QED
    BY <2>4 DEF w
<1> HIDE DEF b
<1>6. Leads(h, {}, both, b \o cs)
  BY <1>4, <1>5 DEF Leads, B
<1> QED
  BY <1>2, <1>6 DEF Makes, more

LEMMA Dumped ==
  ASSUME NEW h, HostOK(h)
  PROVE  /\ Dump(h) \in Seq(Msg)
         /\ \A owed \in Seq(Owed) :
              Hearing!Fold(Well(NoObjects, owed), Dump(h)) = Well(h.objs, owed)
<1> DEFINE S == OfKind(h.objs, "scene")
           q == Slots(h.objs, "scene")
           Once(p) == Orderly(NoObjects, p)
           base == [of |-> h, cmds |-> <<>>]
           T == {p \in Seq(S) : Once(p) => Makes(h, Elems(p), Dumping!Fold(base, p))}
<1>1. IsFiniteSet(S)
  <2>1. IsFiniteSet(DOMAIN h.objs) /\ S \subseteq DOMAIN h.objs
    BY DEF HostOK, OfKind
  <2> QED
    BY <2>1, FS_Subset
<1>2. /\ q \in Seq(S) /\ \A i, j \in DOMAIN q : q[i] = q[j] => i = j
      /\ Elems(q) = S
  BY <1>1, InOrder DEF Slots, Elems
<1>3. h.objs \in Objs /\ Homes(h.objs)
  BY DEF HostOK
<1> HIDE DEF q
<1>4. Once(q)
  <2>1. \A x : Nodes(NoObjects, x) = {}
    BY NoObjectsType DEF Nodes
  <2> QED
    BY <1>2, <2>1 DEF Orderly
<1>5. <<>> \in T
  <2>1. Dumping!Fold(base, <<>>) = base
    BY Dumping!FoldEmpty
  <2>2. Elems(<<>>) = {}
    BY DEF Elems
  <2>3. base = [of |-> h, cmds |-> base.cmds] /\ base.cmds = <<>> /\ <<>> \in Seq(Cmd)
    BY EmptySeq
  <2> HIDE DEF base
  <2>4. \A w : Playing!Fold(w, <<>>) = w
    BY Playing!FoldEmpty
  <2>5. Build(h.objs, Within(h.objs, {}), Within(h.objs, {})) = NoObjects
    BY <1>3, WithinAll
  <2>6. Makes(h, {}, base)
    BY <2>3, <2>4, <2>5 DEF Makes, Leads
  <2> QED
    BY <2>1, <2>2, <2>6, EmptySeq
<1>6. ASSUME NEW p \in Seq(S), NEW x \in S, p \in T
      PROVE  Append(p, x) \in T
  <2> DEFINE g == Dumping!Fold(base, p)
             f == Dumping!Fold(base, Append(p, x))
  <2>1. Append(p, x) \in Seq(S)
    BY AppendProperties
  <2>2. f = DumpInto(g, x)
    BY Dumping!FoldAppend
  <2> HIDE DEF f
  <2>3. ASSUME Once(Append(p, x))
        PROVE  Makes(h, Elems(Append(p, x)), f)
    <3>1. Once(p) /\ x \notin Elems(p) /\ Elems(Append(p, x)) = Elems(p) \cup {x}
      BY <2>3, OrderlyAppend
    <3>2. Makes(h, Elems(p), g)
      BY <1>6, <3>1
    <3> HIDE DEF g, Once
    <3>3. Makes(h, Elems(p) \cup {x}, DumpInto(g, x))
      BY <3>1, <3>2, MakesMore
    <3> QED
      BY <2>2, <3>1, <3>3
  <2> QED
    BY <2>1, <2>3 DEF f
<1> HIDE DEF T, S
<1>7. q \in T
  BY <1>2, <1>5, <1>6, SequenceInduction
<1>8. Makes(h, S, Dumping!Fold(base, q))
  BY <1>2, <1>4, <1>7 DEF T
<1> DEFINE cmds == Through(DumpInto, base, q).cmds
           k == [out |-> cmds]
<1>9. /\ cmds \in Seq(Cmd)
      /\ \A owed \in Seq(Owed) : Playing!Fold(Well(NoObjects, owed), cmds) = Well(h.objs, owed)
  <2>1. Build(h.objs, Within(h.objs, S), Within(h.objs, S)) = h.objs
    BY <1>3, WithinAll DEF S
  <2>2. cmds = Dumping!Fold(base, q).cmds
    BY DumpedEach
  <2> HIDE DEF cmds, base
  <2> QED
    <3>1. Build(h.objs, Within(h.objs, {}), Within(h.objs, {})) = NoObjects
      BY <1>3, WithinAll
    <3> QED
      BY <1>8, <2>1, <2>2, <3>1 DEF Makes, Leads
<1>10. Dump(h) = Shipped(k) /\ k.out = cmds
  BY DEF Dump, Shipped, q
<1> HIDE DEF k, cmds
<1>11. \A w : Shipped(k) \in Seq(Msg) /\ Hearing!Fold(w, Shipped(k)) = Playing!Fold(w, cmds)
  BY <1>9, <1>10, HostShipped
<1> QED
  BY <1>9, <1>10, <1>11

-----------------------------------------------------------------------------
(* Steps keep the invariant.                                               *)

Settled(c, s, q, members, h, p) ==
  /\ Good(s) /\ q \in Seq(Msg) /\ p \in Seq(Owed)
  /\ IF c \in members THEN FateOf(Outcome(s, <<>>), q, h.out) = Well(h.objs, p)
                       ELSE q = <<>> /\ s = NewClientSession /\ p = <<>>

Made(h, n) == \A slot \in DOMAIN h.objs : h.objs[slot].what \in 1 .. n

LEMMA OutcomeWorld ==
  ASSUME NEW s, Good(s), NEW q \in Seq(Msg), NEW out \in Seq(Cmd)
  PROVE  /\ s \in Session /\ Outcome(s, <<>>) \in World
         /\ Hearing!Fold(Outcome(s, <<>>), q) \in World
         /\ FateOf(Outcome(s, <<>>), q, out) \in World
<1>1. s \in Session /\ <<>> \in Seq(Owed) /\ out \in Seq(Item)
  BY EmptySeq, CmdIsItem DEF Good
<1>2. Outcome(s, <<>>) \in World
  BY <1>1, OutcomeSplit
<1>3. Hearing!Fold(Outcome(s, <<>>), q) \in World
  BY <1>2, HeardType
<1> QED
  BY <1>1, <1>2, <1>3, PlayedType DEF FateOf

LEMMA NewSession ==
  Good(NewClientSession) /\ Outcome(NewClientSession, <<>>) = Well(NoObjects, <<>>)
<1> DEFINE s == NewClientSession
<1>1. /\ s \in Session /\ s.objs = NoObjects /\ s.cmds = <<>> /\ s.pending = <<>>
      /\ s.buffered = 0 /\ s.ended = FALSE /\ s.mixed = FALSE
  BY NewParts
<1> HIDE DEF s
<1>2. Time(<<>>) = 0 /\ NoSteps(<<>>)
  BY Timing!FoldEmpty DEF Time, NoSteps
<1>3. Good(s)
  BY <1>1, <1>2 DEF Good
<1>4. Outcome(s, <<>>) = Begin(s, <<>>)
  BY <1>1, EmptyOutcome
<1>5. Begin(s, <<>>) = Well(NoObjects, <<>>)
  BY <1>1 DEF Begin, Well
<1> QED
  BY <1>3, <1>4, <1>5 DEF s

LEMMA SettledOut ==
  ASSUME NEW h, NEW members, NEW c, c \notin members
  PROVE  Settled(c, NewClientSession, <<>>, members, h, <<>>)
  BY NewSession, EmptySeq DEF Settled

LEMMA InvNow ==
  ASSUME IInv
  PROVE  /\ HostOK(host) /\ made \in Nat /\ Made(host, made)
         /\ clients \subseteq Client
         /\ DOMAIN channel = Client /\ DOMAIN session = Client /\ DOMAIN promised = Client
         /\ \A c \in Client :
              Settled(c, session[c], channel[c], clients, host, promised[c])
<1>1. /\ HostOK(host) /\ made \in Nat /\ Made(host, made) /\ clients \subseteq Client
      /\ DOMAIN channel = Client /\ DOMAIN session = Client /\ DOMAIN promised = Client
  BY DEF IInv, Typed, Made
<1>2. ASSUME NEW c \in Client
      PROVE  Settled(c, session[c], channel[c], clients, host, promised[c])
  <2>1. /\ Good(session[c]) /\ channel[c] \in Seq(Msg) /\ promised[c] \in Seq(Owed)
        /\ host.out \in Seq(Cmd)
        /\ Fate(c).ok /\ Fate(c).owed = promised[c]
        /\ c \in clients => Fate(c).objs = host.objs
    BY InvParts
  <2>2. CASE c \in clients
    <3> DEFINE f == FateOf(Outcome(session[c], <<>>), channel[c], host.out)
    <3>1. f = Fate(c)
      BY <2>2 DEF Fate, FateOf
    <3>2. f \in World
      BY <2>1, OutcomeWorld
    <3> HIDE DEF f
    <3>3. f = Well(host.objs, promised[c])
      BY <2>1, <2>2, <3>1, <3>2, WellWorld
    <3> QED
      BY <2>1, <2>2, <3>3 DEF Settled, f
  <2>3. CASE c \notin clients
    BY <2>1, <2>3 DEF Settled, IInv, Waits
  <2> QED
    BY <2>2, <2>3
<1> QED
  BY <1>1, <1>2

Reached(c, s, q, members, h) ==
  Playing!Fold(Hearing!Fold(Outcome(s, <<>>), q), IF c \in members THEN h.out ELSE <<>>)

\* What is settled arrives.
LEMMA SettledParts ==
  ASSUME NEW c, NEW s, NEW q, NEW members, NEW h, h.objs \in Objs, NEW p,
         Settled(c, s, q, members, h, p)
  PROVE  LET f == Reached(c, s, q, members, h)
         IN /\ f.ok /\ f.owed = p /\ (c \in members => f.objs = h.objs)
            /\ s \in Session /\ Good(s) /\ q \in Seq(Msg) /\ p \in Seq(Owed)
            /\ c \notin members => q = <<>> /\ s = NewClientSession /\ p = <<>>
<1>1. Good(s) /\ s \in Session /\ q \in Seq(Msg) /\ p \in Seq(Owed)
  BY DEF Settled, Good
<1>2. CASE c \in members
  <2>1. Playing!Fold(Hearing!Fold(Outcome(s, <<>>), q), h.out) = Well(h.objs, p)
    BY <1>2 DEF Settled, FateOf
  <2> QED
    BY <1>1, <1>2, <2>1, WellType DEF Reached
<1>3. CASE c \notin members
  <2>1. q = <<>> /\ s = NewClientSession /\ p = <<>>
    BY <1>3 DEF Settled
  <2>2. Hearing!Fold(Outcome(s, <<>>), <<>>) = Well(NoObjects, <<>>)
    BY <2>1, NewSession, Hearing!FoldEmpty
  <2>3. Playing!Fold(Well(NoObjects, <<>>), <<>>) = Well(NoObjects, <<>>)
    BY Playing!FoldEmpty
  <2>4. Well(NoObjects, <<>>).ok /\ Well(NoObjects, <<>>).owed = <<>>
    BY DEF Well
  <2> QED
    BY <1>1, <1>3, <2>1, <2>2, <2>3, <2>4 DEF Reached
<1> QED
  BY <1>2, <1>3

LEMMA InvNext ==
  ASSUME HostOK(host'), made' \in Nat, Made(host', made'),
         clients' \subseteq Client,
         channel' = [c \in Client |-> channel'[c]],
         session' = [c \in Client |-> session'[c]],
         promised' = [c \in Client |-> promised'[c]],
         \A c \in Client :
           Settled(c, session'[c], channel'[c], clients', host', promised'[c])
  PROVE  IInv'
<1>1. host'.objs \in Objs
  BY DEF HostOK
<1>2. ASSUME NEW c \in Client
      PROVE  /\ Fate(c)'.ok /\ Fate(c)'.owed = promised'[c]
             /\ c \in clients' => Fate(c)'.objs = host'.objs
             /\ session'[c] \in Session /\ Good(session'[c])
             /\ channel'[c] \in Seq(Msg) /\ promised'[c] \in Seq(Owed)
             /\ c \notin clients' =>
                  channel'[c] = <<>> /\ session'[c] = NewClientSession /\ promised'[c] = <<>>
  <2>1. Settled(c, session'[c], channel'[c], clients', host', promised'[c])
    OBVIOUS
  <2>2. LET f == Reached(c, session'[c], channel'[c], clients', host')
        IN /\ f.ok /\ f.owed = promised'[c] /\ (c \in clients' => f.objs = host'.objs)
           /\ session'[c] \in Session /\ Good(session'[c])
           /\ channel'[c] \in Seq(Msg) /\ promised'[c] \in Seq(Owed)
           /\ c \notin clients' => channel'[c] = <<>> /\ session'[c] = NewClientSession
                                   /\ promised'[c] = <<>>
    BY <1>1, <2>1, SettledParts
  <2> QED
    BY <2>2 DEF Fate, Reached
<1>3. Typed'
  <2>1. channel' \in [Client -> Seq(Msg)] /\ session' \in [Client -> Session]
        /\ promised' \in [Client -> Seq(Owed)]
    BY <1>2
  <2> QED
    BY <2>1 DEF Typed, Made
<1>4. ASSUME NEW c \in Client PROVE Waits(c)' /\ Arrives(c)'
  BY <1>2 DEF Waits, Arrives
<1> QED
  BY <1>3, <1>4 DEF IInv

\* Owners matter to nothing that is written, and what is written to no list.
LEMMA HostLike ==
  ASSUME NEW h, HostOK(h), NEW g, Shape(g), g.objs = h.objs, g.size = h.size,
         g.free = h.free, g.out \in Seq(Cmd)
  PROVE  HostOK(g)
  BY HostSplit, SoundLike

LEMMA OwnerSet ==
  ASSUME NEW h, NEW g, HostOK(g), Mirror(h, g), NEW owner
  PROVE  LET f == [g EXCEPT !.owner = owner]
         IN HostOK(f) /\ Mirror(h, f) /\ f.objs = g.objs
<1> DEFINE f == [g EXCEPT !.owner = owner]
<1>1. Shape(g) /\ g.out \in Seq(Cmd)
  BY DEF HostOK
<1>2. f = [objs |-> g.objs, owner |-> owner, size |-> g.size, free |-> g.free, out |-> g.out]
  BY <1>1, ShapeParts
<1> HIDE DEF f
<1>3. Shape(f) /\ f.objs = g.objs /\ f.size = g.size /\ f.free = g.free /\ f.out = g.out
  BY <1>2 DEF Shape
<1>4. HostOK(f)
  BY <1>1, <1>3, HostLike
<1>5. Mirror(h, f)
  BY <1>3 DEF Mirror
<1> QED
  BY <1>3, <1>4, <1>5 DEF f

LEMMA SettledMirror ==
  ASSUME NEW h, h.out \in Seq(Cmd), NEW g, Mirror(h, g),
         NEW c, NEW s, NEW q, NEW members, NEW p, Settled(c, s, q, members, h, p)
  PROVE  Settled(c, s, q, members, g, p)
<1>1. CASE c \in members
  <2> DEFINE w == Outcome(s, <<>>)
  <2>1. FateOf(w, q, h.out) = Well(h.objs, p) /\ p \in Seq(Owed)
    BY <1>1 DEF Settled
  <2> HIDE DEF w
  <2>2. FateOf(w, q, g.out) = Well(g.objs, p)
    BY <2>1, FateMirror
  <2> QED
    BY <1>1, <2>2 DEF Settled, w
<1>2. CASE c \notin members
  BY <1>2 DEF Settled
<1> QED
  BY <1>1, <1>2

\* The host works, and the others do nothing.
LEMMA HostWorks ==
  ASSUME IInv, HostOK(host'), Mirror(host, host'), made' \in Nat, Made(host', made'),
         UNCHANGED <<clients, channel, session, promised>>
  PROVE  IInv'
<1>1. HostOK(host) /\ host.out \in Seq(Cmd)
  BY InvNow DEF HostOK
<1>2. ASSUME NEW c \in Client
      PROVE  Settled(c, session[c], channel[c], clients, host', promised[c])
  <2>1. Settled(c, session[c], channel[c], clients, host, promised[c])
    BY InvNow
  <2> QED
    BY <1>1, <2>1, SettledMirror
<1>3. /\ clients \subseteq Client
      /\ channel = [c \in Client |-> channel[c]]
      /\ session = [c \in Client |-> session[c]]
      /\ promised = [c \in Client |-> promised[c]]
  BY DEF IInv, Typed
<1> QED
  BY <1>2, <1>3, InvNext

LEMMA FewerMade ==
  ASSUME NEW h, NEW g, NEW n, Fewer(h, g), Made(h, n)
  PROVE  Made(g, n)
  BY DEF Fewer, Made

LEMMA ObjectIs ==
  ASSUME NEW n \in Nat, NEW in \in Ref
  PROVE  /\ Object(n, in) \in Obj /\ Object(n, in).what = n
         /\ Object(n, in).in = in /\ Object(n, in).ref = None
  BY DEF Object, Obj, Ref

\* A new object makes one more.
LEMMA MadeOne ==
  ASSUME NEW h, HostOK(h), NEW n \in Nat, Made(h, n), NEW kind \in Kinds, NEW in \in Ref,
         Room(h, kind),
         kind # "scene" => in \in DOMAIN h.objs /\ Kind(in) = "scene"
  PROVE  LET g == AddObject(h, kind, Object(n + 1, in))
         IN HostOK(g) /\ Mirror(h, g) /\ Made(g, n + 1)
<1> DEFINE object == Object(n + 1, in)
           slot == <<kind, GetFreeIndex(h, kind)>>
           g == AddObject(h, kind, object)
<1>1. n + 1 \in Nat /\ n + 1 \in 1 .. (n + 1) /\ \A i \in 1 .. n : i \in 1 .. (n + 1)
  OBVIOUS
<1>2. object \in Obj /\ object.what = n + 1 /\ object.in = in /\ object.ref = None
  BY <1>1, ObjectIs
<1> HIDE DEF object
<1>3. HostOK(g) /\ Mirror(h, g)
  BY <1>2, AddedHome
<1>4. Sound(h) /\ h.objs \in Objs
  BY HostSplit DEF HostOK
<1>5. slot \in Slot /\ g.objs = Filled(h.objs, slot, object)
  BY <1>2, <1>4, AddedSound
<1> HIDE DEF slot, g
<1>6. DOMAIN g.objs = DOMAIN h.objs \cup {slot}
      /\ \A s \in DOMAIN g.objs : g.objs[s] = IF s = slot THEN object ELSE h.objs[s]
  BY <1>5 DEF Filled
<1>7. Made(g, n + 1)
  <2> SUFFICES ASSUME NEW s \in DOMAIN g.objs PROVE g.objs[s].what \in 1 .. (n + 1)
    BY DEF Made
  <2>1. CASE s = slot
    BY <1>1, <1>2, <1>6, <2>1
  <2>2. CASE s # slot
    BY <1>1, <1>6, <2>2 DEF Made
  <2> QED
    BY <2>1, <2>2
<1> QED
  BY <1>3, <1>7 DEF g, object

LEMMA StepMake ==
  ASSUME IInv, NEW kind \in Kinds, NEW in \in Ref, NEW owners,
         kind # "scene" => in \in DOMAIN host.objs /\ Kind(in) = "scene",
         Make(kind, in, owners)
  PROVE  IInv'
<1> DEFINE g == AddObject(host, kind, Object(made + 1, in))
<1>1. HostOK(host) /\ made \in Nat /\ Made(host, made)
  BY InvNow
<1>2. HostOK(g) /\ Mirror(host, g) /\ Made(g, made + 1)
  <2>1. Room(host, kind)
    BY DEF Make, IndexLeft, Objects, Room
  <2> QED
    BY <1>1, <2>1, MadeOne
<1>3. /\ made' = made + 1 /\ UNCHANGED <<clients, channel, session, promised>>
      /\ \E owner : host' = [g EXCEPT !.owner = owner]
  BY DEF Make, Works
<1>4. PICK owner : host' = [g EXCEPT !.owner = owner]
  BY <1>3
<1> HIDE DEF g
<1>5. HostOK(host') /\ Mirror(host, host') /\ host'.objs = g.objs
  BY <1>2, <1>4, OwnerSet
<1>6. Made(host', made') /\ made' \in Nat
  BY <1>1, <1>2, <1>3, <1>5 DEF Made
<1> QED
  BY <1>3, <1>5, <1>6, HostWorks

LEMMA StepNew ==
  ASSUME IInv, NewScene \/ NewMedia \/ NewNode
  PROVE  IInv'
<1>1. None \in Ref /\ {"scene", "media", "node"} \subseteq Kinds
  BY DEF Ref, Kinds
<1>2. \A s \in Objects("scene") : s \in Ref /\ s \in DOMAIN host.objs /\ Kind(s) = "scene"
  <2>1. host.objs \in Objs
    BY InvNow DEF HostOK
  <2> QED
    BY <2>1, ObjsParts DEF Objects, OfKind, Ref
<1>3. CASE NewScene
  BY <1>1, <1>3, StepMake DEF NewScene
<1>4. CASE NewMedia
  BY <1>1, <1>2, <1>4, StepMake DEF NewMedia
<1>5. CASE NewNode
  <2>1. PICK scene \in Objects("scene") : \E owners : Make("node", scene, owners)
    BY <1>5 DEF NewNode
  <2>2. PICK owners : Make("node", scene, owners)
    BY <2>1
  <2> QED
    BY <1>1, <1>2, <2>2, StepMake
<1> QED
  BY <1>3, <1>4, <1>5

LEMMA StepWork ==
  ASSUME IInv, HostOK(host'), Mirror(host, host'), Fewer(host, host'), UNCHANGED made, Works
  PROVE  IInv'
<1>1. made \in Nat /\ Made(host, made)
  BY InvNow
<1>2. made' \in Nat /\ Made(host', made')
  BY <1>1, FewerMade
<1>3. UNCHANGED <<clients, channel, session, promised>>
  BY DEF Works
<1> QED
  BY <1>2, <1>3, HostWorks

LEMMA StepHost ==
  ASSUME IInv,
         \/ \E scene \in Objects("scene") : EndActivity(scene)
         \/ \E slot \in Objects("media") : DropMedia(slot)
         \/ \E node \in Objects("node") :
              \/ \E ref \in {None} \cup Objects("media") \cup Objects("node") :
                   SetNodeAttr(node, ref)
              \/ DeleteNode(node)
  PROVE  IInv'
<1>1. HostOK(host)
  BY InvNow
<1>2. ASSUME NEW scene \in Objects("scene"), EndActivity(scene) PROVE IInv'
  <2>1. scene \in OfKind(host.objs, "scene") /\ host' = RemoveScene(host, scene)
        /\ UNCHANGED made /\ Works
    BY <1>2 DEF Objects, EndActivity
  <2> QED
    BY <1>1, <2>1, RemovedScene, StepWork
<1>3. ASSUME NEW slot \in Objects("media"), DropMedia(slot) PROVE IInv'
  <2>1. slot \in OfKind(host.objs, "media") /\ host' = RemoveObject(host, slot)
        /\ (\A n \in OfKind(host.objs, "node") : host.objs[n].ref # slot)
        /\ UNCHANGED made /\ Works
    BY <1>3 DEF Objects, DropMedia
  <2> QED
    BY <1>1, <2>1, DroppedMedia, StepWork
<1>4. ASSUME NEW node \in Objects("node"),
             NEW ref \in {None} \cup Objects("media") \cup Objects("node"),
             SetNodeAttr(node, ref)
      PROVE  IInv'
  <2>1. /\ node \in OfKind(host.objs, "node")
        /\ ref \in {None} \cup OfKind(host.objs, "media") \cup OfKind(host.objs, "node")
        /\ ref # None => host.objs[ref].in = host.objs[node].in
        /\ host' = Write([host EXCEPT !.objs[node].ref = ref], SetCmd(node, ref))
        /\ UNCHANGED made /\ Works
    BY <1>4 DEF Objects, SetNodeAttr
  <2>2. HostOK(host') /\ Mirror(host, host') /\ Fewer(host, host')
    BY <1>1, <2>1, AttrSet
  <2> QED
    BY <2>1, <2>2, StepWork
<1>5. ASSUME NEW node \in Objects("node"), DeleteNode(node) PROVE IInv'
  <2> DEFINE others == (Dependents(host, node) \cap Objects("node")) \ {node}
  <2>1. /\ node \in OfKind(host.objs, "node")
        /\ others \in SUBSET (OfKind(host.objs, "node") \ {node})
        /\ host' = Through(RemoveObject, host, <<node>> \o SetToSeq(others))
        /\ UNCHANGED made /\ Works
    BY <1>5 DEF Objects, DeleteNode
  <2> HIDE DEF others
  <2>2. HostOK(host') /\ Mirror(host, host') /\ Fewer(host, host')
    BY <1>1, <2>1, DeletedNodes
  <2> QED
    BY <2>1, <2>2, StepWork
<1> QED
  BY <1>2, <1>3, <1>4, <1>5

-----------------------------------------------------------------------------
(* What is sent settles.                                                   *)

LEMMA SettledStep ==
  ASSUME NEW h, NEW c, NEW s, NEW q, NEW members, NEW p, NEW d \in 1 .. StepCap, NEW g,
         h.out \in Seq(Cmd), c \in members, Settled(c, s, q, members, h, p),
         g.out = Append(h.out, StepCmd(d)), g.objs = h.objs
  PROVE  Settled(c, s, q, members, g, Append(p, Moment(h.objs)))
<1> DEFINE w == Outcome(s, <<>>)
           more == Append(p, Moment(h.objs))
           out == h.out
           objs == h.objs
<1>1. /\ Good(s) /\ q \in Seq(Msg) /\ p \in Seq(Owed)
      /\ FateOf(w, q, out) = Well(objs, p)
  BY DEF Settled
<1> HIDE DEF w, out, objs
<1>2. FateOf(w, q, Append(out, StepCmd(d))) = Well(objs, Append(p, Moment(objs)))
  <2>1. out \in Seq(Cmd)
    BY DEF out
  <2> QED
    BY <1>1, <2>1, FateStep
<1>3. more \in Seq(Owed)
  <2>1. Moment(h.objs) \in Owed
    <3>1. FateOf(w, q, out) \in World
      BY <1>1, OutcomeWorld DEF w, out
    <3>2. objs \in Objs
      <4>1. Well(objs, p).objs = objs
        BY DEF Well
      <4> QED
        BY <1>1, <3>1, <4>1 DEF World
    <3> QED
      BY <3>2 DEF objs, Moment, Owed
  <2> QED
    BY <1>1, <2>1, AppendProperties
<1> QED
  BY <1>1, <1>2, <1>3 DEF Settled, w, out, objs

LEMMA SettledShipped ==
  ASSUME NEW h, NEW c, NEW s, NEW q, NEW members, NEW p, NEW g,
         h.out \in Seq(Cmd), c \in members, Settled(c, s, q, members, h, p),
         g.out = <<>>, g.objs = h.objs
  PROVE  Settled(c, s, q \o Shipped(h), members, g, p)
<1> DEFINE w == Outcome(s, <<>>)
<1>1. /\ Good(s) /\ q \in Seq(Msg) /\ p \in Seq(Owed)
      /\ FateOf(w, q, h.out) = Well(h.objs, p)
  BY DEF Settled
<1> HIDE DEF w
<1>2. /\ q \o Shipped(h) \in Seq(Msg)
      /\ FateOf(w, q \o Shipped(h), <<>>) = FateOf(w, q, h.out)
  BY <1>1, FateShipped
<1> QED
  BY <1>1, <1>2 DEF Settled, w

LEMMA FateNothing == \A w, q : FateOf(w, q, <<>>) = Hearing!Fold(w, q)
  BY Playing!FoldEmpty DEF FateOf

LEMMA SettledCorrected ==
  ASSUME NEW h, NEW c, NEW s, NEW q, NEW members, NEW p,
         h.objs \in Objs, IsFiniteSet(DOMAIN h.objs), h.out = <<>>,
         c \in members, Settled(c, s, q, members, h, p)
  PROVE  Settled(c, s, q \o GetCorrectionMessages(h.objs), members, h, p)
<1> DEFINE w == Outcome(s, <<>>)
           more == q \o GetCorrectionMessages(h.objs)
<1>1. /\ Good(s) /\ q \in Seq(Msg) /\ p \in Seq(Owed)
      /\ FateOf(w, q, <<>>) = Well(h.objs, p)
  BY DEF Settled
<1> HIDE DEF w
<1>2. Hearing!Fold(w, q) = Well(h.objs, p)
  BY <1>1, FateNothing
<1>3. more \in Seq(Msg) /\ Hearing!Fold(w, more) = Well(h.objs, p)
  BY <1>1, <1>2, FateCorrected
<1> HIDE DEF more
<1>4. FateOf(w, more, <<>>) = Well(h.objs, p)
  BY <1>3, FateNothing
<1> QED
  BY <1>1, <1>3, <1>4 DEF Settled, w, more

LEMMA SettledReset ==
  ASSUME NEW h, NEW c, NEW s, NEW q, NEW members, NEW p, NEW g,
         h.out = <<>>, c \in members, Settled(c, s, q, members, h, p),
         g.out = <<>>, g.objs = NoObjects
  PROVE  Settled(c, s, q \o <<ResetMsg>>, members, g, Append(p, Cut))
<1> DEFINE w == Outcome(s, <<>>)
           more == q \o <<ResetMsg>>
<1>1. /\ Good(s) /\ q \in Seq(Msg) /\ p \in Seq(Owed)
      /\ FateOf(w, q, <<>>) = Well(h.objs, p)
  BY DEF Settled
<1> HIDE DEF w
<1>2. Hearing!Fold(w, q) = Well(h.objs, p)
  BY <1>1, FateNothing
<1>3. more \in Seq(Msg) /\ Hearing!Fold(w, more) = Well(NoObjects, Append(p, Cut))
  BY <1>1, <1>2, FateReset
<1> HIDE DEF more
<1>4. FateOf(w, more, <<>>) = Well(NoObjects, Append(p, Cut))
  BY <1>3, FateNothing
<1>5. Append(p, Cut) \in Seq(Owed)
  <2>1. Cut \in Owed
    BY DEF Owed
  <2> QED
    BY <1>1, <2>1, AppendProperties
<1> QED
  BY <1>1, <1>3, <1>4, <1>5 DEF Settled, w, more

\* One who joins is sent everything.
LEMMA SettledJoin ==
  ASSUME NEW h, NEW c, NEW members, NEW g,
         HostOK(h), c \in members, g.out = <<>>, g.objs = h.objs
  PROVE  Settled(c, NewClientSession,
                 (<<ResetMsg>> \o Dump(h)) \o GetCorrectionMessages(h.objs),
                 members, g, <<Cut>>)
<1> DEFINE s == NewClientSession
           w == Well(NoObjects, <<>>)
           r == <<ResetMsg>>
           q == r \o Dump(h)
<1>1. Good(s) /\ Outcome(s, <<>>) = w
  BY NewSession
<1>2. h.objs \in Objs /\ IsFiniteSet(DOMAIN h.objs)
  BY DEF HostOK
<1>3. <<>> \in Seq(Owed) /\ <<>> \in Seq(Msg) /\ <<Cut>> \in Seq(Owed)
  <2>1. Cut \in Owed
    BY DEF Owed
  <2> QED
    BY <2>1, EmptySeq
<1>4. r \in Seq(Msg) /\ Hearing!Fold(w, r) = Well(NoObjects, <<Cut>>)
  <2> DEFINE e == <<>>
  <2>1. Hearing!Fold(w, e) = Well(NoObjects, e) /\ e \in Seq(Owed) /\ e \in Seq(Msg)
    BY <1>3, Hearing!FoldEmpty
  <2>2. e \o <<ResetMsg>> = <<ResetMsg>> /\ Append(e, Cut) = <<Cut>>
    OBVIOUS
  <2> HIDE DEF w, e
  <2>3. /\ e \o <<ResetMsg>> \in Seq(Msg)
        /\ Hearing!Fold(w, e \o <<ResetMsg>>) = Well(NoObjects, Append(e, Cut))
    BY <2>1, FateReset
  <2> QED
    BY <2>2, <2>3
<1>5. /\ Dump(h) \in Seq(Msg)
      /\ Hearing!Fold(Well(NoObjects, <<Cut>>), Dump(h)) = Well(h.objs, <<Cut>>)
  <2> DEFINE o == <<Cut>>
  <2>1. o \in Seq(Owed)
    BY <1>3
  <2> HIDE DEF o
  <2>2. Dump(h) \in Seq(Msg) /\ Hearing!Fold(Well(NoObjects, o), Dump(h)) = Well(h.objs, o)
    BY <2>1, Dumped
  <2> QED
    BY <2>2 DEF o
<1> HIDE DEF s, w, r
<1>6. q \in Seq(Msg) /\ Hearing!Fold(w, q) = Well(h.objs, <<Cut>>)
  <2>1. Hearing!Fold(w, r \o Dump(h)) = Hearing!Fold(Hearing!Fold(w, r), Dump(h))
    BY <1>4, <1>5, HeardConcat
  <2>2. r \o Dump(h) \in Seq(Msg)
    BY <1>4, <1>5, ConcatProperties
  <2> QED
    BY <1>4, <1>5, <2>1, <2>2
<1> HIDE DEF q
<1>7. FateOf(w, q, <<>>) = Well(h.objs, <<Cut>>)
  BY <1>6, FateNothing
<1>8. Settled(c, s, q, members, g, <<Cut>>)
  BY <1>1, <1>3, <1>6, <1>7 DEF Settled
<1>9. Settled(c, s, q \o GetCorrectionMessages(g.objs), members, g, <<Cut>>)
  BY <1>2, <1>8, SettledCorrected
<1> QED
  BY <1>9 DEF s, q, r

LEMMA SettledOther ==
  ASSUME NEW c, NEW s, NEW q, NEW members, NEW others, NEW h, NEW g, NEW p,
         c \notin members, c \notin others, Settled(c, s, q, members, h, p)
  PROVE  Settled(c, s, q, others, g, p) /\ p = <<>>
  BY DEF Settled

LEMMA SettledSame ==
  ASSUME NEW c, NEW s, NEW q, NEW members, NEW others, NEW h, NEW p,
         c \in members, c \in others, Settled(c, s, q, members, h, p)
  PROVE  Settled(c, s, q, others, h, p)
  BY DEF Settled

LEMMA NewHostOK == HostOK(NewHost) /\ NewHost.out = <<>> /\ NewHost.objs = NoObjects
<1> DEFINE h == NewHost
<1>1. /\ h.objs = NoObjects /\ h.out = <<>> /\ Shape(h)
      /\ h.size = [k \in Kinds |-> 0] /\ h.free = [k \in Kinds |-> <<>>]
  BY DEF NewHost, Shape
<1> HIDE DEF h
<1>2. h.objs \in Objs /\ DOMAIN h.objs = {} /\ IsFiniteSet(DOMAIN h.objs) /\ Homes(h.objs)
  BY <1>1, NoObjectsType, FS_EmptySet DEF Homes
<1>3. h.size \in [Kinds -> Nat] /\ h.free \in [Kinds -> Seq(Nat)] /\ h.out \in Seq(Cmd)
  BY <1>1, EmptySeq
<1>4. ASSUME NEW k \in Kinds
      PROVE  /\ Used(h, k) = {} /\ Free(h, k) = {} /\ h.size[k] = 0
             /\ h.size[k] <= MaxIndex[k] + 1
             /\ \A i, j \in DOMAIN h.free[k] : h.free[k][i] = h.free[k][j] => i = j
  <2>1. h.free[k] = <<>> /\ h.size[k] = 0
    BY <1>1
  <2>2. MaxIndex[k] \in Nat
    BY StreamAssumption
  <2> QED
    BY <1>2, <2>1, <2>2 DEF Used, Free, OfKind
<1>5. 0 .. (0 - 1) = {}
  OBVIOUS
<1>6. Lists(h)
  BY <1>3, <1>4, <1>5 DEF Lists
<1> QED
  BY <1>1, <1>2, <1>3, <1>6 DEF HostOK, h

LEMMA NewHostRoom == Room(NewHost, "scene")
<1>1. OfKind(NewHost.objs, "scene") = {}
  BY NoObjectsType DEF NewHost, OfKind
<1>2. MaxIndex["scene"] \in Nat
  BY StreamAssumption DEF Kinds
<1> QED
  BY <1>1, <1>2, FS_EmptySet DEF Room

LEMMA Functions ==
  ASSUME IInv
  PROVE  /\ channel = [c \in Client |-> channel[c]]
         /\ session = [c \in Client |-> session[c]]
         /\ promised = [c \in Client |-> promised[c]]
         /\ clients \subseteq Client
         /\ \A c \in Client : channel[c] \in Seq(Msg) /\ promised[c] \in Seq(Owed)
  BY DEF IInv, Typed

LEMMA StepIsSome ==
  ASSUME NEW gap \in Gaps
  PROVE  Step(gap) \in 1 .. StepCap
<1>1. StepCap \in Nat /\ StepCap >= 1 /\ gap \in Nat \ {0}
  BY StreamAssumption
<1> QED
  BY <1>1 DEF Step

LEMMA SomeShipped ==
  ASSUME NEW h, h.out # <<>>
  PROVE  \A q : Shipped(h) # <<>> /\ (q \in Seq(Msg) => Shipped(h) \o q # <<>>)
<1>1. Shipped(h) = <<CommandsMsg(h.out)>>
  BY DEF Shipped
<1>2. \A q, m : q \in Seq(Msg) => <<m>> \o q # <<>>
  OBVIOUS
<1> QED
  BY <1>1, <1>2

LEMMA StepSetTime ==
  ASSUME IInv, NEW gap \in Gaps, NEW sends \in {"nothing", "commands", "corrections"},
         SetTime(gap, sends)
  PROVE  IInv'
<1> DEFINE d == Step(gap)
           stepped == Write(host, StepCmd(d))
           flushed == [stepped EXCEPT !.out = <<>>]
           msgs == Due(stepped, sends)
           gcm == GetCorrectionMessages(stepped.objs)
<1>1. /\ HostOK(host) /\ made \in Nat /\ Made(host, made)
      /\ \A c \in Client : Settled(c, session[c], channel[c], clients, host, promised[c])
  BY InvNow
<1>2. /\ Shape(host) /\ host.out \in Seq(Cmd) /\ host.objs \in Objs
      /\ IsFiniteSet(DOMAIN host.objs)
  BY <1>1 DEF HostOK
<1>3. d \in 1 .. StepCap
  BY StepIsSome
<1>4. /\ channel' = ToClients(msgs)
      /\ host' = IF msgs = <<>> THEN stepped ELSE flushed
      /\ promised' = [c \in Client |->
                        IF c \in clients
                          THEN Append(promised[c], Moment(host.objs)) ELSE <<>>]
      /\ UNCHANGED <<made, clients, session>>
  BY DEF SetTime
<1>5. /\ Shape(stepped) /\ stepped.objs = host.objs /\ stepped.size = host.size
      /\ stepped.free = host.free /\ stepped.out = Append(host.out, StepCmd(d))
      /\ stepped.out \in Seq(Cmd) /\ stepped.out # <<>>
  <2>1. /\ Shape(stepped) /\ stepped.objs = host.objs /\ stepped.size = host.size
        /\ stepped.free = host.free /\ stepped.out = Append(host.out, StepCmd(d))
    BY <1>2, Wrote
  <2>2. StepCmd(d) \in Cmd
    BY <1>3, StepIsCmd
  <2> HIDE DEF stepped
  <2> QED
    BY <1>2, <2>1, <2>2, AppendProperties
<1> HIDE DEF d, stepped
<1>6. flushed = [objs |-> stepped.objs, owner |-> stepped.owner, size |-> stepped.size,
                 free |-> stepped.free, out |-> <<>>]
  BY <1>5, ShapeParts
<1> HIDE DEF flushed
<1>7. /\ Shape(flushed) /\ flushed.objs = host.objs /\ flushed.size = host.size
      /\ flushed.free = host.free /\ flushed.out = <<>>
  BY <1>5, <1>6 DEF Shape
<1>8. HostOK(stepped) /\ HostOK(flushed)
  <2>1. HostOK(stepped)
    BY <1>1, <1>5, HostLike
  <2>2. <<>> \in Seq(Cmd)
    BY EmptySeq
  <2> QED
    BY <1>1, <1>7, <2>1, <2>2, HostLike
<1>9. gcm \in Seq(Msg) /\ Shipped(stepped) \in Seq(Msg)
  BY <1>2, <1>5, Corrected, HostShipped
<1>10. /\ Shipped(stepped) # <<>> /\ Shipped(stepped) \o gcm # <<>>
  BY <1>5, <1>9, SomeShipped
<1> HIDE DEF gcm
<1>11. \/ msgs = <<>> /\ host' = stepped
       \/ msgs = Shipped(stepped) /\ host' = flushed
       \/ msgs = Shipped(stepped) \o gcm /\ host' = flushed
  <2>1. CASE sends = "nothing"
    <3>1. msgs = <<>>
      BY <2>1 DEF Due
    <3> QED
      BY <1>4, <3>1
  <2>2. CASE sends = "commands"
    <3>1. msgs = Shipped(stepped)
      BY <2>2 DEF Due
    <3> QED
      BY <1>4, <1>10, <3>1
  <2>3. CASE sends = "corrections"
    <3>1. msgs = Shipped(stepped) \o gcm
      BY <2>3 DEF Due, gcm
    <3> QED
      BY <1>4, <1>10, <3>1
  <2> QED
    BY <2>1, <2>2, <2>3
<1> HIDE DEF msgs
<1>12. HostOK(host') /\ host'.objs = host.objs
  BY <1>5, <1>7, <1>8, <1>11
<1>13. ASSUME NEW c \in Client
       PROVE  Settled(c, session'[c], channel'[c], clients', host', promised'[c])
  <2> DEFINE p == Append(promised[c], Moment(host.objs))
             q == channel[c]
  <2>1. Settled(c, session[c], q, clients, host, promised[c]) /\ q \in Seq(Msg)
    BY <1>1, Functions
  <2>2. CASE c \in clients
    <3>1. channel'[c] = q \o msgs /\ promised'[c] = p
      BY <1>4, <2>2 DEF ToClients
    <3>2. Settled(c, session[c], q, clients, stepped, p)
      BY <1>2, <1>3, <1>5, <2>1, <2>2, SettledStep
    <3> HIDE DEF p
    <3>3. Settled(c, session[c], q \o Shipped(stepped), clients, flushed, p)
      BY <1>5, <1>7, <2>2, <3>2, SettledShipped
    <3>4. Settled(c, session[c], (q \o Shipped(stepped)) \o gcm, clients, flushed, p)
      <4>1. flushed.objs \in Objs /\ IsFiniteSet(DOMAIN flushed.objs)
        BY <1>2, <1>7
      <4>2. gcm = GetCorrectionMessages(flushed.objs)
        BY <1>5, <1>7 DEF gcm
      <4> QED
        BY <1>7, <2>2, <3>3, <4>1, <4>2, SettledCorrected
    <3>5. (q \o Shipped(stepped)) \o gcm = q \o (Shipped(stepped) \o gcm)
      <4>1. \A a, b, e \in Seq(Msg) : (a \o b) \o e = a \o (b \o e)
        BY Associates
      <4> QED
        BY <1>9, <2>1, <4>1 DEF gcm
    <3>6. q \o <<>> = q
      BY <2>1, ConcatEmptySeq
    <3>7. CASE msgs = <<>> /\ host' = stepped
      BY <1>4, <3>1, <3>2, <3>6, <3>7
    <3>8. CASE msgs = Shipped(stepped) /\ host' = flushed
      BY <1>4, <3>1, <3>3, <3>8
    <3>9. CASE msgs = Shipped(stepped) \o gcm /\ host' = flushed
      BY <1>4, <3>1, <3>4, <3>5, <3>9
    <3> QED
      BY <1>11, <3>7, <3>8, <3>9
  <2>3. CASE c \notin clients
    <3>1. channel'[c] = q /\ promised'[c] = <<>>
      BY <1>4, <2>3 DEF ToClients
    <3>2. Settled(c, session[c], q, clients, host', promised[c]) /\ promised[c] = <<>>
      BY <2>1, <2>3, SettledOther
    <3> QED
      BY <1>4, <3>1, <3>2
  <2> QED
    BY <2>2, <2>3
<1>14. Made(host', made') /\ made' \in Nat
  BY <1>1, <1>4, <1>12 DEF Made
<1>15. /\ clients' \subseteq Client
       /\ channel' = [c \in Client |-> channel'[c]]
       /\ session' = [c \in Client |-> session'[c]]
       /\ promised' = [c \in Client |-> promised'[c]]
  BY <1>4, Functions DEF ToClients
<1> QED
  BY <1>12, <1>13, <1>14, <1>15, InvNext

LEMMA StepConnected ==
  ASSUME IInv, NEW c \in Client, OnClientConnected(c)
  PROVE  IInv'
<1> DEFINE flushed == [host EXCEPT !.out = <<>>]
           gcm == GetCorrectionMessages(host.objs)
           toOthers == Shipped(host) \o gcm
           toJoiner == (<<ResetMsg>> \o Dump(host)) \o gcm
<1>1. /\ HostOK(host) /\ made \in Nat /\ Made(host, made)
      /\ \A e \in Client : Settled(e, session[e], channel[e], clients, host, promised[e])
  BY InvNow
<1>2. /\ Shape(host) /\ host.out \in Seq(Cmd) /\ host.objs \in Objs
      /\ IsFiniteSet(DOMAIN host.objs)
  BY <1>1 DEF HostOK
<1>3. /\ c \notin clients /\ clients' = clients \cup {c}
      /\ channel' = [ToClients(toOthers) EXCEPT ![c] = toJoiner]
      /\ host' = flushed
      /\ promised' = [promised EXCEPT ![c] = <<Cut>>]
      /\ UNCHANGED <<made, session>>
  BY DEF OnClientConnected
<1>4. flushed = [objs |-> host.objs, owner |-> host.owner, size |-> host.size,
                 free |-> host.free, out |-> <<>>]
  BY <1>2, ShapeParts
<1> HIDE DEF flushed
<1>5. /\ Shape(flushed) /\ flushed.objs = host.objs /\ flushed.size = host.size
      /\ flushed.free = host.free /\ flushed.out = <<>>
  BY <1>4 DEF Shape
<1>6. HostOK(flushed)
  BY <1>1, <1>5, EmptySeq, HostLike
<1>7. gcm \in Seq(Msg) /\ Shipped(host) \in Seq(Msg)
  BY <1>2, Corrected, HostShipped
<1>8. ASSUME NEW e \in Client
      PROVE  Settled(e, session'[e], channel'[e], clients', host', promised'[e])
  <2> DEFINE q == channel[e]
             p == promised[e]
  <2>1. Settled(e, session[e], q, clients, host, p) /\ q \in Seq(Msg)
    BY <1>1, Functions
  <2>2. CASE e = c
    <3>1. channel'[c] = toJoiner /\ promised'[c] = <<Cut>> /\ c \in clients'
      BY <1>3, Functions DEF ToClients
    <3>2. session[c] = NewClientSession
      BY <1>3, <2>1, <2>2 DEF Settled
    <3>3. Settled(c, NewClientSession, toJoiner, clients', flushed, <<Cut>>)
      BY <1>1, <1>5, <3>1, SettledJoin
    <3> QED
      BY <1>3, <2>2, <3>1, <3>2, <3>3
  <2>3. CASE e # c /\ e \in clients
    <3>1. channel'[e] = q \o toOthers /\ promised'[e] = p /\ e \in clients'
      BY <1>3, <2>3, Functions DEF ToClients
    <3>2. Settled(e, session[e], q \o Shipped(host), clients, flushed, p)
      BY <1>2, <1>5, <2>1, <2>3, SettledShipped
    <3>3. Settled(e, session[e], (q \o Shipped(host)) \o gcm, clients, flushed, p)
      <4>1. flushed.objs \in Objs /\ IsFiniteSet(DOMAIN flushed.objs)
        BY <1>2, <1>5
      <4>2. gcm = GetCorrectionMessages(flushed.objs)
        BY <1>5
      <4> QED
        BY <1>5, <2>3, <3>2, <4>1, <4>2, SettledCorrected
    <3>4. (q \o Shipped(host)) \o gcm = q \o toOthers
      <4>1. \A a, b, d \in Seq(Msg) : (a \o b) \o d = a \o (b \o d)
        BY Associates
      <4> HIDE DEF gcm
      <4> QED
        BY <1>7, <2>1, <4>1
    <3>5. Settled(e, session[e], q \o toOthers, clients', flushed, p)
      BY <2>3, <3>1, <3>3, <3>4, SettledSame
    <3> QED
      BY <1>3, <3>1, <3>5
  <2>4. CASE e # c /\ e \notin clients
    <3>1. channel'[e] = q /\ promised'[e] = p /\ e \notin clients'
      BY <1>3, <2>4, Functions DEF ToClients
    <3>2. Settled(e, session[e], q, clients', host', p)
      BY <2>1, <2>4, <3>1, SettledOther
    <3> QED
      BY <1>3, <3>1, <3>2
  <2> QED
    BY <2>2, <2>3, <2>4
<1>9. Made(host', made') /\ made' \in Nat
  BY <1>1, <1>3, <1>5 DEF Made
<1>10. /\ clients' \subseteq Client
       /\ channel' = [e \in Client |-> channel'[e]]
       /\ session' = [e \in Client |-> session'[e]]
       /\ promised' = [e \in Client |-> promised'[e]]
  BY <1>3, Functions DEF ToClients
<1> QED
  BY <1>3, <1>6, <1>8, <1>9, <1>10, InvNext

LEMMA StepDisconnected ==
  ASSUME IInv, NEW c \in Client, OnClientDisconnected(c)
  PROVE  IInv'
<1>1. /\ HostOK(host) /\ made \in Nat /\ Made(host, made)
      /\ \A e \in Client : Settled(e, session[e], channel[e], clients, host, promised[e])
  BY InvNow
<1>2. /\ clients' = clients \ {c}
      /\ channel' = [channel EXCEPT ![c] = <<>>]
      /\ session' = [session EXCEPT ![c] = NewClientSession]
      /\ promised' = [promised EXCEPT ![c] = <<>>]
      /\ UNCHANGED <<host, made>>
  BY DEF OnClientDisconnected
<1>3. ASSUME NEW e \in Client
      PROVE  Settled(e, session'[e], channel'[e], clients', host', promised'[e])
  <2>1. Settled(e, session[e], channel[e], clients, host, promised[e])
    BY <1>1
  <2>2. CASE e = c
    <3>1. channel'[e] = <<>> /\ promised'[e] = <<>> /\ session'[e] = NewClientSession
          /\ e \notin clients'
      BY <1>2, <2>2, Functions
    <3> QED
      BY <3>1, SettledOut
  <2>3. CASE e # c
    <3>1. channel'[e] = channel[e] /\ promised'[e] = promised[e] /\ session'[e] = session[e]
          /\ (e \in clients' <=> e \in clients)
      BY <1>2, <2>3, Functions
    <3> QED
      BY <1>2, <2>1, <3>1 DEF Settled
  <2> QED
    BY <2>2, <2>3
<1>4. /\ clients' \subseteq Client
      /\ channel' = [e \in Client |-> channel'[e]]
      /\ session' = [e \in Client |-> session'[e]]
      /\ promised' = [e \in Client |-> promised'[e]]
  BY <1>2, Functions
<1> QED
  BY <1>1, <1>2, <1>3, <1>4, InvNext

LEMMA StepLaunch ==
  ASSUME IInv, LaunchHostSession
  PROVE  IInv'
<1> DEFINE old == RemoveAll(host)
           new == AddObject(NewHost, "scene", Object(made + 1, None))
           msgs == Shipped(old) \o <<ResetMsg>>
           kept == [out |-> <<>>, objs |-> old.objs]
<1>1. /\ HostOK(host) /\ made \in Nat
      /\ \A e \in Client : Settled(e, session[e], channel[e], clients, host, promised[e])
  BY InvNow
<1>2. /\ made' = made + 1
      /\ channel' = ToClients(msgs)
      /\ host' = new
      /\ promised' = [c \in Client |->
                         IF c \in clients THEN Append(promised[c], Cut) ELSE <<>>]
      /\ UNCHANGED <<clients, session>>
  BY DEF LaunchHostSession
<1>3. HostOK(old) /\ Mirror(host, old)
  BY <1>1, RemovedAll
<1>4. HostOK(NewHost) /\ NewHost.out = <<>> /\ NewHost.objs = NoObjects /\ Made(NewHost, made)
  BY NewHostOK, NoObjectsType DEF Made
<1>5. HostOK(new) /\ Mirror(NewHost, new) /\ Made(new, made + 1)
  <2>1. "scene" \in Kinds /\ None \in Ref
    BY DEF Kinds, Ref
  <2> QED
    BY <1>1, <1>4, <2>1, NewHostRoom, MadeOne
<1>6. host.out \in Seq(Cmd) /\ old.out \in Seq(Cmd) /\ old.objs \in Objs
  BY <1>1, <1>3 DEF HostOK
<1> HIDE DEF new, old
<1>7. Shipped(old) \in Seq(Msg) /\ <<ResetMsg>> \in Seq(Msg)
  <2>1. ResetMsg \in Msg
    BY DEF Msg
  <2>2. Shipped(old) \in Seq(Msg)
    BY <1>6, HostShipped
  <2> QED
    BY <2>1, <2>2
<1>8. ASSUME NEW e \in Client
      PROVE  Settled(e, session'[e], channel'[e], clients', host', promised'[e])
  <2> DEFINE q == channel[e]
             p == promised[e]
  <2>1. Settled(e, session[e], q, clients, host, p) /\ q \in Seq(Msg)
    BY <1>1, Functions
  <2>2. CASE e \in clients
    <3>1. channel'[e] = q \o msgs /\ promised'[e] = Append(p, Cut)
      BY <1>2, <2>2 DEF ToClients
    <3>2. Settled(e, session[e], q, clients, old, p)
      BY <1>3, <1>6, <2>1, SettledMirror
    <3>3. kept.out = <<>> /\ kept.objs = old.objs
      OBVIOUS
    <3> HIDE DEF kept
    <3>4. Settled(e, session[e], q \o Shipped(old), clients, kept, p)
      BY <1>6, <2>2, <3>2, <3>3, SettledShipped
    <3>5. Settled(e, session[e], (q \o Shipped(old)) \o <<ResetMsg>>, clients, NewHost,
                  Append(p, Cut))
      BY <1>4, <2>2, <3>3, <3>4, SettledReset
    <3>6. (q \o Shipped(old)) \o <<ResetMsg>> = q \o msgs
      <4>1. \A a, b, d \in Seq(Msg) : (a \o b) \o d = a \o (b \o d)
        BY Associates
      <4> DEFINE r == <<ResetMsg>>
      <4>2. r \in Seq(Msg)
        BY <1>7
      <4> HIDE DEF r
      <4>3. (q \o Shipped(old)) \o r = q \o (Shipped(old) \o r)
        BY <1>7, <2>1, <4>1, <4>2
      <4> QED
        BY <4>3 DEF r
    <3> HIDE DEF msgs
    <3>7. Settled(e, session[e], q \o msgs, clients, NewHost, Append(p, Cut))
      BY <3>5, <3>6
    <3>8. NewHost.out \in Seq(Cmd)
      BY <1>4, EmptySeq
    <3>9. Settled(e, session[e], q \o msgs, clients, new, Append(p, Cut))
      BY <1>5, <3>7, <3>8, SettledMirror
    <3> QED
      BY <1>2, <3>1, <3>9
  <2>3. CASE e \notin clients
    <3>1. channel'[e] = q /\ promised'[e] = <<>>
      BY <1>2, <2>3 DEF ToClients
    <3>2. Settled(e, session[e], q, clients, host', p) /\ p = <<>>
      BY <2>1, <2>3, SettledOther
    <3> QED
      BY <1>2, <3>1, <3>2
  <2> QED
    BY <2>2, <2>3
<1>9. made' \in Nat /\ HostOK(host') /\ Made(host', made')
  BY <1>1, <1>2, <1>5
<1>10. /\ clients' \subseteq Client
       /\ channel' = [e \in Client |-> channel'[e]]
       /\ session' = [e \in Client |-> session'[e]]
       /\ promised' = [e \in Client |-> promised'[e]]
  BY <1>2, Functions DEF ToClients
<1> QED
  BY <1>8, <1>9, <1>10, InvNext

-----------------------------------------------------------------------------
(* A client hears.                                                         *)

LEMMA RestOf ==
  ASSUME NEW S, NEW u \in Seq(S), NEW v \in Seq(S)
  PROVE  SubSeq(u \o v, Len(u) + 1, Len(u \o v)) = v
<1>1. Len(u) \in Nat /\ Len(v) \in Nat /\ Len(u \o v) = Len(u) + Len(v)
  BY LenProperties, ConcatProperties
<1>2. CASE v = <<>>
  <2>1. Len(v) = 0
    BY <1>2
  <2> QED
    BY <1>1, <1>2, <2>1, SubSeqEmpty
<1>3. CASE v # <<>>
  <2>1. Len(v) # 0
    BY <1>3, EmptySeq
  <2>2. /\ Len(u) + 1 \in Len(u) + 1 .. Len(u) + Len(v)
        /\ Len(u) + Len(v) \in Len(u) + 1 .. Len(u) + Len(v)
    BY <1>1, <2>1
  <2>3. SubSeq(u \o v, Len(u) + 1, Len(u) + Len(v)) =
          SubSeq(v, (Len(u) + 1) - Len(u), (Len(u) + Len(v)) - Len(u))
    BY <2>2, SubSeqOfConcat2
  <2>4. (Len(u) + 1) - Len(u) = 1 /\ (Len(u) + Len(v)) - Len(u) = Len(v)
    BY <1>1
  <2>5. SubSeq(v, 1, Len(v)) = v
    BY SubSeqFull
  <2> QED
    BY <1>1, <2>3, <2>4, <2>5
<1> QED
  BY <1>2, <1>3

\* The first cut that is owed, and what is owed after it.
CutAt(p, i) == i \in DOMAIN p /\ p[i] = Cut /\ \A j \in 1 .. (i - 1) : p[j] # Cut

LEMMA FirstCut ==
  ASSUME NEW p \in Seq(Owed), NEW i, CutAt(p, i)
  PROVE  AfterCut(p) = SubSeq(p, i + 1, Len(p))
<1> DEFINE I == {j \in 1 .. Len(p) : p[j] = Cut}
<1>1. DOMAIN p = 1 .. Len(p) /\ Len(p) \in Nat
  BY LenProperties
<1>2. i \in I /\ \A j \in I : i <= j
  BY <1>1 DEF CutAt
<1>3. I \subseteq Nat
  BY <1>1
<1>4. AfterCut(p) = SubSeq(p, (IF I # {} THEN Min(I) ELSE 0) + 1, Len(p))
  BY DEF AfterCut, SelectInSeq
<1> HIDE DEF I
<1>5. Min(I) \in I /\ \A j \in I : Min(I) <= j
  BY <1>2 DEF Min
<1>6. Min(I) = i
  <2> DEFINE k == Min(I)
  <2>1. k \in Nat /\ i \in Nat /\ i <= k /\ k <= i
    BY <1>2, <1>3, <1>5
  <2> HIDE DEF k
  <2>2. k = i
    BY <2>1
  <2> QED
    BY <2>2 DEF k
<1> QED
  BY <1>2, <1>4, <1>6

LEMMA CutBetween ==
  ASSUME NEW u \in Seq(Owed), NEW v \in Seq(Owed), NoCut(u),
         NEW p, p = (u \o <<Cut>>) \o v
  PROVE  AfterCut(p) = v /\ CutAt(p, Len(u) + 1)
<1> DEFINE uc == u \o <<Cut>>
<1>1. Cut \in Owed /\ <<Cut>> \in Seq(Owed) /\ Len(<<Cut>>) = 1 /\ <<Cut>>[1] = Cut
  <2>1. Cut \in Owed
    BY DEF Owed
  <2> QED
    BY <2>1
<1>2. /\ uc \in Seq(Owed) /\ Len(uc) = Len(u) + 1 /\ Len(u) \in Nat
      /\ uc[Len(u) + 1] = Cut /\ \A i \in 1 .. Len(u) : uc[i] = u[i]
  <2> DEFINE o == <<Cut>>
  <2>1. o \in Seq(Owed) /\ Len(o) = 1 /\ o[1] = Cut /\ Len(u) \in Nat
    BY <1>1, LenProperties
  <2> HIDE DEF o
  <2>2. /\ u \o o \in Seq(Owed) /\ Len(u \o o) = Len(u) + Len(o)
        /\ \A i \in 1 .. Len(u) + Len(o) :
             (u \o o)[i] = IF i <= Len(u) THEN u[i] ELSE o[i - Len(u)]
    BY <2>1, ConcatProperties
  <2>3. (Len(u) + 1) - Len(u) = 1
    BY <2>1
  <2>4. (u \o o)[Len(u) + 1] = o[1]
    BY <2>1, <2>2, <2>3
  <2>5. \A i \in 1 .. Len(u) : (u \o o)[i] = u[i]
    BY <2>1, <2>2
  <2> QED
    BY <2>1, <2>2, <2>4, <2>5 DEF o
<1> HIDE DEF uc
<1>3. /\ p = uc \o v /\ p \in Seq(Owed) /\ Len(p) = Len(uc) + Len(v) /\ Len(v) \in Nat
      /\ \A i \in 1 .. Len(uc) : p[i] = uc[i]
      /\ DOMAIN p = 1 .. Len(p)
  <2>1. p = uc \o v
    BY DEF uc
  <2>2. /\ uc \o v \in Seq(Owed) /\ Len(uc \o v) = Len(uc) + Len(v)
        /\ \A i \in 1 .. Len(uc) + Len(v) :
             (uc \o v)[i] = IF i <= Len(uc) THEN uc[i] ELSE v[i - Len(uc)]
    BY <1>2, ConcatProperties
  <2>3. Len(v) \in Nat /\ Len(uc) \in Nat /\ DOMAIN p = 1 .. Len(p)
    BY <1>2, <2>1, <2>2, LenProperties
  <2>4. \A i \in 1 .. Len(uc) : p[i] = uc[i]
    <3>1. \A i \in 1 .. Len(uc) : i \in 1 .. Len(uc) + Len(v) /\ i <= Len(uc)
      BY <2>3
    <3> QED
      BY <2>1, <2>2, <3>1
  <2> QED
    BY <2>1, <2>2, <2>3, <2>4
<1>4. CutAt(p, Len(u) + 1)
  <2>1. Len(u) + 1 \in DOMAIN p /\ p[Len(u) + 1] = Cut
    BY <1>2, <1>3
  <2>2. (Len(u) + 1) - 1 = Len(u)
    BY <1>2
  <2>3. \A j \in 1 .. Len(u) : p[j] # Cut
    BY <1>2, <1>3 DEF NoCut
  <2> QED
    BY <2>1, <2>2, <2>3 DEF CutAt
<1>5. SubSeq(p, Len(uc) + 1, Len(p)) = v
  BY <1>2, <1>3, RestOf
<1>6. AfterCut(p) = SubSeq(p, (Len(u) + 1) + 1, Len(p))
  BY <1>3, <1>4, FirstCut
<1> QED
  BY <1>2, <1>4, <1>5, <1>6

LEMMA FateOwing ==
  ASSUME NEW v \in World, NEW pre \in Seq(Owed), NEW q \in Seq(Msg), NEW out \in Seq(Cmd)
  PROVE  /\ FateOf(Owing(v, pre), q, out) = Owing(FateOf(v, q, out), pre)
         /\ FateOf(v, q, out) \in World
<1>1. Hearing!Fold(v, q) \in World /\ out \in Seq(Item)
  BY HeardType, CmdIsItem
<1>2. Hearing!Fold(Owing(v, pre), q) = Owing(Hearing!Fold(v, q), pre)
  BY HeardOwing
<1>3. \A w \in World : /\ Playing!Fold(Owing(w, pre), out) = Owing(Playing!Fold(w, out), pre)
                       /\ Playing!Fold(w, out) \in World
  BY <1>1, PlayedOwing, PlayedType
<1> QED
  BY <1>1, <1>2, <1>3 DEF FateOf

\* What is heard first.
LEMMA FateFirst ==
  ASSUME NEW w, NEW q \in Seq(Msg), q # <<>>, NEW out
  PROVE  /\ Head(q) \in Msg /\ Tail(q) \in Seq(Msg)
         /\ FateOf(w, q, out) = FateOf(PlayMsg(w, Head(q)), Tail(q), out)
<1>1. Head(q) \in Msg /\ Tail(q) \in Seq(Msg)
  BY HeadTailProperties
<1>2. Hearing!Fold(w, q) = Hearing!Fold(PlayMsg(w, Head(q)), Tail(q))
  BY Hearing!FoldFirst
<1> QED
  BY <1>1, <1>2 DEF FateOf

LEMMA SettledHeard ==
  ASSUME NEW h, NEW c, NEW s, NEW q, NEW members, NEW p,
         c \in members, Settled(c, s, q, members, h, p),
         q # <<>>, Head(q) # ResetMsg
  PROVE  /\ Settled(c, HandleSessionMessage(s, Head(q)), Tail(q), members, h, p)
         /\ HandleSessionMessage(s, Head(q)).objs = s.objs
<1> DEFINE m == Head(q)
           t == HandleSessionMessage(s, m)
           w == Outcome(s, <<>>)
<1>1. /\ Good(s) /\ q \in Seq(Msg) /\ p \in Seq(Owed)
      /\ FateOf(w, q, h.out) = Well(h.objs, p)
  BY DEF Settled
<1>2. /\ m \in Msg /\ Tail(q) \in Seq(Msg)
      /\ FateOf(w, q, h.out) = FateOf(PlayMsg(w, m), Tail(q), h.out)
  BY <1>1, FateFirst
<1>3. m.type # "reset"
  BY <1>2, MsgParts
<1>4. Good(t) /\ Outcome(t, <<>>) = PlayMsg(w, m) /\ t.objs = s.objs
  BY <1>1, <1>2, <1>3, EmptySeq, Received
<1> HIDE DEF t, w, m
<1>5. FateOf(Outcome(t, <<>>), Tail(q), h.out) = Well(h.objs, p)
  BY <1>1, <1>2, <1>4
<1> QED
  BY <1>1, <1>2, <1>4, <1>5 DEF Settled, t, m

LEMMA OutcomeNoCut ==
  ASSUME NEW s, Good(s)
  PROVE  /\ NoCut(Outcome(s, <<>>).owed)
         /\ Outcome(s, <<>>).ok => ~s.ended /\ ~s.mixed
<1> DEFINE q == s.cmds \o s.pending
           b == Begin(s, <<>>)
<1>1. s \in Session /\ s.cmds \in Seq(Cmd) /\ s.pending \in Seq(Cmd) /\ <<>> \in Seq(Owed)
  BY EmptySeq DEF Good, Session
<1>2. q \in Seq(Cmd)
  BY <1>1, ConcatProperties
<1>3. b \in World
  BY <1>1, BeginType
<1>4. b.owed = <<>> /\ (b.ok <=> ~s.ended /\ ~s.mixed)
  BY DEF Begin
<1>5. Outcome(s, <<>>) = Playing!Fold(b, q)
  BY DEF Outcome
<1>6. NoCut(<<>>)
  BY DEF NoCut
<1> HIDE DEF q, b
<1>7. q \in Seq(Item)
  BY <1>2, CmdIsItem
<1> QED
  BY <1>2, <1>3, <1>4, <1>5, <1>6, <1>7, PlayedNoCut, PlayedType

\* What waits is lost with a reset, and what is owed up to it.
LEMMA SettledCut ==
  ASSUME NEW h, NEW c, NEW s, NEW q, NEW members, NEW p,
         c \in members, Settled(c, s, q, members, h, p), h.out \in Seq(Cmd), h.objs \in Objs,
         q # <<>>, Head(q) = ResetMsg
  PROVE  /\ Settled(c, Reset(s), Tail(q), members, h, AfterCut(p))
         /\ Reset(s).objs = NoObjects
         /\ \E i : CutAt(p, i)
<1> DEFINE w == Outcome(s, <<>>)
           rest == Tail(q)
           out == h.out
           none == <<>>
           v == Well(NoObjects, none)
           pre == w.owed \o <<Cut>>
           f == FateOf(v, rest, out)
           t == Reset(s)
<1>1. /\ Good(s) /\ q \in Seq(Msg) /\ p \in Seq(Owed)
      /\ FateOf(w, q, out) = Well(h.objs, p)
  BY DEF Settled
<1>2. /\ rest \in Seq(Msg)
      /\ FateOf(w, q, out) = FateOf(PlayMsg(w, ResetMsg), rest, out)
  BY <1>1, FateFirst
<1>3. s \in Session /\ w \in World /\ w.owed \in Seq(Owed) /\ FateOf(w, q, out) \in World
  BY <1>1, OutcomeWorld DEF World
<1>4. none \in Seq(Owed) /\ NoObjects \in Objs /\ v \in World
  <2>1. none \in Seq(Owed) /\ NoObjects \in Objs
    BY EmptySeq, NoObjectsType
  <2> HIDE DEF none
  <2> QED
    BY <2>1, WellType
<1>5. w.ok
  <2>1. Hearing!Fold(w, q) \in World /\ out \in Seq(Item)
    BY <1>1, <1>3, HeardType, CmdIsItem
  <2>2. FateOf(w, q, out).ok
    BY <1>1 DEF Well
  <2>3. Hearing!Fold(w, q).ok
    BY <2>1, <2>2, PlayedType DEF FateOf
  <2> QED
    BY <1>1, <1>3, <2>3, HeardType
<1>6. ~s.ended /\ ~s.mixed /\ NoCut(w.owed)
  BY <1>1, <1>5, OutcomeNoCut
<1>7. Good(t) /\ Outcome(t, none) = v /\ t.objs = NoObjects
  <2>1. /\ Good(t) /\ t.cmds = <<>> /\ t.pending = <<>> /\ t.objs = NoObjects
        /\ t.ended = s.ended /\ t.mixed = s.mixed
    BY <1>3, ResetParts
  <2> HIDE DEF t, none
  <2>2. Outcome(t, none) = Begin(t, none)
    BY <2>1, EmptyOutcome
  <2>3. s.ended = FALSE /\ s.mixed = FALSE
    BY <1>3, <1>6 DEF Session
  <2> QED
    BY <2>1, <2>2, <2>3 DEF Begin, Well
<1>8. PlayMsg(w, ResetMsg) = Owing(v, pre) /\ pre \in Seq(Owed)
  <2>1. PlayMsg(w, ResetMsg) = [ok |-> TRUE, objs |-> NoObjects, owed |-> pre]
    BY <1>5, PlayReset
  <2>2. pre \in Seq(Owed)
    <3>1. Cut \in Owed
      BY DEF Owed
    <3> DEFINE o == <<Cut>>
    <3>2. o \in Seq(Owed)
      BY <3>1
    <3> HIDE DEF o, w
    <3>3. w.owed \o o \in Seq(Owed)
      BY <1>3, <3>2, ConcatProperties
    <3> QED
      BY <3>3 DEF o
  <2>3. v.ok = TRUE /\ v.objs = NoObjects /\ v.owed = <<>>
    BY DEF Well
  <2> HIDE DEF pre, v, w
  <2>4. pre \o <<>> = pre
    BY <2>2, ConcatEmptySeq
  <2> QED
    BY <2>1, <2>2, <2>3, <2>4 DEF Owing
<1> HIDE DEF w, rest, out, v, pre, t
<1>9. out \in Seq(Cmd)
  BY DEF out
<1>10. FateOf(Owing(v, pre), rest, out) = Owing(f, pre) /\ f \in World
  BY <1>2, <1>4, <1>8, <1>9, FateOwing
<1> HIDE DEF f
<1>11. Owing(f, pre) = Well(h.objs, p)
  BY <1>1, <1>2, <1>8, <1>10
<1>12. f.ok = TRUE /\ f.objs = h.objs /\ pre \o f.owed = p
  BY <1>11 DEF Owing, Well
<1>13. f = Well(h.objs, f.owed) /\ f.owed \in Seq(Owed)
  BY <1>10, <1>12, WellWorld DEF World
<1>14. AfterCut(p) = f.owed /\ CutAt(p, Len(w.owed) + 1)
  <2>1. p = (w.owed \o <<Cut>>) \o f.owed
    BY <1>12 DEF pre
  <2>2. w.owed \in Seq(Owed) /\ NoCut(w.owed) /\ f.owed \in Seq(Owed)
    BY <1>3, <1>6, <1>13
  <2> QED
    BY <2>1, <2>2, CutBetween
<1>15. FateOf(Outcome(t, <<>>), rest, out) = Well(h.objs, AfterCut(p))
  BY <1>7, <1>13, <1>14 DEF f, none
<1>16. Settled(c, t, rest, members, h, AfterCut(p))
  BY <1>2, <1>7, <1>13, <1>14, <1>15 DEF Settled, out
<1> QED
  BY <1>7, <1>14, <1>16 DEF t, rest

LEMMA StepReceive ==
  ASSUME IInv, NEW c \in Client, Receive(c)
  PROVE  IInv'
<1> DEFINE m == Head(channel[c])
<1>1. /\ HostOK(host) /\ made \in Nat /\ Made(host, made)
      /\ \A e \in Client : Settled(e, session[e], channel[e], clients, host, promised[e])
  BY InvNow
<1>2. /\ channel[c] # <<>>
      /\ channel' = [channel EXCEPT ![c] = Tail(@)]
      /\ session' = [session EXCEPT ![c] = HandleSessionMessage(@, m)]
      /\ promised' = IF m = ResetMsg
                       THEN [promised EXCEPT ![c] = AfterCut(@)] ELSE promised
      /\ UNCHANGED <<host, made, clients>>
  BY DEF Receive
<1>3. host.out \in Seq(Cmd) /\ host.objs \in Objs
  BY <1>1 DEF HostOK
<1>4. c \in clients
  BY <1>1, <1>2 DEF Settled
<1>5. ASSUME NEW e \in Client
      PROVE  Settled(e, session'[e], channel'[e], clients', host', promised'[e])
  <2>1. Settled(e, session[e], channel[e], clients, host, promised[e])
    BY <1>1
  <2>2. CASE e = c
    <3>1. channel'[c] = Tail(channel[c]) /\ session'[c] = HandleSessionMessage(session[c], m)
      BY <1>2, Functions
    <3>2. CASE m = ResetMsg
      <4>1. promised'[c] = AfterCut(promised[c])
        BY <1>2, <3>2, Functions
      <4>2. Settled(c, Reset(session[c]), Tail(channel[c]), clients, host,
                    AfterCut(promised[c]))
        BY <1>2, <1>3, <1>4, <2>1, <2>2, <3>2, SettledCut
      <4>3. HandleSessionMessage(session[c], m) = Reset(session[c])
        <5>1. m.type = "reset"
          BY <3>2 DEF ResetMsg
        <5> QED
          BY <5>1 DEF HandleSessionMessage
      <4> QED
        BY <1>2, <2>2, <3>1, <4>1, <4>2, <4>3
    <3>3. CASE m # ResetMsg
      <4>1. promised'[c] = promised[c]
        BY <1>2, <3>3
      <4>2. Settled(c, HandleSessionMessage(session[c], m), Tail(channel[c]), clients, host,
                    promised[c])
        BY <1>2, <1>4, <2>1, <2>2, <3>3, SettledHeard
      <4> QED
        BY <1>2, <2>2, <3>1, <4>1, <4>2
    <3> QED
      BY <3>2, <3>3
  <2>3. CASE e # c
    <3>1. channel'[e] = channel[e] /\ promised'[e] = promised[e] /\ session'[e] = session[e]
      BY <1>2, <2>3, Functions
    <3> QED
      BY <1>2, <2>1, <3>1
  <2> QED
    BY <2>2, <2>3
<1>6. /\ clients' \subseteq Client
      /\ channel' = [e \in Client |-> channel'[e]]
      /\ session' = [e \in Client |-> session'[e]]
      /\ promised' = [e \in Client |-> promised'[e]]
  BY <1>2, Functions
<1> QED
  BY <1>1, <1>2, <1>5, <1>6, InvNext

-----------------------------------------------------------------------------
(* A client runs some moments.                                             *)

LEMMA StepsOfMore ==
  ASSUME NEW p \in Seq(Cmd), NEW x \in Cmd
  PROVE  Steps(Append(p, x)) =
           IF x.type = "step" THEN Steps(p) \cup {Len(p) + 1} ELSE Steps(p)
<1> DEFINE px == Append(p, x)
           n == Len(p)
<1>1. /\ n \in Nat /\ DOMAIN p = 1 .. n /\ DOMAIN px = 1 .. (n + 1)
      /\ \A i \in 1 .. n : px[i] = p[i]
      /\ px[n + 1] = x
  BY LenProperties, AppendProperties
<1>2. Steps(px) = {i \in 1 .. (n + 1) : px[i].type = "step"}
      /\ Steps(p) = {i \in 1 .. n : p[i].type = "step"}
  BY <1>1 DEF Steps
<1>3. 1 .. (n + 1) = (1 .. n) \cup {n + 1} /\ n + 1 \notin 1 .. n
  BY <1>1
<1> HIDE DEF px, n
<1>4. CASE x.type = "step"
  BY <1>1, <1>2, <1>3, <1>4 DEF px, n
<1>5. CASE x.type # "step"
  BY <1>1, <1>2, <1>3, <1>5 DEF px, n
<1> QED
  BY <1>4, <1>5

LEMMA PlayWellOwed ==
  ASSUME NEW w, NEW c, w.ok, Fits(w.objs, c)
  PROVE  Play(w, c).owed = w.owed \o Owes(w.objs, c)
  BY DEF Play

\* As many moments are gone through as there are steps.
LEMMA Paid ==
  ASSUME NEW w \in World, NEW q \in Seq(Cmd), Playing!Fold(w, q).ok
  PROVE  Len(Playing!Fold(w, q).owed) = Len(w.owed) + Cardinality(Steps(q))
<1> DEFINE W(p) == Playing!Fold(w, p)
           T == {p \in Seq(Cmd) :
                   /\ IsFiniteSet(Steps(p)) /\ Steps(p) \subseteq 1 .. Len(p)
                   /\ W(p).ok => Len(W(p).owed) = Len(w.owed) + Cardinality(Steps(p))}
<1>1. <<>> \in T
  <2> DEFINE e == <<>>
  <2>1. W(e) = w /\ Steps(e) = {} /\ e \in Seq(Cmd)
    BY Playing!FoldEmpty, EmptySeq DEF Steps
  <2>2. IsFiniteSet({}) /\ Cardinality({}) = 0
    BY FS_EmptySet
  <2>3. Len(w.owed) \in Nat
    BY LenProperties DEF World
  <2> HIDE DEF W, e
  <2>5. /\ IsFiniteSet(Steps(e)) /\ Steps(e) \subseteq 1 .. Len(e)
        /\ Len(W(e).owed) = Len(w.owed) + Cardinality(Steps(e))
    BY <2>1, <2>2, <2>3
  <2>4. e \in T
    BY <2>1, <2>5
  <2> QED
    BY <2>4 DEF e
<1>2. ASSUME NEW p \in Seq(Cmd), NEW x \in Cmd, p \in T
      PROVE  Append(p, x) \in T
  <2> DEFINE px == Append(p, x)
             n == Len(p)
             v == W(p)
  <2>1. W(px) = Play(v, x) /\ px \in Seq(Cmd) /\ v \in World /\ n \in Nat /\ Len(px) = n + 1
    <3>1. W(px) = Play(v, x)
      BY Playing!FoldAppend
    <3>2. px \in Seq(Cmd) /\ n \in Nat /\ Len(px) = n + 1
      BY AppendProperties, LenProperties
    <3>3. v \in World
      BY CmdIsItem, PlayedType
    <3> QED
      BY <3>1, <3>2, <3>3
  <2>2. /\ IsFiniteSet(Steps(p)) /\ Steps(p) \subseteq 1 .. n
        /\ v.ok => Len(v.owed) = Len(w.owed) + Cardinality(Steps(p))
    BY <1>2
  <2>3. Steps(px) = IF x.type = "step" THEN Steps(p) \cup {n + 1} ELSE Steps(p)
    BY StepsOfMore
  <2> HIDE DEF W, px, v, n, T
  <2>4. n + 1 \notin Steps(p) /\ Cardinality(Steps(p)) \in Nat
    BY <2>1, <2>2, FS_CardinalityType
  <2>5. /\ IsFiniteSet(Steps(p) \cup {n + 1})
        /\ Cardinality(Steps(p) \cup {n + 1}) = Cardinality(Steps(p)) + 1
    BY <2>2, <2>4, FS_AddElement
  <2>6. IsFiniteSet(Steps(px)) /\ Steps(px) \subseteq 1 .. Len(px)
    <3>1. Steps(p) \cup {n + 1} \subseteq 1 .. (n + 1) /\ Steps(p) \subseteq 1 .. (n + 1)
      BY <2>1, <2>2
    <3> QED
      BY <2>1, <2>2, <2>3, <2>5, <3>1
  <2>7. x \in Item
    BY DEF Item
  <2>8. ASSUME W(px).ok
        PROVE  Len(W(px).owed) = Len(w.owed) + Cardinality(Steps(px))
    <3>1. v.ok /\ Fits(v.objs, x)
      BY <2>1, <2>7, <2>8, PlayType
    <3>2. Len(v.owed) = Len(w.owed) + Cardinality(Steps(p)) /\ Len(w.owed) \in Nat
      BY <2>2, <3>1, LenProperties DEF World
    <3>3. W(px).owed = v.owed \o Owes(v.objs, x)
      <4>1. Play(v, x).owed = v.owed \o Owes(v.objs, x)
        BY <3>1, PlayWellOwed
      <4> QED
        BY <2>1, <4>1
    <3>4. CASE x.type = "step"
      <4> DEFINE mo == Moment(v.objs)
      <4>1. Owes(v.objs, x) = <<mo>>
        BY <3>4 DEF Owes
      <4>2. v.owed \in Seq(Owed) /\ mo \in Owed
        BY <2>1 DEF World, Moment, Owed
      <4> HIDE DEF mo
      <4>3. Len(v.owed \o <<mo>>) = Len(v.owed) + 1
        BY <4>2, AppendIsConcat, AppendProperties
      <4>4. Cardinality(Steps(px)) = Cardinality(Steps(p)) + 1
        BY <2>3, <2>5, <3>4
      <4> QED
        BY <2>4, <3>2, <3>3, <4>1, <4>3, <4>4
    <3>5. CASE x.type # "step"
      <4>1. W(px).owed = v.owed
        BY <2>1, <3>5, PlayQuiet
      <4> QED
        BY <2>3, <3>2, <3>5, <4>1
    <3> QED
      BY <3>4, <3>5
  <2>9. px \in T
    BY <2>1, <2>6, <2>8 DEF T
  <2> QED
    BY <2>9 DEF px
<1>3. q \in T
  <2> HIDE DEF T
  <2> QED
    BY <1>1, <1>2, SequenceInduction
<1> QED
  BY <1>3

\* The last of them is what is there then.
LEMMA LastMoment ==
  ASSUME NEW w \in World, NEW q \in Seq(Cmd), q # <<>>, q[Len(q)].type = "step",
         Playing!Fold(w, q).ok
  PROVE  LET v == Playing!Fold(w, q)
         IN Len(v.owed) \in Nat \ {0} /\ v.owed[Len(v.owed)] = Moment(v.objs)
<1> DEFINE v == Playing!Fold(w, q)
           n == Len(q)
           p == SubSeq(q, 1, n - 1)
           x == q[n]
           u == Playing!Fold(w, p)
<1>1. n \in Nat \ {0} /\ \A i \in 1 .. n : q[i] \in Cmd
  BY EmptySeq, LenProperties, ElementOfSeq
<1>2. p \in Seq(Cmd) /\ x \in Cmd /\ x.type = "step"
  <2>1. \A i \in 1 .. (n - 1) : q[i] \in Cmd
    BY <1>1
  <2>2. p \in Seq(Cmd)
    BY <1>1, <2>1, SubSeqProperties
  <2> QED
    BY <1>1, <2>2
<1>3. q = Append(p, x)
  <2>1. SubSeq(q, 1, n) = q
    BY SubSeqFull
  <2>2. SubSeq(q, 1, n) = SubSeq(q, 1, n - 1) \o <<q[n]>>
    <3>1. 1 \in 1 .. Len(q) /\ n \in 1 .. Len(q)
      BY <1>1
    <3> QED
      BY <3>1, SubSeqRecursiveSecond
  <2>3. Append(p, x) = p \o <<x>>
    BY <1>2, AppendIsConcat
  <2> QED
    BY <2>1, <2>2, <2>3
<1> HIDE DEF p, x, n
<1>4. v = Play(u, x) /\ u \in World /\ x \in Item
  <2>1. Playing!Fold(w, Append(p, x)) = Play(u, x)
    BY <1>2, Playing!FoldAppend
  <2>2. u \in World /\ x \in Item
    BY <1>2, CmdIsItem, PlayedType DEF Item
  <2> QED
    BY <1>3, <2>1, <2>2
<1> HIDE DEF u
<1>5. u.ok /\ Fits(u.objs, x) /\ v \in World
  BY <1>4, PlayType
<1> HIDE DEF v
<1>6. v = [ok |-> TRUE, objs |-> Effect(u.objs, x), owed |-> u.owed \o Owes(u.objs, x)]
  BY <1>4, <1>5, PlayWell
<1>7. Effect(u.objs, x) = u.objs /\ Owes(u.objs, x) = <<Moment(u.objs)>>
  BY <1>2 DEF Effect, Owes
<1> DEFINE mo == Moment(u.objs)
<1>8. u.owed \in Seq(Owed) /\ mo \in Owed
  BY <1>4 DEF World, Moment, Owed
<1>9. v.objs = u.objs /\ v.owed = u.owed \o <<mo>>
  BY <1>6, <1>7
<1> HIDE DEF mo
<1>10. v.owed = Append(u.owed, mo)
  BY <1>8, <1>9, AppendIsConcat
<1>11. Len(v.owed) = Len(u.owed) + 1 /\ v.owed[Len(u.owed) + 1] = mo /\ Len(u.owed) \in Nat
  BY <1>8, <1>10, AppendProperties, LenProperties
<1> QED
  BY <1>9, <1>11 DEF mo, v

\* Commands up to a step, and those after it.
LEMMA CutUp ==
  ASSUME NEW q \in Seq(Cmd), NEW last \in Steps(q)
  PROVE  LET front == SubSeq(q, 1, last)
             back == SubSeq(q, last + 1, Len(q))
         IN /\ front \in Seq(Cmd) /\ back \in Seq(Cmd) /\ front \o back = q
            /\ front # <<>> /\ front[Len(front)].type = "step"
            /\ back # <<>> => back[Len(back)] = q[Len(q)]
            /\ Steps(front) = {i \in Steps(q) : i <= last}
<1> DEFINE n == Len(q)
           front == SubSeq(q, 1, last)
           back == SubSeq(q, last + 1, n)
<1>1. /\ n \in Nat /\ last \in 1 .. n /\ DOMAIN q = 1 .. n /\ q[last].type = "step"
      /\ \A i \in 1 .. n : q[i] \in Cmd
  BY LenProperties, ElementOfSeq DEF Steps
<1>2. /\ front \in Seq(Cmd) /\ Len(front) = last
      /\ \A i \in 1 .. last : front[i] = q[i]
  <2>1. \A i \in 1 .. last : q[i] \in Cmd
    BY <1>1
  <2>2. (last - 1) + 1 = last /\ 1 <= last /\ \A i \in 1 .. last : (1 + i) - 1 = i
    BY <1>1
  <2> QED
    BY <1>1, <2>1, <2>2, SubSeqProperties
<1>3. /\ back \in Seq(Cmd)
      /\ Len(back) = n - last
      /\ \A i \in 1 .. (n - last) : back[i] = q[last + i]
  <2>1. \A i \in (last + 1) .. n : q[i] \in Cmd
    BY <1>1
  <2>2. /\ (n - (last + 1)) + 1 = n - last
        /\ \A i \in 1 .. (n - last) : ((last + 1) + i) - 1 = last + i
        /\ last + 1 <= n \/ n - last = 0
        /\ last + 1 \in Int /\ n \in Int
    <3>1. n \in Nat /\ last \in Nat /\ 1 <= last /\ last <= n
      BY <1>1
    <3> HIDE DEF n
    <3>2. (n - (last + 1)) + 1 = n - last
      BY <3>1
    <3>3. \A i \in 1 .. (n - last) : ((last + 1) + i) - 1 = last + i
      BY <3>1
    <3>4. last + 1 <= n \/ n - last = 0
      BY <3>1
    <3> QED
      BY <3>1, <3>2, <3>3, <3>4
  <2>3. /\ back \in Seq(Cmd)
        /\ Len(back) = IF last + 1 <= n THEN (n - (last + 1)) + 1 ELSE 0
        /\ \A i \in 1 .. (n - (last + 1)) + 1 : back[i] = q[((last + 1) + i) - 1]
    BY <2>1, <2>2, SubSeqProperties
  <2> HIDE DEF back
  <2> QED
    BY <1>1, <2>2, <2>3
<1>4. front \o back = q
  <2>1. 1 \in 1 .. Len(q) + 1 /\ last \in 1 - 1 .. Len(q) /\ n \in last .. Len(q)
    BY <1>1
  <2>2. front \o back = SubSeq(q, 1, n)
    BY <2>1, ConcatAdjacentSubSeq
  <2> QED
    BY <2>2, SubSeqFull
<1> HIDE DEF front, back, n
<1>5. front # <<>> /\ front[Len(front)].type = "step"
  BY <1>1, <1>2, EmptySeq
<1>6. ASSUME back # <<>> PROVE back[Len(back)] = q[n]
  <2>1. Len(back) # 0 /\ n - last \in Nat /\ last + (n - last) = n
    BY <1>1, <1>3, <1>6, EmptySeq
  <2>2. back[n - last] = q[last + (n - last)]
    BY <1>3, <2>1
  <2> QED
    BY <1>3, <2>1, <2>2
<1>7. Steps(front) = {i \in Steps(q) : i <= last}
  <2>1. DOMAIN front = 1 .. last
    BY <1>2, LenProperties
  <2>2. Steps(front) = {i \in 1 .. last : q[i].type = "step"}
    BY <1>2, <2>1 DEF Steps
  <2>3. Steps(q) = {i \in 1 .. n : q[i].type = "step"}
    BY <1>1 DEF Steps
  <2> QED
    BY <1>1, <2>2, <2>3
<1> QED
  BY <1>2, <1>3, <1>4, <1>5, <1>6, <1>7 DEF front, back, n

\* One of the moments that are owed, up to which nothing is cut.
ShowAt(p, i, objs) ==
  i \in DOMAIN p /\ p[i] = Moment(objs) /\ \A j \in 1 .. i : p[j] # Cut

LEMMA ShownFirst ==
  ASSUME NEW u \in Seq(Owed), NEW v \in Seq(Owed), NoCut(u), NEW objs,
         Len(u) \in Nat \ {0}, u[Len(u)] = Moment(objs)
  PROVE  /\ ShowAt(u \o v, Len(u), objs)
         /\ SubSeq(u \o v, Len(u) + 1, Len(u \o v)) = v
<1> DEFINE p == u \o v
<1>1. /\ p \in Seq(Owed) /\ Len(p) = Len(u) + Len(v) /\ Len(v) \in Nat
      /\ \A i \in 1 .. Len(u) + Len(v) : p[i] = IF i <= Len(u) THEN u[i] ELSE v[i - Len(u)]
  BY ConcatProperties, LenProperties
<1>2. DOMAIN p = 1 .. Len(p)
  BY <1>1, LenProperties
<1> HIDE DEF p
<1>3. \A i \in 1 .. Len(u) : i \in DOMAIN p /\ p[i] = u[i]
  BY <1>1, <1>2
<1>4. ShowAt(p, Len(u), objs)
  BY <1>3 DEF ShowAt, NoCut
<1> QED
  BY <1>4, RestOf DEF p

LEMMA NothingOwing ==
  ASSUME NEW w \in World, w.ok
  PROVE  w = Owing(Well(w.objs, <<>>), w.owed)
<1>1. w.owed \in Seq(Owed)
  BY DEF World
<1>2. w.owed \o <<>> = w.owed
  BY <1>1, ConcatEmptySeq
<1>3. w = Well(w.objs, w.owed)
  BY WellWorld
<1> QED
  BY <1>2, <1>3 DEF Owing, Well

LEMMA Updated ==
  ASSUME NEW s, Good(s), NEW last \in Steps(s.cmds), Outcome(s, <<>>).ok
  PROVE  LET t == Update(s, last)
             shows == Cardinality({i \in Steps(s.cmds) : i <= last})
         IN /\ Good(t)
            /\ \E u \in Seq(Owed) :
                 /\ Outcome(s, <<>>) = Owing(Outcome(t, <<>>), u)
                 /\ NoCut(u) /\ Len(u) = shows
                 /\ Len(u) \in Nat \ {0} /\ u[Len(u)] = Moment(t.objs)
<1> DEFINE q == s.cmds
           front == SubSeq(q, 1, last)
           back == SubSeq(q, last + 1, Len(q))
           shows == Cardinality({i \in Steps(q) : i <= last})
           none == <<>>
           w == Begin(s, none)
           v == Playing!Fold(w, front)
           ran == Running!Fold(s, front)
           t == [ran EXCEPT !.cmds = back]
           left == back \o s.pending
<1>1. /\ s \in Session /\ q \in Seq(Cmd) /\ s.pending \in Seq(Cmd) /\ none \in Seq(Owed)
      /\ NoSteps(s.pending) /\ s.buffered = Time(q) /\ s.buffered \in Nat
      /\ q # <<>> => q[Len(q)].type = "step"
  BY EmptySeq DEF Good, Session
<1>2. /\ front \in Seq(Cmd) /\ back \in Seq(Cmd) /\ front \o back = q
      /\ front # <<>> /\ front[Len(front)].type = "step"
      /\ back # <<>> => back[Len(back)] = q[Len(q)]
      /\ Steps(front) = {i \in Steps(q) : i <= last}
  <2> HIDE DEF q
  <2> QED
    BY <1>1, CutUp DEF q
<1>3. Update(s, last) = t
  BY RanAll DEF Update
<1>4. w \in World /\ (w.ok <=> ~s.ended /\ ~s.mixed) /\ w.owed = none /\ w.objs = s.objs
  BY <1>1, BeginType DEF Begin
<1> HIDE DEF q, front, back, none, w, ran
<1>5. Outcome(s, none) = Playing!Fold(v, left) /\ left \in Seq(Cmd)
  <2>1. left \in Seq(Cmd)
    BY <1>1, <1>2, ConcatProperties
  <2>2. q \o s.pending = front \o left
    <3>1. \A a, b, d \in Seq(Cmd) : (a \o b) \o d = a \o (b \o d)
      BY Associates
    <3> QED
      BY <1>1, <1>2, <3>1
  <2>3. Outcome(s, none) = Playing!Fold(w, front \o left)
    BY <2>2 DEF Outcome, w, q
  <2>4. front \in Seq(Item) /\ left \in Seq(Item)
    BY <1>2, <2>1, CmdIsItem
  <2> HIDE DEF left
  <2> QED
    BY <2>1, <2>3, <2>4, PlayedConcat
<1> HIDE DEF left
<1>6. v \in World /\ v.ok /\ w.ok
  <2>1. front \in Seq(Item) /\ left \in Seq(Item)
    BY <1>2, <1>5, CmdIsItem
  <2>2. v \in World /\ (v.ok => w.ok)
    BY <1>4, <2>1, PlayedType
  <2>3. Playing!Fold(v, left).ok
    BY <1>5 DEF none
  <2> HIDE DEF v
  <2> QED
    BY <2>1, <2>2, <2>3, PlayedType
<1>7. ~s.ended /\ ~s.mixed
  BY <1>4, <1>6
<1>8. Time(q) = Time(front) + Time(back) /\ Time(front) \in Nat /\ Time(back) \in Nat
  <2>1. Time(front \o back) = Timing!Fold(Time(front), back)
    BY <1>2, Timing!FoldConcat DEF Time
  <2>2. Time(front) \in Nat /\ Time(back) \in Nat
    BY <1>2, TimedType DEF Time
  <2>3. Timing!Fold(Time(front), back) = Time(front) + Time(back)
    BY <1>2, <2>2, TimedMore
  <2> QED
    BY <1>2, <2>1, <2>2, <2>3
<1>9. ran = Later(s, v.objs, Time(back))
  <2>1. Time(front) <= s.buffered /\ s.buffered - Time(front) = Time(back)
    BY <1>1, <1>8
  <2>2. ran = Later(s, v.objs, s.buffered - Time(front))
    <3>1. Playing!Fold(Begin(s, none), front).ok
      BY <1>6 DEF w
    <3> QED
      BY <1>1, <1>2, <1>7, <2>1, <3>1, Collected DEF ran, w
  <2> QED
    BY <2>1, <2>2
<1> HIDE DEF v
<1>10. /\ t \in Session /\ t.cmds = back /\ t.pending = s.pending /\ t.objs = v.objs
       /\ t.buffered = Time(back) /\ t.ended = s.ended /\ t.mixed = s.mixed
  <2>1. v.objs \in Objs
    BY <1>6 DEF World
  <2>2. /\ ran \in Session /\ ran.pending = s.pending /\ ran.objs = v.objs
        /\ ran.buffered = Time(back) /\ ran.ended = s.ended /\ ran.mixed = s.mixed
    BY <1>1, <1>8, <1>9, <2>1 DEF Later, Session
  <2> QED
    BY <1>2, <2>2 DEF Session
<1> HIDE DEF t
<1>11. Good(t)
  BY <1>1, <1>2, <1>10 DEF Good
<1>12. v = Owing(Well(v.objs, none), v.owed) /\ Well(v.objs, none) \in World
       /\ v.owed \in Seq(Owed)
  <2>1. v.objs \in Objs /\ v.owed \in Seq(Owed)
    BY <1>6 DEF World
  <2>2. Well(v.objs, none) \in World
    BY <1>1, <2>1, WellType
  <2> QED
    BY <1>6, <2>1, <2>2, NothingOwing DEF none
<1>13. Outcome(t, none) = Playing!Fold(Well(v.objs, none), left)
  <2>1. Begin(t, none) = Well(v.objs, none)
    <3>1. s.ended = FALSE /\ s.mixed = FALSE
      BY <1>1, <1>7 DEF Session
    <3> QED
      BY <1>10, <3>1 DEF Begin, Well
  <2>2. Outcome(t, none) = Playing!Fold(Begin(t, none), left)
    BY <1>10 DEF Outcome, left
  <2> QED
    BY <2>1, <2>2
<1>14. Outcome(s, none) = Owing(Outcome(t, none), v.owed)
  <2> DEFINE b == Well(v.objs, none)
             o == v.owed
  <2>1. left \in Seq(Item) /\ b \in World /\ o \in Seq(Owed)
    BY <1>5, <1>12, CmdIsItem
  <2> HIDE DEF b, o
  <2>2. Playing!Fold(Owing(b, o), left) = Owing(Playing!Fold(b, left), o)
    BY <2>1, PlayedOwing
  <2> QED
    BY <1>5, <1>12, <1>13, <2>2 DEF b, o
<1>15. NoCut(v.owed)
  <2>1. NoCut(w.owed)
    BY <1>4 DEF none, NoCut
  <2> QED
    BY <1>2, <1>4, <2>1, PlayedNoCut DEF v
<1>16. Len(v.owed) = shows
  <2>1. Len(v.owed) = Len(w.owed) + Cardinality(Steps(front))
    BY <1>2, <1>4, <1>6, Paid DEF v
  <2>2. Len(w.owed) = 0
    BY <1>4 DEF none
  <2>3. Len(v.owed) \in Nat
    BY <1>12, LenProperties
  <2>4. Cardinality(Steps(front)) = shows /\ Steps(front) \subseteq 1 .. Len(front)
    BY <1>2, LenProperties DEF Steps
  <2>5. Cardinality(Steps(front)) \in Nat
    <3>1. IsFiniteSet(1 .. Len(front))
      BY <1>2, LenProperties, FS_Interval
    <3> QED
      BY <2>4, <3>1, FS_Subset, FS_CardinalityType
  <2> QED
    BY <2>1, <2>2, <2>3, <2>4, <2>5
<1>17. Len(v.owed) \in Nat \ {0} /\ v.owed[Len(v.owed)] = Moment(v.objs)
  BY <1>2, <1>4, <1>6, LastMoment DEF v
<1>18. \E u \in Seq(Owed) :
         /\ Outcome(s, none) = Owing(Outcome(t, none), u)
         /\ NoCut(u) /\ Len(u) = shows
         /\ Len(u) \in Nat \ {0} /\ u[Len(u)] = Moment(t.objs)
  BY <1>10, <1>12, <1>14, <1>15, <1>16, <1>17
<1> HIDE DEF shows
<1> QED
  BY <1>3, <1>11, <1>18 DEF none, shows, q

LEMMA SettledUpdate ==
  ASSUME NEW h, NEW c, NEW s, NEW q, NEW members, NEW p, NEW last,
         Settled(c, s, q, members, h, p), h.out \in Seq(Cmd), h.objs \in Objs,
         last \in Stops(s.cmds)
  PROVE  LET t == Update(s, last)
             shows == Cardinality({i \in Steps(s.cmds) : i <= last})
         IN /\ Settled(c, t, q, members, h, SubSeq(p, shows + 1, Len(p)))
            /\ ShowAt(p, shows, t.objs)
            /\ c \in members
<1> DEFINE w == Outcome(s, <<>>)
           out == h.out
           t == Update(s, last)
           shows == Cardinality({i \in Steps(s.cmds) : i <= last})
           x == Outcome(t, <<>>)
<1>1. Good(s) /\ q \in Seq(Msg) /\ p \in Seq(Owed) /\ s \in Session /\ s.cmds \in Seq(Cmd)
  BY DEF Settled, Good, Session
<1>2. s.cmds # <<>> /\ last \in Steps(s.cmds)
  <2>1. s.cmds # <<>>
    BY DEF Stops, Steps
  <2>2. s.cmds[Len(s.cmds)].type = "step" /\ Len(s.cmds) \in DOMAIN s.cmds
    <3>1. Len(s.cmds) \in Nat \ {0} /\ DOMAIN s.cmds = 1 .. Len(s.cmds)
      BY <1>1, <2>1, EmptySeq, LenProperties
    <3> QED
      BY <1>1, <2>1, <3>1 DEF Good
  <2> QED
    BY <2>1, <2>2 DEF Stops, Steps
<1>3. c \in members
  <2>1. NewClientSession.cmds = <<>>
    BY NewParts
  <2> QED
    BY <1>2, <2>1 DEF Settled
<1>4. FateOf(w, q, out) = Well(h.objs, p)
  BY <1>3 DEF Settled
<1>5. w \in World /\ w.ok
  <2>1. w \in World /\ Hearing!Fold(w, q) \in World /\ out \in Seq(Item)
    BY <1>1, OutcomeWorld, CmdIsItem
  <2>2. FateOf(w, q, out).ok
    BY <1>4 DEF Well
  <2> HIDE DEF w, out
  <2>3. Hearing!Fold(w, q).ok
    BY <2>1, <2>2, PlayedType DEF FateOf
  <2> QED
    BY <1>1, <2>1, <2>3, HeardType
<1>6. Good(t)
  BY <1>1, <1>2, <1>5, Updated
<1>7. PICK u \in Seq(Owed) :
        /\ w = Owing(x, u)
        /\ NoCut(u) /\ Len(u) = shows
        /\ Len(u) \in Nat \ {0} /\ u[Len(u)] = Moment(t.objs)
  BY <1>1, <1>2, <1>5, Updated
<1>8. x \in World
  BY <1>1, <1>6, OutcomeWorld
<1> HIDE DEF w, out, t, shows, x
<1> DEFINE f == FateOf(x, q, out)
<1>9. out \in Seq(Cmd)
  BY DEF out
<1>10. FateOf(Owing(x, u), q, out) = Owing(f, u) /\ f \in World
  BY <1>1, <1>8, <1>9, FateOwing
<1> HIDE DEF f
<1>11. Owing(f, u) = Well(h.objs, p)
  BY <1>4, <1>7, <1>10
<1>12. f.ok = TRUE /\ f.objs = h.objs /\ u \o f.owed = p
  BY <1>11 DEF Owing, Well
<1>13. f = Well(h.objs, f.owed) /\ f.owed \in Seq(Owed)
  BY <1>10, <1>12, WellWorld DEF World
<1>14. ShowAt(u \o f.owed, Len(u), t.objs)
       /\ SubSeq(u \o f.owed, Len(u) + 1, Len(u \o f.owed)) = f.owed
  BY <1>7, <1>13, ShownFirst
<1>15. ShowAt(p, shows, t.objs) /\ SubSeq(p, shows + 1, Len(p)) = f.owed
  BY <1>7, <1>12, <1>14
<1>16. Settled(c, t, q, members, h, f.owed)
  BY <1>1, <1>3, <1>6, <1>13 DEF Settled, f, x, out
<1> QED
  BY <1>3, <1>15, <1>16 DEF t, shows

LEMMA StepUpdate ==
  ASSUME IInv, NEW c \in Client, UpdateSession(c)
  PROVE  IInv'
<1>1. /\ HostOK(host) /\ made \in Nat /\ Made(host, made)
      /\ \A e \in Client : Settled(e, session[e], channel[e], clients, host, promised[e])
  BY InvNow
<1>2. host.out \in Seq(Cmd) /\ host.objs \in Objs
  BY <1>1 DEF HostOK
<1>3. PICK last \in Stops(session[c].cmds) :
        LET shows == Cardinality({i \in Steps(session[c].cmds) : i <= last})
        IN /\ session' = [session EXCEPT ![c] = Update(@, last)]
           /\ promised' = [promised EXCEPT ![c] = SubSeq(@, shows + 1, Len(@))]
  BY DEF UpdateSession
<1>4. UNCHANGED <<host, made, clients, channel>>
  BY DEF UpdateSession
<1> DEFINE shows == Cardinality({i \in Steps(session[c].cmds) : i <= last})
<1>5. /\ session' = [session EXCEPT ![c] = Update(@, last)]
      /\ promised' = [promised EXCEPT ![c] = SubSeq(@, shows + 1, Len(@))]
  BY <1>3
<1>6. Settled(c, Update(session[c], last), channel[c], clients, host,
              SubSeq(promised[c], shows + 1, Len(promised[c])))
  BY <1>1, <1>2, SettledUpdate
<1> HIDE DEF shows
<1>7. ASSUME NEW e \in Client
      PROVE  Settled(e, session'[e], channel'[e], clients', host', promised'[e])
  <2>1. CASE e = c
    <3>1. session'[c] = Update(session[c], last)
          /\ promised'[c] = SubSeq(promised[c], shows + 1, Len(promised[c]))
      BY <1>5, Functions
    <3> QED
      BY <1>4, <1>6, <2>1, <3>1
  <2>2. CASE e # c
    <3>1. promised'[e] = promised[e] /\ session'[e] = session[e]
      BY <1>5, <2>2, Functions
    <3> QED
      BY <1>1, <1>4, <3>1
  <2> QED
    BY <2>1, <2>2
<1>8. /\ clients' \subseteq Client
      /\ channel' = [e \in Client |-> channel'[e]]
      /\ session' = [e \in Client |-> session'[e]]
      /\ promised' = [e \in Client |-> promised'[e]]
  BY <1>4, <1>5, Functions
<1> QED
  BY <1>1, <1>4, <1>7, <1>8, InvNext

-----------------------------------------------------------------------------
(* The invariant, and what follows from it.                                *)

LEMMA IInvInit == Init => IInv
<1> SUFFICES ASSUME Init PROVE IInv
  OBVIOUS
<1> DEFINE h == AddObject(NewHost, "scene", Object(0 + 1, None))
<1>1. /\ host = h /\ made = 1 /\ clients = {}
      /\ channel = [c \in Client |-> <<>>]
      /\ session = [c \in Client |-> NewClientSession]
      /\ promised = [c \in Client |-> <<>>]
  <2>1. 0 + 1 = 1
    OBVIOUS
  <2> QED
    BY <2>1 DEF Init
<1>2. HostOK(NewHost) /\ NewHost.objs = NoObjects /\ Made(NewHost, 0)
  BY NewHostOK, NoObjectsType DEF Made
<1>3. HostOK(h) /\ Made(h, 0 + 1)
  <2>1. "scene" \in Kinds /\ None \in Ref /\ 0 \in Nat
    BY DEF Kinds, Ref
  <2> QED
    BY <1>2, <2>1, NewHostRoom, MadeOne
<1> HIDE DEF h
<1>4. host.objs \in Objs
  BY <1>1, <1>3 DEF HostOK
<1>5. ASSUME NEW c \in Client
      PROVE  /\ Fate(c).ok /\ Fate(c).owed = promised[c]
             /\ session[c] \in Session /\ Good(session[c])
             /\ channel[c] = <<>> /\ session[c] = NewClientSession /\ promised[c] = <<>>
             /\ channel[c] \in Seq(Msg) /\ promised[c] \in Seq(Owed)
  <2>1. channel[c] = <<>> /\ session[c] = NewClientSession /\ promised[c] = <<>>
        /\ c \notin clients
    BY <1>1
  <2>2. Settled(c, session[c], channel[c], clients, host, promised[c])
    BY <2>1, SettledOut
  <2>3. LET f == Reached(c, session[c], channel[c], clients, host)
        IN /\ f.ok /\ f.owed = promised[c] /\ (c \in clients => f.objs = host.objs)
           /\ session[c] \in Session /\ Good(session[c])
           /\ channel[c] \in Seq(Msg) /\ promised[c] \in Seq(Owed)
           /\ c \notin clients => channel[c] = <<>> /\ session[c] = NewClientSession
                                  /\ promised[c] = <<>>
    BY <1>4, <2>2, SettledParts
  <2> QED
    BY <2>1, <2>3 DEF Fate, Reached
<1>6. Typed
  <2>1. channel \in [Client -> Seq(Msg)] /\ session \in [Client -> Session]
        /\ promised \in [Client -> Seq(Owed)]
    BY <1>1, <1>5
  <2> QED
    BY <1>1, <1>3, <2>1 DEF Typed, Made
<1>7. ASSUME NEW c \in Client PROVE Waits(c) /\ Arrives(c)
  <2>1. c \notin clients
    BY <1>1
  <2> QED
    BY <1>5, <2>1 DEF Waits, Arrives
<1> QED
  BY <1>1, <1>3, <1>6, <1>7 DEF IInv

\* Every action keeps the invariant.
LEMMA IInvNext == IInv /\ [Next]_vars => IInv'
<1> SUFFICES ASSUME IInv, [Next]_vars PROVE IInv'
  OBVIOUS
<1>1. ASSUME NewScene \/ NewMedia \/ NewNode PROVE IInv'
  BY <1>1, StepNew
<1>2. ASSUME \/ \E scene \in Objects("scene") : EndActivity(scene)
             \/ \E slot \in Objects("media") : DropMedia(slot)
             \/ \E node \in Objects("node") :
                  \/ \E ref \in {None} \cup Objects("media") \cup Objects("node") :
                       SetNodeAttr(node, ref)
                  \/ DeleteNode(node)
      PROVE  IInv'
  BY <1>2, StepHost
<1>3. ASSUME NEW gap \in Gaps, NEW sends \in {"nothing", "commands", "corrections"},
             SetTime(gap, sends)
      PROVE  IInv'
  BY <1>3, StepSetTime
<1>4. ASSUME NEW c \in Client, OnClientConnected(c) PROVE IInv'
  BY <1>4, StepConnected
<1>5. ASSUME NEW c \in Client, OnClientDisconnected(c) PROVE IInv'
  BY <1>5, StepDisconnected
<1>6. ASSUME NEW c \in Client, Receive(c) PROVE IInv'
  BY <1>6, StepReceive
<1>7. ASSUME NEW c \in Client, UpdateSession(c) PROVE IInv'
  BY <1>7, StepUpdate
<1>8. ASSUME LaunchHostSession PROVE IInv'
  BY <1>8, StepLaunch
<1>9. ASSUME UNCHANGED vars PROVE IInv'
  <2>1. UNCHANGED <<host, made, clients, channel, session, promised>>
    BY <1>9 DEF vars
  <2>2. HostOK(host) /\ made \in Nat /\ Made(host, made)
        /\ \A e \in Client : Settled(e, session[e], channel[e], clients, host, promised[e])
    BY InvNow
  <2> QED
    BY <2>1, <2>2, Functions, InvNext
<1> QED
  BY <1>1, <1>2, <1>3, <1>4, <1>5, <1>6, <1>7, <1>8, <1>9 DEF Next

LEMMA Invariant == Spec => []IInv
  BY IInvInit, IInvNext, PTL DEF Spec

-----------------------------------------------------------------------------
(* Refinement: what clients are owed and show is a broadcast of moments.   *)

Shown == [c \in Client |-> session[c].objs]

LEMMA NotOwed ==
  ASSUME IInv, NEW c \in Client, c \notin clients
  PROVE  promised[c] = <<>> /\ session[c].objs = NoObjects
<1>1. promised[c] = <<>> /\ session[c] = NewClientSession
  BY DEF IInv, Waits
<1> QED
  BY <1>1, NewParts

LEMMA CastChange ==
  ASSUME UNCHANGED <<clients, session, promised>>
  PROVE  Broadcasting!Change
  BY DEF Broadcasting!Change

LEMMA CastWork ==
  ASSUME \/ NewScene \/ NewMedia \/ NewNode
         \/ \E scene \in Objects("scene") : EndActivity(scene)
         \/ \E slot \in Objects("media") : DropMedia(slot)
         \/ \E node \in Objects("node") :
              \/ \E ref \in {None} \cup Objects("media") \cup Objects("node") :
                   SetNodeAttr(node, ref)
              \/ DeleteNode(node)
  PROVE  Broadcasting!Change
<1>1. UNCHANGED <<clients, session, promised>>
  <2>1. CASE NewScene \/ NewMedia \/ NewNode
    BY <2>1 DEF NewScene, NewMedia, NewNode, Make, Works
  <2>2. CASE \E scene \in Objects("scene") : EndActivity(scene)
    BY <2>2 DEF EndActivity, Works
  <2>3. CASE \E slot \in Objects("media") : DropMedia(slot)
    BY <2>3 DEF DropMedia, Works
  <2>4. ASSUME NEW node, NEW ref, SetNodeAttr(node, ref)
        PROVE  UNCHANGED <<clients, session, promised>>
    BY <2>4 DEF SetNodeAttr, Works
  <2>5. ASSUME NEW node, DeleteNode(node)
        PROVE  UNCHANGED <<clients, session, promised>>
    BY <2>5 DEF DeleteNode, Works
  <2> QED
    BY <2>1, <2>2, <2>3, <2>4, <2>5
<1> QED
  BY <1>1, CastChange

LEMMA CastTick ==
  ASSUME IInv, NEW gap \in Gaps, NEW sends \in {"nothing", "commands", "corrections"},
         SetTime(gap, sends)
  PROVE  Broadcasting!Tick
<1> DEFINE stepped == Write(host, StepCmd(Step(gap)))
<1>1. /\ \/ host' = stepped
         \/ host' = [stepped EXCEPT !.out = <<>>]
      /\ promised' = [c \in Client |->
                        IF c \in clients
                          THEN Append(promised[c], Moment(host.objs)) ELSE <<>>]
      /\ UNCHANGED <<clients, session>>
  BY DEF SetTime
<1>2. Shape(host)
  BY DEF IInv, HostOK
<1>3. Shape(stepped) /\ stepped.objs = host.objs
  BY <1>2, Wrote
<1> HIDE DEF stepped
<1>4. [stepped EXCEPT !.out = <<>>] =
        [objs |-> stepped.objs, owner |-> stepped.owner, size |-> stepped.size,
         free |-> stepped.free, out |-> <<>>]
  BY <1>3, ShapeParts
<1>5. host'.objs = host.objs
  BY <1>1, <1>3, <1>4
<1>6. promised' = [c \in Client |->
                     IF c \in clients
                       THEN Append(promised[c], Moment(host.objs)) ELSE promised[c]]
  BY <1>1, NotOwed
<1>7. Moment(host.objs) = Broadcasting!Moment(host.objs)
  BY DEF Moment, Broadcasting!Moment
<1> QED
  BY <1>1, <1>5, <1>6, <1>7 DEF Broadcasting!Tick

LEMMA CastJoin ==
  ASSUME IInv, NEW c \in Client, OnClientConnected(c)
  PROVE  Broadcasting!Join(c)
<1>1. /\ c \notin clients /\ clients' = clients \cup {c}
      /\ host' = [host EXCEPT !.out = <<>>]
      /\ promised' = [promised EXCEPT ![c] = <<Cut>>]
      /\ UNCHANGED session
  BY DEF OnClientConnected
<1>2. Shape(host)
  BY DEF IInv, HostOK
<1>3. host' = [objs |-> host.objs, owner |-> host.owner, size |-> host.size,
               free |-> host.free, out |-> <<>>]
  BY <1>1, <1>2, ShapeParts
<1>4. Cut = Broadcasting!Cut
  BY DEF Cut, Broadcasting!Cut
<1> QED
  BY <1>1, <1>3, <1>4 DEF Broadcasting!Join

LEMMA CastLeave ==
  ASSUME IInv, NEW c \in Client, OnClientDisconnected(c)
  PROVE  Broadcasting!Leave(c)
<1>1. /\ c \in clients /\ clients' = clients \ {c}
      /\ session' = [session EXCEPT ![c] = NewClientSession]
      /\ promised' = [promised EXCEPT ![c] = <<>>]
      /\ UNCHANGED host
  BY DEF OnClientDisconnected
<1>2. Shown' = [Shown EXCEPT ![c] = NoObjects]
  <2>1. session' = [e \in Client |-> IF e = c THEN NewClientSession ELSE session[e]]
    BY <1>1, Functions
  <2> QED
    BY <2>1, NewParts DEF Shown
<1> QED
  BY <1>1, <1>2 DEF Broadcasting!Leave, Shown

LEMMA CastReceive ==
  ASSUME IInv, NEW c \in Client, Receive(c)
  PROVE  Broadcasting!Restart(c) \/ Broadcasting!Change
<1> DEFINE m == Head(channel[c])
<1>1. /\ channel[c] # <<>>
      /\ session' = [session EXCEPT ![c] = HandleSessionMessage(@, m)]
      /\ promised' = IF m = ResetMsg
                       THEN [promised EXCEPT ![c] = AfterCut(@)] ELSE promised
      /\ UNCHANGED <<host, clients>>
  BY DEF Receive
<1>2. /\ Settled(c, session[c], channel[c], clients, host, promised[c])
      /\ host.out \in Seq(Cmd) /\ host.objs \in Objs
  BY InvNow DEF HostOK
<1>3. c \in clients
  BY <1>1, <1>2 DEF Settled
<1>4. session' = [e \in Client |->
                    IF e = c THEN HandleSessionMessage(session[c], m) ELSE session[e]]
  BY <1>1, Functions
<1>5. CASE m = ResetMsg
  <2>1. /\ Reset(session[c]).objs = NoObjects
        /\ \E i : CutAt(promised[c], i)
    BY <1>1, <1>2, <1>3, <1>5, SettledCut
  <2>2. HandleSessionMessage(session[c], m) = Reset(session[c])
    <3>1. m.type = "reset"
      BY <1>5 DEF ResetMsg
    <3> QED
      BY <3>1 DEF HandleSessionMessage
  <2>3. Shown' = [Shown EXCEPT ![c] = NoObjects]
    BY <1>4, <2>1, <2>2 DEF Shown
  <2>4. PICK i : CutAt(promised[c], i)
    BY <2>1
  <2>5. AfterCut(promised[c]) = SubSeq(promised[c], i + 1, Len(promised[c]))
    BY <2>4, Functions, FirstCut
  <2>6. promised' = [promised EXCEPT ![c] = SubSeq(@, i + 1, Len(@))]
    BY <1>1, <1>5, <2>5
  <2>7. /\ i \in DOMAIN promised[c] /\ promised[c][i] = Broadcasting!Cut
        /\ \A j \in 1 .. (i - 1) : promised[c][j] # Broadcasting!Cut
    BY <2>4 DEF CutAt, Cut, Broadcasting!Cut
  <2>8. UNCHANGED <<clients, host.objs>>
    BY <1>1
  <2>9. Broadcasting!Restart(c)
    BY <2>3, <2>6, <2>7, <2>8 DEF Broadcasting!Restart, Shown
  <2> QED
    BY <2>9
<1>6. CASE m # ResetMsg
  <2>1. HandleSessionMessage(session[c], m).objs = session[c].objs
    BY <1>1, <1>2, <1>3, <1>6, SettledHeard
  <2>2. Shown' = Shown
    BY <1>4, <2>1 DEF Shown
  <2>3. UNCHANGED <<clients, promised>>
    BY <1>1, <1>6
  <2>4. Broadcasting!Change
    BY <2>2, <2>3 DEF Broadcasting!Change, Shown
  <2> QED
    BY <2>4
<1> QED
  BY <1>5, <1>6

LEMMA CastShow ==
  ASSUME IInv, NEW c \in Client, UpdateSession(c)
  PROVE  Broadcasting!Show(c)
<1>1. PICK last \in Stops(session[c].cmds) :
        LET shows == Cardinality({i \in Steps(session[c].cmds) : i <= last})
        IN /\ session' = [session EXCEPT ![c] = Update(@, last)]
           /\ promised' = [promised EXCEPT ![c] = SubSeq(@, shows + 1, Len(@))]
  BY DEF UpdateSession
<1> DEFINE n == Cardinality({i \in Steps(session[c].cmds) : i <= last})
           t == Update(session[c], last)
<1>2. /\ session' = [e \in Client |-> IF e = c THEN t ELSE session[e]]
      /\ promised' = [promised EXCEPT ![c] = SubSeq(@, n + 1, Len(@))]
      /\ UNCHANGED <<host, clients>>
  <2>1. UNCHANGED <<host, clients>>
    BY DEF UpdateSession
  <2> QED
    BY <1>1, <2>1, Functions
<1>3. /\ Settled(c, session[c], channel[c], clients, host, promised[c])
      /\ host.out \in Seq(Cmd) /\ host.objs \in Objs
  BY InvNow DEF HostOK
<1>4. ShowAt(promised[c], n, t.objs)
  BY <1>3, SettledUpdate
<1> HIDE DEF n, t
<1>5. /\ n \in DOMAIN promised[c] /\ promised[c][n] = Moment(t.objs)
      /\ \A j \in 1 .. n : promised[c][j] # Broadcasting!Cut
  BY <1>4 DEF ShowAt, Cut, Broadcasting!Cut
<1>6. Moment(t.objs).moment = t.objs
  BY DEF Moment
<1>7. Shown' = [Shown EXCEPT ![c] = promised[c][n].moment]
  BY <1>2, <1>5, <1>6 DEF Shown
<1>8. UNCHANGED <<clients, host.objs>>
  BY <1>2
<1> QED
  BY <1>2, <1>5, <1>7, <1>8 DEF Broadcasting!Show, Shown

LEMMA CastSucceed ==
  ASSUME IInv, LaunchHostSession
  PROVE  Broadcasting!Succeed({})
<1>1. /\ promised' = [c \in Client |->
                         IF c \in clients THEN Append(promised[c], Cut) ELSE <<>>]
      /\ UNCHANGED <<clients, session>>
  BY DEF LaunchHostSession
<1>2. promised' = [c \in Client |->
                     IF c \in clients THEN Append(promised[c], Cut) ELSE promised[c]]
  BY <1>1, NotOwed
<1>3. Cut = Broadcasting!Cut
  BY DEF Cut, Broadcasting!Cut
<1>4. promised' = [c \in Client |->
                     CASE c \in {} -> <<>>
                       [] c \in clients \ {} -> Append(promised[c], Broadcasting!Cut)
                       [] OTHER -> promised[c]]
  BY <1>2, <1>3
<1>5. Shown' = [c \in Client |-> IF c \in {} THEN NoObjects ELSE Shown[c]]
  BY <1>1 DEF Shown
<1> QED
  BY <1>1, <1>4, <1>5 DEF Broadcasting!Succeed, Shown

LEMMA CastInit == Init => Broadcasting!Init
<1> SUFFICES ASSUME Init PROVE Broadcasting!Init
  OBVIOUS
<1>1. clients \in SUBSET Client /\ promised = [c \in Client |-> <<>>]
  BY DEF Init
<1>2. Shown = [c \in Client |-> NoObjects]
  BY NewParts DEF Init, Shown
<1> QED
  BY <1>1, <1>2 DEF Broadcasting!Init, Shown

LEMMA CastStep == IInv /\ [Next]_vars => [Broadcasting!Next]_(Broadcasting!vars)
<1> SUFFICES ASSUME IInv, [Next]_vars PROVE Broadcasting!Next
  OBVIOUS
<1>1. CASE UNCHANGED vars
  <2>1. Broadcasting!Change
    BY <1>1, CastChange DEF vars
  <2> QED
    BY <2>1 DEF Broadcasting!Next
<1>2. CASE \/ NewScene \/ NewMedia \/ NewNode
           \/ \E scene \in Objects("scene") : EndActivity(scene)
           \/ \E slot \in Objects("media") : DropMedia(slot)
           \/ \E node \in Objects("node") :
                \/ \E ref \in {None} \cup Objects("media") \cup Objects("node") :
                     SetNodeAttr(node, ref)
                \/ DeleteNode(node)
  <2>1. Broadcasting!Change
    BY <1>2, CastWork
  <2> QED
    BY <2>1 DEF Broadcasting!Next
<1>3. ASSUME NEW gap \in Gaps, NEW sends \in {"nothing", "commands", "corrections"},
             SetTime(gap, sends)
      PROVE  Broadcasting!Next
  BY <1>3, CastTick DEF Broadcasting!Next
<1>4. ASSUME NEW c \in Client, OnClientConnected(c) PROVE Broadcasting!Next
  BY <1>4, CastJoin DEF Broadcasting!Next
<1>5. ASSUME NEW c \in Client, OnClientDisconnected(c) PROVE Broadcasting!Next
  BY <1>5, CastLeave DEF Broadcasting!Next
<1>6. ASSUME NEW c \in Client, Receive(c) PROVE Broadcasting!Next
  BY <1>6, CastReceive DEF Broadcasting!Next
<1>7. ASSUME NEW c \in Client, UpdateSession(c) PROVE Broadcasting!Next
  BY <1>7, CastShow DEF Broadcasting!Next
<1>8. ASSUME LaunchHostSession PROVE Broadcasting!Next
  <2>1. Broadcasting!Succeed({}) /\ {} \in SUBSET clients
    BY <1>8, CastSucceed
  <2> QED
    BY <2>1 DEF Broadcasting!Next
<1> QED
  BY <1>1, <1>2, <1>3, <1>4, <1>5, <1>6, <1>7, <1>8 DEF Next

-----------------------------------------------------------------------------
(* What is promised.                                                       *)

\* Objects are in their slots, and each index of a list is in use or free
\* exactly once, in whatever order the host session made and removed things,
\* alone or with a scene or an owner that they went with.
THEOREM StreamTypes == Spec => []TypeOK
  BY Invariant, IInvTypeOK, PTL

\* The commands never end a client's session, whenever it joined and however
\* far it has run: no slot is other than the host thought, and no step has
\* more time than was counted.
THEOREM StreamFits == Spec => []NoClientErrors
<1>1. IInv => NoClientErrors
  BY IInvPromises
<1> QED
  BY <1>1, Invariant, PTL

\* A correction is run when the nodes that it is about are there, for it
\* overtakes no command and no command it.
THEOREM StreamCorrects == Spec => []CorrectionsFit
<1>1. IInv => CorrectionsFit
  BY IInvPromises
<1> QED
  BY <1>1, Invariant, PTL

\* What waits at a client, is on its way to it and is in out_message_ takes it
\* through just the moments that it is owed.
THEOREM StreamKeepsPromise == Spec => []PromiseKept
<1>1. IInv => PromiseKept
  BY IInvPromises
<1> QED
  BY <1>1, Invariant, PTL

\* Every client shows moments of its host, whole and in order, from after it
\* joined, and none of a host session that a reset has ended.
THEOREM StreamBroadcasts == Spec => ImplementsBroadcast
  BY Invariant, CastInit, CastStep, PTL
  DEF Spec, ImplementsBroadcast, Broadcasting!Spec

=============================================================================
