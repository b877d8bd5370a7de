-------------------------- MODULE HostTimersProofs --------------------------
(***************************************************************************)
(* What holds of base timers and of the timers of scenes for any number of *)
(* activities and timers, any step, speeds and lengths.                    *)
(*                                                                         *)
(* In this order: what each operation of TimerList does to a list, place   *)
(* by place; that it leaves a list that is fine by its clock fine (Fine);  *)
(* what each keeps of the invariants of base_timers_ (BaseInv) and of the  *)
(* timers of scenes (SimPunctual); one lemma for each action of            *)
(* HostTimers; the theorems.                                               *)
(***************************************************************************)
EXTENDS HostTimers, SequenceTheorems, FiniteSetTheorems, WellFoundedInduction, TLAPS

-----------------------------------------------------------------------------
(* The inductive invariant.                                                *)

\* Every timer that base_timers_ has, wherever it is.
BaseTimers == Waiting(base) \cup Out(base)

\* A timer is out while the thread is in its runnable.
WhoIsOut ==
  /\ at \in {"rest", "advance"} => base.client = NoTimer
  /\ at = "base" /\ base.client # NoTimer => base.client.what.type = "call"
  /\ at \in {"sim", "step"} => base.client # NoTimer /\ base.client.what.type = "step"
  /\ base.client # NoTimer => toRun.base > 0
  /\ \A c \in Scene : sim[c].client # NoTimer =>
       at = "sim" /\ c = Stepping /\ toRun.sim > 0
  /\ at # "rest" => baseTime <= target

\* A list by its clock, with the timers that have run at this time of the clock
\* and those that were deleted: ids are given in order; a timer that repeats
\* comes back later, and what has run and waits again is not due; what was
\* deleted waits nowhere, and is marked if it is out.
Fine(list, time, ran, gone) ==
  /\ ListOK(list)
  /\ time \in Nat
  /\ \A id \in ran \cup gone : id \in Nat /\ id < list.nextId
  /\ \A t \in Out(list) : t.last = time /\ t.id \in ran
  /\ \A t \in Waiting(list) \cup Out(list) :
       /\ t.repeat => t.length # 0
       /\ t.id \in gone => t.dead
  /\ \A t \in Range(list.active) : t.id \in ran => t.expire > time

AllFine ==
  /\ ranNow \in [base : SUBSET Nat, sim : [Scene -> SUBSET Nat]]
  /\ deleted \in [base : SUBSET Nat, sim : [Scene -> SUBSET Nat]]
  /\ sim \in [Scene -> ListType]
  /\ Fine(base, baseTime, ranNow.base, deleted.base)
  /\ \A c \in Scene : Fine(sim[c], sceneTime[c], ranNow.sim[c], deleted.sim[c])

\* The step timer of the session goes with its scene's clock.
SessionSteps ==
  /\ \E t \in BaseTimers : t.what = StepOf(Session)
  /\ \A t \in BaseTimers : t.what = StepOf(Session) =>
       /\ t.id = 1 /\ t.length = Step /\ t.repeat /\ ~t.dead
       /\ t \in Waiting(base) => /\ t.expire = sceneTime[Session] + Step
                                 /\ baseTime <= t.expire
       /\ t \in Out(base) => baseTime = sceneTime[Session] + Step
  /\ sceneTime[Session] <= baseTime

\* The step timer of an activity is the one it has the id of, and has the
\* length that its pauses and speed ask for.
StepTimers ==
  /\ \A t \in BaseTimers, a \in Activity : t.what = StepOf(a) =>
       /\ started[a] /\ t.id = stepId[a] /\ t.repeat /\ ~t.dead
       /\ t.length = IF paused[a] THEN Never ELSE speed[a]
  /\ \A t \in BaseTimers, a \in Activity :
       started[a] /\ t.id = stepId[a] => t.what = StepOf(a)

\* The timers of an activity in its session are those it owns.
Owners ==
  /\ \A a \in Activity : stepId[a] < base.nextId /\ \A id \in owned[a] : id < base.nextId
  /\ \A t \in BaseTimers, a \in Activity : t.id \in owned[a] => t.what.of = a
  /\ \A t \in BaseTimers, a \in Activity :
       t.what.of = a /\ ~t.dead => alive[a] /\ t.id \in owned[a]

\* No timer waits late: those of a scene while its list is being run are behind
\* as many as Run still takes out.
StillToRun(c) ==
  IF at = "sim" /\ c = Stepping
    THEN IF sim[c].client = NoTimer THEN toRun.sim ELSE toRun.sim - 1
    ELSE 0

\* The two parts of being punctual, of the timers that wait to expire.
NotLate(list, time) == \A i \in DOMAIN list.active : time <= list.active[i].expire + Step

LateAreLeft(list, time, left) ==
  \A i \in DOMAIN list.active : i <= left \/ time <= list.active[i].expire

SimPunctual ==
  \A c \in Scene :
    /\ NotLate(sim[c], sceneTime[c])
    /\ at \in {"sim", "step"} /\ c = Stepping =>
         LateAreLeft(sim[c], sceneTime[c], StillToRun(c))

BasePunctual == \A t \in Range(base.active) : baseTime <= t.expire + Step

\* The part of TypeOK that is not about lists.
PlainTypes ==
  /\ at \in {"rest", "advance", "base", "sim", "step"}
  /\ baseTime \in 0 .. MaxTime /\ target \in 0 .. MaxTime
  /\ sceneTime \in [Scene -> Nat]
  /\ toRun \in [base : Nat, sim : Nat]
  /\ started \in [Activity -> BOOLEAN] /\ paused \in [Activity -> BOOLEAN]
  /\ speed \in [Activity -> Speeds] /\ alive \in [Activity -> BOOLEAN]
  /\ stepId \in [Activity -> Nat] /\ owned \in [Activity -> SUBSET Nat]
  /\ made \in 0 .. MaxTimers /\ changes \in 0 .. MaxChanges

BaseInv == SessionSteps /\ StepTimers /\ Owners /\ BasePunctual

IInv == PlainTypes /\ AllFine /\ WhoIsOut /\ BaseInv /\ SimPunctual

-----------------------------------------------------------------------------
(* Places in sequences.                                                    *)

\* A set of naturals that is not empty has a least element.
LEMMA Least ==
  ASSUME NEW S \in SUBSET Nat, S # {}
  PROVE  \E i \in S : \A j \in S : i <= j
<1>1. PICK i \in S : \A j \in S : ~(<<j, i>> \in OpToRel(<, Nat))
  BY NatLessThanWellFounded, WFMin
<1>2. \A j \in S : ~(j < i)
  BY <1>1 DEF OpToRel
<1> QED
  BY <1>2

\* The members of a finite set of naturals in their order.
InOrder(f, n, K) ==
  /\ f \in Bijection(1 .. n, K)
  /\ \A i, j \in 1 .. n : i < j => f[i] < f[j]

Orderable(n) ==
  \A K \in SUBSET Nat : IsFiniteSet(K) /\ Cardinality(K) = n => \E f : InOrder(f, n, K)

\* The least member goes before the others in their order.
LEMMA OrderableNext ==
  ASSUME NEW n \in Nat \ {0}, Orderable(n - 1)
  PROVE  Orderable(n)
<1> SUFFICES ASSUME NEW K \in SUBSET Nat, IsFiniteSet(K), Cardinality(K) = n
             PROVE  \E f : InOrder(f, n, K)
  BY DEF Orderable
<1>1. K # {}
  BY FS_EmptySet
<1>2. PICK m \in K : \A k \in K : m <= k
  BY <1>1, Least
<1> DEFINE L == K \ {m}
<1>3. IsFiniteSet(L) /\ Cardinality(L) = n - 1 /\ L \in SUBSET Nat
  BY <1>2, FS_RemoveElement
<1>4. \A k \in L : k \in Nat /\ m < k
  BY <1>2
<1>5. K = L \cup {m} /\ m \in Nat
  BY <1>2
<1>6. PICK g : InOrder(g, n - 1, L)
  BY <1>3 DEF Orderable
<1> HIDE DEF L
<1>7. /\ g \in [1 .. (n - 1) -> L]
      /\ \A i, j \in 1 .. (n - 1) : g[i] = g[j] => i = j
      /\ \A k \in L : \E i \in 1 .. (n - 1) : g[i] = k
      /\ \A i, j \in 1 .. (n - 1) : i < j => g[i] < g[j]
  BY <1>6 DEF InOrder, Bijection, Injection, Surjection, IsInjective
<1> DEFINE f == [i \in 1 .. n |-> IF i = 1 THEN m ELSE g[i - 1]]
<1>8. f[1] = m /\ \A i \in 1 .. (n - 1) : i + 1 \in 1 .. n /\ f[i + 1] = g[i]
  OBVIOUS
<1>9. \A i \in 1 .. n : i = 1 \/ \E j \in 1 .. (n - 1) : i = j + 1
  <2> SUFFICES ASSUME NEW i \in 1 .. n, i # 1
               PROVE  \E j \in 1 .. (n - 1) : i = j + 1
    OBVIOUS
  <2>1. i - 1 \in 1 .. (n - 1) /\ i = (i - 1) + 1
    OBVIOUS
  <2> QED
    BY <2>1
<1>10. DOMAIN f = 1 .. n /\ f = [i \in 1 .. n |-> f[i]]
  OBVIOUS
<1> HIDE DEF f
<1>11. f \in [1 .. n -> K]
  <2>1. ASSUME NEW i \in 1 .. n
        PROVE  f[i] \in K
    <3>1. CASE i = 1
      BY <1>5, <1>8, <3>1
    <3>2. CASE i # 1
      <4>1. PICK x \in 1 .. (n - 1) : i = x + 1
        BY <1>9, <3>2
      <4>2. f[i] = g[x] /\ g[x] \in L
        BY <1>7, <1>8, <4>1
      <4> QED
        BY <1>5, <4>2
    <3> QED
      BY <3>1, <3>2
  <2> QED
    BY <1>10, <2>1
<1>12. \A i, j \in 1 .. n : i < j => f[i] < f[j]
  <2> SUFFICES ASSUME NEW i \in 1 .. n, NEW j \in 1 .. n, i < j
               PROVE  f[i] < f[j]
    OBVIOUS
  <2>1. PICK y \in 1 .. (n - 1) : j = y + 1
    BY <1>9
  <2>2. CASE i = 1
    BY <1>4, <1>7, <1>8, <2>1, <2>2
  <2>3. CASE i # 1
    <3>1. PICK x \in 1 .. (n - 1) : i = x + 1
      BY <1>9, <2>3
    <3>2. f[i] = g[x] /\ f[j] = g[y] /\ x < y
      BY <1>8, <2>1, <3>1
    <3> QED
      BY <1>7, <3>2
  <2> QED
    BY <2>2, <2>3
<1>13. \A i, j \in 1 .. n : f[i] = f[j] => i = j
  <2> SUFFICES ASSUME NEW i \in 1 .. n, NEW j \in 1 .. n, f[i] = f[j], i # j
               PROVE  FALSE
    OBVIOUS
  <2>1. f[i] \in Nat /\ f[j] \in Nat
    BY <1>11
  <2> QED
    BY <1>12, <2>1
<1>14. \A k \in K : \E i \in 1 .. n : f[i] = k
  <2> SUFFICES ASSUME NEW k \in K
               PROVE  \E i \in 1 .. n : f[i] = k
    OBVIOUS
  <2>1. CASE k = m
    BY <1>8, <2>1
  <2>2. CASE k \in L
    BY <1>7, <1>8, <2>2
  <2> QED
    BY <1>5, <2>1, <2>2
<1> QED
  BY <1>11, <1>12, <1>13, <1>14 DEF InOrder, Bijection, Injection, Surjection, IsInjective

LEMMA AllOrderable == \A n \in Nat : Orderable(n)
<1> DEFINE Bad == {n \in Nat : ~Orderable(n)}
<1> SUFFICES ASSUME Bad # {}
             PROVE  FALSE
  OBVIOUS
<1>1. PICK n \in Bad : \A k \in Bad : n <= k
  BY Least
<1>2. Orderable(0)
  <2> SUFFICES ASSUME NEW K \in SUBSET Nat, IsFiniteSet(K), Cardinality(K) = 0
               PROVE  \E f : InOrder(f, 0, K)
    BY DEF Orderable
  <2>1. K = {}
    BY FS_EmptySet
  <2>2. InOrder([i \in 1 .. 0 |-> i], 0, K)
    BY <2>1 DEF InOrder, Bijection, Injection, Surjection, IsInjective
  <2> QED
    BY <2>2
<1>3. n \in Nat \ {0} /\ n - 1 \in Nat /\ n - 1 < n
  BY <1>2
<1>4. Orderable(n - 1)
  BY <1>1, <1>3
<1> QED
  BY <1>3, <1>4, OrderableNext

-----------------------------------------------------------------------------
(* What is done to the sequences of a list.                                *)

LEMMA RangeIsPlaces ==
  ASSUME NEW S, NEW s \in Seq(S)
  PROVE  /\ DOMAIN s = 1 .. Len(s) /\ Len(s) \in Nat
         /\ Range(s) = {s[i] : i \in 1 .. Len(s)} /\ Range(s) \subseteq S
<1>1. DOMAIN s = 1 .. Len(s) /\ Len(s) \in Nat /\ \A i \in 1 .. Len(s) : s[i] \in S
  BY LenProperties, ElementOfSeq
<1> QED
  BY <1>1 DEF Range

\* A sequence with t behind the first n.
Inserted(s, r, n, t) ==
  /\ Len(r) = Len(s) + 1
  /\ \A i \in 1 .. n : r[i] = s[i]
  /\ r[n + 1] = t
  /\ \A i \in (n + 1) .. Len(s) : r[i + 1] = s[i]

LEMMA InsertBehindInserts ==
  ASSUME NEW S, NEW s \in Seq(S), NEW n \in 0 .. Len(s), NEW t \in S
  PROVE  InsertBehind(s, n, t) \in Seq(S) /\ Inserted(s, InsertBehind(s, n, t), n, t)
<1> DEFINE a == SubSeq(s, 1, n)
           b == SubSeq(s, n + 1, Len(s))
           front == a \o <<t>>
           r == front \o b
           l == Len(s)
<1>0. l \in Nat /\ n \in Nat /\ n <= l /\ \A i \in 1 .. l : s[i] \in S
  BY RangeIsPlaces, ElementOfSeq
<1>1. a \in Seq(S) /\ Len(a) = n /\ \A i \in 1 .. n : a[i] = s[i]
  <2>1. \A i \in 1 .. n : s[i] \in S
    BY <1>0
  <2>2. /\ a \in Seq(S) /\ Len(a) = IF 1 <= n THEN n - 1 + 1 ELSE 0
        /\ \A i \in 1 .. (n - 1 + 1) : a[i] = s[1 + i - 1]
    BY <1>0, <2>1, SubSeqProperties
  <2> HIDE DEF a
  <2> QED
    BY <1>0, <2>2
<1>2. b \in Seq(S) /\ Len(b) = l - n /\ \A i \in 1 .. (l - n) : b[i] = s[n + i]
  <2>1. \A i \in (n + 1) .. l : s[i] \in S
    BY <1>0
  <2>2. /\ b \in Seq(S) /\ Len(b) = IF n + 1 <= l THEN l - (n + 1) + 1 ELSE 0
        /\ \A i \in 1 .. (l - (n + 1) + 1) : b[i] = s[(n + 1) + i - 1]
    BY <1>0, <2>1, SubSeqProperties
  <2> HIDE DEF b, l
  <2>3. l - (n + 1) + 1 = l - n /\ (n + 1 <= l \/ l - n = 0)
    BY <1>0
  <2>4. \A i \in 1 .. (l - n) : (n + 1) + i - 1 = n + i
    BY <1>0
  <2> QED
    BY <2>2, <2>3, <2>4
<1>3. <<t>> \in Seq(S) /\ Len(<<t>>) = 1 /\ <<t>>[1] = t
  OBVIOUS
<1> HIDE DEF a, b, l
<1>4. /\ front \in Seq(S) /\ Len(front) = n + 1 /\ front[n + 1] = t
      /\ \A i \in 1 .. n : front[i] = s[i]
  <2>1. /\ front \in Seq(S) /\ Len(front) = n + 1
        /\ \A i \in 1 .. (n + 1) : front[i] = IF i <= n THEN a[i] ELSE <<t>>[i - n]
    BY <1>1, <1>3, ConcatProperties
  <2> HIDE DEF front
  <2> QED
    BY <1>0, <1>1, <1>3, <2>1
<1> HIDE DEF front
<1>5. /\ r \in Seq(S) /\ Len(r) = l + 1
      /\ \A i \in 1 .. (l + 1) : r[i] = IF i <= n + 1 THEN front[i] ELSE b[i - (n + 1)]
  <2>1. /\ r \in Seq(S) /\ Len(r) = Len(front) + Len(b)
        /\ \A i \in 1 .. (Len(front) + Len(b)) :
             r[i] = IF i <= Len(front) THEN front[i] ELSE b[i - Len(front)]
    BY <1>2, <1>4, ConcatProperties
  <2>2. Len(front) + Len(b) = l + 1 /\ Len(front) = n + 1
    BY <1>0, <1>2, <1>4
  <2> QED
    BY <2>1, <2>2
<1>6. r = InsertBehind(s, n, t)
  BY DEF r, front, a, b, l, InsertBehind
<1> HIDE DEF r
<1>7. \A i \in (n + 1) .. l : r[i + 1] = s[i]
  <2> SUFFICES ASSUME NEW i \in (n + 1) .. l
               PROVE  r[i + 1] = s[i]
    OBVIOUS
  <2>1. r[i + 1] = b[i - n]
    BY <1>0, <1>5
  <2>2. b[i - n] = s[n + (i - n)] /\ n + (i - n) = i
    BY <1>0, <1>2
  <2> QED
    BY <2>1, <2>2
<1>8. r[n + 1] = t /\ \A i \in 1 .. n : r[i] = s[i]
  BY <1>0, <1>4, <1>5
<1> QED
  BY <1>5, <1>6, <1>7, <1>8 DEF Inserted, l

\* A sequence without some timers: f says where each came from.
LeftOver(s, r, ids, f) ==
  /\ f \in [1 .. Len(r) -> 1 .. Len(s)]
  /\ \A i, j \in 1 .. Len(r) : i < j => f[i] < f[j]
  /\ \A i \in 1 .. Len(r) : r[i] = s[f[i]] /\ s[f[i]].id \notin ids /\ i <= f[i]
  /\ \A j \in 1 .. Len(s) : s[j].id \notin ids => \E i \in 1 .. Len(r) : f[i] = j

\* What is in order in the naturals does not fall behind.
LEMMA NotBehind ==
  ASSUME NEW n \in Nat, NEW f \in [1 .. n -> Nat \ {0}],
         \A i, j \in 1 .. n : i < j => f[i] < f[j]
  PROVE  \A i \in 1 .. n : i <= f[i]
<1> DEFINE Bad == {i \in 1 .. n : f[i] < i}
<1> SUFFICES ASSUME Bad # {}
             PROVE  FALSE
  OBVIOUS
<1>1. Bad \in SUBSET Nat
  OBVIOUS
<1>2. PICK i \in Bad : \A k \in Bad : i <= k
  BY <1>1, Least
<1>3. i \in 1 .. n /\ f[i] < i /\ f[i] \in Nat \ {0}
  OBVIOUS
<1>4. i - 1 \in 1 .. n /\ i - 1 < i
  BY <1>3
<1>5. i - 1 \notin Bad
  BY <1>2, <1>3, <1>4
<1>6. i - 1 <= f[i - 1] /\ f[i - 1] \in Nat
  BY <1>4, <1>5
<1>7. f[i - 1] < f[i]
  BY <1>3, <1>4
<1> QED
  BY <1>3, <1>6, <1>7

LEMMA WithoutLeaves ==
  ASSUME NEW S, NEW s \in Seq(S), NEW ids
  PROVE  /\ Without(s, ids) \in Seq(S)
         /\ \E f : LeftOver(s, Without(s, ids), ids, f)
<1> DEFINE kept == {i \in DOMAIN s : s[i].id \notin ids}
           n == Cardinality(kept)
           place == CHOOSE f \in Bijection(1 .. n, kept) :
                      \A i, j \in 1 .. n : i < j => f[i] < f[j]
           r == [i \in 1 .. n |-> s[place[i]]]
<1>1. DOMAIN s = 1 .. Len(s) /\ Len(s) \in Nat /\ \A i \in 1 .. Len(s) : s[i] \in S
  BY RangeIsPlaces, ElementOfSeq
<1>2. kept \in SUBSET Nat /\ IsFiniteSet(kept) /\ n \in Nat
  <2>1. IsFiniteSet(1 .. Len(s)) /\ kept \in SUBSET (1 .. Len(s))
    BY <1>1, FS_Interval
  <2>2. IsFiniteSet(kept)
    BY <2>1, FS_Subset
  <2> QED
    BY <1>1, <2>1, <2>2, FS_CardinalityType
<1>3. \A i : i \in kept <=> i \in 1 .. Len(s) /\ s[i].id \notin ids
  BY <1>1
<1>4. r = Without(s, ids)
  BY DEF Without
<1> HIDE DEF kept
<1>5. InOrder(place, n, kept)
  <2>1. \E f : InOrder(f, n, kept)
    BY <1>2, AllOrderable DEF Orderable
  <2>2. \E f \in Bijection(1 .. n, kept) : \A i, j \in 1 .. n : i < j => f[i] < f[j]
    BY <2>1 DEF InOrder
  <2> HIDE DEF n
  <2>3. /\ place \in Bijection(1 .. n, kept)
        /\ \A i, j \in 1 .. n : i < j => place[i] < place[j]
    BY <2>2
  <2> QED
    BY <2>3 DEF InOrder
<1> HIDE DEF place, n
<1>6. /\ place \in [1 .. n -> kept]
      /\ \A i, j \in 1 .. n : i < j => place[i] < place[j]
      /\ \A k \in kept : \E i \in 1 .. n : place[i] = k
  BY <1>5 DEF InOrder, Bijection, Injection, Surjection
<1>7. \A i \in 1 .. n : place[i] \in kept /\ s[place[i]] \in S
  BY <1>1, <1>3, <1>6
<1>8. r \in [1 .. n -> S] /\ \A i \in 1 .. n : r[i] = s[place[i]]
  BY <1>7
<1> HIDE DEF r
<1>9. r \in Seq(S) /\ Len(r) = n
  BY <1>2, <1>8
<1>10. \A i \in 1 .. n : i <= place[i]
  <2>1. place \in [1 .. n -> Nat \ {0}]
    BY <1>1, <1>3, <1>6
  <2> QED
    BY <1>2, <1>6, <2>1, NotBehind
<1>11. place \in [1 .. n -> 1 .. Len(s)]
  BY <1>3, <1>6
<1>12. LeftOver(s, r, ids, place)
  BY <1>3, <1>6, <1>7, <1>8, <1>9, <1>10, <1>11 DEF LeftOver
<1> QED
  BY <1>4, <1>9, <1>12

-----------------------------------------------------------------------------
(* What is done to a list.                                                 *)

LEMMA TimerFields ==
  ASSUME NEW t \in TimerType
  PROVE  /\ t # NoTimer /\ t.id \in Nat \ {0} /\ t.last \in Nat /\ t.expire \in Int
         /\ t.length \in Nat \cup {Never} /\ t.repeat \in BOOLEAN /\ t.dead \in BOOLEAN
         /\ t.what \in Kind
<1>1. t # NoTimer
  BY NoTimerAssumption
<1> QED
  BY <1>1 DEF TimerType, Never

LEMMA ListFields ==
  ASSUME NEW list \in ListType
  PROVE  /\ list.active \in Seq(TimerType) /\ list.inactive \in Seq(TimerType)
         /\ list.client \in TimerType \cup {NoTimer} /\ list.nextId \in Nat \ {0}
         /\ DOMAIN list.active = 1 .. Len(list.active) /\ Len(list.active) \in Nat
         /\ DOMAIN list.inactive = 1 .. Len(list.inactive) /\ Len(list.inactive) \in Nat
         /\ Waiting(list) \subseteq TimerType /\ Out(list) \subseteq TimerType
<1>1. /\ list.active \in Seq(TimerType) /\ list.inactive \in Seq(TimerType)
      /\ list.client \in TimerType \cup {NoTimer} /\ list.nextId \in Nat \ {0}
  BY DEF ListType
<1> QED
  BY <1>1, RangeIsPlaces DEF Waiting, Out

LEMMA ListUpdates ==
  ASSUME NEW list \in ListType, NEW s \in Seq(TimerType), NEW u \in Seq(TimerType),
         NEW t \in TimerType \cup {NoTimer}
  PROVE  /\ [list EXCEPT !.active = s, !.inactive = u, !.client = t] \in ListType
         /\ [list EXCEPT !.active = s, !.client = t] \in ListType
         /\ [list EXCEPT !.active = s, !.inactive = u] \in ListType
         /\ [list EXCEPT !.active = s] \in ListType
         /\ [list EXCEPT !.inactive = u] \in ListType
         /\ [list EXCEPT !.client = t] \in ListType
  BY DEF ListType

\* The next after those that are counted expires later, and with it all behind.
LEMMA CountExpired ==
  ASSUME NEW list \in ListType, NEW time \in Int
  PROVE  /\ GetExpiredCount(list, time) \in 0 .. Len(list.active)
         /\ \A i \in 1 .. GetExpiredCount(list, time) : list.active[i].expire <= time
         /\ GetExpiredCount(list, time) < Len(list.active) =>
              list.active[GetExpiredCount(list, time) + 1].expire > time
<1> DEFINE s == list.active
           Late == {i \in 1 .. Len(s) : s[i].expire > time}
           Fits(n) == /\ \A i \in 1 .. n : s[i].expire <= time
                      /\ n < Len(s) => s[n + 1].expire > time
<1>1. /\ s \in Seq(TimerType) /\ Len(s) \in Nat
      /\ \A i \in 1 .. Len(s) : s[i].expire \in Int
  BY ListFields, ElementOfSeq, TimerFields
<1> HIDE DEF s
<1>2. \E n \in 0 .. Len(s) : Fits(n)
  <2>1. CASE Late = {}
    <3>1. Len(s) \in 0 .. Len(s) /\ Fits(Len(s))
      BY <1>1, <2>1
    <3> QED
      BY <3>1
  <2>2. CASE Late # {}
    <3>1. PICK l \in Late : \A k \in Late : l <= k
      <4>1. Late \in SUBSET Nat
        BY <1>1
      <4> QED
        BY <2>2, <4>1, Least
    <3>2. l \in 1 .. Len(s) /\ s[l].expire > time
      OBVIOUS
    <3>3. l - 1 \in 0 .. Len(s) /\ l - 1 < Len(s) /\ (l - 1) + 1 = l
      BY <1>1, <3>2
    <3>4. ASSUME NEW i \in 1 .. (l - 1)
          PROVE  s[i].expire <= time
      <4>1. i \in 1 .. Len(s) /\ i < l
        BY <1>1, <3>2
      <4>2. i \notin Late
        BY <3>1, <3>2, <4>1
      <4> QED
        BY <1>1, <4>1, <4>2
    <3> QED
      BY <3>2, <3>3, <3>4
  <2> QED
    BY <2>1, <2>2
<1>3. GetExpiredCount(list, time) = CHOOSE n \in 0 .. Len(s) : Fits(n)
  BY DEF GetExpiredCount, s
<1> DEFINE m == GetExpiredCount(list, time)
<1>4. m \in 0 .. Len(s) /\ Fits(m)
  BY <1>2, <1>3
<1> QED
  BY <1>4 DEF s

LEMMA Expired ==
  ASSUME NEW list, ListOK(list), NEW time \in Int
  PROVE  /\ HasExpired(list, time) =>
              list.active # <<>> /\ Len(list.active) > 0 /\ list.active[1].expire <= time
         /\ ~HasExpired(list, time) => \A i \in DOMAIN list.active : list.active[i].expire > time
<1> DEFINE m == GetExpiredCount(list, time)
           s == list.active
<1>1. /\ m \in 0 .. Len(s) /\ Len(s) \in Nat /\ DOMAIN s = 1 .. Len(s)
      /\ \A i \in 1 .. m : s[i].expire <= time
      /\ m < Len(s) => s[m + 1].expire > time
      /\ s \in Seq(TimerType) /\ \A i \in 1 .. Len(s) : s[i].expire \in Int
      /\ \A i, j \in 1 .. Len(s) : i < j => s[i].expire <= s[j].expire
  <2>1. list \in ListType
    BY DEF ListOK
  <2>2. /\ s \in Seq(TimerType) /\ DOMAIN s = 1 .. Len(s) /\ Len(s) \in Nat
        /\ \A i \in 1 .. Len(s) : s[i].expire \in Int
    BY <2>1, ListFields, ElementOfSeq, TimerFields
  <2>3. \A i, j \in DOMAIN s : i < j => s[i].expire <= s[j].expire
    BY DEF ListOK
  <2> QED
    BY <2>1, <2>2, <2>3, CountExpired
<1>2. HasExpired(list, time) <=> m > 0
  BY DEF HasExpired
<1> HIDE DEF m
<1>3. ASSUME m > 0
      PROVE  s # <<>> /\ Len(s) > 0 /\ s[1].expire <= time
  <2>1. 1 \in 1 .. m /\ Len(s) > 0
    BY <1>1, <1>3
  <2> HIDE DEF s
  <2>2. s # <<>>
    BY <1>1, <2>1, EmptySeq
  <2> QED
    BY <1>1, <2>1, <2>2
<1>4. ASSUME ~(m > 0)
      PROVE  \A i \in 1 .. Len(s) : s[i].expire > time
  <2> HIDE DEF s
  <2> SUFFICES ASSUME NEW i \in 1 .. Len(s)
               PROVE  s[i].expire > time
    OBVIOUS
  <2>1. m = 0 /\ 1 \in 1 .. Len(s) /\ m < Len(s) /\ m + 1 = 1
    BY <1>1, <1>4
  <2>2. s[1].expire > time /\ s[1].expire \in Int /\ s[i].expire \in Int
    BY <1>1, <2>1
  <2>3. i = 1 \/ s[1].expire <= s[i].expire
    BY <1>1, <2>1
  <2> QED
    BY <2>2, <2>3
<1> QED
  BY <1>1, <1>2, <1>3, <1>4

\* A list that got t: what was there stays where it was, or moves back by one
\* if it expires later.
Added(list, new, t) ==
  /\ Waiting(new) = Waiting(list) \cup {t}
  /\ Range(new.active) = Range(list.active) \cup IF t.length = Never THEN {} ELSE {t}
  /\ \A i \in DOMAIN new.active :
       \/ new.active[i] = t
       \/ i \in DOMAIN list.active /\ new.active[i] = list.active[i]
       \/ /\ i - 1 \in DOMAIN list.active /\ new.active[i] = list.active[i - 1]
          /\ t.expire < list.active[i - 1].expire

\* Where each place of a sequence that got t comes from.
LEMMA InsertedFrom ==
  ASSUME NEW S, NEW s \in Seq(S), NEW r \in Seq(S), NEW n \in 0 .. Len(s), NEW t,
         Inserted(s, r, n, t)
  PROVE  /\ \A i \in 1 .. Len(r) :
              \/ i <= n /\ i \in 1 .. Len(s) /\ r[i] = s[i]
              \/ i = n + 1 /\ r[i] = t
              \/ i > n + 1 /\ i - 1 \in (n + 1) .. Len(s) /\ r[i] = s[i - 1]
         /\ Range(r) = Range(s) \cup {t}
<1>1. /\ Len(s) \in Nat /\ DOMAIN s = 1 .. Len(s) /\ DOMAIN r = 1 .. Len(r)
      /\ Len(r) = Len(s) + 1 /\ n \in Nat /\ n <= Len(s)
  BY RangeIsPlaces DEF Inserted
<1>2. ASSUME NEW i \in 1 .. Len(r)
      PROVE  \/ i <= n /\ i \in 1 .. Len(s) /\ r[i] = s[i]
             \/ i = n + 1 /\ r[i] = t
             \/ i > n + 1 /\ i - 1 \in (n + 1) .. Len(s) /\ r[i] = s[i - 1]
  <2>1. CASE i <= n
    BY <1>1, <2>1 DEF Inserted
  <2>2. CASE i = n + 1
    BY <2>2 DEF Inserted
  <2>3. CASE i > n + 1
    <3>1. i - 1 \in (n + 1) .. Len(s) /\ (i - 1) + 1 = i
      BY <1>1, <2>3
    <3> QED
      BY <2>3, <3>1 DEF Inserted
  <2> QED
    BY <1>1, <2>1, <2>2, <2>3
<1>3. Range(r) \subseteq Range(s) \cup {t}
  <2>1. \A i \in 1 .. Len(r) : r[i] = t \/ \E j \in 1 .. Len(s) : r[i] = s[j]
    <3> SUFFICES ASSUME NEW i \in 1 .. Len(r), r[i] # t
                 PROVE  \E j \in 1 .. Len(s) : r[i] = s[j]
      OBVIOUS
    <3>1. CASE i <= n /\ i \in 1 .. Len(s) /\ r[i] = s[i]
      BY <3>1
    <3>2. CASE i - 1 \in (n + 1) .. Len(s) /\ r[i] = s[i - 1]
      <4>1. i - 1 \in 1 .. Len(s)
        BY <1>1, <3>2
      <4> QED
        BY <3>2, <4>1
    <3> QED
      BY <1>2, <3>1, <3>2
  <2> QED
    BY <1>1, <2>1 DEF Range
<1>4. t \in Range(r)
  <2>1. n + 1 \in 1 .. Len(r) /\ r[n + 1] = t
    BY <1>1 DEF Inserted
  <2> QED
    BY <1>1, <2>1 DEF Range
<1>5. Range(s) \subseteq Range(r)
  <2>1. ASSUME NEW j \in 1 .. Len(s)
        PROVE  \E i \in 1 .. Len(r) : r[i] = s[j]
    <3>1. CASE j <= n
      <4>1. j \in 1 .. Len(r) /\ r[j] = s[j]
        BY <1>1, <3>1 DEF Inserted
      <4> QED
        BY <4>1
    <3>2. CASE ~(j <= n)
      <4>1. j + 1 \in 1 .. Len(r) /\ r[j + 1] = s[j]
        BY <1>1, <3>2 DEF Inserted
      <4> QED
        BY <4>1
    <3> QED
      BY <3>1, <3>2
  <2> QED
    BY <1>1, <2>1 DEF Range
<1> QED
  BY <1>2, <1>3, <1>4, <1>5

\* A timer with a new id keeps the ids distinct.
LEMMA DistinctStays ==
  ASSUME NEW S, NEW s \in Seq(S), NEW r \in Seq(S), NEW n \in 0 .. Len(s), NEW t,
         Inserted(s, r, n, t), Distinct(s), \A u \in Range(s) : u.id # t.id
  PROVE  Distinct(r)
<1>1. DOMAIN s = 1 .. Len(s) /\ DOMAIN r = 1 .. Len(r) /\ Len(s) \in Nat /\ n \in Nat
  BY RangeIsPlaces
<1>2. \A i \in 1 .. Len(s) : s[i].id # t.id
  BY <1>1 DEF Range
<1> SUFFICES ASSUME NEW i \in 1 .. Len(r), NEW j \in 1 .. Len(r), r[i].id = r[j].id, i < j
             PROVE  FALSE
  BY <1>1 DEF Distinct
<1> DEFINE From(k) ==
      \/ k <= n /\ k \in 1 .. Len(s) /\ r[k] = s[k]
      \/ k = n + 1 /\ r[k] = t
      \/ k > n + 1 /\ k - 1 \in (n + 1) .. Len(s) /\ r[k] = s[k - 1]
<1>3. From(i) /\ From(j)
  BY InsertedFrom
<1>4. \A k, l \in 1 .. Len(s) : s[k].id = s[l].id => k = l
  BY <1>1 DEF Distinct
<1>5. CASE i <= n
  <2>1. i \in 1 .. Len(s) /\ r[i] = s[i]
    BY <1>3, <1>1, <1>5
  <2>2. CASE j <= n
    BY <1>1, <1>3, <1>4, <2>1, <2>2
  <2>3. CASE j = n + 1
    BY <1>1, <1>2, <1>3, <2>1, <2>3
  <2>4. CASE j > n + 1
    <3>1. j - 1 \in 1 .. Len(s) /\ r[j] = s[j - 1] /\ i < j - 1
      BY <1>1, <1>3, <1>5, <2>4
    <3> QED
      BY <1>4, <2>1, <3>1
  <2> QED
    BY <1>1, <2>2, <2>3, <2>4
<1>6. CASE i = n + 1
  <2>1. r[i] = t /\ j - 1 \in 1 .. Len(s) /\ r[j] = s[j - 1]
    BY <1>1, <1>3, <1>6
  <2> QED
    BY <1>2, <2>1
<1>7. CASE i > n + 1
  <2>1. /\ i - 1 \in 1 .. Len(s) /\ r[i] = s[i - 1]
        /\ j - 1 \in 1 .. Len(s) /\ r[j] = s[j - 1] /\ i - 1 # j - 1
    BY <1>1, <1>3, <1>7
  <2> QED
    BY <1>4, <2>1
<1> QED
  BY <1>1, <1>5, <1>6, <1>7

LEMMA InsertedInFront ==
  ASSUME NEW S, NEW s \in Seq(S), NEW t \in S
  PROVE  <<t>> \o s \in Seq(S) /\ Inserted(s, <<t>> \o s, 0, t)
<1>1. <<t>> \in Seq(S) /\ Len(<<t>>) = 1 /\ <<t>>[1] = t /\ Len(s) \in Nat
  BY LenProperties
<1> DEFINE one == <<t>>
           r == one \o s
<1> HIDE DEF one
<1>2. /\ r \in Seq(S) /\ Len(r) = 1 + Len(s)
      /\ \A i \in 1 .. (1 + Len(s)) : r[i] = IF i <= 1 THEN one[i] ELSE s[i - 1]
  <2>1. /\ r \in Seq(S) /\ Len(r) = Len(one) + Len(s)
        /\ \A i \in 1 .. (Len(one) + Len(s)) :
             r[i] = IF i <= Len(one) THEN one[i] ELSE s[i - Len(one)]
    BY <1>1, ConcatProperties DEF one
  <2> QED
    BY <1>1, <2>1 DEF one
<1> HIDE DEF r
<1>3. r[1] = t
  BY <1>1, <1>2 DEF one
<1>4. \A i \in 1 .. Len(s) : r[i + 1] = s[i]
  <2> SUFFICES ASSUME NEW i \in 1 .. Len(s)
               PROVE  r[i + 1] = s[i]
    OBVIOUS
  <2>1. i + 1 \in 1 .. (1 + Len(s)) /\ ~(i + 1 <= 1) /\ (i + 1) - 1 = i
    BY <1>1
  <2> QED
    BY <1>2, <2>1
<1>5. Inserted(s, r, 0, t)
  BY <1>1, <1>2, <1>3, <1>4 DEF Inserted
<1> QED
  BY <1>2, <1>5 DEF r, one

LEMMA AddTimerAdds ==
  ASSUME NEW list, ListOK(list), NEW t \in TimerType,
         ~t.dead, t.id < list.nextId, \A u \in Waiting(list) \cup Out(list) : u.id # t.id
  PROVE  /\ ListOK(AddTimer(list, t)) /\ Added(list, AddTimer(list, t), t)
         /\ AddTimer(list, t).client = list.client
         /\ AddTimer(list, t).nextId = list.nextId
<1> DEFINE new == AddTimer(list, t)
<1>1. list \in ListType
  BY DEF ListOK
<1>2. /\ list.active \in Seq(TimerType) /\ list.inactive \in Seq(TimerType)
      /\ list.client \in TimerType \cup {NoTimer} /\ list.nextId \in Nat \ {0}
      /\ DOMAIN list.active = 1 .. Len(list.active) /\ Len(list.active) \in Nat
      /\ \A i \in 1 .. Len(list.active) :
           list.active[i] \in Range(list.active) /\ list.active[i].expire \in Int
  <2>1. \A i \in 1 .. Len(list.active) : list.active[i].expire \in Int
    BY <1>1, ListFields, ElementOfSeq, TimerFields
  <2> QED
    BY <1>1, <2>1, ListFields DEF Range
<1>3. /\ \A u \in Range(list.active) : u.length # Never /\ u.id # t.id
      /\ \A u \in Range(list.inactive) : u.length = Never /\ u.id # t.id
      /\ \A i, j \in DOMAIN list.active :
           i < j => list.active[i].expire <= list.active[j].expire
      /\ Distinct(list.active) /\ Distinct(list.inactive)
      /\ \A u \in Range(list.active), v \in Range(list.inactive) : u.id # v.id
      /\ \A u \in Waiting(list) : ~u.dead /\ \A v \in Out(list) : u.id # v.id
      /\ \A u \in Waiting(list) \cup Out(list) : u.id < list.nextId
  BY DEF ListOK, Waiting
<1>4. CASE t.length = Never
  <2> DEFINE r == <<t>> \o list.inactive
  <2>1. new = [list EXCEPT !.inactive = r]
    BY <1>4 DEF AddTimer
  <2>2. r \in Seq(TimerType) /\ Inserted(list.inactive, r, 0, t)
    BY <1>2, InsertedInFront
  <2> HIDE DEF r, new
  <2>3. Range(r) = Range(list.inactive) \cup {t} /\ Distinct(r)
    <3>1. 0 \in 0 .. Len(list.inactive)
      BY <1>1, ListFields
    <3> QED
      BY <1>2, <1>3, <2>2, <3>1, InsertedFrom, DistinctStays
  <2>4. new \in ListType
    BY <1>1, <1>2, <2>1, <2>2, ListUpdates
  <2>5. /\ new.active = list.active /\ new.inactive = r
        /\ new.client = list.client /\ new.nextId = list.nextId
    BY <1>1, <2>1 DEF ListType
  <2>6. /\ Waiting(new) = Waiting(list) \cup {t} /\ Out(new) = Out(list)
    BY <2>3, <2>5 DEF Waiting, Out
  <2>7. ListOK(new)
    BY <1>3, <1>4, <2>3, <2>4, <2>5, <2>6 DEF ListOK
  <2>8. Added(list, new, t)
    BY <1>4, <2>5, <2>6 DEF Added
  <2> QED
    BY <2>5, <2>7, <2>8 DEF new
<1>5. CASE t.length # Never
  <2> DEFINE s == list.active
             n == GetExpiredCount(list, t.expire)
             r == InsertBehind(s, n, t)
  <2>1. new = [list EXCEPT !.active = r]
    BY <1>5 DEF AddTimer
  <2>0. t.expire \in Int
    BY TimerFields
  <2>2. /\ n \in 0 .. Len(s)
        /\ \A i \in 1 .. n : s[i].expire <= t.expire
        /\ n < Len(s) => s[n + 1].expire > t.expire
    BY <1>1, <2>0, CountExpired
  <2>3. r \in Seq(TimerType) /\ Inserted(s, r, n, t)
    BY <1>2, <2>2, InsertBehindInserts
  <2> HIDE DEF r, new, n
  <2>4. Range(r) = Range(s) \cup {t} /\ Distinct(r)
    BY <1>2, <1>3, <2>2, <2>3, InsertedFrom, DistinctStays
  <2>5. new \in ListType
    BY <1>1, <1>2, <2>1, <2>3, ListUpdates
  <2>6. /\ new.active = r /\ new.inactive = list.inactive
        /\ new.client = list.client /\ new.nextId = list.nextId
    BY <1>1, <2>1 DEF ListType
  <2>7. /\ Waiting(new) = Waiting(list) \cup {t} /\ Out(new) = Out(list)
    BY <2>4, <2>6 DEF Waiting, Out
  <2>8. \A i \in 1 .. Len(r) :
          \/ i <= n /\ i \in 1 .. Len(s) /\ r[i] = s[i]
          \/ i = n + 1 /\ r[i] = t
          \/ i > n + 1 /\ i - 1 \in (n + 1) .. Len(s) /\ r[i] = s[i - 1]
    BY <1>2, <2>2, <2>3, InsertedFrom
  <2> HIDE DEF s
  <2>9. \A i \in (n + 1) .. Len(s) : t.expire < s[i].expire /\ i \in 1 .. Len(s)
    <3> SUFFICES ASSUME NEW i \in (n + 1) .. Len(s)
                 PROVE  t.expire < s[i].expire /\ i \in 1 .. Len(s)
      OBVIOUS
    <3>1. n \in Nat /\ n < Len(s) /\ n + 1 \in 1 .. Len(s) /\ i \in 1 .. Len(s)
      BY <1>2, <2>2 DEF s
    <3>2. t.expire < s[n + 1].expire /\ s[n + 1].expire \in Int /\ s[i].expire \in Int
      BY <1>2, <2>2, <3>1 DEF s
    <3>3. i = n + 1 \/ n + 1 < i
      BY <3>1
    <3>4. s[n + 1].expire <= s[i].expire
      <4>1. \A k, l \in 1 .. Len(s) : k < l => s[k].expire <= s[l].expire
        BY <1>2, <1>3 DEF s
      <4>2. CASE i = n + 1
        BY <3>2, <4>2
      <4>3. CASE n + 1 < i
        BY <3>1, <4>1, <4>3
      <4> QED
        BY <3>3, <4>2, <4>3
    <3> QED
      BY <2>0, <3>1, <3>2, <3>4
  <2>10. \A i \in 1 .. n : s[i].expire <= t.expire /\ i \in 1 .. Len(s)
    BY <1>2, <2>2 DEF s
  <2>11. ASSUME NEW i \in 1 .. Len(r), NEW j \in 1 .. Len(r), i < j
         PROVE  r[i].expire <= r[j].expire
    <3>1. \A k, l \in 1 .. Len(s) : k < l => s[k].expire <= s[l].expire
      BY <1>2, <1>3 DEF s
    <3>2. n \in Nat /\ Len(s) \in Nat /\ \A k \in 1 .. Len(s) : s[k].expire \in Int
      BY <1>2, <2>2 DEF s
    <3>3. CASE i <= n /\ i \in 1 .. Len(s) /\ r[i] = s[i]
      <4>1. CASE j <= n /\ j \in 1 .. Len(s) /\ r[j] = s[j]
        BY <2>11, <3>1, <3>3, <4>1
      <4>2. CASE j = n + 1 /\ r[j] = t
        <5>1. i \in 1 .. n
          BY <3>3
        <5> QED
          BY <2>10, <3>3, <4>2, <5>1
      <4>3. CASE j > n + 1 /\ j - 1 \in (n + 1) .. Len(s) /\ r[j] = s[j - 1]
        <5>1. j - 1 \in 1 .. Len(s) /\ i < j - 1
          BY <3>2, <3>3, <4>3
        <5> QED
          BY <3>1, <3>3, <4>3, <5>1
      <4> QED
        BY <2>8, <4>1, <4>2, <4>3
    <3>4. CASE i = n + 1 /\ r[i] = t
      <4>1. j - 1 \in (n + 1) .. Len(s) /\ r[j] = s[j - 1]
        BY <2>8, <2>11, <3>2, <3>4
      <4>2. t.expire < s[j - 1].expire /\ s[j - 1].expire \in Int
        BY <2>9, <3>2, <4>1
      <4> QED
        BY <2>0, <3>4, <4>1, <4>2
    <3>5. CASE i > n + 1 /\ i - 1 \in (n + 1) .. Len(s) /\ r[i] = s[i - 1]
      <4>1. j - 1 \in (n + 1) .. Len(s) /\ r[j] = s[j - 1]
        BY <2>8, <2>11, <3>2, <3>5
      <4>2. i - 1 \in 1 .. Len(s) /\ j - 1 \in 1 .. Len(s) /\ i - 1 < j - 1
        BY <2>9, <2>11, <3>5, <4>1
      <4> QED
        BY <3>1, <3>5, <4>1, <4>2
    <3> QED
      BY <2>8, <3>3, <3>4, <3>5
  <2>12. DOMAIN r = 1 .. Len(r)
    BY <2>3, RangeIsPlaces
  <2>13. ListOK(new)
    <3>1. \A u \in Range(r) : u.length # Never /\ \A v \in Range(list.inactive) : u.id # v.id
      BY <1>3, <1>5, <2>4 DEF s
    <3>2. \A u \in Waiting(new) : ~u.dead /\ \A v \in Out(new) : u.id # v.id
      BY <1>3, <2>7
    <3>3. \A u \in Waiting(new) \cup Out(new) : u.id < new.nextId
      BY <1>3, <2>6, <2>7
    <3>4. \A i, j \in DOMAIN new.active :
            i < j => new.active[i].expire <= new.active[j].expire
      BY <2>6, <2>11, <2>12
    <3> QED
      BY <1>3, <2>4, <2>5, <2>6, <3>1, <3>2, <3>3, <3>4 DEF ListOK
  <2>14. Added(list, new, t)
    <3>1. \A i \in 1 .. Len(r) :
            \/ r[i] = t
            \/ i \in 1 .. Len(s) /\ r[i] = s[i]
            \/ i - 1 \in 1 .. Len(s) /\ r[i] = s[i - 1] /\ t.expire < s[i - 1].expire
      BY <2>8, <2>9
    <3>2. Range(new.active) = Range(list.active) \cup {t}
      BY <2>4, <2>6 DEF s
    <3> QED
      BY <1>2, <1>5, <2>6, <2>7, <2>12, <3>1, <3>2 DEF Added, s
  <2> QED
    BY <2>6, <2>13, <2>14 DEF new
<1> QED
  BY <1>4, <1>5

\* A list without some timers: what is left moves forward.
Pulled(list, new, ids) ==
  /\ Waiting(new) = {t \in Waiting(list) : t.id \notin ids}
  /\ Range(new.active) = {t \in Range(list.active) : t.id \notin ids}
  /\ \A i \in DOMAIN new.active :
       \E j \in DOMAIN list.active : i <= j /\ new.active[i] = list.active[j]

LEMMA WhatIsLeft ==
  ASSUME NEW S, NEW s \in Seq(S), NEW r \in Seq(S), NEW ids, NEW f, LeftOver(s, r, ids, f)
  PROVE  /\ Range(r) = {t \in Range(s) : t.id \notin ids}
         /\ Distinct(s) => Distinct(r)
         /\ \A i \in DOMAIN r : \E j \in DOMAIN s : i <= j /\ r[i] = s[j]
<1>1. DOMAIN s = 1 .. Len(s) /\ DOMAIN r = 1 .. Len(r) /\ Len(s) \in Nat /\ Len(r) \in Nat
  BY RangeIsPlaces
<1>2. /\ f \in [1 .. Len(r) -> 1 .. Len(s)]
      /\ \A i, j \in 1 .. Len(r) : i < j => f[i] < f[j]
      /\ \A i \in 1 .. Len(r) : r[i] = s[f[i]] /\ s[f[i]].id \notin ids /\ i <= f[i]
      /\ \A j \in 1 .. Len(s) : s[j].id \notin ids => \E i \in 1 .. Len(r) : f[i] = j
  BY DEF LeftOver
<1>3. \A i \in 1 .. Len(r) : f[i] \in 1 .. Len(s) /\ i <= f[i] /\ r[i] = s[f[i]]
  BY <1>2
<1>4. Range(r) \subseteq {t \in Range(s) : t.id \notin ids}
  BY <1>1, <1>2, <1>3 DEF Range
<1>5. {t \in Range(s) : t.id \notin ids} \subseteq Range(r)
  <2>1. ASSUME NEW j \in 1 .. Len(s), s[j].id \notin ids
        PROVE  s[j] \in Range(r)
    <3>1. PICK i \in 1 .. Len(r) : f[i] = j
      BY <1>2, <2>1
    <3>2. r[i] = s[j]
      BY <1>2, <3>1
    <3> QED
      BY <1>1, <3>2 DEF Range
  <2> QED
    BY <1>1, <2>1 DEF Range
<1>6. ASSUME Distinct(s)
      PROVE  Distinct(r)
  <2> SUFFICES ASSUME NEW i \in 1 .. Len(r), NEW j \in 1 .. Len(r),
                      r[i].id = r[j].id, i # j
               PROVE  FALSE
    BY <1>1 DEF Distinct
  <2>1. f[i] = f[j] /\ f[i] \in Nat
    BY <1>1, <1>3, <1>6 DEF Distinct
  <2>2. i < j \/ j < i
    BY <1>1
  <2> QED
    BY <1>2, <2>1, <2>2
<1> QED
  BY <1>1, <1>3, <1>4, <1>5, <1>6

LEMMA OrderIsKept ==
  ASSUME NEW s \in Seq(TimerType), NEW r \in Seq(TimerType), NEW ids, NEW f,
         LeftOver(s, r, ids, f),
         \A i, j \in DOMAIN s : i < j => s[i].expire <= s[j].expire
  PROVE  \A i, j \in DOMAIN r : i < j => r[i].expire <= r[j].expire
<1>1. DOMAIN s = 1 .. Len(s) /\ DOMAIN r = 1 .. Len(r)
  BY RangeIsPlaces
<1>2. /\ \A i, j \in 1 .. Len(r) : i < j => f[i] < f[j]
      /\ \A i \in 1 .. Len(r) : f[i] \in 1 .. Len(s) /\ r[i] = s[f[i]]
  BY DEF LeftOver
<1> QED
  BY <1>1, <1>2

LEMMA PullTimersPulls ==
  ASSUME NEW list, ListOK(list), NEW ids
  PROVE  /\ ListOK(PullTimers(list, ids)) /\ Pulled(list, PullTimers(list, ids), ids)
         /\ PullTimers(list, ids).client = list.client
         /\ PullTimers(list, ids).nextId = list.nextId
<1> DEFINE new == PullTimers(list, ids)
           r == Without(list.active, ids)
           u == Without(list.inactive, ids)
<1>1. list \in ListType
  BY DEF ListOK
<1>2. list.active \in Seq(TimerType) /\ list.inactive \in Seq(TimerType)
  BY <1>1, ListFields
<1>3. /\ \A t \in Range(list.active) : t.length # Never
      /\ \A t \in Range(list.inactive) : t.length = Never
      /\ \A i, j \in DOMAIN list.active :
           i < j => list.active[i].expire <= list.active[j].expire
      /\ Distinct(list.active) /\ Distinct(list.inactive)
      /\ \A t \in Range(list.active), v \in Range(list.inactive) : t.id # v.id
      /\ \A t \in Waiting(list) : ~t.dead /\ \A v \in Out(list) : t.id # v.id
      /\ \A t \in Waiting(list) \cup Out(list) : t.id < list.nextId
  BY DEF ListOK
<1>4. /\ r \in Seq(TimerType) /\ Range(r) = {t \in Range(list.active) : t.id \notin ids}
      /\ Distinct(r)
      /\ \A i, j \in DOMAIN r : i < j => r[i].expire <= r[j].expire
      /\ \A i \in DOMAIN r : \E j \in DOMAIN list.active : i <= j /\ r[i] = list.active[j]
  <2>1. r \in Seq(TimerType) /\ \E f : LeftOver(list.active, r, ids, f)
    BY <1>2, WithoutLeaves
  <2> HIDE DEF r
  <2>2. PICK f : LeftOver(list.active, r, ids, f)
    BY <2>1
  <2>3. \A i, j \in DOMAIN r : i < j => r[i].expire <= r[j].expire
    BY <1>2, <1>3, <2>1, <2>2, OrderIsKept
  <2> QED
    BY <1>2, <1>3, <2>1, <2>2, <2>3, WhatIsLeft
<1>5. /\ u \in Seq(TimerType) /\ Range(u) = {t \in Range(list.inactive) : t.id \notin ids}
      /\ Distinct(u)
  <2>1. u \in Seq(TimerType) /\ \E f : LeftOver(list.inactive, u, ids, f)
    BY <1>2, WithoutLeaves
  <2> HIDE DEF u
  <2>2. PICK f : LeftOver(list.inactive, u, ids, f)
    BY <2>1
  <2> QED
    BY <1>2, <1>3, <2>1, <2>2, WhatIsLeft
<1>6. new = [list EXCEPT !.active = r, !.inactive = u]
  BY DEF PullTimers
<1> HIDE DEF r, u, new
<1>7. new \in ListType
  BY <1>1, <1>4, <1>5, <1>6, ListUpdates
<1>8. /\ new.active = r /\ new.inactive = u
      /\ new.client = list.client /\ new.nextId = list.nextId
  BY <1>1, <1>6 DEF ListType
<1>9. Waiting(new) = {t \in Waiting(list) : t.id \notin ids} /\ Out(new) = Out(list)
  BY <1>4, <1>5, <1>8 DEF Waiting, Out
<1>10. ListOK(new)
  <2>1. /\ \A t \in Range(r) : t.length # Never
        /\ \A t \in Range(u) : t.length = Never
        /\ \A t \in Range(r), v \in Range(u) : t.id # v.id
    BY <1>3, <1>4, <1>5
  <2>2. /\ \A t \in Waiting(new) : ~t.dead /\ \A v \in Out(new) : t.id # v.id
        /\ \A t \in Waiting(new) \cup Out(new) : t.id < new.nextId
    BY <1>3, <1>8, <1>9
  <2> QED
    BY <1>4, <1>5, <1>7, <1>8, <2>1, <2>2 DEF ListOK
<1>11. Pulled(list, new, ids)
  BY <1>4, <1>8, <1>9 DEF Pulled
<1> QED
  BY <1>8, <1>10, <1>11 DEF new

\* The timer that is out changes, or is out no longer.
MayBeClient(list, t) ==
  /\ t \in TimerType \cup {NoTimer}
  /\ t = NoTimer \/ (list.client # NoTimer /\ t.id = list.client.id)

LEMMA ClientChanges ==
  ASSUME NEW list, ListOK(list), NEW t, MayBeClient(list, t)
  PROVE  LET new == [list EXCEPT !.client = t] IN
         /\ ListOK(new) /\ new.client = t /\ new.nextId = list.nextId
         /\ Waiting(new) = Waiting(list) /\ new.active = list.active
<1> DEFINE new == [list EXCEPT !.client = t]
<1>1. list \in ListType
  BY DEF ListOK
<1>2. new \in ListType
  BY <1>1 DEF ListType, MayBeClient
<1>3. /\ new.client = t /\ new.nextId = list.nextId
      /\ new.active = list.active /\ new.inactive = list.inactive
  BY <1>1 DEF ListType
<1> HIDE DEF new
<1>4. /\ Waiting(new) = Waiting(list)
      /\ \A u \in Out(new) : u = t /\ list.client \in Out(list) /\ t.id = list.client.id
  BY <1>3 DEF Waiting, Out, MayBeClient
<1>5. ListOK(new)
  <2>1. /\ \A u \in Waiting(list) : ~u.dead /\ \A v \in Out(list) : u.id # v.id
        /\ \A u \in Waiting(list) \cup Out(list) : u.id < list.nextId
    BY DEF ListOK
  <2>2. /\ \A u \in Waiting(new) : ~u.dead /\ \A v \in Out(new) : u.id # v.id
        /\ \A u \in Waiting(new) \cup Out(new) : u.id < new.nextId
    BY <1>3, <1>4, <2>1
  <2> QED
    BY <1>2, <1>3, <2>2 DEF ListOK
<1> QED
  BY <1>3, <1>4, <1>5 DEF new

\* The first timer is taken out.
Taken(list, new, time) ==
  /\ new.nextId = list.nextId
  /\ \E h \in Range(list.active) :
       /\ h = list.active[1] /\ h.expire <= time
       /\ new.client = [h EXCEPT !.last = time]
       /\ Waiting(list) = Waiting(new) \cup {h}
       /\ \A t \in Waiting(new) : t.id # h.id
  /\ Range(new.active) \subseteq Range(list.active)
  /\ \A i \in DOMAIN new.active :
       i + 1 \in DOMAIN list.active /\ new.active[i] = list.active[i + 1]

LEMMA GetExpiredTimerTakes ==
  ASSUME NEW list, ListOK(list), NEW time \in Nat, list.client = NoTimer,
         HasExpired(list, time)
  PROVE  /\ ListOK(GetExpiredTimer(list, time))
         /\ Taken(list, GetExpiredTimer(list, time), time)
<1> DEFINE s == list.active
           h == Head(s)
           r == Tail(s)
           c == [h EXCEPT !.last = time]
           new == GetExpiredTimer(list, time)
<1>1. list \in ListType
  BY DEF ListOK
<1>2. /\ s \in Seq(TimerType) /\ DOMAIN s = 1 .. Len(s) /\ Len(s) \in Nat
      /\ s # <<>> /\ Len(s) > 0 /\ s[1].expire <= time
  BY <1>1, ListFields, Expired
<1>3. /\ h \in TimerType /\ h = s[1] /\ r \in Seq(TimerType) /\ Len(r) = Len(s) - 1
      /\ \A i \in 1 .. Len(r) : r[i] = s[i + 1]
  <2>1. h = s[1]
    BY <1>2
  <2> QED
    BY <1>2, <2>1, HeadTailProperties
<1>4. /\ c \in TimerType /\ c.id = h.id
      /\ c.dead = h.dead
  BY <1>3 DEF TimerType
<1>5. new = [list EXCEPT !.active = r, !.client = c]
  <2>1. new = [list EXCEPT !.client = c, !.active = r]
    BY DEF GetExpiredTimer
  <2> HIDE DEF c, r, h, s, new
  <2> QED
    BY <1>1, <2>1 DEF ListType
<1>6. c # NoTimer
  BY <1>4, TimerFields
<1> HIDE DEF s, h, r, c, new
<1>7. new \in ListType
  BY <1>1, <1>3, <1>4, <1>5, ListUpdates
<1>8. /\ new.active = r /\ new.inactive = list.inactive
      /\ new.client = c /\ new.nextId = list.nextId
  BY <1>1, <1>5 DEF ListType
<1>9. /\ DOMAIN r = 1 .. Len(r)
      /\ \A i \in DOMAIN r : i + 1 \in DOMAIN s /\ r[i] = s[i + 1] /\ i + 1 # 1
  <2>1. DOMAIN r = 1 .. Len(r)
    BY <1>3, LenProperties
  <2> QED
    BY <1>2, <1>3, <2>1
<1>10. /\ 1 \in DOMAIN s
       /\ \A i \in DOMAIN s : i # 1 => i - 1 \in DOMAIN r /\ (i - 1) + 1 = i
  BY <1>2, <1>3, <1>9
<1>11. Range(r) \subseteq Range(s) /\ Range(s) = Range(r) \cup {h} /\ h \in Range(s)
  <2>1. \A i \in DOMAIN s : s[i] = h \/ \E j \in DOMAIN r : s[i] = r[j]
    BY <1>3, <1>9, <1>10
  <2>2. \A i \in DOMAIN r : \E j \in DOMAIN s : r[i] = s[j]
    BY <1>9
  <2>3. h = s[1] /\ 1 \in DOMAIN s
    BY <1>3, <1>10
  <2> QED
    BY <2>1, <2>2, <2>3 DEF Range
<1>12. /\ \A t \in Range(s) : t.length # Never
       /\ \A t \in Range(list.inactive) : t.length = Never
       /\ \A i, j \in DOMAIN s : i < j => s[i].expire <= s[j].expire
       /\ Distinct(s) /\ Distinct(list.inactive)
       /\ \A t \in Range(s), u \in Range(list.inactive) : t.id # u.id
       /\ \A t \in Waiting(list) : ~t.dead
       /\ \A t \in Waiting(list) : t.id < list.nextId
  BY DEF ListOK, s
<1>13. \A t \in Range(r) : t.id # h.id
  <2>1. \A i \in DOMAIN r : r[i].id # h.id
    BY <1>3, <1>9, <1>10, <1>12 DEF Distinct
  <2> QED
    BY <2>1 DEF Range
<1>14. /\ Waiting(list) = Waiting(new) \cup {h} /\ \A t \in Waiting(new) : t.id # h.id
       /\ Out(new) = {c}
  <2>1. Waiting(list) = Range(s) \cup Range(list.inactive)
    BY DEF Waiting, s
  <2>2. Waiting(new) = Range(r) \cup Range(list.inactive) /\ Out(new) = {c}
    BY <1>6, <1>8 DEF Waiting, Out
  <2> QED
    BY <1>11, <1>12, <1>13, <2>1, <2>2
<1>15. ListOK(new)
  <2>1. \A i, j \in DOMAIN r : i < j => r[i].expire <= r[j].expire
    <3> SUFFICES ASSUME NEW i \in DOMAIN r, NEW j \in DOMAIN r, i < j
                 PROVE  r[i].expire <= r[j].expire
      OBVIOUS
    <3>1. i + 1 < j + 1 /\ i + 1 \in DOMAIN s /\ j + 1 \in DOMAIN s
      BY <1>9
    <3> QED
      BY <1>9, <1>12, <3>1
  <2>2. Distinct(r)
    <3> SUFFICES ASSUME NEW i \in DOMAIN r, NEW j \in DOMAIN r, r[i].id = r[j].id
                 PROVE  i = j
      BY DEF Distinct
    <3>1. i + 1 = j + 1
      BY <1>9, <1>12 DEF Distinct
    <3> QED
      BY <1>9, <3>1
  <2>3. /\ \A t \in Range(r) : t.length # Never
        /\ \A t \in Range(r), u \in Range(list.inactive) : t.id # u.id
    BY <1>11, <1>12
  <2>4. /\ \A t \in Waiting(new) : ~t.dead /\ \A u \in Out(new) : t.id # u.id
        /\ \A t \in Waiting(new) \cup Out(new) : t.id < new.nextId
    BY <1>4, <1>8, <1>11, <1>12, <1>14
  <2> QED
    BY <1>7, <1>8, <1>12, <2>1, <2>2, <2>3, <2>4 DEF ListOK
<1>16. Taken(list, new, time)
  <2>1. /\ h \in Range(list.active) /\ h = list.active[1] /\ h.expire <= time
        /\ new.client = [h EXCEPT !.last = time]
    BY <1>2, <1>3, <1>8, <1>11 DEF s, c
  <2>2. Range(new.active) \subseteq Range(list.active)
    BY <1>8, <1>11 DEF s
  <2>3. \A i \in DOMAIN new.active :
          i + 1 \in DOMAIN list.active /\ new.active[i] = list.active[i + 1]
    BY <1>8, <1>9 DEF s
  <2> QED
    BY <1>8, <1>14, <2>1, <2>2, <2>3 DEF Taken
<1> QED
  BY <1>15, <1>16 DEF new

\* The timer that was out comes back, or is gone.
Submitted(list, new) ==
  LET t == list.client IN
  /\ new.client = NoTimer /\ new.nextId = list.nextId
  /\ \/ /\ t.dead \/ ~t.repeat
        /\ Waiting(new) = Waiting(list) /\ new.active = list.active
     \/ /\ ~t.dead /\ t.repeat
        /\ Added(list, new, [t EXCEPT !.expire = t.last + t.length])

LEMMA SubmitTimerSubmits ==
  ASSUME NEW list, ListOK(list), list.client # NoTimer
  PROVE  ListOK(SubmitTimer(list)) /\ Submitted(list, SubmitTimer(list))
<1> DEFINE t == list.client
           back == [list EXCEPT !.client = NoTimer]
           b == [t EXCEPT !.expire = t.last + t.length]
           new == SubmitTimer(list)
<1>1. t \in TimerType /\ Out(list) = {t}
  BY DEF ListOK, ListType, Out
<1>2. /\ ListOK(back) /\ back.client = NoTimer /\ back.nextId = list.nextId
      /\ Waiting(back) = Waiting(list) /\ back.active = list.active /\ Out(back) = {}
  <2>1. MayBeClient(list, NoTimer)
    BY DEF MayBeClient
  <2>2. /\ ListOK(back) /\ back.client = NoTimer /\ back.nextId = list.nextId
        /\ Waiting(back) = Waiting(list) /\ back.active = list.active
    BY <2>1, ClientChanges
  <2> QED
    BY <2>2 DEF Out
<1>3. b \in TimerType /\ b.id = t.id /\ b.dead = t.dead
  <2>1. t.last + t.length \in Nat \cup {Never}
    BY <1>1 DEF TimerType, Never
  <2> QED
    BY <1>1, <2>1 DEF TimerType
<1>4. new = IF t.dead \/ ~t.repeat THEN back ELSE AddTimer(back, b)
  BY DEF SubmitTimer
<1>5. /\ \A u \in Waiting(list) : ~u.dead /\ u.id # t.id
      /\ t.id < list.nextId
  BY <1>1 DEF ListOK
<1> HIDE DEF t, back, b, new
<1>6. CASE t.dead \/ ~t.repeat
  <2>1. new = back
    BY <1>4, <1>6
  <2> QED
    BY <1>2, <1>6, <2>1 DEF Submitted, new, t
<1>7. CASE ~(t.dead \/ ~t.repeat)
  <2>1. new = AddTimer(back, b)
    BY <1>4, <1>7
  <2>2. ~b.dead /\ b.id < back.nextId /\ \A u \in Waiting(back) \cup Out(back) : u.id # b.id
    BY <1>2, <1>3, <1>5, <1>7
  <2>3. /\ ListOK(new) /\ Added(back, new, b)
        /\ new.client = back.client /\ new.nextId = back.nextId
    BY <1>2, <1>3, <2>1, <2>2, AddTimerAdds
  <2>4. Added(list, new, b)
    BY <1>2, <2>3 DEF Added
  <2> QED
    BY <1>2, <1>7, <2>3, <2>4 DEF Submitted, new, t, b
<1> QED
  BY <1>6, <1>7

\* A new timer gets the next id.
MadeTimer(list, now, length, repeat, what) ==
  [id |-> list.nextId, length |-> length, repeat |-> repeat, last |-> now,
   expire |-> now + length, dead |-> FALSE, what |-> what]

LEMMA NewTimerAdds ==
  ASSUME NEW list, ListOK(list), NEW now \in Nat, NEW length \in Nat,
         NEW repeat \in BOOLEAN, NEW what \in Kind
  PROVE  LET new == NewTimer(list, now, length, repeat, what)
             t == MadeTimer(list, now, length, repeat, what) IN
         /\ ListOK(new) /\ Added(list, new, t)
         /\ new.client = list.client /\ new.nextId = list.nextId + 1
         /\ t \in TimerType
<1> DEFINE t == MadeTimer(list, now, length, repeat, what)
           on == [list EXCEPT !.nextId = list.nextId + 1]
           new == NewTimer(list, now, length, repeat, what)
<1>1. list \in ListType /\ list.nextId \in Nat \ {0}
  BY DEF ListOK, ListType
<1>2. t \in TimerType /\ t.id = list.nextId /\ ~t.dead
  BY <1>1 DEF MadeTimer, TimerType
<1>3. /\ on \in ListType /\ on.nextId = list.nextId + 1 /\ on.client = list.client
      /\ on.active = list.active /\ on.inactive = list.inactive
  BY <1>1 DEF ListType
<1>4. new = AddTimer(on, t)
  BY DEF NewTimer, MadeTimer
<1> HIDE DEF t, on, new
<1>5. Waiting(on) = Waiting(list) /\ Out(on) = Out(list)
  BY <1>3 DEF Waiting, Out
<1>6. \A u \in Waiting(list) \cup Out(list) : u.id < list.nextId /\ u \in TimerType
  BY <1>1, ListFields DEF ListOK
<1>7. \A u \in Waiting(list) \cup Out(list) : u.id \in Nat /\ u.id # list.nextId /\ u.id < list.nextId + 1
  BY <1>1, <1>6, TimerFields
<1>8. ListOK(on)
  <2>1. \A u \in Waiting(list) : ~u.dead /\ \A v \in Out(list) : u.id # v.id
    BY DEF ListOK
  <2>2. /\ \A u \in Waiting(on) : ~u.dead /\ \A v \in Out(on) : u.id # v.id
        /\ \A u \in Waiting(on) \cup Out(on) : u.id < on.nextId
    BY <1>3, <1>5, <1>7, <2>1
  <2> QED
    BY <1>3, <2>2 DEF ListOK
<1>9. t.id < on.nextId /\ \A u \in Waiting(on) \cup Out(on) : u.id # t.id
  BY <1>1, <1>2, <1>3, <1>5, <1>7
<1>10. /\ ListOK(new) /\ Added(on, new, t)
       /\ new.client = on.client /\ new.nextId = on.nextId
  BY <1>2, <1>4, <1>8, <1>9, AddTimerAdds
<1>11. Added(list, new, t)
  BY <1>3, <1>5, <1>10 DEF Added
<1> QED
  BY <1>2, <1>3, <1>10, <1>11 DEF t, new

\* Timers that wait are gone, one that is out is marked.
Deleted(list, new, ids) ==
  /\ new.nextId = list.nextId
  /\ Pulled(list, new, ids)
  /\ IF list.client # NoTimer /\ list.client.id \in ids
       THEN new.client = [list.client EXCEPT !.dead = TRUE]
       ELSE new.client = list.client

LEMMA DeleteTimersDeletes ==
  ASSUME NEW list, ListOK(list), NEW ids
  PROVE  ListOK(DeleteTimers(list, ids)) /\ Deleted(list, DeleteTimers(list, ids), ids)
<1> DEFINE left == PullTimers(list, ids)
           new == DeleteTimers(list, ids)
<1>1. /\ ListOK(left) /\ Pulled(list, left, ids)
      /\ left.client = list.client /\ left.nextId = list.nextId
  BY PullTimersPulls
<1>2. new = IF \E t \in Out(list) : t.id \in ids
              THEN [left EXCEPT !.client.dead = TRUE] ELSE left
  BY DEF DeleteTimers
<1> HIDE DEF left, new
<1>3. CASE \E t \in Out(list) : t.id \in ids
  <2>1. list.client # NoTimer /\ list.client.id \in ids
    BY <1>3 DEF Out
  <2> DEFINE c == [list.client EXCEPT !.dead = TRUE]
  <2>2. c \in TimerType /\ c.id = list.client.id
    <3>1. list.client \in TimerType
      BY <2>1 DEF ListOK, ListType
    <3> QED
      BY <3>1 DEF TimerType
  <2>3. new = [left EXCEPT !.client = c]
    BY <1>1, <1>2, <1>3
  <2> HIDE DEF c
  <2>4. /\ ListOK(new) /\ new.client = c /\ new.nextId = left.nextId
        /\ Waiting(new) = Waiting(left) /\ new.active = left.active
    BY <1>1, <2>1, <2>2, <2>3, ClientChanges DEF MayBeClient
  <2>5. Pulled(list, new, ids)
    BY <1>1, <2>4 DEF Pulled
  <2> QED
    BY <1>1, <2>1, <2>4, <2>5 DEF Deleted, new, c
<1>4. CASE ~\E t \in Out(list) : t.id \in ids
  <2>1. ~(list.client # NoTimer /\ list.client.id \in ids)
    BY <1>4 DEF Out
  <2>2. new = left
    BY <1>2, <1>4
  <2> QED
    BY <1>1, <2>1, <2>2 DEF Deleted, new
<1> QED
  BY <1>3, <1>4

\* One timer gets another length, from now on.
Changed(t, length, start) ==
  [t EXCEPT !.length = length, !.last = start, !.expire = start + length]

Relengthed(list, new, id, length, start) ==
  /\ new.nextId = list.nextId
  /\ \/ \E t \in Waiting(list) :
          /\ t.id = id /\ new.client = list.client
          /\ Waiting(new) = {u \in Waiting(list) : u.id # id} \cup {Changed(t, length, start)}
          /\ Range(new.active) =
               {u \in Range(list.active) : u.id # id}
               \cup IF length = Never THEN {} ELSE {Changed(t, length, start)}
     \/ /\ list.client # NoTimer /\ list.client.id = id /\ ~list.client.dead
        /\ new.client = [list.client EXCEPT !.length = length, !.last = start]
        /\ Waiting(new) = Waiting(list) /\ new.active = list.active

LEMMA SetLengthChanges ==
  ASSUME NEW list, ListOK(list), NEW id \in Existing(list),
         NEW length \in Nat \cup {Never}, NEW start \in Nat
  PROVE  /\ ListOK(SetLength(list, id, length, start))
         /\ Relengthed(list, SetLength(list, id, length, start), id, length, start)
<1> DEFINE new == SetLength(list, id, length, start)
<1>1. list \in ListType /\ Waiting(list) \subseteq TimerType
  BY ListFields DEF ListOK
<1>2. CASE id \in {t.id : t \in Waiting(list)}
  <2> DEFINE t == CHOOSE u \in Waiting(list) : u.id = id
             u == Changed(t, length, start)
             mid == PullTimers(list, {id})
  <2>1. t \in Waiting(list) /\ t.id = id
    BY <1>2
  <2>2. new = AddTimer(mid, u)
    BY <1>2 DEF SetLength, Changed
  <2>3. /\ ListOK(mid) /\ Pulled(list, mid, {id})
        /\ mid.client = list.client /\ mid.nextId = list.nextId
    BY PullTimersPulls
  <2> HIDE DEF t, mid, new
  <2>4. t \in TimerType /\ start + length \in Nat \cup {Never}
    BY <1>1, <2>1 DEF Never
  <2>5. u \in TimerType /\ u.id = id /\ u.dead = t.dead /\ u.length = length
    BY <2>1, <2>4 DEF TimerType, Changed
  <2> HIDE DEF u
  <2>6. /\ Waiting(mid) = {v \in Waiting(list) : v.id # id}
        /\ Range(mid.active) = {v \in Range(list.active) : v.id # id}
        /\ Out(mid) = Out(list)
    BY <2>3 DEF Pulled, Out
  <2>7. ~u.dead /\ u.id < mid.nextId /\ \A v \in Waiting(mid) \cup Out(mid) : v.id # u.id
    <3>1. /\ ~t.dead /\ t.id < list.nextId
          /\ \A v \in Out(list) : t.id # v.id
      BY <2>1 DEF ListOK
    <3> QED
      BY <2>1, <2>3, <2>5, <2>6, <3>1
  <2>8. /\ ListOK(new) /\ Added(mid, new, u)
        /\ new.client = mid.client /\ new.nextId = mid.nextId
    BY <2>2, <2>3, <2>5, <2>7, AddTimerAdds
  <2>9. /\ Waiting(new) = {v \in Waiting(list) : v.id # id} \cup {u}
        /\ Range(new.active) = {v \in Range(list.active) : v.id # id}
                               \cup IF length = Never THEN {} ELSE {u}
    BY <2>5, <2>6, <2>8 DEF Added
  <2> QED
    BY <2>1, <2>3, <2>8, <2>9 DEF Relengthed, new, u
<1>3. CASE id \notin {t.id : t \in Waiting(list)}
  <2>1. list.client # NoTimer /\ list.client.id = id /\ ~list.client.dead
    BY <1>3 DEF Existing, Out
  <2> DEFINE c == [list.client EXCEPT !.length = length, !.last = start]
  <2>2. c \in TimerType /\ c.id = list.client.id
    <3>1. list.client \in TimerType
      BY <1>1, <2>1 DEF ListType
    <3> QED
      BY <3>1 DEF TimerType
  <2>3. new = [list EXCEPT !.client = c]
    BY <1>1, <1>3, <2>1 DEF SetLength, ListType
  <2> HIDE DEF c
  <2>4. /\ ListOK(new) /\ new.client = c /\ new.nextId = list.nextId
        /\ Waiting(new) = Waiting(list) /\ new.active = list.active
    BY <2>1, <2>2, <2>3, ClientChanges DEF MayBeClient
  <2> QED
    BY <2>1, <2>4 DEF Relengthed, new, c
<1> QED
  BY <1>2, <1>3

-----------------------------------------------------------------------------
(* What leaves a list fine.                                                *)

LEMMA FineFields ==
  ASSUME NEW list, NEW time, NEW ran, NEW gone, Fine(list, time, ran, gone)
  PROVE  /\ ListOK(list) /\ list \in ListType /\ time \in Nat /\ list.nextId \in Nat \ {0}
         /\ Waiting(list) \subseteq TimerType /\ Out(list) \subseteq TimerType
         /\ Range(list.active) \subseteq Waiting(list)
         /\ list.client = NoTimer => Out(list) = {}
         /\ list.client # NoTimer => Out(list) = {list.client} /\ list.client \in TimerType
<1>1. ListOK(list) /\ time \in Nat
  BY DEF Fine
<1>2. list \in ListType
  BY <1>1 DEF ListOK
<1> QED
  BY <1>1, <1>2, ListFields DEF Out, Waiting

\* A timer that is taken out has not run at this time of the clock, and was not
\* deleted.
LEMMA FineTake ==
  ASSUME NEW list, NEW time, NEW ran, NEW gone, Fine(list, time, ran, gone),
         list.client = NoTimer, HasExpired(list, time),
         NEW new, new = GetExpiredTimer(list, time)
  PROVE  /\ Fine(new, time, ran \cup {new.client.id}, gone)
         /\ new.client # NoTimer
         /\ new.client.id \notin ran /\ new.client.id \notin gone
         /\ Taken(list, new, time)
<1>1. ListOK(new) /\ Taken(list, new, time)
  BY FineFields, GetExpiredTimerTakes
<1>2. PICK h \in Range(list.active) :
        /\ h.expire <= time /\ new.client = [h EXCEPT !.last = time]
        /\ Waiting(list) = Waiting(new) \cup {h}
        /\ \A t \in Waiting(new) : t.id # h.id
  BY <1>1 DEF Taken
<1>3. h \in TimerType /\ h \in Waiting(list) /\ ~h.dead /\ time \in Nat /\ h.id < list.nextId
  BY FineFields DEF ListOK
<1>4. /\ new.client \in TimerType /\ new.client.id = h.id /\ new.client.last = time
      /\ new.client.repeat = h.repeat /\ new.client.length = h.length
      /\ new.client.dead = h.dead
  BY <1>2, <1>3 DEF TimerType
<1>5. new.client # NoTimer /\ Out(new) = {new.client} /\ new.nextId = list.nextId
  BY <1>1, <1>4, TimerFields DEF Out, Taken
<1>6. h.id \notin ran /\ h.id \notin gone
  <2>1. h.id \in ran => h.expire > time
    BY DEF Fine
  <2>2. h.id \in gone => h.dead
    BY <1>3 DEF Fine
  <2>3. h.expire \in Int
    BY <1>3, TimerFields
  <2> QED
    BY <1>2, <1>3, <2>1, <2>2, <2>3
<1>7. \A id \in (ran \cup {h.id}) \cup gone : id \in Nat /\ id < new.nextId
  <2>1. h.id \in Nat
    BY <1>3, TimerFields
  <2> QED
    BY <1>3, <1>5, <2>1 DEF Fine
<1>8. \A t \in Waiting(new) \cup Out(new) :
        (t.repeat => t.length # 0) /\ (t.id \in gone => t.dead)
  <2>1. \A t \in Waiting(new) \cup {h} :
          (t.repeat => t.length # 0) /\ (t.id \in gone => t.dead)
    BY <1>2 DEF Fine
  <2> QED
    BY <1>4, <1>5, <2>1
<1>9. \A t \in Range(new.active) : t.id \in ran \cup {h.id} => t.expire > time
  <2>1. \A t \in Range(new.active) : t \in Range(list.active) /\ t.id # h.id
    <3>1. Range(new.active) \subseteq Waiting(new)
      BY DEF Waiting
    <3> QED
      BY <1>1, <1>2, <3>1 DEF Taken
  <2> QED
    BY <2>1 DEF Fine
<1>10. Fine(new, time, ran \cup {h.id}, gone)
  BY <1>1, <1>3, <1>4, <1>5, <1>7, <1>8, <1>9 DEF Fine
<1> QED
  BY <1>1, <1>4, <1>5, <1>6, <1>10

\* What a list gets is not due if it ran, and was not deleted.
LEMMA FineAdd ==
  ASSUME NEW list, NEW time, NEW ran, NEW gone, Fine(list, time, ran, gone),
         NEW new, ListOK(new), new.nextId \in Nat, list.nextId <= new.nextId,
         NEW t, Added(list, new, t),
         new.client = NoTimer \/ new.client = list.client,
         t.repeat => t.length # 0, t.id \in gone => t.dead,
         t.length # Never /\ t.id \in ran => t.expire > time
  PROVE  Fine(new, time, ran, gone)
<1>1. Out(new) \subseteq Out(list)
  BY DEF Out
<1>2. /\ \A id \in ran \cup gone : id \in Nat /\ id < list.nextId
      /\ \A u \in Out(list) : u.last = time /\ u.id \in ran
      /\ \A u \in Waiting(list) \cup Out(list) :
           (u.repeat => u.length # 0) /\ (u.id \in gone => u.dead)
      /\ \A u \in Range(list.active) : u.id \in ran => u.expire > time
      /\ time \in Nat
  BY DEF Fine
<1>3. \A id \in ran \cup gone : id \in Nat /\ id < new.nextId
  <2>1. list.nextId \in Nat
    BY FineFields
  <2> QED
    BY <1>2, <2>1
<1>4. \A u \in Waiting(new) \cup Out(new) :
        (u.repeat => u.length # 0) /\ (u.id \in gone => u.dead)
  BY <1>1, <1>2 DEF Added
<1>5. \A u \in Range(new.active) : u.id \in ran => u.expire > time
  <2>1. \A u \in Range(new.active) : u \in Range(list.active) \/ (u = t /\ t.length # Never)
    BY DEF Added
  <2> QED
    BY <1>2, <2>1
<1> QED
  BY <1>1, <1>2, <1>3, <1>4, <1>5 DEF Fine

LEMMA FineSubmit ==
  ASSUME NEW list, NEW time, NEW ran, NEW gone, Fine(list, time, ran, gone),
         list.client # NoTimer
  PROVE  /\ Fine(SubmitTimer(list), time, ran, gone)
         /\ Submitted(list, SubmitTimer(list))
<1> DEFINE new == SubmitTimer(list)
           t == list.client
           b == [t EXCEPT !.expire = t.last + t.length]
<1>1. ListOK(new) /\ Submitted(list, new)
  BY FineFields, SubmitTimerSubmits
<1>2. /\ t \in TimerType /\ Out(list) = {t} /\ time \in Nat /\ list.nextId \in Nat
      /\ t.last = time /\ t.length \in Nat \cup {Never}
      /\ t.repeat => t.length # 0
      /\ t.id \in gone => t.dead
  <2>1. t \in TimerType /\ Out(list) = {t} /\ time \in Nat /\ list.nextId \in Nat
    BY FineFields
  <2> QED
    BY <2>1, TimerFields DEF Fine
<1>3. new.client = NoTimer /\ new.nextId = list.nextId
  BY <1>1 DEF Submitted
<1>4. /\ b.id = t.id /\ b.repeat = t.repeat /\ b.length = t.length /\ b.dead = t.dead
      /\ b.expire = t.last + t.length
  BY <1>2 DEF TimerType
<1>5. \/ Waiting(new) = Waiting(list) /\ new.active = list.active
      \/ Added(list, new, b) /\ t.repeat
  BY <1>1 DEF Submitted
<1> HIDE DEF new, t, b
<1>6. CASE Waiting(new) = Waiting(list) /\ new.active = list.active
  <2>1. Out(new) = {}
    BY <1>3 DEF Out
  <2>2. Fine(new, time, ran, gone)
    BY <1>1, <1>3, <1>6, <2>1 DEF Fine
  <2> QED
    BY <1>1, <2>2 DEF new
<1>7. CASE Added(list, new, b) /\ t.repeat
  <2>1. b.length # Never => b.expire > time
    BY <1>2, <1>4, <1>7 DEF Never
  <2>2. Fine(new, time, ran, gone)
    BY <1>1, <1>2, <1>3, <1>4, <1>7, <2>1, FineAdd
  <2> QED
    BY <1>1, <2>2 DEF new
<1> QED
  BY <1>5, <1>6, <1>7

LEMMA FineNew ==
  ASSUME NEW list, NEW time, NEW ran, NEW gone, Fine(list, time, ran, gone),
         NEW now \in Nat, NEW length \in Nat, NEW repeat \in BOOLEAN, NEW what \in Kind,
         repeat => length # 0,
         NEW new, new = NewTimer(list, now, length, repeat, what)
  PROVE  /\ Fine(new, time, ran, gone)
         /\ new.client = list.client /\ new.nextId = list.nextId + 1
         /\ Added(list, new, MadeTimer(list, now, length, repeat, what))
<1> DEFINE t == MadeTimer(list, now, length, repeat, what)
<1>1. /\ ListOK(new) /\ Added(list, new, t) /\ new.client = list.client
      /\ new.nextId = list.nextId + 1
  BY FineFields, NewTimerAdds
<1>2. t.repeat = repeat /\ t.length = length /\ t.id = list.nextId
  BY DEF MadeTimer
<1> HIDE DEF t
<1>3. /\ list.nextId \in Nat
      /\ t.id \notin ran \cup gone
  <2>1. list.nextId \in Nat
    BY FineFields
  <2>2. \A id \in ran \cup gone : id \in Nat /\ id < list.nextId
    BY DEF Fine
  <2> QED
    BY <1>2, <2>1, <2>2
<1>4. new.nextId \in Nat /\ list.nextId <= new.nextId
  BY <1>1, <1>3
<1>5. Fine(new, time, ran, gone)
  BY <1>1, <1>2, <1>3, <1>4, FineAdd
<1> QED
  BY <1>1, <1>5 DEF t

LEMMA FineDelete ==
  ASSUME NEW list, NEW time, NEW ran, NEW gone, Fine(list, time, ran, gone),
         NEW ids, \A id \in ids : id \in Nat /\ id < list.nextId
  PROVE  /\ Fine(DeleteTimers(list, ids), time, ran, gone \cup ids)
         /\ Deleted(list, DeleteTimers(list, ids), ids)
<1> DEFINE new == DeleteTimers(list, ids)
<1>1. ListOK(new) /\ Deleted(list, new, ids)
  BY FineFields, DeleteTimersDeletes
<1> HIDE DEF new
<1>2. /\ new.nextId = list.nextId
      /\ Waiting(new) = {t \in Waiting(list) : t.id \notin ids}
      /\ Range(new.active) \subseteq Range(list.active)
  BY <1>1 DEF Deleted, Pulled
<1>3. ASSUME NEW u \in Out(new)
      PROVE  \E t \in Out(list) :
               /\ u.id = t.id /\ u.last = t.last /\ u.repeat = t.repeat /\ u.length = t.length
               /\ u.dead = (t.dead \/ t.id \in ids)
  <2>1. list.client # NoTimer
    BY <1>1, <1>3 DEF Out, Deleted
  <2>2. list.client \in TimerType /\ list.client \in Out(list) /\ u = new.client
    BY <1>3, <2>1, FineFields DEF Out
  <2>3. CASE list.client.id \in ids
    <3>1. u = [list.client EXCEPT !.dead = TRUE]
      BY <1>1, <2>1, <2>2, <2>3 DEF Deleted
    <3>2. /\ u.id = list.client.id /\ u.last = list.client.last /\ u.dead = TRUE
          /\ u.repeat = list.client.repeat /\ u.length = list.client.length
      BY <2>2, <3>1 DEF TimerType
    <3> QED
      BY <2>2, <2>3, <3>2
  <2>4. CASE list.client.id \notin ids
    <3>1. u = list.client
      BY <1>1, <2>2, <2>4 DEF Deleted
    <3>2. u.dead = (u.dead \/ u.id \in ids)
      BY <2>2, <2>4, <3>1, TimerFields
    <3> QED
      BY <2>2, <3>1, <3>2
  <2> QED
    BY <2>3, <2>4
<1>4. \A id \in ran \cup (gone \cup ids) : id \in Nat /\ id < new.nextId
  BY <1>2 DEF Fine
<1>5. \A u \in Out(new) : u.last = time /\ u.id \in ran
  BY <1>3 DEF Fine
<1>6. ASSUME NEW u \in Waiting(new) \cup Out(new)
      PROVE  (u.repeat => u.length # 0) /\ (u.id \in gone \cup ids => u.dead)
  <2>1. CASE u \in Waiting(new)
    BY <1>2, <2>1 DEF Fine
  <2>2. CASE u \in Out(new)
    <3>1. PICK t \in Out(list) :
            /\ u.id = t.id /\ u.repeat = t.repeat /\ u.length = t.length
            /\ u.dead = (t.dead \/ t.id \in ids)
      BY <1>3, <2>2
    <3>2. (t.repeat => t.length # 0) /\ (t.id \in gone => t.dead)
      BY DEF Fine
    <3> QED
      BY <3>1, <3>2
  <2> QED
    BY <2>1, <2>2
<1>7. \A u \in Range(new.active) : u.id \in ran => u.expire > time
  BY <1>2 DEF Fine
<1>8. Fine(new, time, ran, gone \cup ids)
  BY <1>1, <1>4, <1>5, <1>6, <1>7 DEF Fine
<1> QED
  BY <1>1, <1>8 DEF new

LEMMA ChangedFields ==
  ASSUME NEW t \in TimerType, NEW length, NEW start
  PROVE  /\ Changed(t, length, start).id = t.id
         /\ Changed(t, length, start).repeat = t.repeat
         /\ Changed(t, length, start).what = t.what
         /\ Changed(t, length, start).dead = t.dead
         /\ Changed(t, length, start).length = length
         /\ Changed(t, length, start).expire = start + length
  BY DEF Changed, TimerType

LEMMA FineSetLength ==
  ASSUME NEW list, NEW time, NEW ran, NEW gone, Fine(list, time, ran, gone),
         NEW id \in Existing(list), NEW length \in (Nat \ {0}) \cup {Never}
  PROVE  /\ Fine(SetLength(list, id, length, time), time, ran, gone)
         /\ Relengthed(list, SetLength(list, id, length, time), id, length, time)
<1> DEFINE new == SetLength(list, id, length, time)
<1>1. ListOK(new) /\ Relengthed(list, new, id, length, time)
  BY FineFields, SetLengthChanges
<1> HIDE DEF new
<1>2. /\ \A i \in ran \cup gone : i \in Nat /\ i < list.nextId
      /\ \A u \in Out(list) : u.last = time /\ u.id \in ran
      /\ \A u \in Waiting(list) \cup Out(list) :
           (u.repeat => u.length # 0) /\ (u.id \in gone => u.dead)
      /\ \A u \in Range(list.active) : u.id \in ran => u.expire > time
      /\ time \in Nat
  BY DEF Fine
<1>3. new.nextId = list.nextId
  BY <1>1 DEF Relengthed
<1>4. length # 0 /\ (length # Never => time + length > time)
  BY <1>2 DEF Never
<1>5. CASE \E t \in Waiting(list) :
             /\ t.id = id /\ new.client = list.client
             /\ Waiting(new) = {u \in Waiting(list) : u.id # id} \cup {Changed(t, length, time)}
             /\ Range(new.active) =
                  {u \in Range(list.active) : u.id # id}
                  \cup IF length = Never THEN {} ELSE {Changed(t, length, time)}
  <2>1. PICK t \in Waiting(list) :
          /\ t.id = id /\ new.client = list.client
          /\ Waiting(new) = {u \in Waiting(list) : u.id # id} \cup {Changed(t, length, time)}
          /\ Range(new.active) =
               {u \in Range(list.active) : u.id # id}
               \cup IF length = Never THEN {} ELSE {Changed(t, length, time)}
    BY <1>5
  <2> DEFINE c == Changed(t, length, time)
  <2>2. /\ c.id = id /\ c.repeat = t.repeat /\ c.dead = t.dead
        /\ c.length = length /\ c.expire = time + length
    BY <2>1, FineFields, ChangedFields
  <2>3. Waiting(new) \subseteq Waiting(list) \cup {c}
    BY <2>1
  <2>4. \A u \in Range(new.active) : u \in Range(list.active) \/ (u = c /\ length # Never)
    BY <2>1
  <2> HIDE DEF c
  <2>5. Out(new) = Out(list)
    BY <2>1 DEF Out
  <2>6. \A u \in Waiting(new) \cup Out(new) :
          (u.repeat => u.length # 0) /\ (u.id \in gone => u.dead)
    BY <1>2, <1>4, <2>1, <2>2, <2>3, <2>5
  <2>7. \A u \in Range(new.active) : u.id \in ran => u.expire > time
    BY <1>2, <1>4, <2>2, <2>4
  <2>8. Fine(new, time, ran, gone)
    BY <1>1, <1>2, <1>3, <2>5, <2>6, <2>7 DEF Fine
  <2> QED
    BY <1>1, <2>8 DEF new
<1>6. CASE /\ list.client # NoTimer /\ list.client.id = id
           /\ new.client = [list.client EXCEPT !.length = length, !.last = time]
           /\ Waiting(new) = Waiting(list) /\ new.active = list.active
  <2> DEFINE t == list.client
             c == new.client
  <2>1. t \in TimerType /\ t \in Out(list)
    BY <1>6, FineFields
  <2>2. /\ c.id = t.id /\ c.repeat = t.repeat /\ c.dead = t.dead
        /\ c.length = length /\ c.last = time
    BY <1>6, <2>1 DEF TimerType
  <2>3. \A u \in Out(new) : u = c
    BY DEF Out
  <2> HIDE DEF t, c
  <2>4. \A u \in Out(new) : u.last = time /\ u.id \in ran
    BY <1>2, <2>1, <2>2, <2>3
  <2>5. \A u \in Waiting(new) \cup Out(new) :
          (u.repeat => u.length # 0) /\ (u.id \in gone => u.dead)
    BY <1>2, <1>4, <1>6, <2>1, <2>2, <2>3
  <2>6. Fine(new, time, ran, gone)
    BY <1>1, <1>2, <1>3, <1>6, <2>4, <2>5 DEF Fine
  <2> QED
    BY <1>1, <2>6 DEF new
<1> QED
  BY <1>1, <1>5, <1>6 DEF Relengthed

\* Nothing has run yet at another time of the clock.
LEMMA FineTime ==
  ASSUME NEW list, NEW time, NEW ran, NEW gone, Fine(list, time, ran, gone),
         list.client = NoTimer, NEW later \in Nat
  PROVE  Fine(list, later, {}, gone)
<1>1. Out(list) = {}
  BY DEF Out
<1> QED
  BY <1>1 DEF Fine

LEMMA FineClear ==
  ASSUME NEW list, NEW time, NEW ran, NEW gone, Fine(list, time, ran, gone)
  PROVE  /\ Fine(Clear(list), time, ran, gone)
         /\ Clear(list).client = list.client
         /\ Waiting(Clear(list)) = {} /\ DOMAIN Clear(list).active = {}
<1> DEFINE new == Clear(list)
<1>1. list \in ListType
  BY FineFields
<1>2. <<>> \in Seq(TimerType) /\ DOMAIN <<>> = {} /\ Range(<<>>) = {}
  <2>1. <<>> \in Seq(TimerType) /\ Len(<<>>) = 0
    BY EmptySeq
  <2>2. DOMAIN <<>> = 1 .. 0
    BY <2>1, LenProperties
  <2> QED
    BY <2>1, <2>2 DEF Range
<1>3. new \in ListType
  BY <1>1, <1>2 DEF Clear, ListType
<1>4. /\ new.active = <<>> /\ new.inactive = <<>>
      /\ new.client = list.client /\ new.nextId = list.nextId
  BY <1>1 DEF Clear, ListType
<1> HIDE DEF new
<1>5. Waiting(new) = {} /\ Out(new) = Out(list)
  BY <1>2, <1>4 DEF Waiting, Out
<1>6. ListOK(new)
  <2>1. \A t \in Out(list) : t.id < list.nextId
    BY FineFields DEF ListOK
  <2>2. Distinct(<<>>)
    BY <1>2 DEF Distinct
  <2> QED
    BY <1>2, <1>3, <1>4, <1>5, <2>1, <2>2 DEF ListOK
<1>7. Fine(new, time, ran, gone)
  BY <1>2, <1>4, <1>5, <1>6 DEF Fine
<1> QED
  BY <1>2, <1>4, <1>5, <1>7 DEF new

-----------------------------------------------------------------------------
(* What follows from the invariant.                                        *)

\* What the invariant says of base_timers_, in the form the proofs use.
LEMMA BaseFacts ==
  ASSUME IInv
  PROVE  /\ Fine(base, baseTime, ranNow.base, deleted.base)
         /\ ListOK(base) /\ base \in ListType /\ base.nextId \in Nat \ {0}
         /\ Waiting(base) \subseteq TimerType /\ Out(base) \subseteq TimerType
         /\ Range(base.active) \subseteq Waiting(base)
         /\ base.client # NoTimer => Out(base) = {base.client} /\ base.client \in TimerType
                                     /\ base.client.last = baseTime
         /\ base.client = NoTimer => Out(base) = {}
         /\ \A t \in BaseTimers : t \in TimerType /\ t.id \in Nat \ {0} /\ t.id < base.nextId
         /\ baseTime \in Nat /\ target \in Nat /\ Step \in Nat \ {0}
         /\ Session \in Scene /\ Session \notin Activity /\ Activity \subseteq Scene
         /\ \A c \in Scene : sceneTime[c] \in Nat
<1>1. Fine(base, baseTime, ranNow.base, deleted.base)
  BY DEF IInv, AllFine
<1>2. /\ ListOK(base) /\ base \in ListType /\ base.nextId \in Nat \ {0}
      /\ Waiting(base) \subseteq TimerType /\ Out(base) \subseteq TimerType
      /\ Range(base.active) \subseteq Waiting(base)
      /\ base.client # NoTimer => Out(base) = {base.client} /\ base.client \in TimerType
      /\ base.client = NoTimer => Out(base) = {}
  BY <1>1, FineFields
<1>3. base.client # NoTimer => base.client.last = baseTime
  BY <1>1, <1>2 DEF Fine
<1>4. \A t \in BaseTimers : t \in TimerType /\ t.id \in Nat \ {0} /\ t.id < base.nextId
  <2>1. \A t \in BaseTimers : t \in TimerType /\ t.id < base.nextId
    BY <1>2 DEF BaseTimers, ListOK
  <2> QED
    BY <2>1, TimerFields
<1>5. /\ baseTime \in Nat /\ target \in Nat /\ Step \in Nat \ {0}
      /\ Session \in Scene /\ Session \notin Activity /\ Activity \subseteq Scene
      /\ \A c \in Scene : sceneTime[c] \in Nat
  BY BoundAssumption, StepAssumption DEF IInv, PlainTypes, Scene
<1> QED
  BY <1>1, <1>2, <1>3, <1>4, <1>5

LEMMA TypesFollow ==
  ASSUME IInv
  PROVE  TypeOK
  BY DEF IInv, PlainTypes, AllFine, Fine, TypeOK

LEMMA PunctualFollows ==
  ASSUME IInv
  PROVE  Punctual
<1>1. sceneTime[Session] <= baseTime
  BY DEF IInv, BaseInv, SessionSteps
<1>2. baseTime <= sceneTime[Session] + Step
  <2>1. PICK t \in BaseTimers : t.what = StepOf(Session)
    BY DEF IInv, BaseInv, SessionSteps
  <2>2. CASE t \in Waiting(base)
    BY <2>1, <2>2 DEF IInv, BaseInv, SessionSteps
  <2>3. CASE t \in Out(base)
    BY <2>1, <2>3, BaseFacts DEF IInv, BaseInv, SessionSteps
  <2> QED
    BY <2>2, <2>3 DEF BaseTimers
<1>3. \A t \in Range(base.active) : baseTime <= t.expire + Step
  BY DEF IInv, BaseInv, BasePunctual
<1>4. \A c \in Living : \A t \in Range(sim[c].active) : sceneTime[c] <= t.expire + Step
  BY DEF IInv, SimPunctual, NotLate, Living, Scene, Range
<1> QED
  BY <1>1, <1>2, <1>3, <1>4 DEF Punctual

LEMMA OrphansFollow ==
  ASSUME IInv
  PROVE  NoOrphans
<1> SUFFICES ASSUME NEW t \in BaseTimers, ~t.dead
             PROVE  t.what.of \in Living
  BY BaseFacts DEF NoOrphans, BaseTimers, ListOK
<1>1. t.what.of \in Scene
  BY BaseFacts, TimerFields DEF Kind
<1>2. t.what.of \in Activity => alive[t.what.of]
  BY DEF IInv, BaseInv, Owners
<1> QED
  BY <1>1, <1>2 DEF Living, Scene

-----------------------------------------------------------------------------
(* What keeps the invariants of base_timers_.                              *)

\* A timer that is as another was.
Kin(t, u) ==
  t.id = u.id /\ t.what = u.what /\ t.repeat = u.repeat /\ t.dead = u.dead
  /\ t.length = u.length

\* A step that only makes timers wait or not, or expire at another time.
LEMMA KinKeeps ==
  ASSUME StepTimers, Owners, UNCHANGED activityVars, base.nextId \in Nat,
         base'.nextId = base.nextId,
         \A t \in BaseTimers' : \E u \in BaseTimers : Kin(t, u)
  PROVE  StepTimers' /\ Owners'
<1>1. /\ started' = started /\ paused' = paused /\ speed' = speed /\ alive' = alive
      /\ stepId' = stepId /\ owned' = owned
  BY DEF activityVars
<1>2. StepTimers'
  BY <1>1 DEF StepTimers, Kin
<1>3. Owners'
  BY <1>1 DEF Owners, Kin
<1> QED
  BY <1>2, <1>3

\* Nothing changes for base_timers_.
LEMMA BaseStill ==
  ASSUME BaseInv, UNCHANGED <<base, baseTime, activityVars>>,
         sceneTime'[Session] = sceneTime[Session]
  PROVE  BaseInv'
<1>1. BaseTimers' = BaseTimers /\ Waiting(base)' = Waiting(base) /\ Out(base)' = Out(base)
  BY DEF BaseTimers, Waiting, Out
<1>2. SessionSteps' /\ BasePunctual'
  BY <1>1 DEF BaseInv, SessionSteps, BasePunctual
<1>3. StepTimers' /\ Owners'
  BY <1>1 DEF BaseInv, StepTimers, Owners, activityVars
<1> QED
  BY <1>2, <1>3 DEF BaseInv

\* A timer is taken out.
LEMMA BaseTake ==
  ASSUME IInv, base.client = NoTimer, HasExpired(base, baseTime),
         base' = GetExpiredTimer(base, baseTime),
         UNCHANGED <<baseTime, sceneTime, activityVars>>
  PROVE  BaseInv'
<1>1. ListOK(base') /\ Taken(base, base', baseTime)
  BY BaseFacts, GetExpiredTimerTakes
<1>2. base'.nextId = base.nextId /\ base.nextId \in Nat
  BY <1>1, BaseFacts DEF Taken
<1>3. PICK h \in Range(base.active) :
        /\ h.expire <= baseTime /\ base'.client = [h EXCEPT !.last = baseTime]
        /\ Waiting(base) = Waiting(base') \cup {h}
        /\ \A t \in Waiting(base') : t.id # h.id
  BY <1>1 DEF Taken
<1> DEFINE c == base'.client
<1>4. h \in TimerType /\ h \in Waiting(base) /\ baseTime \in Nat
  BY BaseFacts
<1>5. Kin(c, h) /\ c \in TimerType
  BY <1>3, <1>4 DEF TimerType, Kin
<1>6. c # NoTimer /\ Waiting(base)' = Waiting(base') /\ Out(base)' = {c}
  BY <1>5, TimerFields DEF Waiting, Out
<1> HIDE DEF c
<1>7. BaseTimers' = Waiting(base') \cup {c} /\ BaseTimers = Waiting(base') \cup {h}
  BY <1>3, <1>6, BaseFacts DEF BaseTimers
<1>8. StepTimers' /\ Owners'
  <2>1. \A t \in BaseTimers' : \E u \in BaseTimers : Kin(t, u)
    BY <1>5, <1>7 DEF Kin
  <2> QED
    BY <1>2, <2>1, KinKeeps DEF IInv, BaseInv
<1>9. SessionSteps'
  <2>1. /\ \A t \in BaseTimers : t.what = StepOf(Session) =>
             /\ t.id = 1 /\ t.length = Step /\ t.repeat /\ ~t.dead
             /\ t \in Waiting(base) => /\ t.expire = sceneTime[Session] + Step
                                       /\ baseTime <= t.expire
        /\ \E t \in BaseTimers : t.what = StepOf(Session)
        /\ sceneTime[Session] <= baseTime
    BY DEF IInv, BaseInv, SessionSteps
  <2>2. c \notin Waiting(base')
    BY <1>3, <1>5 DEF Kin
  <2>3. c.what = StepOf(Session) => baseTime = sceneTime[Session] + Step
    <3>1. SUFFICES ASSUME h.what = StepOf(Session)
                   PROVE  baseTime = sceneTime[Session] + Step
      BY <1>5 DEF Kin
    <3>2. h.expire = sceneTime[Session] + Step /\ baseTime <= h.expire
      BY <1>4, <1>7, <2>1, <3>1
    <3>3. h.expire \in Int
      BY <1>4, TimerFields
    <3> QED
      BY <1>3, <1>4, <3>2, <3>3
  <2>4. \A t \in BaseTimers' : t.what = StepOf(Session) =>
          /\ t.id = 1 /\ t.length = Step /\ t.repeat /\ ~t.dead
          /\ t \in Waiting(base') => /\ t.expire = sceneTime[Session] + Step
                                     /\ baseTime <= t.expire
          /\ t \in {c} => baseTime = sceneTime[Session] + Step
    BY <1>3, <1>5, <1>7, <2>1, <2>2, <2>3 DEF Kin
  <2>5. \E t \in BaseTimers' : t.what = StepOf(Session)
    BY <1>5, <1>7, <2>1 DEF Kin
  <2> QED
    BY <1>6, <2>1, <2>4, <2>5 DEF SessionSteps
<1>10. BasePunctual'
  <2>1. Range(base'.active) \subseteq Range(base.active)
    BY <1>1 DEF Taken
  <2>2. BasePunctual
    BY DEF IInv, BaseInv
  <2> QED
    BY <2>1, <2>2 DEF BasePunctual
<1> QED
  BY <1>8, <1>9, <1>10 DEF BaseInv

\* The timer that was out comes back.  If it is the session's step timer, a
\* step has been taken.
LEMMA BaseReturn ==
  ASSUME IInv, base.client # NoTimer, base' = SubmitTimer(base),
         UNCHANGED <<baseTime, activityVars>>,
         sceneTime'[Session] = IF base.client.what = StepOf(Session)
                                 THEN sceneTime[Session] + Step ELSE sceneTime[Session]
  PROVE  BaseInv'
<1> DEFINE t == base.client
           b == [t EXCEPT !.expire = t.last + t.length]
<1>1. Submitted(base, base')
  BY BaseFacts, SubmitTimerSubmits
<1>2. base'.nextId = base.nextId /\ base.nextId \in Nat /\ base'.client = NoTimer
  BY <1>1, BaseFacts DEF Submitted
<1>3. t \in TimerType /\ t \in BaseTimers /\ t \in Out(base) /\ t.last = baseTime /\ baseTime \in Nat
  BY BaseFacts DEF BaseTimers
<1>4. Kin(b, t) /\ b \in TimerType /\ b.expire = baseTime + t.length
  <2>1. t.last + t.length \in Nat \cup {Never}
    BY <1>3 DEF TimerType, Never
  <2> QED
    BY <1>3, <2>1 DEF TimerType, Kin
<1>5. Waiting(base)' = Waiting(base') /\ Out(base)' = {}
  BY <1>2 DEF Waiting, Out
<1>6. BaseTimers' = Waiting(base')
  BY <1>5 DEF BaseTimers
<1>7. /\ Waiting(base) \subseteq Waiting(base')
      /\ Waiting(base') \subseteq Waiting(base) \cup {b}
      /\ ~t.dead /\ t.repeat => b \in Waiting(base')
      /\ Range(base'.active) \subseteq Range(base.active)
                                       \cup IF t.length = Never THEN {} ELSE {b}
  <2>1. b.length = t.length
    BY <1>4 DEF Kin
  <2> QED
    BY <1>1, <2>1 DEF Submitted, Added
<1> HIDE DEF t, b
<1>8. StepTimers' /\ Owners'
  <2>1. \A u \in BaseTimers' : \E v \in BaseTimers : Kin(u, v)
    BY <1>3, <1>4, <1>6, <1>7 DEF Kin, BaseTimers
  <2> QED
    BY <1>2, <2>1, KinKeeps DEF IInv, BaseInv
<1>9. BasePunctual'
  <2>1. BasePunctual
    BY DEF IInv, BaseInv
  <2>2. t.length # Never => baseTime <= b.expire + Step
    <3>1. t.length \in Nat \cup {Never} /\ Step \in Nat
      BY <1>3, TimerFields, BaseFacts
    <3> QED
      BY <1>3, <1>4, <3>1
  <2>3. \A u \in Range(base'.active) : u \in Range(base.active) \/ (u = b /\ t.length # Never)
    BY <1>7
  <2> QED
    BY <2>1, <2>2, <2>3 DEF BasePunctual
<1>10. SessionSteps'
  <2>1. /\ \A u \in BaseTimers : u.what = StepOf(Session) =>
             /\ u.id = 1 /\ u.length = Step /\ u.repeat /\ ~u.dead
             /\ u \in Waiting(base) => /\ u.expire = sceneTime[Session] + Step
                                       /\ baseTime <= u.expire
             /\ u \in Out(base) => baseTime = sceneTime[Session] + Step
        /\ \E u \in BaseTimers : u.what = StepOf(Session)
        /\ sceneTime[Session] <= baseTime
    BY DEF IInv, BaseInv, SessionSteps
  <2>2. BaseTimers = Waiting(base) \cup {t}
    BY BaseFacts DEF BaseTimers, t
  <2>3. \A u \in Waiting(base) : u.id # t.id
    BY <1>3, BaseFacts DEF ListOK
  <2>4. CASE t.what = StepOf(Session)
    <3>1. /\ t.length = Step /\ t.id = 1 /\ t.repeat /\ ~t.dead
          /\ baseTime = sceneTime[Session] + Step
      BY <1>3, <2>1, <2>4
    <3>2. sceneTime'[Session] = baseTime /\ b.expire = sceneTime'[Session] + Step
      BY <1>4, <2>4, <3>1 DEF t
    <3>3. \A u \in BaseTimers' : u.what = StepOf(Session) => u = b
      BY <1>6, <1>7, <2>1, <2>2, <2>3, <3>1
    <3>4. b \in BaseTimers' /\ b.what = StepOf(Session) /\ b.id = 1 /\ b.length = Step
          /\ b.repeat /\ ~b.dead
      BY <1>4, <1>6, <1>7, <2>4, <3>1 DEF Kin
    <3>5. baseTime <= b.expire /\ baseTime <= baseTime
      BY <1>3, <3>2, BaseFacts
    <3> QED
      BY <1>5, <3>2, <3>3, <3>4, <3>5 DEF SessionSteps
  <2>5. CASE t.what # StepOf(Session)
    <3>1. sceneTime'[Session] = sceneTime[Session] /\ b.what # StepOf(Session)
      BY <1>4, <2>5 DEF t, Kin
    <3>2. \E u \in BaseTimers' : u.what = StepOf(Session)
      BY <1>6, <1>7, <2>1, <2>2, <2>5
    <3>3. \A u \in BaseTimers' : u.what = StepOf(Session) => u \in Waiting(base)
      BY <1>6, <1>7, <3>1
    <3> QED
      BY <1>5, <2>1, <2>2, <3>1, <3>2, <3>3 DEF SessionSteps
  <2> QED
    BY <2>4, <2>5
<1> QED
  BY <1>8, <1>9, <1>10 DEF BaseInv

\* There is one more timer, u.
OneMore(u) ==
  /\ u \in TimerType /\ u.id = base.nextId /\ ~u.dead
  /\ base'.nextId = base.nextId + 1 /\ base'.client = base.client
  /\ Waiting(base') = Waiting(base) \cup {u}
  /\ Range(base'.active) \subseteq Range(base.active)
                                    \cup IF u.length = Never THEN {} ELSE {u}

\* It is none of the session's steps, and not late.
LEMMA BaseGrows ==
  ASSUME IInv, NEW u, OneMore(u), UNCHANGED <<baseTime, sceneTime>>,
         u.what # StepOf(Session), u.length # Never => baseTime <= u.expire + Step
  PROVE  SessionSteps' /\ BasePunctual'
<1>1. /\ Waiting(base)' = Waiting(base) \cup {u} /\ Out(base)' = Out(base)
      /\ BaseTimers' = BaseTimers \cup {u}
  BY DEF OneMore, Waiting, Out, BaseTimers
<1>2. \A t \in BaseTimers : t.id # u.id
  BY BaseFacts DEF OneMore
<1>3. SessionSteps'
  BY <1>1, <1>2 DEF IInv, BaseInv, SessionSteps
<1>4. BasePunctual'
  <2>1. BasePunctual
    BY DEF IInv, BaseInv
  <2>2. \A t \in Range(base'.active) : t \in Range(base.active) \/ (t = u /\ u.length # Never)
    BY DEF OneMore
  <2> QED
    BY <2>1, <2>2 DEF BasePunctual
<1> QED
  BY <1>3, <1>4

\* The new timer calls, in the context of c.
LEMMA BaseCall ==
  ASSUME IInv, NEW u, OneMore(u), UNCHANGED <<baseTime, sceneTime>>,
         NEW c \in Living, u.what = CallOf(c), u.length # Never => baseTime <= u.expire + Step,
         UNCHANGED <<started, paused, speed, alive, stepId>>,
         owned' = [a \in Activity |->
                     IF a = c THEN owned[a] \cup {base.nextId} ELSE owned[a]]
  PROVE  BaseInv'
<1>1. u.what.type = "call" /\ u.what.of = c /\ \A a : u.what # StepOf(a)
  BY DEF CallOf, StepOf
<1>2. SessionSteps' /\ BasePunctual'
  BY <1>1, BaseGrows
<1>3. BaseTimers' = BaseTimers \cup {u}
  BY DEF OneMore, Waiting, Out, BaseTimers
<1>4. /\ \A t \in BaseTimers : t.id \in Nat /\ t.id < base.nextId
      /\ u.id = base.nextId /\ base.nextId \in Nat /\ base'.nextId = base.nextId + 1
  BY BaseFacts DEF OneMore
<1>5. \A a \in Activity : stepId[a] \in Nat /\ stepId[a] < base.nextId /\ owned[a] \subseteq Nat
                          /\ \A id \in owned[a] : id < base.nextId
  BY DEF IInv, PlainTypes, BaseInv, Owners
<1>6. StepTimers'
  <2>1. StepTimers
    BY DEF IInv, BaseInv
  <2> QED
    BY <1>1, <1>3, <1>4, <1>5, <2>1 DEF StepTimers
<1>7. Owners'
  <2>1. Owners
    BY DEF IInv, BaseInv
  <2>2. \A a \in Activity : stepId'[a] < base'.nextId /\ \A id \in owned'[a] : id < base'.nextId
    <3>1. \A a \in Activity : owned'[a] \subseteq owned[a] \cup {base.nextId}
      OBVIOUS
    <3>2. \A n \in Nat : n < base.nextId => n < base'.nextId
      BY <1>4
    <3>3. base.nextId < base'.nextId
      BY <1>4
    <3> QED
      BY <1>5, <3>1, <3>2, <3>3
  <2>3. \A t \in BaseTimers', a \in Activity : t.id \in owned'[a] => t.what.of = a
    BY <1>1, <1>3, <1>4, <1>5, <2>1 DEF Owners
  <2>4. c \in Activity => alive[c]
    BY StepAssumption DEF Living
  <2>5. \A t \in BaseTimers', a \in Activity :
          t.what.of = a /\ ~t.dead => alive'[a] /\ t.id \in owned'[a]
    BY <1>1, <1>3, <1>4, <2>1, <2>4 DEF Owners
  <2> QED
    BY <2>2, <2>3, <2>5 DEF Owners
<1> QED
  BY <1>2, <1>6, <1>7 DEF BaseInv

\* The new timer steps a.
LEMMA BaseStart ==
  ASSUME IInv, NEW u, OneMore(u), UNCHANGED <<baseTime, sceneTime>>,
         NEW a \in Activity, alive[a], ~started[a],
         u.what = StepOf(a), u.repeat, u.length = IF paused[a] THEN Never ELSE speed[a],
         u.length # Never => baseTime <= u.expire + Step,
         UNCHANGED <<paused, speed, alive>>,
         started' = [started EXCEPT ![a] = TRUE],
         stepId' = [stepId EXCEPT ![a] = base.nextId],
         owned' = [owned EXCEPT ![a] = @ \cup {base.nextId}]
  PROVE  BaseInv'
<1>1. u.what.type = "step" /\ u.what.of = a /\ \A c : u.what = StepOf(c) => c = a
  BY DEF StepOf
<1>2. SessionSteps' /\ BasePunctual'
  BY <1>1, BaseGrows, StepAssumption
<1>3. BaseTimers' = BaseTimers \cup {u}
  BY DEF OneMore, Waiting, Out, BaseTimers
<1>4. /\ \A t \in BaseTimers : t.id \in Nat /\ t.id < base.nextId
      /\ u.id = base.nextId /\ base.nextId \in Nat /\ base'.nextId = base.nextId + 1 /\ ~u.dead
  BY BaseFacts DEF OneMore
<1>5. /\ started \in [Activity -> BOOLEAN] /\ stepId \in [Activity -> Nat]
      /\ owned \in [Activity -> SUBSET Nat]
      /\ \A b \in Activity : stepId[b] < base.nextId /\ \A id \in owned[b] : id < base.nextId
  BY DEF IInv, PlainTypes, BaseInv, Owners
<1>6. /\ \A b \in Activity : started'[b] = (started[b] \/ b = a)
      /\ \A b \in Activity : stepId'[b] = IF b = a THEN base.nextId ELSE stepId[b]
      /\ \A b \in Activity : owned'[b] = IF b = a THEN owned[b] \cup {base.nextId} ELSE owned[b]
  <2>1. \A b \in Activity : started[b] \in BOOLEAN
    BY <1>5
  <2>2. \A b \in Activity : started'[b] = (started[b] \/ b = a)
    BY <1>5, <2>1, Zenon
  <2> QED
    BY <1>5, <2>2
<1>7. StepTimers'
  <2>1. /\ \A t \in BaseTimers, b \in Activity : t.what = StepOf(b) =>
             /\ started[b] /\ t.id = stepId[b] /\ t.repeat /\ ~t.dead
             /\ t.length = IF paused[b] THEN Never ELSE speed[b]
        /\ \A t \in BaseTimers, b \in Activity :
             started[b] /\ t.id = stepId[b] => t.what = StepOf(b)
    BY DEF IInv, BaseInv, StepTimers
  <2>2. ASSUME NEW t \in BaseTimers', NEW b \in Activity, t.what = StepOf(b)
        PROVE  /\ started'[b] /\ t.id = stepId'[b] /\ t.repeat /\ ~t.dead
               /\ t.length = IF paused'[b] THEN Never ELSE speed'[b]
    <3>1. CASE t = u
      BY <1>1, <1>4, <1>6, <2>2, <3>1
    <3>2. CASE t \in BaseTimers
      BY <1>6, <2>1, <2>2, <3>2
    <3> QED
      BY <1>3, <3>1, <3>2
  <2>3. ASSUME NEW t \in BaseTimers', NEW b \in Activity, started'[b], t.id = stepId'[b]
        PROVE  t.what = StepOf(b)
    <3>1. CASE t = u
      BY <1>4, <1>5, <1>6, <2>3, <3>1
    <3>2. CASE t \in BaseTimers
      BY <1>4, <1>5, <1>6, <2>1, <2>3, <3>2
    <3> QED
      BY <1>3, <3>1, <3>2
  <2> QED
    BY <2>2, <2>3 DEF StepTimers
<1>8. Owners'
  <2>1. Owners
    BY DEF IInv, BaseInv
  <2>2. \A b \in Activity : stepId'[b] < base'.nextId /\ \A id \in owned'[b] : id < base'.nextId
    <3>1. \A b \in Activity : owned'[b] \subseteq owned[b] \cup {base.nextId}
      BY <1>6
    <3>2. \A n \in Nat : n < base.nextId => n < base'.nextId
      BY <1>4
    <3>3. base.nextId < base'.nextId
      BY <1>4
    <3>4. \A b \in Activity : stepId[b] \in Nat /\ owned[b] \subseteq Nat
      BY <1>5
    <3> QED
      BY <1>5, <1>6, <3>1, <3>2, <3>3, <3>4
  <2>3. \A t \in BaseTimers', b \in Activity : t.id \in owned'[b] => t.what.of = b
    BY <1>1, <1>3, <1>4, <1>5, <1>6, <2>1 DEF Owners
  <2>4. ASSUME NEW t \in BaseTimers', NEW b \in Activity, t.what.of = b, ~t.dead
        PROVE  alive[b] /\ t.id \in owned'[b]
    <3>1. CASE t = u
      <4>1. b = a /\ t.id = base.nextId
        BY <1>1, <1>4, <2>4, <3>1
      <4>2. base.nextId \in owned'[a]
        BY <1>6
      <4> QED
        BY <4>1, <4>2
    <3>2. CASE t \in BaseTimers
      <4>1. alive[b] /\ t.id \in owned[b]
        BY <2>1, <2>4, <3>2 DEF Owners
      <4> QED
        BY <1>6, <4>1
    <3> QED
      BY <1>3, <3>1, <3>2
  <2>5. \A t \in BaseTimers', b \in Activity :
          t.what.of = b /\ ~t.dead => alive'[b] /\ t.id \in owned'[b]
    BY <2>4
  <2> QED
    BY <2>2, <2>3, <2>5 DEF Owners
<1> QED
  BY <1>2, <1>7, <1>8 DEF BaseInv

\* Timers that go.
LEMMA BaseDelete ==
  ASSUME IInv, NEW ids, base' = DeleteTimers(base, ids),
         UNCHANGED <<baseTime, sceneTime, started, paused, speed, stepId>>,
         \A t \in BaseTimers : t.id \in ids => t.what # StepOf(Session),
         \A t \in Out(base) : t.id \in ids => t.what.type = "call",
         \A a \in Activity : owned'[a] \subseteq owned[a],
         \A t \in BaseTimers, a \in Activity :
           t.what.of = a /\ ~t.dead /\ t.id \notin ids => alive'[a] /\ t.id \in owned'[a]
  PROVE  /\ BaseInv'
         /\ base.client = NoTimer => base'.client = NoTimer
         /\ base.client # NoTimer => base'.client # NoTimer /\ base'.client.what = base.client.what
<1>1. Deleted(base, base', ids) /\ ListOK(base')
  BY BaseFacts, DeleteTimersDeletes
<1>2. /\ base'.nextId = base.nextId
      /\ Waiting(base') = {t \in Waiting(base) : t.id \notin ids}
      /\ Range(base'.active) \subseteq Range(base.active)
      /\ Waiting(base)' = Waiting(base')
  BY <1>1 DEF Deleted, Pulled, Waiting
<1> DEFINE Same(u, t) == /\ u.id = t.id /\ u.what = t.what /\ u.repeat = t.repeat
                         /\ u.length = t.length
                         /\ \/ u = t /\ t.id \notin ids
                            \/ u.dead /\ t \in Out(base) /\ t.id \in ids
<1>4. /\ \A u \in Out(base)' : \E t \in Out(base) : Same(u, t)
      /\ base.client = NoTimer => base'.client = NoTimer
      /\ base.client # NoTimer => base'.client # NoTimer /\ base'.client.what = base.client.what
  <2>1. CASE base.client = NoTimer
    <3>1. base'.client = NoTimer /\ Out(base)' = {}
      BY <1>1, <2>1 DEF Deleted, Out
    <3> QED
      BY <2>1, <3>1
  <2>2. CASE base.client # NoTimer
    <3>1. base.client \in TimerType /\ Out(base) = {base.client}
      BY <2>2, BaseFacts
    <3>2. CASE base.client.id \in ids
      <4>1. base'.client = [base.client EXCEPT !.dead = TRUE]
        BY <1>1, <2>2, <3>2 DEF Deleted
      <4>2. /\ base'.client.id = base.client.id /\ base'.client.what = base.client.what
            /\ base'.client.repeat = base.client.repeat /\ base'.client.dead
            /\ base'.client.length = base.client.length /\ base'.client \in TimerType
        BY <3>1, <4>1 DEF TimerType
      <4>3. Out(base)' = {base'.client} /\ base'.client # NoTimer
        BY <4>2, TimerFields DEF Out
      <4> QED
        BY <2>2, <3>1, <3>2, <4>2, <4>3
    <3>3. CASE base.client.id \notin ids
      <4>1. base'.client = base.client
        BY <1>1, <3>3 DEF Deleted
      <4>2. Out(base)' = Out(base)
        BY <4>1 DEF Out
      <4> QED
        BY <2>2, <3>1, <3>3, <4>1, <4>2
    <3> QED
      BY <3>2, <3>3
  <2> QED
    BY <2>1, <2>2
<1>5. \A u \in BaseTimers' : \E t \in BaseTimers : Same(u, t)
  BY <1>2, <1>4 DEF BaseTimers
<1>6. /\ \A t \in BaseTimers : t.what = StepOf(Session) =>
           /\ t.id = 1 /\ t.length = Step /\ t.repeat /\ ~t.dead
           /\ t \in Waiting(base) => /\ t.expire = sceneTime[Session] + Step
                                     /\ baseTime <= t.expire
           /\ t \in Out(base) => baseTime = sceneTime[Session] + Step
      /\ \E t \in BaseTimers : t.what = StepOf(Session)
      /\ sceneTime[Session] <= baseTime
  BY DEF IInv, BaseInv, SessionSteps
<1>7. SessionSteps'
  <2>1. PICK t \in BaseTimers : t.what = StepOf(Session)
    BY <1>6
  <2>2. t.id \notin ids
    BY <2>1
  <2>3. t \in BaseTimers'
    <3>1. CASE t \in Waiting(base)
      BY <1>2, <2>2, <3>1 DEF BaseTimers
    <3>2. CASE t \in Out(base)
      <4>1. base.client = t
        BY <3>2 DEF Out
      <4>2. base'.client = t
        BY <1>1, <2>2, <4>1 DEF Deleted
      <4> QED
        BY <3>2, <4>1, <4>2 DEF Out, BaseTimers
    <3> QED
      BY <3>1, <3>2 DEF BaseTimers
  <2>4. ASSUME NEW u \in BaseTimers', u.what = StepOf(Session)
        PROVE  u \in BaseTimers /\ u.id \notin ids /\ (u \in Out(base)' => u \in Out(base))
    <3>1. PICK v \in BaseTimers : Same(u, v)
      BY <1>5
    <3>2. v.id \notin ids /\ u = v
      BY <2>4, <3>1
    <3>3. u \in Out(base)' => u \in Out(base)
      BY <1>4, <3>2
    <3> QED
      BY <3>2, <3>3
  <2> HIDE DEF Same
  <2>5. \E u \in BaseTimers' : u.what = StepOf(Session)
    BY <2>1, <2>3
  <2> QED
    BY <1>2, <1>6, <2>4, <2>5 DEF SessionSteps
<1>8. StepTimers'
  <2>1. StepTimers
    BY DEF IInv, BaseInv
  <2>2. ASSUME NEW u \in BaseTimers', NEW a \in Activity, u.what = StepOf(a)
        PROVE  u \in BaseTimers
    <3>1. PICK v \in BaseTimers : Same(u, v)
      BY <1>5
    <3>2. v.what.type # "call"
      BY <2>2, <3>1 DEF StepOf
    <3> QED
      BY <3>1, <3>2
  <2> HIDE DEF Same
  <2>3. \A u \in BaseTimers' : \E t \in BaseTimers : u.id = t.id /\ u.what = t.what
    BY <1>5 DEF Same
  <2> QED
    BY <2>1, <2>2, <2>3 DEF StepTimers
<1>9. Owners'
  <2>1. Owners
    BY DEF IInv, BaseInv
  <2>2. \A a \in Activity : stepId'[a] < base'.nextId /\ \A id \in owned'[a] : id < base'.nextId
    BY <1>2, <2>1 DEF Owners
  <2>3. \A u \in BaseTimers', a \in Activity : u.id \in owned'[a] => u.what.of = a
    BY <1>5, <2>1 DEF Owners
  <2>4. \A u \in BaseTimers', a \in Activity :
          u.what.of = a /\ ~u.dead => alive'[a] /\ u.id \in owned'[a]
    BY <1>5
  <2> QED
    BY <2>2, <2>3, <2>4 DEF Owners
<1>10. BasePunctual'
  BY <1>2 DEF IInv, BaseInv, BasePunctual
<1> QED
  BY <1>4, <1>7, <1>8, <1>9, <1>10 DEF BaseInv

\* The length of the step timer of an activity is set, or there is none.
LEMMA BaseLength ==
  ASSUME IInv, NEW a \in Activity, NEW length \in (Nat \ {0}) \cup {Never},
         started[a] => base' = StepTimerSet(base, stepId[a], FALSE, length),
         ~started[a] => base' = base,
         UNCHANGED <<baseTime, sceneTime, started, alive, stepId, owned>>,
         length = IF paused'[a] THEN Never ELSE speed'[a],
         \A b \in Activity \ {a} : paused'[b] = paused[b] /\ speed'[b] = speed[b]
  PROVE  /\ BaseInv' /\ Fine(base', baseTime, ranNow.base, deleted.base)
         /\ base.client = NoTimer => base'.client = NoTimer
         /\ base.client # NoTimer => base'.client # NoTimer /\ base'.client.what = base.client.what
<1>1. StepTimers /\ Owners /\ SessionSteps /\ BasePunctual
  BY DEF IInv, BaseInv
<1>2. started[a] /\ stepId[a] \in Existing(base) =>
        base' = SetLength(base, stepId[a], length, baseTime)
  BY DEF StepTimerSet, SetBaseTimerLength
<1>3. CASE ~(started[a] /\ stepId[a] \in Existing(base))
  <2>1. base' = base
    BY <1>3 DEF StepTimerSet, SetBaseTimerLength
  <2>2. /\ BaseTimers' = BaseTimers /\ Waiting(base)' = Waiting(base)
        /\ Out(base)' = Out(base)
    BY <2>1 DEF BaseTimers, Waiting, Out
  <2>3. SessionSteps' /\ BasePunctual' /\ Owners'
    BY <1>1, <2>1, <2>2 DEF SessionSteps, BasePunctual, Owners
  <2>4. \A t \in BaseTimers : t.what # StepOf(a)
    <3>1. SUFFICES ASSUME NEW t \in BaseTimers, t.what = StepOf(a)
                   PROVE  FALSE
      OBVIOUS
    <3>2. started[a] /\ t.id = stepId[a] /\ ~t.dead
      BY <1>1, <3>1 DEF StepTimers
    <3>3. t.id \in Existing(base)
      BY <3>2 DEF Existing, BaseTimers
    <3> QED
      BY <1>3, <3>2, <3>3
  <2>5. StepTimers'
    BY <1>1, <2>2, <2>4 DEF StepTimers
  <2> QED
    BY <2>1, <2>3, <2>5, BaseFacts DEF BaseInv
<1>4. CASE started[a] /\ stepId[a] \in Existing(base)
  <2>1. /\ Fine(base', baseTime, ranNow.base, deleted.base)
        /\ Relengthed(base, base', stepId[a], length, baseTime)
    <3>1. /\ Fine(base, baseTime, ranNow.base, deleted.base)
          /\ base' = SetLength(base, stepId[a], length, baseTime)
      BY <1>2, <1>4, BaseFacts
    <3> QED
      BY <1>4, <3>1, FineSetLength
  <2> DEFINE Re(u, t) == /\ t.id = stepId[a] /\ u.id = t.id /\ u.what = t.what
                         /\ u.repeat = t.repeat /\ u.dead = t.dead /\ u.length = length
  <2>2. /\ base'.nextId = base.nextId
        /\ base.client = NoTimer => base'.client = NoTimer
        /\ base.client # NoTimer => base'.client # NoTimer /\ base'.client.what = base.client.what
        /\ \A u \in Waiting(base') : \/ u \in Waiting(base) /\ u.id # stepId[a]
                                     \/ \E t \in Waiting(base) : Re(u, t)
        /\ \A u \in Out(base') : \/ u \in Out(base) /\ u.id # stepId[a]
                                 \/ \E t \in Out(base) : Re(u, t)
        /\ \A t \in BaseTimers : t.id # stepId[a] =>
             /\ t \in Waiting(base) => t \in Waiting(base')
             /\ t \in Out(base) => t \in Out(base')
        /\ \A u \in Range(base'.active) :
             u \in Range(base.active) \/ (u.expire = baseTime + length /\ length # Never)
    <3>1. CASE \E t \in Waiting(base) :
                 /\ t.id = stepId[a] /\ base'.client = base.client
                 /\ Waiting(base') = {u \in Waiting(base) : u.id # stepId[a]}
                                     \cup {Changed(t, length, baseTime)}
                 /\ Range(base'.active) =
                      {u \in Range(base.active) : u.id # stepId[a]}
                      \cup IF length = Never THEN {} ELSE {Changed(t, length, baseTime)}
      <4>1. PICK t \in Waiting(base) :
                 /\ t.id = stepId[a] /\ base'.client = base.client
                 /\ Waiting(base') = {u \in Waiting(base) : u.id # stepId[a]}
                                     \cup {Changed(t, length, baseTime)}
                 /\ Range(base'.active) =
                      {u \in Range(base.active) : u.id # stepId[a]}
                      \cup IF length = Never THEN {} ELSE {Changed(t, length, baseTime)}
        BY <3>1
      <4> DEFINE c == Changed(t, length, baseTime)
      <4>2. /\ Re(c, t) /\ c.expire = baseTime + length
        BY <4>1, BaseFacts, ChangedFields
      <4>3. /\ Out(base') = Out(base) /\ base'.nextId = base.nextId
            /\ \A u \in Out(base) : u.id # stepId[a]
        BY <2>1, <4>1, BaseFacts DEF Out, Relengthed, ListOK
      <4> HIDE DEF c, Re
      <4>4. \A u \in Range(base'.active) : u \in Range(base.active) \/ (u = c /\ length # Never)
        BY <4>1 DEF c
      <4>5. /\ \A u \in Waiting(base') : (u \in Waiting(base) /\ u.id # stepId[a]) \/ u = c
            /\ \A u \in Waiting(base) : u.id # stepId[a] => u \in Waiting(base')
        BY <4>1 DEF c
      <4> QED
        BY <4>1, <4>2, <4>3, <4>4, <4>5
    <3>2. CASE /\ base.client # NoTimer /\ base.client.id = stepId[a] /\ ~base.client.dead
               /\ base'.client = [base.client EXCEPT !.length = length, !.last = baseTime]
               /\ Waiting(base') = Waiting(base) /\ base'.active = base.active
      <4>1. base.client \in TimerType /\ Out(base) = {base.client} /\ base'.nextId = base.nextId
        BY <2>1, <3>2, BaseFacts DEF Relengthed
      <4>2. Re(base'.client, base.client)
        BY <3>2, <4>1 DEF TimerType
      <4>3. base'.client # NoTimer
        <5>1. base'.client \in TimerType
          BY <3>2, <4>1, BaseFacts DEF TimerType
        <5> QED
          BY <5>1, TimerFields
      <4>4. Out(base') = {base'.client}
        BY <4>3 DEF Out
      <4>5. base'.client.what = base.client.what
        BY <4>2
      <4>6. \A u \in Waiting(base) : u.id # stepId[a]
        BY <3>2, <4>1, BaseFacts DEF ListOK
      <4> HIDE DEF Re
      <4> QED
        BY <3>2, <4>1, <4>2, <4>3, <4>4, <4>5, <4>6
    <3> QED
      BY <2>1, <3>1, <3>2 DEF Relengthed
  <2>3. /\ Waiting(base)' = Waiting(base') /\ Out(base)' = Out(base')
        /\ BaseTimers' = Waiting(base') \cup Out(base') /\ base.nextId \in Nat
    BY BaseFacts DEF Waiting, Out, BaseTimers
  <2>4. \A t \in BaseTimers : t.id = stepId[a] => t.what = StepOf(a)
    BY <1>1, <1>4 DEF StepTimers
  <2>5. \A u \in BaseTimers' :
          \/ /\ u \in BaseTimers /\ u.id # stepId[a]
             /\ u \in Waiting(base') => u \in Waiting(base)
             /\ u \in Out(base') => u \in Out(base)
          \/ \E t \in BaseTimers : Re(u, t)
    BY <2>2, <2>3 DEF BaseTimers
  <2>6. StepOf(Session) # StepOf(a)
    BY StepAssumption DEF StepOf
  <2>7. SessionSteps'
    <3>1. PICK s \in BaseTimers : s.what = StepOf(Session)
      BY <1>1 DEF SessionSteps
    <3>2. s \in BaseTimers'
      BY <2>2, <2>3, <2>4, <2>6, <3>1 DEF BaseTimers
    <3>3. ASSUME NEW u \in BaseTimers', u.what = StepOf(Session)
          PROVE  /\ u \in BaseTimers
                 /\ u \in Waiting(base') => u \in Waiting(base)
                 /\ u \in Out(base') => u \in Out(base)
      BY <2>4, <2>5, <2>6, <3>3
    <3> HIDE DEF Re
    <3>4. \E u \in BaseTimers' : u.what = StepOf(Session)
      BY <3>1, <3>2
    <3> QED
      BY <1>1, <2>3, <3>3, <3>4 DEF SessionSteps
  <2>8. StepTimers'
    <3>1. ASSUME NEW u \in BaseTimers', NEW b \in Activity, u.what = StepOf(b)
          PROVE  /\ started[b] /\ u.id = stepId[b] /\ u.repeat /\ ~u.dead
                 /\ u.length = IF paused'[b] THEN Never ELSE speed'[b]
      <4>1. CASE u \in BaseTimers /\ u.id # stepId[a]
        <5>1. b # a
          BY <1>1, <3>1, <4>1 DEF StepTimers
        <5> QED
          BY <1>1, <3>1, <4>1, <5>1 DEF StepTimers
      <4>2. CASE \E t \in BaseTimers : Re(u, t)
        <5>1. PICK t \in BaseTimers : Re(u, t)
          BY <4>2
        <5>2. t.what = StepOf(a) /\ b = a
          BY <2>4, <3>1, <5>1 DEF StepOf
        <5> QED
          BY <1>1, <3>1, <5>1, <5>2 DEF StepTimers
      <4> QED
        BY <2>5, <4>1, <4>2
    <3>2. ASSUME NEW u \in BaseTimers', NEW b \in Activity, started[b], u.id = stepId[b]
          PROVE  u.what = StepOf(b)
      BY <1>1, <2>5, <3>2 DEF StepTimers
    <3> HIDE DEF Re
    <3> QED
      BY <3>1, <3>2 DEF StepTimers
  <2>9. Owners'
    <3>1. \A u \in BaseTimers' : \E t \in BaseTimers :
            u.id = t.id /\ u.what = t.what /\ u.dead = t.dead
      BY <2>5
    <3> HIDE DEF Re
    <3> QED
      BY <1>1, <2>2, <3>1 DEF Owners
  <2>10. BasePunctual'
    <3>1. length # Never => baseTime <= (baseTime + length) + Step
      BY BaseFacts
    <3> HIDE DEF Re
    <3> QED
      BY <1>1, <2>2, <3>1 DEF BasePunctual
  <2> QED
    BY <2>1, <2>2, <2>7, <2>8, <2>9, <2>10 DEF BaseInv
<1> QED
  BY <1>3, <1>4

\* The clock goes on, past no timer that waits.
LEMMA BaseTimePasses ==
  ASSUME IInv, base.client = NoTimer, UNCHANGED <<base, sceneTime>>,
         baseTime' \in Nat, baseTime <= baseTime',
         baseTime' = baseTime \/ \A t \in Range(base.active) : baseTime' <= t.expire
  PROVE  SessionSteps' /\ BasePunctual'
<1>1. SessionSteps /\ BasePunctual
  BY DEF IInv, BaseInv
<1>2. BaseTimers' = BaseTimers /\ Waiting(base)' = Waiting(base) /\ Out(base)' = Out(base)
  BY DEF BaseTimers, Waiting, Out
<1>3. Out(base) = {} /\ baseTime \in Nat /\ Step \in Nat /\ sceneTime[Session] \in Nat
  BY BaseFacts
<1>4. sceneTime[Session] <= baseTime'
  <2>1. sceneTime[Session] <= baseTime
    BY <1>1 DEF SessionSteps
  <2> QED
    BY <1>3, <2>1
<1>5. \A t \in BaseTimers : t.what = StepOf(Session) => baseTime' <= t.expire
  <2>1. SUFFICES ASSUME NEW t \in BaseTimers, t.what = StepOf(Session)
                 PROVE  baseTime' <= t.expire
    OBVIOUS
  <2>2. t \in Waiting(base)
    BY <1>3 DEF BaseTimers
  <2>3. t.length = Step /\ baseTime <= t.expire
    BY <1>1, <2>1, <2>2 DEF SessionSteps
  <2>4. t.length # Never
    BY <1>3, <2>3 DEF Never
  <2>5. t \in Range(base.active)
    BY <2>2, <2>4, BaseFacts DEF ListOK, Waiting
  <2> QED
    BY <2>3, <2>5
<1>6. SessionSteps'
  BY <1>1, <1>2, <1>3, <1>4, <1>5 DEF SessionSteps
<1>7. BasePunctual'
  <2>1. CASE baseTime' = baseTime
    BY <1>1, <2>1 DEF BasePunctual
  <2>2. CASE \A t \in Range(base.active) : baseTime' <= t.expire
    <3>1. \A t \in Range(base.active) : t.expire \in Int
      BY BaseFacts, TimerFields
    <3> QED
      BY <1>3, <2>2, <3>1 DEF BasePunctual
  <2> QED
    BY <2>1, <2>2
<1> QED
  BY <1>6, <1>7

\* Of the timers an activity owns, those that are there stay its own.
LEMMA BasePrune ==
  ASSUME IInv, UNCHANGED base, EndUpdate
  PROVE  StepTimers' /\ Owners'
<1>1. StepTimers /\ Owners
  BY DEF IInv, BaseInv
<1>2. BaseTimers' = BaseTimers
  BY DEF BaseTimers, Waiting, Out
<1>3. /\ started' = started /\ paused' = paused /\ speed' = speed /\ alive' = alive
      /\ stepId' = stepId
  BY DEF EndUpdate
<1>4. /\ \A a \in Activity : owned'[a] \subseteq owned[a]
      /\ \A a \in Activity : owned[a] \cap Existing(base) \subseteq owned'[a]
  BY DEF EndUpdate, PruneSessionBaseTimers
<1>5. \A t \in BaseTimers : ~t.dead => t.id \in Existing(base)
  BY DEF BaseTimers, Existing
<1>6. StepTimers'
  BY <1>1, <1>2, <1>3 DEF StepTimers
<1>7. Owners'
  <2>1. \A t \in BaseTimers, a \in Activity :
          t.what.of = a /\ ~t.dead => alive[a] /\ t.id \in owned'[a]
    BY <1>1, <1>4, <1>5 DEF Owners
  <2>2. \A t \in BaseTimers, a \in Activity : t.id \in owned'[a] => t.what.of = a
    BY <1>1, <1>4 DEF Owners
  <2>3. \A a \in Activity :
          stepId[a] < base.nextId /\ \A id \in owned'[a] : id < base.nextId
    BY <1>1, <1>4 DEF Owners
  <2> QED
    BY <1>2, <1>3, <2>1, <2>2, <2>3 DEF Owners
<1> QED
  BY <1>6, <1>7

-----------------------------------------------------------------------------
(* What a change of one kind of lists leaves of the invariant.             *)

HistoryType == [base : SUBSET Nat, sim : [Scene -> SUBSET Nat]]

\* Python code changes base_timers_.
LEMMA BaseOnly ==
  ASSUME IInv, UNCHANGED <<at, baseTime, target, toRun, sim, sceneTime, ranNow>>,
         base.client = NoTimer => base'.client = NoTimer,
         base.client # NoTimer =>
           base'.client # NoTimer /\ base'.client.what = base.client.what,
         deleted' \in HistoryType, deleted'.sim = deleted.sim,
         Fine(base', baseTime, ranNow.base, deleted'.base),
         PlainTypes', BaseInv'
  PROVE  IInv'
<1>1. AllFine'
  BY DEF IInv, AllFine, HistoryType
<1>2. at \in {"sim", "step"} => base.client # NoTimer
  BY DEF IInv, WhoIsOut
<1>3. base.client # NoTimer => Stepping' = Stepping
  BY DEF Stepping
<1>4. WhoIsOut'
  BY <1>2, <1>3 DEF IInv, WhoIsOut
<1>5. SimPunctual'
  <2>1. \A c \in Scene : at \in {"sim", "step"} => StillToRun(c)' = StillToRun(c)
    BY <1>2, <1>3 DEF StillToRun
  <2> QED
    BY <1>2, <1>3, <2>1 DEF IInv, SimPunctual
<1> QED
  BY <1>1, <1>4, <1>5 DEF IInv

\* Something is done to the list of one scene.
LEMMA SimOnly ==
  ASSUME IInv, UNCHANGED <<base, baseTime, target, sceneTime, activityVars>>,
         NEW c \in Scene, NEW list, sim' = [sim EXCEPT ![c] = list],
         ranNow' \in HistoryType, ranNow'.base = ranNow.base,
         deleted' \in HistoryType, deleted'.base = deleted.base,
         \A d \in Scene \ {c} : ranNow'.sim[d] = ranNow.sim[d] /\ deleted'.sim[d] = deleted.sim[d],
         Fine(list, sceneTime[c], ranNow'.sim[c], deleted'.sim[c]),
         PlainTypes', WhoIsOut', SimPunctual'
  PROVE  IInv'
<1>1. sim \in [Scene -> ListType] /\ list \in ListType
  BY FineFields DEF IInv, AllFine
<1>2. sim' \in [Scene -> ListType] /\ sim'[c] = list /\ \A d \in Scene \ {c} : sim'[d] = sim[d]
  BY <1>1
<1>3. \A d \in Scene : Fine(sim'[d], sceneTime[d], ranNow'.sim[d], deleted'.sim[d])
  BY <1>2 DEF IInv, AllFine
<1>4. AllFine'
  BY <1>2, <1>3 DEF IInv, AllFine, HistoryType
<1>5. BaseInv'
  BY BaseStill DEF IInv
<1> QED
  BY <1>4, <1>5 DEF IInv

\* Python code does, and changes none that is out for another.
LEMMA SimPython ==
  ASSUME IInv, UNCHANGED <<at, toRun, baseTime, target, sceneTime, ranNow>>,
         base.client = NoTimer => base'.client = NoTimer,
         base.client # NoTimer =>
           base'.client # NoTimer /\ base'.client.what = base.client.what,
         NEW c \in Scene, NEW list, sim' = [sim EXCEPT ![c] = list],
         list.client = NoTimer <=> sim[c].client = NoTimer,
         NotLate(list, sceneTime[c]),
         LateAreLeft(sim[c], sceneTime[c], StillToRun(c)) =>
           LateAreLeft(list, sceneTime[c], StillToRun(c))
  PROVE  WhoIsOut' /\ SimPunctual'
<1>1. sim \in [Scene -> ListType]
  BY DEF IInv, AllFine
<1>2. sim'[c] = list /\ \A d \in Scene \ {c} : sim'[d] = sim[d]
  BY <1>1
<1>3. /\ at \in {"sim", "step"} => base.client # NoTimer
      /\ base.client # NoTimer => Stepping' = Stepping
  BY DEF Stepping, IInv, WhoIsOut
<1>4. \A d \in Scene : sim'[d].client # NoTimer => sim[d].client # NoTimer
  BY <1>2
<1>5. WhoIsOut'
  BY <1>3, <1>4 DEF IInv, WhoIsOut
<1>6. \A d \in Scene : StillToRun(d)' = StillToRun(d)
  BY <1>2, <1>3 DEF StillToRun
<1>7. SimPunctual'
  <2>1. \A d \in Scene :
          /\ NotLate(sim'[d], sceneTime[d])
          /\ LateAreLeft(sim[d], sceneTime[d], StillToRun(d)) =>
               LateAreLeft(sim'[d], sceneTime[d], StillToRun(d))
    BY <1>2 DEF IInv, SimPunctual
  <2> QED
    BY <1>3, <1>6, <2>1 DEF IInv, SimPunctual
<1> QED
  BY <1>5, <1>7

-----------------------------------------------------------------------------
(* What keeps the timers of scenes punctual.                               *)

LEMMA PlacesOfActive ==
  ASSUME NEW list, ListOK(list)
  PROVE  \A i \in DOMAIN list.active :
           /\ i \in Nat \ {0} /\ list.active[i] \in Range(list.active)
           /\ list.active[i] \in TimerType /\ list.active[i].expire \in Int
<1>1. list \in ListType
  BY DEF ListOK
<1>2. DOMAIN list.active = 1 .. Len(list.active) /\ Len(list.active) \in Nat
      /\ list.active \in Seq(TimerType)
  BY <1>1, ListFields
<1>3. \A i \in 1 .. Len(list.active) : list.active[i] \in TimerType
  BY <1>2, ElementOfSeq
<1> QED
  BY <1>2, <1>3, TimerFields DEF Range

\* A timer that is not due is put in.
LEMMA LateAdd ==
  ASSUME NEW list, ListOK(list), NEW new, ListOK(new), NEW time \in Nat, NEW t \in TimerType,
         Added(list, new, t), NotLate(list, time),
         time <= t.expire + 1, t.length # Never => time <= t.expire,
         NEW left
  PROVE  /\ NotLate(new, time)
         /\ LateAreLeft(list, time, left) => LateAreLeft(new, time, left)
<1> SUFFICES ASSUME NEW i \in DOMAIN new.active
             PROVE  /\ time <= new.active[i].expire + Step
                    /\ LateAreLeft(list, time, left) => i <= left \/ time <= new.active[i].expire
  BY DEF NotLate, LateAreLeft
<1>1. Step \in Nat \ {0} /\ t.expire \in Int /\ i \in Nat
  BY StepAssumption, TimerFields, PlacesOfActive
<1>2. CASE new.active[i] = t
  <2>1. t \in Range(new.active)
    BY <1>2, PlacesOfActive
  <2>2. t.length # Never
    BY <2>1 DEF ListOK
  <2> QED
    BY <1>1, <1>2, <2>2
<1>3. CASE i \in DOMAIN list.active /\ new.active[i] = list.active[i]
  BY <1>3 DEF NotLate, LateAreLeft
<1>4. CASE /\ i - 1 \in DOMAIN list.active /\ new.active[i] = list.active[i - 1]
           /\ t.expire < list.active[i - 1].expire
  <2>1. list.active[i - 1].expire \in Int
    BY <1>4, PlacesOfActive
  <2> QED
    BY <1>1, <1>4, <2>1
<1> QED
  BY <1>2, <1>3, <1>4 DEF Added

LEMMA LatePull ==
  ASSUME NEW list, ListOK(list), NEW new, ListOK(new), NEW time \in Nat, NEW ids,
         Pulled(list, new, ids), NotLate(list, time), NEW left \in Int
  PROVE  /\ NotLate(new, time)
         /\ LateAreLeft(list, time, left) => LateAreLeft(new, time, left)
<1> SUFFICES ASSUME NEW i \in DOMAIN new.active
             PROVE  /\ time <= new.active[i].expire + Step
                    /\ LateAreLeft(list, time, left) => i <= left \/ time <= new.active[i].expire
  BY DEF NotLate, LateAreLeft
<1>1. PICK j \in DOMAIN list.active : i <= j /\ new.active[i] = list.active[j]
  BY DEF Pulled
<1>2. i \in Nat /\ j \in Nat
  BY PlacesOfActive
<1> QED
  BY <1>1, <1>2 DEF NotLate, LateAreLeft

\* The first is taken out, and with it a round of Run.
LEMMA LateTake ==
  ASSUME NEW list, NEW new, ListOK(new), NEW time \in Nat, Taken(list, new, time),
         NotLate(list, time), NEW left \in Int, LateAreLeft(list, time, left)
  PROVE  NotLate(new, time) /\ LateAreLeft(new, time, left - 1)
<1> SUFFICES ASSUME NEW i \in DOMAIN new.active
             PROVE  /\ time <= new.active[i].expire + Step
                    /\ i <= left - 1 \/ time <= new.active[i].expire
  BY DEF NotLate, LateAreLeft
<1>1. i + 1 \in DOMAIN list.active /\ new.active[i] = list.active[i + 1]
  BY DEF Taken
<1>2. i \in Nat
  BY PlacesOfActive
<1>3. i + 1 <= left => i <= left - 1
  BY <1>2
<1>4. /\ time <= list.active[i + 1].expire + Step
      /\ i + 1 <= left \/ time <= list.active[i + 1].expire
  BY <1>1 DEF NotLate, LateAreLeft
<1> QED
  BY <1>1, <1>3, <1>4

\* None is late that Run has not counted, and none when nothing has expired.
LEMMA LateBegin ==
  ASSUME NEW list, ListOK(list), NEW time \in Nat
  PROVE  /\ GetExpiredCount(list, time) \in Nat
         /\ LateAreLeft(list, time, GetExpiredCount(list, time))
         /\ ~HasExpired(list, time) => \A left : LateAreLeft(list, time, left)
<1> DEFINE m == GetExpiredCount(list, time)
           s == list.active
<1>1. /\ m \in 0 .. Len(s) /\ Len(s) \in Nat /\ DOMAIN s = 1 .. Len(s)
      /\ m < Len(s) => s[m + 1].expire > time
      /\ \A i, j \in DOMAIN s : i < j => s[i].expire <= s[j].expire
  <2>1. list \in ListType
    BY DEF ListOK
  <2> QED
    BY <2>1, CountExpired, ListFields DEF ListOK
<1> HIDE DEF m
<1>2. \A i \in DOMAIN s : s[i].expire \in Int
  BY PlacesOfActive
<1>3. ASSUME NEW i \in DOMAIN s, ~(i <= m)
      PROVE  time <= s[i].expire
  <2>1. i \in Nat /\ m \in Nat /\ m < Len(s) /\ m + 1 \in DOMAIN s /\ m + 1 <= i
    BY <1>1, <1>3
  <2>2. s[m + 1].expire <= s[i].expire
    BY <1>1, <1>2, <2>1
  <2> QED
    BY <1>1, <1>2, <2>1, <2>2
<1>4. LateAreLeft(list, time, m)
  BY <1>3 DEF LateAreLeft
<1>5. ~HasExpired(list, time) => \A left : LateAreLeft(list, time, left)
  <2>1. ~HasExpired(list, time) => \A i \in DOMAIN s : s[i].expire > time
    BY Expired
  <2> QED
    BY <1>2, <2>1 DEF LateAreLeft
<1> QED
  BY <1>1, <1>4, <1>5 DEF m

\* When none is late that waits, none is late by more than a step after it.
LEMMA LateStep ==
  ASSUME NEW list, ListOK(list), NEW time \in Nat, LateAreLeft(list, time, 0)
  PROVE  NotLate(list, time + Step)
<1> SUFFICES ASSUME NEW i \in DOMAIN list.active
             PROVE  time + Step <= list.active[i].expire + Step
  BY DEF NotLate
<1>1. Step \in Nat /\ list.active[i].expire \in Int /\ i \in Nat \ {0}
  BY StepAssumption, PlacesOfActive
<1> QED
  BY <1>1 DEF LateAreLeft

-----------------------------------------------------------------------------
(* The invariant holds at first, and each action keeps it.                 *)

\* The same of the list of a scene.
LEMMA SimFacts ==
  ASSUME IInv, NEW c \in Scene
  PROVE  /\ Fine(sim[c], sceneTime[c], ranNow.sim[c], deleted.sim[c])
         /\ ListOK(sim[c]) /\ sceneTime[c] \in Nat /\ sim[c].nextId \in Nat
         /\ NotLate(sim[c], sceneTime[c])
         /\ sim \in [Scene -> ListType]
         /\ StillToRun(c) \in Int
<1>1. Fine(sim[c], sceneTime[c], ranNow.sim[c], deleted.sim[c]) /\ sim \in [Scene -> ListType]
  BY DEF IInv, AllFine
<1>2. NotLate(sim[c], sceneTime[c])
  BY DEF IInv, SimPunctual
<1>3. StillToRun(c) \in Int
  <2>1. toRun.sim \in Nat
    BY DEF IInv, PlainTypes
  <2> QED
    BY <2>1 DEF StillToRun
<1> QED
  BY <1>1, <1>2, <1>3, FineFields

LEMMA KindsAre ==
  /\ \A c \in Scene : StepOf(c) \in Kind /\ CallOf(c) \in Kind
  /\ \A c, d : StepOf(c) # CallOf(d) /\ (StepOf(c) = StepOf(d) <=> c = d)
  /\ \A c : StepOf(c).of = c /\ CallOf(c).of = c
             /\ StepOf(c).type = "step" /\ CallOf(c).type = "call"
  BY DEF StepOf, CallOf, Kind

LEMMA EmptyListFine ==
  /\ Fine(EmptyList, 0, {}, {}) /\ Waiting(EmptyList) = {} /\ Out(EmptyList) = {}
  /\ DOMAIN EmptyList.active = {} /\ EmptyList.client = NoTimer /\ EmptyList.nextId = 1
<1>1. <<>> \in Seq(TimerType) /\ DOMAIN <<>> = {} /\ Range(<<>>) = {}
  <2>1. <<>> \in Seq(TimerType) /\ Len(<<>>) = 0
    BY EmptySeq
  <2>2. DOMAIN <<>> = 1 .. 0
    BY <2>1, LenProperties
  <2> QED
    BY <2>1, <2>2 DEF Range
<1>2. /\ EmptyList.active = <<>> /\ EmptyList.inactive = <<>>
      /\ EmptyList.client = NoTimer /\ EmptyList.nextId = 1 /\ EmptyList \in ListType
  BY <1>1 DEF EmptyList, ListType
<1>3. Waiting(EmptyList) = {} /\ Out(EmptyList) = {}
  BY <1>1, <1>2 DEF Waiting, Out
<1>4. ListOK(EmptyList)
  BY <1>1, <1>2, <1>3 DEF ListOK, Distinct
<1> QED
  BY <1>1, <1>2, <1>3, <1>4 DEF Fine

\* At first there is the session's step timer.
LEMMA Starts == Init => IInv
<1> SUFFICES ASSUME Init
             PROVE  IInv
  OBVIOUS
<1>1. Step \in Nat \ {0} /\ Session \in Scene /\ Session \notin Activity /\ 0 \in Nat
  BY StepAssumption DEF Scene
<1> DEFINE u == MadeTimer(EmptyList, 0, Step, TRUE, StepOf(Session))
<1> HIDE DEF u
<1>2. /\ Fine(base, 0, {}, {}) /\ base.client = NoTimer /\ base.nextId = 2
      /\ Added(EmptyList, base, u)
  <2>1. base = NewTimer(EmptyList, 0, Step, TRUE, StepOf(Session))
    BY DEF Init
  <2>2. StepOf(Session) \in Kind /\ Step \in Nat /\ Step # 0 /\ TRUE \in BOOLEAN
    BY <1>1, KindsAre
  <2>3. Fine(EmptyList, 0, {}, {})
    BY EmptyListFine
  <2>4. ASSUME NEW repeat \in BOOLEAN, NEW length \in Nat, length # 0, NEW what \in Kind,
               NEW new, new = NewTimer(EmptyList, 0, length, repeat, what)
        PROVE  /\ Fine(new, 0, {}, {}) /\ new.client = EmptyList.client
               /\ new.nextId = EmptyList.nextId + 1
               /\ Added(EmptyList, new, MadeTimer(EmptyList, 0, length, repeat, what))
    BY <1>1, <2>3, <2>4, FineNew
  <2>5. /\ Fine(base, 0, {}, {}) /\ base.client = EmptyList.client
        /\ base.nextId = EmptyList.nextId + 1 /\ Added(EmptyList, base, u)
    BY <2>1, <2>2, <2>4, Zenon DEF u
  <2> QED
    BY <2>5, EmptyListFine
<1>3. /\ u.id = 1 /\ u.length = Step /\ u.repeat /\ ~u.dead /\ u.expire = Step
      /\ u.what = StepOf(Session)
  BY <1>1, EmptyListFine DEF MadeTimer, u
<1>4. /\ BaseTimers = {u} /\ Waiting(base) = {u} /\ Out(base) = {}
      /\ Range(base.active) \subseteq {u}
  BY <1>2, EmptyListFine DEF Added, Waiting, Out, BaseTimers
<1>5. PlainTypes
  BY <1>1, BoundAssumption, SpeedAssumption DEF Init, PlainTypes
<1>6. /\ at = "rest" /\ baseTime = 0 /\ sceneTime = [c \in Scene |-> 0]
      /\ sim = [c \in Scene |-> EmptyList]
      /\ ranNow = [base |-> {}, sim |-> [c \in Scene |-> {}]]
      /\ deleted = [base |-> {}, sim |-> [c \in Scene |-> {}]]
      /\ started = [a \in Activity |-> FALSE] /\ stepId = [a \in Activity |-> 0]
      /\ owned = [a \in Activity |-> {}]
  BY DEF Init
<1>7. AllFine
  <2>1. EmptyList \in ListType
    BY EmptyListFine, FineFields
  <2> QED
    BY <1>2, <1>6, <2>1, EmptyListFine DEF AllFine
<1>8. WhoIsOut
  BY <1>2, <1>6, EmptyListFine DEF WhoIsOut
<1>9. SessionSteps
  BY <1>1, <1>3, <1>4, <1>6 DEF SessionSteps
<1>10. StepTimers
  BY <1>1, <1>3, <1>4, <1>6, KindsAre DEF StepTimers
<1>11. Owners
  BY <1>1, <1>2, <1>3, <1>4, <1>6, KindsAre DEF Owners
<1>12. BasePunctual
  BY <1>1, <1>3, <1>4, <1>6 DEF BasePunctual
<1>13. SimPunctual
  BY <1>6, EmptyListFine DEF SimPunctual, NotLate
<1> QED
  BY <1>5, <1>7, <1>8, <1>9, <1>10, <1>11, <1>12, <1>13 DEF IInv, BaseInv

LEMMA StutterKeeps ==
  ASSUME IInv, UNCHANGED vars
  PROVE  IInv'
<1>1. UNCHANGED <<at, baseTime, target, base, sim, sceneTime, toRun, activityVars, deleted,
                  ranNow, counters>>
  BY DEF vars
<1>2. BaseInv'
  BY <1>1, BaseStill DEF IInv
<1>3. PlainTypes' /\ AllFine'
  BY <1>1 DEF IInv, PlainTypes, AllFine, activityVars, counters
<1>4. WhoIsOut' /\ SimPunctual'
  BY <1>1 DEF IInv, WhoIsOut, SimPunctual, Stepping, StillToRun
<1> QED
  BY <1>2, <1>3, <1>4 DEF IInv

\* Update begins.
LEMMA UpdateKeeps ==
  ASSUME IInv, NEW advance \in Advances, Update(advance)
  PROVE  IInv'
<1>1. /\ at = "rest" /\ at' = "advance" /\ target' = baseTime + advance
      /\ baseTime + advance <= MaxTime /\ advance \in Nat /\ baseTime \in Nat
      /\ UNCHANGED <<baseTime, base, sim, sceneTime, toRun, activityVars, deleted,
                     ranNow, counters>>
  BY BaseFacts, SpeedAssumption DEF Update
<1>2. BaseInv'
  BY <1>1, BaseStill DEF IInv
<1>3. AllFine'
  BY <1>1 DEF IInv, AllFine
<1>4. PlainTypes'
  BY <1>1, BoundAssumption DEF IInv, PlainTypes, activityVars, counters
<1>5. WhoIsOut' /\ SimPunctual'
  BY <1>1 DEF IInv, WhoIsOut, SimPunctual
<1> QED
  BY <1>2, <1>3, <1>4, <1>5 DEF IInv

\* No timer of a scene is out, when the thread runs none.
LEMMA NoneOut ==
  ASSUME IInv, at # "sim"
  PROVE  \A c \in Scene : sim[c].client = NoTimer
  BY DEF IInv, WhoIsOut

LEMMA TimePasses ==
  ASSUME IInv, base.client = NoTimer, NEW time \in Nat, SetBaseTime(time),
         UNCHANGED <<base, sim, sceneTime, deleted>>
  PROVE  AllFine' /\ baseTime' = time /\ ranNow'.sim = ranNow.sim
<1>1. /\ ranNow \in [base : SUBSET Nat, sim : [Scene -> SUBSET Nat]]
      /\ deleted \in [base : SUBSET Nat, sim : [Scene -> SUBSET Nat]]
      /\ Fine(base, baseTime, ranNow.base, deleted.base)
      /\ baseTime' = time
  BY DEF IInv, AllFine, SetBaseTime
<1>2. CASE time = baseTime
  <2>1. ranNow' = ranNow
    BY <1>2 DEF SetBaseTime
  <2> QED
    BY <1>1, <1>2, <2>1 DEF IInv, AllFine
<1>3. CASE time # baseTime
  <2>1. ranNow' = [ranNow EXCEPT !.base = {}]
    BY <1>3 DEF SetBaseTime
  <2>2. /\ ranNow' \in [base : SUBSET Nat, sim : [Scene -> SUBSET Nat]]
        /\ ranNow'.base = {} /\ ranNow'.sim = ranNow.sim
    BY <1>1, <2>1
  <2>3. Fine(base, time, {}, deleted.base)
    BY <1>1, FineTime
  <2> QED
    BY <1>1, <2>2, <2>3 DEF IInv, AllFine
<1> QED
  BY <1>2, <1>3

\* The next timer is the first of those that wait to expire.
LEMMA NextIsFirst ==
  ASSUME IInv, base.active # <<>>
  PROVE  LET time == baseTime + TimeToNextExpire(base, baseTime) IN
         /\ time \in Nat /\ baseTime <= time
         /\ time = baseTime \/ \A t \in Range(base.active) : time <= t.expire
<1> DEFINE s == base.active
           time == baseTime + TimeToNextExpire(base, baseTime)
<1>1. /\ s \in Seq(TimerType) /\ DOMAIN s = 1 .. Len(s) /\ Len(s) \in Nat
      /\ ListOK(base) /\ baseTime \in Nat
  BY BaseFacts, ListFields
<1>2. 1 \in DOMAIN s /\ Head(s) = s[1] /\ s[1].expire \in Int
  <2>1. Len(s) # 0
    BY <1>1, EmptySeq
  <2>2. 1 \in DOMAIN s
    BY <1>1, <2>1
  <2> QED
    BY <1>1, <2>2, PlacesOfActive, HeadTailProperties
<1>3. \A t \in Range(s) : t.expire \in Int /\ s[1].expire <= t.expire
  <2>1. SUFFICES ASSUME NEW i \in DOMAIN s
                 PROVE  s[i].expire \in Int /\ s[1].expire <= s[i].expire
    BY DEF Range
  <2>2. s[i].expire \in Int /\ i \in Nat \ {0}
    BY <1>1, PlacesOfActive
  <2>3. CASE i = 1
    BY <2>2, <2>3
  <2>4. CASE 1 < i
    BY <1>1, <1>2, <2>2, <2>4 DEF ListOK
  <2> QED
    BY <2>2, <2>3, <2>4
<1> DEFINE e == Head(s).expire
<1>4. time = IF e < baseTime THEN baseTime ELSE e
  <2>1. e \in Int
    BY <1>2
  <2> HIDE DEF e
  <2>2. time = baseTime + (IF e < baseTime THEN 0 ELSE e - baseTime)
    BY DEF TimeToNextExpire, e
  <2> QED
    BY <1>1, <2>1, <2>2
<1>5. time \in Nat /\ baseTime <= time /\ (time = baseTime \/ time = s[1].expire)
  BY <1>1, <1>2, <1>4
<1> HIDE DEF s, time
<1> QED
  BY <1>3, <1>5 DEF s, time

\* The clock goes to the next timer and not past it, so the session's step timer
\* cannot fall behind.
LEMMA NextMomentKeeps ==
  ASSUME IInv, NextMoment
  PROVE  IInv'
<1> DEFINE time == baseTime + TimeToNextExpire(base, baseTime)
<1>1. /\ at = "advance" /\ base.active # <<>> /\ time <= target /\ SetBaseTime(time)
      /\ toRun' = [toRun EXCEPT !.base = GetExpiredCount(base, baseTime')]
      /\ at' = "base" /\ UNCHANGED <<target, base, sim, sceneTime, activityVars, deleted, counters>>
  BY DEF NextMoment, TimerIsDue
<1>2. /\ time \in Nat /\ baseTime <= time
      /\ time = baseTime \/ \A t \in Range(base.active) : time <= t.expire
  BY <1>1, NextIsFirst
<1> HIDE DEF time
<1>3. base.client = NoTimer
  BY <1>1 DEF IInv, WhoIsOut
<1>4. AllFine' /\ baseTime' = time
  BY <1>1, <1>2, <1>3, TimePasses
<1>5. BaseInv'
  <2>1. SessionSteps' /\ BasePunctual'
    BY <1>1, <1>2, <1>3, <1>4, BaseTimePasses
  <2>2. /\ BaseTimers' = BaseTimers
        /\ started' = started /\ paused' = paused /\ speed' = speed /\ alive' = alive
        /\ stepId' = stepId /\ owned' = owned
    BY <1>1 DEF BaseTimers, Waiting, Out, activityVars
  <2>3. StepTimers' /\ Owners'
    BY <1>1, <2>2 DEF IInv, BaseInv, StepTimers, Owners
  <2> QED
    BY <2>1, <2>3 DEF BaseInv
<1>6. PlainTypes'
  <2>1. target \in 0 .. MaxTime /\ baseTime' \in 0 .. MaxTime
    BY <1>1, <1>2, <1>4, BoundAssumption DEF IInv, PlainTypes
  <2>2. GetExpiredCount(base, baseTime') \in Nat
    BY <1>2, <1>4, BaseFacts, LateBegin
  <2>3. toRun' \in [base : Nat, sim : Nat]
    BY <1>1, <2>2 DEF IInv, PlainTypes
  <2> QED
    BY <1>1, <2>1, <2>3 DEF IInv, PlainTypes, activityVars, counters
<1>7. WhoIsOut'
  BY <1>1, <1>3, <1>4, NoneOut DEF WhoIsOut
<1>8. SimPunctual'
  BY <1>1 DEF IInv, SimPunctual
<1> QED
  BY <1>4, <1>5, <1>6, <1>7, <1>8 DEF IInv

\* Update returns at a time that the clock may get to.
LEMMA EndUpdateKeeps ==
  ASSUME IInv, EndUpdate, base.client = NoTimer, at # "sim", at # "step",
         UNCHANGED <<base, sim, sceneTime, toRun, deleted, counters>>,
         baseTime' \in 0 .. MaxTime, AllFine', SessionSteps' /\ BasePunctual'
  PROVE  IInv'
<1>1. at' = "rest" /\ target' = 0 /\ UNCHANGED <<started, paused, speed, alive, stepId>>
  BY DEF EndUpdate
<1>2. BaseInv'
  BY BasePrune DEF BaseInv
<1>3. PlainTypes'
  <2>1. owned \in [Activity -> SUBSET Nat]
    BY DEF IInv, PlainTypes
  <2>2. owned' \in [Activity -> SUBSET Nat]
    BY <2>1 DEF EndUpdate, PruneSessionBaseTimers
  <2> QED
    BY <1>1, <2>2, BoundAssumption DEF IInv, PlainTypes, counters
<1>4. WhoIsOut'
  BY <1>1, NoneOut DEF WhoIsOut
<1>5. SimPunctual'
  BY <1>1 DEF IInv, SimPunctual
<1> QED
  BY <1>2, <1>3, <1>4, <1>5 DEF IInv

LEMMA EndMomentKeeps ==
  ASSUME IInv, EndMoment
  PROVE  IInv'
<1>1. /\ at = "base" /\ base.client = NoTimer
      /\ UNCHANGED <<baseTime, base, sim, sceneTime, toRun, deleted, ranNow, counters>>
      /\ (at' = "advance" /\ UNCHANGED <<target, activityVars>>) \/ EndUpdate
  BY DEF EndMoment
<1>2. AllFine'
  BY <1>1 DEF IInv, AllFine
<1>3. CASE at' = "advance" /\ UNCHANGED <<target, activityVars>>
  <2>1. BaseInv'
    BY <1>1, <1>3, BaseStill DEF IInv
  <2>2. PlainTypes'
    BY <1>1, <1>3 DEF IInv, PlainTypes, activityVars, counters
  <2>3. WhoIsOut' /\ SimPunctual'
    BY <1>1, <1>3 DEF IInv, WhoIsOut, SimPunctual
  <2> QED
    BY <1>2, <2>1, <2>2, <2>3 DEF IInv
<1>4. CASE EndUpdate
  <2>1. baseTime' \in 0 .. MaxTime
    BY <1>1 DEF IInv, PlainTypes
  <2>2. SessionSteps' /\ BasePunctual'
    BY <1>1, BaseTimePasses, BaseFacts
  <2> QED
    BY <1>1, <1>2, <1>4, <2>1, <2>2, EndUpdateKeeps
<1> QED
  BY <1>1, <1>3, <1>4

\* The next timer expires beyond the target, or none waits.
LEMMA ReachTargetKeeps ==
  ASSUME IInv, ReachTarget
  PROVE  IInv'
<1>1. /\ at = "advance" /\ ~TimerIsDue /\ SetBaseTime(target) /\ EndUpdate
      /\ UNCHANGED <<base, sim, sceneTime, toRun, deleted, counters>>
  BY DEF ReachTarget
<1>2. base.client = NoTimer /\ baseTime <= target /\ target \in Nat
  BY <1>1, BaseFacts DEF IInv, WhoIsOut
<1>3. AllFine' /\ baseTime' = target
  BY <1>1, <1>2, TimePasses
<1>4. baseTime' \in 0 .. MaxTime
  BY <1>3 DEF IInv, PlainTypes
<1>5. target = baseTime \/ \A t \in Range(base.active) : target <= t.expire
  <2>1. CASE base.active = <<>>
    <3>1. Range(base.active) = {}
      <4>1. base.active \in Seq(TimerType) /\ Len(<<>>) = 0 /\ DOMAIN base.active = 1 .. Len(base.active)
        BY BaseFacts, ListFields, EmptySeq
      <4> QED
        BY <2>1, <4>1 DEF Range
    <3> QED
      BY <3>1
  <2>2. CASE base.active # <<>>
    <3> DEFINE time == baseTime + TimeToNextExpire(base, baseTime)
    <3>1. ~(time <= target)
      BY <1>1, <2>2 DEF TimerIsDue
    <3>2. /\ time \in Nat /\ baseTime <= time
          /\ time = baseTime \/ \A t \in Range(base.active) : time <= t.expire
      BY <2>2, NextIsFirst
    <3> HIDE DEF time
    <3>3. \A t \in Range(base.active) : t.expire \in Int
      BY BaseFacts, TimerFields
    <3>4. baseTime \in Nat
      BY BaseFacts
    <3> QED
      BY <1>2, <3>1, <3>2, <3>3, <3>4
  <2> QED
    BY <2>1, <2>2
<1>6. SessionSteps' /\ BasePunctual'
  BY <1>1, <1>2, <1>3, <1>5, BaseTimePasses
<1> QED
  BY <1>1, <1>2, <1>3, <1>4, <1>6, EndUpdateKeeps

\* When the timer steps a scene, those of its timers that are late are the ones
\* that Run has counted.
LEMMA RunTimerKeeps ==
  ASSUME IInv, RunTimer
  PROVE  IInv'
<1>1. /\ at = "base" /\ base.client = NoTimer /\ toRun.base > 0
      /\ UNCHANGED <<baseTime, target, sim, sceneTime, activityVars, deleted, counters>>
  BY DEF RunTimer
<1>2. /\ toRun \in [base : Nat, sim : Nat]
      /\ ranNow \in [base : SUBSET Nat, sim : [Scene -> SUBSET Nat]]
      /\ \A c \in Scene : sim[c].client = NoTimer
  BY <1>1, NoneOut DEF IInv, PlainTypes, AllFine
<1>3. CASE /\ HasExpired(base, baseTime) /\ base' = GetExpiredTimer(base, baseTime)
           /\ ranNow' = [ranNow EXCEPT !.base = @ \cup {base'.client.id}]
           /\ LET what == base'.client.what IN
              \/ what.type = "call" /\ UNCHANGED <<at, toRun>>
              \/ /\ what.type = "step"
                 /\ at' = "sim"
                 /\ toRun' = [toRun EXCEPT !.sim =
                                GetExpiredCount(sim[what.of], sceneTime[what.of])]
  <2>1. /\ Fine(base', baseTime, ranNow.base \cup {base'.client.id}, deleted.base)
        /\ base'.client # NoTimer
    BY <1>1, <1>3, BaseFacts, FineTake
  <2>2. base'.client \in TimerType
    BY <2>1, FineFields
  <2>3. PICK c \in Scene : c = base'.client.what.of
    BY <2>2, TimerFields DEF Kind
  <2>4. BaseInv'
    BY <1>1, <1>3, BaseTake
  <2>5. AllFine'
    <3>1. base'.client.id \in Nat
      BY <2>2, TimerFields
    <3>2. /\ ranNow' \in [base : SUBSET Nat, sim : [Scene -> SUBSET Nat]]
          /\ ranNow'.base = ranNow.base \cup {base'.client.id} /\ ranNow'.sim = ranNow.sim
      BY <1>2, <1>3, <3>1
    <3> QED
      BY <1>1, <2>1, <3>2 DEF IInv, AllFine
  <2>6. \/ base'.client.what.type = "call" /\ at' = "base" /\ toRun' = toRun
        \/ /\ base'.client.what.type = "step" /\ at' = "sim" /\ toRun'.base = toRun.base
           /\ toRun'.sim = GetExpiredCount(sim[c], sceneTime[c])
           /\ toRun' \in [base : Nat, sim : Nat]
    <3>1. GetExpiredCount(sim[c], sceneTime[c]) \in Nat
      BY SimFacts, LateBegin
    <3> QED
      BY <1>1, <1>2, <1>3, <2>3, <3>1
  <2>7. PlainTypes'
    BY <1>1, <1>2, <2>6 DEF IInv, PlainTypes, activityVars, counters
  <2>8. WhoIsOut'
    BY <1>1, <1>2, <2>1, <2>6 DEF IInv, WhoIsOut
  <2>9. SimPunctual'
    <3>1. CASE at' = "base"
      BY <1>1, <3>1 DEF IInv, SimPunctual
    <3>2. CASE /\ at' = "sim" /\ toRun'.sim = GetExpiredCount(sim[c], sceneTime[c])
      <4>1. LateAreLeft(sim[c], sceneTime[c], toRun'.sim)
        BY <3>2, SimFacts, LateBegin
      <4>2. Stepping' = c
        BY <2>3 DEF Stepping
      <4>3. StillToRun(Stepping)' = toRun'.sim
        BY <1>1, <1>2, <3>2, <4>2 DEF StillToRun
      <4> QED
        BY <1>1, <3>2, <4>1, <4>2, <4>3 DEF IInv, SimPunctual
    <3> QED
      BY <2>6, <3>1, <3>2
  <2> QED
    BY <2>4, <2>5, <2>7, <2>8, <2>9 DEF IInv
<1>4. CASE toRun' = [toRun EXCEPT !.base = @ - 1] /\ UNCHANGED <<at, base, ranNow>>
  <2>1. toRun' \in [base : Nat, sim : Nat] /\ toRun'.sim = toRun.sim
    BY <1>1, <1>2, <1>4
  <2>2. BaseInv' /\ AllFine'
    BY <1>1, <1>4, BaseStill DEF IInv, AllFine
  <2>3. PlainTypes'
    BY <1>1, <1>4, <2>1 DEF IInv, PlainTypes, activityVars, counters
  <2>4. WhoIsOut' /\ SimPunctual'
    BY <1>1, <1>2, <1>4, <2>1 DEF IInv, WhoIsOut, SimPunctual
  <2> QED
    BY <2>2, <2>3, <2>4 DEF IInv
<1> QED
  BY <1>3, <1>4 DEF RunTimer

LEMMA CallReturnsKeeps ==
  ASSUME IInv, CallReturns
  PROVE  IInv'
<1>1. /\ at = "base" /\ base.client # NoTimer /\ base' = SubmitTimer(base)
      /\ toRun' = [toRun EXCEPT !.base = @ - 1]
      /\ UNCHANGED <<at, baseTime, target, sim, sceneTime, activityVars, deleted,
                     ranNow, counters>>
  BY DEF CallReturns, TimerReturns
<1>2. /\ toRun \in [base : Nat, sim : Nat] /\ toRun.base > 0
      /\ \A c \in Scene : sim[c].client = NoTimer
      /\ base.client.what.type = "call"
  BY <1>1, NoneOut DEF IInv, PlainTypes, WhoIsOut
<1>3. toRun' \in [base : Nat, sim : Nat]
  BY <1>1, <1>2
<1>4. Fine(base', baseTime, ranNow.base, deleted.base) /\ base'.client = NoTimer
  BY <1>1, BaseFacts, FineSubmit DEF Submitted
<1>5. BaseInv'
  <2>1. base.client.what # StepOf(Session)
    BY <1>2, KindsAre
  <2> QED
    BY <1>1, <2>1, BaseReturn
<1>6. AllFine'
  BY <1>1, <1>4 DEF IInv, AllFine
<1>7. PlainTypes'
  BY <1>1, <1>3 DEF IInv, PlainTypes, activityVars, counters
<1>8. WhoIsOut' /\ SimPunctual'
  BY <1>1, <1>2, <1>4 DEF IInv, WhoIsOut, SimPunctual
<1> QED
  BY <1>5, <1>6, <1>7, <1>8 DEF IInv

\* The list of which scene is being run, and that its timer that is out, if
\* one is, belongs to a round of Run.
LEMMA SteppingFacts ==
  ASSUME IInv, at \in {"sim", "step"}
  PROVE  /\ Stepping \in Scene /\ base.client # NoTimer /\ base.client.what = StepOf(Stepping)
         /\ toRun \in [base : Nat, sim : Nat] /\ toRun.base > 0
         /\ LateAreLeft(sim[Stepping], sceneTime[Stepping], StillToRun(Stepping))
         /\ sim[Stepping].client # NoTimer => at = "sim" /\ toRun.sim > 0
         /\ \A c \in Scene \ {Stepping} : sim[c].client = NoTimer
<1>1. base.client # NoTimer /\ base.client.what.type = "step" /\ base.client \in TimerType
  BY BaseFacts DEF IInv, WhoIsOut
<1>2. base.client.what \in Kind
  BY <1>1, TimerFields
<1>3. Stepping \in Scene /\ base.client.what = StepOf(Stepping)
  BY <1>1, <1>2 DEF Stepping, Kind, StepOf
<1> QED
  BY <1>1, <1>3 DEF IInv, WhoIsOut, SimPunctual, PlainTypes

LEMMA BeginStepKeeps ==
  ASSUME IInv, BeginStep
  PROVE  IInv'
<1>1. /\ at = "sim" /\ sim[Stepping].client = NoTimer /\ toRun.sim = 0 /\ at' = "step"
      /\ UNCHANGED <<baseTime, target, base, sim, sceneTime, toRun, activityVars,
                     deleted, ranNow, counters>>
  BY DEF BeginStep
<1>2. BaseInv' /\ AllFine' /\ PlainTypes'
  BY <1>1, BaseStill DEF IInv, AllFine, PlainTypes, activityVars, counters
<1>3. Stepping' = Stepping
  BY <1>1 DEF Stepping
<1>4. WhoIsOut'
  BY <1>1, <1>3, SteppingFacts DEF IInv, WhoIsOut
<1>5. SimPunctual'
  <2>1. StillToRun(Stepping) = 0 /\ \A c \in Scene : StillToRun(c)' = 0
    BY <1>1 DEF StillToRun
  <2> QED
    BY <1>1, <1>3, <2>1, SteppingFacts DEF IInv, SimPunctual
<1> QED
  BY <1>2, <1>4, <1>5 DEF IInv

\* None that is late is left, so none gets later than a step.
LEMMA FinishStepKeeps ==
  ASSUME IInv, FinishStep
  PROVE  IInv'
<1> DEFINE c == Stepping
<1>1. /\ at = "step" /\ at' = "base" /\ base' = SubmitTimer(base)
      /\ sceneTime' = [sceneTime EXCEPT ![c] = @ + Step]
      /\ ranNow' = [ranNow EXCEPT !.sim[c] = {}]
      /\ toRun' = [toRun EXCEPT !.base = @ - 1]
      /\ UNCHANGED <<baseTime, target, sim, activityVars, deleted, counters>>
  BY DEF FinishStep, TimerReturns
<1>2. /\ c \in Scene /\ base.client # NoTimer /\ base.client.what = StepOf(c)
      /\ toRun \in [base : Nat, sim : Nat] /\ toRun.base > 0
      /\ LateAreLeft(sim[c], sceneTime[c], 0) /\ \A d \in Scene : sim[d].client = NoTimer
  <2>1. StillToRun(c) = 0
    BY <1>1 DEF StillToRun
  <2> QED
    BY <1>1, <2>1, SteppingFacts, NoneOut
<1> HIDE DEF c
<1>3. Step \in Nat /\ Session \in Scene /\ sceneTime \in [Scene -> Nat]
  BY BaseFacts DEF IInv, PlainTypes
<1>4. /\ sceneTime' \in [Scene -> Nat] /\ sceneTime'[c] = sceneTime[c] + Step
      /\ \A d \in Scene \ {c} : sceneTime'[d] = sceneTime[d]
  BY <1>1, <1>2, <1>3
<1>5. toRun' \in [base : Nat, sim : Nat]
  BY <1>1, <1>2
<1>6. Fine(base', baseTime, ranNow.base, deleted.base) /\ base'.client = NoTimer
  BY <1>2, <1>1, BaseFacts, FineSubmit DEF Submitted
<1>7. BaseInv'
  <2>1. sceneTime'[Session] = IF base.client.what = StepOf(Session)
                                THEN sceneTime[Session] + Step ELSE sceneTime[Session]
    BY <1>2, <1>3, <1>4, KindsAre
  <2> QED
    BY <1>1, <1>2, <2>1, BaseReturn
<1>8. AllFine'
  <2>1. /\ ranNow \in [base : SUBSET Nat, sim : [Scene -> SUBSET Nat]]
        /\ \A d \in Scene : Fine(sim[d], sceneTime[d], ranNow.sim[d], deleted.sim[d])
    BY DEF IInv, AllFine
  <2>2. /\ ranNow' \in [base : SUBSET Nat, sim : [Scene -> SUBSET Nat]]
        /\ ranNow'.base = ranNow.base /\ ranNow'.sim[c] = {}
        /\ \A d \in Scene \ {c} : ranNow'.sim[d] = ranNow.sim[d]
    BY <1>1, <1>2, <2>1
  <2>3. Fine(sim[c], sceneTime'[c], {}, deleted.sim[c])
    <3>1. sceneTime'[c] \in Nat
      BY <1>2, <1>4
    <3> QED
      BY <1>2, <2>1, <3>1, FineTime
  <2>4. \A d \in Scene : Fine(sim[d], sceneTime'[d], ranNow'.sim[d], deleted.sim[d])
    BY <1>4, <2>1, <2>2, <2>3
  <2> QED
    BY <1>1, <1>6, <2>2, <2>4 DEF IInv, AllFine
<1>9. PlainTypes'
  BY <1>1, <1>4, <1>5 DEF IInv, PlainTypes, activityVars, counters
<1>10. WhoIsOut'
  BY <1>1, <1>2, <1>6 DEF IInv, WhoIsOut
<1>11. SimPunctual'
  <2>1. NotLate(sim[c], sceneTime'[c])
    BY <1>2, <1>4, SimFacts, LateStep
  <2> QED
    BY <1>1, <1>4, <2>1 DEF IInv, SimPunctual
<1> QED
  BY <1>7, <1>8, <1>9, <1>10, <1>11 DEF IInv

LEMMA RunSimTimerKeeps ==
  ASSUME IInv, RunSimTimer
  PROVE  IInv'
<1> DEFINE c == Stepping
           list == sim[c]
           time == sceneTime[c]
<1>1. /\ at = "sim" /\ list.client = NoTimer /\ toRun.sim > 0
      /\ UNCHANGED <<at, baseTime, target, base, sceneTime, activityVars, deleted, counters>>
  BY DEF RunSimTimer
<1>2. /\ c \in Scene /\ toRun \in [base : Nat, sim : Nat] /\ toRun.base > 0
      /\ LateAreLeft(list, time, toRun.sim) /\ Stepping' = Stepping
      /\ base.client # NoTimer /\ base.client.what.type = "step"
      /\ \A d \in Scene : sim[d].client = NoTimer
  <2>1. StillToRun(c) = toRun.sim
    BY <1>1 DEF StillToRun
  <2> QED
    BY <1>1, <2>1, SteppingFacts DEF Stepping, StepOf
<1>3. /\ Fine(list, time, ranNow.sim[c], deleted.sim[c]) /\ ListOK(list) /\ time \in Nat
      /\ NotLate(list, time) /\ sim \in [Scene -> ListType]
      /\ ranNow \in HistoryType /\ deleted \in HistoryType
  BY <1>2, SimFacts DEF IInv, AllFine, HistoryType
<1>4. CASE /\ HasExpired(list, time) /\ sim' = [sim EXCEPT ![c] = GetExpiredTimer(@, time)]
           /\ ranNow' = [ranNow EXCEPT !.sim[c] = @ \cup {sim'[c].client.id}]
           /\ UNCHANGED toRun
  <2> DEFINE new == GetExpiredTimer(list, time)
  <2>1. /\ Fine(new, time, ranNow.sim[c] \cup {new.client.id}, deleted.sim[c])
        /\ new.client # NoTimer /\ Taken(list, new, time)
    BY <1>1, <1>3, <1>4, FineTake
  <2>2. ListOK(new) /\ new.client \in TimerType /\ new \in ListType
    BY <2>1, FineFields
  <2>3. sim' = [sim EXCEPT ![c] = new] /\ sim'[c] = new
        /\ \A d \in Scene \ {c} : sim'[d] = sim[d]
    BY <1>2, <1>3, <1>4
  <2> HIDE DEF c, list, time, new
  <2>4. /\ ranNow' \in HistoryType /\ ranNow'.base = ranNow.base
        /\ ranNow'.sim[c] = ranNow.sim[c] \cup {new.client.id}
        /\ \A d \in Scene \ {c} : ranNow'.sim[d] = ranNow.sim[d]
    <3>1. new.client.id \in Nat
      BY <2>2, TimerFields
    <3> QED
      BY <1>2, <1>3, <1>4, <2>3, <3>1 DEF HistoryType
  <2>5. PlainTypes'
    BY <1>1, <1>2, <1>4 DEF IInv, PlainTypes, activityVars, counters
  <2>6. WhoIsOut'
    BY <1>1, <1>2, <1>4, <2>3 DEF IInv, WhoIsOut, c
  <2>7. SimPunctual'
    <3>1. NotLate(new, time) /\ LateAreLeft(new, time, toRun.sim - 1)
      BY <1>2, <1>3, <2>1, <2>2, LateTake
    <3>2. StillToRun(Stepping)' = toRun.sim - 1
      BY <1>1, <1>2, <1>4, <2>1, <2>3 DEF StillToRun, c
    <3> QED
      BY <1>1, <1>2, <2>3, <3>1, <3>2 DEF IInv, SimPunctual, c, time
  <2> QED
    BY <1>1, <1>2, <1>3, <2>1, <2>3, <2>4, <2>5, <2>6, <2>7, SimOnly DEF time
<1>5. CASE ~HasExpired(list, time) /\ toRun' = [toRun EXCEPT !.sim = @ - 1]
           /\ UNCHANGED <<sim, ranNow>>
  <2>1. toRun' \in [base : Nat, sim : Nat] /\ toRun'.base = toRun.base
    BY <1>1, <1>2, <1>5
  <2>2. \A left : LateAreLeft(list, time, left)
    BY <1>3, <1>5, LateBegin
  <2>3. BaseInv' /\ AllFine'
    BY <1>1, <1>5, BaseStill DEF IInv, AllFine
  <2>4. PlainTypes'
    BY <1>1, <1>5, <2>1 DEF IInv, PlainTypes, activityVars, counters
  <2>5. WhoIsOut'
    BY <1>1, <1>2, <1>5, <2>1 DEF IInv, WhoIsOut
  <2>6. SimPunctual'
    BY <1>1, <1>2, <1>5, <2>2 DEF IInv, SimPunctual
  <2> QED
    BY <2>3, <2>4, <2>5, <2>6 DEF IInv
<1> QED
  BY <1>4, <1>5 DEF RunSimTimer

LEMMA SimCallReturnsKeeps ==
  ASSUME IInv, SimCallReturns
  PROVE  IInv'
<1> DEFINE c == Stepping
           list == sim[c]
           time == sceneTime[c]
           new == SubmitTimer(list)
<1>1. /\ at = "sim" /\ list.client # NoTimer /\ sim' = [sim EXCEPT ![c] = new]
      /\ toRun' = [toRun EXCEPT !.sim = @ - 1]
      /\ UNCHANGED <<at, baseTime, target, base, sceneTime, activityVars, deleted,
                     ranNow, counters>>
  BY DEF SimCallReturns
<1>2. /\ c \in Scene /\ toRun \in [base : Nat, sim : Nat] /\ toRun.base > 0 /\ toRun.sim > 0
      /\ LateAreLeft(list, time, toRun.sim - 1) /\ Stepping' = Stepping
      /\ base.client # NoTimer /\ base.client.what.type = "step"
      /\ \A d \in Scene \ {c} : sim[d].client = NoTimer
  <2>1. StillToRun(c) = toRun.sim - 1
    BY <1>1 DEF StillToRun
  <2> QED
    BY <1>1, <2>1, SteppingFacts DEF Stepping, StepOf
<1>3. /\ Fine(list, time, ranNow.sim[c], deleted.sim[c]) /\ ListOK(list) /\ time \in Nat
      /\ NotLate(list, time) /\ sim \in [Scene -> ListType]
      /\ ranNow \in HistoryType /\ deleted \in HistoryType
  BY <1>2, SimFacts DEF IInv, AllFine, HistoryType
<1>4. /\ Fine(new, time, ranNow.sim[c], deleted.sim[c]) /\ Submitted(list, new)
      /\ ListOK(new) /\ new.client = NoTimer
  BY <1>1, <1>3, FineSubmit, FineFields DEF Submitted
<1> HIDE DEF c, list, time, new
<1>5. NotLate(new, time) /\ LateAreLeft(new, time, toRun.sim - 1)
  <2> DEFINE t == list.client
             b == [t EXCEPT !.expire = t.last + t.length]
  <2>1. t \in TimerType /\ t.last = time /\ t.length \in Nat \cup {Never}
    <3>1. list.client \in TimerType /\ list.client \in Out(list)
      BY <1>1, <1>3, FineFields
    <3>2. list.client.last = time
      BY <1>3, <3>1 DEF Fine
    <3> QED
      BY <3>1, <3>2, TimerFields
  <2>2. b \in TimerType /\ b.expire = time + t.length /\ b.length = t.length
    <3>1. time + t.length \in Nat \cup {Never}
      BY <1>3, <2>1 DEF Never
    <3> QED
      BY <2>1, <3>1 DEF TimerType
  <2>3. time <= b.expire + 1 /\ (b.length # Never => time <= b.expire)
    BY <1>3, <2>1, <2>2 DEF Never
  <2>4. new.active = list.active \/ Added(list, new, b)
    BY <1>4 DEF Submitted
  <2> HIDE DEF b, t
  <2>5. CASE new.active = list.active
    BY <1>2, <1>3, <2>5 DEF NotLate, LateAreLeft
  <2>6. CASE Added(list, new, b)
    BY <1>2, <1>3, <1>4, <2>2, <2>3, <2>6, LateAdd
  <2> QED
    BY <2>4, <2>5, <2>6
<1>6. toRun' \in [base : Nat, sim : Nat] /\ toRun'.base = toRun.base
      /\ toRun'.sim = toRun.sim - 1
  BY <1>1, <1>2
<1>7. sim'[c] = new /\ \A d \in Scene \ {c} : sim'[d] = sim[d]
  BY <1>1, <1>2, <1>3
<1>8. PlainTypes'
  BY <1>1, <1>6 DEF IInv, PlainTypes, activityVars, counters
<1>9. WhoIsOut'
  <2>1. \A d \in Scene : sim'[d].client = NoTimer
    BY <1>2, <1>4, <1>7
  <2> QED
    BY <1>1, <1>2, <1>6, <2>1 DEF IInv, WhoIsOut
<1>10. SimPunctual'
  <2>1. StillToRun(Stepping)' = toRun.sim - 1
    BY <1>1, <1>2, <1>4, <1>6, <1>7 DEF StillToRun, c
  <2> QED
    BY <1>1, <1>2, <1>5, <1>7, <2>1 DEF IInv, SimPunctual, c, time
<1> QED
  BY <1>1, <1>2, <1>3, <1>4, <1>8, <1>9, <1>10, SimOnly DEF time

LEMMA NewSimTimerKeeps ==
  ASSUME IInv, NEW c \in Scene, NEW length \in Lengths, NEW repeat \in BOOLEAN,
         NewSimTimer(c, length, repeat)
  PROVE  IInv'
<1> DEFINE list == sim[c]
           time == sceneTime[c]
           new == NewTimer(list, time, length, repeat, CallOf(c))
           t == MadeTimer(list, time, length, repeat, CallOf(c))
<1>1. /\ made < MaxTimers /\ made' = made + 1 /\ (repeat => length # 0)
      /\ sim' = [sim EXCEPT ![c] = new]
      /\ UNCHANGED <<at, baseTime, target, base, sceneTime, toRun, activityVars,
                     deleted, ranNow, changes>>
  BY DEF NewSimTimer, MaySet
<1>2. /\ Fine(list, time, ranNow.sim[c], deleted.sim[c]) /\ ListOK(list) /\ time \in Nat
      /\ NotLate(list, time) /\ StillToRun(c) \in Int
      /\ ranNow \in HistoryType /\ deleted \in HistoryType /\ length \in Nat
  BY SimFacts, SpeedAssumption DEF IInv, AllFine, HistoryType
<1> HIDE DEF list, time
<1>3. CallOf(c) \in Kind
  BY KindsAre
<1>4. /\ Fine(new, time, ranNow.sim[c], deleted.sim[c])
      /\ new.client = list.client /\ Added(list, new, t)
  BY <1>1, <1>2, <1>3, FineNew
<1>5. ListOK(new)
  BY <1>4, FineFields
<1>6. t \in TimerType /\ t.expire = time + length
  BY <1>2, <1>3, NewTimerAdds DEF MadeTimer
<1> HIDE DEF new, t
<1>7. /\ NotLate(new, time)
      /\ LateAreLeft(list, time, StillToRun(c)) => LateAreLeft(new, time, StillToRun(c))
  <2>1. time <= t.expire + 1 /\ time <= t.expire
    BY <1>2, <1>6
  <2> QED
    BY <1>2, <1>4, <1>5, <1>6, <2>1, LateAdd
<1>8. WhoIsOut' /\ SimPunctual'
  BY <1>1, <1>4, <1>7, SimPython DEF list, time
<1>9. PlainTypes'
  BY <1>1, BoundAssumption DEF IInv, PlainTypes, activityVars
<1> QED
  BY <1>1, <1>2, <1>4, <1>8, <1>9, SimOnly DEF time

LEMMA DeleteSimTimerKeeps ==
  ASSUME IInv, NEW c \in Scene, NEW t, DeleteSimTimer(c, t)
  PROVE  IInv'
<1> DEFINE list == sim[c]
           time == sceneTime[c]
           new == DeleteTimers(list, {t.id})
<1>1. /\ sim' = [sim EXCEPT ![c] = new]
      /\ deleted' = [deleted EXCEPT !.sim[c] = @ \cup {t.id}]
      /\ t \in Waiting(list) \cup Out(list)
      /\ UNCHANGED <<at, baseTime, target, base, sceneTime, toRun, activityVars, ranNow,
                     counters>>
  BY DEF DeleteSimTimer
<1>2. /\ Fine(list, time, ranNow.sim[c], deleted.sim[c]) /\ ListOK(list) /\ time \in Nat
      /\ NotLate(list, time) /\ StillToRun(c) \in Int
      /\ ranNow \in HistoryType /\ deleted \in HistoryType
  BY SimFacts DEF IInv, AllFine, HistoryType
<1> HIDE DEF list, time
<1>3. t.id \in Nat /\ t.id < list.nextId
  <2>1. t \in TimerType
    BY <1>1, <1>2, FineFields
  <2> QED
    BY <1>1, <1>2, <2>1, TimerFields DEF ListOK
<1>4. /\ Fine(new, time, ranNow.sim[c], deleted.sim[c] \cup {t.id})
      /\ Deleted(list, new, {t.id})
  BY <1>2, <1>3, FineDelete
<1>5. ListOK(new)
  BY <1>4, FineFields
<1> HIDE DEF new
<1>6. new.client = NoTimer <=> list.client = NoTimer
  <2>1. CASE list.client # NoTimer /\ list.client.id \in {t.id}
    <3>1. list.client \in TimerType /\ new.client = [list.client EXCEPT !.dead = TRUE]
      BY <1>2, <1>4, <2>1, FineFields DEF Deleted
    <3>2. new.client \in TimerType
      BY <3>1 DEF TimerType
    <3> QED
      BY <2>1, <3>2, TimerFields
  <2>2. CASE ~(list.client # NoTimer /\ list.client.id \in {t.id})
    BY <1>4, <2>2 DEF Deleted
  <2> QED
    BY <2>1, <2>2
<1>7. /\ NotLate(new, time)
      /\ LateAreLeft(list, time, StillToRun(c)) => LateAreLeft(new, time, StillToRun(c))
  <2>1. Pulled(list, new, {t.id})
    BY <1>4 DEF Deleted
  <2> QED
    BY <1>2, <1>5, <2>1, LatePull
<1>8. WhoIsOut' /\ SimPunctual'
  BY <1>1, <1>6, <1>7, SimPython DEF list, time
<1>9. PlainTypes'
  BY <1>1 DEF IInv, PlainTypes, activityVars, counters
<1>10. /\ deleted' \in HistoryType /\ deleted'.base = deleted.base
       /\ deleted'.sim[c] = deleted.sim[c] \cup {t.id}
       /\ \A d \in Scene \ {c} : deleted'.sim[d] = deleted.sim[d]
  BY <1>1, <1>2, <1>3 DEF HistoryType
<1> QED
  BY <1>1, <1>2, <1>4, <1>8, <1>9, <1>10, SimOnly DEF time

LEMMA NewBaseTimerKeeps ==
  ASSUME IInv, NEW c \in Scene, NEW length \in Lengths, NEW repeat \in BOOLEAN,
         NewBaseTimer(c, length, repeat)
  PROVE  IInv'
<1> DEFINE now == sceneTime[Session]
           u == MadeTimer(base, now, length, repeat, CallOf(c))
<1>1. /\ made < MaxTimers /\ made' = made + 1 /\ (repeat => length # 0) /\ c \in Living
      /\ base' = NewTimer(base, now, length, repeat, CallOf(c))
      /\ owned' = [a \in Activity |->
                     IF a = c THEN owned[a] \cup {base.nextId} ELSE owned[a]]
      /\ UNCHANGED <<at, baseTime, target, sim, sceneTime, toRun, started, paused,
                     speed, alive, stepId, deleted, ranNow, changes>>
  BY DEF NewBaseTimer, MaySet
<1>2. /\ CallOf(c) \in Kind /\ now \in Nat /\ length \in Nat /\ baseTime \in Nat /\ Step \in Nat
      /\ Fine(base, baseTime, ranNow.base, deleted.base) /\ base.nextId \in Nat
      /\ ranNow \in HistoryType /\ deleted \in HistoryType
  BY BaseFacts, KindsAre, SpeedAssumption DEF IInv, AllFine, HistoryType
<1> HIDE DEF now
<1>3. /\ Fine(base', baseTime, ranNow.base, deleted.base)
      /\ base'.client = base.client /\ base'.nextId = base.nextId + 1
      /\ Added(base, base', u)
  <2> DEFINE new == NewTimer(base, now, length, repeat, CallOf(c))
  <2>1. repeat => length # 0
    BY <1>1
  <2>2. /\ CallOf(c) \in Kind /\ now \in Nat /\ length \in Nat
        /\ Fine(base, baseTime, ranNow.base, deleted.base)
    BY <1>2
  <2>3. /\ Fine(new, baseTime, ranNow.base, deleted.base)
        /\ new.client = base.client /\ new.nextId = base.nextId + 1 /\ Added(base, new, u)
    BY <2>1, <2>2, FineNew
  <2> QED
    BY <1>1, <2>3
<1>4. /\ u \in TimerType /\ u.id = base.nextId /\ ~u.dead /\ u.expire = now + length
      /\ u.what = CallOf(c) /\ u.length = length
  BY <1>2, FineFields, NewTimerAdds DEF MadeTimer
<1> HIDE DEF u
<1>5. OneMore(u)
  BY <1>3, <1>4 DEF Added, OneMore
<1>6. baseTime <= u.expire + Step
  <2>1. baseTime <= now + Step
    BY PunctualFollows DEF Punctual, now
  <2> QED
    BY <1>2, <1>4, <2>1
<1>7. BaseInv'
  BY <1>1, <1>4, <1>5, <1>6, BaseCall
<1>8. PlainTypes'
  <2>1. owned' \in [Activity -> SUBSET Nat]
    BY <1>1, <1>2 DEF IInv, PlainTypes
  <2> QED
    BY <1>1, <2>1, BoundAssumption DEF IInv, PlainTypes
<1> QED
  BY <1>1, <1>2, <1>3, <1>7, <1>8, BaseOnly

\* A timer is in one place.
LEMMA IdsDiffer ==
  ASSUME NEW list, ListOK(list)
  PROVE  \A t, u \in Waiting(list) \cup Out(list) : t.id = u.id => t = u
<1>1. /\ Distinct(list.active) /\ Distinct(list.inactive)
      /\ \A t \in Range(list.active), u \in Range(list.inactive) : t.id # u.id
      /\ \A t \in Waiting(list) : \A u \in Out(list) : t.id # u.id
  BY DEF ListOK
<1>2. \A s : Distinct(s) => \A t, u \in Range(s) : t.id = u.id => t = u
  BY DEF Distinct, Range
<1>3. \A t, u \in Out(list) : t = u
  BY DEF Out
<1> QED
  BY <1>1, <1>2, <1>3 DEF Waiting

LEMMA DeleteBaseTimerKeeps ==
  ASSUME IInv, NEW t \in BaseTimers, DeleteBaseTimer(t)
  PROVE  IInv'
<1> DEFINE ids == {t.id}
<1>1. /\ base' = DeleteTimers(base, ids) /\ t.what.type = "call"
      /\ deleted' = [deleted EXCEPT !.base = @ \cup ids]
      /\ UNCHANGED <<at, baseTime, target, sim, sceneTime, toRun, activityVars, ranNow,
                     counters>>
  BY DEF DeleteBaseTimer
<1>2. /\ Fine(base, baseTime, ranNow.base, deleted.base)
      /\ ranNow \in HistoryType /\ deleted \in HistoryType
      /\ \A id \in ids : id \in Nat /\ id < base.nextId
      /\ started' = started /\ paused' = paused /\ speed' = speed /\ alive' = alive
      /\ stepId' = stepId /\ owned' = owned
  BY <1>1, BaseFacts DEF IInv, AllFine, HistoryType, activityVars
<1>3. Fine(base', baseTime, ranNow.base, deleted.base \cup ids)
  BY <1>1, <1>2, FineDelete
<1>4. \A u \in BaseTimers : u.id \in ids => u.what.type = "call"
  BY <1>1, IdsDiffer, BaseFacts DEF BaseTimers
<1> HIDE DEF ids
<1>5. /\ BaseInv'
      /\ base.client = NoTimer => base'.client = NoTimer
      /\ base.client # NoTimer => base'.client # NoTimer /\ base'.client.what = base.client.what
  <2>1. \A u \in BaseTimers : u.id \in ids => u.what # StepOf(Session)
    BY <1>4, KindsAre
  <2>2. \A u \in Out(base) : u.id \in ids => u.what.type = "call"
    BY <1>4 DEF BaseTimers
  <2>3. \A u \in BaseTimers, a \in Activity :
          u.what.of = a /\ ~u.dead /\ u.id \notin ids => alive'[a] /\ u.id \in owned'[a]
    BY <1>2 DEF IInv, BaseInv, Owners
  <2>4. \A a \in Activity : owned'[a] \subseteq owned[a]
    BY <1>2
  <2> QED
    BY <1>1, <1>2, <2>1, <2>2, <2>3, <2>4, BaseDelete
<1>6. /\ deleted' \in HistoryType /\ deleted'.sim = deleted.sim
      /\ deleted'.base = deleted.base \cup ids
  BY <1>1, <1>2 DEF HistoryType
<1>7. PlainTypes'
  BY <1>1, <1>2 DEF IInv, PlainTypes, counters
<1> QED
  BY <1>1, <1>3, <1>5, <1>6, <1>7, BaseOnly

\* Two operations on the list make one timer, of the length the activity asks for.
LEMMA StartKeeps ==
  ASSUME IInv, NEW a \in Activity, Start(a)
  PROVE  IInv'
<1> DEFINE now == sceneTime[Session]
           mid == NewTimer(base, now, Step, TRUE, StepOf(a))
           m == MadeTimer(base, now, Step, TRUE, StepOf(a))
           id == base.nextId
           length == IF paused[a] THEN Never ELSE speed[a]
           u == Changed(m, length, baseTime)
<1>1. /\ alive[a] /\ ~started[a]
      /\ started' = [started EXCEPT ![a] = TRUE]
      /\ base' = SetBaseTimerLength(mid, id, length)
      /\ stepId' = [stepId EXCEPT ![a] = id]
      /\ owned' = [owned EXCEPT ![a] = @ \cup {id}]
      /\ UNCHANGED <<at, baseTime, target, sim, sceneTime, toRun, paused, speed, alive,
                     deleted, ranNow, counters>>
  BY DEF Start, StepTimerSet
<1>2. /\ StepOf(a) \in Kind /\ now \in Nat /\ Step \in Nat /\ Step # 0 /\ baseTime \in Nat
      /\ Fine(base, baseTime, ranNow.base, deleted.base) /\ id \in Nat \ {0} /\ ListOK(base)
      /\ ranNow \in HistoryType /\ deleted \in HistoryType
      /\ length \in (Nat \ {0}) \cup {Never}
  <2>1. speed[a] \in (Nat \ {0}) \cup {Never}
    BY SpeedAssumption DEF IInv, PlainTypes
  <2> QED
    BY <2>1, BaseFacts, KindsAre DEF IInv, AllFine, HistoryType
<1> HIDE DEF now, length
<1>3. /\ Fine(mid, baseTime, ranNow.base, deleted.base)
      /\ mid.client = base.client /\ mid.nextId = id + 1 /\ Added(base, mid, m)
  <2>1. ASSUME NEW repeat \in BOOLEAN
        PROVE  LET new == NewTimer(base, now, Step, repeat, StepOf(a)) IN
               /\ Fine(new, baseTime, ranNow.base, deleted.base)
               /\ new.client = base.client /\ new.nextId = base.nextId + 1
               /\ Added(base, new, MadeTimer(base, now, Step, repeat, StepOf(a)))
    BY <1>2, FineNew
  <2> QED
    BY <2>1, Zenon
<1>4. /\ m \in TimerType /\ m.id = id /\ ~m.dead /\ m.repeat /\ m.what = StepOf(a)
      /\ m.length = Step
  BY <1>2 DEF MadeTimer, TimerType
<1> HIDE DEF mid, m
<1>5. id \in Existing(mid) /\ m \in Waiting(mid)
  BY <1>3, <1>4 DEF Added, Existing
<1>6. /\ Fine(base', baseTime, ranNow.base, deleted.base)
      /\ Relengthed(mid, base', id, length, baseTime)
  <2>1. base' = SetLength(mid, id, length, baseTime)
    BY <1>1, <1>5 DEF SetBaseTimerLength
  <2> QED
    BY <1>2, <1>3, <1>5, <2>1, FineSetLength
<1>7. u \in TimerType
  <2>1. baseTime + length \in Nat \cup {Never}
    BY <1>2 DEF Never
  <2> QED
    BY <1>2, <1>4, <2>1 DEF Changed, TimerType
<1>8. /\ u.id = id /\ ~u.dead /\ u.repeat /\ u.what = StepOf(a) /\ u.length = length
      /\ u.expire = baseTime + length
  BY <1>4, ChangedFields
<1> HIDE DEF u
<1>9. OneMore(u)
  <2>1. \A t \in Waiting(base) \cup Out(base) : t.id # id
    BY <1>2, BaseFacts DEF BaseTimers
  <2>2. ~(mid.client # NoTimer /\ mid.client.id = id)
    BY <1>3, <2>1 DEF Out
  <2>3. PICK t \in Waiting(mid) :
          /\ t.id = id /\ base'.client = mid.client
          /\ Waiting(base') = {v \in Waiting(mid) : v.id # id} \cup {Changed(t, length, baseTime)}
          /\ Range(base'.active) =
               {v \in Range(mid.active) : v.id # id}
               \cup IF length = Never THEN {} ELSE {Changed(t, length, baseTime)}
    BY <1>6, <2>2 DEF Relengthed
  <2>4. Waiting(mid) = Waiting(base) \cup {m} /\ Range(mid.active) \subseteq Range(base.active) \cup {m}
    BY <1>3 DEF Added
  <2>5. Changed(t, length, baseTime) = u
    BY <2>1, <2>3, <2>4 DEF u
  <2>6. Waiting(base') = Waiting(base) \cup {u}
    BY <1>4, <2>1, <2>3, <2>4, <2>5
  <2>7. Range(base'.active) \subseteq Range(base.active)
                                      \cup IF u.length = Never THEN {} ELSE {u}
    BY <1>4, <1>8, <2>3, <2>4, <2>5
  <2>8. base'.nextId = id + 1
    BY <1>3, <1>6 DEF Relengthed
  <2> QED
    BY <1>3, <1>7, <1>8, <2>3, <2>6, <2>7, <2>8 DEF OneMore
<1>10. u.length # Never => baseTime <= u.expire + Step
  BY <1>2, <1>8
<1>11. BaseInv'
  BY <1>1, <1>8, <1>9, <1>10, BaseStart DEF length
<1>12. PlainTypes'
  <2>1. /\ started \in [Activity -> BOOLEAN] /\ stepId \in [Activity -> Nat]
        /\ owned \in [Activity -> SUBSET Nat]
    BY DEF IInv, PlainTypes
  <2>2. started' \in [Activity -> BOOLEAN]
    BY <1>1, <2>1
  <2>3. stepId' \in [Activity -> Nat] /\ owned' \in [Activity -> SUBSET Nat]
    BY <1>1, <1>2, <2>1
  <2> QED
    BY <1>1, <2>2, <2>3 DEF IInv, PlainTypes, counters
<1>13. base'.client = base.client
  BY <1>9 DEF OneMore
<1> QED
  BY <1>1, <1>2, <1>6, <1>11, <1>12, <1>13, BaseOnly

\* What is left to show when the length of a step timer may have been set.
LEMMA LengthKeeps ==
  ASSUME IInv, NEW a \in Activity,
         started[a] => base' = StepTimerSet(base, stepId[a], paused'[a], speed'[a]),
         ~started[a] => base' = base,
         UNCHANGED <<at, baseTime, target, sim, sceneTime, toRun, started, alive, stepId,
                     owned, deleted, ranNow>>,
         \A b \in Activity \ {a} : paused'[b] = paused[b] /\ speed'[b] = speed[b],
         PlainTypes'
  PROVE  IInv'
<1>1. PICK length : length = IF paused'[a] THEN Never ELSE speed'[a]
  OBVIOUS
<1>2. length \in (Nat \ {0}) \cup {Never}
  <2>1. speed'[a] \in Speeds
    BY DEF PlainTypes
  <2> QED
    BY <1>1, <2>1, SpeedAssumption
<1>3. started[a] => base' = StepTimerSet(base, stepId[a], FALSE, length)
  BY <1>1 DEF StepTimerSet
<1>4. /\ BaseInv' /\ Fine(base', baseTime, ranNow.base, deleted.base)
      /\ base.client = NoTimer => base'.client = NoTimer
      /\ base.client # NoTimer => base'.client # NoTimer /\ base'.client.what = base.client.what
  BY <1>1, <1>2, <1>3, BaseLength
<1>5. deleted' \in HistoryType /\ deleted' = deleted
  BY DEF IInv, AllFine, HistoryType
<1> QED
  BY <1>4, <1>5, BaseOnly

LEMMA SetPausedKeeps ==
  ASSUME IInv, NEW a \in Activity, SetPaused(a)
  PROVE  IInv'
<1>1. /\ changes < MaxChanges /\ changes' = changes + 1
      /\ paused' = [paused EXCEPT ![a] = ~@]
      /\ base' = IF started[a] THEN StepTimerSet(base, stepId[a], ~paused[a], speed[a])
                 ELSE base
      /\ UNCHANGED <<at, baseTime, target, sim, sceneTime, toRun, started, speed, alive,
                     stepId, owned, deleted, ranNow, made>>
  BY DEF SetPaused, MayChange
<1>2. paused \in [Activity -> BOOLEAN]
  BY DEF IInv, PlainTypes
<1>3. paused' \in [Activity -> BOOLEAN] /\ \A b \in Activity \ {a} : paused'[b] = paused[b]
  BY <1>1, <1>2
<1>4. paused'[a] = ~paused[a]
  BY <1>1, <1>2, Zenon
<1>5. started[a] \in BOOLEAN
  BY DEF IInv, PlainTypes
<1>6. /\ started[a] => base' = StepTimerSet(base, stepId[a], paused'[a], speed'[a])
      /\ ~started[a] => base' = base
  <2>1. speed' = speed
    BY <1>1
  <2>2. CASE started[a]
    <3>1. base' = StepTimerSet(base, stepId[a], ~paused[a], speed[a])
      BY <1>1, <2>2
    <3> QED
      BY <1>4, <2>1, <2>2, <3>1
  <2>3. CASE ~started[a]
    BY <1>1, <2>3
  <2> QED
    BY <2>2, <2>3
<1>7. PlainTypes'
  BY <1>1, <1>3, BoundAssumption DEF IInv, PlainTypes
<1> QED
  BY <1>1, <1>3, <1>6, <1>7, LengthKeeps

LEMMA SetGameSpeedKeeps ==
  ASSUME IInv, NEW a \in Activity, NEW s \in Speeds, SetGameSpeed(a, s)
  PROVE  IInv'
<1>1. /\ changes < MaxChanges /\ changes' = changes + 1
      /\ speed' = [speed EXCEPT ![a] = s]
      /\ base' = IF started[a] THEN StepTimerSet(base, stepId[a], paused[a], s) ELSE base
      /\ UNCHANGED <<at, baseTime, target, sim, sceneTime, toRun, started, paused, alive,
                     stepId, owned, deleted, ranNow, made>>
  BY DEF SetGameSpeed, MayChange
<1>2. speed \in [Activity -> Speeds]
  BY DEF IInv, PlainTypes
<1>3. /\ speed' \in [Activity -> Speeds] /\ \A b \in Activity \ {a} : speed'[b] = speed[b]
      /\ speed'[a] = s
  BY <1>1, <1>2
<1>4. PlainTypes'
  BY <1>1, <1>3, BoundAssumption DEF IInv, PlainTypes
<1> QED
  BY <1>1, <1>3, <1>4, LengthKeeps

\* The step timer of an activity is not out when it dies: one that was started
\* dies outside of Update.
LEMMA DieKeeps ==
  ASSUME IInv, NEW a \in Activity, Die(a)
  PROVE  IInv'
<1> DEFINE ids == owned[a]
           new == Clear(sim[a])
<1>1. /\ alive[a] /\ (started[a] => at = "rest")
      /\ alive' = [alive EXCEPT ![a] = FALSE]
      /\ base' = DeleteTimers(base, ids)
      /\ deleted' = [deleted EXCEPT !.base = @ \cup ids]
      /\ owned' = [owned EXCEPT ![a] = {}]
      /\ sim' = [sim EXCEPT ![a] = new]
      /\ UNCHANGED <<at, baseTime, target, sceneTime, toRun, started, paused, speed,
                     stepId, ranNow, counters>>
  BY DEF Die
<1>2. /\ alive \in [Activity -> BOOLEAN] /\ owned \in [Activity -> SUBSET Nat]
      /\ ranNow \in HistoryType /\ deleted \in HistoryType /\ sim \in [Scene -> ListType]
      /\ Fine(base, baseTime, ranNow.base, deleted.base)
      /\ \A c \in Scene : Fine(sim[c], sceneTime[c], ranNow.sim[c], deleted.sim[c])
      /\ Owners /\ StepTimers
  BY DEF IInv, PlainTypes, AllFine, HistoryType, BaseInv
<1>3. a \in Scene /\ a # Session
  BY BaseFacts
<1>4. /\ \A b \in Activity \ {a} : alive'[b] = alive[b] /\ owned'[b] = owned[b]
      /\ \A b \in Activity : owned'[b] \subseteq owned[b]
      /\ alive' \in [Activity -> BOOLEAN] /\ owned' \in [Activity -> SUBSET Nat]
  BY <1>1, <1>2
<1>5. Fine(base', baseTime, ranNow.base, deleted.base \cup ids)
  <2>1. \A id \in ids : id \in Nat /\ id < base.nextId
    BY <1>2 DEF Owners
  <2> QED
    BY <1>1, <1>2, <2>1, FineDelete
<1>6. /\ BaseInv'
      /\ base.client = NoTimer => base'.client = NoTimer
      /\ base.client # NoTimer => base'.client # NoTimer /\ base'.client.what = base.client.what
  <2>1. \A t \in BaseTimers : t.id \in ids => t.what.of = a
    BY <1>2 DEF Owners
  <2>2. \A t \in BaseTimers : t.id \in ids => t.what # StepOf(Session)
    BY <1>3, <2>1, KindsAre
  <2>3. \A t \in Out(base) : t.id \in ids => t.what.type = "call"
    <3>1. SUFFICES ASSUME NEW t \in Out(base), t.id \in ids, t.what.type # "call"
                   PROVE  FALSE
      OBVIOUS
    <3>2. t \in BaseTimers /\ t.what.of = a
      BY <2>1, <3>1 DEF BaseTimers
    <3>3. t.what \in Kind
      BY <3>2, BaseFacts, TimerFields
    <3>4. t.what = StepOf(a)
      BY <3>1, <3>2, <3>3 DEF Kind, StepOf
    <3>5. started[a]
      BY <1>2, <3>2, <3>4 DEF StepTimers
    <3>6. base.client = NoTimer
      BY <1>1, <3>5 DEF IInv, WhoIsOut
    <3> QED
      BY <3>6 DEF Out
  <2>4. \A t \in BaseTimers, b \in Activity :
          t.what.of = b /\ ~t.dead /\ t.id \notin ids => alive'[b] /\ t.id \in owned'[b]
    <3>1. SUFFICES ASSUME NEW t \in BaseTimers, NEW b \in Activity,
                          t.what.of = b, ~t.dead, t.id \notin ids
                   PROVE  alive'[b] /\ t.id \in owned'[b]
      OBVIOUS
    <3>2. alive[b] /\ t.id \in owned[b]
      BY <1>2, <3>1 DEF Owners
    <3>3. b # a
      BY <3>1, <3>2
    <3> QED
      BY <1>4, <3>2, <3>3
  <2> HIDE DEF ids
  <2> QED
    BY <1>1, <1>4, <2>2, <2>3, <2>4, BaseDelete
<1>7. /\ Fine(new, sceneTime[a], ranNow.sim[a], deleted.sim[a])
      /\ new.client = sim[a].client /\ DOMAIN new.active = {}
  BY <1>2, <1>3, FineClear
<1> HIDE DEF new
<1>8. new \in ListType
  BY <1>7, FineFields
<1>9. WhoIsOut' /\ SimPunctual'
  <2>1. \A time, left : NotLate(new, time) /\ LateAreLeft(new, time, left)
    BY <1>7 DEF NotLate, LateAreLeft
  <2> QED
    BY <1>1, <1>3, <1>6, <1>7, <2>1, SimPython
<1>10. AllFine'
  <2>1. /\ deleted' \in HistoryType /\ deleted'.sim = deleted.sim
        /\ deleted'.base = deleted.base \cup ids
    BY <1>1, <1>2 DEF HistoryType
  <2>2. /\ sim' \in [Scene -> ListType] /\ sim'[a] = new
        /\ \A c \in Scene \ {a} : sim'[c] = sim[c]
    BY <1>1, <1>2, <1>3, <1>8
  <2>3. \A c \in Scene : Fine(sim'[c], sceneTime[c], ranNow.sim[c], deleted.sim[c])
    BY <1>2, <1>7, <2>2
  <2> QED
    BY <1>1, <1>2, <1>5, <2>1, <2>2, <2>3 DEF AllFine, HistoryType
<1>11. PlainTypes'
  BY <1>1, <1>4 DEF IInv, PlainTypes, counters
<1> QED
  BY <1>6, <1>9, <1>10, <1>11 DEF IInv

LEMMA NextKeeps ==
  ASSUME IInv, [Next]_vars
  PROVE  IInv'
<1>1. CASE \E advance \in Advances : Update(advance)
  BY <1>1, UpdateKeeps
<1>2. CASE NextMoment
  BY <1>2, NextMomentKeeps
<1>3. CASE RunTimer
  BY <1>3, RunTimerKeeps
<1>4. CASE CallReturns
  BY <1>4, CallReturnsKeeps
<1>5. CASE EndMoment
  BY <1>5, EndMomentKeeps
<1>6. CASE ReachTarget
  BY <1>6, ReachTargetKeeps
<1>7. CASE RunSimTimer
  BY <1>7, RunSimTimerKeeps
<1>8. CASE SimCallReturns
  BY <1>8, SimCallReturnsKeeps
<1>9. CASE BeginStep
  BY <1>9, BeginStepKeeps
<1>10. CASE FinishStep
  BY <1>10, FinishStepKeeps
<1>11. CASE \E c \in Scene, length \in Lengths, repeat \in BOOLEAN :
              NewBaseTimer(c, length, repeat) \/ NewSimTimer(c, length, repeat)
  BY <1>11, NewBaseTimerKeeps, NewSimTimerKeeps
<1>12. CASE \E t \in Waiting(base) \cup Out(base) : DeleteBaseTimer(t)
  BY <1>12, DeleteBaseTimerKeeps DEF BaseTimers
<1>13. CASE \E c \in Scene : \E t \in Waiting(sim[c]) \cup Out(sim[c]) : DeleteSimTimer(c, t)
  BY <1>13, DeleteSimTimerKeeps
<1>14. CASE \E a \in Activity : Start(a)
  BY <1>14, StartKeeps
<1>15. CASE \E a \in Activity : SetPaused(a)
  BY <1>15, SetPausedKeeps
<1>16. CASE \E a \in Activity : Die(a)
  BY <1>16, DieKeeps
<1>17. CASE \E a \in Activity : \E s \in Speeds : SetGameSpeed(a, s)
  BY <1>17, SetGameSpeedKeeps
<1>18. CASE UNCHANGED vars
  BY <1>18, StutterKeeps
<1> QED
  BY <1>1, <1>2, <1>3, <1>4, <1>5, <1>6, <1>7, <1>8, <1>9, <1>10, <1>11, <1>12, <1>13,
     <1>14, <1>15, <1>16, <1>17, <1>18 DEF Next

\* The invariant holds in every state.
LEMMA Invariance == Spec => []IInv
<1>1. IInv /\ [Next]_vars => IInv'
  BY NextKeeps
<1> QED
  BY <1>1, Starts, PTL DEF Spec

-----------------------------------------------------------------------------
(* What holds in every state.                                              *)

\* Whatever Python code does to a list in the middle of its being run, and to
\* the timer that is out, the two lists of each TimerList stay in order, every
\* timer stays in one place, and only the one that is out can be marked.
THEOREM ListsStayLists == Spec => []TypeOK
<1>1. IInv => TypeOK
  BY TypesFollow
<1> QED
  BY <1>1, Invariance, PTL

\* The clock of the session's scene, by which base timers are set, stays within
\* a step of the base clock, and no timer that waits is late by more than a
\* step, though clocks may stand still when timers take long.
THEOREM TimersArePunctual == Spec => []Punctual
<1>1. IInv => Punctual
  BY PunctualFollows
<1> QED
  BY <1>1, Invariance, PTL

\* An activity that is gone has left no timer in its session that could still
\* call: what it forgets to own when it prunes is gone before.
THEOREM NoTimerOutlivesActivity == Spec => []NoOrphans
<1>1. IInv => NoOrphans
  BY OrphansFollow
<1> QED
  BY <1>1, Invariance, PTL

-----------------------------------------------------------------------------
(* What no step does.                                                      *)

\* Only Run takes timers out.
LEMMA BaseTakes ==
  ASSUME IInv, IInv', Next, BaseTaken
  PROVE  /\ HasExpired(base, baseTime) /\ base' = GetExpiredTimer(base, baseTime)
         /\ UNCHANGED activityVars
<1>1. /\ base.client = NoTimer /\ base'.client # NoTimer
      /\ at' \notin {"rest", "advance"} /\ at \notin {"sim", "step"}
  BY DEF BaseTaken, IInv, WhoIsOut
<1>2. InPython => at = "rest"
  BY <1>1 DEF InPython
<1>3. CASE RunTimer
  BY <1>1, <1>3 DEF RunTimer
<1>4. ASSUME NEW advance \in Advances, Update(advance)
      PROVE  FALSE
  BY <1>1, <1>4 DEF Update
<1>5. ~NextMoment /\ ~CallReturns /\ ~EndMoment /\ ~ReachTarget
  BY <1>1 DEF NextMoment, CallReturns, EndMoment, ReachTarget
<1>6. ~RunSimTimer /\ ~SimCallReturns /\ ~BeginStep /\ ~FinishStep
  BY <1>1 DEF RunSimTimer, SimCallReturns, BeginStep, FinishStep
<1>7. ASSUME NEW c, NEW length, NEW repeat,
             NewBaseTimer(c, length, repeat) \/ NewSimTimer(c, length, repeat)
      PROVE  FALSE
  BY <1>1, <1>2, <1>7 DEF NewBaseTimer, NewSimTimer
<1>8. ASSUME NEW c, NEW t, DeleteBaseTimer(t) \/ DeleteSimTimer(c, t)
      PROVE  FALSE
  BY <1>1, <1>2, <1>8 DEF DeleteBaseTimer, DeleteSimTimer
<1>9. ASSUME NEW a, NEW s, Start(a) \/ SetPaused(a) \/ Die(a) \/ SetGameSpeed(a, s)
      PROVE  FALSE
  BY <1>1, <1>2, <1>9 DEF Start, SetPaused, Die, SetGameSpeed, MayChange
<1> QED
  BY <1>3, <1>4, <1>5, <1>6, <1>7, <1>8, <1>9 DEF Next

\* Run of the scene that steps, of its timers.
LEMMA SimTakes ==
  ASSUME IInv, IInv', Next, NEW c \in Scene, SimTaken(c)
  PROVE  /\ HasExpired(sim[c], sceneTime[c])
         /\ sim'[c] = GetExpiredTimer(sim[c], sceneTime[c])
<1>1. /\ sim[c].client = NoTimer /\ sim'[c].client # NoTimer /\ sim'[c] # sim[c]
      /\ at' = "sim" /\ c = Stepping' /\ sim \in [Scene -> ListType]
  BY DEF SimTaken, IInv, WhoIsOut, AllFine
<1>2. InPython /\ at' = at /\ UNCHANGED base => FALSE
  BY <1>1 DEF InPython, Stepping
<1>3. CASE RunSimTimer
  BY <1>1, <1>3 DEF RunSimTimer
<1>4. ASSUME NEW advance \in Advances, Update(advance)
      PROVE  FALSE
  BY <1>1, <1>4 DEF Update
<1>5. /\ ~NextMoment /\ ~RunTimer /\ ~CallReturns /\ ~EndMoment /\ ~ReachTarget
      /\ ~BeginStep /\ ~FinishStep
  BY <1>1 DEF NextMoment, RunTimer, CallReturns, EndMoment, ReachTarget, BeginStep, FinishStep
<1>6. ~SimCallReturns
  BY <1>1 DEF SimCallReturns, Stepping
<1>7. ASSUME NEW d, NEW length, NEW repeat,
             NewBaseTimer(d, length, repeat) \/ NewSimTimer(d, length, repeat)
      PROVE  FALSE
  BY <1>1, <1>2, <1>7 DEF NewBaseTimer, NewSimTimer
<1>8. ASSUME NEW d, NEW t, DeleteBaseTimer(t) \/ DeleteSimTimer(d, t)
      PROVE  FALSE
  BY <1>1, <1>2, <1>8 DEF DeleteBaseTimer, DeleteSimTimer
<1>9. ASSUME NEW a, NEW s, Start(a) \/ SetPaused(a) \/ SetGameSpeed(a, s)
      PROVE  FALSE
  BY <1>1, <1>9 DEF Start, SetPaused, SetGameSpeed
<1>10. ASSUME NEW a \in Activity, Die(a)
       PROVE  FALSE
  <2>1. sim' = [sim EXCEPT ![a] = Clear(sim[a])]
    BY <1>10 DEF Die
  <2>2. c = a
    BY <1>1, <2>1
  <2>3. sim'[c].client = sim[c].client
    BY <1>1, <2>1, <2>2, SimFacts, FineClear
  <2> QED
    BY <1>1, <2>3
<1> QED
  BY <1>3, <1>4, <1>5, <1>6, <1>7, <1>8, <1>9, <1>10 DEF Next

\* A timer that is taken out has not run at this time of its clock and was not
\* deleted, and the activity whose step it takes is alive and goes on.
LEMMA TakenRightly ==
  ASSUME IInv, IInv', Next
  PROVE  /\ BaseTaken => /\ base'.client.id \notin ranNow.base
                         /\ base'.client.id \notin deleted.base
         /\ \A c \in Scene : SimTaken(c) => /\ sim'[c].client.id \notin ranNow.sim[c]
                                            /\ sim'[c].client.id \notin deleted.sim[c]
         /\ \A a \in Activity :
              BaseTaken /\ base'.client.what = StepOf(a) =>
                alive[a] /\ ~paused[a] /\ speed[a] # Never
<1>1. ASSUME BaseTaken
      PROVE  /\ base'.client.id \notin ranNow.base
             /\ base'.client.id \notin deleted.base
             /\ Taken(base, base', baseTime) /\ UNCHANGED activityVars
  <2>1. base.client = NoTimer /\ HasExpired(base, baseTime)
        /\ base' = GetExpiredTimer(base, baseTime) /\ UNCHANGED activityVars
    BY <1>1, BaseTakes DEF BaseTaken
  <2> QED
    BY <2>1, BaseFacts, FineTake
<1>2. ASSUME NEW c \in Scene, SimTaken(c)
      PROVE  /\ sim'[c].client.id \notin ranNow.sim[c]
             /\ sim'[c].client.id \notin deleted.sim[c]
  <2>1. sim[c].client = NoTimer /\ HasExpired(sim[c], sceneTime[c])
        /\ sim'[c] = GetExpiredTimer(sim[c], sceneTime[c])
    BY <1>2, SimTakes DEF SimTaken
  <2> QED
    BY <2>1, SimFacts, FineTake
<1>3. ASSUME BaseTaken, NEW a \in Activity, base'.client.what = StepOf(a)
      PROVE  alive[a] /\ ~paused[a] /\ speed[a] # Never
  <2> DEFINE t == base'.client
  <2>1. PICK h \in Range(base.active) : base'.client = [h EXCEPT !.last = baseTime]
    BY <1>1, <1>3 DEF Taken
  <2>2. h \in TimerType /\ h.length # Never
    BY <2>1, BaseFacts DEF ListOK
  <2>3. t.length # Never
    BY <2>1, <2>2 DEF TimerType
  <2>4. t \in BaseTimers'
    BY <1>3 DEF BaseTaken, BaseTimers, Out
  <2>5. alive' = alive /\ paused' = paused /\ speed' = speed
    BY <1>1, <1>3 DEF activityVars
  <2> HIDE DEF t
  <2>6. ~t.dead /\ t.length = IF paused[a] THEN Never ELSE speed[a]
    BY <1>3, <2>4, <2>5 DEF IInv, BaseInv, StepTimers, t
  <2>7. t.what.of = a
    BY <1>3, KindsAre DEF t
  <2>8. alive[a]
    BY <2>4, <2>5, <2>6, <2>7 DEF IInv, BaseInv, Owners
  <2> QED
    BY <2>3, <2>6, <2>8
<1> QED
  BY <1>1, <1>2, <1>3

\* A timer that deletes others leaves a round of Run for one that already ran;
\* no timer uses it to run twice at one time of its clock.
THEOREM RunsOncePerMoment == Spec => OncePerMoment
<1>1. IInv /\ IInv' /\ [Next]_vars =>
        [/\ BaseTaken => base'.client.id \notin ranNow.base
         /\ \A c \in Scene : SimTaken(c) => sim'[c].client.id \notin ranNow.sim[c]]_vars
  BY TakenRightly
<1> QED
  BY <1>1, Invariance, PTL DEF Spec, OncePerMoment

\* A timer does not run again once it was deleted: not when it was deleted
\* while it ran, nor when the activity that set it went.
THEOREM DeletedIsForever == Spec => DeletedNeverRuns
<1>1. IInv /\ IInv' /\ [Next]_vars =>
        [/\ BaseTaken => base'.client.id \notin deleted.base
         /\ \A c \in Scene : SimTaken(c) => sim'[c].client.id \notin deleted.sim[c]]_vars
  BY TakenRightly
<1> QED
  BY <1>1, Invariance, PTL DEF Spec, DeletedNeverRuns

\* A pause, a speed of 0 and the end of an activity hold from the next step on,
\* even if its step timer had expired, or was out, when they came.
THEOREM PausedScenesStandStill == Spec => PausedStill
<1>1. IInv /\ IInv' /\ [Next]_vars =>
        [\A a \in Activity :
           BaseTaken /\ base'.client.what = StepOf(a) =>
             alive[a] /\ ~paused[a] /\ speed[a] # Never]_vars
  BY TakenRightly
<1> QED
  BY <1>1, Invariance, PTL DEF Spec, PausedStill
=============================================================================
