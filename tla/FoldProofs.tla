----------------------------- MODULE FoldProofs -----------------------------
(***************************************************************************)
(* What can be said of Through of ClientSession whatever operator it is    *)
(* given: a module that proves something of a fold takes an instance of    *)
(* this one with the operator that it folds with.  What a fold is asked to *)
(* keep is a set that its results are in, for an instance has no operator  *)
(* that stands for a property.                                             *)
(***************************************************************************)
EXTENDS Integers, Sequences, WellFoundedInduction, TLAPS

CONSTANT Op(_, _)

Fold(base, seq) ==
  LET after[i \in 0 .. Len(seq)] ==
        IF i = 0 THEN base
        ELSE CHOOSE r \in {Op(s, seq[i]) : s \in {after[i - 1]}} : TRUE
  IN after[Len(seq)]

\* The intermediate results, from the first to the last.
IsTrace(f, base, seq) ==
  /\ DOMAIN f = 0 .. Len(seq)
  /\ f[0] = base
  /\ \A i \in 1 .. Len(seq) : f[i] = Op(f[i - 1], seq[i])

\* A set that has 0, and with a number the next, has all of them.
LEMMA Induction ==
  ASSUME NEW n \in Nat, NEW S,
         0 \in S, \A i \in 0 .. (n - 1) : i \in S => i + 1 \in S
  PROVE  \A i \in 0 .. n : i \in S
<1>0. ASSUME NEW N \in SUBSET Nat, N # {}
      PROVE  \E i \in N : \A j \in N : i <= j
  <2>1. PICK i \in N : \A j \in N : ~(<<j, i>> \in OpToRel(<, Nat))
    BY <1>0, NatLessThanWellFounded, WFMin
  <2>2. \A j \in N : ~(j < i)
    BY <2>1 DEF OpToRel
  <2> QED
    BY <2>2
<1> DEFINE Others == {i \in 0 .. n : i \notin S}
<1> SUFFICES ASSUME Others # {} PROVE FALSE
  OBVIOUS
<1>1. Others \in SUBSET Nat
  OBVIOUS
<1>2. PICK i \in Others : \A j \in Others : i <= j
  <2> HIDE DEF Others
  <2> QED
    BY <1>0, <1>1
<1>3. i \in 0 .. n /\ i \notin S /\ i # 0
  BY <1>2
<1>4. i - 1 \in 0 .. (n - 1) /\ i - 1 \notin Others
  BY <1>2, <1>3
<1>5. i - 1 \in S
  BY <1>4
<1>6. (i - 1) + 1 \in S
  BY <1>4, <1>5
<1> QED
  BY <1>3, <1>6

\* Of one result, that one is taken.
LEMMA OnlyResult == \A s, x : (CHOOSE r \in {Op(t, x) : t \in {s}} : TRUE) = Op(s, x)
  OBVIOUS

\* The intermediate results exist.
LEMMA TraceExists ==
  ASSUME NEW base, NEW seq, Len(seq) \in Nat
  PROVE  \E f : IsTrace(f, base, seq)
<1> DEFINE N == Len(seq)
           UpTo(n, f) == /\ DOMAIN f = 0 .. n
                         /\ f[0] = base
                         /\ \A i \in 1 .. n : f[i] = Op(f[i - 1], seq[i])
           Traced(n) == \E f : UpTo(n, f)
           S == {n \in 0 .. N : Traced(n)}
<1>1. Traced(0)
  <2> DEFINE f == [i \in 0 .. 0 |-> base]
  <2>1. DOMAIN f = 0 .. 0 /\ f[0] = base /\ \A i \in 1 .. 0 : f[i] = Op(f[i - 1], seq[i])
    OBVIOUS
  <2> HIDE DEF f
  <2> QED
    BY <2>1
<1>2. ASSUME NEW n \in Nat, Traced(n) PROVE Traced(n + 1)
  <2>0. PICK f : UpTo(n, f)
    BY <1>2
  <2> SUFFICES \E g : UpTo(n + 1, g)
    OBVIOUS
  <2> DEFINE last == Op(f[n], seq[n + 1])
             g == [i \in 0 .. (n + 1) |-> IF i = n + 1 THEN last ELSE f[i]]
  <2>1. DOMAIN g = 0 .. (n + 1) /\ g[0] = base
    BY <2>0
  <2>2. ASSUME NEW i \in 1 .. (n + 1) PROVE g[i] = Op(g[i - 1], seq[i])
    <3>1. CASE i = n + 1
      <4>1. g[i] = last /\ g[i - 1] = f[n] /\ i - 1 = n
        BY <3>1
      <4> QED
        BY <3>1, <4>1
    <3>2. CASE i # n + 1
      <4>1. i \in 1 .. n /\ g[i] = f[i] /\ g[i - 1] = f[i - 1]
        BY <3>2
      <4> QED
        BY <2>0, <4>1
    <3> QED
      BY <3>1, <3>2
  <2> QED
    BY <2>1, <2>2
<1> HIDE DEF Traced
<1>3. 0 \in S
  BY <1>1
<1>4. \A n \in 0 .. (N - 1) : n \in S => n + 1 \in S
  BY <1>2
<1>5. \A n \in 0 .. N : n \in S
  <2> HIDE DEF S
  <2> QED
    BY <1>3, <1>4, Induction
<1>6. Traced(N)
  BY <1>5
<1> QED
  BY <1>6 DEF Traced, IsTrace

\* The fold is the last of the intermediate results.
LEMMA FoldTrace ==
  ASSUME NEW base, NEW seq, Len(seq) \in Nat, NEW f, IsTrace(f, base, seq)
  PROVE  Fold(base, seq) = f[Len(seq)]
<1> DEFINE N == Len(seq)
           Is(a) == a = [i \in 0 .. N |->
                           IF i = 0 THEN base
                           ELSE CHOOSE r \in {Op(s, seq[i]) : s \in {a[i - 1]}} : TRUE]
           after == CHOOSE a : Is(a)
<1>1. \E a : Is(a)
  <2> DEFINE g == [i \in 0 .. N |-> f[i]]
  <2>1. ASSUME NEW i \in 0 .. N
        PROVE  g[i] = IF i = 0 THEN base
                      ELSE CHOOSE r \in {Op(s, seq[i]) : s \in {g[i - 1]}} : TRUE
    <3>1. CASE i = 0
      BY <3>1 DEF IsTrace
    <3>2. CASE i # 0
      <4>1. i \in 1 .. N /\ i - 1 \in 0 .. N
        BY <3>2
      <4>2. g[i] = Op(g[i - 1], seq[i])
        BY <4>1 DEF IsTrace
      <4> HIDE DEF g
      <4> QED
        BY <3>2, <4>2, OnlyResult
    <3> QED
      BY <3>1, <3>2
  <2>2. Is(g)
    BY <2>1
  <2> QED
    BY <2>2
<1>2. Is(after)
  <2> HIDE DEF Is
  <2> QED
    BY <1>1
<1>3. Fold(base, seq) = after[N]
  BY DEF Fold
<1> HIDE DEF after
<1>4. IsTrace(after, base, seq)
  <2>1. DOMAIN after = 0 .. N /\ after[0] = base
    BY <1>2
  <2>2. ASSUME NEW i \in 1 .. N PROVE after[i] = Op(after[i - 1], seq[i])
    <3>1. after[i] = CHOOSE r \in {Op(s, seq[i]) : s \in {after[i - 1]}} : TRUE
      BY <1>2
    <3> QED
      BY <3>1, OnlyResult
  <2> QED
    BY <2>1, <2>2 DEF IsTrace
<1>5. after[N] = f[N]
  <2> DEFINE S == {i \in 0 .. N : after[i] = f[i]}
  <2>1. 0 \in S
    BY <1>4 DEF IsTrace
  <2>2. ASSUME NEW i \in 0 .. (N - 1), i \in S PROVE i + 1 \in S
    <3>1. i + 1 \in 1 .. N /\ (i + 1) - 1 = i
      OBVIOUS
    <3>2. after[i + 1] = Op(after[i], seq[i + 1]) /\ f[i + 1] = Op(f[i], seq[i + 1])
      BY <1>4, <3>1 DEF IsTrace
    <3> QED
      BY <2>2, <3>1, <3>2
  <2>3. \A i \in 0 .. N : i \in S
    <3> HIDE DEF S
    <3> QED
      BY <2>1, <2>2, Induction
  <2> QED
    BY <2>3
<1> QED
  BY <1>3, <1>5

-----------------------------------------------------------------------------
(* Sequences put together.                                                 *)

\* A fold over nothing is what it starts from.
THEOREM FoldEmpty == ASSUME NEW base PROVE Fold(base, <<>>) = base
<1> DEFINE f == [i \in 0 .. 0 |-> base]
<1>1. Len(<<>>) = 0
  OBVIOUS
<1>2. IsTrace(f, base, <<>>)
  BY <1>1 DEF IsTrace
<1>3. f[0] = base
  OBVIOUS
<1> HIDE DEF f
<1> QED
  BY <1>1, <1>2, <1>3, FoldTrace

\* A fold over two sequences goes on, over the second, from the first.
THEOREM FoldConcat ==
  ASSUME NEW S, NEW s \in Seq(S), NEW t \in Seq(S), NEW base
  PROVE  Fold(base, s \o t) = Fold(Fold(base, s), t)
<1> DEFINE m == Len(s)
           n == Len(t)
<1>1. m \in Nat /\ n \in Nat
  OBVIOUS
<1>2. PICK f : IsTrace(f, base, s)
  BY <1>1, TraceExists
<1>3. PICK g : IsTrace(g, f[m], t)
  BY <1>1, TraceExists
<1>4. Fold(base, s) = f[m] /\ Fold(f[m], t) = g[n]
  BY <1>1, <1>2, <1>3, FoldTrace
<1>5. /\ Len(s \o t) = m + n
      /\ \A i \in 1 .. m + n : (s \o t)[i] = IF i <= m THEN s[i] ELSE t[i - m]
  OBVIOUS
<1> DEFINE h == [i \in 0 .. m + n |-> IF i <= m THEN f[i] ELSE g[i - m]]
<1> HIDE DEF m, n
<1>6. DOMAIN h = 0 .. m + n /\ h[0] = base
  BY <1>1, <1>2 DEF IsTrace
<1>7. /\ f[0] = base /\ \A i \in 1 .. m : f[i] = Op(f[i - 1], s[i])
      /\ g[0] = f[m] /\ \A i \in 1 .. n : g[i] = Op(g[i - 1], t[i])
  BY <1>2, <1>3 DEF IsTrace, m, n
<1>8. ASSUME NEW i \in 1 .. m + n PROVE h[i] = Op(h[i - 1], (s \o t)[i])
  <2>1. CASE i <= m
    <3>1. i \in 1 .. m /\ h[i] = f[i] /\ h[i - 1] = f[i - 1] /\ (s \o t)[i] = s[i]
      BY <1>1, <1>5, <2>1
    <3> QED
      BY <1>7, <3>1
  <2>2. CASE i > m
    <3>1. i - m \in 1 .. n /\ h[i] = g[i - m] /\ (s \o t)[i] = t[i - m]
      BY <1>1, <1>5, <2>2
    <3>2. h[i - 1] = g[(i - m) - 1]
      <4>1. CASE i - 1 = m
        BY <1>1, <1>7, <4>1
      <4>2. CASE i - 1 > m
        BY <1>1, <4>2
      <4> QED
        BY <1>1, <2>2, <4>1, <4>2
    <3> QED
      BY <1>7, <3>1, <3>2
  <2>3. i <= m \/ i > m
    BY <1>1
  <2> QED
    BY <2>1, <2>2, <2>3
<1>9. h[m + n] = g[n]
  <2>1. CASE n = 0
    BY <1>1, <1>7, <2>1
  <2>2. CASE n > 0
    BY <1>1, <2>2
  <2> QED
    BY <1>1, <2>1, <2>2
<1> HIDE DEF h
<1>10. IsTrace(h, base, s \o t)
  BY <1>5, <1>6, <1>8 DEF IsTrace
<1>11. Fold(base, s \o t) = h[m + n]
  <2>1. Len(s \o t) \in Nat
    BY <1>1, <1>5
  <2> QED
    BY <1>5, <1>10, <2>1, FoldTrace
<1> QED
  BY <1>4, <1>9, <1>11 DEF n

\* A fold over one element is one use of the operator.
THEOREM FoldOne == ASSUME NEW base, NEW x PROVE Fold(base, <<x>>) = Op(base, x)
<1> DEFINE f == [i \in 0 .. 1 |-> IF i = 0 THEN base ELSE Op(base, x)]
<1>1. Len(<<x>>) = 1 /\ <<x>>[1] = x
  OBVIOUS
<1>2. f[0] = base /\ f[1] = Op(base, x) /\ DOMAIN f = 0 .. 1
  OBVIOUS
<1> HIDE DEF f
<1>3. IsTrace(f, base, <<x>>)
  <2>1. \A i \in 1 .. 1 : i = 1
    OBVIOUS
  <2> QED
    BY <1>1, <1>2, <2>1 DEF IsTrace
<1> QED
  BY <1>1, <1>2, <1>3, FoldTrace

\* An element at the end is the last to be folded.
THEOREM FoldAppend ==
  ASSUME NEW S, NEW seq \in Seq(S), NEW x \in S, NEW base
  PROVE  Fold(base, Append(seq, x)) = Op(Fold(base, seq), x)
<1>1. Append(seq, x) = seq \o <<x>>
  OBVIOUS
<1>2. <<x>> \in Seq(S)
  OBVIOUS
<1>3. Fold(base, seq \o <<x>>) = Fold(Fold(base, seq), <<x>>)
  BY <1>2, FoldConcat
<1>4. Fold(Fold(base, seq), <<x>>) = Op(Fold(base, seq), x)
  BY FoldOne
<1> QED
  BY <1>1, <1>3, <1>4

\* An element at the start is the first to be folded.
THEOREM FoldFirst ==
  ASSUME NEW S, NEW seq \in Seq(S), seq # <<>>, NEW base
  PROVE  Fold(base, seq) = Fold(Op(base, Head(seq)), Tail(seq))
<1>1. Head(seq) \in S /\ Tail(seq) \in Seq(S)
  OBVIOUS
<1>2. <<Head(seq)>> \in Seq(S) /\ seq = <<Head(seq)>> \o Tail(seq)
  BY <1>1
<1>3. \A h \in Seq(S), t \in Seq(S) : Fold(base, h \o t) = Fold(Fold(base, h), t)
  BY FoldConcat
<1>4. Fold(base, seq) = Fold(Fold(base, <<Head(seq)>>), Tail(seq))
  BY <1>1, <1>2, <1>3
<1>5. Fold(base, <<Head(seq)>>) = Op(base, Head(seq))
  BY FoldOne
<1> QED
  BY <1>4, <1>5

-----------------------------------------------------------------------------
(* What a fold keeps.                                                      *)

\* A property of what is folded that each element keeps.
THEOREM FoldKeeps ==
  ASSUME NEW S, NEW seq \in Seq(S), NEW P, NEW base \in P,
         \A s \in P, i \in 1 .. Len(seq) : Op(s, seq[i]) \in P
  PROVE  Fold(base, seq) \in P
<1> DEFINE n == Len(seq)
<1>1. n \in Nat
  OBVIOUS
<1>2. PICK f : IsTrace(f, base, seq)
  BY <1>1, TraceExists
<1> DEFINE T == {i \in 0 .. n : f[i] \in P}
<1>3. 0 \in T
  BY <1>1, <1>2 DEF IsTrace
<1>4. ASSUME NEW i \in 0 .. (n - 1), i \in T PROVE i + 1 \in T
  <2>1. i + 1 \in 1 .. n /\ (i + 1) - 1 = i
    BY <1>1
  <2>2. f[i + 1] = Op(f[i], seq[i + 1])
    BY <1>2, <2>1 DEF IsTrace
  <2> QED
    BY <1>1, <1>4, <2>1, <2>2
<1>5. \A i \in 0 .. n : i \in T
  <2> HIDE DEF T
  <2> QED
    BY <1>1, <1>3, <1>4, Induction
<1> QED
  BY <1>1, <1>2, <1>5, FoldTrace

\* A relation between what two folds of one sequence come to.
THEOREM FoldRelates ==
  ASSUME NEW S, NEW seq \in Seq(S), NEW R, NEW a, NEW b, <<a, b>> \in R,
         \A s, t : \A i \in 1 .. Len(seq) :
           <<s, t>> \in R => <<Op(s, seq[i]), Op(t, seq[i])>> \in R
  PROVE  <<Fold(a, seq), Fold(b, seq)>> \in R
<1> DEFINE n == Len(seq)
<1>1. n \in Nat
  OBVIOUS
<1>2. PICK f : IsTrace(f, a, seq)
  BY <1>1, TraceExists
<1>3. PICK g : IsTrace(g, b, seq)
  BY <1>1, TraceExists
<1> DEFINE T == {i \in 0 .. n : <<f[i], g[i]>> \in R}
<1>4. 0 \in T
  BY <1>1, <1>2, <1>3 DEF IsTrace
<1>5. ASSUME NEW i \in 0 .. (n - 1), i \in T PROVE i + 1 \in T
  <2>1. i + 1 \in 1 .. n /\ (i + 1) - 1 = i
    BY <1>1
  <2>2. f[i + 1] = Op(f[i], seq[i + 1]) /\ g[i + 1] = Op(g[i], seq[i + 1])
    BY <1>2, <1>3, <2>1 DEF IsTrace
  <2> QED
    BY <1>1, <1>5, <2>1, <2>2
<1>6. \A i \in 0 .. n : i \in T
  <2> HIDE DEF T
  <2> QED
    BY <1>1, <1>4, <1>5, Induction
<1>7. Fold(a, seq) = f[n] /\ Fold(b, seq) = g[n]
  BY <1>1, <1>2, <1>3, FoldTrace
<1> QED
  BY <1>1, <1>6, <1>7

=============================================================================
