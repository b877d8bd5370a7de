-------------------------- MODULE MultipartProofs --------------------------
(***************************************************************************)
(* For messages of every size, packets of every size and every limit: what *)
(* is cut into parts is put together again, and the limit is kept and met  *)
(* only by a message beyond it.                                            *)
(***************************************************************************)
EXTENDS Multipart, SequenceTheorems, TLAPS

-----------------------------------------------------------------------------
(* The inductive invariant.                                                *)

Byte == Nat \X Nat
Message == [type : {"GAME", "MULTIPART", "MULTIPART_END"}, bytes : Seq(Byte)]
Sent == Seq(Nat \ {0})

Types ==
  /\ sizes \in Sent
  /\ channel \in Seq(Message)
  /\ waiting \in Seq(Message)
  /\ buffer \in Seq(Byte)
  /\ errored \in BOOLEAN
  /\ handled \in Seq(Seq(Byte))

\* The message that a packet is of, its first byte and its last.
Id(p) == p.bytes[1][1]
First(p) == p.bytes[1][2]
Last(p) == First(p) + Len(p.bytes) - 1

\* A packet is a piece of a message that was sent, of the kind that its type
\* says.
Fits(sz, p) ==
  /\ Id(p) \in 1 .. Len(sz)
  /\ First(p) \in 1 .. sz[Id(p)] /\ Last(p) \in First(p) .. sz[Id(p)]
  /\ p.bytes = Bytes(Id(p), First(p), Last(p))
  /\ \/ p.type = "GAME" /\ First(p) = 1 /\ Last(p) = sz[Id(p)]
     \/ p.type = "MULTIPART" /\ Last(p) < sz[Id(p)] /\ Len(p.bytes) = PartSize
     \/ p.type = "MULTIPART_END" /\ Last(p) = sz[Id(p)]

\* A place between two bytes: the message, and how many of its bytes come
\* before.
Place == Nat \X Nat
Start(p) == <<Id(p), First(p) - 1>>
End(p) == IF p.type = "MULTIPART" THEN <<Id(p), Last(p)>> ELSE <<Id(p) + 1, 0>>

\* Packets that follow one another without a gap, from one place to another.
Chained(sz, s, from, to) ==
  /\ \A i \in 1 .. Len(s) : Fits(sz, s[i])
  /\ s = <<>> => from = to
  /\ s # <<>> => Start(s[1]) = from /\ End(s[Len(s)]) = to
  /\ \A i \in 1 .. (Len(s) - 1) : Start(s[i + 1]) = End(s[i])

\* Where the receiver is, and where the sender is.
Here == <<Len(handled) + 1, Len(buffer)>>
There == <<Len(sizes) + 1, 0>>

\* What is under way leads from the one to the other.
OnTheWay ==
  \E here, mid \in Place :
    /\ Chained(sizes, waiting, here, mid)
    /\ Chained(sizes, channel, mid, There)
    /\ ~errored => here = Here

\* The buffer is the beginning of the message that is awaited.
BufferFits ==
  ~errored =>
    /\ buffer = Bytes(Len(handled) + 1, 1, Len(buffer))
    /\ Len(handled) <= Len(sizes)

Inv == Types /\ OnTheWay /\ BufferFits /\ OnlyWholeMessages /\ LimitIsFair

-----------------------------------------------------------------------------
(* Bytes.                                                                  *)

LEMMA PartSizeType == PartSize \in Nat \ {0}
  BY SizeAssumption DEF PartSize

LEMMA BytesType ==
  ASSUME NEW id \in Nat, NEW k \in Nat, NEW n \in Nat
  PROVE  /\ Bytes(id, k + 1, k + n) \in Seq(Byte)
         /\ Len(Bytes(id, k + 1, k + n)) = n
         /\ \A i \in 1 .. n : Bytes(id, k + 1, k + n)[i] = <<id, k + i>>
<1> DEFINE b == Bytes(id, k + 1, k + n)
<1>1. b = [i \in 1 .. n |-> <<id, k + i>>]
  <2>1. (k + n) - (k + 1) + 1 = n /\ \A i \in 1 .. n : k + 1 + i - 1 = k + i
    OBVIOUS
  <2> QED
    BY <2>1 DEF Bytes
<1>2. \A i \in 1 .. n : <<id, k + i>> \in Byte
  BY DEF Byte
<1> HIDE DEF b
<1>3. b \in [1 .. n -> Byte]
  BY <1>1, <1>2
<1>4. b \in Seq(Byte) /\ Len(b) = n
  BY <1>3
<1> QED
  BY <1>1, <1>4 DEF b

LEMMA BytesFromOne ==
  ASSUME NEW id \in Nat, NEW n \in Nat
  PROVE  /\ Bytes(id, 1, n) \in Seq(Byte)
         /\ Len(Bytes(id, 1, n)) = n
         /\ \A i \in 1 .. n : Bytes(id, 1, n)[i] = <<id, i>>
<1> DEFINE b == Bytes(id, 1, n)
<1>1. b = [i \in 1 .. n |-> <<id, i>>]
  <2>1. n - 1 + 1 = n /\ \A i \in 1 .. n : 1 + i - 1 = i
    OBVIOUS
  <2> QED
    BY <2>1 DEF Bytes
<1>2. \A i \in 1 .. n : <<id, i>> \in Byte
  BY DEF Byte
<1> HIDE DEF b
<1>3. b \in [1 .. n -> Byte]
  BY <1>1, <1>2
<1>4. b \in Seq(Byte) /\ Len(b) = n
  BY <1>3
<1> QED
  BY <1>1, <1>4 DEF b

LEMMA NoBytes ==
  ASSUME NEW id \in Nat
  PROVE  Bytes(id, 1, 0) = <<>>
<1>1. Bytes(id, 1, 0) \in Seq(Byte) /\ Len(Bytes(id, 1, 0)) = 0
  BY BytesFromOne
<1> QED
  BY <1>1, EmptySeq

\* Two pieces that adjoin make one piece.
LEMMA BytesJoin ==
  ASSUME NEW id \in Nat, NEW k \in Nat, NEW n \in Nat
  PROVE  Bytes(id, 1, k) \o Bytes(id, k + 1, k + n) = Bytes(id, 1, k + n)
<1> DEFINE a == Bytes(id, 1, k)
           b == Bytes(id, k + 1, k + n)
           c == Bytes(id, 1, k + n)
<1>1. /\ a \in Seq(Byte) /\ Len(a) = k
      /\ \A i \in 1 .. k : a[i] = <<id, i>>
  BY BytesFromOne
<1>2. /\ b \in Seq(Byte) /\ Len(b) = n
      /\ \A i \in 1 .. n : b[i] = <<id, k + i>>
  BY BytesType
<1>3. /\ c \in Seq(Byte) /\ Len(c) = k + n
      /\ \A i \in 1 .. (k + n) : c[i] = <<id, i>>
  <2> DEFINE m == k + n
  <2>1. m \in Nat /\ c = Bytes(id, 1, m)
    OBVIOUS
  <2> HIDE DEF c, m
  <2>2. /\ c \in Seq(Byte) /\ Len(c) = m
        /\ \A i \in 1 .. m : c[i] = <<id, i>>
    BY <2>1, BytesFromOne
  <2> QED
    BY <2>2 DEF m
<1> HIDE DEF a, b, c
<1>4. /\ a \o b \in Seq(Byte) /\ Len(a \o b) = k + n
      /\ \A i \in 1 .. (k + n) : (a \o b)[i] = IF i <= k THEN a[i] ELSE b[i - k]
  BY <1>1, <1>2, ConcatProperties
<1>5. ASSUME NEW i \in 1 .. (k + n)
      PROVE  (a \o b)[i] = c[i]
  <2>0. i <= k \/ i > k
    OBVIOUS
  <2>1. CASE i <= k
    <3>1. i \in 1 .. k
      BY <2>1
    <3> QED
      BY <1>1, <1>3, <1>4, <2>1, <3>1
  <2>2. CASE i > k
    <3>1. i - k \in 1 .. n /\ k + (i - k) = i /\ ~(i <= k)
      BY <2>2
    <3>2. (a \o b)[i] = b[i - k]
      BY <1>4, <3>1
    <3> QED
      BY <1>2, <1>3, <3>1, <3>2
  <2> QED
    BY <2>0, <2>1, <2>2
<1>6. a \o b = c
  BY <1>3, <1>4, <1>5, SeqEqual
<1> QED
  BY <1>6 DEF a, b, c

\* What a piece is, read off its bytes.
HasBytes(p, id, k, n) ==
  /\ id \in Nat /\ k \in Nat /\ n \in Nat \ {0}
  /\ p.bytes = Bytes(id, k + 1, k + n)

LEMMA PieceOf ==
  ASSUME NEW p, NEW id, NEW k, NEW n, HasBytes(p, id, k, n)
  PROVE  /\ Id(p) = id /\ First(p) = k + 1 /\ Last(p) = k + n
         /\ Len(p.bytes) = n /\ p.bytes \in Seq(Byte)
<1> USE DEF HasBytes
<1> DEFINE b == Bytes(id, k + 1, k + n)
<1>1. /\ b \in Seq(Byte) /\ Len(b) = n
      /\ \A i \in 1 .. n : b[i] = <<id, k + i>>
  BY BytesType
<1>2. p.bytes = b
  OBVIOUS
<1> HIDE DEF b
<1>3. p.bytes[1] = <<id, k + 1>>
  BY <1>1, <1>2
<1>4. Id(p) = id /\ First(p) = k + 1
  BY <1>3 DEF Id, First
<1>5. Last(p) = k + n
  BY <1>1, <1>2, <1>4 DEF Last
<1> QED
  BY <1>1, <1>2, <1>4, <1>5

LEMMA EndPlace ==
  ASSUME NEW sz \in Sent, NEW p \in Message, Fits(sz, p)
  PROVE  /\ Id(p) \in Nat /\ sz[Id(p)] \in Nat \ {0}
         /\ First(p) \in Nat /\ Last(p) \in Nat
         /\ End(p) \in Place
<1>1. Id(p) \in Nat /\ sz[Id(p)] \in Nat \ {0}
  BY DEF Fits, Sent
<1>2. First(p) \in Nat /\ Last(p) \in Nat
  BY <1>1 DEF Fits
<1> QED
  BY <1>1, <1>2 DEF End, Place

-----------------------------------------------------------------------------
(* Packets that follow one another.                                        *)

LEMMA ChainConcat ==
  ASSUME NEW sz, NEW s \in Seq(Message), NEW t \in Seq(Message), NEW a, NEW b, NEW c,
         Chained(sz, s, a, b), Chained(sz, t, b, c)
  PROVE  Chained(sz, s \o t, a, c)
<1> DEFINE u == s \o t
           m == Len(s)
           n == Len(t)
<1>1. /\ u \in Seq(Message) /\ Len(u) = m + n /\ m \in Nat /\ n \in Nat
      /\ \A i \in 1 .. (m + n) : u[i] = IF i <= m THEN s[i] ELSE t[i - m]
      /\ s = <<>> <=> m = 0
      /\ t = <<>> <=> n = 0
      /\ u = <<>> <=> m + n = 0
  BY ConcatProperties, EmptySeq
<1>2. /\ \A i \in 1 .. m : Fits(sz, s[i])
      /\ \A i \in 1 .. n : Fits(sz, t[i])
      /\ \A i \in 1 .. (m - 1) : Start(s[i + 1]) = End(s[i])
      /\ \A i \in 1 .. (n - 1) : Start(t[i + 1]) = End(t[i])
      /\ m = 0 => a = b
      /\ n = 0 => b = c
      /\ m # 0 => Start(s[1]) = a /\ End(s[m]) = b
      /\ n # 0 => Start(t[1]) = b /\ End(t[n]) = c
  BY <1>1 DEF Chained
<1> HIDE DEF u, m, n
<1>3. \A i \in 1 .. (m + n) : Fits(sz, u[i])
  <2> SUFFICES ASSUME NEW i \in 1 .. (m + n) PROVE Fits(sz, u[i])
    OBVIOUS
  <2>1. CASE i <= m
    BY <1>1, <1>2, <2>1
  <2>2. CASE i > m
    <3>1. i - m \in 1 .. n
      BY <1>1, <2>2
    <3> QED
      BY <1>1, <1>2, <2>2, <3>1
  <2> QED
    BY <1>1, <2>1, <2>2
<1>4. ASSUME NEW i \in 1 .. (m + n - 1)
      PROVE  Start(u[i + 1]) = End(u[i])
  <2>1. CASE i < m
    <3>1. i \in 1 .. (m - 1) /\ i + 1 <= m /\ i <= m /\ i \in 1 .. (m + n) /\ i + 1 \in 1 .. (m + n)
      BY <1>1, <2>1
    <3>2. u[i + 1] = s[i + 1] /\ u[i] = s[i]
      BY <1>1, <3>1
    <3> QED
      BY <1>2, <3>1, <3>2
  <2>2. CASE i = m
    <3>1. m # 0 /\ n # 0 /\ i + 1 - m = 1
      BY <1>1, <2>2
    <3> QED
      BY <1>1, <1>2, <2>2, <3>1
  <2>3. CASE i > m
    <3>1. i - m \in 1 .. (n - 1) /\ (i + 1) - m = (i - m) + 1
      BY <1>1, <2>3
    <3>2. u[i + 1] = t[(i - m) + 1] /\ u[i] = t[i - m]
      BY <1>1, <2>3, <3>1
    <3> QED
      BY <1>2, <3>1, <3>2
  <2> QED
    BY <1>1, <2>1, <2>2, <2>3
<1>5. m + n # 0 => Start(u[1]) = a /\ End(u[m + n]) = c
  <2>1. CASE m = 0 /\ n # 0
    <3>1. u[1] = t[1] /\ u[m + n] = t[n]
      BY <1>1, <2>1
    <3> QED
      BY <1>2, <2>1, <3>1
  <2>2. CASE m # 0 /\ n = 0
    <3>1. u[1] = s[1] /\ u[m + n] = s[m]
      BY <1>1, <2>2
    <3> QED
      BY <1>2, <2>2, <3>1
  <2>3. CASE m # 0 /\ n # 0
    <3>1. u[1] = s[1] /\ u[m + n] = t[n]
      BY <1>1, <2>3
    <3> QED
      BY <1>2, <2>3, <3>1
  <2> QED
    BY <1>1, <2>1, <2>2, <2>3
<1>6. m + n = 0 => a = c
  BY <1>1, <1>2
<1>7. Chained(sz, u, a, c)
  BY <1>1, <1>3, <1>4, <1>5, <1>6 DEF Chained
<1> QED
  BY <1>7 DEF u

\* A chain may be cut anywhere.
LEMMA ChainCut ==
  ASSUME NEW sz, NEW s \in Seq(Message), NEW a, NEW c, Chained(sz, s, a, c), NEW n \in 1 .. Len(s)
  PROVE  /\ SubSeq(s, 1, n) \in Seq(Message)
         /\ SubSeq(s, n + 1, Len(s)) \in Seq(Message)
         /\ Chained(sz, SubSeq(s, 1, n), a, End(s[n]))
         /\ Chained(sz, SubSeq(s, n + 1, Len(s)), End(s[n]), c)
<1> DEFINE l == Len(s)
           x == SubSeq(s, 1, n)
           y == SubSeq(s, n + 1, l)
<1>1. l \in Nat /\ n \in Nat \ {0} /\ n <= l /\ \A i \in 1 .. l : s[i] \in Message
  OBVIOUS
<1>2. /\ x \in Seq(Message) /\ Len(x) = n
      /\ \A i \in 1 .. n : x[i] = s[i]
  <2>1. \A i \in 1 .. n : s[i] \in Message
    BY <1>1
  <2>2. /\ x \in Seq(Message) /\ Len(x) = IF 1 <= n THEN n - 1 + 1 ELSE 0
        /\ \A i \in 1 .. (n - 1 + 1) : x[i] = s[1 + i - 1]
    BY <1>1, <2>1, SubSeqProperties
  <2>3. n - 1 + 1 = n /\ \A i \in 1 .. n : 1 + i - 1 = i
    BY <1>1
  <2> QED
    BY <1>1, <2>2, <2>3
<1>3. /\ y \in Seq(Message) /\ Len(y) = l - n
      /\ \A i \in 1 .. (l - n) : y[i] = s[n + i]
  <2>1. \A i \in (n + 1) .. l : s[i] \in Message
    BY <1>1
  <2>2. /\ y \in Seq(Message) /\ Len(y) = IF n + 1 <= l THEN l - (n + 1) + 1 ELSE 0
        /\ \A i \in 1 .. (l - (n + 1) + 1) : y[i] = s[(n + 1) + i - 1]
    BY <1>1, <2>1, SubSeqProperties
  <2>3. /\ l - (n + 1) + 1 = l - n
        /\ \A i \in 1 .. (l - n) : (n + 1) + i - 1 = n + i
    BY <1>1
  <2>4. Len(y) = l - n
    BY <1>1, <2>2
  <2>5. ASSUME NEW i \in 1 .. (l - n)
        PROVE  y[i] = s[n + i]
    <3>1. y[i] = s[(n + 1) + i - 1]
      BY <2>2, <2>3
    <3> QED
      BY <2>3, <3>1
  <2> QED
    BY <2>2, <2>4, <2>5
<1>4. /\ \A i \in 1 .. l : Fits(sz, s[i])
      /\ Start(s[1]) = a /\ End(s[l]) = c
      /\ \A i \in 1 .. (l - 1) : Start(s[i + 1]) = End(s[i])
  <2>1. s # <<>>
    BY <1>1
  <2> QED
    BY <2>1 DEF Chained
<1> HIDE DEF l, x, y
<1>5. Chained(sz, x, a, End(s[n]))
  <2>1. x # <<>> /\ x[1] = s[1] /\ x[n] = s[n]
    BY <1>1, <1>2
  <2>2. \A i \in 1 .. n : Fits(sz, x[i])
    BY <1>1, <1>2, <1>4
  <2>3. \A i \in 1 .. (n - 1) : Start(x[i + 1]) = End(x[i])
    BY <1>1, <1>2, <1>4
  <2> QED
    BY <1>2, <1>4, <2>1, <2>2, <2>3 DEF Chained
<1>6. Chained(sz, y, End(s[n]), c)
  <2>1. \A i \in 1 .. (l - n) : Fits(sz, y[i])
    BY <1>1, <1>3, <1>4
  <2>2. ASSUME NEW i \in 1 .. (l - n - 1)
        PROVE  Start(y[i + 1]) = End(y[i])
    <3>1. n + i \in 1 .. (l - 1) /\ n + (i + 1) = (n + i) + 1 /\ i \in 1 .. (l - n) /\ i + 1 \in 1 .. (l - n)
      BY <1>1
    <3> QED
      BY <1>3, <1>4, <3>1
  <2>3. y = <<>> => End(s[n]) = c
    <3>1. y = <<>> => n = l
      BY <1>1, <1>3
    <3> QED
      BY <1>4, <3>1
  <2>4. y # <<>> => Start(y[1]) = End(s[n]) /\ End(y[l - n]) = c
    <3>1. y # <<>> => l - n # 0
      BY <1>1, <1>3, EmptySeq
    <3>2. l - n # 0 => y[1] = s[n + 1] /\ y[l - n] = s[l] /\ n \in 1 .. (l - 1)
      <4>1. l - n # 0 => 1 \in 1 .. (l - n) /\ l - n \in 1 .. (l - n) /\ n + (l - n) = l
        BY <1>1
      <4> QED
        BY <1>1, <1>3, <4>1
    <3> QED
      BY <1>4, <3>1, <3>2
  <2> QED
    BY <1>3, <2>1, <2>2, <2>3, <2>4 DEF Chained
<1> QED
  BY <1>2, <1>3, <1>5, <1>6 DEF l, x, y

\* What is handed on first starts where the chain does.
LEMMA ChainTail ==
  ASSUME NEW sz, NEW s \in Seq(Message), s # <<>>, NEW a, NEW c, Chained(sz, s, a, c)
  PROVE  /\ Head(s) \in Message /\ Fits(sz, Head(s)) /\ Start(Head(s)) = a
         /\ Tail(s) \in Seq(Message)
         /\ Chained(sz, Tail(s), End(Head(s)), c)
<1> DEFINE l == Len(s)
           t == Tail(s)
<1>1. /\ l \in Nat \ {0} /\ 1 \in 1 .. l
      /\ Head(s) \in Message /\ Head(s) = s[1]
      /\ t \in Seq(Message) /\ Len(t) = l - 1
      /\ \A i \in 1 .. (l - 1) : t[i] = s[i + 1]
  BY HeadTailProperties, EmptySeq
<1>2. /\ \A i \in 1 .. l : Fits(sz, s[i])
      /\ Start(s[1]) = a /\ End(s[l]) = c
      /\ \A i \in 1 .. (l - 1) : Start(s[i + 1]) = End(s[i])
  BY DEF Chained
<1> HIDE DEF l, t
<1>3. \A i \in 1 .. (l - 1) : Fits(sz, t[i])
  <2> SUFFICES ASSUME NEW i \in 1 .. (l - 1) PROVE Fits(sz, t[i])
    OBVIOUS
  <2>1. i + 1 \in 1 .. l
    BY <1>1
  <2> QED
    BY <1>1, <1>2, <2>1
<1>4. ASSUME NEW i \in 1 .. (l - 2)
      PROVE  Start(t[i + 1]) = End(t[i])
  <2>1. i \in 1 .. (l - 1) /\ i + 1 \in 1 .. (l - 1)
    BY <1>1
  <2>2. t[i + 1] = s[(i + 1) + 1] /\ t[i] = s[i + 1]
    BY <1>1, <2>1
  <2> QED
    BY <1>2, <2>1, <2>2
<1>5. CASE l = 1
  <2>1. t = <<>>
    BY <1>1, <1>5
  <2> QED
    BY <1>1, <1>2, <1>5, <2>1 DEF Chained, t
<1>6. CASE l # 1
  <2>1. /\ 1 \in 1 .. (l - 1) /\ l - 1 \in 1 .. (l - 1)
        /\ 1 + 1 = 2 /\ (l - 1) + 1 = l /\ l - 1 - 1 = l - 2
    BY <1>1, <1>6
  <2>2. t[1] = s[1 + 1] /\ t[l - 1] = s[(l - 1) + 1]
    BY <1>1, <2>1
  <2>3. Start(t[1]) = End(s[1]) /\ End(t[l - 1]) = c
    BY <1>2, <2>1, <2>2
  <2>4. t # <<>>
    BY <1>1, <1>6
  <2>5. Chained(sz, t, End(s[1]), c)
    BY <1>1, <1>3, <1>4, <2>1, <2>3, <2>4 DEF Chained
  <2> QED
    BY <1>1, <1>2, <2>5 DEF t
<1> QED
  BY <1>5, <1>6

-----------------------------------------------------------------------------
(* How a message is cut.                                                   *)

\* A packet with the bytes k + 1 to k + n of message id.
IsPiece(sz, p, type, id, k, n) ==
  /\ id \in 1 .. Len(sz) /\ k \in Nat /\ n \in Nat \ {0} /\ k + n <= sz[id]
  /\ \/ type = "GAME" /\ k = 0 /\ n = sz[id]
     \/ type = "MULTIPART" /\ k + n < sz[id] /\ n = PartSize
     \/ type = "MULTIPART_END" /\ k + n = sz[id]
  /\ p = [type |-> type, bytes |-> Bytes(id, k + 1, k + n)]

LEMMA Piece ==
  ASSUME NEW sz \in Sent, NEW p, NEW type, NEW id, NEW k, NEW n, IsPiece(sz, p, type, id, k, n)
  PROVE  /\ p \in Message /\ Fits(sz, p)
         /\ Start(p) = <<id, k>>
         /\ End(p) = IF type = "MULTIPART" THEN <<id, k + n>> ELSE <<id + 1, 0>>
<1>1. id \in Nat /\ sz[id] \in Nat \ {0} /\ k \in Nat /\ n \in Nat \ {0}
  BY DEF Sent, IsPiece
<1>2. p.bytes = Bytes(id, k + 1, k + n) /\ p.type = type
  BY DEF IsPiece
<1>3. /\ Id(p) = id /\ First(p) = k + 1 /\ Last(p) = k + n
      /\ Len(p.bytes) = n /\ p.bytes \in Seq(Byte)
  <2>1. HasBytes(p, id, k, n)
    BY <1>1, <1>2 DEF HasBytes
  <2> QED
    BY <2>1, PieceOf
<1>4. p \in Message
  BY <1>2, <1>3 DEF Message, IsPiece
<1>5. k + 1 \in 1 .. sz[id] /\ k + n \in (k + 1) .. sz[id] /\ k + 1 - 1 = k
  BY <1>1 DEF IsPiece
<1>6. Fits(sz, p)
  <2>1. p.bytes = Bytes(Id(p), First(p), Last(p))
    BY <1>2, <1>3
  <2>2. /\ Id(p) \in 1 .. Len(sz)
        /\ First(p) \in 1 .. sz[Id(p)] /\ Last(p) \in First(p) .. sz[Id(p)]
    BY <1>3, <1>5 DEF IsPiece
  <2>3. \/ p.type = "GAME" /\ First(p) = 1 /\ Last(p) = sz[Id(p)]
        \/ p.type = "MULTIPART" /\ Last(p) < sz[Id(p)] /\ Len(p.bytes) = PartSize
        \/ p.type = "MULTIPART_END" /\ Last(p) = sz[Id(p)]
    BY <1>1, <1>2, <1>3 DEF IsPiece
  <2> QED
    BY <2>1, <2>2, <2>3 DEF Fits
<1>7. Start(p) = <<id, k>>
  BY <1>1, <1>3, <1>5 DEF Start
<1>8. type \in {"GAME", "MULTIPART", "MULTIPART_END"}
  BY DEF IsPiece
<1> QED
  BY <1>2, <1>3, <1>4, <1>6, <1>7 DEF End

\* Whole parts.
LEMMA PartBounds ==
  ASSUME NEW size \in Nat \ {0}, NEW full, full = (size - 1) \div PartSize
  PROVE  /\ full \in Nat
         /\ full * PartSize \in Nat /\ full * PartSize < size
         /\ \A i \in 1 .. full : /\ (i - 1) * PartSize \in Nat
                                 /\ i * PartSize = (i - 1) * PartSize + PartSize
                                 /\ i * PartSize < size
<1> DEFINE P == PartSize
<1>1. P \in Nat \ {0} /\ size - 1 \in Nat
  BY PartSizeType
<1> HIDE DEF P
<1>2. /\ full \in Nat
      /\ size - 1 = P * full + ((size - 1) % P) /\ (size - 1) % P \in Nat
  BY <1>1 DEF P
<1>3. P * full = full * P /\ full * P \in Nat
  BY <1>1, <1>2
<1>4. full * P < size
  BY <1>1, <1>2, <1>3
<1>5. ASSUME NEW i \in 1 .. full
      PROVE  /\ (i - 1) * P \in Nat
             /\ i * P = (i - 1) * P + P
             /\ i * P < size
  <2>1. i \in Nat /\ i - 1 \in Nat /\ full - i \in Nat
    BY <1>2
  <2>2. (i - 1) * P \in Nat /\ (full - i) * P \in Nat /\ i * P \in Nat
    BY <1>1, <2>1
  <2>3. i * P = (i - 1) * P + P /\ full * P = i * P + (full - i) * P
    BY <1>1, <1>2, <2>1
  <2> QED
    BY <1>1, <1>3, <1>4, <2>2, <2>3
<1> QED
  BY <1>2, <1>3, <1>4, <1>5 DEF P

\* The packets of a message make a chain over the whole of it.
LEMMA PacketsChained ==
  ASSUME NEW sz \in Sent, NEW id \in 1 .. Len(sz)
  PROVE  /\ Packets(id, sz[id]) \in Seq(Message)
         /\ Chained(sz, Packets(id, sz[id]), <<id, 0>>, <<id + 1, 0>>)
<1> DEFINE size == sz[id]
           full == (size - 1) \div PartSize
           parts == [i \in 1 .. full |-> Part(Bytes(id, (i - 1) * PartSize + 1, i * PartSize))]
           last == LastPart(Bytes(id, full * PartSize + 1, size))
           whole == Plain(Bytes(id, 1, size))
<1>1. size \in Nat \ {0} /\ id \in Nat
  BY DEF Sent
<1>2. /\ full \in Nat
      /\ full * PartSize \in Nat /\ full * PartSize < size
      /\ \A i \in 1 .. full : /\ (i - 1) * PartSize \in Nat
                              /\ i * PartSize = (i - 1) * PartSize + PartSize
                              /\ i * PartSize < size
  BY <1>1, PartBounds
<1>3. CASE size <= MaxSize
  <2>1. whole = [type |-> "GAME", bytes |-> Bytes(id, 0 + 1, 0 + size)]
    BY <1>1 DEF Plain
  <2> HIDE DEF whole
  <2>2. whole \in Message /\ Fits(sz, whole) /\ Start(whole) = <<id, 0>> /\ End(whole) = <<id + 1, 0>>
    <3>1. IsPiece(sz, whole, "GAME", id, 0, size)
      BY <1>1, <2>1 DEF IsPiece
    <3> QED
      BY <3>1, Piece
  <2>3. Packets(id, size) = <<whole>>
    BY <1>3 DEF Packets, whole
  <2> DEFINE s == <<whole>>
  <2>4. s \in Seq(Message) /\ Len(s) = 1 /\ s[1] = whole /\ s # <<>>
    BY <2>2
  <2> HIDE DEF s
  <2>5. Chained(sz, s, <<id, 0>>, <<id + 1, 0>>)
    BY <2>2, <2>4 DEF Chained
  <2> QED
    BY <2>3, <2>4, <2>5 DEF s
<1>4. CASE ~(size <= MaxSize)
  <2> DEFINE P == PartSize
  <2>1. P \in Nat \ {0}
    BY PartSizeType
  <2>2. ASSUME NEW i \in 1 .. full
        PROVE  /\ parts[i] \in Message /\ Fits(sz, parts[i])
               /\ Start(parts[i]) = <<id, (i - 1) * P>> /\ End(parts[i]) = <<id, i * P>>
    <3> DEFINE k == (i - 1) * P
    <3>1. k \in Nat /\ i * P = k + P /\ k + P < size
      BY <1>2
    <3>2. parts[i] = [type |-> "MULTIPART", bytes |-> Bytes(id, k + 1, k + P)]
      BY <3>1 DEF Part
    <3> HIDE DEF k, P, parts
    <3>3. /\ parts[i] \in Message /\ Fits(sz, parts[i])
          /\ Start(parts[i]) = <<id, k>> /\ End(parts[i]) = <<id, k + P>>
      <4>1. IsPiece(sz, parts[i], "MULTIPART", id, k, P)
        <5>1. P = PartSize
          BY DEF P
        <5> QED
          BY <1>1, <2>1, <3>1, <3>2, <5>1 DEF IsPiece
      <4> QED
        BY <4>1, Piece
    <3> QED
      BY <3>1, <3>3 DEF k
  <2>3. /\ last \in Message /\ Fits(sz, last)
        /\ Start(last) = <<id, full * P>> /\ End(last) = <<id + 1, 0>>
    <3> DEFINE k == full * P
               n == size - k
    <3>1. k \in Nat /\ n \in Nat \ {0} /\ k + n = size
      BY <1>1, <1>2
    <3>2. last = [type |-> "MULTIPART_END", bytes |-> Bytes(id, k + 1, k + n)]
      BY <3>1 DEF LastPart
    <3> HIDE DEF k, n, last
    <3>3. IsPiece(sz, last, "MULTIPART_END", id, k, n)
      BY <1>1, <3>1, <3>2 DEF IsPiece
    <3>4. /\ last \in Message /\ Fits(sz, last)
          /\ Start(last) = <<id, k>> /\ End(last) = <<id + 1, 0>>
      BY <3>3, Piece
    <3> QED
      BY <3>4 DEF k
  <2>4. Packets(id, size) = Append(parts, last)
    BY <1>4 DEF Packets
  <2>5. /\ DOMAIN parts = 1 .. full
        /\ parts \in [1 .. full -> Message]
    BY <2>2
  <2> HIDE DEF parts, last, P, full, size
  <2>6. parts \in Seq(Message) /\ Len(parts) = full
    BY <1>2, <2>5
  <2> DEFINE s == Append(parts, last)
  <2>7. /\ s \in Seq(Message) /\ s # <<>> /\ Len(s) = full + 1
        /\ \A i \in 1 .. full : s[i] = parts[i]
        /\ s[full + 1] = last
    BY <2>3, <2>6, AppendProperties
  <2> HIDE DEF s
  <2>8. \A i \in 1 .. (full + 1) : Fits(sz, s[i])
    <3> SUFFICES ASSUME NEW i \in 1 .. (full + 1) PROVE Fits(sz, s[i])
      OBVIOUS
    <3>1. i \in 1 .. full \/ i = full + 1
      BY <1>2
    <3> QED
      BY <2>2, <2>3, <2>7, <3>1
  <2>9. ASSUME NEW i \in 1 .. full
        PROVE  Start(s[i + 1]) = End(s[i])
    <3>1. CASE i = full
      BY <2>2, <2>3, <2>7, <3>1
    <3>2. CASE i # full
      <4>1. i + 1 \in 1 .. full /\ (i + 1) - 1 = i
        BY <1>2, <3>2
      <4> QED
        BY <2>2, <2>7, <4>1
    <3> QED
      BY <3>1, <3>2
  <2>10. Start(s[1]) = <<id, 0>>
    <3>1. CASE full = 0
      <4>1. s[1] = last /\ 0 * P = 0
        BY <2>1, <2>7, <3>1
      <4> QED
        BY <2>3, <3>1, <4>1
    <3>2. CASE full # 0
      <4>1. 1 \in 1 .. full /\ (1 - 1) * P = 0
        BY <1>2, <2>1, <3>2
      <4> QED
        BY <2>2, <2>7, <4>1
    <3> QED
      BY <3>1, <3>2
  <2>11. Chained(sz, s, <<id, 0>>, <<id + 1, 0>>)
    <3>1. Len(s) = full + 1 /\ Len(s) - 1 = full
      BY <1>2, <2>7
    <3>2. \A i \in 1 .. Len(s) : Fits(sz, s[i])
      BY <2>8, <3>1
    <3>3. \A i \in 1 .. (Len(s) - 1) : Start(s[i + 1]) = End(s[i])
      BY <2>9, <3>1
    <3>4. End(s[Len(s)]) = <<id + 1, 0>>
      BY <2>3, <2>7
    <3> QED
      BY <2>7, <2>10, <3>2, <3>3, <3>4 DEF Chained
  <2> QED
    BY <2>4, <2>7, <2>11 DEF s, size
<1> QED
  BY <1>3, <1>4

\* A message more takes nothing from what is known of the others.
LEMMA ChainedStays ==
  ASSUME NEW sz \in Sent, NEW size \in Nat \ {0}, NEW s, NEW a, NEW c, Chained(sz, s, a, c)
  PROVE  Chained(Append(sz, size), s, a, c)
<1> DEFINE new == Append(sz, size)
<1>1. /\ Len(new) = Len(sz) + 1 /\ Len(sz) \in Nat
      /\ \A i \in 1 .. Len(sz) : new[i] = sz[i]
  BY AppendProperties DEF Sent
<1> HIDE DEF new
<1>2. ASSUME NEW p, Fits(sz, p)
      PROVE  Fits(new, p)
  <2>1. Id(p) \in 1 .. Len(sz) /\ Id(p) \in 1 .. Len(new) /\ new[Id(p)] = sz[Id(p)]
    BY <1>1, <1>2 DEF Fits
  <2> QED
    BY <1>2, <2>1 DEF Fits
<1>3. Chained(new, s, a, c)
  BY <1>2 DEF Chained
<1> QED
  BY <1>3 DEF new

-----------------------------------------------------------------------------
(* The steps.                                                              *)

LEMMA InitInv == Init => Inv
<1> SUFFICES ASSUME Init PROVE Inv
  OBVIOUS
<1> USE DEF Init
<1>1. Types
  <2>1. /\ <<>> \in Seq(Nat \ {0}) /\ <<>> \in Seq(Message)
        /\ <<>> \in Seq(Byte) /\ <<>> \in Seq(Seq(Byte))
    BY EmptySeq
  <2> QED
    BY <2>1 DEF Types, Sent
<1>2. OnTheWay
  <2>1. Here = <<1, 0>> /\ There = <<1, 0>> /\ <<1, 0>> \in Place
    BY DEF Here, There, Place
  <2>2. Chained(sizes, waiting, <<1, 0>>, <<1, 0>>) /\ Chained(sizes, channel, <<1, 0>>, <<1, 0>>)
    BY DEF Chained
  <2> QED
    BY <2>1, <2>2 DEF OnTheWay
<1>3. BufferFits
  <2>1. Bytes(1, 1, 0) = <<>>
    BY NoBytes
  <2> QED
    BY <2>1 DEF BufferFits
<1>4. OnlyWholeMessages
  BY DEF OnlyWholeMessages
<1>5. LimitIsFair
  BY SizeAssumption, PartSizeType DEF LimitIsFair
<1> QED
  BY <1>1, <1>2, <1>3, <1>4, <1>5 DEF Inv

LEMMA SendReliableMessageInv == Inv /\ SendReliableMessage => Inv'
<1> SUFFICES ASSUME Inv, SendReliableMessage PROVE Inv'
  OBVIOUS
<1> USE DEF Inv
<1>1. PICK size \in Sizes :
        /\ sizes' = Append(sizes, size)
        /\ channel' = channel \o Packets(Len(sizes) + 1, size)
        /\ UNCHANGED <<waiting, buffer, errored, handled>>
  BY DEF SendReliableMessage
<1> DEFINE id == Len(sizes) + 1
           new == Append(sizes, size)
           packets == Packets(id, size)
<1>2. /\ size \in Nat \ {0} /\ sizes \in Sent
      /\ channel \in Seq(Message) /\ waiting \in Seq(Message)
  BY SizeAssumption DEF Types
<1>3. /\ new \in Sent /\ Len(new) = id /\ Len(sizes) \in Nat /\ id \in 1 .. Len(new)
      /\ \A i \in 1 .. Len(sizes) : new[i] = sizes[i]
      /\ new[id] = size
  BY <1>2, AppendProperties DEF Sent
<1>4. sizes' = new /\ channel' = channel \o packets
  BY <1>1
<1>5. packets \in Seq(Message) /\ Chained(new, packets, <<id, 0>>, <<id + 1, 0>>)
  <2>1. /\ Packets(id, new[id]) \in Seq(Message)
        /\ Chained(new, Packets(id, new[id]), <<id, 0>>, <<id + 1, 0>>)
    <3> HIDE DEF new, id
    <3> QED
      BY <1>3, PacketsChained
  <2> QED
    BY <1>3, <2>1
<1>6. There = <<id, 0>> /\ There' = <<id + 1, 0>> /\ Here' = Here
  BY <1>1, <1>3, <1>4 DEF There, Here
<1> HIDE DEF new, packets, id
<1>7. Types'
  <2>1. channel' \in Seq(Message)
    BY <1>2, <1>4, <1>5, ConcatProperties
  <2> QED
    BY <1>1, <1>3, <1>4, <2>1 DEF Types
<1>8. OnTheWay'
  <2>1. PICK here \in Place, mid \in Place :
          /\ Chained(sizes, waiting, here, mid)
          /\ Chained(sizes, channel, mid, There)
          /\ ~errored => here = Here
    BY DEF OnTheWay
  <2>2. Chained(new, waiting, here, mid) /\ Chained(new, channel, mid, <<id, 0>>)
    BY <1>2, <1>6, <2>1, ChainedStays DEF new
  <2>3. Chained(new, channel \o packets, mid, <<id + 1, 0>>)
    BY <1>2, <1>5, <2>2, ChainConcat
  <2>4. /\ Chained(sizes', waiting', here, mid)
        /\ Chained(sizes', channel', mid, There')
        /\ ~errored' => here = Here'
    BY <1>1, <1>4, <1>6, <2>1, <2>2, <2>3
  <2> QED
    BY <2>4 DEF OnTheWay
<1>9. BufferFits'
  BY <1>1, <1>3, <1>4 DEF BufferFits, id, Types
<1>10. OnlyWholeMessages'
  <2> SUFFICES ASSUME ~errored', NEW i \in DOMAIN handled'
               PROVE  handled'[i] = Bytes(i, 1, sizes'[i])
    BY DEF OnlyWholeMessages
  <2>1. ~errored /\ handled' = handled /\ handled[i] = Bytes(i, 1, sizes[i])
    BY <1>1 DEF OnlyWholeMessages
  <2>2. i \in 1 .. Len(sizes)
    <3>1. Len(handled) <= Len(sizes) /\ Len(handled) \in Nat /\ DOMAIN handled = 1 .. Len(handled)
      BY <2>1 DEF BufferFits, Types
    <3> QED
      BY <1>3, <2>1, <3>1
  <2> QED
    BY <1>3, <1>4, <2>1, <2>2
<1>11. LimitIsFair'
  <2>1. errored => \E i \in DOMAIN new : new[i] > MaxBuffer
    <3> SUFFICES ASSUME errored PROVE \E i \in DOMAIN new : new[i] > MaxBuffer
      OBVIOUS
    <3>1. PICK i \in DOMAIN sizes : sizes[i] > MaxBuffer
      BY DEF LimitIsFair
    <3>2. i \in 1 .. Len(sizes) /\ DOMAIN new = 1 .. Len(new)
      BY <1>2, <1>3 DEF Sent
    <3>3. i \in DOMAIN new /\ new[i] = sizes[i]
      BY <1>3, <3>2 DEF id
    <3> QED
      BY <3>1, <3>3
  <2> QED
    BY <1>1, <1>4, <2>1 DEF LimitIsFair
<1> QED
  BY <1>7, <1>8, <1>9, <1>10, <1>11

LEMMA ArriveInv == Inv /\ Arrive => Inv'
<1> SUFFICES ASSUME Inv, Arrive PROVE Inv'
  OBVIOUS
<1> USE DEF Inv
<1>1. PICK n \in 1 .. Len(channel) :
        /\ waiting = <<>>
        /\ ~errored
        /\ waiting' = SubSeq(channel, 1, n)
        /\ channel' = SubSeq(channel, n + 1, Len(channel))
        /\ UNCHANGED <<sizes, buffer, errored, handled>>
  BY DEF Arrive
<1>2. PICK here \in Place, mid \in Place :
        /\ Chained(sizes, waiting, here, mid)
        /\ Chained(sizes, channel, mid, There)
        /\ ~errored => here = Here
  BY DEF OnTheWay
<1>3. here = mid /\ here = Here
  BY <1>1, <1>2 DEF Chained
<1>4. channel \in Seq(Message)
  BY DEF Types
<1>5. /\ waiting' \in Seq(Message) /\ channel' \in Seq(Message)
      /\ Chained(sizes, waiting', here, End(channel[n]))
      /\ Chained(sizes, channel', End(channel[n]), There)
  BY <1>1, <1>2, <1>3, <1>4, ChainCut
<1>6. End(channel[n]) \in Place
  <2>1. channel[n] \in Message /\ Fits(sizes, channel[n])
    BY <1>2, <1>4 DEF Chained
  <2> QED
    BY <2>1, EndPlace DEF Types
<1>7. Types'
  BY <1>1, <1>5 DEF Types
<1>8. OnTheWay'
  BY <1>1, <1>2, <1>3, <1>5, <1>6 DEF OnTheWay, Here, There
<1>9. BufferFits' /\ OnlyWholeMessages' /\ LimitIsFair'
  BY <1>1 DEF BufferFits, OnlyWholeMessages, LimitIsFair
<1> QED
  BY <1>7, <1>8, <1>9

\* What HandleMessagePacket finds first, and what it leaves.
LEMMA FirstWaiting ==
  ASSUME Inv, waiting # <<>>
  PROVE  /\ Head(waiting) \in Message /\ Fits(sizes, Head(waiting))
         /\ Tail(waiting) \in Seq(Message)
         /\ ~errored => Start(Head(waiting)) = Here
         /\ \E mid \in Place : /\ Chained(sizes, Tail(waiting), End(Head(waiting)), mid)
                               /\ Chained(sizes, channel, mid, There)
<1> USE DEF Inv
<1>1. PICK here \in Place, mid \in Place :
        /\ Chained(sizes, waiting, here, mid)
        /\ Chained(sizes, channel, mid, There)
        /\ ~errored => here = Here
  BY DEF OnTheWay
<1>2. waiting \in Seq(Message)
  BY DEF Types
<1>3. /\ Head(waiting) \in Message /\ Fits(sizes, Head(waiting)) /\ Start(Head(waiting)) = here
      /\ Tail(waiting) \in Seq(Message)
      /\ Chained(sizes, Tail(waiting), End(Head(waiting)), mid)
  BY <1>1, <1>2, ChainTail
<1> QED
  BY <1>1, <1>3

\* The invariant after a message was handled, from what the handling has to
\* see to.
LEMMA Handled ==
  ASSUME Inv, waiting # <<>>, waiting' = Tail(waiting), UNCHANGED <<sizes, channel>>,
         buffer' \in Seq(Byte), errored' \in BOOLEAN, handled' \in Seq(Seq(Byte)),
         ~errored' => Here' = End(Head(waiting)),
         BufferFits', OnlyWholeMessages', LimitIsFair'
  PROVE  Inv'
<1>1. PICK mid \in Place : /\ Chained(sizes, Tail(waiting), End(Head(waiting)), mid)
                           /\ Chained(sizes, channel, mid, There)
  BY FirstWaiting
<1>2. /\ Tail(waiting) \in Seq(Message)
      /\ Head(waiting) \in Message /\ Fits(sizes, Head(waiting)) /\ sizes \in Sent
  BY FirstWaiting DEF Inv, Types
<1>3. End(Head(waiting)) \in Place
  BY <1>2, EndPlace
<1>4. Types'
  BY <1>2 DEF Inv, Types
<1>5. OnTheWay'
  <2>1. There' = There
    BY DEF There
  <2>2. /\ Chained(sizes', waiting', End(Head(waiting)), mid)
        /\ Chained(sizes', channel', mid, There')
    BY <1>1, <2>1
  <2> QED
    BY <1>3, <2>2 DEF OnTheWay
<1> QED
  BY <1>4, <1>5 DEF Inv

\* A message that is complete is the one that was due.
LEMMA WholeMessage ==
  ASSUME Inv, NEW bytes \in Seq(Byte), handled' = Append(handled, bytes), UNCHANGED <<sizes, errored>>,
         ~errored => bytes = Bytes(Len(handled) + 1, 1, sizes[Len(handled) + 1])
  PROVE  OnlyWholeMessages'
<1> SUFFICES ASSUME ~errored', NEW i \in DOMAIN handled'
             PROVE  handled'[i] = Bytes(i, 1, sizes'[i])
  BY DEF OnlyWholeMessages
<1>1. handled \in Seq(Seq(Byte)) /\ Len(handled) \in Nat /\ ~errored
  BY DEF Inv, Types
<1>2. /\ DOMAIN handled' = 1 .. (Len(handled) + 1)
      /\ \A j \in 1 .. Len(handled) : handled'[j] = handled[j]
      /\ handled'[Len(handled) + 1] = bytes
      /\ DOMAIN handled = 1 .. Len(handled)
  BY <1>1, AppendProperties
<1>3. CASE i = Len(handled) + 1
  BY <1>1, <1>2, <1>3
<1>4. CASE i # Len(handled) + 1
  <2>1. i \in 1 .. Len(handled)
    BY <1>1, <1>2, <1>4
  <2> QED
    BY <1>1, <1>2, <2>1 DEF Inv, OnlyWholeMessages
<1> QED
  BY <1>3, <1>4

LEMMA HandlePlainInv ==
  ASSUME Inv, waiting # <<>>, waiting' = Tail(waiting), UNCHANGED <<sizes, channel>>,
         HandlePlain(Head(waiting))
  PROVE  Inv'
<1> DEFINE m == Head(waiting)
           id == Len(handled) + 1
<1>1. /\ m.type = "GAME" /\ handled' = Append(handled, m.bytes) /\ UNCHANGED <<buffer, errored>>
  BY DEF HandlePlain
<1>2. m \in Message /\ Fits(sizes, m) /\ (~errored => Start(m) = Here)
  BY FirstWaiting
<1>3. /\ sizes \in Sent /\ buffer \in Seq(Byte) /\ errored \in BOOLEAN
      /\ handled \in Seq(Seq(Byte)) /\ Len(handled) \in Nat /\ Len(sizes) \in Nat
  BY DEF Inv, Types, Sent
<1> HIDE DEF m
<1>4. m.bytes \in Seq(Byte)
  BY <1>2 DEF Message
<1>5. /\ handled' \in Seq(Seq(Byte)) /\ Len(handled') = id
  BY <1>1, <1>3, <1>4, AppendProperties
<1>6. ~errored => /\ Id(m) = id /\ id \in 1 .. Len(sizes) /\ Len(buffer) = 0
                  /\ m.bytes = Bytes(id, 1, sizes[id])
                  /\ End(m) = <<id + 1, 0>>
  BY <1>1, <1>2, <1>3 DEF Start, Here, Fits, End
<1>7. ~errored' => Here' = End(m)
  BY <1>1, <1>5, <1>6 DEF Here
<1>8. BufferFits'
  <2>1. Bytes(id + 1, 1, 0) = <<>>
    <3> DEFINE next == id + 1
    <3>1. next \in Nat
      BY <1>3
    <3> HIDE DEF next
    <3>2. Bytes(next, 1, 0) = <<>>
      BY <3>1, NoBytes
    <3> QED
      BY <3>2 DEF next
  <2>2. Len(buffer) = 0 => buffer = <<>>
    BY <1>3, EmptySeq
  <2> QED
    BY <1>1, <1>3, <1>5, <1>6, <2>1, <2>2 DEF BufferFits
<1>9. OnlyWholeMessages'
  BY <1>1, <1>4, <1>6, WholeMessage
<1>10. LimitIsFair'
  BY <1>1 DEF Inv, LimitIsFair
<1> QED
  BY <1>1, <1>3, <1>5, <1>7, <1>8, <1>9, <1>10, Handled DEF m

LEMMA HandlePartInv ==
  ASSUME Inv, waiting # <<>>, waiting' = Tail(waiting), UNCHANGED <<sizes, channel>>,
         HandlePart(Head(waiting))
  PROVE  Inv'
<1> DEFINE m == Head(waiting)
           id == Len(handled) + 1
           k == Len(buffer)
<1>1. /\ m.type = "MULTIPART" /\ handled' = handled
      /\ IF Len(buffer) > MaxBuffer
           THEN errored' = TRUE /\ buffer' = buffer
           ELSE buffer' = buffer \o m.bytes /\ errored' = errored
  BY DEF HandlePart
<1>2. m \in Message /\ Fits(sizes, m) /\ (~errored => Start(m) = Here)
  BY FirstWaiting
<1>3. /\ sizes \in Sent /\ buffer \in Seq(Byte) /\ errored \in BOOLEAN /\ k \in Nat
      /\ handled \in Seq(Seq(Byte)) /\ Len(handled) \in Nat /\ Len(sizes) \in Nat
      /\ MaxBuffer \in Nat /\ PartSize \in Nat
  BY SizeAssumption, PartSizeType DEF Inv, Types, Sent
<1> HIDE DEF m
<1>4. m.bytes \in Seq(Byte) /\ Len(m.bytes) = PartSize
  BY <1>1, <1>2 DEF Message, Fits
<1>5. /\ Id(m) \in Nat /\ sizes[Id(m)] \in Nat /\ First(m) \in Nat /\ Last(m) \in Nat
  BY <1>2, <1>3, EndPlace
<1>6. ~errored => /\ Id(m) = id /\ id \in 1 .. Len(sizes)
                  /\ First(m) = k + 1 /\ Last(m) = k + PartSize
                  /\ m.bytes = Bytes(id, k + 1, k + PartSize)
                  /\ Last(m) < sizes[id]
                  /\ End(m) = <<id, k + PartSize>>
  <2> SUFFICES ASSUME ~errored
               PROVE  /\ Id(m) = id /\ id \in 1 .. Len(sizes)
                      /\ First(m) = k + 1 /\ Last(m) = k + PartSize
                      /\ m.bytes = Bytes(id, k + 1, k + PartSize)
                      /\ Last(m) < sizes[id]
                      /\ End(m) = <<id, k + PartSize>>
    OBVIOUS
  <2>1. Id(m) = id /\ First(m) - 1 = k
    BY <1>2 DEF Start, Here
  <2>2. First(m) = k + 1
    BY <1>3, <1>5, <2>1
  <2>3. Last(m) = k + PartSize
    BY <1>3, <1>4, <2>2 DEF Last
  <2> QED
    BY <1>1, <1>2, <2>1, <2>2, <2>3 DEF Fits, End
<1>7. CASE k > MaxBuffer
  <2>1. errored' = TRUE /\ buffer' = buffer
    BY <1>1, <1>7
  <2>2. \E i \in DOMAIN sizes : sizes[i] > MaxBuffer
    <3>1. CASE errored
      BY <3>1 DEF Inv, LimitIsFair
    <3>2. CASE ~errored
      <4>1. id \in DOMAIN sizes
        BY <1>3, <1>6, <3>2 DEF Sent
      <4>2. sizes[id] > MaxBuffer
        BY <1>3, <1>5, <1>6, <1>7, <3>2
      <4> QED
        BY <4>1, <4>2
    <3> QED
      BY <3>1, <3>2
  <2>3. BufferFits' /\ OnlyWholeMessages'
    BY <2>1 DEF BufferFits, OnlyWholeMessages
  <2>4. LimitIsFair'
    BY <2>1, <2>2 DEF Inv, LimitIsFair
  <2> QED
    BY <1>1, <1>3, <2>1, <2>3, <2>4, Handled
<1>8. CASE ~(k > MaxBuffer)
  <2>1. buffer' = buffer \o m.bytes /\ errored' = errored
    BY <1>1, <1>8
  <2>2. buffer' \in Seq(Byte) /\ Len(buffer') = k + PartSize
    BY <1>3, <1>4, <2>1, ConcatProperties
  <2>3. ~errored' => Here' = End(m)
    BY <1>1, <1>6, <2>1, <2>2 DEF Here
  <2>4. BufferFits'
    <3> SUFFICES ASSUME ~errored
                 PROVE  buffer' = Bytes(id, 1, k + PartSize) /\ Len(handled) <= Len(sizes)
      BY <1>1, <2>1, <2>2 DEF BufferFits
    <3>1. buffer = Bytes(id, 1, k) /\ Len(handled) <= Len(sizes)
      BY DEF Inv, BufferFits
    <3>2. Bytes(id, 1, k) \o Bytes(id, k + 1, k + PartSize) = Bytes(id, 1, k + PartSize)
      <4>1. id \in Nat /\ k \in Nat /\ PartSize \in Nat
        BY <1>3
      <4> HIDE DEF k, id
      <4> QED
        BY <4>1, BytesJoin
    <3> QED
      BY <1>6, <2>1, <3>1, <3>2
  <2>5. OnlyWholeMessages'
    BY <1>1, <2>1 DEF Inv, OnlyWholeMessages
  <2>6. LimitIsFair'
    <3>1. Len(buffer') <= MaxBuffer + PartSize
      BY <1>3, <1>8, <2>2
    <3> QED
      BY <2>1, <3>1 DEF Inv, LimitIsFair
  <2> QED
    BY <1>1, <1>3, <2>1, <2>2, <2>3, <2>4, <2>5, <2>6, Handled DEF m
<1> QED
  BY <1>7, <1>8

LEMMA HandleLastPartInv ==
  ASSUME Inv, waiting # <<>>, waiting' = Tail(waiting), UNCHANGED <<sizes, channel>>,
         HandleLastPart(Head(waiting))
  PROVE  Inv'
<1> DEFINE m == Head(waiting)
           id == Len(handled) + 1
           k == Len(buffer)
           whole == buffer \o m.bytes
<1>1. /\ m.type = "MULTIPART_END" /\ handled' = Append(handled, whole)
      /\ buffer' = <<>> /\ errored' = errored
  BY DEF HandleLastPart
<1>2. m \in Message /\ Fits(sizes, m) /\ (~errored => Start(m) = Here)
  BY FirstWaiting
<1>3. /\ sizes \in Sent /\ buffer \in Seq(Byte) /\ errored \in BOOLEAN /\ k \in Nat
      /\ handled \in Seq(Seq(Byte)) /\ Len(handled) \in Nat /\ Len(sizes) \in Nat
  BY DEF Inv, Types, Sent
<1> HIDE DEF m
<1>4. m.bytes \in Seq(Byte)
  BY <1>2 DEF Message
<1>5. /\ Id(m) \in Nat /\ sizes[Id(m)] \in Nat /\ First(m) \in Nat /\ Last(m) \in Nat
  BY <1>2, <1>3, EndPlace
<1>6. whole \in Seq(Byte)
  BY <1>3, <1>4, ConcatProperties
<1>7. ~errored => /\ Id(m) = id /\ id \in 1 .. Len(sizes)
                  /\ whole = Bytes(id, 1, sizes[id])
                  /\ End(m) = <<id + 1, 0>>
  <2> SUFFICES ASSUME ~errored
               PROVE  /\ Id(m) = id /\ id \in 1 .. Len(sizes)
                      /\ whole = Bytes(id, 1, sizes[id])
                      /\ End(m) = <<id + 1, 0>>
    OBVIOUS
  <2>1. Id(m) = id /\ First(m) - 1 = k
    BY <1>2 DEF Start, Here
  <2>2. First(m) = k + 1
    BY <1>3, <1>5, <2>1
  <2>3. /\ id \in 1 .. Len(sizes) /\ Last(m) = sizes[id] /\ Last(m) \in First(m) .. sizes[id]
        /\ m.bytes = Bytes(id, k + 1, sizes[id])
    BY <1>1, <1>2, <2>1, <2>2 DEF Fits
  <2>4. End(m) = <<id + 1, 0>>
    BY <1>1, <2>1 DEF End
  <2>5. buffer = Bytes(id, 1, k)
    BY DEF Inv, BufferFits
  <2> DEFINE n == sizes[id] - k
  <2>6. n \in Nat /\ sizes[id] = k + n
    BY <1>3, <1>5, <2>1, <2>2, <2>3
  <2>7. Bytes(id, 1, k) \o Bytes(id, k + 1, k + n) = Bytes(id, 1, k + n)
    <3>1. id \in Nat /\ k \in Nat /\ n \in Nat
      BY <1>3, <2>6
    <3> HIDE DEF k, n, id
    <3> QED
      BY <3>1, BytesJoin
  <2>8. whole = Bytes(id, 1, sizes[id])
    BY <2>3, <2>5, <2>6, <2>7
  <2> QED
    BY <2>1, <2>3, <2>4, <2>8
<1> HIDE DEF whole
<1>8. handled' \in Seq(Seq(Byte)) /\ Len(handled') = id /\ buffer' \in Seq(Byte) /\ Len(buffer') = 0
  BY <1>1, <1>3, <1>6, AppendProperties
<1>9. ~errored' => Here' = End(m)
  BY <1>1, <1>7, <1>8 DEF Here
<1>10. BufferFits'
  <2>1. Bytes(id + 1, 1, 0) = <<>>
    <3> DEFINE next == id + 1
    <3>1. next \in Nat
      BY <1>3
    <3> HIDE DEF next
    <3>2. Bytes(next, 1, 0) = <<>>
      BY <3>1, NoBytes
    <3> QED
      BY <3>2 DEF next
  <2> QED
    BY <1>1, <1>3, <1>7, <1>8, <2>1 DEF BufferFits
<1>11. OnlyWholeMessages'
  BY <1>1, <1>6, <1>7, WholeMessage
<1>12. LimitIsFair'
  <2>1. MaxBuffer \in Nat /\ PartSize \in Nat
    BY SizeAssumption, PartSizeType
  <2> QED
    BY <1>1, <1>8, <2>1 DEF Inv, LimitIsFair
<1> QED
  BY <1>1, <1>3, <1>8, <1>9, <1>10, <1>11, <1>12, Handled DEF m

LEMMA NextInv == Inv /\ [Next]_vars => Inv'
<1> SUFFICES ASSUME Inv, [Next]_vars PROVE Inv'
  OBVIOUS
<1>1. CASE SendReliableMessage
  BY <1>1, SendReliableMessageInv
<1>2. CASE Arrive
  BY <1>2, ArriveInv
<1>3. CASE HandleMessagePacket
  <2>1. waiting # <<>> /\ waiting' = Tail(waiting) /\ UNCHANGED <<sizes, channel>>
    BY <1>3 DEF HandleMessagePacket
  <2>2. HandlePlain(Head(waiting)) \/ HandlePart(Head(waiting)) \/ HandleLastPart(Head(waiting))
    BY <1>3 DEF HandleMessagePacket
  <2> QED
    BY <2>1, <2>2, HandlePlainInv, HandlePartInv, HandleLastPartInv
<1>4. CASE UNCHANGED vars
  BY <1>4 DEF vars, Inv, Types, OnTheWay, BufferFits, OnlyWholeMessages, LimitIsFair, Here, There
<1> QED
  BY <1>1, <1>2, <1>3, <1>4 DEF Next

LEMMA Invariant == Spec => []Inv
<1>1. Inv /\ [Next]_vars => Inv'
  BY NextInv
<1> QED
  BY <1>1, InitInv, PTL DEF Spec

\* connection.cc:278-280: whatever the size of a message, of a packet and of
\* the limit, what the game gets from a client that was not refused are the
\* messages that were sent, byte for byte and in their order.
THEOREM MultipartWhole == Spec => []OnlyWholeMessages
<1>1. Inv => OnlyWholeMessages
  BY DEF Inv
<1> QED
  BY <1>1, Invariant, PTL

\* connection_to_client.cc: only a client that sent a message beyond the limit
\* is refused, and no client makes the host hold more than one part beyond it.
THEOREM MultipartLimit == Spec => []LimitIsFair
<1>1. Inv => LimitIsFair
  BY DEF Inv
<1> QED
  BY <1>1, Invariant, PTL

=============================================================================
