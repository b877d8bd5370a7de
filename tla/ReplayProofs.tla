---------------------------- MODULE ReplayProofs ----------------------------
(***************************************************************************)
(* For everything that may be recorded, any number of recordings, failures *)
(* and watchers: the calls of a session and those of the next one keep the *)
(* writer in order, and the file holds what it was given; a player has     *)
(* what the file makes, however it got to where it is, and those who watch *)
(* come to the same.                                                       *)
(***************************************************************************)
EXTENDS Replay, SequenceTheorems, FiniteSetTheorems, TLAPS

-----------------------------------------------------------------------------
(* The inductive invariant.                                                *)

Call == {BeginCall, EndCall} \cup {AddCall(item) : item \in Recordable}
FileEntry == {Entry(item) : item \in Recordable}

Types ==
  /\ tape \in [on : BOOLEAN, left : Seq(Recordable)]
  /\ calls \in Seq(Call)
  /\ writer \in [writing : BOOLEAN, broken : BOOLEAN, open : BOOLEAN,
                 queue : Seq(Recordable)]
  /\ disk \in [header : BOOLEAN, entries : Seq(FileEntry \cup {Torn})]
  /\ stale \in Seq(Recordable)
  /\ given \in Seq(Recordable)
  /\ used \in [DOMAIN Bound -> Nat]

\* The calls take turns: a recording begins when no other goes on, at the
\* writer by the time that the call is run, and at the session that is last.
TakeTurns ==
  /\ calls = <<>> => writer.writing = tape.on
  /\ calls # <<>> => /\ calls[1] = BeginCall <=> ~writer.writing
                     /\ calls[Len(calls)] = EndCall <=> ~tape.on
  /\ \A i \in 1 .. (Len(calls) - 1) :
       calls[i + 1] = BeginCall <=> calls[i] = EndCall
  /\ tape.left # <<>> => tape.on

\* What waits while no file is open was left there by an error.
WriterInOrder ==
  /\ ~writer.broken
  /\ writer.open => writer.writing
  /\ writer.queue # <<>> /\ ~writer.open => used["fails"] > 0
  /\ stale # <<>> => used["fails"] > 0

Due == Entries(stale \o given)

\* A file that is open has all that is not in the queue; one that was closed
\* has the first of it, and of one more a part.
FileInOrder ==
  /\ writer.open => /\ disk.header /\ disk.entries \in Seq(FileEntry)
                    /\ disk.entries \o Entries(writer.queue) = Due
  /\ disk.header =>
       \E n \in 0 .. Len(Due) :
         disk.entries \in {SubSeq(Due, 1, n), Append(SubSeq(Due, 1, n), Torn)}

\* Only those who watch are sent anything, and only while it is played.
InTheTheatre ==
  /\ "on" \in DOMAIN player
  /\ watchers \subseteq Watcher /\ lost \subseteq watchers
  /\ watchers # {} => player.on
  /\ DOMAIN channel = Watcher
  /\ \A w \in Watcher \ watchers : channel[w] = <<>>

Order == Types /\ TakeTurns /\ WriterInOrder /\ FileInOrder
IInv == Order /\ InTheTheatre

-----------------------------------------------------------------------------
(* Entries of a file.                                                      *)

LEMMA EntryIsNotTorn == \A entry \in FileEntry : entry # Torn
<1> TAKE entry \in FileEntry
<1>1. PICK item \in Recordable : entry = Entry(item)
  BY DEF FileEntry
<1>2. "msg" \in DOMAIN entry
  BY <1>1 DEF Entry
<1>3. "msg" \notin DOMAIN Torn
  BY DEF Torn
<1> QED
  BY <1>2, <1>3

LEMMA EntriesType ==
  ASSUME NEW s \in Seq(Recordable)
  PROVE  /\ Entries(s) \in Seq(FileEntry)
         /\ Len(Entries(s)) = Len(s)
         /\ \A i \in 1 .. Len(s) : Entries(s)[i] = Entry(s[i])
<1>1. DOMAIN s = 1 .. Len(s) /\ Len(s) \in Nat
  BY LenProperties
<1>2. \A i \in 1 .. Len(s) : s[i] \in Recordable
  BY ElementOfSeq
<1>3. Entries(s) = [i \in 1 .. Len(s) |-> Entry(s[i])]
  BY <1>1 DEF Entries
<1>4. \A i \in 1 .. Len(s) : Entry(s[i]) \in FileEntry
  BY <1>2 DEF FileEntry
<1>5. Entries(s) \in [1 .. Len(s) -> FileEntry]
  BY <1>3, <1>4
<1> QED
  BY <1>1, <1>3, <1>5, SeqDef

LEMMA EntriesOfConcat ==
  ASSUME NEW s \in Seq(Recordable), NEW t \in Seq(Recordable)
  PROVE  Entries(s \o t) = Entries(s) \o Entries(t)
<1>1. /\ s \o t \in Seq(Recordable)
      /\ Len(s \o t) = Len(s) + Len(t)
      /\ \A i \in 1 .. Len(s) + Len(t) :
           (s \o t)[i] = IF i <= Len(s) THEN s[i] ELSE t[i - Len(s)]
  BY ConcatProperties
<1>2. Entries(s) \in Seq(FileEntry) /\ Len(Entries(s)) = Len(s)
  BY EntriesType
<1>3. Entries(t) \in Seq(FileEntry) /\ Len(Entries(t)) = Len(t)
  BY EntriesType
<1>4. Entries(s \o t) \in Seq(FileEntry) /\ Len(Entries(s \o t)) = Len(s) + Len(t)
  BY <1>1, EntriesType
<1>5. /\ Entries(s) \o Entries(t) \in Seq(FileEntry)
      /\ Len(Entries(s) \o Entries(t)) = Len(s) + Len(t)
      /\ \A i \in 1 .. Len(s) + Len(t) :
           (Entries(s) \o Entries(t))[i] =
             IF i <= Len(s) THEN Entries(s)[i] ELSE Entries(t)[i - Len(s)]
  <2> DEFINE es == Entries(s)
             et == Entries(t)
  <2>1. /\ es \o et \in Seq(FileEntry)
        /\ Len(es \o et) = Len(es) + Len(et)
        /\ \A i \in 1 .. Len(es) + Len(et) :
             (es \o et)[i] = IF i <= Len(es) THEN es[i] ELSE et[i - Len(es)]
    <3>1. es \in Seq(FileEntry) /\ et \in Seq(FileEntry)
      BY <1>2, <1>3
    <3> HIDE DEF es, et
    <3> QED
      BY <3>1, ConcatProperties
  <2>2. Len(es) = Len(s) /\ Len(et) = Len(t)
    BY <1>2, <1>3
  <2> HIDE DEF es, et
  <2>3. \A i \in 1 .. Len(s) + Len(t) :
          (es \o et)[i] = IF i <= Len(s) THEN es[i] ELSE et[i - Len(s)]
    BY <2>1, <2>2
  <2> QED
    BY <2>1, <2>2, <2>3 DEF es, et
<1>6. Len(s) \in Nat /\ Len(t) \in Nat
  BY LenProperties
<1>7. \A i \in 1 .. Len(s) + Len(t) : Entries(s \o t)[i] = (Entries(s) \o Entries(t))[i]
  <2> TAKE i \in 1 .. Len(s) + Len(t)
  <2>1. Entries(s \o t)[i] = Entry((s \o t)[i])
    BY <1>1, EntriesType
  <2>2. CASE i <= Len(s)
    <3>1. Entries(s)[i] = Entry(s[i])
      BY <1>6, <2>2, EntriesType
    <3> QED
      BY <1>1, <1>5, <2>1, <2>2, <3>1
  <2>3. CASE ~(i <= Len(s))
    <3>1. i - Len(s) \in 1 .. Len(t)
      BY <1>6, <2>3
    <3>2. Entries(t)[i - Len(s)] = Entry(t[i - Len(s)])
      BY <3>1, EntriesType
    <3> QED
      BY <1>1, <1>5, <2>1, <2>3, <3>2
  <2> QED
    BY <2>2, <2>3
<1> QED
  BY <1>4, <1>5, <1>7, SeqEqual

LEMMA EntriesOfNone == Entries(<<>>) = <<>>
<1>1. <<>> \in Seq(Recordable) /\ Len(<<>>) = 0
  BY EmptySeq
<1>2. Entries(<<>>) \in Seq(FileEntry) /\ Len(Entries(<<>>)) = 0
  BY <1>1, EntriesType
<1> QED
  BY <1>2, EmptySeq

LEMMA EntriesOfFirst ==
  ASSUME NEW s \in Seq(Recordable), NEW n \in 0 .. Len(s)
  PROVE  /\ SubSeq(s, 1, n) \in Seq(Recordable)
         /\ Entries(SubSeq(s, 1, n)) = SubSeq(Entries(s), 1, n)
<1>1. Len(s) \in Nat
  BY LenProperties
<1>2. \A i \in 1 .. n : s[i] \in Recordable
  BY <1>1, ElementOfSeq
<1>3. /\ SubSeq(s, 1, n) \in Seq(Recordable)
      /\ Len(SubSeq(s, 1, n)) = n
      /\ \A i \in 1 .. n : SubSeq(s, 1, n)[i] = s[i]
  BY <1>1, <1>2, SubSeqProperties
<1>4. Entries(s) \in Seq(FileEntry) /\ Len(Entries(s)) = Len(s)
  BY EntriesType
<1>5. \A i \in 1 .. n : Entries(s)[i] \in FileEntry
  BY <1>1, <1>4, ElementOfSeq
<1>6. /\ SubSeq(Entries(s), 1, n) \in Seq(FileEntry)
      /\ Len(SubSeq(Entries(s), 1, n)) = n
      /\ \A i \in 1 .. n : SubSeq(Entries(s), 1, n)[i] = Entries(s)[i]
  BY <1>1, <1>5, SubSeqProperties
<1>7. Entries(SubSeq(s, 1, n)) \in Seq(FileEntry) /\ Len(Entries(SubSeq(s, 1, n))) = n
  BY <1>3, EntriesType
<1>8. \A i \in 1 .. n : Entries(SubSeq(s, 1, n))[i] = SubSeq(Entries(s), 1, n)[i]
  <2> TAKE i \in 1 .. n
  <2>1. Entries(SubSeq(s, 1, n))[i] = Entry(s[i])
    BY <1>3, EntriesType
  <2>2. Entries(s)[i] = Entry(s[i])
    BY <1>1, EntriesType
  <2> QED
    BY <1>6, <2>1, <2>2
<1> QED
  BY <1>3, <1>6, <1>7, <1>8, SeqEqual

\* A sequence and the first elements of what follows it.
LEMMA FirstOfConcat ==
  ASSUME NEW S, NEW s \in Seq(S), NEW t \in Seq(S), NEW n \in 0 .. Len(t)
  PROVE  /\ SubSeq(t, 1, n) \in Seq(S)
         /\ s \o SubSeq(t, 1, n) = SubSeq(s \o t, 1, Len(s) + n)
<1>1. Len(s) \in Nat /\ Len(t) \in Nat
  BY LenProperties
<1>2. \A i \in 1 .. n : t[i] \in S
  BY <1>1, ElementOfSeq
<1>3. /\ SubSeq(t, 1, n) \in Seq(S)
      /\ Len(SubSeq(t, 1, n)) = n
      /\ \A i \in 1 .. n : SubSeq(t, 1, n)[i] = t[i]
  BY <1>1, <1>2, SubSeqProperties
<1>4. /\ s \o t \in Seq(S) /\ Len(s \o t) = Len(s) + Len(t)
      /\ \A i \in 1 .. Len(s) + Len(t) :
           (s \o t)[i] = IF i <= Len(s) THEN s[i] ELSE t[i - Len(s)]
  BY ConcatProperties
<1>5. \A i \in 1 .. Len(s) + n : (s \o t)[i] \in S
  BY <1>1, <1>4, ElementOfSeq
<1>6. /\ SubSeq(s \o t, 1, Len(s) + n) \in Seq(S)
      /\ Len(SubSeq(s \o t, 1, Len(s) + n)) = Len(s) + n
      /\ \A i \in 1 .. Len(s) + n : SubSeq(s \o t, 1, Len(s) + n)[i] = (s \o t)[i]
  BY <1>1, <1>5, SubSeqProperties
<1>7. /\ s \o SubSeq(t, 1, n) \in Seq(S)
      /\ Len(s \o SubSeq(t, 1, n)) = Len(s) + n
      /\ \A i \in 1 .. Len(s) + n :
           (s \o SubSeq(t, 1, n))[i] = IF i <= Len(s) THEN s[i] ELSE SubSeq(t, 1, n)[i - Len(s)]
  BY <1>3, ConcatProperties
<1>8. \A i \in 1 .. Len(s) + n :
        (s \o SubSeq(t, 1, n))[i] = SubSeq(s \o t, 1, Len(s) + n)[i]
  BY <1>1, <1>3, <1>4, <1>6, <1>7
<1> QED
  BY <1>3, <1>6, <1>7, <1>8, SeqEqual

-----------------------------------------------------------------------------
(* What the invariant says of the properties.                              *)

LEMMA OrderIsRecording == Order => FileIsRecording
<1> SUFFICES ASSUME Order PROVE FileIsRecording
  OBVIOUS
<1> USE DEF Order
<1>1. stale \o given \in Seq(Recordable)
  BY ConcatProperties DEF Types
<1>2. Due \in Seq(FileEntry) /\ Len(Due) \in Nat
  BY <1>1, EntriesType, LenProperties DEF Due
<1>3. ASSUME writer.open
      PROVE  Whole(disk.entries) \o Entries(writer.queue) = Due
  <2>1. disk.entries \in Seq(FileEntry)
    BY <1>3 DEF FileInOrder
  <2>2. disk.entries # <<>> => Last(disk.entries) # Torn
    <3> SUFFICES ASSUME disk.entries # <<>> PROVE Last(disk.entries) \in FileEntry
      BY EntryIsNotTorn
    <3> QED
      BY <2>1, EmptySeq, ElementOfSeq DEF Last
  <2> QED
    BY <1>3, <2>2 DEF FileInOrder, Whole
<1>4. ASSUME disk.header PROVE IsPrefix(Whole(disk.entries), Due)
  <2>1. PICK n \in 0 .. Len(Due) :
          disk.entries \in {SubSeq(Due, 1, n), Append(SubSeq(Due, 1, n), Torn)}
    BY <1>4 DEF FileInOrder
  <2> DEFINE first == SubSeq(Due, 1, n)
  <2>2. \A i \in 1 .. n : Due[i] \in FileEntry
    BY <1>2, ElementOfSeq
  <2>3. first \in Seq(FileEntry) /\ Len(first) = n
    BY <1>2, <2>2, SubSeqProperties
  <2>4. first \in Seq(FileEntry \cup {Torn})
    BY <2>3, SeqMonotonic
  <2>5. Whole(disk.entries) = first
    <3>1. CASE disk.entries = first
      <4>1. first # <<>> => Last(first) \in FileEntry
        BY <2>3, EmptySeq, ElementOfSeq DEF Last
      <4> HIDE DEF first
      <4> QED
        BY <3>1, <4>1, EntryIsNotTorn DEF Whole
    <3>2. CASE disk.entries = Append(first, Torn)
      <4>1. /\ disk.entries # <<>> /\ Len(disk.entries) = n + 1
            /\ disk.entries[n + 1] = Torn
            /\ disk.entries \in Seq(FileEntry \cup {Torn})
            /\ \A i \in 1 .. n : disk.entries[i] = first[i]
        <5> HIDE DEF first
        <5>1. Torn \in FileEntry \cup {Torn}
          OBVIOUS
        <5>2. /\ Append(first, Torn) \in Seq(FileEntry \cup {Torn})
              /\ Append(first, Torn) # <<>>
              /\ Len(Append(first, Torn)) = Len(first) + 1
              /\ \A i \in 1 .. Len(first) : Append(first, Torn)[i] = first[i]
              /\ Append(first, Torn)[Len(first) + 1] = Torn
          BY <2>4, <5>1, AppendProperties
        <5> QED
          BY <2>3, <3>2, <5>2
      <4>2. Whole(disk.entries) = SubSeq(disk.entries, 1, n)
        BY <1>2, <4>1 DEF Whole, Last, Front
      <4>3. \A i \in 1 .. n : disk.entries[i] \in FileEntry
        BY <2>3, <4>1, ElementOfSeq
      <4>4. /\ SubSeq(disk.entries, 1, n) \in Seq(FileEntry)
            /\ Len(SubSeq(disk.entries, 1, n)) = n
            /\ \A i \in 1 .. n : SubSeq(disk.entries, 1, n)[i] = disk.entries[i]
        BY <1>2, <4>3, SubSeqProperties
      <4> HIDE DEF first
      <4> QED
        BY <2>3, <4>1, <4>2, <4>4, SeqEqual
    <3> QED
      BY <2>1, <3>1, <3>2
  <2>6. SubSeq(first, 1, n) = first
    BY <2>3, SubSeqFull
  <2> QED
    BY <2>3, <2>5, <2>6 DEF IsPrefix
<1>5. stale # <<>> => used.fails > 0
  BY DEF WriterInOrder
<1> QED
  BY <1>3, <1>4, <1>5 DEF FileIsRecording, Due

LEMMA IInvIsTypeOK == IInv => TypeOK
  BY DEF IInv, Order, WriterInOrder, TakeTurns, InTheTheatre, TypeOK

-----------------------------------------------------------------------------
(* The bounds and the calls.                                               *)

LEMMA Used ==
  ASSUME Types, NEW what \in DOMAIN Bound, Use(what)
  PROVE  /\ used' \in [DOMAIN Bound -> Nat]
         /\ used'["fails"] >= used["fails"]
         /\ what = "fails" => used'["fails"] > 0
<1>1. "fails" \in DOMAIN Bound
  BY DEF Bound
<1>2. used \in [DOMAIN Bound -> Nat]
  BY DEF Types
<1>3. used' = [used EXCEPT ![what] = @ + 1]
  BY DEF Use
<1> DEFINE B == DOMAIN Bound
<1>4. used \in [B -> Nat] /\ what \in B /\ "fails" \in B
  BY <1>1, <1>2
<1> HIDE DEF B
<1>5. /\ used' \in [B -> Nat] /\ used'["fails"] >= used["fails"]
      /\ what = "fails" => used'["fails"] > 0
  BY <1>3, <1>4
<1> QED
  BY <1>5 DEF B

LEMMA CallsDiffer ==
  /\ BeginCall # EndCall
  /\ \A item : AddCall(item) # BeginCall /\ AddCall(item) # EndCall
<1>1. BeginCall.type = "begin" /\ EndCall.type = "end"
  BY DEF BeginCall, EndCall
<1>2. \A item : AddCall(item).type = "add"
  BY DEF AddCall
<1> QED
  BY <1>1, <1>2

\* A call that is pushed in its turn.
LEMMA Pushed ==
  ASSUME Types, TakeTurns, NEW c \in Call,
         calls' = Append(calls, c), writer' = writer,
         c = BeginCall <=> ~tape.on,
         c = EndCall <=> ~tape'.on,
         tape'.on \in BOOLEAN,
         tape'.left # <<>> => tape'.on
  PROVE  calls' \in Seq(Call) /\ TakeTurns'
<1>1. calls \in Seq(Call) /\ tape.on \in BOOLEAN /\ writer.writing \in BOOLEAN
  BY DEF Types
<1>2. /\ calls' \in Seq(Call) /\ calls' # <<>> /\ Len(calls') = Len(calls) + 1
      /\ \A i \in 1 .. Len(calls) : calls'[i] = calls[i]
      /\ calls'[Len(calls) + 1] = c
  BY <1>1, AppendProperties
<1>3. Len(calls) \in Nat /\ (calls = <<>> <=> Len(calls) = 0)
  BY <1>1, EmptySeq, LenProperties
<1>4. calls'[1] = BeginCall <=> ~writer.writing
  BY <1>1, <1>2, <1>3 DEF TakeTurns
<1>5. ASSUME NEW i \in 1 .. Len(calls)
      PROVE  calls'[i + 1] = BeginCall <=> calls'[i] = EndCall
  <2>1. CASE i = Len(calls)
    BY <1>1, <1>2, <1>3, <2>1 DEF TakeTurns
  <2>2. CASE i \in 1 .. (Len(calls) - 1)
    BY <1>2, <1>3, <2>2 DEF TakeTurns
  <2> QED
    BY <1>3, <2>1, <2>2
<1> QED
  BY <1>2, <1>3, <1>4, <1>5 DEF TakeTurns

\* A call that is run leaves the writer writing, unless it is the end.
LEMMA Popped ==
  ASSUME Types, TakeTurns, NEW c, NextCall(c),
         writer'.writing \in BOOLEAN,
         writer'.writing <=> c # EndCall
  PROVE  calls' \in Seq(Call) /\ TakeTurns'
<1>1. /\ calls \in Seq(Call) /\ calls # <<>> /\ Head(calls) = c
      /\ calls' = Tail(calls) /\ tape' = tape /\ tape.on \in BOOLEAN
  BY DEF Types, NextCall
<1>2. Len(calls) \in Nat \ {0} /\ calls[1] = c
  BY <1>1, EmptySeq
<1>3. /\ calls' \in Seq(Call) /\ Len(calls') = Len(calls) - 1
      /\ \A i \in 1 .. Len(calls') : calls'[i] = calls[i + 1]
  BY <1>1, HeadTailProperties
<1>4. calls' = <<>> <=> Len(calls) = 1
  BY <1>2, <1>3, EmptySeq
<1>5. calls' = <<>> => writer'.writing = tape'.on
  BY <1>1, <1>2, <1>4 DEF TakeTurns
<1>6. ASSUME calls' # <<>>
      PROVE  /\ calls'[1] = BeginCall <=> ~writer'.writing
             /\ calls'[Len(calls')] = EndCall <=> ~tape'.on
  <2>1. Len(calls) - 1 \in 1 .. Len(calls')
    BY <1>2, <1>3, <1>4, <1>6
  <2>2. calls'[1] = calls[2] /\ calls'[Len(calls')] = calls[Len(calls)]
    BY <1>2, <1>3, <2>1
  <2>3. calls[2] = BeginCall <=> calls[1] = EndCall
    BY <1>2, <2>1, <1>3 DEF TakeTurns
  <2> QED
    BY <1>1, <1>2, <2>2, <2>3 DEF TakeTurns
<1>7. \A i \in 1 .. (Len(calls') - 1) :
        calls'[i + 1] = BeginCall <=> calls'[i] = EndCall
  <2> TAKE i \in 1 .. (Len(calls') - 1)
  <2>1. i + 1 \in 1 .. (Len(calls) - 1)
    BY <1>2, <1>3
  <2>2. calls'[i + 1] = calls[(i + 1) + 1] /\ calls'[i] = calls[i + 1]
    BY <1>2, <1>3
  <2> QED
    BY <2>1, <2>2 DEF TakeTurns
<1> QED
  BY <1>1, <1>3, <1>5, <1>6, <1>7 DEF TakeTurns

\* The call that is run is the next one: a recording goes on unless it begins.
LEMMA InTurn ==
  ASSUME Types, TakeTurns, NEW c, NextCall(c)
  PROVE  /\ c \in Call
         /\ c = BeginCall <=> ~writer.writing
<1>1. calls \in Seq(Call) /\ calls # <<>> /\ Head(calls) = c
  BY DEF Types, NextCall
<1>2. Len(calls) \in Nat \ {0} /\ calls[1] = c
  BY <1>1, EmptySeq
<1>3. c \in Call
  BY <1>1, <1>2, ElementOfSeq
<1> QED
  BY <1>1, <1>2, <1>3 DEF TakeTurns

-----------------------------------------------------------------------------
(* The session that records.                                               *)

LEMMA AssetsKept ==
  ASSUME WriterInOrder, FileInOrder, UNCHANGED assets,
         used'["fails"] >= used["fails"],
         used["fails"] \in Nat, used'["fails"] \in Nat
  PROVE  WriterInOrder' /\ FileInOrder'
<1>1. writer' = writer /\ disk' = disk /\ stale' = stale /\ given' = given
  BY DEF assets
<1>2. WriterInOrder'
  BY <1>1 DEF WriterInOrder
<1>3. FileInOrder'
  BY <1>1 DEF FileInOrder, Due
<1> QED
  BY <1>2, <1>3

LEMMA FailsType == ASSUME Types PROVE used["fails"] \in Nat
  BY DEF Types, Bound

LEMMA StartRecordingOrder == Order /\ StartRecording => Order'
<1> SUFFICES ASSUME Order, StartRecording PROVE Order'
  OBVIOUS
<1> USE DEF Order
<1>1. /\ ~tape.on /\ calls' = Append(calls, BeginCall)
      /\ UNCHANGED assets /\ Use("recorded")
  BY DEF StartRecording
<1>2. PICK script \in Script : tape' = [on |-> TRUE, left |-> script]
  BY DEF StartRecording
<1>3. script \in Seq(Recordable)
  BY ScriptAssumption
<1>4. used' \in [DOMAIN Bound -> Nat] /\ used'["fails"] >= used["fails"]
  <2>1. "recorded" \in DOMAIN Bound
    BY DEF Bound
  <2> QED
    BY <1>1, <2>1, Used
<1>5. calls' \in Seq(Call) /\ TakeTurns'
  <2>1. BeginCall \in Call
    BY DEF Call
  <2> QED
    BY <1>1, <1>2, <2>1, CallsDiffer, Pushed DEF assets
<1>6. Types'
  BY <1>1, <1>2, <1>3, <1>4, <1>5 DEF Types, assets
<1>7. WriterInOrder' /\ FileInOrder'
  <2>1. used["fails"] \in Nat /\ used'["fails"] \in Nat
    BY <1>4, FailsType DEF Bound
  <2> QED
    BY <1>1, <1>4, <2>1, AssetsKept
<1> QED
  BY <1>5, <1>6, <1>7

LEMMA RecordOrder == Order /\ Record => Order'
<1> SUFFICES ASSUME Order, Record PROVE Order'
  OBVIOUS
<1> USE DEF Order
<1>1. /\ tape.left # <<>> /\ tape' = [tape EXCEPT !.left = Tail(@)]
      /\ calls' = Append(calls, AddCall(Head(tape.left)))
      /\ UNCHANGED assets /\ used' = used
  BY DEF Record
<1>2. Head(tape.left) \in Recordable /\ Tail(tape.left) \in Seq(Recordable)
  BY <1>1, HeadTailProperties DEF Types
<1>3. tape' \in [on : BOOLEAN, left : Seq(Recordable)] /\ tape'.on = tape.on
  BY <1>1, <1>2 DEF Types
<1>4. calls' \in Seq(Call) /\ TakeTurns'
  <2> DEFINE c == AddCall(Head(tape.left))
  <2>1. c \in Call
    BY <1>2 DEF Call
  <2>2. c # BeginCall /\ c # EndCall
    BY CallsDiffer
  <2>3. tape.on
    BY <1>1 DEF TakeTurns
  <2> HIDE DEF c
  <2>4. calls' = Append(calls, c) /\ writer' = writer
    BY <1>1 DEF c, assets
  <2> QED
    BY <1>3, <2>1, <2>2, <2>3, <2>4, Pushed
<1>5. Types'
  BY <1>1, <1>3, <1>4 DEF Types, assets
<1>6. WriterInOrder' /\ FileInOrder'
  BY <1>1, FailsType, AssetsKept
<1> QED
  BY <1>4, <1>5, <1>6

LEMMA StopRecordingOrder == Order /\ StopRecording => Order'
<1> SUFFICES ASSUME Order, StopRecording PROVE Order'
  OBVIOUS
<1> USE DEF Order
<1>1. /\ tape.on /\ tape' = [on |-> FALSE, left |-> <<>>]
      /\ calls' = Append(calls, EndCall) /\ UNCHANGED assets /\ used' = used
  BY DEF StopRecording, NoTape
<1>2. calls' \in Seq(Call) /\ TakeTurns'
  <2>1. EndCall \in Call
    BY DEF Call
  <2> QED
    BY <1>1, <2>1, CallsDiffer, Pushed DEF assets
<1>3. Types'
  <2>1. <<>> \in Seq(Recordable)
    BY EmptySeq
  <2> QED
    BY <1>1, <1>2, <2>1 DEF Types, assets
<1>4. WriterInOrder' /\ FileInOrder'
  BY <1>1, FailsType, AssetsKept
<1> QED
  BY <1>2, <1>3, <1>4

-----------------------------------------------------------------------------
(* What is done to the file.                                               *)

LEMMA DueType ==
  ASSUME Types
  PROVE  /\ stale \o given \in Seq(Recordable)
         /\ Due \in Seq(FileEntry) /\ Len(Due) \in Nat
         /\ Due = Entries(stale) \o Entries(given)
<1>1. stale \in Seq(Recordable) /\ given \in Seq(Recordable)
  BY DEF Types
<1>2. stale \o given \in Seq(Recordable)
  BY <1>1, ConcatProperties
<1> QED
  BY <1>1, <1>2, EntriesType, EntriesOfConcat, LenProperties DEF Due

\* A file that has all but the queue can be closed: it has the first of what
\* it was given.
LEMMA FirstOfDue ==
  ASSUME NEW e \in Seq(FileEntry), NEW q \in Seq(FileEntry),
         NEW d, e \o q = d
  PROVE  Len(e) \in 0 .. Len(d) /\ e = SubSeq(d, 1, Len(e))
<1>1. Len(e) \in Nat /\ Len(q) \in Nat /\ Len(d) = Len(e) + Len(q)
  BY ConcatProperties, LenProperties
<1>2. SubSeq(q, 1, 0) = <<>>
  BY SubSeqEmpty
<1>3. e \o SubSeq(q, 1, 0) = SubSeq(d, 1, Len(e) + 0)
  <2>1. 0 \in 0 .. Len(q)
    BY <1>1
  <2> QED
    BY <2>1, FirstOfConcat
<1>4. e \o <<>> = e
  BY ConcatEmptySeq
<1> QED
  BY <1>1, <1>2, <1>3, <1>4

\* The assets thread between two writes: nothing is written.
LEMMA NothingWritten ==
  ASSUME Types, WriterInOrder, FileInOrder,
         ~writer.open, writer' \in {writer, Closed(writer)},
         disk' = OnDisk(<<>>), UNCHANGED <<stale, given, used>>
  PROVE  /\ writer' \in [writing : BOOLEAN, broken : BOOLEAN, open : BOOLEAN,
                         queue : Seq(Recordable)]
         /\ disk' \in [header : BOOLEAN, entries : Seq(FileEntry \cup {Torn})]
         /\ used' \in [DOMAIN Bound -> Nat]
         /\ WriterInOrder' /\ FileInOrder'
<1>1. disk' = disk
  <2>1. disk.entries \o <<>> = disk.entries
    BY ConcatEmptySeq DEF Types
  <2> QED
    BY <2>1 DEF OnDisk, Types
<1>2. /\ writer' \in [writing : BOOLEAN, broken : BOOLEAN, open : BOOLEAN,
                      queue : Seq(Recordable)]
      /\ writer'.queue = writer.queue /\ ~writer'.open
      /\ writer'.broken = writer.broken
  BY DEF Types, Closed
<1>3. WriterInOrder'
  BY <1>2 DEF WriterInOrder
<1>4. FileInOrder'
  BY <1>1, <1>2 DEF FileInOrder, Due
<1> QED
  BY <1>1, <1>2, <1>3, <1>4 DEF Types

\* All that waits is written.
LEMMA AllWritten ==
  ASSUME Types, WriterInOrder, FileInOrder,
         writer.open, writer' \in {Written.writer, Closed(Written.writer)},
         disk' = OnDisk(Written.entries), UNCHANGED <<stale, given, used>>
  PROVE  /\ writer' \in [writing : BOOLEAN, broken : BOOLEAN, open : BOOLEAN,
                         queue : Seq(Recordable)]
         /\ disk' \in [header : BOOLEAN, entries : Seq(FileEntry \cup {Torn})]
         /\ used' \in [DOMAIN Bound -> Nat]
         /\ WriterInOrder' /\ FileInOrder'
<1>1. <<>> \in Seq(Recordable)
  BY EmptySeq
<1>2. Written.writer = [writer EXCEPT !.queue = <<>>] /\ Written.entries = Entries(writer.queue)
  BY DEF Written
<1>3. /\ writer' \in [writing : BOOLEAN, broken : BOOLEAN, open : BOOLEAN,
                      queue : Seq(Recordable)]
      /\ writer'.queue = <<>> /\ writer'.broken = writer.broken
      /\ writer'.open => writer'.writing
  <2>1. writer.writing
    BY DEF WriterInOrder
  <2>2. CASE writer' = Written.writer
    BY <1>1, <1>2, <2>1, <2>2 DEF Types
  <2>3. CASE writer' = Closed(Written.writer)
    BY <1>1, <1>2, <2>3 DEF Types, Closed
  <2> QED
    BY <2>2, <2>3
<1>4. Due \in Seq(FileEntry) /\ Len(Due) \in Nat
  BY DueType
<1>5. /\ disk.header /\ disk.entries \in Seq(FileEntry)
      /\ disk.entries \o Entries(writer.queue) = Due
  BY DEF FileInOrder
<1>6. disk' = [disk EXCEPT !.entries = Due]
  BY <1>2, <1>5 DEF OnDisk
<1>7. Due \in Seq(FileEntry \cup {Torn})
  BY <1>4, SeqMonotonic
<1>8. /\ disk' \in [header : BOOLEAN, entries : Seq(FileEntry \cup {Torn})]
      /\ disk'.header /\ disk'.entries = Due
  BY <1>5, <1>6, <1>7 DEF Types
<1>9. WriterInOrder'
  BY <1>3 DEF WriterInOrder
<1>10. FileInOrder'
  <2>1. Due' = Due
    BY DEF Due
  <2>2. Due \o Entries(<<>>) = Due /\ SubSeq(Due, 1, Len(Due)) = Due
    BY <1>4, EntriesOfNone, ConcatEmptySeq, SubSeqFull
  <2>3. Len(Due) \in 0 .. Len(Due) /\ disk'.entries = SubSeq(Due, 1, Len(Due))
    BY <1>4, <1>8, <2>2
  <2>4. disk'.entries \in Seq(FileEntry) /\ disk'.entries \o Entries(writer'.queue) = Due
    BY <1>3, <1>4, <1>8, <2>2
  <2>5. \E n \in 0 .. Len(Due') :
          disk'.entries \in {SubSeq(Due', 1, n), Append(SubSeq(Due', 1, n), Torn)}
    BY <2>1, <2>3
  <2> QED
    BY <1>8, <2>1, <2>4, <2>5 DEF FileInOrder
<1> QED
  BY <1>3, <1>8, <1>9, <1>10 DEF Types

\* Some of it is, and a part of one more.
LEMMA SomeWritten ==
  ASSUME Types, WriterInOrder, FileInOrder,
         NEW n \in 0 .. (Len(writer.queue) - 1),
         writer.open, writer' \in {Failed(n).writer, Closed(Failed(n).writer)},
         disk' = OnDisk(Failed(n).entries), UNCHANGED <<stale, given>>, Use("fails")
  PROVE  /\ writer' \in [writing : BOOLEAN, broken : BOOLEAN, open : BOOLEAN,
                         queue : Seq(Recordable)]
         /\ disk' \in [header : BOOLEAN, entries : Seq(FileEntry \cup {Torn})]
         /\ used' \in [DOMAIN Bound -> Nat]
         /\ WriterInOrder' /\ FileInOrder'
<1> DEFINE new == Entries(SubSeq(writer.queue, 1, n))
<1>1. /\ Failed(n).writer = [writer EXCEPT !.open = FALSE]
      /\ Failed(n).entries = Append(new, Torn)
  BY DEF Failed
<1>2. /\ writer' \in [writing : BOOLEAN, broken : BOOLEAN, open : BOOLEAN,
                      queue : Seq(Recordable)]
      /\ ~writer'.open /\ writer'.broken = writer.broken
  BY <1>1 DEF Types, Closed
<1>3. Due \in Seq(FileEntry) /\ Len(Due) \in Nat
  BY DueType
<1>4. /\ disk.header /\ disk.entries \in Seq(FileEntry)
      /\ disk.entries \o Entries(writer.queue) = Due
  BY DEF FileInOrder
<1>5. writer.queue \in Seq(Recordable) /\ Len(writer.queue) \in Nat
  BY LenProperties DEF Types
<1>6. /\ Entries(writer.queue) \in Seq(FileEntry)
      /\ Len(Entries(writer.queue)) = Len(writer.queue)
  BY <1>5, EntriesType
<1>7. new = SubSeq(Entries(writer.queue), 1, n)
  BY <1>5, EntriesOfFirst
<1> DEFINE k == Len(disk.entries) + n
<1>8. new \in Seq(FileEntry) /\ disk.entries \o new = SubSeq(Due, 1, k)
  <2> DEFINE e == disk.entries
             q == Entries(writer.queue)
  <2>1. n \in 0 .. Len(q)
    BY <1>5, <1>6
  <2>2. /\ SubSeq(q, 1, n) \in Seq(FileEntry)
        /\ e \o SubSeq(q, 1, n) = SubSeq(e \o q, 1, Len(e) + n)
    <3>1. e \in Seq(FileEntry) /\ q \in Seq(FileEntry)
      BY <1>4, <1>6
    <3> HIDE DEF e, q
    <3> QED
      BY <2>1, <3>1, FirstOfConcat
  <2>3. new = SubSeq(q, 1, n) /\ e \o q = Due /\ k = Len(e) + n
    BY <1>4, <1>7
  <2> HIDE DEF new, k, q
  <2> QED
    BY <2>2, <2>3
<1>9. k \in 0 .. Len(Due)
  <2>1. Len(Due) = Len(disk.entries) + Len(Entries(writer.queue)) /\ Len(disk.entries) \in Nat
    BY <1>4, <1>6, ConcatProperties, LenProperties
  <2>2. \A a, b \in Nat : n \in 0 .. (b - 1) => a + n \in 0 .. (a + b)
    OBVIOUS
  <2>3. Len(disk.entries) + n \in 0 .. (Len(disk.entries) + Len(writer.queue))
    BY <1>5, <2>1, <2>2
  <2> QED
    BY <1>6, <2>1, <2>3
<1> HIDE DEF new, k
<1>10. disk.entries \o Append(new, Torn) = Append(SubSeq(Due, 1, k), Torn)
  <2> DEFINE S == FileEntry \cup {Torn}
  <2>1. disk.entries \in Seq(S) /\ new \in Seq(S) /\ Torn \in S
    BY <1>4, <1>8, SeqMonotonic
  <2> HIDE DEF S
  <2>2. <<Torn>> \in Seq(S)
    BY <2>1
  <2>3. disk.entries \o new \in Seq(S)
    BY <2>1, ConcatProperties
  <2>4. Append(new, Torn) = new \o <<Torn>>
    BY <2>1, AppendIsConcat
  <2>5. Append(disk.entries \o new, Torn) = (disk.entries \o new) \o <<Torn>>
    BY <2>1, <2>3, AppendIsConcat
  <2>6. (disk.entries \o new) \o <<Torn>> = disk.entries \o (new \o <<Torn>>)
    <3>1. \A a, b, c \in Seq(S) : (a \o b) \o c = a \o (b \o c)
      BY ConcatAssociative
    <3> QED
      BY <2>1, <2>2, <3>1
  <2> QED
    BY <1>8, <2>4, <2>5, <2>6
<1>11. Append(SubSeq(Due, 1, k), Torn) \in Seq(FileEntry \cup {Torn})
  <2>1. disk.entries \o new \in Seq(FileEntry)
    BY <1>4, <1>8, ConcatProperties
  <2>2. SubSeq(Due, 1, k) \in Seq(FileEntry \cup {Torn})
    BY <1>8, <2>1, SeqMonotonic
  <2>3. Torn \in FileEntry \cup {Torn}
    OBVIOUS
  <2> QED
    BY <2>2, <2>3, AppendProperties
<1>12. disk' = [disk EXCEPT !.entries = Append(SubSeq(Due, 1, k), Torn)]
  BY <1>1, <1>10 DEF OnDisk
<1>13. /\ disk' \in [header : BOOLEAN, entries : Seq(FileEntry \cup {Torn})]
       /\ disk'.header /\ disk'.entries = Append(SubSeq(Due, 1, k), Torn)
  BY <1>4, <1>11, <1>12 DEF Types
<1>14. used' \in [DOMAIN Bound -> Nat] /\ used'["fails"] > 0
  <2>1. "fails" \in DOMAIN Bound
    BY DEF Bound
  <2> QED
    BY <2>1, Used
<1>15. WriterInOrder'
  BY <1>2, <1>14 DEF WriterInOrder
<1>16. FileInOrder'
  <2>1. Due' = Due
    BY DEF Due
  <2> QED
    BY <1>2, <1>9, <1>13, <2>1 DEF FileInOrder
<1> QED
  BY <1>2, <1>13, <1>14, <1>15, <1>16

\* Whichever it is.
LEMMA Wrote ==
  ASSUME Types, WriterInOrder, FileInOrder,
         NEW result \in Results, WriteReplayMessages(result),
         writer' \in {result.writer, Closed(result.writer)},
         disk' = OnDisk(result.entries), UNCHANGED <<stale, given>>
  PROVE  /\ writer' \in [writing : BOOLEAN, broken : BOOLEAN, open : BOOLEAN,
                         queue : Seq(Recordable)]
         /\ disk' \in [header : BOOLEAN, entries : Seq(FileEntry \cup {Torn})]
         /\ used' \in [DOMAIN Bound -> Nat]
         /\ WriterInOrder' /\ FileInOrder'
<1>1. CASE /\ ~writer.open
           /\ result = [writer |-> writer, entries |-> <<>>]
           /\ UNCHANGED used
  <2>1. result.writer = writer /\ result.entries = <<>>
    BY <1>1
  <2> QED
    BY <1>1, <2>1, NothingWritten
<1>2. CASE writer.open /\ result = Written /\ UNCHANGED used
  BY <1>2, AllWritten
<1>3. CASE /\ writer.open
           /\ \E n \in 0 .. (Len(writer.queue) - 1) : result = Failed(n)
           /\ Use("fails")
  BY <1>3, SomeWritten
<1> QED
  BY <1>1, <1>2, <1>3 DEF WriteReplayMessages

\* The result keeps whether the writer writes.
LEMMA ResultWrites ==
  ASSUME Types, NEW result \in Results
  PROVE  /\ result.writer.writing = writer.writing
         /\ Closed(result.writer).writing = FALSE
<1>1. result.writer \in {writer, [writer EXCEPT !.queue = <<>>], [writer EXCEPT !.open = FALSE]}
  BY DEF Results, Written, Failed
<1> QED
  BY <1>1 DEF Types, Closed

-----------------------------------------------------------------------------
(* The assets thread.                                                      *)

LEMMA ProcessOrder == Order /\ Process => Order'
<1> SUFFICES ASSUME Order, Process PROVE Order'
  OBVIOUS
<1> USE DEF Order
<1>1. writer.writing /\ UNCHANGED <<tape, calls, stale, given>>
  BY DEF Process, recorder
<1>2. PICK result \in Results :
        /\ WriteReplayMessages(result)
        /\ writer' = result.writer
        /\ disk' = OnDisk(result.entries)
  BY DEF Process
<1>3. /\ writer' \in [writing : BOOLEAN, broken : BOOLEAN, open : BOOLEAN,
                      queue : Seq(Recordable)]
      /\ disk' \in [header : BOOLEAN, entries : Seq(FileEntry \cup {Torn})]
      /\ used' \in [DOMAIN Bound -> Nat]
      /\ WriterInOrder' /\ FileInOrder'
  BY <1>1, <1>2, Wrote
<1>4. writer'.writing = writer.writing
  BY <1>2, ResultWrites
<1>5. TakeTurns'
  BY <1>1, <1>4 DEF TakeTurns
<1>6. Types'
  BY <1>1, <1>3 DEF Types
<1> QED
  BY <1>3, <1>5, <1>6

LEMMA RunEndOrder == Order /\ RunEnd => Order'
<1> SUFFICES ASSUME Order, RunEnd PROVE Order'
  OBVIOUS
<1> USE DEF Order
<1>1. NextCall(EndCall)
  BY DEF RunEnd
<1>2. writer.writing /\ ~writer.broken
  BY <1>1, InTurn, CallsDiffer DEF WriterInOrder
<1>3. /\ UNCHANGED <<stale, given>>
      /\ \E result \in Results :
           /\ WriteReplayMessages(result)
           /\ writer' = Closed(result.writer)
           /\ disk' = OnDisk(result.entries)
  BY <1>2 DEF RunEnd
<1>4. PICK result \in Results :
        /\ WriteReplayMessages(result)
        /\ writer' = Closed(result.writer)
        /\ disk' = OnDisk(result.entries)
  BY <1>3
<1>5. /\ writer' \in [writing : BOOLEAN, broken : BOOLEAN, open : BOOLEAN,
                      queue : Seq(Recordable)]
      /\ disk' \in [header : BOOLEAN, entries : Seq(FileEntry \cup {Torn})]
      /\ used' \in [DOMAIN Bound -> Nat]
      /\ WriterInOrder' /\ FileInOrder'
  BY <1>3, <1>4, Wrote
<1>6. writer'.writing = FALSE
  BY <1>4, ResultWrites
<1>7. calls' \in Seq(Call) /\ TakeTurns'
  BY <1>1, <1>6, Popped
<1>8. tape' = tape
  BY <1>1 DEF NextCall
<1>9. Types'
  BY <1>3, <1>5, <1>7, <1>8 DEF Types
<1> QED
  BY <1>5, <1>7, <1>9

LEMMA RunBeginOrder == Order /\ RunBegin => Order'
<1> SUFFICES ASSUME Order, RunBegin PROVE Order'
  OBVIOUS
<1> USE DEF Order
<1>1. NextCall(BeginCall)
  BY DEF RunBegin
<1>2. ~writer.writing /\ ~writer.broken /\ ~writer.open
  BY <1>1, InTurn DEF WriterInOrder
<1>3. PICK open \in BOOLEAN : Begin(open)
  BY <1>2 DEF RunBegin
<1>4. writer' = [writer EXCEPT !.writing = TRUE, !.open = open]
  BY <1>3 DEF Begin
<1>5. /\ writer' \in [writing : BOOLEAN, broken : BOOLEAN, open : BOOLEAN,
                      queue : Seq(Recordable)]
      /\ writer'.writing /\ ~writer'.broken
      /\ writer'.open = open /\ writer'.queue = writer.queue
  BY <1>2, <1>4 DEF Types
<1>6. calls' \in Seq(Call) /\ TakeTurns' /\ tape' = tape
  BY <1>1, <1>5, Popped, CallsDiffer DEF NextCall
<1>7. "fails" \in DOMAIN Bound /\ used["fails"] \in Nat
  BY FailsType DEF Bound
<1>8. ASSUME NEW header \in BOOLEAN, NewFile(header), open => header,
             used' \in [DOMAIN Bound -> Nat], used'["fails"] >= used["fails"],
             ~open => used'["fails"] > 0
      PROVE  Order'
  <2>1. disk' = [header |-> header, entries |-> <<>>] /\ stale' = writer.queue /\ given' = <<>>
    BY <1>8 DEF NewFile
  <2>2. writer.queue \in Seq(Recordable) /\ <<>> \in Seq(Recordable)
    BY EmptySeq DEF Types
  <2>3. <<>> \in Seq(FileEntry) /\ <<>> \in Seq(FileEntry \cup {Torn})
    BY EmptySeq
  <2>4. Types'
    BY <1>5, <1>6, <1>8, <2>1, <2>2, <2>3 DEF Types
  <2>5. used'["fails"] \in Nat
    BY <1>7, <1>8
  <2>6. WriterInOrder'
    BY <1>2, <1>5, <1>7, <1>8, <2>1, <2>5 DEF WriterInOrder
  <2>7. Due' = Entries(writer.queue) /\ Due' \in Seq(FileEntry)
    <3>1. stale' \o given' = writer.queue
      BY <2>1, <2>2, ConcatEmptySeq
    <3> QED
      BY <2>2, <3>1, EntriesType DEF Due
  <2>8. <<>> \o Entries(writer.queue) = Entries(writer.queue)
    BY <2>2, EntriesType, ConcatEmptySeq
  <2>9. 0 \in 0 .. Len(Due') /\ SubSeq(Due', 1, 0) = <<>>
    BY <2>7, LenProperties, SubSeqEmpty
  <2>10. FileInOrder'
    BY <1>5, <1>8, <2>1, <2>3, <2>7, <2>8, <2>9 DEF FileInOrder
  <2> QED
    BY <1>6, <2>4, <2>6, <2>10
<1>9. CASE open /\ NewFile(TRUE) /\ UNCHANGED used
  <2>1. used' \in [DOMAIN Bound -> Nat] /\ used'["fails"] >= used["fails"]
    BY <1>7, <1>9 DEF Types
  <2> QED
    BY <1>8, <1>9, <2>1
<1>10. CASE ~open /\ NewFile(FALSE) /\ Use("fails")
  BY <1>7, <1>8, <1>10, Used
<1>11. CASE ~open /\ UNCHANGED <<disk, stale, given>> /\ Use("fails")
  <2>1. used' \in [DOMAIN Bound -> Nat] /\ used'["fails"] > 0
    BY <1>7, <1>11, Used
  <2>2. Types'
    BY <1>5, <1>6, <1>11, <2>1 DEF Types
  <2>3. WriterInOrder'
    BY <1>5, <1>11, <2>1 DEF WriterInOrder
  <2>4. FileInOrder'
    BY <1>5, <1>11 DEF FileInOrder, Due
  <2> QED
    BY <1>6, <2>2, <2>3, <2>4
<1> QED
  BY <1>3, <1>9, <1>10, <1>11 DEF Begin

LEMMA RunAddMessageOrder == Order /\ RunAddMessage => Order'
<1> SUFFICES ASSUME Order, RunAddMessage PROVE Order'
  OBVIOUS
<1> USE DEF Order
<1>1. PICK item : NextCall(AddCall(item)) /\ RunAdd_(item)
  BY DEF RunAddMessage
<1>2. item \in Recordable
  <2>1. AddCall(item) \in Call
    BY <1>1, InTurn
  <2>2. PICK other \in Recordable : AddCall(item) = AddCall(other)
    BY <2>1, CallsDiffer DEF Call
  <2>3. AddCall(item).item = item /\ AddCall(other).item = other
    BY DEF AddCall
  <2> QED
    BY <2>2, <2>3
<1>3. writer.writing /\ ~writer.broken
  BY <1>1, InTurn, CallsDiffer DEF WriterInOrder
<1>4. ASSUME writer'.writing \in BOOLEAN, writer'.writing
      PROVE  calls' \in Seq(Call) /\ TakeTurns' /\ tape' = tape
  BY <1>1, <1>4, Popped, CallsDiffer DEF NextCall
<1>5. used["fails"] \in Nat
  BY FailsType
<1>6. CASE Ignored
  <2>1. UNCHANGED assets /\ used' = used
    BY <1>6 DEF Ignored
  <2>2. calls' \in Seq(Call) /\ TakeTurns' /\ tape' = tape
    BY <1>3, <1>4, <2>1 DEF assets, Types
  <2> QED
    BY <1>5, <2>1, <2>2, AssetsKept DEF Types, assets
<1>7. CASE Overflow
  <2>1. /\ writer' = [writer EXCEPT !.open = FALSE, !.queue = <<>>]
        /\ UNCHANGED <<disk, stale, given, used>>
    BY <1>7 DEF Overflow
  <2>2. <<>> \in Seq(Recordable)
    BY EmptySeq
  <2>3. /\ writer' \in [writing : BOOLEAN, broken : BOOLEAN, open : BOOLEAN,
                        queue : Seq(Recordable)]
        /\ writer'.writing /\ ~writer'.broken /\ ~writer'.open /\ writer'.queue = <<>>
    BY <1>3, <2>1, <2>2 DEF Types
  <2>4. calls' \in Seq(Call) /\ TakeTurns' /\ tape' = tape
    BY <1>4, <2>3
  <2>5. Types'
    BY <2>1, <2>3, <2>4 DEF Types
  <2>6. WriterInOrder'
    BY <2>1, <2>3 DEF WriterInOrder
  <2>7. FileInOrder'
    BY <2>1, <2>3 DEF FileInOrder, Due
  <2> QED
    BY <2>4, <2>5, <2>6, <2>7
<1>8. CASE writer.open /\ Take(item)
  <2>1. /\ writer' = [writer EXCEPT !.queue = Append(@, item)]
        /\ given' = Append(given, item)
        /\ UNCHANGED <<disk, stale, used>>
    BY <1>8 DEF Take
  <2>2. writer.queue \in Seq(Recordable) /\ given \in Seq(Recordable) /\ stale \in Seq(Recordable)
    BY DEF Types
  <2>3. Append(writer.queue, item) \in Seq(Recordable) /\ Append(given, item) \in Seq(Recordable)
    BY <1>2, <2>2, AppendProperties
  <2>4. /\ writer' \in [writing : BOOLEAN, broken : BOOLEAN, open : BOOLEAN,
                        queue : Seq(Recordable)]
        /\ writer'.writing /\ ~writer'.broken /\ writer'.open
        /\ writer'.queue = Append(writer.queue, item)
    BY <1>3, <1>8, <2>1, <2>3 DEF Types
  <2>5. calls' \in Seq(Call) /\ TakeTurns' /\ tape' = tape
    BY <1>4, <2>4
  <2>6. Types'
    BY <2>1, <2>3, <2>4, <2>5 DEF Types
  <2>7. WriterInOrder'
    BY <2>1, <2>4 DEF WriterInOrder
  <2>8. FileInOrder'
    <3> DEFINE one == Entries(<<item>>)
               e == disk.entries
               q == Entries(writer.queue)
    <3>1. <<item>> \in Seq(Recordable)
      BY <1>2
    <3>2. one \in Seq(FileEntry) /\ q \in Seq(FileEntry)
      BY <2>2, <3>1, EntriesType
    <3>3. Entries(writer'.queue) = q \o one
      <4>1. writer'.queue = writer.queue \o <<item>>
        BY <1>2, <2>2, <2>4, AppendIsConcat
      <4> QED
        BY <2>2, <3>1, <4>1, EntriesOfConcat
    <3>4. Due' = Due \o one
      <4>1. stale' \o given' = (stale \o given) \o <<item>>
        <5>1. given' = given \o <<item>>
          BY <1>2, <2>1, <2>2, AppendIsConcat
        <5> QED
          BY <2>1, <2>2, <3>1, <5>1, ConcatAssociative
      <4>2. stale \o given \in Seq(Recordable)
        BY <2>2, ConcatProperties
      <4> QED
        BY <3>1, <4>1, <4>2, EntriesOfConcat DEF Due
    <3>5. disk.header /\ e \in Seq(FileEntry) /\ e \o q = Due
      BY <1>8 DEF FileInOrder
    <3>6. e \o Entries(writer'.queue) = Due'
      <4>1. e \o (q \o one) = (e \o q) \o one
        <5>1. \A a, b, c \in Seq(FileEntry) : (a \o b) \o c = a \o (b \o c)
          BY ConcatAssociative
        <5> HIDE DEF e, q, one
        <5> QED
          BY <3>2, <3>5, <5>1
      <4> QED
        BY <3>3, <3>4, <3>5, <4>1
    <3>7. Len(e) \in 0 .. Len(Due') /\ e = SubSeq(Due', 1, Len(e))
      <4>1. Entries(writer'.queue) \in Seq(FileEntry)
        BY <2>3, <2>4, EntriesType
      <4> QED
        BY <3>5, <3>6, <4>1, FirstOfDue
    <3> QED
      BY <2>1, <3>5, <3>6, <3>7 DEF FileInOrder
  <2> QED
    BY <2>5, <2>6, <2>7, <2>8
<1>9. Ignored \/ Overflow \/ (writer.open /\ Take(item))
  <2>1. CASE ~writer.open
    BY <1>1, <1>3, <2>1 DEF RunAdd_
  <2>2. CASE writer.open /\ Len(writer.queue) > QueueCap
    BY <1>1, <1>3, <2>2 DEF RunAdd_
  <2>3. CASE writer.open /\ ~(Len(writer.queue) > QueueCap)
    BY <1>1, <1>3, <2>3 DEF RunAdd_
  <2> QED
    BY <2>1, <2>2, <2>3
<1> QED
  BY <1>6, <1>7, <1>8, <1>9

\* Playing leaves the recording alone.
LEMMA PlayingOrder ==
  ASSUME Order, UNCHANGED <<recorder, assets>>,
         UNCHANGED used \/ \E what \in DOMAIN Bound : Use(what)
  PROVE  Order'
<1> USE DEF Order
<1>1. UNCHANGED <<tape, calls, writer, disk, stale, given>>
  BY DEF recorder, assets
<1>2. used' \in [DOMAIN Bound -> Nat] /\ used'["fails"] >= used["fails"]
  <2>1. CASE UNCHANGED used
    BY <2>1, FailsType DEF Types
  <2>2. CASE \E what \in DOMAIN Bound : Use(what)
    BY <2>2, Used
  <2> QED
    BY <2>1, <2>2
<1>3. Types'
  BY <1>1, <1>2 DEF Types
<1>4. TakeTurns'
  BY <1>1 DEF TakeTurns
<1>5. WriterInOrder' /\ FileInOrder'
  <2>1. used["fails"] \in Nat /\ used'["fails"] \in Nat
    BY <1>2, FailsType DEF Bound
  <2> QED
    BY <1>2, <2>1, AssetsKept
<1> QED
  BY <1>3, <1>4, <1>5

-----------------------------------------------------------------------------
(* The player and those who watch.                                         *)

LEMMA FieldKept ==
  ASSUME NEW p, "on" \in DOMAIN p, NEW f, f # "on", NEW v
  PROVE  "on" \in DOMAIN [p EXCEPT ![f] = v] /\ [p EXCEPT ![f] = v].on = p.on
  OBVIOUS

LEMMA RewoundOn ==
  ASSUME NEW p, "on" \in DOMAIN p
  PROVE  "on" \in DOMAIN Rewound(p) /\ Rewound(p).on = p.on
  BY DEF Rewound

LEMMA SavedOn ==
  ASSUME NEW p, "on" \in DOMAIN p
  PROVE  "on" \in DOMAIN SaveState(p) /\ SaveState(p).on = p.on
<1>1. SaveState(p) = p \/ SaveState(p) = [p EXCEPT !.states = Append(@, Saved(p))]
  BY DEF SaveState
<1> QED
  BY <1>1

LEMMA RestoredOn ==
  ASSUME NEW p, "on" \in DOMAIN p, NEW saved
  PROVE  "on" \in DOMAIN Restored(p, saved) /\ Restored(p, saved).on = p.on
<1> DEFINE r == Rewound(p)
<1>1. "on" \in DOMAIN r /\ r.on = p.on
  BY RewoundOn
<1> HIDE DEF r
<1> DEFINE s == Through(HandleSessionMessage, r.session, <<saved.dump>> \o saved.corrections)
<1>2. Restored(p, saved) =
        [r EXCEPT !.session = s, !.time = saved.time, !.pos = saved.pos, !.torn = saved.torn]
  BY DEF Restored, r
<1> HIDE DEF s
<1> QED
  BY <1>1, <1>2

LEMMA Told ==
  ASSUME DOMAIN channel = Watcher, NEW msgs, Tell(msgs)
  PROVE  /\ DOMAIN channel' = Watcher
         /\ \A w \in Watcher \ watchers : channel'[w] = channel[w]
  BY DEF Tell

\* A step of the player after which it is on as before.
LEMMA PlayerStep ==
  ASSUME InTheTheatre,
         "on" \in DOMAIN player', player'.on = player.on,
         watchers' = watchers, lost' \subseteq watchers,
         \/ channel' = channel
         \/ \E msgs : Tell(msgs)
  PROVE  InTheTheatre'
<1>1. /\ DOMAIN channel' = Watcher
      /\ \A w \in Watcher \ watchers : channel'[w] = channel[w]
  BY Told DEF InTheTheatre
<1> QED
  BY <1>1 DEF InTheTheatre

LEMMA LaunchTheatre == InTheTheatre /\ LaunchReplaySession => InTheTheatre'
<1> SUFFICES ASSUME InTheTheatre, LaunchReplaySession PROVE InTheTheatre'
  OBVIOUS
<1>1. PICK header : player' = Rewound(NewPlayer(header))
  BY DEF LaunchReplaySession
<1>2. "on" \in DOMAIN player'
  <2>1. "on" \in DOMAIN NewPlayer(header)
    BY DEF NewPlayer
  <2> QED
    BY <1>1, <2>1, RewoundOn
<1>3. ~player.on /\ UNCHANGED <<watchers, channel, lost>>
  BY DEF LaunchReplaySession
<1> QED
  BY <1>2, <1>3 DEF InTheTheatre

LEMMA EndTheatre == InTheTheatre /\ EndReplaySession => InTheTheatre'
<1> SUFFICES ASSUME InTheTheatre, EndReplaySession PROVE InTheTheatre'
  OBVIOUS
<1>1. /\ player' = NoPlayer /\ watchers' = {} /\ lost' = {}
      /\ channel' = [w \in Watcher |-> <<>>]
  BY DEF EndReplaySession
<1>2. "on" \in DOMAIN player'
  BY <1>1 DEF NoPlayer
<1> QED
  BY <1>1, <1>2 DEF InTheTheatre

LEMMA ReadEndTheatre == InTheTheatre /\ ReadEnd => InTheTheatre'
<1> SUFFICES ASSUME InTheTheatre, ReadEnd PROVE InTheTheatre'
  OBVIOUS
<1>1. /\ player' = Rewound(SaveState(player)) /\ RewindTold
      /\ watchers' = watchers /\ lost' = lost
  BY DEF ReadEnd
<1>2. "on" \in DOMAIN player' /\ player'.on = player.on
  BY <1>1, RewoundOn, SavedOn DEF InTheTheatre
<1>3. \E msgs : Tell(msgs)
  BY <1>1 DEF RewindTold
<1> QED
  BY <1>1, <1>2, <1>3, PlayerStep DEF InTheTheatre

LEMMA ReadGarbageTheatre == InTheTheatre /\ ReadGarbage => InTheTheatre'
<1> SUFFICES ASSUME InTheTheatre, ReadGarbage PROVE InTheTheatre'
  OBVIOUS
<1>1. watchers' = watchers /\ lost' = lost
  BY DEF ReadGarbage
<1>2. CASE player' = Rewound(SaveState(player)) /\ RewindTold
  <2>1. "on" \in DOMAIN player' /\ player'.on = player.on
    BY <1>2, RewoundOn, SavedOn DEF InTheTheatre
  <2>2. \E msgs : Tell(msgs)
    BY <1>2 DEF RewindTold
  <2> QED
    BY <1>1, <2>1, <2>2, PlayerStep DEF InTheTheatre
<1>3. CASE /\ player' = [player EXCEPT !.session = Error(@), !.updating = FALSE]
           /\ UNCHANGED channel
  <2>1. "on" \in DOMAIN player' /\ player'.on = player.on
    BY <1>3 DEF InTheTheatre
  <2> QED
    BY <1>1, <1>3, <2>1, PlayerStep DEF InTheTheatre
<1> QED
  BY <1>2, <1>3 DEF ReadGarbage

LEMMA ReadMessageTheatre == InTheTheatre /\ ReadMessage => InTheTheatre'
<1> SUFFICES ASSUME InTheTheatre, ReadMessage PROVE InTheTheatre'
  OBVIOUS
<1>1. watchers' = watchers /\ lost' = lost
  BY DEF ReadMessage
<1> DEFINE m == disk.entries[player.pos + 1].msg
           p == SaveState(player)
<1>2. "on" \in DOMAIN p /\ p.on = player.on
  BY SavedOn DEF InTheTheatre
<1>3. player' = [p EXCEPT !.session = HandleSessionMessage(@, m),
                          !.time = IF m = ResetMsg THEN 0 ELSE @,
                          !.pos = @ + 1, !.updating = TRUE]
  BY DEF ReadMessage
<1>4. Tell(IF m = ResetMsg THEN <<ResetMsg, m>> ELSE <<m>>)
  BY DEF ReadMessage
<1>5. \E msgs : Tell(msgs)
  BY <1>4
<1> HIDE DEF p
<1> DEFINE s == HandleSessionMessage(p.session, m)
           t == IF m = ResetMsg THEN 0 ELSE p.time
<1>6. player' = [p EXCEPT !.session = s, !.time = t, !.pos = p.pos + 1, !.updating = TRUE]
  BY <1>3
<1> HIDE DEF s, t
<1>7. "on" \in DOMAIN player' /\ player'.on = player.on
  BY <1>2, <1>6
<1> QED
  BY <1>1, <1>5, <1>7, PlayerStep DEF InTheTheatre

LEMMA RunMomentTheatre == InTheTheatre /\ RunMoment => InTheTheatre'
<1> SUFFICES ASSUME InTheTheatre, RunMoment PROVE InTheTheatre'
  OBVIOUS
<1>1. UNCHANGED <<watchers, lost, channel>>
  BY DEF RunMoment
<1>2. PICK s, t : player' = [player EXCEPT !.session = s, !.time = t, !.updating = FALSE]
  BY DEF RunMoment
<1>3. "on" \in DOMAIN player' /\ player'.on = player.on
  BY <1>2 DEF InTheTheatre
<1> QED
  BY <1>1, <1>3, PlayerStep DEF InTheTheatre

LEMMA SeekToTheatre ==
  ASSUME InTheTheatre, NEW goal, SeekTo(goal)
  PROVE  InTheTheatre'
<1>1. watchers' = watchers
  BY DEF SeekTo
<1>2. RewindTold => \E msgs : Tell(msgs)
  BY DEF RewindTold
<1>3. CASE player' = Rewound(player) /\ RewindTold /\ UNCHANGED lost
  BY <1>1, <1>2, <1>3, RewoundOn, PlayerStep DEF InTheTheatre
<1>4. CASE UNCHANGED <<player, channel, lost>>
  BY <1>1, <1>4, PlayerStep DEF InTheTheatre
<1>5. CASE \E i \in Found(goal) :
             /\ player' = Restored(player, player.states[i])
             /\ RewindTold
             /\ lost' = watchers
  BY <1>1, <1>2, <1>5, RestoredOn, PlayerStep DEF InTheTheatre
<1> QED
  BY <1>3, <1>4, <1>5 DEF SeekTo

LEMMA OnClientConnectedTheatre ==
  ASSUME InTheTheatre, NEW w \in Watcher, OnClientConnected(w)
  PROVE  InTheTheatre'
<1>1. /\ player.on /\ player' = player /\ watchers' = watchers \cup {w}
      /\ lost' \in {lost, lost \cup {w}}
  BY DEF OnClientConnected
<1>2. PICK mine, corrections :
        channel' = [v \in Watcher |->
                      CASE v = w -> mine
                        [] v \in watchers \ {w} -> channel[v] \o corrections
                        [] OTHER -> channel[v]]
  BY DEF OnClientConnected
<1>3. DOMAIN channel' = Watcher /\ \A v \in Watcher \ watchers' : channel'[v] = channel[v]
  BY <1>1, <1>2
<1> QED
  BY <1>1, <1>3 DEF InTheTheatre

LEMMA OnClientDisconnectedTheatre ==
  ASSUME InTheTheatre, NEW w \in Watcher, OnClientDisconnected(w)
  PROVE  InTheTheatre'
  BY DEF InTheTheatre, OnClientDisconnected

LEMMA ReceiveTheatre ==
  ASSUME InTheTheatre, NEW w \in Watcher, Receive(w)
  PROVE  InTheTheatre'
<1>1. /\ channel[w] # <<>> /\ channel' = [channel EXCEPT ![w] = Tail(@)]
      /\ UNCHANGED <<player, watchers, lost>>
  BY DEF Receive
<1> QED
  BY <1>1 DEF InTheTheatre

-----------------------------------------------------------------------------
(* All together.                                                           *)

LEMMA InitIInv == Init => IInv
<1> SUFFICES ASSUME Init PROVE IInv
  OBVIOUS
<1>1. <<>> \in Seq(Recordable) /\ <<>> \in Seq(Call) /\ <<>> \in Seq(FileEntry \cup {Torn})
      /\ Len(<<>>) = 0
  BY EmptySeq
<1>2. Types
  BY <1>1 DEF Init, Types, NoTape, NewWriter
<1>3. TakeTurns
  BY <1>1 DEF Init, TakeTurns, NoTape, NewWriter
<1>4. WriterInOrder /\ FileInOrder
  BY DEF Init, WriterInOrder, FileInOrder, NewWriter
<1>5. InTheTheatre
  BY DEF Init, InTheTheatre, NoPlayer
<1> QED
  BY <1>2, <1>3, <1>4, <1>5 DEF IInv, Order

\* What the player and those who watch do.
Playback ==
  \/ LaunchReplaySession \/ EndReplaySession
  \/ ReadEnd \/ ReadGarbage \/ ReadMessage \/ RunMoment
  \/ \E goal \in Goals : SeekTo(goal)
  \/ \E w \in Watcher :
       \/ OnClientConnected(w) \/ OnClientDisconnected(w)
       \/ Receive(w) \/ UpdateSession(w)

LEMMA PlaybackIInv == IInv /\ Playback => IInv'
<1> SUFFICES ASSUME IInv, Playback PROVE IInv'
  OBVIOUS
<1> USE DEF IInv
<1>1. {"plays", "seeks", "joins"} \subseteq DOMAIN Bound
  BY DEF Bound
<1>2. CASE LaunchReplaySession
  <2>1. Order'
    BY <1>1, <1>2, PlayingOrder DEF LaunchReplaySession
  <2> QED
    BY <1>2, <2>1, LaunchTheatre
<1>3. CASE EndReplaySession
  <2>1. Order'
    BY <1>3, PlayingOrder DEF EndReplaySession
  <2> QED
    BY <1>3, <2>1, EndTheatre
<1>4. Fetch => Order'
  BY PlayingOrder DEF Fetch
<1>5. CASE ReadEnd
  BY <1>4, <1>5, ReadEndTheatre DEF ReadEnd
<1>6. CASE ReadGarbage
  BY <1>4, <1>6, ReadGarbageTheatre DEF ReadGarbage
<1>7. CASE ReadMessage
  <2>1. Fetch
    BY <1>7 DEF ReadMessage
  <2> QED
    BY <1>4, <1>7, <2>1, ReadMessageTheatre
<1>8. CASE RunMoment
  <2>1. Order'
    BY <1>8, PlayingOrder DEF RunMoment
  <2> QED
    BY <1>8, <2>1, RunMomentTheatre
<1>9. ASSUME NEW goal \in Goals, SeekTo(goal) PROVE IInv'
  <2>1. Order'
    BY <1>1, <1>9, PlayingOrder DEF SeekTo
  <2> QED
    BY <1>9, <2>1, SeekToTheatre
<1>10. ASSUME NEW w \in Watcher, OnClientConnected(w) PROVE IInv'
  <2>1. Order'
    <3>1. Use("joins") /\ UNCHANGED <<recorder, assets>>
      BY <1>10 DEF OnClientConnected
    <3> QED
      BY <1>1, <3>1, PlayingOrder
  <2> QED
    BY <1>10, <2>1, OnClientConnectedTheatre
<1>11. ASSUME NEW w \in Watcher, OnClientDisconnected(w) PROVE IInv'
  <2>1. Order'
    BY <1>11, PlayingOrder DEF OnClientDisconnected
  <2> QED
    BY <1>11, <2>1, OnClientDisconnectedTheatre
<1>12. ASSUME NEW w \in Watcher, Receive(w) PROVE IInv'
  <2>1. Order'
    BY <1>12, PlayingOrder DEF Receive
  <2> QED
    BY <1>12, <2>1, ReceiveTheatre
<1>13. ASSUME NEW w \in Watcher, UpdateSession(w) PROVE IInv'
  <2>1. UNCHANGED <<recorder, assets, player, watchers, channel, lost, used>>
    BY <1>13 DEF UpdateSession
  <2>2. Order'
    BY <2>1, PlayingOrder
  <2> QED
    BY <2>1, <2>2 DEF InTheTheatre
<1> QED
  BY <1>2, <1>3, <1>5, <1>6, <1>7, <1>8, <1>9, <1>10, <1>11, <1>12, <1>13 DEF Playback

LEMMA TheatreKept == InTheTheatre /\ UNCHANGED theatre => InTheTheatre'
  BY DEF InTheTheatre, theatre

LEMMA NextIInv == IInv /\ [Next]_vars => IInv'
<1> SUFFICES ASSUME IInv, [Next]_vars PROVE IInv'
  OBVIOUS
<1> USE DEF IInv
<1>1. CASE StartRecording
  BY <1>1, StartRecordingOrder, TheatreKept DEF StartRecording
<1>2. CASE Record
  BY <1>2, RecordOrder, TheatreKept DEF Record
<1>3. CASE StopRecording
  BY <1>3, StopRecordingOrder, TheatreKept DEF StopRecording
<1>4. CASE RunBegin
  BY <1>4, RunBeginOrder, TheatreKept DEF RunBegin, NextCall
<1>5. CASE RunAddMessage
  BY <1>5, RunAddMessageOrder, TheatreKept DEF RunAddMessage, NextCall
<1>6. CASE RunEnd
  BY <1>6, RunEndOrder, TheatreKept DEF RunEnd, NextCall
<1>7. CASE Process
  BY <1>7, ProcessOrder, TheatreKept DEF Process
<1>8. CASE Playback
  BY <1>8, PlaybackIInv
<1>9. CASE UNCHANGED vars
  BY <1>9, PlayingOrder, TheatreKept DEF vars
<1> QED
  BY <1>1, <1>2, <1>3, <1>4, <1>5, <1>6, <1>7, <1>8, <1>9 DEF Next, Playback

LEMMA Invariant == Spec => []IInv
<1>1. IInv /\ [Next]_vars => IInv'
  BY NextIInv
<1> QED
  BY <1>1, InitIInv, PTL DEF Spec

\* assets_server.cc:50-164: however the calls of recordings that follow one
\* another wait at the assets thread, and whatever of the file system fails, a
\* beginning finds no recording going on, and an end and a message find one;
\* the connections of a player go with it.
THEOREM CallsTakeTurns == Spec => []TypeOK
<1>1. IInv => TypeOK
  BY IInvIsTypeOK
<1> QED
  BY <1>1, Invariant, PTL

\* assets_server.cc:166-232: wherever a write fails and however much waits, a
\* file is never without a message of those before its last one, and has none
\* twice; and only an error leaves anything to the file of the next recording.
THEOREM FileHasWhatItWasGiven == Spec => []FileIsRecording
<1>1. IInv => FileIsRecording
  BY OrderIsRecording DEF IInv
<1> QED
  BY <1>1, Invariant, PTL

-----------------------------------------------------------------------------
(* Types of what is recorded, and a play of commands that knows no time, no *)
(* queue and no recovery: what a session has, and whether all was well.     *)

Objs == UNION {[D -> Obj] : D \in {E \in SUBSET Slot : IsFiniteSet(E)}}
Named == [slot : Slot, what : Nat]

Session ==
  [objs : Objs, cmds : Seq(Cmd), pending : Seq(Cmd), buffered : Nat,
   ended : BOOLEAN, mixed : BOOLEAN]

World == [ok : BOOLEAN, objs : Objs]

Well(objs) == [ok |-> TRUE, objs |-> objs]

Fits(objs, c) ==
  CASE c.type = "add"     -> /\ Kind(c.slot) # "scene" => Has(objs, c.object.in)
                             /\ ~Has(objs, c.slot)
    [] c.type = "remove"  -> Has(objs, c.slot)
    [] c.type = "set"     -> Has(objs, c.slot) /\ (c.ref = None \/ Has(objs, c.ref))
    [] OTHER              -> TRUE

Effect(objs, c) ==
  CASE c.type = "add"    -> Filled(objs, c.slot, c.object)
    [] c.type = "remove" -> Without(objs, {c.slot} \cup Nodes(objs, c.slot))
    [] c.type = "set"    -> [objs EXCEPT ![c.slot].ref = c.ref]
    [] c.type = "reset"  -> NoObjects
    [] OTHER             -> objs

Play(w, c) ==
  IF w.ok /\ Fits(w.objs, c) THEN Well(Effect(w.objs, c))
                             ELSE [ok |-> FALSE, objs |-> w.objs]

Performing == INSTANCE FoldProofs WITH Op <- Play

\* A message by message.
Items(m) ==
  CASE m.type = "reset"      -> <<ResetMsg>>
    [] m.type = "commands"   -> m.cmds
    [] m.type = "correction" -> <<CorrectCmd(m.nodes)>>

PlayMsg(w, m) == Performing!Fold(w, Items(m))

Hearing == INSTANCE FoldProofs WITH Op <- PlayMsg

\* The time of the steps among some commands.
AddDiff(n, c) == IF c.type = "step" THEN n + c.diff ELSE n

Timing == INSTANCE FoldProofs WITH Op <- AddDiff

Time(cmds) == Timing!Fold(0, cmds)

NoSteps(cmds) == \A i \in 1 .. Len(cmds) : cmds[i].type # "step"

\* Whole moments wait, and the start of one, with the time of those that wait.
Good(s) ==
  /\ s \in Session
  /\ s.cmds # <<>> => s.cmds[Len(s.cmds)].type = "step"
  /\ NoSteps(s.pending)
  /\ s.buffered = Time(s.cmds)

Shown(s) == [ok |-> ~s.ended, objs |-> s.objs]

\* What comes of a session when it has run what it has.
Out(s) == Performing!Fold(Shown(s), s.cmds \o s.pending)

-----------------------------------------------------------------------------
(* Induction over sequences, for properties that are sets.                 *)

LEMMA SequenceInduction ==
  ASSUME NEW S, NEW T, <<>> \in T,
         \A p \in Seq(S), x \in S : p \in T => Append(p, x) \in T
  PROVE  \A seq \in Seq(S) : seq \in T
<1> SUFFICES ASSUME NEW seq \in Seq(S) PROVE seq \in T
  OBVIOUS
<1> DEFINE n == Len(seq)
           U == {i \in 0 .. n : SubSeq(seq, 1, i) \in T}
<1>1. n \in Nat
  BY LenProperties
<1>2. 0 \in U
  <2>1. SubSeq(seq, 1, 0) = <<>>
    BY SubSeqEmpty
  <2>2. SubSeq(seq, 1, 0) \in T
    BY <2>1, Zenon
  <2>3. 0 \in 0 .. n
    BY <1>1
  <2> QED
    BY <2>2, <2>3
<1>3. ASSUME NEW i \in 0 .. (n - 1), i \in U PROVE i + 1 \in U
  <2>1. i + 1 \in 1 .. n /\ (i + 1) - 1 = i /\ seq[i + 1] \in S /\ i + 1 \in 0 .. n
    BY <1>1, ElementOfSeq
  <2>2. SubSeq(seq, 1, i + 1) = Append(SubSeq(seq, 1, i), seq[i + 1])
    <3>1. 1 <= i + 1 /\ 1 \in 1 .. (n + 1) /\ i + 1 \in 1 .. n
      BY <1>1, <2>1
    <3> QED
      BY <2>1, <3>1, SubSeqRecursiveSecond
  <2>3. SubSeq(seq, 1, i) \in Seq(S)
    BY <1>1, <2>1, SubSeqProperties
  <2>4. SubSeq(seq, 1, i) \in T
    BY <1>3
  <2>5. Append(SubSeq(seq, 1, i), seq[i + 1]) \in T
    BY <2>1, <2>3, <2>4
  <2>6. SubSeq(seq, 1, i + 1) \in T
    BY <2>2, <2>5
  <2> QED
    BY <2>1, <2>6
<1>4. \A i \in 0 .. n : i \in U
  <2> HIDE DEF U
  <2> QED
    BY <1>1, <1>2, <1>3, Performing!Induction
<1>5. SubSeq(seq, 1, n) = seq
  BY SubSeqFull
<1>6. n \in 0 .. n
  BY <1>1
<1>7. SubSeq(seq, 1, n) \in T
  BY <1>4, <1>6
<1> QED
  BY <1>5, <1>7

LEMMA ConcatsAssociate ==
  /\ \A a, b, d \in Seq(Cmd) : (a \o b) \o d = a \o (b \o d)
  /\ \A a, b, d \in Seq(Msg) : (a \o b) \o d = a \o (b \o d)
<1>1. \A a, b, d \in Seq(Cmd) : (a \o b) \o d = a \o (b \o d)
  BY ConcatAssociative
<1>2. \A a, b, d \in Seq(Msg) : (a \o b) \o d = a \o (b \o d)
  BY ConcatAssociative
<1> QED
  BY <1>1, <1>2

-----------------------------------------------------------------------------
(* Objects in slots.                                                       *)

LEMMA Kind3 == \A slot \in Slot : Kind(slot) \in Kinds /\ slot # None
  BY DEF Slot, Kind, Kinds, None

LEMMA ObjsParts ==
  ASSUME NEW objs \in Objs
  PROVE  /\ DOMAIN objs \subseteq Slot
         /\ IsFiniteSet(DOMAIN objs)
         /\ objs = [slot \in DOMAIN objs |-> objs[slot]]
         /\ \A slot \in DOMAIN objs : objs[slot] \in Obj
<1>1. PICK D \in {E \in SUBSET Slot : IsFiniteSet(E)} : objs \in [D -> Obj]
  BY DEF Objs
<1> QED
  BY <1>1

LEMMA ObjsMade ==
  ASSUME NEW D \in SUBSET Slot, IsFiniteSet(D), NEW f, f = [slot \in D |-> f[slot]],
         \A slot \in D : f[slot] \in Obj
  PROVE  f \in Objs /\ DOMAIN f = D
<1>1. f \in [D -> Obj]
  OBVIOUS
<1> QED
  BY <1>1 DEF Objs

LEMMA ObjsEqual ==
  ASSUME NEW a \in Objs, NEW b \in Objs, DOMAIN a = DOMAIN b,
         \A s \in DOMAIN a : a[s] = b[s]
  PROVE  a = b
<1>1. a = [s \in DOMAIN a |-> a[s]] /\ b = [s \in DOMAIN b |-> b[s]]
  BY ObjsParts
<1> QED
  BY <1>1

LEMMA NoObjectsType == NoObjects \in Objs /\ DOMAIN NoObjects = {}
<1>1. DOMAIN NoObjects = {} /\ NoObjects = [slot \in {} |-> NoObjects[slot]]
  BY DEF NoObjects
<1> HIDE DEF NoObjects
<1> QED
  BY <1>1, ObjsMade, FS_EmptySet

LEMMA Added ==
  ASSUME NEW objs \in Objs, NEW slot \in Slot, NEW object \in Obj
  PROVE  /\ Filled(objs, slot, object) \in Objs
         /\ DOMAIN Filled(objs, slot, object) = DOMAIN objs \cup {slot}
         /\ \A s \in DOMAIN objs \cup {slot} :
              Filled(objs, slot, object)[s] = IF s = slot THEN object ELSE objs[s]
<1> DEFINE more == Filled(objs, slot, object)
           D == DOMAIN objs
<1>1. more = [s \in D \cup {slot} |-> IF s = slot THEN object ELSE objs[s]]
  BY DEF Filled
<1>2. \A s \in D : objs[s] \in Obj
  BY ObjsParts
<1>3. D \cup {slot} \in SUBSET Slot /\ IsFiniteSet(D)
  BY ObjsParts
<1> HIDE DEF more, D
<1>4. /\ DOMAIN more = D \cup {slot}
      /\ \A s \in D \cup {slot} : more[s] = IF s = slot THEN object ELSE objs[s]
      /\ more = [s \in D \cup {slot} |-> more[s]]
  BY <1>1
<1>5. \A s \in D \cup {slot} : more[s] \in Obj
  BY <1>1, <1>2
<1>6. IsFiniteSet(D \cup {slot})
  BY <1>3, FS_AddElement
<1>7. more \in Objs
  BY <1>3, <1>4, <1>5, <1>6, ObjsMade
<1> QED
  BY <1>4, <1>7 DEF more, D

Unbound(object, slots) ==
  IF Kind(object.ref) = "node" /\ object.ref \in slots
    THEN [object EXCEPT !.ref = None] ELSE object

LEMMA Removed ==
  ASSUME NEW objs \in Objs, NEW slots
  PROVE  Without(objs, slots) \in Objs
<1> DEFINE left == Without(objs, slots)
           D == DOMAIN objs \ slots
<1>1. left = [s \in D |-> Unbound(objs[s], slots)]
  BY DEF Without, Restrict, Unbound
<1>2. \A s \in DOMAIN objs : objs[s] \in Obj
  BY ObjsParts
<1>3. D \in SUBSET Slot /\ IsFiniteSet(D) /\ \A s \in D : s \in DOMAIN objs
  <2>1. IsFiniteSet(DOMAIN objs) /\ D \subseteq DOMAIN objs
    BY ObjsParts
  <2>2. IsFiniteSet(D)
    BY <2>1, FS_Subset
  <2> QED
    BY <2>1, <2>2, ObjsParts
<1>4. \A object \in Obj : Unbound(object, slots) \in Obj
  BY DEF Unbound, Obj, Ref
<1> HIDE DEF left, D
<1>5. left = [s \in D |-> left[s]] /\ \A s \in D : left[s] = Unbound(objs[s], slots)
  BY <1>1
<1>6. \A s \in D : left[s] \in Obj
  BY <1>2, <1>3, <1>4, <1>5
<1> QED
  BY <1>3, <1>5, <1>6, ObjsMade DEF left

LEMMA Rebound ==
  ASSUME NEW objs \in Objs, NEW slot, NEW ref \in Ref
  PROVE  /\ [objs EXCEPT ![slot].ref = ref] \in Objs
         /\ DOMAIN [objs EXCEPT ![slot].ref = ref] = DOMAIN objs
         /\ \A s \in DOMAIN objs :
              [objs EXCEPT ![slot].ref = ref][s] =
                IF s = slot THEN [objs[s] EXCEPT !.ref = ref] ELSE objs[s]
<1> DEFINE set == [objs EXCEPT ![slot].ref = ref]
           D == DOMAIN objs
<1>1. set = [s \in D |-> IF s = slot THEN [objs[s] EXCEPT !.ref = ref] ELSE objs[s]]
  OBVIOUS
<1>2. \A s \in D : objs[s] \in Obj
  BY ObjsParts
<1>3. D \in SUBSET Slot /\ IsFiniteSet(D)
  BY ObjsParts
<1>4. \A object \in Obj : [object EXCEPT !.ref = ref] \in Obj
  BY DEF Obj
<1> HIDE DEF set, D
<1>5. /\ DOMAIN set = D
      /\ \A s \in D : set[s] = IF s = slot THEN [objs[s] EXCEPT !.ref = ref] ELSE objs[s]
      /\ set = [s \in D |-> set[s]]
  BY <1>1
<1>6. \A s \in D : set[s] \in Obj
  BY <1>2, <1>4, <1>5
<1>7. set \in Objs
  BY <1>3, <1>5, <1>6, ObjsMade
<1> QED
  BY <1>5, <1>7 DEF set, D

-----------------------------------------------------------------------------
(* A play keeps its type, and once not well stays as it is.                *)

LEMMA CmdParts ==
  ASSUME NEW c \in Cmd
  PROVE  /\ c.type \in {"add", "remove", "set", "step", "correct"}
         /\ c.type = "add" => c.slot \in Slot /\ c.object \in Obj
         /\ c.type = "remove" => c.slot \in Slot
         /\ c.type = "set" => c.slot \in Slot /\ c.ref \in Ref
         /\ c.type = "step" => /\ c.diff \in Nat /\ c.diff > 0
                               /\ c.diff % ByteSize = c.diff
         /\ c.type = "correct" => c.nodes \in SUBSET Named
<1>1. CASE c \in [type : {"add"}, slot : Slot, object : Obj]
  BY <1>1
<1>2. CASE c \in [type : {"remove"}, slot : Slot]
  BY <1>2
<1>3. CASE c \in [type : {"set"}, slot : Slot, ref : Ref]
  BY <1>3
<1>4. CASE c \in [type : {"step"}, diff : 1 .. (ByteSize - 1)]
  <2>1. c.type = "step" /\ c.diff \in 1 .. (ByteSize - 1) /\ ByteSize \in Nat
    BY <1>4, ScriptAssumption
  <2>2. c.diff \in Nat /\ c.diff > 0 /\ c.diff < ByteSize
    BY <2>1
  <2>3. c.diff % ByteSize = c.diff
    BY <2>1, <2>2
  <2> QED
    BY <2>1, <2>2, <2>3
<1>5. CASE c \in [type : {"correct"}, nodes : SUBSET [slot : Slot, what : Nat]]
  BY <1>5 DEF Named
<1> QED
  BY <1>1, <1>2, <1>3, <1>4, <1>5 DEF Cmd

\* What is played: commands, and resets among them.
Played == Cmd \cup {ResetMsg}

LEMMA CmdIsPlayed == \A q \in Seq(Cmd) : q \in Seq(Played)
<1>1. Cmd \subseteq Played
  BY DEF Played
<1> QED
  BY <1>1, SeqMonotonic

LEMMA EffectType ==
  ASSUME NEW objs \in Objs, NEW c \in Played
  PROVE  Effect(objs, c) \in Objs
<1>1. CASE c = ResetMsg
  <2>1. c.type = "reset"
    BY <1>1 DEF ResetMsg
  <2> QED
    BY <2>1, NoObjectsType DEF Effect
<1>2. CASE c \in Cmd
  <2>6. /\ c.type \in {"add", "remove", "set", "step", "correct"}
        /\ c.type = "add" => c.slot \in Slot /\ c.object \in Obj
        /\ c.type = "set" => c.ref \in Ref
    BY <1>2, CmdParts
  <2>1. CASE c.type = "add"
    <3>1. Effect(objs, c) = Filled(objs, c.slot, c.object)
      BY <2>1 DEF Effect
    <3>2. c.slot \in Slot /\ c.object \in Obj
      BY <2>1, <2>6
    <3>3. Filled(objs, c.slot, c.object) \in Objs
      BY <3>2, Added
    <3> QED
      BY <3>1, <3>3
  <2>2. CASE c.type = "remove"
    <3>1. Effect(objs, c) = Without(objs, {c.slot} \cup Nodes(objs, c.slot))
      BY <2>2 DEF Effect
    <3> QED
      BY <3>1, Removed
  <2>3. CASE c.type = "set"
    <3>1. Effect(objs, c) = [objs EXCEPT ![c.slot].ref = c.ref]
      BY <2>3 DEF Effect
    <3>2. c.ref \in Ref
      BY <2>3, <2>6
    <3>3. [objs EXCEPT ![c.slot].ref = c.ref] \in Objs
      BY <3>2, Rebound
    <3> QED
      BY <3>1, <3>3
  <2>4. CASE c.type \in {"step", "correct"}
    BY <2>4 DEF Effect
  <2> QED
    BY <2>1, <2>2, <2>3, <2>4, <2>6
<1> QED
  BY <1>1, <1>2 DEF Played

LEMMA PlayType ==
  ASSUME NEW w \in World, NEW c \in Played
  PROVE  Play(w, c) \in World
<1>1. w.objs \in Objs
  BY DEF World
<1>2. Effect(w.objs, c) \in Objs
  BY <1>1, EffectType
<1> QED
  BY <1>1, <1>2 DEF Play, World, Well

LEMMA PlayIll ==
  ASSUME NEW w \in World, ~w.ok, NEW c
  PROVE  Play(w, c) = w
<1>1. Play(w, c) = [ok |-> FALSE, objs |-> w.objs]
  BY DEF Play
<1>2. w = [ok |-> FALSE, objs |-> w.objs]
  BY DEF World
<1> QED
  BY <1>1, <1>2

LEMMA PlayedType ==
  ASSUME NEW w \in World, NEW q \in Seq(Played)
  PROVE  /\ Performing!Fold(w, q) \in World
         /\ ~w.ok => Performing!Fold(w, q) = w
<1>1. \A s \in World, i \in 1 .. Len(q) : Play(s, q[i]) \in World
  BY PlayType, ElementOfSeq
<1>2. Performing!Fold(w, q) \in World
  BY <1>1, Performing!FoldKeeps
<1>3. ASSUME ~w.ok PROVE Performing!Fold(w, q) \in {w}
  <2>1. \A s \in {w}, i \in 1 .. Len(q) : Play(s, q[i]) \in {w}
    BY <1>3, PlayIll
  <2> QED
    BY <2>1, Performing!FoldKeeps
<1> QED
  BY <1>2, <1>3

LEMMA PlayedConcat ==
  ASSUME NEW w, NEW p \in Seq(Played), NEW q \in Seq(Played)
  PROVE  Performing!Fold(w, p \o q) = Performing!Fold(Performing!Fold(w, p), q)
  BY Performing!FoldConcat

-----------------------------------------------------------------------------
(* ... message by message.                                                 *)

LEMMA MsgParts ==
  ASSUME NEW m \in Msg
  PROVE  /\ m.type \in {"reset", "commands", "correction"}
         /\ m.type = "reset" <=> m = ResetMsg
         /\ m.type = "commands" => m.cmds \in Seq(Cmd)
         /\ m.type = "correction" => m.nodes \in SUBSET Named
<1>0. ResetMsg.type = "reset"
  BY DEF ResetMsg
<1>1. CASE m \in [type : {"commands"}, cmds : Seq(Cmd)]
  BY <1>0, <1>1
<1>2. CASE m \in [type : {"correction"}, nodes : SUBSET [slot : Slot, what : Nat]]
  BY <1>0, <1>2 DEF Named
<1>3. CASE m = ResetMsg
  BY <1>0, <1>3
<1> QED
  BY <1>1, <1>2, <1>3 DEF Msg

LEMMA CorrectIsCmd == \A nodes \in SUBSET Named : CorrectCmd(nodes) \in Cmd
  BY DEF CorrectCmd, Cmd, Named

LEMMA ItemsType ==
  ASSUME NEW m \in Msg
  PROVE  /\ Items(m) \in Seq(Played)
         /\ m.type # "reset" => Items(m) \in Seq(Cmd)
<1>1. CASE m.type = "reset"
  <2>1. Items(m) = <<ResetMsg>> /\ ResetMsg \in Played
    BY <1>1 DEF Items, Played
  <2> QED
    BY <1>1, <2>1
<1>2. CASE m.type = "commands"
  BY <1>2, MsgParts, CmdIsPlayed DEF Items
<1>3. CASE m.type = "correction"
  <2>1. Items(m) = <<CorrectCmd(m.nodes)>> /\ CorrectCmd(m.nodes) \in Cmd
    BY <1>3, MsgParts, CorrectIsCmd DEF Items
  <2>2. Items(m) \in Seq(Cmd)
    BY <2>1
  <2> QED
    BY <2>2, CmdIsPlayed
<1> QED
  BY <1>1, <1>2, <1>3, MsgParts

LEMMA HeardMsg ==
  ASSUME NEW w \in World, NEW m \in Msg
  PROVE  PlayMsg(w, m) \in World /\ (~w.ok => PlayMsg(w, m) = w)
<1>1. Items(m) \in Seq(Played)
  BY ItemsType
<1> QED
  BY <1>1, PlayedType DEF PlayMsg

LEMMA HeardType ==
  ASSUME NEW w \in World, NEW q \in Seq(Msg)
  PROVE  /\ Hearing!Fold(w, q) \in World
         /\ ~w.ok => Hearing!Fold(w, q) = w
<1>1. \A s \in World, i \in 1 .. Len(q) : PlayMsg(s, q[i]) \in World
  BY HeardMsg, ElementOfSeq
<1>2. Hearing!Fold(w, q) \in World
  BY <1>1, Hearing!FoldKeeps
<1>3. ASSUME ~w.ok PROVE Hearing!Fold(w, q) \in {w}
  <2>1. \A s \in {w}, i \in 1 .. Len(q) : PlayMsg(s, q[i]) \in {w}
    BY <1>3, HeardMsg, ElementOfSeq
  <2> QED
    BY <2>1, Hearing!FoldKeeps
<1> QED
  BY <1>2, <1>3

LEMMA HeardConcat ==
  ASSUME NEW w, NEW p \in Seq(Msg), NEW q \in Seq(Msg)
  PROVE  Hearing!Fold(w, p \o q) = Hearing!Fold(Hearing!Fold(w, p), q)
  BY Hearing!FoldConcat

\* A reset leaves nothing, a correction everything.
LEMMA PlayReset ==
  ASSUME NEW w \in World, w.ok
  PROVE  PlayMsg(w, ResetMsg) = Well(NoObjects)
<1>1. ResetMsg.type = "reset"
  BY DEF ResetMsg
<1>2. Items(ResetMsg) = <<ResetMsg>>
  BY <1>1 DEF Items
<1>3. Performing!Fold(w, <<ResetMsg>>) = Play(w, ResetMsg)
  BY Performing!FoldOne
<1>4. Fits(w.objs, ResetMsg) /\ Effect(w.objs, ResetMsg) = NoObjects
  BY <1>1 DEF Fits, Effect
<1> QED
  BY <1>2, <1>3, <1>4 DEF PlayMsg, Play

LEMMA PlayCorrection ==
  ASSUME NEW w \in World, NEW m, m.type = "correction"
  PROVE  PlayMsg(w, m) = w
<1> DEFINE c == CorrectCmd(m.nodes)
<1>1. c.type = "correct"
  BY DEF CorrectCmd
<1>2. Items(m) = <<c>>
  BY DEF Items
<1> HIDE DEF c
<1>3. PlayMsg(w, m) = Play(w, c)
  BY <1>2, Performing!FoldOne DEF PlayMsg
<1>4. Fits(w.objs, c) /\ Effect(w.objs, c) = w.objs
  BY <1>1 DEF Fits, Effect
<1>5. w = [ok |-> w.ok, objs |-> w.objs] /\ w.ok \in BOOLEAN
  BY DEF World
<1>6. CASE w.ok
  <2>1. Play(w, c) = [ok |-> TRUE, objs |-> w.objs]
    BY <1>4, <1>6 DEF Play, Well
  <2> QED
    BY <1>3, <1>5, <1>6, <2>1
<1>7. CASE ~w.ok
  BY <1>3, <1>7, PlayIll
<1> QED
  BY <1>5, <1>6, <1>7


-----------------------------------------------------------------------------
(* What arrives waits as it is, with its time.                             *)

Adding == INSTANCE FoldProofs WITH Op <- AddCommand

LEMMA AddedAll == \A b, q : Through(AddCommand, b, q) = Adding!Fold(b, q)
  BY DEF Through, Adding!Fold

LEMMA AddDiffType ==
  ASSUME NEW n \in Nat, NEW c \in Cmd
  PROVE  AddDiff(n, c) \in Nat /\ AddDiff(n, c) >= n
<1>1. CASE c.type = "step"
  <2>1. c.diff \in Nat
    BY <1>1, CmdParts
  <2> QED
    BY <1>1, <2>1 DEF AddDiff
<1>2. CASE c.type # "step"
  BY <1>2 DEF AddDiff
<1> QED
  BY <1>1, <1>2

LEMMA TimedType ==
  ASSUME NEW n \in Nat, NEW q \in Seq(Cmd)
  PROVE  Timing!Fold(n, q) \in Nat
<1>1. \A s \in Nat, i \in 1 .. Len(q) : AddDiff(s, q[i]) \in Nat
  BY AddDiffType, ElementOfSeq
<1> QED
  BY <1>1, Timing!FoldKeeps

LEMMA TimedQuiet ==
  ASSUME NEW n \in Nat, NEW q \in Seq(Cmd), NoSteps(q)
  PROVE  Timing!Fold(n, q) = n
<1>1. \A s \in {n}, i \in 1 .. Len(q) : AddDiff(s, q[i]) \in {n}
  BY DEF AddDiff, NoSteps
<1>2. Timing!Fold(n, q) \in {n}
  BY <1>1, Timing!FoldKeeps
<1> QED
  BY <1>2

LEMMA TimedMore ==
  ASSUME NEW n \in Nat, NEW q \in Seq(Cmd)
  PROVE  Timing!Fold(n, q) = n + Time(q)
<1> DEFINE R == {pair \in Nat \X Nat : pair[1] = n + pair[2]}
<1>1. <<n, 0>> \in R
  OBVIOUS
<1>2. ASSUME NEW s, NEW t, NEW i \in 1 .. Len(q), <<s, t>> \in R
      PROVE  <<AddDiff(s, q[i]), AddDiff(t, q[i])>> \in R
  <2>1. s \in Nat /\ t \in Nat /\ s = n + t /\ q[i] \in Cmd
    BY <1>2, ElementOfSeq
  <2>2. AddDiff(s, q[i]) \in Nat /\ AddDiff(t, q[i]) \in Nat
    BY <2>1, AddDiffType
  <2>3. AddDiff(s, q[i]) = n + AddDiff(t, q[i])
    <3>1. CASE q[i].type = "step"
      <4>1. q[i].diff \in Nat
        BY <2>1, <3>1, CmdParts
      <4> QED
        BY <2>1, <3>1, <4>1 DEF AddDiff
    <3>2. CASE q[i].type # "step"
      BY <2>1, <3>2 DEF AddDiff
    <3> QED
      BY <3>1, <3>2
  <2> QED
    BY <2>2, <2>3
<1> HIDE DEF R
<1>3. <<Timing!Fold(n, q), Timing!Fold(0, q)>> \in R
  BY <1>1, <1>2, Timing!FoldRelates
<1> QED
  BY <1>3 DEF R, Time

LEMMA TimeAppend ==
  ASSUME NEW p \in Seq(Cmd), NEW x \in Cmd
  PROVE  /\ Time(p) \in Nat /\ AddDiff(0, x) \in Nat
         /\ Time(Append(p, x)) = Time(p) + AddDiff(0, x)
<1>1. Time(p) \in Nat /\ AddDiff(0, x) \in Nat
  BY TimedType, AddDiffType DEF Time
<1>2. Time(Append(p, x)) = AddDiff(Time(p), x)
  BY Timing!FoldAppend DEF Time
<1>3. AddDiff(Time(p), x) = Time(p) + AddDiff(0, x)
  <2>1. CASE x.type = "step"
    <3>1. x.diff \in Nat
      BY <2>1, CmdParts
    <3> QED
      BY <1>1, <2>1, <3>1 DEF AddDiff
  <2>2. CASE x.type # "step"
    BY <1>1, <2>2 DEF AddDiff
  <2> QED
    BY <2>1, <2>2
<1> QED
  BY <1>1, <1>2, <1>3

LEMMA AddedGood ==
  ASSUME NEW s, Good(s), NEW c \in Cmd
  PROVE  LET t == AddCommand(s, c) IN
         /\ Good(t)
         /\ t.cmds \o t.pending = Append(s.cmds \o s.pending, c)
         /\ t.objs = s.objs /\ t.ended = s.ended /\ t.mixed = s.mixed
<1> DEFINE held == Append(s.pending, c)
           t == AddCommand(s, c)
<1>1. s \in Session /\ NoSteps(s.pending) /\ s.buffered = Time(s.cmds)
  BY DEF Good
<1>2. s.cmds \in Seq(Cmd) /\ s.pending \in Seq(Cmd) /\ s.buffered \in Nat
  BY <1>1 DEF Session
<1>3. held \in Seq(Cmd) /\ Len(held) = Len(s.pending) + 1 /\ Len(s.pending) \in Nat
      /\ held[Len(held)] = c /\ \A i \in 1 .. Len(s.pending) : held[i] = s.pending[i]
  BY <1>2, AppendProperties, LenProperties
<1>4. held = s.pending \o <<c>>
  BY <1>2, AppendIsConcat
<1>5. s.cmds \o held = Append(s.cmds \o s.pending, c) /\ s.cmds \o held \in Seq(Cmd)
  <2>1. <<c>> \in Seq(Cmd) /\ s.cmds \o s.pending \in Seq(Cmd)
    BY <1>2, ConcatProperties
  <2>2. \A a, b, d \in Seq(Cmd) : (a \o b) \o d = a \o (b \o d)
    BY ConcatsAssociate
  <2>3. (s.cmds \o s.pending) \o <<c>> = s.cmds \o (s.pending \o <<c>>)
    BY <1>2, <2>1, <2>2
  <2>4. Append(s.cmds \o s.pending, c) = (s.cmds \o s.pending) \o <<c>>
    BY <2>1, AppendIsConcat
  <2> QED
    BY <1>2, <1>3, <1>4, <2>3, <2>4, ConcatProperties
<1> HIDE DEF held
<1>6. CASE c.type = "step"
  <2>1. c.diff % ByteSize = c.diff /\ c.diff \in Nat
    BY <1>6, CmdParts
  <2>2. t = [s EXCEPT !.cmds = s.cmds \o held, !.pending = <<>>,
                      !.buffered = s.buffered + c.diff]
    BY <1>6, <2>1 DEF AddCommand, held
  <2>3. /\ t.cmds = s.cmds \o held /\ t.pending = <<>>
        /\ t.buffered = s.buffered + c.diff
        /\ t.objs = s.objs /\ t.ended = s.ended /\ t.mixed = s.mixed
    BY <1>1, <2>2 DEF Session
  <2>4. t \in Session
    <3>1. s.buffered + c.diff \in Nat /\ <<>> \in Seq(Cmd)
      BY <1>2, <2>1, EmptySeq
    <3>2. \A q1, q2 \in Seq(Cmd), n \in Nat :
            [s EXCEPT !.cmds = q1, !.pending = q2, !.buffered = n] \in Session
      BY <1>1 DEF Session
    <3>3. [s EXCEPT !.cmds = s.cmds \o held, !.pending = <<>>,
                    !.buffered = s.buffered + c.diff] \in Session
      BY <1>5, <3>1, <3>2
    <3> QED
      BY <2>2, <3>3
  <2>5. t.cmds \o t.pending = t.cmds
    BY <1>5, <2>3, ConcatEmptySeq
  <2>6. t.cmds # <<>> /\ t.cmds[Len(t.cmds)] = c
    <3>1. /\ Len(s.cmds \o held) = Len(s.cmds) + Len(held)
          /\ \A i \in 1 .. Len(s.cmds) + Len(held) :
               (s.cmds \o held)[i] = IF i <= Len(s.cmds) THEN s.cmds[i] ELSE held[i - Len(s.cmds)]
      BY <1>2, <1>3, ConcatProperties
    <3>2. Len(s.cmds) \in Nat /\ Len(held) \in Nat \ {0}
      BY <1>2, <1>3, LenProperties
    <3>3. /\ Len(s.cmds) + Len(held) \in 1 .. Len(s.cmds) + Len(held)
          /\ ~(Len(s.cmds) + Len(held) <= Len(s.cmds))
          /\ (Len(s.cmds) + Len(held)) - Len(s.cmds) = Len(held)
      BY <3>2
    <3> DEFINE n == Len(s.cmds) + Len(held)
    <3>6. (s.cmds \o held)[n] = IF n <= Len(s.cmds) THEN s.cmds[n] ELSE held[n - Len(s.cmds)]
      BY <3>1, <3>3
    <3>7. (s.cmds \o held)[n] = held[Len(held)]
      BY <3>3, <3>6
    <3>8. n # 0
      BY <3>2
    <3>9. Len(s.cmds \o held) = n
      BY <3>1
    <3> HIDE DEF n
    <3>4. (s.cmds \o held)[Len(s.cmds \o held)] = c /\ Len(s.cmds \o held) # 0
      BY <1>3, <3>7, <3>8, <3>9
    <3>5. s.cmds \o held # <<>>
      BY <3>4
    <3> QED
      BY <2>3, <3>4, <3>5
  <2>7. t.buffered = Time(t.cmds)
    <3>1. Time(s.cmds \o held) = Timing!Fold(Time(s.cmds), held)
      BY <1>2, <1>3, Timing!FoldConcat DEF Time
    <3>2. Time(s.cmds) \in Nat
      BY <1>1, <1>2
    <3>3. Timing!Fold(Time(s.cmds), held) = AddDiff(Timing!Fold(Time(s.cmds), s.pending), c)
      BY <1>2, Timing!FoldAppend DEF held
    <3>4. Timing!Fold(Time(s.cmds), s.pending) = Time(s.cmds)
      BY <1>1, <1>2, <3>2, TimedQuiet
    <3> QED
      BY <1>1, <1>6, <2>3, <3>1, <3>3, <3>4 DEF AddDiff
  <2>8. NoSteps(t.pending)
    BY <2>3 DEF NoSteps
  <2> QED
    BY <1>5, <1>6, <2>3, <2>4, <2>5, <2>6, <2>7, <2>8 DEF Good
<1>7. CASE c.type # "step"
  <2>1. t = [s EXCEPT !.pending = held]
    BY <1>7 DEF AddCommand, held
  <2>2. /\ t.cmds = s.cmds /\ t.pending = held /\ t.buffered = s.buffered
        /\ t.objs = s.objs /\ t.ended = s.ended /\ t.mixed = s.mixed
        /\ t \in Session
    BY <1>1, <1>3, <2>1 DEF Session
  <2>3. NoSteps(held)
    <3>1. ASSUME NEW i \in 1 .. Len(held) PROVE held[i].type # "step"
      <4>1. CASE i = Len(held)
        BY <1>3, <1>7, <4>1
      <4>2. CASE i # Len(held)
        <5>1. i \in 1 .. Len(s.pending)
          BY <1>3, <4>2
        <5> QED
          BY <1>1, <1>3, <5>1 DEF NoSteps
      <4> QED
        BY <4>1, <4>2
    <3> QED
      BY <3>1 DEF NoSteps
  <2> QED
    BY <1>1, <1>5, <2>2, <2>3 DEF Good
<1> QED
  BY <1>6, <1>7

LEMMA Queued ==
  ASSUME NEW s, Good(s), NEW q \in Seq(Cmd)
  PROVE  LET t == Through(AddCommand, s, q) IN
         /\ Good(t)
         /\ t.cmds \o t.pending = (s.cmds \o s.pending) \o q
         /\ t.objs = s.objs /\ t.ended = s.ended /\ t.mixed = s.mixed
<1> DEFINE all == s.cmds \o s.pending
           Is(p, t) == /\ Good(t)
                       /\ t.cmds \o t.pending = all \o p
                       /\ t.objs = s.objs /\ t.ended = s.ended /\ t.mixed = s.mixed
           P == {pair \in Seq(Cmd) \X Session : Is(pair[1], pair[2])}
<1>1. s \in Session /\ all \in Seq(Cmd)
  BY ConcatProperties DEF Good, Session
<1> HIDE DEF all
<1>2. << <<>>, s >> \in P
  <2>1. all \o <<>> = all
    BY <1>1, ConcatEmptySeq
  <2> QED
    BY <1>1, <2>1, EmptySeq DEF all
<1>3. ASSUME NEW p \in Seq(Cmd), NEW x \in Cmd, NEW t, <<p, t>> \in P
      PROVE  <<Append(p, x), AddCommand(t, x)>> \in P
  <2> DEFINE u == AddCommand(t, x)
  <2>1. Is(p, t)
    BY <1>3
  <2>2. /\ Good(u) /\ u.cmds \o u.pending = Append(t.cmds \o t.pending, x)
        /\ u.objs = t.objs /\ u.ended = t.ended /\ u.mixed = t.mixed
    BY <2>1, AddedGood
  <2> HIDE DEF u
  <2>3. Append(all \o p, x) = all \o Append(p, x)
    <3>1. <<x>> \in Seq(Cmd) /\ all \o p \in Seq(Cmd)
      BY <1>1, ConcatProperties
    <3>2. \A a, b, d \in Seq(Cmd) : (a \o b) \o d = a \o (b \o d)
      BY ConcatsAssociate
    <3>3. (all \o p) \o <<x>> = all \o (p \o <<x>>)
      BY <1>1, <3>1, <3>2
    <3>4. Append(all \o p, x) = (all \o p) \o <<x>> /\ Append(p, x) = p \o <<x>>
      BY <3>1, AppendIsConcat
    <3> QED
      BY <3>3, <3>4
  <2>4. Is(Append(p, x), u)
    BY <2>1, <2>2, <2>3
  <2>5. u \in Session /\ Append(p, x) \in Seq(Cmd)
    BY <2>2, AppendProperties DEF Good
  <2> HIDE DEF Is
  <2> QED
    BY <2>4, <2>5 DEF u
<1> HIDE DEF P
<1>4. <<q, Adding!Fold(s, q)>> \in P
  <2> DEFINE T == {p \in Seq(Cmd) : <<p, Adding!Fold(s, p)>> \in P}
  <2>1. <<>> \in T
    BY <1>2, Adding!FoldEmpty, EmptySeq
  <2>2. ASSUME NEW p \in Seq(Cmd), NEW x \in Cmd, p \in T PROVE Append(p, x) \in T
    <3>1. Adding!Fold(s, Append(p, x)) = AddCommand(Adding!Fold(s, p), x)
      BY Adding!FoldAppend
    <3>2. Append(p, x) \in Seq(Cmd)
      OBVIOUS
    <3>3. <<Append(p, x), AddCommand(Adding!Fold(s, p), x)>> \in P
      BY <1>3, <2>2
    <3> QED
      BY <3>1, <3>2, <3>3
  <2> HIDE DEF T
  <2>3. q \in T
    BY <2>1, <2>2, SequenceInduction
  <2> QED
    BY <2>3 DEF T
<1>5. Is(q, Through(AddCommand, s, q))
  BY <1>4, AddedAll DEF P
<1> QED
  BY <1>5 DEF all

-----------------------------------------------------------------------------
(* What runs goes as in the play when there is time for it.                *)

Running == INSTANCE FoldProofs WITH Op <- RunCommand

LEMMA RanAll == \A b, q : Through(RunCommand, b, q) = Running!Fold(b, q)
  BY DEF Through, Running!Fold

LEMMA SessionExcept ==
  ASSUME NEW s \in Session
  PROVE  /\ \A o \in Objs : [s EXCEPT !.objs = o] \in Session
         /\ \A n \in Nat : [s EXCEPT !.buffered = n] \in Session
         /\ \A b \in BOOLEAN : [s EXCEPT !.ended = b] \in Session
         /\ \A b \in BOOLEAN : [s EXCEPT !.mixed = b] \in Session
         /\ \A q \in Seq(Cmd) : [s EXCEPT !.cmds = q] \in Session
  BY DEF Session

LEMMA RunType ==
  ASSUME NEW s \in Session, NEW c \in Cmd
  PROVE  RunCommand(s, c) \in Session
<1>1. s.objs \in Objs /\ s.buffered \in Nat
  BY DEF Session
<1>2. Error(s) \in Session
  BY SessionExcept DEF Error
<1>3. c.type \in {"add", "remove", "set", "step", "correct"}
  BY CmdParts
<1>4. CASE s.ended
  BY <1>4 DEF RunCommand
<1>5. CASE ~s.ended /\ c.type = "step"
  <2>1. RunCommand(s, c) = RunStepCmd(s, c)
    BY <1>5 DEF RunCommand
  <2>2. c.diff \in Nat
    BY <1>5, CmdParts
  <2>3. s.buffered >= c.diff => s.buffered - c.diff \in Nat
    BY <1>1, <2>2
  <2> QED
    BY <1>2, <2>1, <2>3, SessionExcept DEF RunStepCmd
<1>6. CASE ~s.ended /\ c.type = "add"
  <2>1. RunCommand(s, c) = RunAdd(s, c)
    BY <1>6 DEF RunCommand
  <2>2. Filled(s.objs, c.slot, c.object) \in Objs
    BY <1>1, <1>6, CmdParts, Added
  <2>3. [s EXCEPT !.objs = Filled(s.objs, c.slot, c.object)] \in Session
    BY <2>2, SessionExcept
  <2> QED
    BY <1>2, <2>1, <2>3 DEF RunAdd
<1>7. CASE ~s.ended /\ c.type = "remove"
  <2>1. RunCommand(s, c) = RunRemove(s, c)
    BY <1>7 DEF RunCommand
  <2>2. Without(s.objs, {c.slot} \cup Nodes(s.objs, c.slot)) \in Objs
    BY <1>1, Removed
  <2>3. [s EXCEPT !.objs = Without(s.objs, {c.slot} \cup Nodes(s.objs, c.slot))] \in Session
    BY <2>2, SessionExcept
  <2> QED
    BY <1>2, <2>1, <2>3 DEF RunRemove
<1>8. CASE ~s.ended /\ c.type = "set"
  <2>1. RunCommand(s, c) = RunSet(s, c)
    BY <1>8 DEF RunCommand
  <2>2. c.ref \in Ref
    BY <1>8, CmdParts
  <2>3. [s.objs EXCEPT ![c.slot].ref = c.ref] \in Objs
    BY <1>1, <2>2, Rebound
  <2>4. [s EXCEPT !.objs = [s.objs EXCEPT ![c.slot].ref = c.ref]] \in Session
    BY <2>3, SessionExcept
  <2> QED
    BY <1>2, <2>1, <2>4 DEF RunSet
<1>9. CASE ~s.ended /\ c.type = "correct"
  <2> DEFINE other == \E n \in c.nodes :
                        ~Has(s.objs, n.slot) \/ s.objs[n.slot].what # n.what
  <2>1. RunCommand(s, c) = [s EXCEPT !.mixed = s.mixed \/ other]
    BY <1>9 DEF RunCommand, RunCorrect
  <2> HIDE DEF other
  <2>2. (s.mixed \/ other) \in BOOLEAN
    OBVIOUS
  <2> QED
    BY <2>1, <2>2, SessionExcept
<1> QED
  BY <1>3, <1>4, <1>5, <1>6, <1>7, <1>8, <1>9

\* One command does in a session what it does in a play.
LEMMA RunMatches ==
  ASSUME NEW s \in Session, NEW c \in Cmd, ~s.ended => AddDiff(0, c) <= s.buffered
  PROVE  LET r == RunCommand(s, c) IN
         /\ r \in Session /\ r.cmds = s.cmds /\ r.pending = s.pending
         /\ Shown(r) = Play(Shown(s), c)
         /\ ~r.ended => ~s.ended /\ r.buffered = s.buffered - AddDiff(0, c)
<1> DEFINE r == RunCommand(s, c)
<1> SUFFICES /\ r \in Session /\ r.cmds = s.cmds /\ r.pending = s.pending
             /\ Shown(r) = Play(Shown(s), c)
             /\ ~r.ended => ~s.ended /\ r.buffered = s.buffered - AddDiff(0, c)
  OBVIOUS
<1>1. s.buffered \in Nat /\ s.ended \in BOOLEAN /\ r \in Session
  BY RunType DEF Session
<1> HIDE DEF r
<1>2. c.type \in {"add", "remove", "set", "step", "correct"}
  BY CmdParts
<1>3. c.type # "step" => s.buffered - AddDiff(0, c) = s.buffered
  BY <1>1 DEF AddDiff
<1>4. CASE s.ended
  <2>1. r = s
    BY <1>4 DEF r, RunCommand
  <2>2. Play(Shown(s), c) = Shown(s)
    BY <1>4 DEF Play, Shown
  <2> QED
    BY <1>1, <1>4, <2>1, <2>2
<1>5. ASSUME ~s.ended, Fits(s.objs, c), r \in {[s EXCEPT !.objs = Effect(s.objs, c)],
                                    [s EXCEPT !.buffered = s.buffered - AddDiff(0, c)]},
             c.type # "step" => r = [s EXCEPT !.objs = Effect(s.objs, c)],
             c.type = "step" => r = [s EXCEPT !.buffered = s.buffered - AddDiff(0, c)]
      PROVE  /\ r.cmds = s.cmds /\ r.pending = s.pending
             /\ Shown(r) = Play(Shown(s), c)
             /\ r.buffered = s.buffered - AddDiff(0, c)
  <2>1. Play(Shown(s), c) = [ok |-> TRUE, objs |-> Effect(s.objs, c)]
    BY <1>5 DEF Play, Shown, Well
  <2>2. CASE c.type # "step"
    <3> DEFINE o == Effect(s.objs, c)
    <3>1. r = [s EXCEPT !.objs = o]
      BY <1>5, <2>2
    <3> HIDE DEF o
    <3>2. /\ r.cmds = s.cmds /\ r.pending = s.pending /\ r.buffered = s.buffered
          /\ r.objs = o /\ r.ended = s.ended
      BY <3>1 DEF Session
    <3>3. Shown(r) = [ok |-> TRUE, objs |-> o]
      BY <1>5, <3>2 DEF Shown
    <3> QED
      BY <1>3, <2>1, <2>2, <3>2, <3>3 DEF o
  <2>3. CASE c.type = "step"
    <3> DEFINE n == s.buffered - AddDiff(0, c)
    <3>1. r = [s EXCEPT !.buffered = n]
      BY <1>5, <2>3
    <3> HIDE DEF n
    <3>2. /\ r.cmds = s.cmds /\ r.pending = s.pending /\ r.buffered = n
          /\ r.objs = s.objs /\ r.ended = s.ended
      BY <3>1 DEF Session
    <3>3. Effect(s.objs, c) = s.objs
      BY <2>3 DEF Effect
    <3>4. Shown(r) = [ok |-> TRUE, objs |-> s.objs]
      BY <1>5, <3>2 DEF Shown
    <3> QED
      BY <2>1, <3>2, <3>3, <3>4 DEF n
  <2> QED
    BY <2>2, <2>3
<1>6. ASSUME ~s.ended, ~Fits(s.objs, c), r = Error(s)
      PROVE  /\ r.cmds = s.cmds /\ r.pending = s.pending
             /\ Shown(r) = Play(Shown(s), c) /\ r.ended
  <2>1. /\ r.cmds = s.cmds /\ r.pending = s.pending /\ r.objs = s.objs /\ r.ended = TRUE
    BY <1>6 DEF Error, Session
  <2>2. Play(Shown(s), c) = [ok |-> FALSE, objs |-> s.objs]
    BY <1>6 DEF Play, Shown
  <2>3. Shown(r) = [ok |-> FALSE, objs |-> s.objs]
    BY <2>1 DEF Shown
  <2> QED
    BY <2>1, <2>2, <2>3
<1>7. CASE ~s.ended /\ c.type = "step"
  <2>1. c.diff \in Nat /\ c.diff > 0
    BY <1>7, CmdParts
  <2>2. AddDiff(0, c) = c.diff
    BY <1>7, <2>1 DEF AddDiff
  <2>3. r = [s EXCEPT !.buffered = s.buffered - AddDiff(0, c)]
    BY <1>1, <1>7, <2>1, <2>2 DEF r, RunCommand, RunStepCmd
  <2>4. Fits(s.objs, c)
    BY <1>7 DEF Fits
  <2> QED
    BY <1>1, <1>5, <1>7, <2>3, <2>4
<1>8. ASSUME ~s.ended, c.type # "step",
             r = IF Fits(s.objs, c) THEN [s EXCEPT !.objs = Effect(s.objs, c)] ELSE Error(s)
      PROVE  /\ r.cmds = s.cmds /\ r.pending = s.pending
             /\ Shown(r) = Play(Shown(s), c)
             /\ ~r.ended => r.buffered = s.buffered - AddDiff(0, c)
  <2>1. CASE Fits(s.objs, c)
    BY <1>5, <1>8, <2>1
  <2>2. CASE ~Fits(s.objs, c)
    BY <1>6, <1>8, <2>2
  <2> QED
    BY <2>1, <2>2
<1>9. CASE ~s.ended /\ c.type = "add"
  <2>1. c.slot[2] <= MaxIndex[Kind(c.slot)]
    BY <1>9, CmdParts DEF Slot
  <2>2. r = IF Fits(s.objs, c) THEN [s EXCEPT !.objs = Effect(s.objs, c)] ELSE Error(s)
    <3>1. r = RunAdd(s, c)
      BY <1>9 DEF r, RunCommand
    <3>2. Fits(s.objs, c) <=> /\ Kind(c.slot) # "scene" => Has(s.objs, c.object.in)
                              /\ ~Has(s.objs, c.slot)
      BY <1>9 DEF Fits
    <3>3. Effect(s.objs, c) = Filled(s.objs, c.slot, c.object)
      BY <1>9 DEF Effect
    <3> QED
      BY <2>1, <3>1, <3>2, <3>3 DEF RunAdd
  <2> QED
    BY <1>1, <1>8, <1>9, <2>2
<1>10. CASE ~s.ended /\ c.type = "remove"
  <2>2. r = IF Fits(s.objs, c) THEN [s EXCEPT !.objs = Effect(s.objs, c)] ELSE Error(s)
    <3>1. r = RunRemove(s, c)
      BY <1>10 DEF r, RunCommand
    <3>2. Fits(s.objs, c) <=> Has(s.objs, c.slot)
      BY <1>10 DEF Fits
    <3>3. Effect(s.objs, c) = Without(s.objs, {c.slot} \cup Nodes(s.objs, c.slot))
      BY <1>10 DEF Effect
    <3> QED
      BY <3>1, <3>2, <3>3 DEF RunRemove
  <2> QED
    BY <1>1, <1>8, <1>10, <2>2
<1>11. CASE ~s.ended /\ c.type = "set"
  <2>2. r = IF Fits(s.objs, c) THEN [s EXCEPT !.objs = Effect(s.objs, c)] ELSE Error(s)
    <3>1. r = RunSet(s, c)
      BY <1>11 DEF r, RunCommand
    <3>2. Fits(s.objs, c) <=> Has(s.objs, c.slot) /\ (c.ref = None \/ Has(s.objs, c.ref))
      BY <1>11 DEF Fits
    <3>3. Effect(s.objs, c) = [s.objs EXCEPT ![c.slot].ref = c.ref]
      BY <1>11 DEF Effect
    <3> QED
      BY <3>1, <3>2, <3>3 DEF RunSet
  <2> QED
    BY <1>1, <1>8, <1>11, <2>2
<1>12. CASE ~s.ended /\ c.type = "correct"
  <2> DEFINE mixed == s.mixed \/ \E n \in c.nodes :
                         ~Has(s.objs, n.slot) \/ s.objs[n.slot].what # n.what
  <2>1. r = [s EXCEPT !.mixed = mixed]
    BY <1>12 DEF r, RunCommand, RunCorrect
  <2> HIDE DEF mixed
  <2>2. /\ r.cmds = s.cmds /\ r.pending = s.pending /\ r.buffered = s.buffered
        /\ r.objs = s.objs /\ r.ended = s.ended
    BY <2>1 DEF Session
  <2>3. Fits(s.objs, c) /\ Effect(s.objs, c) = s.objs
    BY <1>12 DEF Fits, Effect
  <2>4. Play(Shown(s), c) = [ok |-> TRUE, objs |-> s.objs]
    BY <1>12, <2>3 DEF Play, Shown, Well
  <2>5. Shown(r) = [ok |-> TRUE, objs |-> s.objs]
    BY <1>12, <2>2 DEF Shown
  <2> QED
    BY <1>1, <1>3, <1>12, <2>2, <2>4, <2>5
<1> QED
  BY <1>2, <1>4, <1>7, <1>9, <1>10, <1>11, <1>12

LEMMA Ran ==
  ASSUME NEW s \in Session, NEW q \in Seq(Cmd), Time(q) <= s.buffered
  PROVE  LET r == Running!Fold(s, q) IN
         /\ r \in Session /\ r.cmds = s.cmds /\ r.pending = s.pending
         /\ Shown(r) = Performing!Fold(Shown(s), q)
         /\ ~r.ended => r.buffered = s.buffered - Time(q)
<1> DEFINE run(p) == Running!Fold(s, p)
           Is(p, r) == /\ r \in Session /\ r.cmds = s.cmds /\ r.pending = s.pending
                       /\ Shown(r) = Performing!Fold(Shown(s), p)
                       /\ ~r.ended => r.buffered = s.buffered - Time(p)
           T == {p \in Seq(Cmd) : Time(p) <= s.buffered => Is(p, run(p))}
<1>1. s.buffered \in Nat
  BY DEF Session
<1>2. <<>> \in T
  <2>1. run(<<>>) = s /\ Performing!Fold(Shown(s), <<>>) = Shown(s)
    BY Running!FoldEmpty, Performing!FoldEmpty
  <2>2. Time(<<>>) = 0
    BY Timing!FoldEmpty DEF Time
  <2>3. s.buffered = s.buffered - Time(<<>>)
    BY <1>1, <2>2
  <2> HIDE DEF run
  <2>4. Is(<<>>, run(<<>>))
    BY <2>1, <2>3
  <2> QED
    BY <2>4, EmptySeq
<1>3. ASSUME NEW p \in Seq(Cmd), NEW x \in Cmd, p \in T
      PROVE  Append(p, x) \in T
  <2> DEFINE px == Append(p, x)
             r == run(p)
             n == run(px)
  <2>1. px \in Seq(Cmd)
    BY AppendProperties
  <2>2. n = RunCommand(r, x)
    BY Running!FoldAppend
  <2>3. Time(p) \in Nat /\ AddDiff(0, x) \in Nat /\ Time(px) = Time(p) + AddDiff(0, x)
    BY TimeAppend
  <2>4. Performing!Fold(Shown(s), px) = Play(Performing!Fold(Shown(s), p), x)
    <3>1. p \in Seq(Played) /\ x \in Played
      BY CmdIsPlayed DEF Played
    <3> QED
      BY <3>1, Performing!FoldAppend
  <2>5. Time(px) <= s.buffered => Time(p) <= s.buffered
    BY <1>1, <2>3
  <2> HIDE DEF run, px
  <2> SUFFICES ASSUME Time(px) <= s.buffered PROVE Is(px, n)
    BY <2>1 DEF px, n
  <2>6. Is(p, r)
    BY <1>3, <2>5
  <2> HIDE DEF r, n
  <2>7. ~r.ended => AddDiff(0, x) <= r.buffered
    BY <1>1, <2>3, <2>6
  <2>8. /\ n \in Session /\ n.cmds = r.cmds /\ n.pending = r.pending
        /\ Shown(n) = Play(Shown(r), x)
        /\ ~n.ended => ~r.ended /\ n.buffered = r.buffered - AddDiff(0, x)
    BY <2>2, <2>6, <2>7, RunMatches
  <2>9. ~n.ended => n.buffered = s.buffered - Time(px)
    BY <1>1, <2>3, <2>6, <2>8
  <2> QED
    BY <2>4, <2>6, <2>8, <2>9
<1>4. q \in T
  <2> HIDE DEF T
  <2> QED
    BY <1>2, <1>3, SequenceInduction
<1> QED
  BY <1>4

\* A sequence in two.
LEMMA InTwo ==
  ASSUME NEW S, NEW q \in Seq(S), NEW n \in 0 .. Len(q)
  PROVE  LET front == SubSeq(q, 1, n)
             back == SubSeq(q, n + 1, Len(q))
         IN /\ front \in Seq(S) /\ back \in Seq(S) /\ front \o back = q
            /\ Len(front) = n
            /\ back # <<>> => back[Len(back)] = q[Len(q)]
            /\ n = Len(q) => back = <<>>
<1> DEFINE front == SubSeq(q, 1, n)
           back == SubSeq(q, n + 1, Len(q))
           L == Len(q)
<1>1. L \in Nat /\ n \in Nat /\ n <= L /\ \A i \in 1 .. L : q[i] \in S
  BY ElementOfSeq
<1>2. front \in Seq(S) /\ Len(front) = n /\ \A i \in 1 .. n : front[i] = q[i]
  BY <1>1, SubSeqProperties
<1>3. /\ back \in Seq(S)
      /\ Len(back) = L - n
      /\ \A i \in 1 .. L - n : back[i] = q[n + i]
  <2>1. \A i \in (n + 1) .. L : q[i] \in S
    BY <1>1
  <2>2. /\ (L - (n + 1)) + 1 = L - n
        /\ \A i \in 1 .. (L - n) : ((n + 1) + i) - 1 = n + i
        /\ n + 1 <= L \/ L - n = 0
        /\ n + 1 \in Int /\ L \in Int
    <3> HIDE DEF L
    <3>1. (L - (n + 1)) + 1 = L - n
      BY <1>1
    <3>2. \A i \in 1 .. (L - n) : ((n + 1) + i) - 1 = n + i
      BY <1>1
    <3>3. n + 1 <= L \/ L - n = 0
      BY <1>1
    <3> QED
      BY <1>1, <3>1, <3>2, <3>3
  <2>3. /\ back \in Seq(S)
        /\ Len(back) = IF n + 1 <= L THEN (L - (n + 1)) + 1 ELSE 0
        /\ \A i \in 1 .. (L - (n + 1)) + 1 : back[i] = q[((n + 1) + i) - 1]
    <3> DEFINE m == n + 1
    <3>1. m \in Int /\ L \in Int /\ \A i \in m .. L : q[i] \in S
      BY <2>1, <2>2
    <3>2. /\ SubSeq(q, m, L) \in Seq(S)
          /\ Len(SubSeq(q, m, L)) = IF m <= L THEN (L - m) + 1 ELSE 0
          /\ \A i \in 1 .. (L - m) + 1 : SubSeq(q, m, L)[i] = q[(m + i) - 1]
      <4> HIDE DEF m, L
      <4> QED
        BY <3>1, SubSeqProperties
    <3> QED
      BY <3>2
  <2> HIDE DEF back
  <2> QED
    BY <1>1, <2>2, <2>3
<1> HIDE DEF front, back
<1>4. front \o back = q
  <2>1. /\ front \o back \in Seq(S) /\ Len(front \o back) = Len(front) + Len(back)
        /\ \A i \in 1 .. Len(front) + Len(back) :
             (front \o back)[i] = IF i <= Len(front) THEN front[i] ELSE back[i - Len(front)]
    BY <1>2, <1>3, ConcatProperties
  <2>2. Len(front) + Len(back) = L
    BY <1>1, <1>2, <1>3
  <2>3. ASSUME NEW i \in 1 .. L PROVE (front \o back)[i] = q[i]
    <3>1. CASE i <= n
      <4>1. i \in 1 .. n
        BY <1>1, <3>1
      <4> QED
        BY <1>2, <2>1, <2>2, <3>1, <4>1
    <3>2. CASE ~(i <= n)
      <4>1. i - n \in 1 .. L - n /\ n + (i - n) = i
        BY <1>1, <3>2
      <4>2. back[i - n] = q[i]
        BY <1>3, <4>1
      <4> QED
        BY <1>2, <2>1, <2>2, <3>2, <4>2
    <3> QED
      BY <3>1, <3>2
  <2> QED
    BY <2>1, <2>2, <2>3, SeqEqual
<1>5. back # <<>> => back[Len(back)] = q[L]
  <2> SUFFICES ASSUME back # <<>> PROVE back[Len(back)] = q[L]
    OBVIOUS
  <2>1. Len(back) # 0
    BY <1>3, EmptySeq
  <2>2. L - n \in 1 .. L - n /\ n + (L - n) = L
    BY <1>1, <1>3, <2>1
  <2> QED
    BY <1>3, <2>2
<1>6. n = L => back = <<>>
  BY <1>1, <1>3, EmptySeq
<1> QED
  BY <1>2, <1>3, <1>4, <1>5, <1>6 DEF front, back

\* To run up to somewhere changes nothing of what comes of a session.
LEMMA Updated ==
  ASSUME NEW s, Good(s), NEW last \in 0 .. Len(s.cmds)
  PROVE  LET t == Update(s, last) IN
         /\ t \in Session /\ t.pending = s.pending
         /\ t.cmds = SubSeq(s.cmds, last + 1, Len(s.cmds))
         /\ last = Len(s.cmds) => t.cmds = <<>>
         /\ Out(t) = Out(s)
         /\ ~t.ended => Good(t)
<1> DEFINE q == s.cmds
           front == SubSeq(q, 1, last)
           back == SubSeq(q, last + 1, Len(q))
           ran == Running!Fold(s, front)
           t == [ran EXCEPT !.cmds = back]
           left == back \o s.pending
<1>1. /\ s \in Session /\ q \in Seq(Cmd) /\ s.pending \in Seq(Cmd)
      /\ NoSteps(s.pending) /\ s.buffered = Time(q) /\ s.buffered \in Nat
      /\ q # <<>> => q[Len(q)].type = "step"
  BY DEF Good, Session
<1>2. /\ front \in Seq(Cmd) /\ back \in Seq(Cmd) /\ front \o back = q
      /\ back # <<>> => back[Len(back)] = q[Len(q)]
      /\ last = Len(q) => back = <<>>
  <2> HIDE DEF q
  <2>1. last \in 0 .. Len(q)
    BY DEF q
  <2> QED
    BY <1>1, <2>1, InTwo
<1>3. Update(s, last) = t
  BY RanAll DEF Update
<1>12. back # <<>> => q # <<>>
  <2>1. Len(front) \in Nat /\ Len(back) \in Nat /\ Len(q) = Len(front) + Len(back)
    BY <1>2, ConcatProperties, LenProperties
  <2>2. back # <<>> => Len(back) # 0
    BY <1>2, EmptySeq
  <2>3. Len(back) # 0 => Len(q) # 0
    BY <2>1
  <2>4. q = <<>> => Len(q) = 0
    OBVIOUS
  <2> HIDE DEF q, back
  <2> QED
    BY <2>2, <2>3, <2>4
<1> HIDE DEF q, front, back, ran
<1>5. Out(s) = Performing!Fold(Performing!Fold(Shown(s), front), left) /\ left \in Seq(Cmd)
  <2>1. left \in Seq(Cmd)
    BY <1>1, <1>2, ConcatProperties
  <2>2. q \o s.pending = front \o left
    <3>1. \A a, b, d \in Seq(Cmd) : (a \o b) \o d = a \o (b \o d)
      BY ConcatsAssociate
    <3> QED
      BY <1>1, <1>2, <3>1
  <2>3. Out(s) = Performing!Fold(Shown(s), front \o left)
    BY <2>2 DEF Out, q
  <2>4. front \in Seq(Played) /\ left \in Seq(Played)
    BY <1>2, <2>1, CmdIsPlayed
  <2> HIDE DEF left
  <2> QED
    BY <2>1, <2>3, <2>4, PlayedConcat
<1> HIDE DEF left
<1>8. Time(q) = Time(front) + Time(back) /\ Time(front) \in Nat /\ Time(back) \in Nat
  <2>1. Time(front \o back) = Timing!Fold(Time(front), back)
    BY <1>2, Timing!FoldConcat DEF Time
  <2>2. Time(front) \in Nat /\ Time(back) \in Nat
    BY <1>2, TimedType DEF Time
  <2>3. Timing!Fold(Time(front), back) = Time(front) + Time(back)
    BY <1>2, <2>2, TimedMore
  <2> QED
    BY <1>2, <2>1, <2>2, <2>3
<1>9. /\ ran \in Session /\ ran.pending = s.pending
      /\ Shown(ran) = Performing!Fold(Shown(s), front)
      /\ ~ran.ended => ran.buffered = Time(back)
  <2>1. Time(front) <= s.buffered /\ s.buffered - Time(front) = Time(back)
    BY <1>1, <1>8
  <2> QED
    BY <1>1, <1>2, <2>1, Ran DEF ran
<1>10. /\ t \in Session /\ t.cmds = back /\ t.pending = s.pending
       /\ t.buffered = ran.buffered /\ t.ended = ran.ended /\ Shown(t) = Shown(ran)
  BY <1>2, <1>9 DEF Session, Shown
<1> HIDE DEF t
<1>11. ~t.ended => Good(t)
  <2> SUFFICES ASSUME ~t.ended PROVE Good(t)
    OBVIOUS
  <2>2. t.buffered = Time(t.cmds)
    BY <1>9, <1>10
  <2>3. t.cmds # <<>> => t.cmds[Len(t.cmds)].type = "step"
    BY <1>1, <1>2, <1>10, <1>12
  <2> QED
    BY <1>1, <1>10, <2>2, <2>3 DEF Good
<1>13. Out(t) = Out(s)
  BY <1>5, <1>9, <1>10 DEF Out, left
<1>14. /\ t \in Session /\ t.pending = s.pending
       /\ t.cmds = SubSeq(s.cmds, last + 1, Len(s.cmds))
       /\ last = Len(s.cmds) => t.cmds = <<>>
       /\ Out(t) = Out(s)
       /\ ~t.ended => Good(t)
  BY <1>2, <1>10, <1>11, <1>13 DEF back, q
<1> QED
  BY <1>3, <1>14

\* What is not well stays so: a session whose outcome is well has not ended.
LEMMA OutParts ==
  ASSUME NEW s \in Session
  PROVE  /\ Shown(s) \in World /\ Out(s) \in World
         /\ Out(s).ok => ~s.ended
         /\ s.cmds = <<>> => Out(s) = Performing!Fold(Shown(s), s.pending)
         /\ s.cmds = <<>> /\ s.pending = <<>> => Out(s) = Shown(s)
<1>1. s.cmds \in Seq(Cmd) /\ s.pending \in Seq(Cmd) /\ s.ended \in BOOLEAN /\ s.objs \in Objs
  BY DEF Session
<1>2. s.cmds \o s.pending \in Seq(Cmd)
  BY <1>1, ConcatProperties
<1>3. Shown(s) \in World
  BY <1>1 DEF Shown, World
<1>4. Out(s) \in World /\ (~Shown(s).ok => Out(s) = Shown(s))
  <2> DEFINE q == s.cmds \o s.pending
  <2>1. q \in Seq(Played)
    BY <1>2, CmdIsPlayed
  <2> HIDE DEF q
  <2>2. /\ Performing!Fold(Shown(s), q) \in World
        /\ ~Shown(s).ok => Performing!Fold(Shown(s), q) = Shown(s)
    BY <1>3, <2>1, PlayedType
  <2> QED
    BY <2>2 DEF Out, q
<1>5. Out(s).ok => ~s.ended
  <2>1. CASE s.ended
    <3>1. ~Shown(s).ok
      BY <2>1 DEF Shown
    <3> QED
      BY <1>4, <3>1
  <2> QED
    BY <1>1, <2>1
<1>6. s.cmds = <<>> => Out(s) = Performing!Fold(Shown(s), s.pending)
  <2>1. <<>> \o s.pending = s.pending
    BY <1>1, ConcatEmptySeq
  <2> QED
    BY <2>1 DEF Out
<1>7. s.cmds = <<>> /\ s.pending = <<>> => Out(s) = Shown(s)
  BY <1>6, Performing!FoldEmpty
<1> QED
  BY <1>3, <1>4, <1>5, <1>6, <1>7

-----------------------------------------------------------------------------
(* What is heard does what it says.                                        *)

Hears == INSTANCE FoldProofs WITH Op <- HearAndRun

LEMMA HearsAll == \A b, q : Through(HearAndRun, b, q) = Hears!Fold(b, q)
  BY DEF Through, Hears!Fold

LEMMA NewParts ==
  /\ NewClientSession \in Session /\ Good(NewClientSession)
  /\ NewClientSession.cmds = <<>> /\ NewClientSession.pending = <<>>
  /\ ~NewClientSession.ended
  /\ NewClientSession.objs = NoObjects
  /\ Out(NewClientSession) = Well(NoObjects)
<1> DEFINE s == NewClientSession
<1>1. /\ s.objs = NoObjects /\ s.cmds = <<>> /\ s.pending = <<>> /\ s.buffered = 0
      /\ s.ended = FALSE /\ s.mixed = FALSE
  BY DEF NewClientSession
<1>2. s \in Session
  <2>1. NoObjects \in Objs /\ <<>> \in Seq(Cmd)
    BY NoObjectsType, EmptySeq
  <2> QED
    BY <2>1 DEF NewClientSession, Session
<1>3. Time(<<>>) = 0
  BY Timing!FoldEmpty DEF Time
<1> HIDE DEF s
<1>4. Good(s)
  BY <1>1, <1>2, <1>3 DEF Good, NoSteps
<1>5. Shown(s) = Well(NoObjects)
  BY <1>1 DEF Shown, Well
<1>6. Out(s) = Well(NoObjects)
  BY <1>1, <1>2, <1>5, OutParts
<1> QED
  BY <1>1, <1>2, <1>4, <1>6 DEF s

LEMMA ResetParts ==
  ASSUME NEW s \in Session
  PROVE  /\ Good(Reset(s)) /\ Reset(s).ended = s.ended
         /\ Reset(s).cmds = <<>> /\ Reset(s).pending = <<>>
         /\ ~s.ended => Out(Reset(s)) = Well(NoObjects)
<1> DEFINE t == Reset(s)
           new == NewClientSession
<1>1. s.ended \in BOOLEAN /\ s.mixed \in BOOLEAN
  BY DEF Session
<1>2. new \in Session /\ Good(new) /\ new.cmds = <<>> /\ new.pending = <<>>
      /\ new.objs = NoObjects
  BY NewParts
<1>3. t = [new EXCEPT !.ended = s.ended, !.mixed = s.mixed]
  BY DEF Reset
<1> HIDE DEF new, t
<1>4. /\ t \in Session /\ t.objs = new.objs /\ t.cmds = new.cmds /\ t.pending = new.pending
      /\ t.buffered = new.buffered /\ t.ended = s.ended
  BY <1>1, <1>2, <1>3 DEF Session
<1>5. Good(t)
  BY <1>2, <1>4 DEF Good
<1>6. ASSUME ~s.ended PROVE Out(t) = Well(NoObjects)
  <2>1. Shown(t) = Well(NoObjects)
    BY <1>2, <1>4, <1>6 DEF Shown, Well
  <2> QED
    BY <1>2, <1>4, <2>1, OutParts
<1> QED
  BY <1>2, <1>4, <1>5, <1>6 DEF t

LEMMA Received ==
  ASSUME NEW s, Good(s), NEW m \in Msg
  PROVE  LET t == HandleSessionMessage(s, m) IN
         /\ Good(t) /\ t.ended = s.ended
         /\ Out(s).ok => Out(t) = PlayMsg(Out(s), m)
<1> DEFINE t == HandleSessionMessage(s, m)
           all == s.cmds \o s.pending
<1>1. s \in Session /\ all \in Seq(Cmd)
  BY ConcatProperties DEF Good, Session
<1>2. Out(s) = Performing!Fold(Shown(s), all) /\ Out(s) \in World
  BY <1>1, OutParts DEF Out
<1>3. ASSUME NEW q \in Seq(Cmd), Items(m) = q, Good(t), t.cmds \o t.pending = all \o q,
             t.objs = s.objs, t.ended = s.ended
      PROVE  Out(t) = PlayMsg(Out(s), m)
  <2>1. Shown(t) = Shown(s)
    BY <1>3 DEF Shown
  <2>2. Out(t) = Performing!Fold(Shown(s), all \o q)
    BY <1>3, <2>1 DEF Out
  <2>3. all \in Seq(Played) /\ q \in Seq(Played)
    BY <1>1, CmdIsPlayed
  <2> HIDE DEF all
  <2>4. Performing!Fold(Shown(s), all \o q) = Performing!Fold(Performing!Fold(Shown(s), all), q)
    BY <2>3, PlayedConcat
  <2> QED
    BY <1>2, <1>3, <2>2, <2>4 DEF PlayMsg
<1>4. CASE m.type = "commands"
  <2>1. m.cmds \in Seq(Cmd) /\ Items(m) = m.cmds /\ t = Through(AddCommand, s, m.cmds)
    BY <1>4, MsgParts DEF Items, HandleSessionMessage
  <2>2. /\ Good(t) /\ t.cmds \o t.pending = all \o m.cmds
        /\ t.objs = s.objs /\ t.ended = s.ended
    BY <2>1, Queued
  <2> HIDE DEF t, all
  <2> QED
    BY <1>3, <2>1, <2>2 DEF t
<1>5. CASE m.type = "correction"
  <2> DEFINE c == CorrectCmd(m.nodes)
  <2>1. c \in Cmd /\ Items(m) = <<c>> /\ t = AddCommand(s, c)
    BY <1>5, MsgParts, CorrectIsCmd DEF Items, HandleSessionMessage
  <2> HIDE DEF c
  <2>2. /\ Good(t) /\ t.cmds \o t.pending = Append(all, c)
        /\ t.objs = s.objs /\ t.ended = s.ended
    BY <2>1, AddedGood
  <2> HIDE DEF t, all
  <2>3. Append(all, c) = all \o <<c>> /\ <<c>> \in Seq(Cmd)
    BY <1>1, <2>1, AppendIsConcat
  <2> QED
    BY <1>3, <2>1, <2>2, <2>3 DEF t
<1>6. CASE m.type = "reset"
  <2>1. m = ResetMsg /\ t = Reset(s)
    BY <1>6, MsgParts DEF HandleSessionMessage
  <2>2. Good(t) /\ t.ended = s.ended /\ (~s.ended => Out(t) = Well(NoObjects))
    BY <1>1, <2>1, ResetParts
  <2>3. Out(s).ok => ~s.ended /\ PlayMsg(Out(s), m) = Well(NoObjects)
    BY <1>1, <1>2, <2>1, OutParts, PlayReset
  <2> HIDE DEF t
  <2> QED
    BY <2>2, <2>3 DEF t
<1> QED
  BY <1>4, <1>5, <1>6, MsgParts

\* Of two sessions that hear the same, if one has all of its moments so has
\* the other.
Follows(s, t) == s.pending = <<>> => t.pending = <<>>

LEMMA BothAdd ==
  ASSUME NEW s, NEW t, Good(s), Good(t), Follows(s, t), NEW c \in Cmd
  PROVE  Follows(AddCommand(s, c), AddCommand(t, c))
<1>1. s \in Session /\ t \in Session /\ s.pending \in Seq(Cmd)
  BY DEF Good, Session
<1>2. CASE c.type = "step"
  <2>1. AddCommand(t, c).pending = <<>>
    BY <1>1, <1>2 DEF AddCommand, Session
  <2> QED
    BY <2>1 DEF Follows
<1>3. CASE c.type # "step"
  <2>1. AddCommand(s, c).pending = Append(s.pending, c)
    BY <1>1, <1>3 DEF AddCommand, Session
  <2>2. Append(s.pending, c) # <<>>
    BY <1>1, AppendProperties
  <2> QED
    BY <2>1, <2>2 DEF Follows
<1> QED
  BY <1>2, <1>3

LEMMA BothHear ==
  ASSUME NEW s, NEW t, Good(s), Good(t), Follows(s, t), NEW m \in Msg
  PROVE  Follows(HandleSessionMessage(s, m), HandleSessionMessage(t, m))
<1>1. CASE m.type = "reset"
  <2>1. HandleSessionMessage(t, m) = Reset(t)
    BY <1>1 DEF HandleSessionMessage
  <2>2. Reset(t).pending = <<>>
    BY ResetParts DEF Good
  <2> QED
    BY <2>1, <2>2 DEF Follows
<1>2. CASE m.type = "correction"
  <2>1. CorrectCmd(m.nodes) \in Cmd
    BY <1>2, MsgParts, CorrectIsCmd
  <2> QED
    BY <1>2, <2>1, BothAdd DEF HandleSessionMessage
<1>3. CASE m.type = "commands"
  <2> DEFINE q == m.cmds
             G == {x \in Session : Good(x)}
             R == {pair \in G \X G : Follows(pair[1], pair[2])}
  <2>1. q \in Seq(Cmd)
    BY <1>3, MsgParts
  <2>2. <<s, t>> \in R
    BY DEF Good
  <2>3. ASSUME NEW a, NEW b, NEW i \in 1 .. Len(q), <<a, b>> \in R
        PROVE  <<AddCommand(a, q[i]), AddCommand(b, q[i])>> \in R
    <3>1. Good(a) /\ Good(b) /\ Follows(a, b) /\ q[i] \in Cmd
      BY <2>1, <2>3, ElementOfSeq
    <3>2. /\ Good(AddCommand(a, q[i])) /\ Good(AddCommand(b, q[i]))
          /\ Follows(AddCommand(a, q[i]), AddCommand(b, q[i]))
      BY <3>1, AddedGood, BothAdd
    <3>3. \A x : Good(x) => x \in Session
      BY DEF Good
    <3> QED
      BY <3>2, <3>3
  <2> HIDE DEF R, q
  <2>4. <<Adding!Fold(s, q), Adding!Fold(t, q)>> \in R
    BY <2>1, <2>2, <2>3, Adding!FoldRelates
  <2>5. Follows(Adding!Fold(s, q), Adding!Fold(t, q))
    BY <2>4 DEF R
  <2>6. HandleSessionMessage(s, m) = Adding!Fold(s, q)
        /\ HandleSessionMessage(t, m) = Adding!Fold(t, q)
    BY <1>3, AddedAll DEF HandleSessionMessage, q
  <2> QED
    BY <2>5, <2>6
<1> QED
  BY <1>1, <1>2, <1>3, MsgParts

\* What is left when all that is complete has run has no time.
LEMMA RestRuns ==
  ASSUME NEW s \in Session, s.cmds = <<>>, NoSteps(s.pending)
  PROVE  LET rest == Through(RunCommand, s, s.pending)
         IN [objs |-> rest.objs, ended |-> rest.ended] =
              [objs |-> Out(s).objs, ended |-> ~Out(s).ok]
<1> DEFINE rest == Running!Fold(s, s.pending)
<1>1. s.pending \in Seq(Cmd) /\ s.buffered \in Nat
  BY DEF Session
<1>2. Time(s.pending) = 0
  BY <1>1, TimedQuiet DEF Time
<1>3. Time(s.pending) <= s.buffered
  BY <1>1, <1>2
<1>4. rest \in Session /\ Shown(rest) = Performing!Fold(Shown(s), s.pending)
  BY <1>1, <1>3, Ran
<1>5. Out(s) = Shown(rest)
  BY <1>4, OutParts
<1> HIDE DEF rest
<1>6. rest.ended \in BOOLEAN
  BY <1>4 DEF Session
<1>7. Out(s).objs = rest.objs /\ Out(s).ok = ~rest.ended
  BY <1>5 DEF Shown
<1>8. rest.ended = ~Out(s).ok
  BY <1>6, <1>7
<1> QED
  BY <1>7, <1>8, RanAll DEF rest

LEMMA OneHeard ==
  ASSUME NEW s, Good(s), Out(s).ok, NEW m \in Msg
  PROVE  LET t == HearAndRun(s, m) IN
         /\ t \in Session /\ t.cmds = <<>> /\ NoSteps(t.pending)
         /\ t.pending = HandleSessionMessage(s, m).pending
         /\ Out(t) = PlayMsg(Out(s), m)
         /\ Out(t).ok => Good(t)
<1> DEFINE h == HandleSessionMessage(s, m)
           t == HearAndRun(s, m)
<1>1. Good(h) /\ Out(h) = PlayMsg(Out(s), m)
  BY Received
<1>2. t = Update(h, Len(h.cmds))
  BY DEF HearAndRun
<1> HIDE DEF h, t
<1>3. h \in Session /\ NoSteps(h.pending) /\ h.cmds \in Seq(Cmd)
  BY <1>1 DEF Good, Session
<1>4. Len(h.cmds) \in 0 .. Len(h.cmds)
  BY <1>3, LenProperties
<1>5. /\ t \in Session /\ t.pending = h.pending /\ t.cmds = <<>>
      /\ Out(t) = Out(h) /\ (~t.ended => Good(t))
  BY <1>1, <1>2, <1>4, Updated
<1>6. Out(t).ok => Good(t)
  BY <1>5, OutParts
<1>7. /\ t \in Session /\ t.cmds = <<>> /\ NoSteps(t.pending)
      /\ t.pending = h.pending
      /\ Out(t) = PlayMsg(Out(s), m)
      /\ (Out(t).ok => Good(t))
  BY <1>1, <1>3, <1>5, <1>6
<1> QED
  BY <1>7 DEF h, t

LEMMA WellBefore ==
  ASSUME NEW w \in World, NEW q \in Seq(Msg), NEW m \in Msg
  PROVE  /\ Hearing!Fold(w, q) \in World
         /\ Hearing!Fold(w, Append(q, m)) = PlayMsg(Hearing!Fold(w, q), m)
         /\ PlayMsg(Hearing!Fold(w, q), m).ok => Hearing!Fold(w, q).ok
<1>1. Hearing!Fold(w, Append(q, m)) = PlayMsg(Hearing!Fold(w, q), m)
  BY Hearing!FoldAppend
<1>2. Hearing!Fold(w, q) \in World
  BY HeardType
<1> QED
  BY <1>1, <1>2, HeardMsg

LEMMA AllHeard ==
  ASSUME NEW s, Good(s), s.cmds = <<>>, NEW q \in Seq(Msg), Hearing!Fold(Out(s), q).ok
  PROVE  LET t == Hears!Fold(s, q) IN
         /\ Good(t) /\ t.cmds = <<>>
         /\ Out(t) = Hearing!Fold(Out(s), q)
<1> DEFINE F(p) == Hearing!Fold(Out(s), p)
           h(p) == Hears!Fold(s, p)
           Is(p, t) == Good(t) /\ t.cmds = <<>> /\ Out(t) = F(p)
           T == {p \in Seq(Msg) : F(p).ok => Is(p, h(p))}
<1>1. Out(s) \in World
  BY OutParts DEF Good
<1>2. <<>> \in T
  <2>1. F(<<>>) = Out(s) /\ h(<<>>) = s
    BY Hearing!FoldEmpty, Hears!FoldEmpty
  <2> QED
    BY <2>1, EmptySeq
<1>3. ASSUME NEW p \in Seq(Msg), NEW x \in Msg, p \in T PROVE Append(p, x) \in T
  <2> DEFINE px == Append(p, x)
             t == h(p)
  <2>1. px \in Seq(Msg)
    BY AppendProperties
  <2>2. h(px) = HearAndRun(t, x)
    BY Hears!FoldAppend
  <2>3. F(px) = PlayMsg(F(p), x) /\ (F(px).ok => F(p).ok)
    BY <1>1, WellBefore
  <2> HIDE DEF F, h, px
  <2> SUFFICES ASSUME F(px).ok PROVE Is(px, h(px))
    BY <2>1 DEF px
  <2>4. Is(p, t) /\ F(p).ok
    BY <1>3, <2>3
  <2> HIDE DEF t
  <2>5. LET u == HearAndRun(t, x) IN u.cmds = <<>> /\ Out(u) = PlayMsg(Out(t), x)
                                     /\ (Out(u).ok => Good(u))
    BY <2>4, OneHeard
  <2> QED
    BY <2>2, <2>3, <2>4, <2>5
<1>4. q \in T
  <2> HIDE DEF T
  <2> QED
    BY <1>2, <1>3, SequenceInduction
<1> QED
  BY <1>4

\* What comes of a session and messages, all going well ...
LEMMA OutcomeThen ==
  ASSUME NEW s, Good(s), NEW q \in Seq(Msg), Hearing!Fold(Out(s), q).ok
  PROVE  Outcome(s, q) = [objs |-> Hearing!Fold(Out(s), q).objs, ended |-> FALSE]
<1> DEFINE u == Update(s, Len(s.cmds))
           t == Hears!Fold(u, q)
<1>1. s.cmds \in Seq(Cmd) /\ Out(s) \in World
  BY OutParts DEF Good, Session
<1>2. Out(s).ok
  BY <1>1, HeardType
<1>3. Len(s.cmds) \in 0 .. Len(s.cmds)
  BY <1>1, LenProperties
<1>4. u \in Session /\ u.cmds = <<>> /\ Out(u) = Out(s) /\ (~u.ended => Good(u))
  BY <1>3, Updated
<1> HIDE DEF u
<1>5. Good(u)
  BY <1>2, <1>4, OutParts
<1>6. Good(t) /\ t.cmds = <<>> /\ Out(t) = Hearing!Fold(Out(s), q)
  BY <1>4, <1>5, AllHeard
<1> DEFINE rest == Through(RunCommand, t, t.pending)
<1>7. Outcome(s, q) = [objs |-> rest.objs, ended |-> rest.ended]
  BY HearsAll DEF Outcome, u
<1> HIDE DEF t
<1>8. [objs |-> rest.objs, ended |-> rest.ended] = [objs |-> Out(t).objs, ended |-> ~Out(t).ok]
  BY <1>6, RestRuns DEF Good
<1>9. ~Out(t).ok = FALSE
  BY <1>6
<1> QED
  BY <1>6, <1>7, <1>8, <1>9

\* ... and when it is the last of them that may not.
LEMMA OutcomeLast ==
  ASSUME NEW s, Good(s), NEW q \in Seq(Msg), Hearing!Fold(Out(s), q).ok, NEW m \in Msg
  PROVE  Outcome(s, Append(q, m)).ended = ~PlayMsg(Hearing!Fold(Out(s), q), m).ok
<1> DEFINE u == Update(s, Len(s.cmds))
           v == Hears!Fold(u, q)
           t == HearAndRun(v, m)
<1>1. s.cmds \in Seq(Cmd) /\ Out(s) \in World
  BY OutParts DEF Good, Session
<1>2. Out(s).ok
  BY <1>1, HeardType
<1>3. Len(s.cmds) \in 0 .. Len(s.cmds)
  BY <1>1, LenProperties
<1>4. u \in Session /\ u.cmds = <<>> /\ Out(u) = Out(s) /\ (~u.ended => Good(u))
  BY <1>3, Updated
<1> HIDE DEF u
<1>5. Good(u)
  BY <1>2, <1>4, OutParts
<1>6. Good(v) /\ Out(v) = Hearing!Fold(Out(s), q)
  BY <1>4, <1>5, AllHeard
<1> DEFINE rest == Through(RunCommand, t, t.pending)
<1>7. Outcome(s, Append(q, m)) = [objs |-> rest.objs, ended |-> rest.ended]
  <2>1. Hears!Fold(u, Append(q, m)) = t
    BY Hears!FoldAppend
  <2> QED
    BY <2>1, HearsAll DEF Outcome, u
<1> HIDE DEF v
<1>8. t \in Session /\ t.cmds = <<>> /\ NoSteps(t.pending) /\ Out(t) = PlayMsg(Out(v), m)
  BY <1>6, OneHeard
<1> HIDE DEF t
<1>9. [objs |-> rest.objs, ended |-> rest.ended] = [objs |-> Out(t).objs, ended |-> ~Out(t).ok]
  BY <1>8, RestRuns
<1>10. Outcome(s, Append(q, m)).ended = ~Out(t).ok
  BY <1>7, <1>9
<1> QED
  BY <1>6, <1>8, <1>10

-----------------------------------------------------------------------------
(* What works when it is recorded plays.                                   *)

Cast(msgs) == Hearing!Fold(Well(NoObjects), msgs)

LEMMA CastParts ==
  /\ Well(NoObjects) \in World
  /\ Cast(<<>>) = Well(NoObjects)
  /\ \A q \in Seq(Msg), m \in Msg : Cast(Append(q, m)) = PlayMsg(Cast(q), m)
  /\ \A q \in Seq(Msg) : Cast(q) \in World
<1>1. Well(NoObjects) \in World
  BY NoObjectsType DEF Well, World
<1>2. Cast(<<>>) = Well(NoObjects)
  BY Hearing!FoldEmpty DEF Cast
<1>3. \A q \in Seq(Msg), m \in Msg : Cast(Append(q, m)) = PlayMsg(Cast(q), m)
  BY <1>1, WellBefore DEF Cast
<1>4. \A q \in Seq(Msg) : Cast(q) \in World
  BY <1>1, HeardType DEF Cast
<1> QED
  BY <1>1, <1>2, <1>3, <1>4

\* The first messages and one more.
LEMMA OneMore ==
  ASSUME NEW S, NEW q \in Seq(S), NEW n \in 0 .. (Len(q) - 1)
  PROVE  /\ SubSeq(q, 1, n) \in Seq(S) /\ Len(SubSeq(q, 1, n)) = n
         /\ q[n + 1] \in S
         /\ SubSeq(q, 1, n + 1) = Append(SubSeq(q, 1, n), q[n + 1])
<1> DEFINE a == SubSeq(q, 1, n)
           b == SubSeq(q, 1, n + 1)
           x == q[n + 1]
<1>1. /\ Len(q) \in Nat /\ n \in Nat /\ n + 1 \in 1 .. Len(q)
      /\ \A i \in 1 .. Len(q) : q[i] \in S
  BY ElementOfSeq
<1>2. a \in Seq(S) /\ Len(a) = n /\ \A i \in 1 .. n : a[i] = q[i]
  BY <1>1, SubSeqProperties
<1>3. b \in Seq(S) /\ Len(b) = n + 1 /\ \A i \in 1 .. n + 1 : b[i] = q[i]
  BY <1>1, SubSeqProperties
<1>4. x \in S
  BY <1>1
<1> HIDE DEF a, b
<1>5. /\ Append(a, x) \in Seq(S) /\ Len(Append(a, x)) = n + 1
      /\ \A i \in 1 .. n : Append(a, x)[i] = a[i]
      /\ Append(a, x)[n + 1] = x
  BY <1>2, <1>4, AppendProperties
<1>6. \A i \in 1 .. n + 1 : b[i] = Append(a, x)[i]
  BY <1>1, <1>2, <1>3, <1>5
<1>7. b = Append(a, x)
  BY <1>3, <1>5, <1>6, SeqEqual
<1> QED
  BY <1>2, <1>4, <1>7 DEF a, b

LEMMA WorksWell ==
  ASSUME NEW q \in Seq(Msg), \A n \in 0 .. Len(q) : Works(SubSeq(q, 1, n))
  PROVE  /\ Cast(q).ok
         /\ Good(Heard(q)) /\ Heard(q).cmds = <<>>
         /\ Out(Heard(q)) = Cast(q)
         /\ Heard(q).pending = <<>> => Cast(q) = Well(Heard(q).objs) /\ Homes(Heard(q).objs)
<1> DEFINE N == Len(q)
           new == NewClientSession
           T == {n \in 0 .. N : Cast(SubSeq(q, 1, n)).ok}
<1>1. N \in Nat /\ Good(new) /\ new.cmds = <<>> /\ Out(new) = Well(NoObjects)
  BY LenProperties, NewParts
<1>2. 0 \in T
  <2>1. SubSeq(q, 1, 0) = <<>>
    BY SubSeqEmpty
  <2>2. Well(NoObjects).ok
    BY DEF Well
  <2>3. Cast(SubSeq(q, 1, 0)) = Well(NoObjects)
    BY <2>1, CastParts
  <2>4. 0 \in 0 .. N
    BY <1>1
  <2> HIDE DEF N
  <2> QED
    BY <2>2, <2>3, <2>4
<1>3. ASSUME NEW n \in 0 .. (N - 1), n \in T PROVE n + 1 \in T
  <2> DEFINE p == SubSeq(q, 1, n)
             m == q[n + 1]
             px == SubSeq(q, 1, n + 1)
  <2>1. p \in Seq(Msg) /\ m \in Msg /\ px = Append(p, m)
    BY OneMore
  <2>2. n + 1 \in 0 .. N
    BY <1>1
  <2>3. ~Outcome(new, px).ended
    BY <2>2 DEF Works
  <2>4. Cast(p).ok
    BY <1>3
  <2> HIDE DEF p, m, px, new
  <2>5. Outcome(new, Append(p, m)).ended = ~PlayMsg(Cast(p), m).ok
    BY <1>1, <2>1, <2>4, OutcomeLast DEF Cast
  <2>6. Cast(px) = PlayMsg(Cast(p), m)
    BY <2>1, CastParts
  <2>7. Cast(px).ok
    BY <2>1, <2>3, <2>5, <2>6
  <2> QED
    BY <2>2, <2>7 DEF px
<1>4. N \in T
  <2>1. \A n \in 0 .. N : n \in T
    <3> HIDE DEF T, N
    <3> QED
      BY <1>1, <1>2, <1>3, Hearing!Induction
  <2> QED
    BY <1>1, <2>1
<1>5. SubSeq(q, 1, N) = q
  BY SubSeqFull
<1>6. Cast(q).ok
  BY <1>4, <1>5
<1>7. Heard(q) = Hears!Fold(new, q)
  BY HearsAll DEF Heard
<1>8. Good(Heard(q)) /\ Heard(q).cmds = <<>> /\ Out(Heard(q)) = Cast(q)
  <2> HIDE DEF new
  <2>1. Hearing!Fold(Out(new), q).ok
    BY <1>1, <1>6 DEF Cast
  <2> QED
    BY <1>1, <1>7, <2>1, AllHeard DEF Cast
<1>9. ASSUME Heard(q).pending = <<>>
      PROVE  Cast(q) = Well(Heard(q).objs) /\ Homes(Heard(q).objs)
  <2> DEFINE h == Heard(q)
  <2>1. Works(q)
    <3>1. N \in 0 .. N
      BY <1>1
    <3>2. Works(SubSeq(q, 1, N))
      BY <3>1
    <3> QED
      BY <1>5, <3>2
  <2>2. Homes(h.objs)
    BY <1>9, <2>1 DEF Works
  <2>3. h \in Session /\ h.cmds = <<>> /\ h.pending = <<>> /\ Out(h) = Cast(q) /\ Cast(q).ok
    BY <1>6, <1>8, <1>9 DEF Good
  <2> HIDE DEF h
  <2>4. Cast(q) = Shown(h) /\ ~h.ended
    BY <2>3, OutParts
  <2>5. Cast(q) = Well(h.objs)
    <3>1. h.ended = FALSE
      BY <2>3, <2>4 DEF Session
    <3> QED
      BY <2>4, <3>1 DEF Shown, Well
  <2> QED
    BY <2>2, <2>5 DEF h
<1> QED
  BY <1>6, <1>8, <1>9

LEMMA HeardMore ==
  ASSUME NEW q \in Seq(Msg), NEW m \in Msg
  PROVE  Heard(Append(q, m)) = HearAndRun(Heard(q), m)
<1>1. Hears!Fold(NewClientSession, Append(q, m)) = HearAndRun(Hears!Fold(NewClientSession, q), m)
  BY Hears!FoldAppend
<1> QED
  BY <1>1, HearsAll DEF Heard

LEMMA NothingHeard == Heard(<<>>) = NewClientSession
  BY HearsAll, Hears!FoldEmpty DEF Heard

\* Nothing plays.
LEMMA NothingWorks == Works(<<>>)
<1>1. Hearing!Fold(Out(NewClientSession), <<>>) = Well(NoObjects)
  BY Hearing!FoldEmpty, NewParts
<1>2. Well(NoObjects).ok
  BY DEF Well
<1>3. ~Outcome(NewClientSession, <<>>).ended
  <2> DEFINE new == NewClientSession
             none == <<>>
  <2>1. none \in Seq(Msg)
    BY EmptySeq
  <2>2. Good(new) /\ Hearing!Fold(Out(new), none).ok
    BY <1>1, <1>2, NewParts
  <2> HIDE DEF new, none
  <2>3. Outcome(new, none) = [objs |-> Hearing!Fold(Out(new), none).objs, ended |-> FALSE]
    BY <2>1, <2>2, OutcomeThen
  <2>4. ~Outcome(new, none).ended
    BY <2>3
  <2> QED
    BY <2>4 DEF new, none
<1>4. Homes(NoObjects)
  BY NoObjectsType DEF Homes
<1> QED
  BY <1>3, <1>4, NothingHeard, NewParts DEF Works

-----------------------------------------------------------------------------
(* A session that tells of itself makes another like it.                   *)

Elems(p) == {p[i] : i \in DOMAIN p}

LEMMA InOrder ==
  ASSUME NEW S, IsFiniteSet(S)
  PROVE  LET seq == SetToSeq(S) IN
         /\ seq \in Seq(S)
         /\ DOMAIN seq = 1 .. Len(seq)
         /\ \A i, j \in DOMAIN seq : seq[i] = seq[j] => i = j
         /\ {seq[i] : i \in DOMAIN seq} = S
<1> DEFINE n == Cardinality(S)
           seq == SetToSeq(S)
<1>1. n \in Nat /\ ExistsBijection(1 .. n, S)
  BY FS_CardinalityType
<1>2. PICK f : f \in [1 .. n -> S] /\ IsInjective(f)
  BY <1>1 DEF ExistsBijection, Bijection, Injection
<1>3. seq \in [1 .. n -> S] /\ IsInjective(seq)
  BY <1>2 DEF SetToSeq
<1> HIDE DEF n, seq
<1>4. seq \in Seq(S) /\ Len(seq) = n /\ DOMAIN seq = 1 .. n
  BY <1>1, <1>3, IsASeq
<1>5. seq \in Surjection(1 .. n, S)
  <2>1. seq \in Injection(1 .. n, S)
    BY <1>3 DEF Injection
  <2>2. Cardinality(1 .. n) = n
    <3>1. ExistsBijection(1 .. n, 1 .. n)
      <4>1. [i \in 1 .. n |-> i] \in Bijection(1 .. n, 1 .. n)
        BY DEF Bijection, Injection, Surjection, IsInjective
      <4> QED
        BY <4>1 DEF ExistsBijection
    <3> QED
      BY <1>1, <3>1, FS_CountingElements
  <2> QED
    BY <2>1, <2>2, FS_Injection DEF n
<1> QED
  BY <1>3, <1>4, <1>5 DEF IsInjective, Surjection, seq

LEMMA Joined ==
  ASSUME NEW D, NEW p \in Seq(D), NEW q \in Seq(D),
         \A i, j \in DOMAIN p : p[i] = p[j] => i = j,
         \A i, j \in DOMAIN q : q[i] = q[j] => i = j,
         Elems(p) \cap Elems(q) = {}
  PROVE  /\ p \o q \in Seq(D)
         /\ \A i, j \in DOMAIN (p \o q) : (p \o q)[i] = (p \o q)[j] => i = j
         /\ Elems(p \o q) = Elems(p) \cup Elems(q)
<1> DEFINE m == Len(p)
           n == Len(q)
           pq == p \o q
<1>1. m \in Nat /\ n \in Nat /\ DOMAIN p = 1 .. m /\ DOMAIN q = 1 .. n
  BY LenProperties
<1>2. /\ pq \in Seq(D) /\ Len(pq) = m + n
      /\ \A i \in 1 .. m + n : pq[i] = IF i <= m THEN p[i] ELSE q[i - m]
  BY ConcatProperties
<1> HIDE DEF m, n, pq
<1>3. DOMAIN pq = 1 .. m + n
  BY <1>2, LenProperties
<1>4. \A i \in 1 .. m + n :
        (i \in 1 .. m /\ pq[i] = p[i]) \/ (i - m \in 1 .. n /\ pq[i] = q[i - m])
  <2> TAKE i \in 1 .. m + n
  <2>1. CASE i <= m
    <3>1. i \in 1 .. m
      BY <1>1, <2>1
    <3>2. pq[i] = p[i]
      BY <1>2, <2>1
    <3> QED
      BY <3>1, <3>2
  <2>2. CASE ~(i <= m)
    <3>1. i - m \in 1 .. n
      BY <1>1, <2>2
    <3>2. pq[i] = q[i - m]
      BY <1>2, <2>2
    <3> QED
      BY <3>1, <3>2
  <2> QED
    BY <2>1, <2>2
<1>5. \A i \in 1 .. m : i \in 1 .. m + n /\ pq[i] = p[i]
  BY <1>1, <1>2
<1>6. \A i \in 1 .. n : i + m \in 1 .. m + n /\ pq[i + m] = q[i]
  <2> TAKE i \in 1 .. n
  <2>1. i + m \in 1 .. m + n /\ ~(i + m <= m) /\ (i + m) - m = i
    BY <1>1
  <2> QED
    BY <1>2, <2>1
<1>7. \A i \in 1 .. m, j \in 1 .. n : p[i] # q[j]
  BY <1>1 DEF Elems
<1>8. ASSUME NEW i \in 1 .. m + n, NEW j \in 1 .. m + n, pq[i] = pq[j] PROVE i = j
  <2>1. CASE i \in 1 .. m /\ pq[i] = p[i] /\ j \in 1 .. m /\ pq[j] = p[j]
    BY <1>1, <1>8, <2>1
  <2>2. CASE i - m \in 1 .. n /\ pq[i] = q[i - m] /\ j - m \in 1 .. n /\ pq[j] = q[j - m]
    <3>1. i - m = j - m
      BY <1>1, <1>8, <2>2
    <3> QED
      BY <1>1, <3>1
  <2>3. CASE i \in 1 .. m /\ pq[i] = p[i] /\ j - m \in 1 .. n /\ pq[j] = q[j - m]
    BY <1>7, <1>8, <2>3
  <2>4. CASE i - m \in 1 .. n /\ pq[i] = q[i - m] /\ j \in 1 .. m /\ pq[j] = p[j]
    BY <1>7, <1>8, <2>4
  <2> QED
    BY <1>4, <2>1, <2>2, <2>3, <2>4
<1>9. Elems(pq) = Elems(p) \cup Elems(q)
  <2>1. ASSUME NEW e \in Elems(pq) PROVE e \in Elems(p) \cup Elems(q)
    <3>1. PICK i \in 1 .. m + n : e = pq[i]
      BY <1>3 DEF Elems
    <3>2. CASE i \in 1 .. m /\ pq[i] = p[i]
      BY <1>1, <3>1, <3>2 DEF Elems
    <3>3. CASE i - m \in 1 .. n /\ pq[i] = q[i - m]
      BY <1>1, <3>1, <3>3 DEF Elems
    <3> QED
      BY <1>4, <3>2, <3>3
  <2>2. ASSUME NEW e \in Elems(p) PROVE e \in Elems(pq)
    <3>1. PICK i \in 1 .. m : e = p[i]
      BY <1>1 DEF Elems
    <3>2. i \in DOMAIN pq /\ e = pq[i]
      BY <1>1, <1>3, <1>5, <3>1
    <3> QED
      BY <3>2 DEF Elems
  <2>3. ASSUME NEW e \in Elems(q) PROVE e \in Elems(pq)
    <3>1. PICK i \in 1 .. n : e = q[i]
      BY <1>1 DEF Elems
    <3>2. i + m \in DOMAIN pq /\ e = pq[i + m]
      BY <1>1, <1>3, <1>6, <3>1
    <3> QED
      BY <3>2 DEF Elems
  <2> QED
    BY <2>1, <2>2, <2>3
<1> QED
  BY <1>2, <1>3, <1>8, <1>9 DEF pq

Bare(object) == [object EXCEPT !.ref = None]

\* A part of what there is, with a part of it bound.
Build(objs, there, bound) ==
  [n \in there |-> IF n \in bound THEN objs[n] ELSE Bare(objs[n])]

Adds(objs, p) ==
  [i \in DOMAIN p |-> AddCmd(p[i], Bare(objs[p[i]]))]
Sets(objs, p) == [i \in DOMAIN p |-> SetCmd(p[i], objs[p[i]].ref)]

LEMMA Unref ==
  ASSUME NEW object \in Obj
  PROVE  /\ Bare(object) \in Obj
         /\ \A ref \in Ref : [object EXCEPT !.ref = ref] \in Obj
         /\ [Bare(object) EXCEPT !.ref = object.ref] = object
         /\ [object EXCEPT !.ref = object.ref] = object
         /\ object.ref = None => Bare(object) = object
         /\ Bare(object).in = object.in
         /\ object.ref \in Ref /\ object.in \in Ref
<1>1. None \in Ref
  BY DEF Ref
<1>2. object = [what |-> object.what, in |-> object.in, ref |-> object.ref]
  BY DEF Obj
<1> QED
  BY <1>1, <1>2 DEF Obj, Bare

LEMMA BuildType ==
  ASSUME NEW objs \in Objs, NEW there \in SUBSET DOMAIN objs, NEW bound
  PROVE  /\ Build(objs, there, bound) \in Objs
         /\ DOMAIN Build(objs, there, bound) = there
         /\ \A n \in there : Build(objs, there, bound)[n] =
              IF n \in bound THEN objs[n] ELSE Bare(objs[n])
<1> DEFINE b == Build(objs, there, bound)
<1>1. /\ DOMAIN b = there
      /\ \A n \in there : b[n] = IF n \in bound THEN objs[n] ELSE Bare(objs[n])
      /\ b = [n \in there |-> b[n]]
  BY DEF Build
<1>2. there \in SUBSET Slot /\ \A n \in there : objs[n] \in Obj
  BY ObjsParts
<1> HIDE DEF b
<1>3. \A n \in there : b[n] \in Obj
  <2> TAKE n \in there
  <2>1. objs[n] \in Obj /\ Bare(objs[n]) \in Obj
    BY <1>2, Unref
  <2> QED
    BY <1>1, <2>1
<1>4. IsFiniteSet(there)
  BY ObjsParts, FS_Subset
<1>5. b \in Objs
  BY <1>1, <1>2, <1>3, <1>4, ObjsMade
<1> QED
  BY <1>1, <1>5 DEF b

LEMMA BuildAdd ==
  ASSUME NEW objs \in Objs, NEW there \in SUBSET DOMAIN objs, NEW bound \in SUBSET there,
         NEW x \in DOMAIN objs \ there
  PROVE  Filled(Build(objs, there, bound), x, Bare(objs[x]))
           = Build(objs, there \cup {x}, bound)
<1> DEFINE a == Build(objs, there, bound)
           b == Build(objs, there \cup {x}, bound)
           o == Bare(objs[x])
           f == Filled(a, x, o)
<1>1. x \in Slot /\ objs[x] \in Obj /\ o \in Obj
  BY ObjsParts, Unref
<1>2. /\ a \in Objs /\ DOMAIN a = there
      /\ \A n \in there : a[n] = IF n \in bound THEN objs[n] ELSE Bare(objs[n])
  BY BuildType
<1>3. /\ b \in Objs /\ DOMAIN b = there \cup {x}
      /\ \A n \in there \cup {x} :
           b[n] = IF n \in bound THEN objs[n] ELSE Bare(objs[n])
  <2> DEFINE more == there \cup {x}
  <2>1. more \in SUBSET DOMAIN objs
    OBVIOUS
  <2> HIDE DEF more
  <2>2. /\ Build(objs, more, bound) \in Objs /\ DOMAIN Build(objs, more, bound) = more
        /\ \A n \in more : Build(objs, more, bound)[n] =
             IF n \in bound THEN objs[n] ELSE Bare(objs[n])
    BY <2>1, BuildType
  <2> QED
    BY <2>2 DEF more
<1> HIDE DEF a, b
<1>4. f \in Objs /\ DOMAIN f = there \cup {x}
  BY <1>1, <1>2, Added
<1>5. \A n \in there \cup {x} : f[n] = IF n = x THEN o ELSE a[n]
  BY <1>2 DEF Filled
<1> HIDE DEF f
<1>6. \A n \in there \cup {x} : f[n] = b[n]
  BY <1>2, <1>3, <1>5
<1>7. f = b
  BY <1>3, <1>4, <1>6, ObjsEqual
<1> QED
  BY <1>7 DEF f, a, b

LEMMA BuildSet ==
  ASSUME NEW objs \in Objs, NEW there \in SUBSET DOMAIN objs, NEW bound, NEW x \in there
  PROVE  Effect(Build(objs, there, bound), SetCmd(x, objs[x].ref))
           = Build(objs, there, bound \cup {x})
<1> DEFINE a == Build(objs, there, bound)
           b == Build(objs, there, bound \cup {x})
           f == [a EXCEPT ![x].ref = objs[x].ref]
<1>1. \A n \in DOMAIN objs : objs[n] \in Obj
  BY ObjsParts
<1>2. /\ a \in Objs /\ DOMAIN a = there
      /\ \A n \in there : a[n] = IF n \in bound THEN objs[n] ELSE Bare(objs[n])
  BY BuildType
<1>3. /\ b \in Objs /\ DOMAIN b = there
      /\ \A n \in there :
           b[n] = IF n \in bound \cup {x} THEN objs[n] ELSE Bare(objs[n])
  BY BuildType
<1>4. objs[x].ref \in Ref
  BY <1>1, Unref
<1> HIDE DEF a, b
<1>5. /\ f \in Objs /\ DOMAIN f = there
      /\ \A n \in there : f[n] = IF n = x THEN [a[n] EXCEPT !.ref = objs[x].ref] ELSE a[n]
  BY <1>2, <1>4, Rebound
<1> HIDE DEF f
<1>6. ASSUME NEW n \in there PROVE f[n] = b[n]
  <2>1. CASE n # x
    BY <1>2, <1>3, <1>5, <2>1
  <2>2. CASE n = x
    <3>1. b[n] = objs[n] /\ f[n] = [a[n] EXCEPT !.ref = objs[n].ref]
      BY <1>3, <1>5, <2>2
    <3>2. objs[n] \in Obj
      BY <1>1
    <3>3. CASE n \in bound
      <4>1. a[n] = objs[n]
        BY <1>2, <3>3
      <4> QED
        BY <3>1, <3>2, <4>1, Unref
    <3>4. CASE n \notin bound
      <4>1. a[n] = Bare(objs[n])
        BY <1>2, <3>4
      <4> QED
        BY <3>1, <3>2, <4>1, Unref
    <3> QED
      BY <3>3, <3>4
  <2> QED
    BY <2>1, <2>2
<1>7. f = b
  BY <1>3, <1>5, <1>6, ObjsEqual
<1>8. Effect(a, SetCmd(x, objs[x].ref)) = f
  BY DEF Effect, SetCmd, f
<1> QED
  BY <1>7, <1>8 DEF a, b

LEMMA BuildWhole ==
  ASSUME NEW objs \in Objs, NEW there \in SUBSET DOMAIN objs, NEW bound,
         \A n \in there : n \in bound \/ objs[n].ref = None
  PROVE  Build(objs, there, bound) = Build(objs, there, there)
<1>1. ASSUME NEW n \in there PROVE n \notin bound => Bare(objs[n]) = objs[n]
  <2>1. objs[n] \in Obj
    BY ObjsParts
  <2> QED
    BY <2>1, Unref
<1> QED
  BY <1>1 DEF Build

LEMMA AddsAppend ==
  ASSUME NEW objs, NEW S, NEW p \in Seq(S), NEW x \in S
  PROVE  Adds(objs, Append(p, x)) =
           Append(Adds(objs, p), AddCmd(x, Bare(objs[x])))
  BY DEF Adds

LEMMA SetsAppend ==
  ASSUME NEW objs, NEW S, NEW p \in Seq(S), NEW x \in S
  PROVE  Sets(objs, Append(p, x)) = Append(Sets(objs, p), SetCmd(x, objs[x].ref))
  BY DEF Sets

LEMMA AddsConcat ==
  ASSUME NEW objs, NEW S, NEW p \in Seq(S), NEW q \in Seq(S)
  PROVE  Adds(objs, p \o q) = Adds(objs, p) \o Adds(objs, q)
  BY DEF Adds

LEMMA DumpCmds ==
  ASSUME NEW objs \in Objs, NEW p \in Seq(DOMAIN objs)
  PROVE  Adds(objs, p) \in Seq(Cmd) /\ Sets(objs, p) \in Seq(Cmd)
<1>1. ASSUME NEW x \in DOMAIN objs
      PROVE  /\ AddCmd(x, Bare(objs[x])) \in Cmd
             /\ SetCmd(x, objs[x].ref) \in Cmd
  <2>1. x \in Slot /\ objs[x] \in Obj
    BY ObjsParts
  <2>2. Bare(objs[x]) \in Obj /\ objs[x].ref \in Ref
    BY <2>1, Unref
  <2> QED
    BY <2>1, <2>2 DEF AddCmd, SetCmd, Cmd
<1>2. DOMAIN p = 1 .. Len(p) /\ Len(p) \in Nat /\ \A i \in 1 .. Len(p) : p[i] \in DOMAIN objs
  BY LenProperties, ElementOfSeq
<1>3. Adds(objs, p) \in [1 .. Len(p) -> Cmd] /\ Sets(objs, p) \in [1 .. Len(p) -> Cmd]
  BY <1>1, <1>2 DEF Adds, Sets
<1> QED
  BY <1>2, <1>3 DEF Seq

LEMMA PlayFits ==
  ASSUME NEW objs, NEW c, Fits(objs, c)
  PROVE  Play(Well(objs), c) = Well(Effect(objs, c))
  BY DEF Play, Well

\* Each is new, and what it is in was there before.
Fresh(objs, there, p) ==
  /\ \A i, j \in DOMAIN p : p[i] = p[j] => i = j
  /\ \A i \in DOMAIN p :
       /\ p[i] \notin there
       /\ Kind(p[i]) # "scene" => objs[p[i]].in \in there

LEMMA FreshAppend ==
  ASSUME NEW objs, NEW there, NEW D, NEW p \in Seq(D), NEW x \in D,
         Fresh(objs, there, Append(p, x))
  PROVE  /\ Fresh(objs, there, p)
         /\ x \notin Elems(p) /\ x \notin there
         /\ Kind(x) # "scene" => objs[x].in \in there
         /\ Elems(Append(p, x)) = Elems(p) \cup {x}
<1> DEFINE n == Len(p)
           px == Append(p, x)
<1>1. n \in Nat /\ DOMAIN p = 1 .. n
  BY LenProperties
<1>2. /\ Len(px) = n + 1 /\ px \in Seq(D)
      /\ \A i \in 1 .. n : px[i] = p[i]
      /\ px[n + 1] = x
  BY AppendProperties
<1>3. Fresh(objs, there, px)
  OBVIOUS
<1> HIDE DEF px, n
<1>4. DOMAIN px = 1 .. (n + 1)
  BY <1>2, LenProperties
<1>5. \A i \in 1 .. n : i \in 1 .. (n + 1) /\ i # n + 1
  BY <1>1
<1>6. n + 1 \in 1 .. (n + 1)
  BY <1>1
<1>7. \A i \in 1 .. (n + 1) : i \in 1 .. n \/ i = n + 1
  BY <1>1
<1>8. Fresh(objs, there, p)
  BY <1>1, <1>2, <1>3, <1>4, <1>5 DEF Fresh
<1>9. x \notin there /\ (Kind(x) # "scene" => objs[x].in \in there)
  BY <1>2, <1>3, <1>4, <1>6 DEF Fresh
<1>10. x \notin Elems(p)
  <2>1. \A i \in 1 .. n : p[i] # x
    BY <1>2, <1>3, <1>4, <1>5, <1>6 DEF Fresh
  <2> QED
    BY <1>1, <2>1 DEF Elems
<1>11. Elems(px) = Elems(p) \cup {x}
  BY <1>1, <1>2, <1>4, <1>5, <1>6, <1>7 DEF Elems
<1> QED
  BY <1>8, <1>9, <1>10, <1>11 DEF px

LEMMA AddsPlayed ==
  ASSUME NEW objs \in Objs, NEW there \in SUBSET DOMAIN objs, NEW bound \in SUBSET there,
         NEW q \in Seq(DOMAIN objs), Fresh(objs, there, q)
  PROVE  Performing!Fold(Well(Build(objs, there, bound)), Adds(objs, q))
           = Well(Build(objs, there \cup Elems(q), bound))
<1> DEFINE D == DOMAIN objs
           w == Well(Build(objs, there, bound))
           T == {p \in Seq(D) :
                   Fresh(objs, there, p) =>
                     /\ Elems(p) \subseteq D
                     /\ Performing!Fold(w, Adds(objs, p))
                          = Well(Build(objs, there \cup Elems(p), bound))}
<1>1. <<>> \in T
  <2>1. Elems(<<>>) = {} /\ Adds(objs, <<>>) = <<>>
    BY DEF Elems, Adds
  <2>2. Performing!Fold(w, <<>>) = w /\ there \cup {} = there
    BY Performing!FoldEmpty
  <2> QED
    BY <2>1, <2>2, EmptySeq
<1>2. ASSUME NEW p \in Seq(D), NEW x \in D, p \in T
      PROVE  Append(p, x) \in T
  <2> DEFINE px == Append(p, x)
             c == AddCmd(x, Bare(objs[x]))
             built == there \cup Elems(p)
             b == Build(objs, built, bound)
  <2>1. px \in Seq(D)
    BY AppendProperties
  <2>2. ASSUME Fresh(objs, there, px)
        PROVE  /\ Elems(px) \subseteq D
               /\ Performing!Fold(w, Adds(objs, px))
                    = Well(Build(objs, there \cup Elems(px), bound))
    <3>1. /\ Fresh(objs, there, p)
          /\ x \notin Elems(p) /\ x \notin there
          /\ Kind(x) # "scene" => objs[x].in \in there
          /\ Elems(px) = Elems(p) \cup {x}
      BY <2>2, FreshAppend
    <3>2. Elems(p) \subseteq D /\ Performing!Fold(w, Adds(objs, p)) = Well(b)
      BY <1>2, <3>1
    <3>3. Adds(objs, px) = Append(Adds(objs, p), c) /\ Adds(objs, p) \in Seq(Cmd)
      BY AddsAppend, DumpCmds
    <3>4. x \in Slot /\ objs[x] \in Obj
      BY ObjsParts
    <3>5. c \in Cmd /\ c.type = "add" /\ c.slot = x /\ c.object = Bare(objs[x])
      BY <3>4, Unref DEF AddCmd, Cmd
    <3>6. Bare(objs[x]).in = objs[x].in
      BY <3>4, Unref
    <3> HIDE DEF c
    <3>7. built \in SUBSET D /\ x \in D \ built /\ bound \in SUBSET built
          /\ (Kind(x) # "scene" => objs[x].in \in built)
      BY <3>1, <3>2
    <3> HIDE DEF built
    <3>8. DOMAIN b = built
      BY <3>7, BuildType
    <3>9. Filled(b, x, Bare(objs[x])) = Build(objs, built \cup {x}, bound)
      BY <3>7, BuildAdd
    <3> HIDE DEF b
    <3>10. Fits(b, c) /\ Effect(b, c) = Build(objs, built \cup {x}, bound)
      BY <3>5, <3>6, <3>7, <3>8, <3>9 DEF Fits, Effect, Has
    <3>11. Play(Well(b), c) = Well(Build(objs, built \cup {x}, bound))
      BY <3>10, PlayFits
    <3>12. Performing!Fold(w, Append(Adds(objs, p), c)) = Play(Performing!Fold(w, Adds(objs, p)), c)
      BY <3>3, <3>5, Performing!FoldAppend
    <3>13. built \cup {x} = there \cup Elems(px)
      BY <3>1 DEF built
    <3>14. Performing!Fold(w, Adds(objs, px)) = Well(Build(objs, there \cup Elems(px), bound))
      BY <3>2, <3>3, <3>11, <3>12, <3>13
    <3> QED
      BY <3>1, <3>2, <3>14
  <2> HIDE DEF px, w
  <2> QED
    BY <2>1, <2>2 DEF px
<1> HIDE DEF T, D
<1>3. q \in T
  <2>1. q \in Seq(D)
    BY DEF D
  <2> QED
    BY <1>1, <1>2, <2>1, SequenceInduction
<1> QED
  BY <1>3 DEF T, w

LEMMA SetsPlayed ==
  ASSUME NEW objs \in Objs, NEW there \in SUBSET DOMAIN objs, NEW bound,
         NEW q \in Seq(there),
         \A x \in there : objs[x].ref # None => objs[x].ref \in there
  PROVE  Performing!Fold(Well(Build(objs, there, bound)), Sets(objs, q))
           = Well(Build(objs, there, bound \cup Elems(q)))
<1> DEFINE w == Well(Build(objs, there, bound))
           T == {p \in Seq(there) :
                   Performing!Fold(w, Sets(objs, p))
                     = Well(Build(objs, there, bound \cup Elems(p)))}
<1>1. <<>> \in T
  <2>1. Elems(<<>>) = {} /\ Sets(objs, <<>>) = <<>>
    BY DEF Elems, Sets
  <2>2. Performing!Fold(w, <<>>) = w /\ bound \cup {} = bound
    BY Performing!FoldEmpty
  <2> QED
    BY <2>1, <2>2, EmptySeq
<1>2. ASSUME NEW p \in Seq(there), NEW x \in there, p \in T
      PROVE  Append(p, x) \in T
  <2> DEFINE px == Append(p, x)
             c == SetCmd(x, objs[x].ref)
             set == bound \cup Elems(p)
             b == Build(objs, there, set)
  <2>1. px \in Seq(there)
    BY AppendProperties
  <2>2. Performing!Fold(w, Sets(objs, p)) = Well(b)
    BY <1>2
  <2>3. Sets(objs, px) = Append(Sets(objs, p), c) /\ Sets(objs, p) \in Seq(Cmd)
    <3>1. p \in Seq(DOMAIN objs)
      BY SeqMonotonic
    <3> QED
      BY <3>1, SetsAppend, DumpCmds
  <2>4. x \in Slot /\ objs[x].ref \in Ref
    BY ObjsParts, Unref
  <2>5. c \in Cmd /\ c.type = "set" /\ c.slot = x /\ c.ref = objs[x].ref
    BY <2>4 DEF SetCmd, Cmd
  <2> HIDE DEF c, set
  <2>6. DOMAIN b = there
    BY BuildType
  <2>7. Effect(b, c) = Build(objs, there, set \cup {x})
    BY BuildSet DEF c
  <2> HIDE DEF b
  <2>8. Fits(b, c)
    BY <2>5, <2>6 DEF Fits, Has
  <2>9. Play(Well(b), c) = Well(Build(objs, there, set \cup {x}))
    BY <2>7, <2>8, PlayFits
  <2>10. Performing!Fold(w, Append(Sets(objs, p), c)) = Play(Performing!Fold(w, Sets(objs, p)), c)
    BY <2>3, <2>5, Performing!FoldAppend
  <2>11. Elems(px) = Elems(p) \cup {x}
    <3> HIDE DEF px
    <3>2. DOMAIN p = 1 .. Len(p) /\ Len(p) \in Nat
      BY LenProperties
    <3>3. DOMAIN px = 1 .. (Len(p) + 1) /\ px[Len(p) + 1] = x
          /\ \A i \in 1 .. Len(p) : px[i] = p[i]
      BY AppendProperties, LenProperties DEF px
    <3>4. \A i \in 1 .. (Len(p) + 1) : i \in 1 .. Len(p) \/ i = Len(p) + 1
      BY <3>2
    <3>5. \A i \in 1 .. Len(p) : i \in 1 .. (Len(p) + 1)
      BY <3>2
    <3>6. Len(p) + 1 \in 1 .. (Len(p) + 1)
      BY <3>2
    <3> QED
      BY <3>2, <3>3, <3>4, <3>5, <3>6 DEF Elems
  <2>12. set \cup {x} = bound \cup Elems(px)
    BY <2>11 DEF set
  <2>13. Performing!Fold(w, Sets(objs, px)) = Well(Build(objs, there, bound \cup Elems(px)))
    BY <2>2, <2>3, <2>9, <2>10, <2>12
  <2> HIDE DEF px, w
  <2> QED
    BY <2>1, <2>13 DEF px
<1> HIDE DEF T
<1>3. q \in T
  BY <1>1, <1>2, SequenceInduction
<1> QED
  BY <1>3 DEF T, w

LEMMA SlotsParts ==
  ASSUME NEW objs \in Objs, NEW kind
  PROVE  /\ Slots(objs, kind) \in Seq(DOMAIN objs)
         /\ \A i, j \in DOMAIN Slots(objs, kind) :
              Slots(objs, kind)[i] = Slots(objs, kind)[j] => i = j
         /\ Elems(Slots(objs, kind)) = OfKind(objs, kind)
<1> DEFINE S == OfKind(objs, kind)
           q == SetToSeq(S)
<1>1. S \subseteq DOMAIN objs
  BY DEF OfKind
<1>2. IsFiniteSet(S)
  BY <1>1, ObjsParts, FS_Subset
<1> HIDE DEF S
<1>3. q \in Seq(S) /\ (\A i, j \in DOMAIN q : q[i] = q[j] => i = j) /\ Elems(q) = S
  BY <1>2, InOrder DEF Elems
<1>4. q \in Seq(DOMAIN objs)
  BY <1>1, <1>3, SeqMonotonic
<1> QED
  BY <1>3, <1>4 DEF Slots, S

LEMMA Corrected ==
  ASSUME NEW objs \in Objs
  PROVE  /\ GetCorrectionMessages(objs) \in Seq(Msg)
         /\ \A w \in World : Hearing!Fold(w, GetCorrectionMessages(objs)) = w
<1> DEFINE S == {s \in OfKind(objs, "scene") : Nodes(objs, s) # {}}
           scenes == SetToSeq(S)
           Nods(s) == {[slot |-> n, what |-> objs[n].what] : n \in Nodes(objs, s)}
           msgs == [i \in DOMAIN scenes |-> CorrectionMsg(Nods(scenes[i]))]
<1>1. IsFiniteSet(S)
  <2>1. S \subseteq DOMAIN objs
    BY DEF OfKind
  <2> QED
    BY <2>1, ObjsParts, FS_Subset
<1>2. scenes \in Seq(S) /\ DOMAIN scenes = 1 .. Len(scenes)
  BY <1>1, InOrder
<1>3. msgs = GetCorrectionMessages(objs)
  BY DEF GetCorrectionMessages
<1>4. \A s : Nods(s) \in SUBSET Named
  BY ObjsParts DEF Nodes, Named, Obj
<1> HIDE DEF Nods, S, scenes
<1>6. Len(scenes) \in Nat
  BY <1>2, LenProperties
<1>7. /\ \A i \in 1 .. Len(scenes) : msgs[i] = CorrectionMsg(Nods(scenes[i]))
      /\ msgs \in Seq(Msg) /\ DOMAIN msgs = 1 .. Len(scenes)
  <2>1. \A s : CorrectionMsg(Nods(s)) \in Msg
    BY <1>4 DEF CorrectionMsg, Msg, Named
  <2>2. msgs \in [1 .. Len(scenes) -> Msg]
    BY <1>2, <2>1
  <2>3. msgs \in Seq(Msg)
    BY <1>6, <2>2 DEF Seq
  <2> QED
    BY <1>2, <2>3
<1>8. ASSUME NEW w \in World
      PROVE  Hearing!Fold(w, msgs) = w
  <2>2. ASSUME NEW i \in 1 .. Len(msgs)
        PROVE  PlayMsg(w, msgs[i]) = w
    <3> DEFINE m == msgs[i]
    <3>1. i \in 1 .. Len(scenes)
      BY <1>6, <1>7, LenProperties
    <3>2. m.type = "correction"
      BY <1>7, <3>1 DEF CorrectionMsg
    <3> HIDE DEF m
    <3>3. PlayMsg(w, m) = w
      BY <3>2, PlayCorrection
    <3> QED
      BY <3>3 DEF m
  <2> HIDE DEF msgs
  <2>3. \A s \in {w}, i \in 1 .. Len(msgs) : PlayMsg(s, msgs[i]) \in {w}
    BY <2>2
  <2>4. Hearing!Fold(w, msgs) \in {w}
    BY <1>7, <2>3, Hearing!FoldKeeps
  <2> QED
    BY <2>4
<1> HIDE DEF msgs
<1> QED
  BY <1>3, <1>7, <1>8

\* A dump is what is there, bare, and then what it is bound to.
LEMMA DumpParts ==
  ASSUME NEW objs \in Objs
  PROVE  \E p, q \in Seq(DOMAIN objs) :
           /\ DumpFullState(objs) = CommandsMsg(Adds(objs, p) \o Sets(objs, q))
           /\ \E a, b \in Seq(DOMAIN objs) :
                /\ p = a \o b
                /\ Elems(a) = OfKind(objs, "scene")
                /\ Elems(b) = OfKind(objs, "media") \cup OfKind(objs, "node")
                /\ \A i, j \in DOMAIN a : a[i] = a[j] => i = j
                /\ \A i, j \in DOMAIN b : b[i] = b[j] => i = j
           /\ Elems(q) = Referring(objs)
<1> DEFINE ss == Slots(objs, "scene")
           ms == Slots(objs, "media")
           ns == Slots(objs, "node")
           R == Referring(objs)
           q == SetToSeq(R)
           p == ss \o ms \o ns
           D == DOMAIN objs
<1>1. /\ ss \in Seq(D) /\ (\A i, j \in DOMAIN ss : ss[i] = ss[j] => i = j)
      /\ Elems(ss) = OfKind(objs, "scene")
  BY SlotsParts
<1>2. /\ ms \in Seq(D) /\ (\A i, j \in DOMAIN ms : ms[i] = ms[j] => i = j)
      /\ Elems(ms) = OfKind(objs, "media")
  BY SlotsParts
<1>3. /\ ns \in Seq(D) /\ (\A i, j \in DOMAIN ns : ns[i] = ns[j] => i = j)
      /\ Elems(ns) = OfKind(objs, "node")
  BY SlotsParts
<1>4. OfKind(objs, "media") \cap OfKind(objs, "node") = {}
  BY DEF OfKind
<1>5. R \subseteq D /\ IsFiniteSet(R)
  <2>1. R \subseteq D
    BY DEF Referring, OfKind
  <2> HIDE DEF R
  <2> QED
    BY <2>1, ObjsParts, FS_Subset
<1>6. DumpFullState(objs) = CommandsMsg(Adds(objs, p) \o Sets(objs, q))
  BY DEF DumpFullState, Adds, Sets, Bare
<1> HIDE DEF ss, ms, ns, R, D
<1>7. q \in Seq(D) /\ Elems(q) = R
  <2>1. q \in Seq(R) /\ Elems(q) = R
    BY <1>5, InOrder DEF Elems
  <2> QED
    BY <1>5, <2>1, SeqMonotonic
<1>8. /\ ms \o ns \in Seq(D)
      /\ \A i, j \in DOMAIN (ms \o ns) : (ms \o ns)[i] = (ms \o ns)[j] => i = j
      /\ Elems(ms \o ns) = OfKind(objs, "media") \cup OfKind(objs, "node")
  <2>1. Elems(ms) \cap Elems(ns) = {}
    BY <1>2, <1>3, <1>4
  <2>2. /\ ms \o ns \in Seq(D)
        /\ \A i, j \in DOMAIN (ms \o ns) : (ms \o ns)[i] = (ms \o ns)[j] => i = j
        /\ Elems(ms \o ns) = Elems(ms) \cup Elems(ns)
    BY <1>2, <1>3, <2>1, Joined
  <2> QED
    BY <1>2, <1>3, <2>2
<1>9. p = ss \o (ms \o ns)
  BY <1>1, <1>2, <1>3, ConcatAssociative
<1> DEFINE b == ms \o ns
<1> HIDE DEF b, q
<1>10. p = ss \o b /\ b \in Seq(D) /\ p \in Seq(D)
  <2>1. p = ss \o b /\ b \in Seq(D)
    BY <1>8, <1>9 DEF b
  <2> HIDE DEF p
  <2> QED
    BY <1>1, <2>1, ConcatProperties
<1> HIDE DEF p
<1>11. /\ Elems(b) = OfKind(objs, "media") \cup OfKind(objs, "node")
       /\ \A i, j \in DOMAIN b : b[i] = b[j] => i = j
  BY <1>8 DEF b
<1> QED
  BY <1>1, <1>6, <1>7, <1>10, <1>11 DEF D, R

LEMMA Dumped ==
  ASSUME NEW objs \in Objs
  PROVE  DumpFullState(objs) \in Msg /\ DumpFullState(objs).type = "commands"
<1> DEFINE D == DOMAIN objs
<1>1. PICK p \in Seq(D), q \in Seq(D) :
        DumpFullState(objs) = CommandsMsg(Adds(objs, p) \o Sets(objs, q))
  BY DumpParts
<1>2. Adds(objs, p) \in Seq(Cmd) /\ Sets(objs, q) \in Seq(Cmd)
  BY DumpCmds
<1>3. Adds(objs, p) \o Sets(objs, q) \in Seq(Cmd)
  BY <1>2, ConcatProperties
<1> QED
  BY <1>1, <1>3 DEF CommandsMsg, Msg

LEMMA BuildNone == \A objs : Build(objs, {}, {}) = NoObjects
<1> TAKE objs
<1>1. Build(objs, {}, {}) = [n \in {} |-> IF n \in {} THEN objs[n] ELSE Bare(objs[n])]
  BY DEF Build
<1> QED
  BY <1>1 DEF NoObjects

\* Where everything has its home, a dump makes it anew.
LEMMA Remade ==
  ASSUME NEW objs \in Objs, Homes(objs)
  PROVE  PlayMsg(Well(NoObjects), DumpFullState(objs)) = Well(objs)
<1> DEFINE D == DOMAIN objs
           scenes == OfKind(objs, "scene")
           others == OfKind(objs, "media") \cup OfKind(objs, "node")
           R == Referring(objs)
<1>1. PICK p \in Seq(D), q \in Seq(D) :
        /\ DumpFullState(objs) = CommandsMsg(Adds(objs, p) \o Sets(objs, q))
        /\ \E a, b \in Seq(D) :
             /\ p = a \o b
             /\ Elems(a) = scenes
             /\ Elems(b) = others
             /\ \A i, j \in DOMAIN a : a[i] = a[j] => i = j
             /\ \A i, j \in DOMAIN b : b[i] = b[j] => i = j
        /\ Elems(q) = R
  BY DumpParts
<1>2. PICK a \in Seq(D), b \in Seq(D) :
        /\ p = a \o b
        /\ Elems(a) = scenes
        /\ Elems(b) = others
        /\ \A i, j \in DOMAIN a : a[i] = a[j] => i = j
        /\ \A i, j \in DOMAIN b : b[i] = b[j] => i = j
  BY <1>1
<1>3. D = scenes \cup others
  <2>1. \A n \in D : Kind(n) \in {"scene", "media", "node"}
    BY ObjsParts, Kind3 DEF Kinds
  <2> QED
    BY <2>1 DEF OfKind
<1>4. \A n \in others : n \notin scenes /\ objs[n].in \in scenes
  BY DEF OfKind, Homes
<1>5. \A n \in D : objs[n].ref # None => n \in R /\ objs[n].ref \in D
  BY DEF OfKind, Homes, Referring
<1>6. Fresh(objs, {}, a)
  <2>1. \A i \in DOMAIN a : a[i] \in scenes
    BY <1>2 DEF Elems
  <2>2. \A n \in scenes : Kind(n) = "scene"
    BY DEF OfKind
  <2> QED
    BY <1>2, <2>1, <2>2 DEF Fresh
<1>7. Fresh(objs, scenes, b)
  <2>1. \A i \in DOMAIN b : b[i] \in others
    BY <1>2 DEF Elems
  <2> HIDE DEF others, scenes
  <2> QED
    BY <1>2, <1>4, <2>1 DEF Fresh
<1> HIDE DEF scenes, others, R
<1>8. Performing!Fold(Well(NoObjects), Adds(objs, a)) = Well(Build(objs, scenes, {}))
  <2>1. {} \cup scenes = scenes /\ {} \in SUBSET D /\ {} \in SUBSET {}
    OBVIOUS
  <2>2. Performing!Fold(Well(Build(objs, {}, {})), Adds(objs, a))
          = Well(Build(objs, {} \cup Elems(a), {}))
    BY <1>6, <2>1, AddsPlayed
  <2> QED
    BY <1>2, <2>1, <2>2, BuildNone
<1>9. Performing!Fold(Well(Build(objs, scenes, {})), Adds(objs, b)) = Well(Build(objs, D, {}))
  <2>1. scenes \in SUBSET D /\ {} \in SUBSET scenes
    BY <1>3
  <2>2. Performing!Fold(Well(Build(objs, scenes, {})), Adds(objs, b))
          = Well(Build(objs, scenes \cup Elems(b), {}))
    BY <1>7, <2>1, AddsPlayed
  <2> QED
    BY <1>2, <1>3, <2>2
<1>10. Performing!Fold(Well(Build(objs, D, {})), Sets(objs, q)) = Well(Build(objs, D, R))
  <2>1. D \in SUBSET D /\ {} \cup R = R
    OBVIOUS
  <2>2. \A x \in D : objs[x].ref # None => objs[x].ref \in D
    BY <1>5
  <2>3. Performing!Fold(Well(Build(objs, D, {})), Sets(objs, q))
          = Well(Build(objs, D, {} \cup Elems(q)))
    BY <2>1, <2>2, SetsPlayed
  <2> QED
    BY <1>1, <2>1, <2>3
<1>11. Build(objs, D, R) = objs
  <2>1. D \in SUBSET D /\ \A n \in D : n \in R \/ objs[n].ref = None
    BY <1>5
  <2>2. Build(objs, D, R) = Build(objs, D, D)
    BY <2>1, BuildWhole
  <2>3. Build(objs, D, D) = [n \in D |-> objs[n]]
    BY DEF Build
  <2>4. objs = [n \in D |-> objs[n]]
    BY ObjsParts
  <2> QED
    BY <2>2, <2>3, <2>4
<1> DEFINE x == Adds(objs, a)
           y == Adds(objs, b)
           z == Sets(objs, q)
           w == Well(NoObjects)
<1>12. x \in Seq(Cmd) /\ y \in Seq(Cmd) /\ z \in Seq(Cmd) /\ Adds(objs, p) = x \o y
  BY <1>2, DumpCmds, AddsConcat
<1> HIDE DEF x, y, z, w, D
<1>13. x \in Seq(Played) /\ y \in Seq(Played) /\ z \in Seq(Played)
       /\ x \o y \in Seq(Played)
  <2>1. x \in Seq(Played) /\ y \in Seq(Played) /\ z \in Seq(Played)
    BY <1>12, CmdIsPlayed
  <2> QED
    BY <2>1, ConcatProperties
<1>14. Performing!Fold(w, (x \o y) \o z)
         = Performing!Fold(Performing!Fold(Performing!Fold(w, x), y), z)
  <2>1. Performing!Fold(w, (x \o y) \o z) = Performing!Fold(Performing!Fold(w, x \o y), z)
    BY <1>13, PlayedConcat
  <2>2. Performing!Fold(w, x \o y) = Performing!Fold(Performing!Fold(w, x), y)
    BY <1>13, PlayedConcat
  <2> QED
    BY <2>1, <2>2
<1>15. Performing!Fold(w, (x \o y) \o z) = Well(objs)
  BY <1>8, <1>9, <1>10, <1>11, <1>14 DEF w, x, y, z
<1>16. Items(DumpFullState(objs)) = (x \o y) \o z
  BY <1>1, <1>12 DEF Items, CommandsMsg, z
<1> QED
  BY <1>15, <1>16 DEF PlayMsg, w

\* ... and so does what a player saves, or tells one who joins.
LEMMA Retold ==
  ASSUME NEW objs \in Objs, Homes(objs)
  PROVE  LET state == <<DumpFullState(objs)>> \o GetCorrectionMessages(objs) IN
         state \in Seq(Msg) /\ Cast(state) = Well(objs)
<1> DEFINE m == DumpFullState(objs)
           g == GetCorrectionMessages(objs)
<1>1. m \in Msg
  BY Dumped
<1>2. g \in Seq(Msg) /\ \A w \in World : Hearing!Fold(w, g) = w
  BY Corrected
<1>3. PlayMsg(Well(NoObjects), m) = Well(objs) /\ Well(objs) \in World
  BY Remade DEF Well, World
<1> HIDE DEF m, g
<1>4. <<m>> \in Seq(Msg) /\ <<m>> \o g \in Seq(Msg)
  <2>1. <<m>> \in Seq(Msg)
    BY <1>1
  <2> QED
    BY <1>2, <2>1, ConcatProperties
<1>5. Cast(<<m>> \o g) = Hearing!Fold(Hearing!Fold(Well(NoObjects), <<m>>), g)
  BY <1>2, <1>4, HeardConcat DEF Cast
<1>6. Hearing!Fold(Well(NoObjects), <<m>>) = PlayMsg(Well(NoObjects), m)
  BY Hearing!FoldOne
<1>7. Cast(<<m>> \o g) = Well(objs)
  BY <1>2, <1>3, <1>5, <1>6
<1> QED
  BY <1>4, <1>7 DEF m, g

-----------------------------------------------------------------------------
(* What the writer will have been given when it has run the calls that      *)
(* wait, if no error comes between, and whether all of it is what a session *)
(* that works begins with.                                                  *)

Starts ==
  {items \in Seq(Recordable) :
     items = <<>> \/ \E script \in Script : \E n \in 0 .. Len(script) :
                       items = SubSeq(script, 1, n)}

Expectation == [known : BOOLEAN, items : Seq(Recordable), ok : BOOLEAN]

Expect(w, c) ==
  CASE c.type = "begin" -> [known |-> TRUE, items |-> <<>>, ok |-> w.ok]
    [] c.type = "end"   -> [known |-> FALSE, items |-> w.items, ok |-> w.ok]
    [] c.type = "add"   ->
         IF w.known THEN [known |-> TRUE, items |-> Append(w.items, c.item),
                          ok |-> w.ok /\ Append(w.items, c.item) \in Starts]
         ELSE w

Expecting == INSTANCE FoldProofs WITH Op <- Expect

AtHand == [known |-> writer.open, items |-> given, ok |-> TRUE]

Expected == Expecting!Fold(AtHand, calls)

\* The file begins as a session that works begins, and what the session that
\* records has still to send goes on from there.
AsExpected ==
  /\ given \in Starts
  /\ Expected.ok
  /\ tape.on /\ Expected.known => Expected.items \o tape.left \in Script

LEMMA CallParts ==
  ASSUME NEW c \in Call
  PROVE  /\ c.type \in {"begin", "end", "add"}
         /\ c.type = "begin" <=> c = BeginCall
         /\ c.type = "end" <=> c = EndCall
         /\ c.type = "add" => c.item \in Recordable /\ c = AddCall(c.item)
<1>1. BeginCall.type = "begin" /\ EndCall.type = "end"
  BY DEF BeginCall, EndCall
<1>2. CASE c \in {BeginCall, EndCall}
  BY <1>1, <1>2
<1>3. CASE c \in {AddCall(item) : item \in Recordable}
  <2>1. PICK item \in Recordable : c = AddCall(item)
    BY <1>3
  <2>2. c.type = "add" /\ c.item = item
    BY <2>1 DEF AddCall
  <2> QED
    BY <1>1, <2>1, <2>2
<1> QED
  BY <1>2, <1>3 DEF Call

LEMMA ExpectParts ==
  ASSUME NEW w \in Expectation, NEW c \in Call
  PROVE  /\ Expect(w, c) \in Expectation
         /\ Expect(w, c).ok => w.ok
         /\ c.type = "begin" => Expect(w, c).known /\ Expect(w, c).items = <<>>
         /\ c.type # "add" => (w.ok => Expect(w, c).ok)
         /\ c.type = "end" => ~Expect(w, c).known
         /\ c.type = "add" /\ ~w.known => Expect(w, c) = w
         /\ c.type = "add" /\ w.known =>
              /\ Expect(w, c).known /\ Expect(w, c).items = Append(w.items, c.item)
              /\ Expect(w, c).ok <=> w.ok /\ Append(w.items, c.item) \in Starts
<1> DEFINE r == Expect(w, c)
<1>1. w.known \in BOOLEAN /\ w.items \in Seq(Recordable) /\ w.ok \in BOOLEAN
  BY DEF Expectation
<1>2. CASE c.type = "begin"
  <2>1. r = [known |-> TRUE, items |-> <<>>, ok |-> w.ok]
    BY <1>2 DEF Expect
  <2>2. <<>> \in Seq(Recordable)
    BY EmptySeq
  <2> HIDE DEF r
  <2>3. r \in Expectation /\ r.known = TRUE /\ r.items = <<>> /\ r.ok = w.ok
    BY <1>1, <2>1, <2>2 DEF Expectation
  <2> QED
    BY <1>2, <2>3 DEF r
<1>3. CASE c.type = "end"
  <2>1. r = [known |-> FALSE, items |-> w.items, ok |-> w.ok]
    BY <1>3 DEF Expect
  <2> HIDE DEF r
  <2>2. r \in Expectation /\ r.known = FALSE /\ r.ok = w.ok
    BY <1>1, <2>1 DEF Expectation
  <2> QED
    BY <1>3, <2>2 DEF r
<1>4. CASE c.type = "add" /\ ~w.known
  <2>1. r = w
    BY <1>4 DEF Expect
  <2> QED
    BY <1>4, <2>1
<1>5. CASE c.type = "add" /\ w.known
  <2> DEFINE more == Append(w.items, c.item)
             b == w.ok /\ more \in Starts
  <2>1. r = [known |-> TRUE, items |-> more, ok |-> b]
    BY <1>5 DEF Expect
  <2>2. more \in Seq(Recordable)
    BY <1>1, <1>5, CallParts, AppendProperties
  <2>3. b \in BOOLEAN
    BY <1>1
  <2>4. b <=> w.ok /\ more \in Starts
    OBVIOUS
  <2> HIDE DEF r, more, b
  <2>5. r \in Expectation /\ r.known = TRUE /\ r.items = more /\ r.ok = b
    BY <2>1, <2>2, <2>3 DEF Expectation
  <2>6. r.ok <=> w.ok /\ more \in Starts
    BY <2>4, <2>5
  <2>7. r.ok => w.ok
    BY <2>6
  <2> QED
    BY <1>5, <2>5, <2>6, <2>7 DEF r, more
<1> QED
  BY <1>2, <1>3, <1>4, <1>5, CallParts

LEMMA ExpectedType ==
  ASSUME NEW w \in Expectation, NEW q \in Seq(Call)
  PROVE  /\ Expecting!Fold(w, q) \in Expectation
         /\ Expecting!Fold(w, q).ok => w.ok
<1>1. \A s \in Expectation, i \in 1 .. Len(q) : Expect(s, q[i]) \in Expectation
  BY ExpectParts, ElementOfSeq
<1>2. Expecting!Fold(w, q) \in Expectation
  BY <1>1, Expecting!FoldKeeps
<1>3. ASSUME ~w.ok PROVE ~Expecting!Fold(w, q).ok
  <2> DEFINE P == {s \in Expectation : ~s.ok}
  <2>1. w \in P
    BY <1>3
  <2>2. \A s \in P, i \in 1 .. Len(q) : Expect(s, q[i]) \in P
    BY ExpectParts, ElementOfSeq
  <2> HIDE DEF P
  <2>3. Expecting!Fold(w, q) \in P
    BY <2>1, <2>2, Expecting!FoldKeeps
  <2> QED
    BY <2>3 DEF P
<1> QED
  BY <1>2, <1>3

\* What came of errors is less than what was expected.
Less(a, b) ==
  /\ a.ok => b.ok
  /\ b.known => a.known /\ a.items = b.items

LEMMA ExpectLess ==
  ASSUME NEW a \in Expectation, NEW b \in Expectation, Less(a, b), NEW c \in Call
  PROVE  Less(Expect(a, c), Expect(b, c))
<1>1. c.type \in {"begin", "end", "add"}
  BY CallParts
<1>2. CASE c.type = "begin"
  BY <1>2, ExpectParts DEF Less
<1>3. CASE c.type = "end"
  BY <1>3, ExpectParts DEF Less
<1>4. CASE c.type = "add" /\ b.known
  <2>1. a.known /\ a.items = b.items
    BY <1>4 DEF Less
  <2>2. /\ Expect(a, c).known /\ Expect(a, c).items = Append(a.items, c.item)
        /\ Expect(a, c).ok <=> a.ok /\ Append(a.items, c.item) \in Starts
    BY <1>4, <2>1, ExpectParts
  <2>3. /\ Expect(b, c).known /\ Expect(b, c).items = Append(b.items, c.item)
        /\ Expect(b, c).ok <=> b.ok /\ Append(b.items, c.item) \in Starts
    BY <1>4, ExpectParts
  <2> QED
    BY <2>1, <2>2, <2>3 DEF Less
<1>5. CASE c.type = "add" /\ ~b.known
  <2>1. Expect(b, c) = b
    BY <1>5, ExpectParts
  <2>2. Expect(a, c).ok => a.ok
    BY ExpectParts
  <2> QED
    BY <1>5, <2>1, <2>2 DEF Less
<1> QED
  BY <1>1, <1>2, <1>3, <1>4, <1>5

LEMMA ExpectedLess ==
  ASSUME NEW a \in Expectation, NEW b \in Expectation, Less(a, b), NEW q \in Seq(Call)
  PROVE  Less(Expecting!Fold(a, q), Expecting!Fold(b, q))
<1> DEFINE R == {pair \in Expectation \X Expectation : Less(pair[1], pair[2])}
<1>1. <<a, b>> \in R
  OBVIOUS
<1>2. ASSUME NEW s, NEW t, NEW i \in 1 .. Len(q), <<s, t>> \in R
      PROVE  <<Expect(s, q[i]), Expect(t, q[i])>> \in R
  <2>1. s \in Expectation /\ t \in Expectation /\ Less(s, t) /\ q[i] \in Call
    BY <1>2, ElementOfSeq
  <2>2. Expect(s, q[i]) \in Expectation /\ Expect(t, q[i]) \in Expectation
    BY <2>1, ExpectParts
  <2>3. Less(Expect(s, q[i]), Expect(t, q[i]))
    BY <2>1, ExpectLess
  <2> QED
    BY <2>2, <2>3
<1> HIDE DEF R
<1>3. <<Expecting!Fold(a, q), Expecting!Fold(b, q)>> \in R
  BY <1>1, <1>2, Expecting!FoldRelates
<1> QED
  BY <1>3 DEF R

\* A recording that goes on is as expected with one more message.
LEMMA StartsMore ==
  ASSUME NEW items \in Seq(Recordable), NEW left \in Seq(Recordable), left # <<>>,
         items \o left \in Script
  PROVE  /\ Append(items, Head(left)) \in Starts
         /\ Append(items, Head(left)) \o Tail(left) = items \o left
<1> DEFINE x == Head(left)
           rest == Tail(left)
           more == Append(items, x)
<1>1. x \in Recordable /\ rest \in Seq(Recordable) /\ left = <<x>> \o rest
  BY HeadTailProperties
<1> HIDE DEF x, rest
<1>2. more = items \o <<x>> /\ more \in Seq(Recordable) /\ <<x>> \in Seq(Recordable)
  BY <1>1, AppendIsConcat, AppendProperties
<1>3. more \o rest = items \o left
  BY <1>1, <1>2, ConcatAssociative
<1> HIDE DEF more
<1>4. more \o rest \in Seq(Recordable) /\ Len(more) \in 0 .. Len(more \o rest)
      /\ SubSeq(more \o rest, 1, Len(more)) = more
  <2>1. Len(rest) \in Nat /\ Len(more) \in Nat
    BY <1>1, <1>2, LenProperties
  <2>2. /\ more \o rest \in Seq(Recordable)
        /\ Len(more \o rest) = Len(more) + Len(rest)
        /\ \A i \in 1 .. Len(more) + Len(rest) :
             (more \o rest)[i] = IF i <= Len(more) THEN more[i] ELSE rest[i - Len(more)]
    BY <1>1, <1>2, ConcatProperties
  <2> DEFINE all == more \o rest
             n == Len(more)
             part == SubSeq(all, 1, n)
  <2> HIDE DEF all, n
  <2>3. all \in Seq(Recordable) /\ n \in Nat /\ n <= Len(all)
        /\ \A i \in 1 .. n : all[i] = more[i]
    BY <2>1, <2>2 DEF all, n
  <2>4. \A i \in 1 .. n : all[i] \in Recordable
    BY <2>3, ElementOfSeq
  <2>5. part \in Seq(Recordable) /\ Len(part) = n /\ \A i \in 1 .. n : part[i] = all[i]
    BY <2>3, <2>4, SubSeqProperties
  <2> HIDE DEF part
  <2>6. part = more
    <3>1. Len(more) = n
      BY DEF n
    <3>2. Len(part) = Len(more) /\ \A i \in 1 .. Len(part) : part[i] = more[i]
      BY <2>3, <2>5, <3>1
    <3> QED
      BY <1>2, <2>5, <3>2, SeqEqual
  <2> QED
    BY <2>3, <2>6 DEF all, n, part
<1>5. more \in Starts
  BY <1>2, <1>3, <1>4 DEF Starts
<1> QED
  BY <1>3, <1>5 DEF more, x, rest

LEMMA AtHandType == ASSUME Types PROVE AtHand \in Expectation
  BY DEF Types, AtHand, Expectation

LEMMA ExpectedNow ==
  ASSUME Types
  PROVE  Expected \in Expectation
<1>1. AtHand \in Expectation /\ calls \in Seq(Call)
  BY AtHandType DEF Types
<1> QED
  BY <1>1, ExpectedType DEF Expected

\* The writer goes on, or an error keeps it from it.
LEMMA ExpectKept ==
  ASSUME Types, Types', AsExpected, UNCHANGED <<tape, calls, given>>,
         writer'.open => writer.open
  PROVE  AsExpected'
<1> DEFINE a == AtHand
           b == AtHand'
<1>1. a \in Expectation /\ calls \in Seq(Call)
  BY AtHandType DEF Types
<1>2. b = [known |-> writer'.open, items |-> given', ok |-> TRUE]
  BY DEF AtHand
<1>3. b \in Expectation
  BY <1>2 DEF Types, Expectation
<1>4. Less(a, b)
  BY <1>2 DEF AtHand, Less
<1>5. Expected = Expecting!Fold(a, calls) /\ Expected' = Expecting!Fold(b, calls)
  BY DEF Expected
<1> HIDE DEF a, b
<1>6. Less(Expected, Expected')
  BY <1>1, <1>3, <1>4, <1>5, ExpectedLess
<1> QED
  BY <1>6 DEF AsExpected, Less

LEMMA ExpectPushed ==
  ASSUME Types, NEW c \in Call, calls' = Append(calls, c), UNCHANGED <<writer, given>>
  PROVE  Expected \in Expectation /\ Expected' = Expect(Expected, c)
<1>1. AtHand \in Expectation /\ calls \in Seq(Call)
  BY AtHandType DEF Types
<1>2. Expected' = Expecting!Fold(AtHand, Append(calls, c))
  BY DEF Expected, AtHand
<1>3. Expecting!Fold(AtHand, Append(calls, c)) = Expect(Expecting!Fold(AtHand, calls), c)
  BY <1>1, Expecting!FoldAppend
<1> QED
  BY <1>2, <1>3, ExpectedNow DEF Expected

LEMMA ExpectFirst ==
  ASSUME Types, AsExpected, NEW c, NextCall(c)
  PROVE  /\ c \in Call
         /\ Expect(AtHand, c) \in Expectation /\ Expect(AtHand, c).ok
         /\ Tail(calls) \in Seq(Call)
         /\ Expected = Expecting!Fold(Expect(AtHand, c), Tail(calls))
<1>1. calls \in Seq(Call) /\ calls # <<>> /\ Head(calls) = c
  BY DEF Types, NextCall
<1>2. c \in Call /\ Tail(calls) \in Seq(Call)
  BY <1>1, HeadTailProperties
<1>3. Expect(AtHand, c) \in Expectation
  BY <1>2, AtHandType, ExpectParts
<1>4. Expected = Expecting!Fold(Expect(AtHand, c), Tail(calls))
  BY <1>1, Expecting!FoldFirst DEF Expected
<1>5. Expect(AtHand, c).ok
  BY <1>2, <1>3, <1>4, ExpectedType DEF AsExpected
<1> QED
  BY <1>2, <1>3, <1>4, <1>5

\* A call is run, or an error keeps it from being.
LEMMA ExpectPopped ==
  ASSUME Types, Types', AsExpected, NEW c, NextCall(c), given' \in Starts,
         writer'.open => /\ Expect(AtHand, c).known
                         /\ Expect(AtHand, c).items = given'
  PROVE  AsExpected'
<1> DEFINE a == Expect(AtHand, c)
           b == AtHand'
           q == Tail(calls)
<1>1. a \in Expectation /\ q \in Seq(Call) /\ Expected = Expecting!Fold(a, q)
  BY ExpectFirst
<1>2. b = [known |-> writer'.open, items |-> given', ok |-> TRUE]
  BY DEF AtHand
<1>3. b \in Expectation
  BY <1>2 DEF Types, Expectation
<1>4. Less(a, b)
  <2> HIDE DEF a
  <2> QED
    BY <1>2 DEF Less, a
<1>5. calls' = q /\ tape' = tape
  BY DEF NextCall
<1>6. Expected' = Expecting!Fold(b, q)
  BY <1>5 DEF Expected
<1> HIDE DEF a, b, q
<1>7. Less(Expected, Expected')
  BY <1>1, <1>3, <1>4, <1>6, ExpectedLess
<1> QED
  BY <1>5, <1>7 DEF AsExpected, Less

LEMMA StartRecordingExpected ==
  ASSUME Types, AsExpected, StartRecording
  PROVE  AsExpected'
<1>1. PICK script \in Script : tape' = [on |-> TRUE, left |-> script]
  BY DEF StartRecording
<1>2. script \in Seq(Recordable) /\ BeginCall \in Call
  BY ScriptAssumption DEF Call
<1>3. Expected \in Expectation /\ Expected' = Expect(Expected, BeginCall) /\ given' = given
  BY <1>2, ExpectPushed DEF StartRecording, assets
<1>4. BeginCall.type = "begin"
  BY DEF BeginCall
<1>5. Expected'.items = <<>> /\ Expected'.ok
  BY <1>2, <1>3, <1>4, ExpectParts DEF AsExpected
<1>6. Expected'.items \o tape'.left = script
  BY <1>1, <1>2, <1>5, ConcatEmptySeq
<1> QED
  BY <1>3, <1>5, <1>6 DEF AsExpected

LEMMA RecordExpected ==
  ASSUME Types, TakeTurns, AsExpected, Record
  PROVE  AsExpected'
<1> DEFINE left == tape.left
           x == Head(left)
           c == AddCall(x)
<1>1. left # <<>> /\ left \in Seq(Recordable) /\ tape.on
  BY DEF Record, TakeTurns, Types
<1>2. tape' = [tape EXCEPT !.left = Tail(left)] /\ calls' = Append(calls, c)
      /\ UNCHANGED <<writer, given>>
  BY DEF Record, assets
<1>3. tape'.left = Tail(left)
  BY <1>2 DEF Types
<1>4. x \in Recordable
  BY <1>1, HeadTailProperties
<1>5. c \in Call /\ c.type = "add" /\ c.item = x
  BY <1>4 DEF Call, AddCall
<1> HIDE DEF x, c, left
<1>6. Expected \in Expectation /\ Expected' = Expect(Expected, c)
  BY <1>2, <1>5, ExpectPushed
<1>7. CASE Expected.known
  <2>1. Expected.items \in Seq(Recordable) /\ Expected.items \o left \in Script
    BY <1>1, <1>6, <1>7 DEF AsExpected, Expectation, left
  <2>2. /\ Append(Expected.items, x) \in Starts
        /\ Append(Expected.items, x) \o Tail(left) = Expected.items \o left
    BY <1>1, <2>1, StartsMore DEF x
  <2>3. Expected'.items = Append(Expected.items, x) /\ Expected'.ok
    BY <1>5, <1>6, <1>7, <2>2, ExpectParts DEF AsExpected
  <2>4. Expected'.items \o tape'.left \in Script
    BY <1>3, <2>1, <2>2, <2>3
  <2> QED
    BY <1>2, <2>3, <2>4 DEF AsExpected
<1>8. CASE ~Expected.known
  <2>1. Expected' = Expected
    BY <1>5, <1>6, <1>8, ExpectParts
  <2> QED
    BY <1>2, <1>8, <2>1 DEF AsExpected
<1> QED
  BY <1>7, <1>8

LEMMA StopRecordingExpected ==
  ASSUME Types, AsExpected, StopRecording
  PROVE  AsExpected'
<1>1. EndCall \in Call /\ EndCall.type = "end"
  BY DEF Call, EndCall
<1>2. Expected \in Expectation /\ Expected' = Expect(Expected, EndCall) /\ given' = given
  BY <1>1, ExpectPushed DEF StopRecording, assets
<1>3. Expected'.ok
  BY <1>1, <1>2, ExpectParts DEF AsExpected
<1>4. ~tape'.on
  BY DEF StopRecording, NoTape
<1> QED
  BY <1>2, <1>3, <1>4 DEF AsExpected

LEMMA RunBeginExpected ==
  ASSUME Order, Order', AsExpected, RunBegin
  PROVE  AsExpected'
<1> USE DEF Order
<1>1. NextCall(BeginCall)
  BY DEF RunBegin
<1>2. ~writer.writing /\ ~writer.broken
  BY <1>1, InTurn DEF WriterInOrder
<1>3. PICK open \in BOOLEAN : Begin(open)
  BY <1>2 DEF RunBegin
<1>4. writer'.open = open
  BY <1>3 DEF Begin, Types
<1>5. given' = <<>> \/ (~open /\ given' = given)
  BY <1>3 DEF Begin, NewFile
<1>6. given' \in Starts
  <2>1. <<>> \in Starts
    BY EmptySeq DEF Starts
  <2> QED
    BY <1>5, <2>1 DEF AsExpected
<1>7. Expect(AtHand, BeginCall).known /\ Expect(AtHand, BeginCall).items = <<>>
  <2>1. BeginCall \in Call /\ BeginCall.type = "begin"
    BY DEF Call, BeginCall
  <2> QED
    BY <2>1, AtHandType, ExpectParts
<1>8. writer'.open => /\ Expect(AtHand, BeginCall).known
                      /\ Expect(AtHand, BeginCall).items = given'
  BY <1>4, <1>5, <1>7
<1> QED
  BY <1>1, <1>6, <1>8, ExpectPopped

LEMMA RunAddMessageExpected ==
  ASSUME Order, Order', AsExpected, RunAddMessage
  PROVE  AsExpected'
<1> USE DEF Order
<1>1. PICK item : NextCall(AddCall(item)) /\ RunAdd_(item)
  BY DEF RunAddMessage
<1> DEFINE c == AddCall(item)
<1>2. c \in Call /\ c.type = "add" /\ c.item = item
  BY <1>1, InTurn DEF AddCall
<1>3. writer.writing /\ ~writer.broken
  BY <1>1, InTurn, CallsDiffer DEF WriterInOrder
<1>4. AtHand.known = writer.open /\ AtHand.items = given /\ AtHand.ok
  BY DEF AtHand
<1>5. NextCall(c)
  BY <1>1
<1> HIDE DEF c
<1>6. AtHand \in Expectation /\ Expect(AtHand, c).ok
  BY <1>5, AtHandType, ExpectFirst
<1>7. CASE ~writer'.open /\ given' = given
  BY <1>5, <1>7, ExpectPopped DEF AsExpected
<1>8. CASE writer.open /\ Take(item)
  <2>1. given' = Append(given, item)
    BY <1>8 DEF Take
  <2>2. /\ Expect(AtHand, c).known /\ Expect(AtHand, c).items = Append(given, item)
        /\ Append(given, item) \in Starts
    BY <1>2, <1>4, <1>6, <1>8, ExpectParts
  <2> QED
    BY <1>5, <2>1, <2>2, ExpectPopped
<1>9. CASE ~writer.open
  <2>1. Ignored
    BY <1>1, <1>3, <1>9 DEF RunAdd_
  <2> QED
    BY <1>7, <1>9, <2>1 DEF Ignored, assets
<1>10. CASE writer.open /\ Len(writer.queue) > QueueCap
  <2>1. Overflow
    BY <1>1, <1>3, <1>10 DEF RunAdd_
  <2>2. ~writer'.open /\ given' = given
    BY <2>1 DEF Overflow, Types
  <2> QED
    BY <1>7, <2>2
<1>11. CASE writer.open /\ ~(Len(writer.queue) > QueueCap)
  BY <1>1, <1>3, <1>8, <1>11 DEF RunAdd_
<1> QED
  BY <1>9, <1>10, <1>11

LEMMA ResultOpens ==
  ASSUME Types, NEW result \in Results
  PROVE  /\ result.writer.open => writer.open
         /\ ~Closed(result.writer).open
<1>1. writer \in [writing : BOOLEAN, broken : BOOLEAN, open : BOOLEAN, queue : Seq(Recordable)]
  BY DEF Types
<1>2. result.writer = writer \/ result.writer = [writer EXCEPT !.queue = <<>>]
        \/ result.writer = [writer EXCEPT !.open = FALSE]
  <2>1. CASE result = [writer |-> writer, entries |-> <<>>]
    BY <2>1
  <2>2. CASE result = Written
    BY <2>2 DEF Written
  <2>3. ASSUME NEW n \in 0 .. (Len(writer.queue) - 1), result = Failed(n)
        PROVE  result.writer = [writer EXCEPT !.open = FALSE]
    BY <2>3 DEF Failed
  <2> QED
    BY <2>1, <2>2, <2>3 DEF Results
<1> QED
  BY <1>1, <1>2 DEF Closed

LEMMA RunEndExpected ==
  ASSUME Order, Order', AsExpected, RunEnd
  PROVE  AsExpected'
<1> USE DEF Order
<1>1. NextCall(EndCall)
  BY DEF RunEnd
<1>2. writer.writing /\ ~writer.broken
  BY <1>1, InTurn, CallsDiffer DEF WriterInOrder
<1>3. /\ UNCHANGED <<stale, given>>
      /\ \E result \in Results : writer' = Closed(result.writer)
  BY <1>2 DEF RunEnd
<1>4. ~writer'.open
  BY <1>3, ResultOpens
<1> QED
  BY <1>1, <1>3, <1>4, ExpectPopped DEF AsExpected

LEMMA ProcessExpected ==
  ASSUME Order, Order', AsExpected, Process
  PROVE  AsExpected'
<1> USE DEF Order
<1>1. UNCHANGED <<tape, calls, given>>
  BY DEF Process, recorder
<1>2. \E result \in Results : writer' = result.writer
  BY DEF Process
<1>3. writer'.open => writer.open
  BY <1>2, ResultOpens
<1> QED
  BY <1>1, <1>3, ExpectKept

LEMMA PlaybackExpected ==
  ASSUME Order, Order', AsExpected, UNCHANGED <<recorder, assets>>
  PROVE  AsExpected'
<1> USE DEF Order
<1>1. UNCHANGED <<tape, calls, given, writer>>
  BY DEF recorder, assets
<1> QED
  BY <1>1, ExpectKept

LEMMA InitExpected ==
  ASSUME Init
  PROVE  AsExpected
<1>1. tape = NoTape /\ calls = <<>> /\ writer = NewWriter /\ given = <<>>
  BY DEF Init
<1>2. Expected = AtHand
  BY <1>1, Expecting!FoldEmpty DEF Expected
<1>3. <<>> \in Starts
  BY EmptySeq DEF Starts
<1> QED
  BY <1>1, <1>2, <1>3 DEF AsExpected, AtHand, NoTape

-----------------------------------------------------------------------------
(* What a file has up to some place.                                       *)

\* The messages of the first n entries.
At(n) == Msgs(SubSeq(disk.entries, 1, n))

\* They are all there.
Clear(n) == n \in 0 .. Len(disk.entries) /\ \A i \in 1 .. n : disk.entries[i] # Torn

LEMMA MsgsParts ==
  ASSUME NEW q \in Seq(Recordable)
  PROVE  /\ Msgs(q) \in Seq(Msg) /\ Len(Msgs(q)) = Len(q)
         /\ \A i \in 1 .. Len(q) : Msgs(q)[i] = q[i].msg /\ q[i].msg \in Msg
<1>1. DOMAIN q = 1 .. Len(q) /\ Len(q) \in Nat
  BY LenProperties
<1>2. \A i \in 1 .. Len(q) : q[i].msg \in Msg
  <2>1. \A i \in 1 .. Len(q) : q[i] \in Recordable
    BY ElementOfSeq
  <2>2. \A x \in Recordable : x.msg \in Msg
    BY DEF Recordable
  <2> QED
    BY <2>1, <2>2
<1>3. Msgs(q) = [i \in 1 .. Len(q) |-> q[i].msg]
  BY <1>1 DEF Msgs
<1>4. Msgs(q) \in [1 .. Len(q) -> Msg]
  BY <1>2, <1>3
<1> QED
  BY <1>1, <1>2, <1>3, <1>4, SeqDef

LEMMA FirstParts ==
  ASSUME NEW S, NEW q \in Seq(S), NEW n \in 0 .. Len(q)
  PROVE  /\ SubSeq(q, 1, n) \in Seq(S) /\ Len(SubSeq(q, 1, n)) = n /\ n \in Nat
         /\ \A i \in 1 .. n : SubSeq(q, 1, n)[i] = q[i] /\ q[i] \in S
<1>1. Len(q) \in Nat /\ n \in Nat
  BY LenProperties
<1>2. \A i \in 1 .. n : q[i] \in S
  BY <1>1, ElementOfSeq
<1> QED
  BY <1>1, <1>2, SubSeqProperties

LEMMA FirstOfFirst ==
  ASSUME NEW S, NEW q \in Seq(S), NEW k \in 0 .. Len(q), NEW n \in 0 .. k
  PROVE  SubSeq(SubSeq(q, 1, k), 1, n) = SubSeq(q, 1, n)
<1> DEFINE p == SubSeq(q, 1, k)
           a == SubSeq(p, 1, n)
           b == SubSeq(q, 1, n)
<1>1. p \in Seq(S) /\ Len(p) = k /\ k \in Nat /\ \A i \in 1 .. k : p[i] = q[i]
  BY FirstParts
<1>2. Len(q) \in Nat /\ n \in 0 .. Len(q) /\ n \in 0 .. k
  BY LenProperties
<1>3. b \in Seq(S) /\ Len(b) = n /\ \A i \in 1 .. n : b[i] = q[i]
  BY <1>2, FirstParts
<1> HIDE DEF p
<1>4. a \in Seq(S) /\ Len(a) = n /\ \A i \in 1 .. n : a[i] = p[i]
  BY <1>1, FirstParts
<1> HIDE DEF a, b
<1>5. \A i \in 1 .. n : a[i] = b[i]
  BY <1>1, <1>2, <1>3, <1>4
<1>6. a = b
  BY <1>3, <1>4, <1>5, SeqEqual
<1> QED
  BY <1>6 DEF a, b, p

LEMMA MsgsFirst ==
  ASSUME NEW q \in Seq(Recordable), NEW n \in 0 .. Len(q)
  PROVE  Msgs(SubSeq(q, 1, n)) = SubSeq(Msgs(q), 1, n)
<1> DEFINE p == SubSeq(q, 1, n)
           a == Msgs(p)
           b == SubSeq(Msgs(q), 1, n)
<1>1. p \in Seq(Recordable) /\ Len(p) = n /\ n \in Nat /\ \A i \in 1 .. n : p[i] = q[i]
  BY FirstParts
<1>2. Msgs(q) \in Seq(Msg) /\ Len(Msgs(q)) = Len(q) /\ Len(q) \in Nat
      /\ \A i \in 1 .. Len(q) : Msgs(q)[i] = q[i].msg
  BY MsgsParts, LenProperties
<1>3. b \in Seq(Msg) /\ Len(b) = n /\ \A i \in 1 .. n : b[i] = Msgs(q)[i]
  BY <1>2, FirstParts
<1> HIDE DEF p
<1>4. a \in Seq(Msg) /\ Len(a) = n /\ \A i \in 1 .. n : a[i] = p[i].msg
  BY <1>1, MsgsParts
<1> HIDE DEF a, b
<1>5. \A i \in 1 .. n : i \in 1 .. Len(q)
  BY <1>1, <1>2
<1>6. \A i \in 1 .. n : a[i] = b[i]
  BY <1>1, <1>2, <1>3, <1>4, <1>5
<1>7. a = b
  BY <1>3, <1>4, <1>6, SeqEqual
<1> QED
  BY <1>7 DEF a, b, p

LEMMA StartsWork ==
  ASSUME NEW items \in Starts
  PROVE  \A n \in 0 .. Len(items) : Works(SubSeq(Msgs(items), 1, n))
<1>1. items \in Seq(Recordable)
  BY DEF Starts
<1>2. CASE items = <<>>
  <2>1. Len(items) = 0 /\ Msgs(items) \in Seq(Msg)
    BY <1>1, <1>2, EmptySeq, MsgsParts
  <2>2. SubSeq(Msgs(items), 1, 0) = <<>>
    BY SubSeqEmpty
  <2>3. Works(SubSeq(Msgs(items), 1, 0))
    BY <2>2, NothingWorks
  <2>4. \A n \in 0 .. Len(items) : n = 0
    BY <2>1
  <2> QED
    BY <2>3, <2>4
<1>3. ASSUME NEW script \in Script, NEW k \in 0 .. Len(script), items = SubSeq(script, 1, k),
             NEW n \in 0 .. Len(items)
      PROVE  Works(SubSeq(Msgs(items), 1, n))
  <2>1. script \in Seq(Recordable) /\ Len(script) \in Nat
    BY ScriptAssumption, LenProperties
  <2>2. Len(items) = k
    BY <1>3, <2>1, FirstParts
  <2>3. n \in 0 .. k /\ n \in 0 .. Len(script)
    BY <2>1, <2>2
  <2>4. Works(Msgs(SubSeq(script, 1, n)))
    BY <2>3, ScriptAssumption
  <2>5. SubSeq(items, 1, n) = SubSeq(script, 1, n)
    BY <1>3, <2>1, <2>3, FirstOfFirst
  <2>6. Msgs(SubSeq(items, 1, n)) = SubSeq(Msgs(items), 1, n)
    BY <1>1, MsgsFirst
  <2> QED
    BY <2>4, <2>5, <2>6
<1> QED
  BY <1>2, <1>3 DEF Starts

\* A file that was begun with nothing left over has what it was given.
LEMMA FileHas ==
  ASSUME Order, disk.header, stale = <<>>, NEW n, Clear(n)
  PROVE  /\ n \in 0 .. Len(given) /\ given \in Seq(Recordable)
         /\ \A i \in 1 .. n : disk.entries[i] = Entry(given[i])
<1> DEFINE d == disk.entries
           g == Len(given)
<1>1. given \in Seq(Recordable) /\ g \in Nat /\ d \in Seq(FileEntry \cup {Torn})
  BY LenProperties DEF Order, Types
<1>2. Due = Entries(given)
  BY <1>1, ConcatEmptySeq DEF Due
<1>3. Due \in Seq(FileEntry) /\ Len(Due) = g /\ \A i \in 1 .. g : Due[i] = Entry(given[i])
  BY <1>1, <1>2, EntriesType
<1>4. PICK k \in 0 .. g : d \in {SubSeq(Due, 1, k), Append(SubSeq(Due, 1, k), Torn)}
  BY <1>3 DEF Order, FileInOrder
<1> DEFINE f == SubSeq(Due, 1, k)
<1>5. f \in Seq(FileEntry) /\ Len(f) = k /\ k \in Nat /\ \A i \in 1 .. k : f[i] = Due[i]
  BY <1>3, FirstParts
<1>6. n \in 0 .. Len(d) /\ \A i \in 1 .. n : d[i] # Torn
  BY DEF Clear
<1>7. d = f \/ d = Append(f, Torn)
  BY <1>4
<1> HIDE DEF d, f, g
<1>8. n \in 0 .. k /\ \A i \in 1 .. n : d[i] = f[i]
  <2>1. CASE d = f
    BY <1>5, <1>6, <2>1
  <2>2. CASE d = Append(f, Torn)
    <3>1. /\ Len(d) = k + 1 /\ d[k + 1] = Torn
          /\ \A i \in 1 .. k : d[i] = f[i]
      <4>1. f \in Seq(FileEntry \cup {Torn})
        BY <1>5, SeqMonotonic
      <4> QED
        BY <1>5, <2>2, <4>1, AppendProperties
    <3>2. n # k + 1
      <4>1. ASSUME n = k + 1 PROVE FALSE
        <5>1. n \in 1 .. n
          BY <1>5, <4>1
        <5> QED
          BY <1>6, <3>1, <4>1, <5>1
      <4> QED
        BY <4>1
    <3>3. n \in 0 .. k
      BY <1>5, <1>6, <3>1, <3>2
    <3>4. \A i \in 1 .. n : i \in 1 .. k
      BY <1>5, <3>3
    <3> QED
      BY <3>1, <3>3, <3>4
  <2> QED
    BY <1>7, <2>1, <2>2
<1>9. n \in 0 .. g /\ \A i \in 1 .. n : i \in 1 .. k /\ i \in 1 .. g
  BY <1>1, <1>5, <1>8
<1>10. \A i \in 1 .. n : d[i] = Entry(given[i])
  BY <1>3, <1>5, <1>8, <1>9
<1> QED
  BY <1>1, <1>9, <1>10 DEF d, g

LEMMA AtHas ==
  ASSUME Order, disk.header, stale = <<>>, NEW n, Clear(n)
  PROVE  /\ n \in 0 .. Len(Msgs(given)) /\ Msgs(given) \in Seq(Msg)
         /\ Len(Msgs(given)) = Len(given)
         /\ At(n) = SubSeq(Msgs(given), 1, n)
<1> DEFINE e == SubSeq(disk.entries, 1, n)
           f == SubSeq(Msgs(given), 1, n)
<1>1. /\ n \in 0 .. Len(given) /\ given \in Seq(Recordable)
      /\ \A i \in 1 .. n : disk.entries[i] = Entry(given[i])
  BY FileHas
<1>2. Msgs(given) \in Seq(Msg) /\ Len(Msgs(given)) = Len(given) /\ Len(given) \in Nat
      /\ \A i \in 1 .. Len(given) : Msgs(given)[i] = given[i].msg
  BY <1>1, MsgsParts, LenProperties
<1>3. f \in Seq(Msg) /\ Len(f) = n /\ n \in Nat /\ \A i \in 1 .. n : f[i] = Msgs(given)[i]
  BY <1>1, <1>2, FirstParts
<1>4. e \in Seq(FileEntry \cup {Torn}) /\ Len(e) = n /\ \A i \in 1 .. n : e[i] = disk.entries[i]
  BY FirstParts DEF Clear, Order, Types
<1> HIDE DEF e, f
<1>5. DOMAIN e = 1 .. n /\ DOMAIN f = 1 .. n
  BY <1>3, <1>4, LenProperties
<1>6. \A i \in 1 .. n : e[i].msg = f[i]
  <2> TAKE i \in 1 .. n
  <2>1. i \in 1 .. Len(given)
    BY <1>1, <1>2, <1>3
  <2>2. Entry(given[i]).msg = given[i].msg
    BY DEF Entry
  <2> QED
    BY <1>1, <1>2, <1>3, <1>4, <2>1, <2>2
<1>7. Msgs(e) = [i \in 1 .. n |-> f[i]]
  BY <1>5, <1>6 DEF Msgs
<1>8. f = [i \in 1 .. n |-> f[i]]
  BY <1>3, SeqDef
<1>9. At(n) = f
  BY <1>7, <1>8 DEF At, e
<1> QED
  BY <1>1, <1>2, <1>9 DEF f

\* ... so what is there plays.
LEMMA AtWorks ==
  ASSUME Order, AsExpected, disk.header, stale = <<>>, NEW n, Clear(n)
  PROVE  /\ At(n) \in Seq(Msg) /\ Cast(At(n)).ok /\ Cast(At(n)) \in World
         /\ Good(Heard(At(n)))
         /\ Out(Heard(At(n))) = Cast(At(n))
         /\ Heard(At(n)).pending = <<>> =>
              Cast(At(n)) = Well(Heard(At(n)).objs) /\ Homes(Heard(At(n)).objs)
<1> DEFINE all == Msgs(given)
           q == At(n)
<1>1. n \in 0 .. Len(all) /\ all \in Seq(Msg) /\ Len(all) = Len(given)
      /\ q = SubSeq(all, 1, n)
  BY AtHas
<1>2. \A i \in 0 .. Len(all) : Works(SubSeq(all, 1, i))
  BY <1>1, StartsWork DEF AsExpected
<1> HIDE DEF all, q
<1>3. q \in Seq(Msg) /\ Len(q) = n
  BY <1>1, FirstParts
<1>4. ASSUME NEW i \in 0 .. Len(q) PROVE Works(SubSeq(q, 1, i))
  <2>1. i \in 0 .. n /\ i \in 0 .. Len(all)
    BY <1>1, <1>3, LenProperties
  <2>2. SubSeq(q, 1, i) = SubSeq(all, 1, i)
    BY <1>1, <2>1, FirstOfFirst
  <2> QED
    BY <1>2, <2>1, <2>2
<1>5. Cast(q) \in World
  BY <1>3, CastParts
<1>6. /\ Cast(q).ok
      /\ Good(Heard(q))
      /\ Out(Heard(q)) = Cast(q)
      /\ Heard(q).pending = <<>> => Cast(q) = Well(Heard(q).objs) /\ Homes(Heard(q).objs)
  BY <1>3, <1>4, WorksWell
<1> QED
  BY <1>3, <1>5, <1>6 DEF q

\* One entry more.
LEMMA AtMore ==
  ASSUME Order, disk.header, stale = <<>>, NEW n, Clear(n), n < Len(disk.entries),
         disk.entries[n + 1] # Torn
  PROVE  /\ Clear(n + 1)
         /\ disk.entries[n + 1].msg \in Msg
         /\ At(n) \in Seq(Msg)
         /\ At(n + 1) = Append(At(n), disk.entries[n + 1].msg)
<1> DEFINE all == Msgs(given)
<1>1. n \in 0 .. Len(all) /\ all \in Seq(Msg) /\ Len(all) = Len(given)
      /\ At(n) = SubSeq(all, 1, n)
  BY AtHas
<1>2. Len(disk.entries) \in Nat /\ n \in Nat
  BY LenProperties DEF Clear, Order, Types
<1>3. Clear(n + 1)
  <2>1. n + 1 \in 0 .. Len(disk.entries)
    BY <1>2
  <2>2. \A i \in 1 .. (n + 1) : i \in 1 .. n \/ i = n + 1
    BY <1>2
  <2> QED
    BY <2>1, <2>2 DEF Clear
<1>4. n + 1 \in 0 .. Len(all) /\ At(n + 1) = SubSeq(all, 1, n + 1)
  BY <1>3, AtHas
<1>5. given \in Seq(Recordable) /\ disk.entries[n + 1] = Entry(given[n + 1])
  <2>1. n + 1 \in 1 .. (n + 1)
    BY <1>2
  <2> QED
    BY <1>3, <2>1, FileHas
<1>6. n + 1 \in 1 .. Len(given) /\ n \in 0 .. (Len(all) - 1)
  BY <1>1, <1>2, <1>4, <1>5, LenProperties
<1>7. all[n + 1] = given[n + 1].msg /\ given[n + 1].msg \in Msg
  BY <1>5, <1>6, MsgsParts
<1>8. disk.entries[n + 1].msg = all[n + 1]
  BY <1>5, <1>7 DEF Entry
<1> HIDE DEF all
<1>9. /\ SubSeq(all, 1, n) \in Seq(Msg)
      /\ SubSeq(all, 1, n + 1) = Append(SubSeq(all, 1, n), all[n + 1])
  BY <1>1, <1>6, OneMore
<1> QED
  BY <1>1, <1>3, <1>4, <1>7, <1>8, <1>9

-----------------------------------------------------------------------------
(* What a player has and what it saves.                                    *)

LEMMA MinThere ==
  ASSUME NEW n \in Nat, NEW S \in SUBSET (1 .. n), S # {}
  PROVE  Min(S) \in S
<1> DEFINE T == {i \in 0 .. n : \A j \in S : j > i}
<1>1. \E x \in S : \A y \in S : x <= y
  <2> SUFFICES ASSUME ~ \E x \in S : \A y \in S : x <= y PROVE FALSE
    OBVIOUS
  <2>1. 0 \in T
    OBVIOUS
  <2>2. ASSUME NEW i \in 0 .. (n - 1), i \in T PROVE i + 1 \in T
    <3>1. \A j \in S : j >= i + 1
      BY <2>2
    <3>2. i + 1 \notin S
      BY <3>1
    <3> QED
      BY <3>1, <3>2
  <2> HIDE DEF T
  <2>3. \A i \in 0 .. n : i \in T
    BY <2>1, <2>2, Hearing!Induction
  <2>4. n \in T
    BY <2>3
  <2>5. \A j \in S : j > n
    BY <2>4 DEF T
  <2>6. PICK j \in S : TRUE
    OBVIOUS
  <2>7. j \in 1 .. n /\ j > n
    BY <2>5, <2>6
  <2> QED
    BY <2>7
<1> QED
  BY <1>1 DEF Min

LEMMA MaxThere ==
  ASSUME NEW n \in Nat, NEW S \in SUBSET (1 .. n), S # {}
  PROVE  Max(S) \in S
<1> DEFINE T == {i \in 0 .. n : \A j \in S : j <= n - i}
<1>1. \E x \in S : \A y \in S : x >= y
  <2> SUFFICES ASSUME ~ \E x \in S : \A y \in S : x >= y PROVE FALSE
    OBVIOUS
  <2>1. 0 \in T
    OBVIOUS
  <2>2. ASSUME NEW i \in 0 .. (n - 1), i \in T PROVE i + 1 \in T
    <3>1. \A j \in S : j <= n - i
      BY <2>2
    <3>2. n - i \notin S
      BY <3>1
    <3> QED
      BY <3>1, <3>2
  <2> HIDE DEF T
  <2>3. \A i \in 0 .. n : i \in T
    BY <2>1, <2>2, Hearing!Induction
  <2>4. n \in T
    BY <2>3
  <2>5. \A j \in S : j <= n - n
    BY <2>4 DEF T
  <2>6. PICK j \in S : TRUE
    OBVIOUS
  <2>7. j \in 1 .. n /\ j <= n - n
    BY <2>5, <2>6
  <2> QED
    BY <2>7
<1> QED
  BY <1>1 DEF Max

State ==
  [dump : Msg, corrections : Seq(Msg), pos : Nat, time : Nat, torn : BOOLEAN]

Performer ==
  [on : {TRUE}, session : Session, header : BOOLEAN, time : Nat, pos : Nat,
   states : Seq(State), updating : BOOLEAN, torn : BOOLEAN]

\* Each saved state that is of a whole moment makes what playing up to there
\* makes.
SavedTrue(saved) ==
  /\ Clear(saved.pos)
  /\ ~saved.torn =>
       /\ Heard(At(saved.pos)).pending = <<>>
       /\ Cast(<<saved.dump>> \o saved.corrections) = Cast(At(saved.pos))

OutOfStep ==
  \E i \in DOMAIN disk.entries : disk.entries[i] # Torn /\ ~InStep(disk.entries[i])

InShape(p) ==
  /\ p \in Performer
  /\ ~p.session.ended => Good(p.session)
  /\ p.header => disk.header
  /\ ~p.header => p.session.ended

TrueTo(p) ==
  /\ Clear(p.pos)
  /\ \A i \in 1 .. Len(p.states) : SavedTrue(p.states[i])
  /\ ~p.torn =>
       IF p.session.ended THEN OutOfStep
       ELSE /\ Out(p.session) = Cast(At(p.pos))
            /\ Follows(p.session, Heard(At(p.pos)))

LEMMA ResetHeader ==
  ASSUME NEW s \in Session, NEW header \in BOOLEAN
  PROVE  LET t == [Reset(s) EXCEPT !.ended = @ \/ ~header] IN
         /\ Good(t) /\ t.cmds = <<>> /\ t.pending = <<>>
         /\ t.ended <=> s.ended \/ ~header
         /\ ~t.ended => Out(t) = Well(NoObjects)
<1> DEFINE r == Reset(s)
           e == r.ended \/ ~header
           t == [r EXCEPT !.ended = e]
<1>1. /\ Good(r) /\ r.ended = s.ended /\ r.cmds = <<>> /\ r.pending = <<>>
      /\ ~s.ended => Out(r) = Well(NoObjects)
  BY ResetParts
<1>2. r \in Session /\ r.ended \in BOOLEAN
  BY <1>1 DEF Good, Session
<1>3. e \in BOOLEAN /\ (e <=> r.ended \/ ~header)
  BY <1>2
<1> HIDE DEF r, e
<1>4. /\ t \in Session /\ t.ended = e /\ t.objs = r.objs /\ t.cmds = r.cmds
      /\ t.pending = r.pending /\ t.buffered = r.buffered
  BY <1>2, <1>3 DEF Session
<1> HIDE DEF t
<1>5. Good(t)
  BY <1>1, <1>4 DEF Good
<1>6. t.ended <=> s.ended \/ ~header
  BY <1>1, <1>3, <1>4
<1>7. ASSUME ~t.ended PROVE Out(t) = Well(NoObjects)
  <2>1. ~r.ended /\ ~t.ended /\ ~s.ended
    BY <1>1, <1>6, <1>7
  <2>2. t.ended = FALSE /\ r.ended = FALSE
    BY <1>2, <1>3, <1>4, <2>1
  <2>3. Shown(t) = Shown(r)
    BY <1>4, <2>2 DEF Shown
  <2>4. Out(t) = Out(r)
    BY <1>4, <2>3 DEF Out
  <2> QED
    BY <1>1, <2>1, <2>4
<1> QED
  BY <1>1, <1>4, <1>5, <1>6, <1>7 DEF t, e, r

LEMMA RewoundParts ==
  ASSUME NEW p \in Performer
  PROVE  LET r == Rewound(p) IN
         /\ r \in Performer
         /\ r.header = p.header /\ r.states = p.states /\ r.pos = 0 /\ r.torn = FALSE
         /\ r.updating = FALSE
         /\ Good(r.session) /\ r.session.cmds = <<>> /\ r.session.pending = <<>>
         /\ r.session.ended <=> p.session.ended \/ ~p.header
         /\ ~r.session.ended => Out(r.session) = Well(NoObjects)
<1> DEFINE t == [Reset(p.session) EXCEPT !.ended = @ \/ ~p.header]
           r == Rewound(p)
<1>1. p.session \in Session /\ p.header \in BOOLEAN
  BY DEF Performer
<1>2. /\ Good(t) /\ t.cmds = <<>> /\ t.pending = <<>>
      /\ t.ended <=> p.session.ended \/ ~p.header
      /\ ~t.ended => Out(t) = Well(NoObjects)
  BY <1>1, ResetHeader
<1>3. r = [p EXCEPT !.session = t, !.time = 0, !.pos = 0, !.updating = FALSE, !.torn = FALSE]
  BY DEF Rewound
<1> HIDE DEF t, r
<1>4. t \in Session
  BY <1>2 DEF Good
<1>5. /\ r \in Performer /\ r.session = t
      /\ r.header = p.header /\ r.states = p.states /\ r.pos = 0 /\ r.torn = FALSE
      /\ r.updating = FALSE
  BY <1>3, <1>4 DEF Performer
<1>6. /\ r \in Performer
      /\ r.header = p.header /\ r.states = p.states /\ r.pos = 0 /\ r.torn = FALSE
      /\ r.updating = FALSE
      /\ Good(r.session) /\ r.session.cmds = <<>> /\ r.session.pending = <<>>
      /\ r.session.ended <=> p.session.ended \/ ~p.header
      /\ ~r.session.ended => Out(r.session) = Well(NoObjects)
  BY <1>2, <1>5
<1> QED
  BY <1>6 DEF r

LEMMA AtStart ==
  ASSUME Types
  PROVE  Clear(0) /\ At(0) = <<>> /\ Cast(At(0)) = Well(NoObjects)
         /\ Heard(At(0)).pending = <<>>
<1>1. Len(disk.entries) \in Nat
  BY LenProperties DEF Types
<1>2. Clear(0)
  BY <1>1 DEF Clear
<1>3. SubSeq(disk.entries, 1, 0) = <<>>
  BY SubSeqEmpty
<1>4. Msgs(<<>>) = <<>>
  BY DEF Msgs
<1>5. At(0) = <<>>
  BY <1>3, <1>4 DEF At
<1> QED
  BY <1>2, <1>5, CastParts, NothingHeard, NewParts

\* A player that starts again plays true.
LEMMA RewoundTrue ==
  ASSUME Types, NEW p \in Performer, p.header, ~p.session.ended,
         \A i \in 1 .. Len(p.states) : SavedTrue(p.states[i])
  PROVE  TrueTo(Rewound(p))
<1> DEFINE r == Rewound(p)
<1>1. /\ r.states = p.states /\ r.pos = 0
      /\ r.session.ended <=> p.session.ended \/ ~p.header
      /\ ~r.session.ended => Out(r.session) = Well(NoObjects)
  BY RewoundParts
<1> HIDE DEF r
<1>2. ~r.session.ended /\ Out(r.session) = Well(NoObjects)
  BY <1>1
<1>3. Clear(0) /\ Cast(At(0)) = Well(NoObjects) /\ Heard(At(0)).pending = <<>>
  BY AtStart
<1>4. Follows(r.session, Heard(At(0)))
  BY <1>3 DEF Follows
<1>5. TrueTo(r)
  BY <1>1, <1>2, <1>3, <1>4 DEF TrueTo
<1> QED
  BY <1>5 DEF r

LEMMA RewoundShape ==
  ASSUME NEW p \in Performer, p.header => disk.header
  PROVE  InShape(Rewound(p))
<1> DEFINE r == Rewound(p)
<1>1. /\ r \in Performer /\ r.header = p.header /\ Good(r.session)
      /\ r.session.ended <=> p.session.ended \/ ~p.header
  BY RewoundParts
<1> HIDE DEF r
<1>2. InShape(r)
  BY <1>1 DEF InShape
<1> QED
  BY <1>2 DEF r

LEMMA SavedParts ==
  ASSUME NEW p \in Performer
  PROVE  /\ Saved(p) \in State
         /\ Saved(p).dump = DumpFullState(p.session.objs)
         /\ Saved(p).corrections = GetCorrectionMessages(p.session.objs)
         /\ Saved(p).pos = p.pos
         /\ Saved(p).torn <=> p.torn \/ p.session.pending # <<>>
<1> DEFINE objs == p.session.objs
           dump == DumpFullState(objs)
           corrections == GetCorrectionMessages(objs)
           torn == p.torn \/ p.session.pending # <<>>
<1>1. objs \in Objs /\ p.pos \in Nat /\ p.time \in Nat /\ p.torn \in BOOLEAN
  BY DEF Performer, Session
<1>2. dump \in Msg /\ corrections \in Seq(Msg)
  BY <1>1, Dumped, Corrected
<1>3. torn \in BOOLEAN
  BY <1>1
<1>4. Saved(p) = [dump |-> dump, corrections |-> corrections, pos |-> p.pos,
                  time |-> p.time, torn |-> torn]
  BY DEF Saved
<1>5. torn <=> p.torn \/ p.session.pending # <<>>
  OBVIOUS
<1> HIDE DEF dump, corrections, torn
<1>6. /\ Saved(p) \in State /\ Saved(p).dump = dump /\ Saved(p).corrections = corrections
      /\ Saved(p).pos = p.pos /\ Saved(p).torn = torn
  BY <1>1, <1>2, <1>3, <1>4 DEF State
<1>7. Saved(p).torn <=> p.torn \/ p.session.pending # <<>>
  BY <1>5, <1>6
<1> QED
  BY <1>6, <1>7 DEF dump, corrections

\* Saving changes nothing but what is saved.
LEMMA SaveParts ==
  ASSUME NEW p \in Performer
  PROVE  LET r == SaveState(p) IN
         /\ r \in Performer /\ r.session = p.session /\ r.header = p.header
         /\ r.time = p.time /\ r.pos = p.pos /\ r.torn = p.torn
         /\ r.states = p.states \/ r.states = Append(p.states, Saved(p))
<1> DEFINE r == SaveState(p)
           more == Append(p.states, Saved(p))
<1>1. r = p \/ r = [p EXCEPT !.states = more]
  BY DEF SaveState
<1>2. more \in Seq(State)
  <2>1. p.states \in Seq(State) /\ Saved(p) \in State
    BY SavedParts DEF Performer
  <2> QED
    BY <2>1, AppendProperties
<1> HIDE DEF r, more
<1>3. CASE r = p
  BY <1>3 DEF r
<1>4. CASE r = [p EXCEPT !.states = more]
  <2>1. /\ r \in Performer /\ r.session = p.session /\ r.header = p.header
        /\ r.time = p.time /\ r.pos = p.pos /\ r.torn = p.torn
        /\ r.states = more
    BY <1>2, <1>4 DEF Performer
  <2> QED
    BY <2>1 DEF r, more
<1> QED
  BY <1>1, <1>3, <1>4

\* What a player saves when it has nothing to run is true.
LEMMA SavedIsTrue ==
  ASSUME Order, AsExpected, disk.header, stale = <<>>, NEW p, InShape(p), TrueTo(p),
         ~p.session.ended, p.session.cmds = <<>>
  PROVE  SavedTrue(Saved(p))
<1> DEFINE s == p.session
           h == Heard(At(p.pos))
           v == Saved(p)
           state == <<v.dump>> \o v.corrections
<1>1. p \in Performer /\ s \in Session /\ s.objs \in Objs /\ Clear(p.pos)
  BY DEF InShape, TrueTo, Performer, Session
<1>2. /\ v.dump = DumpFullState(s.objs) /\ v.corrections = GetCorrectionMessages(s.objs)
      /\ v.pos = p.pos /\ (v.torn <=> p.torn \/ s.pending # <<>>)
  BY <1>1, SavedParts
<1>3. ASSUME ~v.torn
      PROVE  Heard(At(v.pos)).pending = <<>> /\ Cast(state) = Cast(At(v.pos))
  <2>1. ~p.torn /\ s.pending = <<>>
    BY <1>2, <1>3
  <2>2. Out(s) = Cast(At(p.pos)) /\ h.pending = <<>>
    BY <2>1 DEF TrueTo, Follows
  <2>3. Out(s) = Shown(s)
    BY <1>1, <2>1, OutParts
  <2>4. Cast(At(p.pos)) = Well(h.objs) /\ Homes(h.objs)
    BY <1>1, <2>2, AtWorks
  <2>5. s.objs = h.objs
    <3> HIDE DEF s, h
    <3>1. Shown(s).objs = s.objs /\ Well(h.objs).objs = h.objs
      BY DEF Shown, Well
    <3> QED
      BY <2>2, <2>3, <2>4, <3>1
  <2>6. Cast(<<DumpFullState(s.objs)>> \o GetCorrectionMessages(s.objs)) = Well(s.objs)
    BY <1>1, <2>4, <2>5, Retold
  <2> HIDE DEF s, h, v
  <2> QED
    BY <1>2, <2>2, <2>4, <2>5, <2>6 DEF h
<1> HIDE DEF v, s
<1> QED
  BY <1>1, <1>2, <1>3 DEF SavedTrue, v

LEMMA SaveTrue ==
  ASSUME Order, AsExpected, disk.header, stale = <<>>, NEW p, InShape(p), TrueTo(p),
         ~p.session.ended, p.session.cmds = <<>>
  PROVE  TrueTo(SaveState(p))
<1> DEFINE r == SaveState(p)
           v == Saved(p)
<1>1. /\ p \in Performer /\ r.session = p.session
      /\ r.pos = p.pos /\ r.torn = p.torn
      /\ r.states = p.states \/ r.states = Append(p.states, v)
  BY SaveParts DEF InShape
<1>2. SavedTrue(v) /\ v \in State
  BY <1>1, SavedIsTrue, SavedParts
<1> HIDE DEF r, v
<1>3. \A i \in 1 .. Len(r.states) : SavedTrue(r.states[i])
  <2>1. \A i \in 1 .. Len(p.states) : SavedTrue(p.states[i])
    BY DEF TrueTo
  <2>2. CASE r.states = Append(p.states, v)
    <3>1. p.states \in Seq(State) /\ Len(p.states) \in Nat
      BY <1>1, LenProperties DEF Performer
    <3>2. /\ Len(r.states) = Len(p.states) + 1
          /\ \A i \in 1 .. Len(p.states) : r.states[i] = p.states[i]
          /\ r.states[Len(p.states) + 1] = v
      BY <1>2, <2>2, <3>1, AppendProperties
    <3>3. \A i \in 1 .. Len(r.states) : i \in 1 .. Len(p.states) \/ i = Len(p.states) + 1
      BY <3>1, <3>2
    <3> QED
      BY <1>2, <2>1, <3>2, <3>3
  <2> QED
    BY <1>1, <2>1, <2>2
<1>4. TrueTo(r)
  BY <1>1, <1>3 DEF TrueTo
<1> QED
  BY <1>4 DEF r

-----------------------------------------------------------------------------
(* A state that is restored.                                               *)

Handling == INSTANCE FoldProofs WITH Op <- HandleSessionMessage

LEMMA HandlesAll == \A b, q : Through(HandleSessionMessage, b, q) = Handling!Fold(b, q)
  BY DEF Through, Handling!Fold

LEMMA AllReceived ==
  ASSUME NEW s, Good(s), NEW q \in Seq(Msg)
  PROVE  LET t == Through(HandleSessionMessage, s, q) IN
         /\ Good(t) /\ t.ended = s.ended
         /\ Hearing!Fold(Out(s), q).ok => Out(t) = Hearing!Fold(Out(s), q)
<1> DEFINE F(p) == Hearing!Fold(Out(s), p)
           h(p) == Handling!Fold(s, p)
           Is(p) == /\ Good(h(p)) /\ h(p).ended = s.ended
                    /\ F(p).ok => Out(h(p)) = F(p)
           T == {p \in Seq(Msg) : Is(p)}
<1>1. Out(s) \in World
  BY OutParts DEF Good
<1>2. <<>> \in T
  <2>1. F(<<>>) = Out(s) /\ h(<<>>) = s
    BY Hearing!FoldEmpty, Handling!FoldEmpty
  <2> QED
    BY <2>1, EmptySeq
<1>3. ASSUME NEW p \in Seq(Msg), NEW x \in Msg, p \in T PROVE Append(p, x) \in T
  <2> DEFINE px == Append(p, x)
             t == h(p)
             u == HandleSessionMessage(t, x)
  <2>1. px \in Seq(Msg)
    BY AppendProperties
  <2>2. h(px) = u
    BY Handling!FoldAppend
  <2>3. F(px) = PlayMsg(F(p), x) /\ (F(px).ok => F(p).ok)
    BY <1>1, WellBefore
  <2>4. Is(p)
    BY <1>3
  <2>5. Good(t) /\ t.ended = s.ended /\ (F(p).ok => Out(t) = F(p))
    BY <2>4
  <2> HIDE DEF F, h, px, t
  <2>6. Good(u) /\ u.ended = t.ended /\ (Out(t).ok => Out(u) = PlayMsg(Out(t), x))
    BY <2>5, Received
  <2> HIDE DEF u
  <2>7. Is(px)
    BY <2>2, <2>3, <2>5, <2>6
  <2> QED
    BY <2>1, <2>7 DEF px
<1>4. q \in T
  <2> HIDE DEF T
  <2> QED
    BY <1>2, <1>3, SequenceInduction
<1>5. Is(q)
  BY <1>4
<1> QED
  BY <1>5, HandlesAll

LEMMA RestoredParts ==
  ASSUME NEW p \in Performer, NEW saved \in State
  PROVE  LET r == Restored(p, saved)
             state == <<saved.dump>> \o saved.corrections
         IN /\ r \in Performer
            /\ r.header = p.header /\ r.states = p.states
            /\ r.pos = saved.pos /\ r.torn = saved.torn
            /\ Good(r.session)
            /\ r.session.ended <=> p.session.ended \/ ~p.header
            /\ ~r.session.ended /\ Cast(state).ok => Out(r.session) = Cast(state)
<1> DEFINE b == Rewound(p)
           state == <<saved.dump>> \o saved.corrections
           t == Through(HandleSessionMessage, b.session, state)
           r == Restored(p, saved)
<1>1. /\ b \in Performer
      /\ b.header = p.header /\ b.states = p.states
      /\ Good(b.session)
      /\ b.session.ended <=> p.session.ended \/ ~p.header
      /\ ~b.session.ended => Out(b.session) = Well(NoObjects)
  BY RewoundParts
<1>2. state \in Seq(Msg)
  <2>1. saved.dump \in Msg /\ saved.corrections \in Seq(Msg)
    BY DEF State
  <2>2. <<saved.dump>> \in Seq(Msg)
    BY <2>1
  <2> QED
    BY <2>1, <2>2, ConcatProperties
<1>3. r = [b EXCEPT !.session = t, !.time = saved.time, !.pos = saved.pos, !.torn = saved.torn]
  BY DEF Restored
<1> HIDE DEF b, state
<1>4. /\ Good(t) /\ t.ended = b.session.ended
      /\ Hearing!Fold(Out(b.session), state).ok => Out(t) = Hearing!Fold(Out(b.session), state)
  BY <1>1, <1>2, AllReceived
<1> HIDE DEF t, r
<1>5. ~t.ended /\ Cast(state).ok => Out(t) = Cast(state)
  BY <1>1, <1>4 DEF Cast
<1>6. /\ r \in Performer /\ r.session = t
      /\ r.header = p.header /\ r.states = p.states
      /\ r.pos = saved.pos /\ r.torn = saved.torn
  <2>1. t \in Session
    BY <1>4 DEF Good
  <2>2. saved.time \in Nat /\ saved.pos \in Nat /\ saved.torn \in BOOLEAN
    BY DEF State
  <2>3. b \in Performer
    BY <1>1
  <2>4. /\ r \in Performer /\ r.session = t
        /\ r.header = b.header /\ r.states = b.states
        /\ r.pos = saved.pos /\ r.torn = saved.torn
    BY <1>3, <2>1, <2>2, <2>3 DEF Performer
  <2> QED
    BY <1>1, <2>4
<1>7. /\ r \in Performer
      /\ r.header = p.header /\ r.states = p.states
      /\ r.pos = saved.pos /\ r.torn = saved.torn
      /\ Good(r.session)
      /\ r.session.ended <=> p.session.ended \/ ~p.header
      /\ ~r.session.ended /\ Cast(state).ok => Out(r.session) = Cast(state)
  BY <1>1, <1>4, <1>5, <1>6
<1> QED
  BY <1>7 DEF r, state

LEMMA RestoredTrue ==
  ASSUME Order, AsExpected, disk.header, stale = <<>>, NEW p, InShape(p), TrueTo(p),
         ~p.session.ended, NEW i \in 1 .. Len(p.states)
  PROVE  TrueTo(Restored(p, p.states[i]))
<1> DEFINE v == p.states[i]
           r == Restored(p, v)
           state == <<v.dump>> \o v.corrections
<1>1. p \in Performer /\ p.header
  BY DEF InShape
<1>2. v \in State
  <2>1. p.states \in Seq(State)
    BY <1>1 DEF Performer
  <2> QED
    BY <2>1, ElementOfSeq
<1>3. SavedTrue(v)
  BY DEF TrueTo
<1> HIDE DEF v
<1>4. /\ r.states = p.states
      /\ r.pos = v.pos /\ r.torn = v.torn
      /\ r.session.ended <=> p.session.ended \/ ~p.header
      /\ ~r.session.ended /\ Cast(state).ok => Out(r.session) = Cast(state)
  BY <1>1, <1>2, RestoredParts
<1> HIDE DEF r, state
<1>5. Clear(v.pos)
  BY <1>3 DEF SavedTrue
<1>6. ASSUME ~v.torn
      PROVE  Out(r.session) = Cast(At(v.pos)) /\ Follows(r.session, Heard(At(v.pos)))
  <2>1. Heard(At(v.pos)).pending = <<>> /\ Cast(state) = Cast(At(v.pos))
    BY <1>3, <1>6 DEF SavedTrue, state
  <2>2. Cast(At(v.pos)).ok
    BY <1>5, AtWorks
  <2> QED
    BY <1>1, <1>4, <2>1, <2>2 DEF Follows
<1>7. \A j \in 1 .. Len(r.states) : SavedTrue(r.states[j])
  BY <1>4 DEF TrueTo
<1>8. TrueTo(r)
  BY <1>1, <1>4, <1>5, <1>6, <1>7 DEF TrueTo
<1> QED
  BY <1>8 DEF r, v

-----------------------------------------------------------------------------
(* What a player does.                                                     *)

Plays(p) == InShape(p) /\ (p.header /\ stale = <<>> => TrueTo(p))

\* The player reads the next message ...
ReadBy(p, m) ==
  [SaveState(p)
     EXCEPT !.session = HandleSessionMessage(@, m),
            !.time = IF m = ResetMsg THEN 0 ELSE @,
            !.pos = @ + 1, !.updating = TRUE]

\* ... or runs what it has.
RunTo(p, last) ==
  [p EXCEPT !.session = Update(@, last), !.time = @ + p.session.cmds[last].diff,
            !.updating = FALSE]

LEMMA LaunchPlays ==
  ASSUME Types, NEW header \in BOOLEAN, header => disk.header
  PROVE  Plays(Rewound(NewPlayer(header)))
<1> DEFINE p == NewPlayer(header)
<1>1. NewClientSession \in Session /\ ~NewClientSession.ended
  BY NewParts
<1>2. <<>> \in Seq(State) /\ Len(<<>>) = 0
  BY EmptySeq
<1>3. /\ p \in Performer /\ p.header = header /\ p.session = NewClientSession
      /\ p.states = <<>>
  BY <1>1, <1>2 DEF NewPlayer, Performer
<1> HIDE DEF p
<1>4. InShape(Rewound(p)) /\ Rewound(p).header = p.header
  BY <1>3, RewoundShape, RewoundParts
<1>5. p.header => TrueTo(Rewound(p))
  <2>1. \A i \in 1 .. Len(p.states) : SavedTrue(p.states[i])
    BY <1>2, <1>3
  <2> QED
    BY <1>1, <1>3, <2>1, RewoundTrue
<1>6. Plays(Rewound(p))
  BY <1>4, <1>5 DEF Plays
<1> QED
  BY <1>6 DEF p

LEMMA SavePlays ==
  ASSUME Order, AsExpected, NEW p, Plays(p), ~p.session.ended, p.session.cmds = <<>>
  PROVE  LET r == SaveState(p) IN
         /\ Plays(r)
         /\ r.session = p.session /\ r.header = p.header
         /\ r.pos = p.pos /\ r.torn = p.torn
<1> DEFINE r == SaveState(p)
<1>1. InShape(p) /\ p \in Performer
  BY DEF Plays, InShape
<1>2. /\ r \in Performer /\ r.session = p.session /\ r.header = p.header
      /\ r.pos = p.pos /\ r.torn = p.torn
  BY <1>1, SaveParts
<1>3. ASSUME p.header, stale = <<>> PROVE TrueTo(r)
  <2>1. disk.header /\ TrueTo(p)
    BY <1>3 DEF Plays, InShape
  <2> QED
    BY <1>1, <1>3, <2>1, SaveTrue
<1> HIDE DEF r
<1>4. InShape(r)
  BY <1>1, <1>2 DEF InShape
<1>5. Plays(r)
  BY <1>2, <1>3, <1>4 DEF Plays
<1> QED
  BY <1>2, <1>5 DEF r

LEMMA RewindPlays ==
  ASSUME Order, NEW p, Plays(p), ~p.session.ended
  PROVE  Plays(Rewound(p))
<1>1. InShape(p) /\ p \in Performer /\ (p.header => disk.header)
  BY DEF Plays, InShape
<1>2. InShape(Rewound(p)) /\ Rewound(p).header = p.header
  BY <1>1, RewoundShape, RewoundParts
<1>3. ASSUME p.header, stale = <<>> PROVE TrueTo(Rewound(p))
  <2>1. \A i \in 1 .. Len(p.states) : SavedTrue(p.states[i])
    BY <1>3 DEF Plays, TrueTo
  <2> QED
    BY <1>1, <1>3, <2>1, RewoundTrue DEF Order
<1> QED
  BY <1>2, <1>3 DEF Plays

LEMMA RestorePlays ==
  ASSUME Order, AsExpected, NEW p, Plays(p), ~p.session.ended, NEW i \in 1 .. Len(p.states)
  PROVE  Plays(Restored(p, p.states[i]))
<1> DEFINE v == p.states[i]
           r == Restored(p, v)
<1>1. InShape(p) /\ p \in Performer /\ (p.header => disk.header) /\ p.header
  BY DEF Plays, InShape
<1>2. v \in State
  <2>1. p.states \in Seq(State)
    BY <1>1 DEF Performer
  <2> QED
    BY <2>1, ElementOfSeq
<1>3. ASSUME p.header, stale = <<>> PROVE TrueTo(r)
  <2>1. TrueTo(p)
    BY <1>3 DEF Plays
  <2> QED
    BY <1>1, <1>3, <2>1, RestoredTrue
<1> HIDE DEF v
<1>4. /\ r \in Performer /\ r.header = p.header /\ Good(r.session)
      /\ r.session.ended <=> p.session.ended \/ ~p.header
  BY <1>1, <1>2, RestoredParts
<1> HIDE DEF r
<1>5. InShape(r)
  BY <1>1, <1>4 DEF InShape
<1>6. Plays(r)
  BY <1>3, <1>4, <1>5 DEF Plays
<1> QED
  BY <1>6 DEF r, v

LEMMA ErrorPlays ==
  ASSUME NEW p, Plays(p), OutOfStep
  PROVE  Plays([p EXCEPT !.session = Error(@), !.updating = FALSE])
<1> DEFINE s == Error(p.session)
           r == [p EXCEPT !.session = s, !.updating = FALSE]
<1>1. InShape(p) /\ p \in Performer /\ p.session \in Session
  BY DEF Plays, InShape, Performer
<1>2. s \in Session /\ s.ended
  BY <1>1 DEF Error, Session
<1> HIDE DEF s
<1>3. /\ r \in Performer /\ r.session = s /\ r.header = p.header /\ r.pos = p.pos
      /\ r.states = p.states /\ r.torn = p.torn
  BY <1>1, <1>2 DEF Performer
<1> HIDE DEF r
<1>4. InShape(r)
  BY <1>1, <1>2, <1>3 DEF InShape
<1>5. ASSUME TrueTo(p) PROVE TrueTo(r)
  BY <1>2, <1>3, <1>5 DEF TrueTo
<1>6. Plays(r)
  BY <1>3, <1>4, <1>5 DEF Plays
<1> QED
  BY <1>6 DEF r, s

LEMMA EntryParts ==
  ASSUME Types, NEW n \in Nat, n < Len(disk.entries), disk.entries[n + 1] # Torn
  PROVE  disk.entries[n + 1].msg \in Msg
<1> DEFINE d == disk.entries
           e == d[n + 1]
<1>1. d \in Seq(FileEntry \cup {Torn}) /\ Len(d) \in Nat
  BY LenProperties DEF Types
<1> HIDE DEF d
<1>2. n + 1 \in 1 .. Len(d)
  BY <1>1 DEF d
<1>3. e \in FileEntry \cup {Torn}
  BY <1>1, <1>2, ElementOfSeq
<1>4. e # Torn
  BY DEF d
<1>5. PICK item \in Recordable : e = Entry(item)
  BY <1>3, <1>4 DEF FileEntry
<1> HIDE DEF e
<1>6. e.msg = item.msg /\ item.msg \in Msg
  BY <1>5 DEF Entry, Recordable
<1> QED
  BY <1>6 DEF e, d

LEMMA ReadPlays ==
  ASSUME Order, AsExpected, NEW p, Plays(p), ~p.session.ended, p.session.cmds = <<>>,
         Readable(p)
  PROVE  LET m == disk.entries[p.pos + 1].msg IN m \in Msg /\ Plays(ReadBy(p, m))
<1> DEFINE m == disk.entries[p.pos + 1].msg
           q == SaveState(p)
           s == q.session
           t == HandleSessionMessage(s, m)
           r == ReadBy(p, m)
           time == IF m = ResetMsg THEN 0 ELSE q.time
           pos == p.pos + 1
<1>1. p \in Performer /\ p.pos \in Nat
  BY DEF Plays, InShape, Performer
<1>2. m \in Msg
  BY <1>1, EntryParts DEF Order, Readable
<1>3. /\ Plays(q) /\ s = p.session /\ q.header = p.header
      /\ q.pos = p.pos /\ q.torn = p.torn
  BY SavePlays
<1>4. r = [q EXCEPT !.session = t, !.time = time, !.pos = pos, !.updating = TRUE]
  BY <1>3 DEF ReadBy
<1>5. p.pos < Len(disk.entries) /\ disk.entries[p.pos + 1] # Torn
  BY DEF Readable
<1>6. ASSUME p.header, stale = <<>>
      PROVE  /\ TrueTo(q) /\ disk.header
             /\ Clear(p.pos) /\ Clear(p.pos + 1)
             /\ At(p.pos) \in Seq(Msg) /\ At(p.pos + 1) = Append(At(p.pos), m)
  <2>1. TrueTo(q) /\ disk.header
    BY <1>3, <1>6 DEF Plays, InShape
  <2>2. Clear(p.pos)
    BY <1>3, <2>1 DEF TrueTo
  <2> QED
    BY <1>5, <1>6, <2>1, <2>2, AtMore
<1> HIDE DEF m, q
<1>7. /\ InShape(q) /\ q \in Performer /\ Good(s) /\ ~s.ended
  BY <1>3 DEF Plays, InShape
<1>8. Good(t) /\ t.ended = s.ended /\ (Out(s).ok => Out(t) = PlayMsg(Out(s), m))
  BY <1>2, <1>7, Received
<1>9. t \in Session
  BY <1>8 DEF Good
<1>14. time \in Nat /\ pos \in Nat
  BY <1>1, <1>7 DEF Performer
<1> HIDE DEF t, r, time, pos
<1>10. /\ r \in Performer /\ r.session = t /\ r.header = p.header /\ r.pos = pos
       /\ r.states = q.states /\ r.torn = q.torn
  BY <1>3, <1>4, <1>7, <1>9, <1>14 DEF Performer
<1>11. InShape(r)
  BY <1>3, <1>7, <1>8, <1>10 DEF InShape
<1>12. ASSUME p.header, stale = <<>> PROVE TrueTo(r)
  <2> DEFINE before == At(p.pos)
             h == Heard(before)
             u == HandleSessionMessage(h, m)
             now == Heard(At(p.pos + 1))
  <2>1. /\ TrueTo(q) /\ disk.header
        /\ Clear(p.pos) /\ Clear(p.pos + 1)
        /\ before \in Seq(Msg) /\ At(p.pos + 1) = Append(before, m)
    BY <1>6, <1>12
  <2>2. /\ Cast(before).ok /\ Good(h) /\ Out(h) = Cast(before)
    BY <1>12, <2>1, AtWorks
  <2>3. Cast(At(p.pos + 1)) = PlayMsg(Cast(before), m)
    BY <1>2, <2>1, CastParts
  <2>4. now = HearAndRun(h, m)
    BY <1>2, <2>1, HeardMore
  <2>5. now.pending = u.pending
    BY <1>2, <2>2, <2>4, OneHeard
  <2>6. ASSUME ~r.torn
        PROVE  Out(t) = Cast(At(p.pos + 1)) /\ Follows(t, now)
    <3>1. Out(s) = Cast(before) /\ Follows(s, h)
      BY <1>3, <1>7, <1>10, <2>1, <2>6 DEF TrueTo
    <3>2. Out(t) = Cast(At(p.pos + 1))
      BY <1>8, <2>2, <2>3, <3>1
    <3> HIDE DEF h, before
    <3>3. Follows(t, u)
      BY <1>2, <1>7, <2>2, <3>1, BothHear DEF t
    <3> HIDE DEF u, now
    <3>4. Follows(t, now)
      BY <2>5, <3>3 DEF Follows
    <3> QED
      BY <3>2, <3>4 DEF now, before
  <2>7. \A i \in 1 .. Len(r.states) : SavedTrue(r.states[i])
    BY <1>10, <2>1 DEF TrueTo
  <2>8. ~r.session.ended
    BY <1>7, <1>8, <1>10
  <2>9. Clear(r.pos)
    BY <1>10, <2>1 DEF pos
  <2> HIDE DEF before, h, u
  <2> QED
    BY <1>10, <2>6, <2>7, <2>8, <2>9 DEF TrueTo, pos
<1>13. Plays(r)
  BY <1>10, <1>11, <1>12 DEF Plays
<1> QED
  BY <1>2, <1>13 DEF r, m

\* The first step is there, and it has a time.
LEMMA FirstStep ==
  ASSUME NEW s, Good(s), s.cmds # <<>>
  PROVE  LET last == Min(Steps(s.cmds)) IN
         last \in 1 .. Len(s.cmds) /\ s.cmds[last].diff \in Nat
<1> DEFINE cmds == s.cmds
           n == Len(cmds)
           S == Steps(cmds)
           last == Min(S)
<1>1. cmds \in Seq(Cmd)
  BY DEF Good, Session
<1>2. n \in Nat /\ DOMAIN cmds = 1 .. n /\ n > 0
  BY <1>1, LenProperties, EmptySeq
<1>3. cmds[n].type = "step"
  BY DEF Good
<1>4. S \in SUBSET (1 .. n) /\ n \in S
  <2> HIDE DEF cmds, n
  <2> QED
    BY <1>2, <1>3 DEF Steps
<1>5. \A i \in S : cmds[i].type = "step"
  BY DEF Steps
<1> HIDE DEF cmds, n, S
<1>6. last \in S
  BY <1>2, <1>4, MinThere
<1> HIDE DEF last
<1>7. last \in 1 .. n /\ cmds[last].type = "step"
  BY <1>4, <1>5, <1>6
<1>8. cmds[last] \in Cmd
  BY <1>1, <1>7, ElementOfSeq DEF n
<1>9. cmds[last].diff \in Nat
  BY <1>7, <1>8, CmdParts
<1> QED
  BY <1>7, <1>9 DEF last, S, n, cmds

LEMMA RunPlays ==
  ASSUME Order, AsExpected, NEW p, Plays(p), ~p.session.ended, p.session.cmds # <<>>
  PROVE  Plays(RunTo(p, Min(Steps(p.session.cmds))))
<1> DEFINE s == p.session
           last == Min(Steps(s.cmds))
           t == Update(s, last)
           diff == s.cmds[last].diff
           r == RunTo(p, last)
           time == p.time + diff
<1>1. InShape(p) /\ p \in Performer /\ Good(s) /\ p.time \in Nat
  BY DEF Plays, InShape, Performer
<1>2. last \in 1 .. Len(s.cmds) /\ diff \in Nat
  <2> HIDE DEF s
  <2> QED
    BY <1>1, FirstStep DEF s
<1>3. r = [p EXCEPT !.session = t, !.time = time, !.updating = FALSE]
  BY DEF RunTo
<1>4. last \in 0 .. Len(s.cmds) /\ time \in Nat
  BY <1>1, <1>2
<1> HIDE DEF last, diff, r, time
<1>5. /\ t \in Session /\ t.pending = s.pending /\ Out(t) = Out(s)
      /\ ~t.ended => Good(t)
  BY <1>1, <1>4, Updated
<1> HIDE DEF t
<1>6. /\ r \in Performer /\ r.session = t /\ r.header = p.header /\ r.pos = p.pos
      /\ r.states = p.states /\ r.torn = p.torn
  BY <1>1, <1>3, <1>4, <1>5 DEF Performer
<1>7. InShape(r)
  BY <1>1, <1>5, <1>6 DEF InShape
<1>8. ASSUME p.header, stale = <<>> PROVE TrueTo(r)
  <2>1. TrueTo(p) /\ disk.header
    BY <1>8 DEF Plays, InShape
  <2>2. Clear(p.pos)
    BY <2>1 DEF TrueTo
  <2>3. Cast(At(p.pos)).ok
    BY <1>8, <2>1, <2>2, AtWorks
  <2>4. ASSUME ~p.torn
        PROVE  ~t.ended /\ Out(t) = Cast(At(p.pos)) /\ Follows(t, Heard(At(p.pos)))
    <3>1. Out(s) = Cast(At(p.pos)) /\ Follows(s, Heard(At(p.pos)))
      BY <2>1, <2>4 DEF TrueTo
    <3>2. Out(t).ok
      BY <1>5, <2>3, <3>1
    <3>3. ~t.ended
      BY <1>5, <3>2, OutParts
    <3> QED
      BY <1>5, <3>1, <3>3 DEF Follows
  <2>5. \A i \in 1 .. Len(r.states) : SavedTrue(r.states[i])
    BY <1>6, <2>1 DEF TrueTo
  <2> QED
    BY <1>6, <2>2, <2>4, <2>5 DEF TrueTo
<1>9. Plays(r)
  BY <1>6, <1>7, <1>8 DEF Plays
<1> QED
  BY <1>9 DEF r, last, s

-----------------------------------------------------------------------------
(* Nothing is recorded while a player is there, but the last of what was    *)
(* may still be written.                                                   *)

Quiet == ~tape.on /\ \A i \in 1 .. Len(calls) : calls[i] # BeginCall

PlayerInv == player.on => Plays(player) /\ Quiet

LEMMA GrownPlays ==
  ASSUME Types, NEW e \in Seq(FileEntry \cup {Torn}), disk' = OnDisk(e), stale' = stale
  PROVE  \A p : Plays(p) => Plays(p)'
<1> DEFINE d == disk.entries
           f == disk'.entries
           S == FileEntry \cup {Torn}
<1>1. d \in Seq(S) /\ Len(d) \in Nat /\ e \in Seq(S) /\ Len(e) \in Nat /\ DOMAIN d = 1 .. Len(d)
  BY LenProperties DEF Types
<1>2. f = d \o e /\ disk'.header = disk.header
  BY DEF OnDisk, Types
<1> HIDE DEF d, f, S
<1>3. f \in Seq(S) /\ Len(f) = Len(d) + Len(e)
      /\ \A i \in 1 .. Len(d) + Len(e) : f[i] = IF i <= Len(d) THEN d[i] ELSE e[i - Len(d)]
  BY <1>1, <1>2, ConcatProperties
<1>4. \A i \in 1 .. Len(d) : i \in 1 .. Len(f) /\ f[i] = d[i]
  BY <1>1, <1>3
<1>5. DOMAIN f = 1 .. Len(f) /\ Len(f) \in Nat
  BY <1>3, LenProperties
<1>6. ASSUME NEW n, Clear(n) PROVE Clear(n)' /\ At(n)' = At(n)
  <2>1. n \in 0 .. Len(d) /\ \A i \in 1 .. n : d[i] # Torn
    BY <1>6 DEF Clear, d
  <2>2. n \in 0 .. Len(f) /\ \A i \in 1 .. n : i \in 1 .. Len(d)
    BY <1>1, <1>3, <2>1
  <2>3. Clear(n)'
    BY <1>4, <2>1, <2>2 DEF Clear, f
  <2> DEFINE a == SubSeq(d, 1, n)
             b == SubSeq(f, 1, n)
  <2>4. a \in Seq(S) /\ Len(a) = n /\ \A i \in 1 .. n : a[i] = d[i]
    BY <1>1, <2>1, FirstParts
  <2>5. b \in Seq(S) /\ Len(b) = n /\ \A i \in 1 .. n : b[i] = f[i]
    BY <1>3, <2>2, FirstParts
  <2> HIDE DEF a, b
  <2>6. \A i \in 1 .. n : a[i] = b[i]
    BY <1>4, <2>2, <2>4, <2>5
  <2>7. a = b
    BY <2>4, <2>5, <2>6, SeqEqual
  <2>8. At(n) = Msgs(a) /\ At(n)' = Msgs(b)
    BY DEF At, a, b, d, f
  <2> QED
    BY <2>3, <2>7, <2>8
<1>7. OutOfStep => OutOfStep'
  <2>1. ASSUME OutOfStep PROVE OutOfStep'
    <3>1. PICK i \in DOMAIN d : d[i] # Torn /\ ~InStep(d[i])
      BY <2>1 DEF OutOfStep, d
    <3>2. i \in DOMAIN f /\ f[i] = d[i]
      BY <1>1, <1>4, <1>5, <3>1
    <3>3. \E j \in DOMAIN f : f[j] # Torn /\ ~InStep(f[j])
      BY <3>1, <3>2
    <3> QED
      BY <3>3 DEF OutOfStep, f
  <2> QED
    BY <2>1
<1>8. ASSUME NEW v, SavedTrue(v) PROVE SavedTrue(v)'
  <2> DEFINE n == v.pos
  <2>1. Clear(n)
    BY <1>8 DEF SavedTrue
  <2> HIDE DEF n
  <2>2. Clear(n)' /\ At(n)' = At(n)
    BY <1>6, <2>1
  <2> QED
    BY <1>8, <2>2 DEF SavedTrue, n
<1>9. ASSUME NEW p, TrueTo(p) PROVE TrueTo(p)'
  <2> DEFINE n == p.pos
  <2>1. Clear(n)
    BY <1>9 DEF TrueTo
  <2> HIDE DEF n
  <2>2. Clear(n)' /\ At(n)' = At(n)
    BY <1>6, <2>1
  <2>3. \A i \in 1 .. Len(p.states) : SavedTrue(p.states[i])'
    <3> TAKE i \in 1 .. Len(p.states)
    <3> DEFINE v == p.states[i]
    <3>1. SavedTrue(v)
      BY <1>9 DEF TrueTo
    <3> HIDE DEF v
    <3>2. SavedTrue(v)'
      BY <1>8, <3>1
    <3> QED
      BY <3>2 DEF v
  <2> QED
    BY <1>7, <1>9, <2>2, <2>3 DEF TrueTo, n
<1>10. ASSUME NEW p, Plays(p) PROVE Plays(p)'
  <2>1. InShape(p)'
    BY <1>2, <1>10 DEF Plays, InShape
  <2>2. p.header /\ stale = <<>> => TrueTo(p)'
    BY <1>9, <1>10 DEF Plays
  <2> QED
    BY <2>1, <2>2 DEF Plays
<1> QED
  BY <1>10

LEMMA SamePlays ==
  ASSUME Types, UNCHANGED <<disk, stale>>
  PROVE  \A p : Plays(p) => Plays(p)'
<1>1. <<>> \in Seq(FileEntry \cup {Torn})
  BY EmptySeq
<1>2. disk.entries \o <<>> = disk.entries
  BY ConcatEmptySeq DEF Types
<1>3. disk' = OnDisk(<<>>)
  BY <1>2 DEF OnDisk, Types
<1> QED
  BY <1>1, <1>3, GrownPlays

\* The player comes to something that plays.
LEMMA PlayerComes ==
  ASSUME Types, UNCHANGED <<recorder, assets>>, Quiet, NEW p, Plays(p), player' = p
  PROVE  PlayerInv'
<1>1. UNCHANGED <<tape, calls, disk, stale>>
  BY DEF recorder, assets
<1>2. Plays(p)'
  BY <1>1, SamePlays
<1>3. Quiet'
  BY <1>1 DEF Quiet
<1>4. Plays(player)'
  BY <1>2
<1> QED
  BY <1>3, <1>4 DEF PlayerInv

LEMMA PlayerStays ==
  ASSUME Types, PlayerInv, UNCHANGED <<recorder, assets, player>>
  PROVE  PlayerInv'
<1>1. CASE ~player.on
  BY <1>1 DEF PlayerInv
<1>2. CASE player.on
  <2>1. PICK p : p = player
    OBVIOUS
  <2>2. Plays(p) /\ Quiet /\ player' = p
    BY <1>2, <2>1 DEF PlayerInv
  <2> QED
    BY <2>2, PlayerComes
<1> QED
  BY <1>1, <1>2

\* While it plays the assets thread runs calls of the recording before.
LEMMA PlayerHolds ==
  ASSUME Types, player' = player, player.on => Quiet',
         \A p : Plays(p) => Plays(p)',
         PlayerInv
  PROVE  PlayerInv'
<1>1. CASE ~player.on
  BY <1>1 DEF PlayerInv
<1>2. CASE player.on
  <2>1. PICK p : p = player
    OBVIOUS
  <2>2. Plays(p) /\ Quiet' /\ player' = p
    BY <1>2, <2>1 DEF PlayerInv
  <2>3. Plays(p)'
    BY <2>2
  <2>4. Plays(player)'
    BY <2>2, <2>3
  <2> QED
    BY <2>2, <2>4 DEF PlayerInv
<1> QED
  BY <1>1, <1>2

LEMMA QuietNext ==
  ASSUME Types, Quiet, NEW c, NextCall(c)
  PROVE  Quiet' /\ c # BeginCall
<1>1. /\ calls \in Seq(Call) /\ calls # <<>> /\ Head(calls) = c
      /\ calls' = Tail(calls) /\ tape' = tape
  BY DEF Types, NextCall
<1>2. Len(calls) \in Nat \ {0} /\ calls[1] = c
  BY <1>1, EmptySeq
<1>3. /\ calls' \in Seq(Call) /\ Len(calls') = Len(calls) - 1
      /\ \A i \in 1 .. Len(calls') : calls'[i] = calls[i + 1]
  BY <1>1, HeadTailProperties
<1>4. \A i \in 1 .. Len(calls') : i + 1 \in 1 .. Len(calls)
  BY <1>2, <1>3
<1>5. \A i \in 1 .. Len(calls') : calls'[i] # BeginCall
  BY <1>3, <1>4 DEF Quiet
<1>6. 1 \in 1 .. Len(calls)
  BY <1>2
<1> QED
  BY <1>1, <1>2, <1>5, <1>6 DEF Quiet

LEMMA RecordingPlayer ==
  ASSUME Types, TakeTurns, PlayerInv, StartRecording \/ Record \/ StopRecording
  PROVE  PlayerInv'
<1>1. player' = player
  BY DEF StartRecording, Record, StopRecording, theatre
<1>2. ~player.on
  BY DEF StartRecording, Record, StopRecording, TakeTurns, PlayerInv, Quiet
<1> QED
  BY <1>1, <1>2 DEF PlayerInv

LEMMA RunBeginPlayer ==
  ASSUME Types, PlayerInv, RunBegin
  PROVE  PlayerInv'
<1>1. NextCall(BeginCall)
  BY DEF RunBegin
<1>2. player' = player
  BY <1>1 DEF NextCall, theatre
<1>3. ~player.on
  BY <1>1, QuietNext DEF PlayerInv
<1> QED
  BY <1>2, <1>3 DEF PlayerInv

LEMMA RunAddMessagePlayer ==
  ASSUME Types, PlayerInv, RunAddMessage
  PROVE  PlayerInv'
<1>1. PICK item : NextCall(AddCall(item)) /\ RunAdd_(item)
  BY DEF RunAddMessage
<1>2. player' = player
  BY <1>1 DEF NextCall, theatre
<1>3. UNCHANGED <<disk, stale>>
  BY <1>1 DEF RunAdd_, Ignored, Break, Overflow, Take, assets
<1>4. player.on => Quiet'
  BY <1>1, QuietNext DEF PlayerInv
<1> QED
  BY <1>2, <1>3, <1>4, SamePlays, PlayerHolds

LEMMA ResultEntries ==
  ASSUME Types, NEW result \in Results
  PROVE  result.entries \in Seq(FileEntry \cup {Torn})
<1> DEFINE q == writer.queue
           S == FileEntry \cup {Torn}
<1>1. q \in Seq(Recordable) /\ Len(q) \in Nat
  BY LenProperties DEF Types
<1>2. <<>> \in Seq(S) /\ Entries(q) \in Seq(S)
  BY <1>1, EntriesType, EmptySeq, SeqMonotonic
<1>3. ASSUME NEW n \in 0 .. (Len(q) - 1)
      PROVE  Append(Entries(SubSeq(q, 1, n)), Torn) \in Seq(S)
  <2> DEFINE f == SubSeq(q, 1, n)
  <2>1. n \in 0 .. Len(q)
    BY <1>1
  <2>2. f \in Seq(Recordable)
    BY <1>1, <2>1, FirstParts
  <2> HIDE DEF f
  <2>3. Entries(f) \in Seq(FileEntry)
    BY <2>2, EntriesType
  <2>4. Entries(f) \in Seq(S) /\ Torn \in S
    BY <2>3, SeqMonotonic
  <2> HIDE DEF S
  <2> QED
    BY <2>4, AppendProperties DEF f
<1> HIDE DEF q, S
<1>4. ASSUME result = [writer |-> writer, entries |-> <<>>] PROVE result.entries \in Seq(S)
  BY <1>2, <1>4
<1>5. ASSUME result = Written PROVE result.entries \in Seq(S)
  <2>1. Written.entries = Entries(writer.queue)
    BY DEF Written
  <2> QED
    BY <1>2, <1>5, <2>1 DEF q
<1>6. ASSUME NEW n \in 0 .. (Len(q) - 1), result = Failed(n)
      PROVE  result.entries \in Seq(S)
  <2>1. result.entries = Append(Entries(SubSeq(q, 1, n)), Torn)
    BY <1>6 DEF Failed, q
  <2> QED
    BY <1>3, <2>1
<1>7. result.entries \in Seq(S)
  <2>1. \/ result = [writer |-> writer, entries |-> <<>>]
        \/ result = Written
        \/ \E n \in 0 .. (Len(q) - 1) : result = Failed(n)
    BY Zenon DEF Results, q
  <2>2. CASE result = [writer |-> writer, entries |-> <<>>] \/ result = Written
    BY <1>4, <1>5, <2>2
  <2> QED
    BY <1>6, <2>1, <2>2
<1> QED
  BY <1>7 DEF S

LEMMA RunEndPlayer ==
  ASSUME Types, PlayerInv, RunEnd
  PROVE  PlayerInv'
<1>1. NextCall(EndCall)
  BY DEF RunEnd
<1>2. player' = player
  BY <1>1 DEF NextCall, theatre
<1>3. player.on => Quiet'
  BY <1>1, QuietNext DEF PlayerInv
<1>4. CASE UNCHANGED <<disk, stale>>
  BY <1>2, <1>3, <1>4, SamePlays, PlayerHolds
<1>5. CASE stale' = stale /\ \E result \in Results : disk' = OnDisk(result.entries)
  <2>1. PICK result \in Results : disk' = OnDisk(result.entries)
    BY <1>5
  <2>2. \A p : Plays(p) => Plays(p)'
    <3> DEFINE e == result.entries
    <3>1. e \in Seq(FileEntry \cup {Torn}) /\ disk' = OnDisk(e)
      BY <2>1, ResultEntries
    <3> HIDE DEF e
    <3> QED
      BY <1>5, <3>1, GrownPlays
  <2> QED
    BY <1>2, <1>3, <2>2, PlayerHolds
<1>6. \/ UNCHANGED <<disk, stale>>
      \/ stale' = stale /\ \E result \in Results : disk' = OnDisk(result.entries)
  <2>1. CASE writer.broken
    BY <2>1 DEF RunEnd, Ignored, assets
  <2>2. CASE ~writer.broken /\ ~writer.writing
    BY <2>2 DEF RunEnd, Break
  <2>3. CASE ~writer.broken /\ writer.writing
    BY <2>3 DEF RunEnd
  <2> QED
    BY <2>1, <2>2, <2>3
<1> QED
  BY <1>4, <1>5, <1>6

LEMMA ProcessPlayer ==
  ASSUME Types, PlayerInv, Process
  PROVE  PlayerInv'
<1>1. UNCHANGED <<recorder, stale, given, theatre>>
  BY DEF Process
<1>2. player' = player
  BY <1>1 DEF theatre
<1>3. player.on => Quiet'
  BY <1>1 DEF PlayerInv, Quiet, recorder
<1>4. PICK result \in Results : disk' = OnDisk(result.entries)
  BY DEF Process
<1> DEFINE e == result.entries
<1>5. e \in Seq(FileEntry \cup {Torn}) /\ disk' = OnDisk(e)
  BY <1>4, ResultEntries
<1> HIDE DEF e
<1>6. \A p : Plays(p) => Plays(p)'
  BY <1>1, <1>5, GrownPlays
<1> QED
  BY <1>2, <1>3, <1>6, PlayerHolds

LEMMA LaunchPlayer ==
  ASSUME Types, LaunchReplaySession
  PROVE  PlayerInv'
<1> DEFINE b == disk.header /\ ~writer.open
<1>1. PICK header \in {disk.header, b} : player' = Rewound(NewPlayer(header))
  BY DEF LaunchReplaySession
<1>2. disk.header \in BOOLEAN /\ b \in BOOLEAN /\ (b => disk.header)
  BY DEF Types
<1> HIDE DEF b
<1>3. header \in BOOLEAN /\ (header => disk.header)
  <2>1. CASE header = disk.header
    BY <1>2, <2>1
  <2>2. CASE header = b
    BY <1>2, <2>2
  <2> QED
    BY <1>1, <2>1, <2>2
<1>4. Quiet /\ UNCHANGED <<recorder, assets>>
  <2>1. DOMAIN calls = 1 .. Len(calls)
    BY LenProperties DEF Types
  <2> QED
    BY <2>1 DEF LaunchReplaySession, Quiet
<1>5. PICK p : p = Rewound(NewPlayer(header))
  OBVIOUS
<1>6. Plays(p) /\ player' = p
  BY <1>1, <1>3, <1>5, LaunchPlays
<1> QED
  BY <1>4, <1>6, PlayerComes

LEMMA ReadEndPlayer ==
  ASSUME Order, AsExpected, PlayerInv, ReadEnd
  PROVE  PlayerInv'
<1>1. /\ Plays(player) /\ Quiet /\ ~player.session.ended /\ player.session.cmds = <<>>
      /\ UNCHANGED <<recorder, assets>>
  BY DEF ReadEnd, Fetch, Playing, PlayerInv
<1>2. PICK q : q = SaveState(player)
  OBVIOUS
<1>3. PICK p : p = Rewound(q)
  OBVIOUS
<1>4. Plays(q) /\ q.session = player.session
  BY <1>1, <1>2, SavePlays
<1>5. Plays(p)
  BY <1>1, <1>3, <1>4, RewindPlays
<1>6. player' = p
  BY <1>2, <1>3 DEF ReadEnd
<1> QED
  BY <1>1, <1>5, <1>6, PlayerComes DEF Order

LEMMA ReadGarbagePlayer ==
  ASSUME Order, AsExpected, PlayerInv, ReadGarbage
  PROVE  PlayerInv'
<1>1. /\ Plays(player) /\ Quiet /\ ~player.session.ended /\ player.session.cmds = <<>>
      /\ UNCHANGED <<recorder, assets>>
  BY DEF ReadGarbage, Fetch, Playing, PlayerInv
<1>2. CASE player' = Rewound(SaveState(player))
  <2>2. PICK q : q = SaveState(player)
    OBVIOUS
  <2>3. PICK p : p = Rewound(q)
    OBVIOUS
  <2>4. Plays(q) /\ q.session = player.session
    BY <1>1, <2>2, SavePlays
  <2>5. Plays(p)
    BY <1>1, <2>3, <2>4, RewindPlays
  <2>6. player' = p
    BY <1>2, <2>2, <2>3
  <2> QED
    BY <1>1, <2>5, <2>6, PlayerComes DEF Order
<1>3. CASE player' = [player EXCEPT !.session = Error(@), !.updating = FALSE]
  <2>1. PICK p : p = [player EXCEPT !.session = Error(@), !.updating = FALSE]
    OBVIOUS
  <2>2. OutOfStep
    <3>1. /\ Len(disk.entries) \in Nat /\ DOMAIN disk.entries = 1 .. Len(disk.entries)
          /\ player.pos \in Nat
      BY <1>1, LenProperties DEF Order, Types, Plays, InShape, Performer
    <3>2. /\ player.pos < Len(disk.entries) /\ disk.entries[player.pos + 1] # Torn
          /\ ~InStep(disk.entries[player.pos + 1])
      BY DEF ReadGarbage, Readable
    <3>3. player.pos + 1 \in DOMAIN disk.entries
      BY <3>1, <3>2
    <3> QED
      BY <3>2, <3>3 DEF OutOfStep
  <2>3. Plays(p)
    BY <1>1, <2>1, <2>2, ErrorPlays
  <2>4. player' = p
    BY <1>3, <2>1
  <2> QED
    BY <1>1, <2>3, <2>4, PlayerComes DEF Order
<1> QED
  BY <1>2, <1>3 DEF ReadGarbage

LEMMA ReadMessagePlayer ==
  ASSUME Order, AsExpected, PlayerInv, ReadMessage
  PROVE  PlayerInv'
<1> DEFINE m == disk.entries[player.pos + 1].msg
<1>1. /\ Fetch /\ Readable(player)
      /\ player' = [SaveState(player)
                      EXCEPT !.session = HandleSessionMessage(@, m),
                             !.time = IF m = ResetMsg THEN 0 ELSE @,
                             !.pos = @ + 1, !.updating = TRUE]
  BY DEF ReadMessage
<1>2. /\ Plays(player) /\ Quiet /\ ~player.session.ended /\ player.session.cmds = <<>>
      /\ UNCHANGED <<recorder, assets>>
  BY <1>1 DEF Fetch, Playing, PlayerInv
<1>3. PICK p : p = ReadBy(player, m)
  OBVIOUS
<1>4. Plays(p)
  BY <1>1, <1>2, <1>3, ReadPlays
<1>5. player' = p
  BY <1>1, <1>3 DEF ReadBy
<1> QED
  BY <1>2, <1>4, <1>5, PlayerComes DEF Order

LEMMA RunMomentPlayer ==
  ASSUME Order, AsExpected, PlayerInv, RunMoment
  PROVE  PlayerInv'
<1> DEFINE last == Min(Steps(player.session.cmds))
<1>1. /\ player' = [player EXCEPT !.session = Update(@, last),
                                  !.time = @ + player.session.cmds[last].diff,
                                  !.updating = FALSE]
      /\ player.session.cmds # <<>>
  BY DEF RunMoment
<1>2. /\ Plays(player) /\ Quiet /\ ~player.session.ended
      /\ UNCHANGED <<recorder, assets>>
  BY DEF RunMoment, Playing, PlayerInv
<1>3. PICK p : p = RunTo(player, last)
  OBVIOUS
<1>4. Plays(p)
  BY <1>1, <1>2, <1>3, RunPlays
<1>5. player' = p
  BY <1>1, <1>3 DEF RunTo
<1> QED
  BY <1>2, <1>4, <1>5, PlayerComes DEF Order

\* A state that is found is one that was saved.
LEMMA FoundThere ==
  ASSUME player \in Performer, NEW goal
  PROVE  Found(goal) \subseteq 1 .. Len(player.states)
<1> DEFINE n == Len(player.states)
<1>1. n \in Nat /\ DOMAIN player.states = 1 .. n
      /\ (player.states # <<>> => n \in 1 .. n)
  <2>1. player.states \in Seq(State)
    BY DEF Performer
  <2> QED
    BY <2>1, LenProperties, EmptySeq
<1>2. Before(goal) \in SUBSET (1 .. n) /\ After(goal) \in SUBSET (1 .. n)
  BY <1>1 DEF Before, After
<1> HIDE DEF n
<1>3. Before(goal) # {} => Max(Before(goal)) \in 1 .. n
  BY <1>1, <1>2, MaxThere
<1>4. After(goal) # {} => Min(After(goal)) \in 1 .. n
  BY <1>1, <1>2, MinThere
<1>5. Found(goal) \subseteq 1 .. n
  BY <1>1, <1>3, <1>4 DEF Found, n
<1> QED
  BY <1>5 DEF n

LEMMA SeekToPlayer ==
  ASSUME Order, AsExpected, PlayerInv, NEW goal, SeekTo(goal)
  PROVE  PlayerInv'
<1>1. /\ Plays(player) /\ Quiet /\ ~player.session.ended
      /\ UNCHANGED <<recorder, assets>>
  BY DEF SeekTo, Playing, PlayerInv
<1>2. CASE player' = Rewound(player)
  <2>1. PICK p : p = Rewound(player)
    OBVIOUS
  <2>2. Plays(p) /\ player' = p
    BY <1>1, <1>2, <2>1, RewindPlays
  <2> QED
    BY <1>1, <2>2, PlayerComes DEF Order
<1>3. CASE player' = player
  BY <1>1, <1>3, PlayerStays DEF Order
<1>4. ASSUME NEW i \in Found(goal), player' = Restored(player, player.states[i])
      PROVE  PlayerInv'
  <2>1. PICK p : p = Restored(player, player.states[i])
    OBVIOUS
  <2>2. i \in 1 .. Len(player.states)
    BY <1>1, FoundThere DEF Plays, InShape
  <2>3. Plays(p) /\ player' = p
    BY <1>1, <1>4, <2>1, <2>2, RestorePlays
  <2> QED
    BY <1>1, <2>3, PlayerComes DEF Order
<1> QED
  BY <1>2, <1>3, <1>4 DEF SeekTo

LEMMA WatchingPlayer ==
  ASSUME Types, PlayerInv, NEW w,
         \/ OnClientConnected(w) \/ OnClientDisconnected(w)
         \/ Receive(w) \/ UpdateSession(w)
  PROVE  PlayerInv'
<1>1. UNCHANGED <<recorder, assets, player>>
  <2>1. CASE OnClientConnected(w)
    BY <2>1 DEF OnClientConnected
  <2>2. CASE OnClientDisconnected(w)
    BY <2>2 DEF OnClientDisconnected
  <2>3. CASE Receive(w)
    BY <2>3 DEF Receive
  <2>4. CASE UpdateSession(w)
    BY <2>4 DEF UpdateSession
  <2> QED
    BY <2>1, <2>2, <2>3, <2>4
<1> QED
  BY <1>1, PlayerStays

LEMMA EndPlayer ==
  ASSUME EndReplaySession
  PROVE  PlayerInv'
<1>1. ~player'.on
  BY DEF EndReplaySession, NoPlayer
<1> QED
  BY <1>1 DEF PlayerInv

\* A player that keeps to the invariant plays true.
LEMMA InvPlaysTrue ==
  ASSUME Order, AsExpected, PlayerInv
  PROVE  PlaysTrue
<1> SUFFICES ASSUME player.on, Sound, ~player.torn
             PROVE  /\ Playing =>
                         Outcome(player.session, <<>>) =
                           Outcome(NewClientSession, Msgs(SubSeq(disk.entries, 1, player.pos)))
                    /\ player.session.ended =>
                         \E i \in DOMAIN disk.entries :
                           disk.entries[i] # Torn /\ ~InStep(disk.entries[i])
  BY DEF PlaysTrue
<1> DEFINE s == player.session
           heard == At(player.pos)
<1>1. /\ InShape(player) /\ player.header /\ stale = <<>> /\ TrueTo(player)
      /\ disk.header
  BY DEF PlayerInv, Plays, Sound, InShape
<1>2. s.ended => OutOfStep
  BY <1>1 DEF TrueTo
<1>3. ASSUME Playing PROVE Outcome(s, <<>>) = Outcome(NewClientSession, heard)
  <2>1. Good(s) /\ ~s.ended
    BY <1>1, <1>3 DEF InShape, Playing
  <2>2. Clear(player.pos) /\ Out(s) = Cast(heard)
    BY <1>1, <2>1 DEF TrueTo
  <2>3. heard \in Seq(Msg) /\ Cast(heard).ok
    BY <1>1, <2>2, AtWorks
  <2> HIDE DEF s, heard
  <2>4. <<>> \in Seq(Msg) /\ Hearing!Fold(Out(s), <<>>) = Out(s)
    BY EmptySeq, Hearing!FoldEmpty
  <2>5. Outcome(s, <<>>) = [objs |-> Cast(heard).objs, ended |-> FALSE]
    BY <2>1, <2>2, <2>3, <2>4, OutcomeThen
  <2>6. Good(NewClientSession) /\ Hearing!Fold(Out(NewClientSession), heard) = Cast(heard)
    BY NewParts DEF Cast
  <2>7. Outcome(NewClientSession, heard) = [objs |-> Cast(heard).objs, ended |-> FALSE]
    BY <2>3, <2>6, OutcomeThen
  <2> QED
    BY <2>5, <2>7
<1> QED
  BY <1>2, <1>3 DEF OutOfStep, At

-----------------------------------------------------------------------------
(* Those who watch have and are still to hear what makes what the player    *)
(* has, unless they are lost.                                              *)

Same(s, q, p) ==
  /\ Good(s) /\ q \in Seq(Msg)
  /\ Hearing!Fold(Out(s), q) = Out(p.session)

Shows == Playing /\ stale = <<>> /\ ~player.torn

WatchInv ==
  /\ DOMAIN session = Watcher
  /\ player.on /\ player.torn => lost = watchers
  /\ \A w \in Watcher \ watchers : session[w] = NewClientSession
  /\ Shows => \A w \in watchers \ lost : Same(session[w], channel[w], player)

LEMMA ShowsParts ==
  ASSUME Order, AsExpected, PlayerInv, Shows
  PROVE  LET s == player.session IN
         /\ player \in Performer /\ Plays(player)
         /\ Good(s) /\ s \in Session /\ ~s.ended
         /\ Out(s) \in World /\ Out(s).ok
         /\ s.cmds = <<>> /\ s.pending = <<>> => Out(s) = Well(s.objs) /\ Homes(s.objs)
<1> DEFINE s == player.session
           h == Heard(At(player.pos))
<1>1. player.on /\ ~s.ended /\ stale = <<>> /\ ~player.torn
  BY DEF Shows, Playing
<1>2. /\ Plays(player) /\ InShape(player) /\ player \in Performer
      /\ Good(s) /\ player.header /\ disk.header
  BY <1>1 DEF PlayerInv, Plays, InShape
<1>3. TrueTo(player)
  BY <1>1, <1>2 DEF Plays
<1>4. Clear(player.pos) /\ Out(s) = Cast(At(player.pos)) /\ Follows(s, h)
  BY <1>1, <1>3 DEF TrueTo
<1>5. /\ Cast(At(player.pos)).ok /\ Cast(At(player.pos)) \in World
      /\ h.pending = <<>> => Cast(At(player.pos)) = Well(h.objs) /\ Homes(h.objs)
  BY <1>1, <1>2, <1>4, AtWorks
<1>6. s \in Session
  BY <1>2 DEF Good
<1>7. ASSUME s.cmds = <<>>, s.pending = <<>>
      PROVE  Out(s) = Well(s.objs) /\ Homes(s.objs)
  <2>1. Out(s) = Shown(s)
    BY <1>6, <1>7, OutParts
  <2>2. Out(s) = Well(h.objs) /\ Homes(h.objs)
    BY <1>4, <1>5, <1>7 DEF Follows
  <2>3. h.objs = s.objs
    <3> HIDE DEF s, h
    <3>1. Shown(s).objs = s.objs /\ Well(h.objs).objs = h.objs
      BY DEF Shown, Well
    <3> QED
      BY <2>1, <2>2, <3>1
  <2> HIDE DEF s, h
  <2> QED
    BY <2>2, <2>3
<1> QED
  BY <1>1, <1>2, <1>4, <1>5, <1>6, <1>7

LEMMA SameTold ==
  ASSUME NEW s, NEW q, NEW p, Same(s, q, p), NEW msgs \in Seq(Msg), NEW r,
         Out(r.session) = Hearing!Fold(Out(p.session), msgs)
  PROVE  Same(s, q \o msgs, r)
<1>1. q \in Seq(Msg) /\ Good(s)
  BY DEF Same
<1>2. q \o msgs \in Seq(Msg)
  BY <1>1, ConcatProperties
<1>3. Hearing!Fold(Out(s), q \o msgs) = Hearing!Fold(Hearing!Fold(Out(s), q), msgs)
  BY <1>1, HeardConcat
<1> QED
  BY <1>1, <1>2, <1>3 DEF Same

\* One who watches is well as long as the player is.
LEMMA SameWell ==
  ASSUME NEW s, NEW q, NEW p, Same(s, q, p), Out(p.session).ok
  PROVE  s \in Session /\ Out(s) \in World /\ Out(s).ok /\ ~s.ended
<1>1. s \in Session /\ Good(s) /\ q \in Seq(Msg)
  BY DEF Same, Good
<1>2. Out(s) \in World /\ (Out(s).ok => ~s.ended)
  BY <1>1, OutParts
<1>3. ~Out(s).ok => Hearing!Fold(Out(s), q) = Out(s)
  BY <1>1, <1>2, HeardType
<1>4. Out(s).ok
  BY <1>3 DEF Same
<1> QED
  BY <1>1, <1>2, <1>4

LEMMA SameReceived ==
  ASSUME NEW s, NEW q, NEW p, Same(s, q, p), Out(p.session).ok, q # <<>>
  PROVE  Same(HandleSessionMessage(s, Head(q)), Tail(q), p)
<1> DEFINE m == Head(q)
           rest == Tail(q)
           t == HandleSessionMessage(s, m)
<1>1. q \in Seq(Msg) /\ Good(s) /\ Out(s).ok
  BY SameWell DEF Same
<1>2. m \in Msg /\ rest \in Seq(Msg)
  BY <1>1, HeadTailProperties
<1>3. Hearing!Fold(Out(s), q) = Hearing!Fold(PlayMsg(Out(s), m), rest)
  BY <1>1, Hearing!FoldFirst
<1> HIDE DEF m, rest
<1>4. Good(t) /\ Out(t) = PlayMsg(Out(s), m)
  BY <1>1, <1>2, Received
<1> HIDE DEF t
<1>5. Same(t, rest, p)
  BY <1>2, <1>3, <1>4 DEF Same
<1> QED
  BY <1>5 DEF t, m, rest

LEMMA SameUpdated ==
  ASSUME NEW s, NEW q, NEW p, Same(s, q, p), Out(p.session).ok, NEW last \in 0 .. Len(s.cmds)
  PROVE  Same(Update(s, last), q, p)
<1> DEFINE t == Update(s, last)
<1>1. q \in Seq(Msg) /\ Good(s) /\ Out(s).ok
  BY SameWell DEF Same
<1>2. t \in Session /\ Out(t) = Out(s) /\ (~t.ended => Good(t))
  BY <1>1, Updated
<1> HIDE DEF t
<1>3. Good(t)
  BY <1>1, <1>2, OutParts
<1>4. Same(t, q, p)
  BY <1>1, <1>2, <1>3 DEF Same
<1> QED
  BY <1>4 DEF t

LEMMA TwoHeard ==
  ASSUME NEW w, NEW a \in Msg, NEW b \in Msg
  PROVE  <<a, b>> \in Seq(Msg) /\ Hearing!Fold(w, <<a, b>>) = PlayMsg(PlayMsg(w, a), b)
<1>1. <<a>> \in Seq(Msg) /\ <<b>> \in Seq(Msg)
  OBVIOUS
<1>2. <<a, b>> = Append(<<a>>, b) /\ <<a, b>> \in Seq(Msg)
  OBVIOUS
<1>3. Hearing!Fold(w, Append(<<a>>, b)) = PlayMsg(Hearing!Fold(w, <<a>>), b)
  BY <1>1, Hearing!FoldAppend
<1>4. Hearing!Fold(w, <<a>>) = PlayMsg(w, a)
  BY Hearing!FoldOne
<1> QED
  BY <1>2, <1>3, <1>4

\* One who joins a player that has nothing to run hears all that it has.
LEMMA SameJoined ==
  ASSUME NEW p, p.session.objs \in Objs, Homes(p.session.objs),
         Out(p.session) = Well(p.session.objs)
  PROVE  Same(NewClientSession,
              <<ResetMsg, DumpFullState(p.session.objs)>>
                \o GetCorrectionMessages(p.session.objs), p)
<1> DEFINE objs == p.session.objs
           d == DumpFullState(objs)
           g == GetCorrectionMessages(objs)
           none == Well(NoObjects)
           q == <<ResetMsg, d>>
<1>1. d \in Msg /\ g \in Seq(Msg) /\ ResetMsg \in Msg
  BY Dumped, Corrected DEF Msg
<1>2. Cast(<<d>> \o g) = Well(objs)
  BY Retold
<1>3. none \in World /\ none.ok
  BY CastParts DEF Well
<1> HIDE DEF objs, d, g, none, q
<1>4. q \in Seq(Msg) /\ Hearing!Fold(none, q) = PlayMsg(PlayMsg(none, ResetMsg), d)
  BY <1>1, TwoHeard DEF q
<1>5. PlayMsg(none, ResetMsg) = none
  BY <1>3, PlayReset DEF none
<1>6. Hearing!Fold(none, q \o g) = Hearing!Fold(PlayMsg(none, d), g)
  BY <1>1, <1>4, <1>5, HeardConcat
<1>7. <<d>> \in Seq(Msg)
  BY <1>1
<1>8. Hearing!Fold(none, <<d>> \o g) = Hearing!Fold(PlayMsg(none, d), g)
  <2>1. Hearing!Fold(none, <<d>> \o g) = Hearing!Fold(Hearing!Fold(none, <<d>>), g)
    BY <1>1, <1>7, HeardConcat
  <2>2. Hearing!Fold(none, <<d>>) = PlayMsg(none, d)
    BY Hearing!FoldOne
  <2> QED
    BY <2>1, <2>2
<1>9. Hearing!Fold(none, q \o g) = Well(objs)
  BY <1>2, <1>6, <1>8 DEF Cast, none
<1>10. q \o g \in Seq(Msg)
  BY <1>1, <1>4, ConcatProperties
<1>11. Good(NewClientSession) /\ Out(NewClientSession) = none
  BY NewParts DEF none
<1>12. Same(NewClientSession, q \o g, p)
  BY <1>9, <1>10, <1>11 DEF Same, objs
<1> QED
  BY <1>12 DEF q, g, d, objs

-----------------------------------------------------------------------------
(* What is done to them.                                                   *)

LEMMA ToldWatch ==
  ASSUME InTheTheatre, WatchInv, Playing, NEW msgs \in Seq(Msg), Tell(msgs),
         UNCHANGED <<watchers, session, lost, stale>>,
         player'.torn => player.torn,
         Shows /\ Playing' =>
           Out(player'.session) = Hearing!Fold(Out(player.session), msgs)
  PROVE  WatchInv'
<1>1. DOMAIN session' = Watcher
      /\ \A w \in Watcher \ watchers' : session'[w] = NewClientSession
  BY DEF WatchInv
<1>2. player.torn => lost = watchers
  BY DEF WatchInv, Playing
<1>3. ASSUME Shows', NEW w \in watchers' \ lost'
      PROVE  Same(session'[w], channel'[w], player')
  <2>1. w \in watchers \ lost /\ w \in Watcher
    BY <1>3 DEF InTheTheatre
  <2>2. Shows /\ Playing'
    BY <1>2, <1>3, <2>1 DEF Shows
  <2>3. Same(session[w], channel[w], player)
    BY <2>1, <2>2 DEF WatchInv
  <2>4. channel'[w] = channel[w] \o msgs /\ session'[w] = session[w]
    BY <2>1 DEF Tell
  <2>5. PICK r : r = player'
    OBVIOUS
  <2>6. Same(session[w], channel[w] \o msgs, r)
    BY <2>2, <2>3, <2>5, SameTold
  <2> QED
    BY <2>4, <2>5, <2>6
<1>4. player'.on /\ player'.torn => lost' = watchers'
  BY <1>2
<1> QED
  BY <1>1, <1>3, <1>4 DEF WatchInv

LEMMA KeptWatch ==
  ASSUME WatchInv,
         UNCHANGED <<watchers, session, channel, lost>>,
         player'.on => player.on,
         player'.on => (player'.torn <=> player.torn),
         Shows' => Shows /\ Out(player'.session) = Out(player.session)
  PROVE  WatchInv'
<1>1. DOMAIN session' = Watcher
      /\ \A w \in Watcher \ watchers' : session'[w] = NewClientSession
  BY DEF WatchInv
<1>2. ASSUME Shows', NEW w \in watchers' \ lost'
      PROVE  Same(session'[w], channel'[w], player')
  BY <1>2 DEF WatchInv, Same
<1>3. player'.on /\ player'.torn => lost' = watchers'
  BY DEF WatchInv
<1> QED
  BY <1>1, <1>2, <1>3 DEF WatchInv

LEMMA RecordingWatch ==
  ASSUME WatchInv, UNCHANGED <<theatre, stale>>
  PROVE  WatchInv'
<1>1. UNCHANGED <<player, watchers, channel, session, lost, stale>>
  BY DEF theatre
<1> QED
  BY <1>1, KeptWatch DEF Shows, Playing

LEMMA RunBeginWatch ==
  ASSUME Types, PlayerInv, WatchInv, RunBegin
  PROVE  WatchInv'
<1>1. NextCall(BeginCall)
  BY DEF RunBegin
<1>2. ~player.on
  BY <1>1, QuietNext DEF PlayerInv
<1>3. UNCHANGED <<player, watchers, channel, session, lost>>
  BY <1>1 DEF NextCall, theatre
<1>4. ~Shows'
  BY <1>2, <1>3 DEF Shows, Playing
<1> QED
  BY <1>3, <1>4, KeptWatch

LEMMA LaunchWatch ==
  ASSUME InTheTheatre, WatchInv, LaunchReplaySession
  PROVE  WatchInv'
<1>1. UNCHANGED <<watchers, channel, session, lost>> /\ ~player.on
  BY DEF LaunchReplaySession
<1>2. watchers = {} /\ lost = {}
  BY <1>1 DEF InTheTheatre
<1> QED
  BY <1>1, <1>2 DEF WatchInv

LEMMA EndWatch ==
  ASSUME EndReplaySession
  PROVE  WatchInv'
<1>1. ~player'.on
  BY DEF EndReplaySession, NoPlayer
<1>2. DOMAIN session' = Watcher /\ \A w \in Watcher : session'[w] = NewClientSession
  BY DEF EndReplaySession
<1> QED
  BY <1>1, <1>2 DEF WatchInv, Shows, Playing

\* The player starts again, and tells it.
LEMMA RewoundWatch ==
  ASSUME Order, AsExpected, PlayerInv, InTheTheatre, WatchInv, Playing,
         NEW p \in Performer, player' = Rewound(p),
         Tell(<<ResetMsg>>), UNCHANGED <<watchers, session, lost, stale>>
  PROVE  WatchInv'
<1> DEFINE r == Rewound(p)
           msgs == <<ResetMsg>>
<1>1. r.torn = FALSE /\ (~r.session.ended => Out(r.session) = Well(NoObjects))
  BY RewoundParts
<1>2. ResetMsg \in Msg /\ msgs \in Seq(Msg)
  BY DEF Msg
<1>3. ASSUME Shows, Playing'
      PROVE  Out(player'.session) = Hearing!Fold(Out(player.session), msgs)
  <2>1. Out(player.session) \in World /\ Out(player.session).ok
    BY <1>3, ShowsParts
  <2>2. Hearing!Fold(Out(player.session), msgs) = PlayMsg(Out(player.session), ResetMsg)
    BY Hearing!FoldOne
  <2>3. PlayMsg(Out(player.session), ResetMsg) = Well(NoObjects)
    BY <2>1, PlayReset
  <2>4. ~player'.session.ended
    BY <1>3 DEF Playing
  <2> HIDE DEF msgs
  <2> QED
    BY <1>1, <2>2, <2>3, <2>4
<1>4. ~player'.torn
  BY <1>1
<1> HIDE DEF msgs, r
<1>5. Tell(msgs)
  BY DEF msgs
<1> QED
  BY <1>2, <1>3, <1>4, <1>5, ToldWatch

LEMMA ReadEndWatch ==
  ASSUME Order, AsExpected, PlayerInv, InTheTheatre, WatchInv, ReadEnd
  PROVE  WatchInv'
<1>1. /\ Playing /\ UNCHANGED <<watchers, session, lost, stale>>
      /\ Tell(<<ResetMsg>>) /\ player' = Rewound(SaveState(player))
  BY DEF ReadEnd, Fetch, assets, RewindTold
<1>2. player \in Performer
  BY <1>1 DEF Playing, PlayerInv, Plays, InShape
<1>3. SaveState(player) \in Performer
  BY <1>2, SaveParts
<1>4. PICK p : p = SaveState(player)
  OBVIOUS
<1> QED
  BY <1>1, <1>3, <1>4, RewoundWatch

LEMMA ReadGarbageWatch ==
  ASSUME Order, AsExpected, PlayerInv, InTheTheatre, WatchInv, ReadGarbage
  PROVE  WatchInv'
<1>1. Playing /\ UNCHANGED <<watchers, session, lost, stale>>
  BY DEF ReadGarbage, Fetch, assets
<1>2. player \in Performer
  BY <1>1 DEF Playing, PlayerInv, Plays, InShape
<1>3. CASE player' = Rewound(SaveState(player)) /\ RewindTold
  <2>1. SaveState(player) \in Performer
    BY <1>2, SaveParts
  <2>2. PICK p : p = SaveState(player)
    OBVIOUS
  <2> QED
    BY <1>1, <1>3, <2>1, <2>2, RewoundWatch DEF RewindTold
<1>4. CASE /\ player' = [player EXCEPT !.session = Error(@), !.updating = FALSE]
           /\ UNCHANGED channel
  <2> DEFINE s == Error(player.session)
  <2>1. s.ended
    BY <1>2 DEF Error, Performer, Session
  <2>2. player' = [player EXCEPT !.session = s, !.updating = FALSE]
    BY <1>4
  <2> HIDE DEF s
  <2>3. player'.session = s /\ player'.torn = player.torn /\ player.on
    BY <1>1, <1>2, <2>2 DEF Performer, Playing
  <2>4. ~Shows'
    BY <2>1, <2>3 DEF Shows, Playing
  <2> QED
    BY <1>1, <1>4, <2>3, <2>4, KeptWatch
<1> QED
  BY <1>3, <1>4 DEF ReadGarbage

LEMMA ReadMessageWatch ==
  ASSUME Order, AsExpected, PlayerInv, InTheTheatre, WatchInv, ReadMessage
  PROVE  WatchInv'
<1> DEFINE m == disk.entries[player.pos + 1].msg
           q == SaveState(player)
           s == player.session
           t == HandleSessionMessage(s, m)
           msgs == IF m = ResetMsg THEN <<ResetMsg, m>> ELSE <<m>>
           time == IF m = ResetMsg THEN 0 ELSE q.time
           pos == q.pos + 1
<1>1. /\ Fetch /\ Readable(player) /\ UNCHANGED <<watchers, session, lost>>
      /\ Tell(msgs)
      /\ player' = [q EXCEPT !.session = HandleSessionMessage(@, m),
                             !.time = IF m = ResetMsg THEN 0 ELSE @,
                             !.pos = @ + 1, !.updating = TRUE]
  BY DEF ReadMessage
<1>2. /\ Playing /\ s.cmds = <<>> /\ UNCHANGED stale
  BY <1>1 DEF Fetch, assets
<1>3. Plays(player) /\ player \in Performer /\ Good(s) /\ player.on
  BY <1>2 DEF Playing, PlayerInv, Plays, InShape
<1>4. m \in Msg
  BY <1>1, <1>2, <1>3, ReadPlays DEF Playing
<1>5. q \in Performer /\ q.session = s /\ q.torn = player.torn
  BY <1>3, SaveParts
<1>6. player' = [q EXCEPT !.session = t, !.time = time, !.pos = pos, !.updating = TRUE]
  BY <1>1, <1>5
<1>7. ASSUME Shows PROVE Out(t) = PlayMsg(Out(s), m) /\ Out(s) \in World /\ Out(s).ok
  BY <1>4, <1>7, ShowsParts, Received
<1> HIDE DEF m, t, time, pos
<1>8. player'.session = t /\ player'.torn = player.torn
  BY <1>5, <1>6 DEF Performer
<1>9. msgs \in Seq(Msg) /\ (Shows => Hearing!Fold(Out(s), msgs) = PlayMsg(Out(s), m))
  <2>1. CASE m = ResetMsg
    <3>1. msgs = <<m, m>>
      BY <2>1
    <3>2. /\ <<m, m>> \in Seq(Msg)
          /\ Hearing!Fold(Out(s), <<m, m>>) = PlayMsg(PlayMsg(Out(s), m), m)
      BY <1>4, TwoHeard
    <3>3. ASSUME Shows PROVE PlayMsg(PlayMsg(Out(s), m), m) = PlayMsg(Out(s), m)
      <4>1. PlayMsg(Out(s), m) = Well(NoObjects)
        BY <1>7, <2>1, <3>3, PlayReset
      <4>2. Well(NoObjects) \in World /\ Well(NoObjects).ok
        BY CastParts DEF Well
      <4>3. PlayMsg(Well(NoObjects), m) = Well(NoObjects)
        BY <2>1, <4>2, PlayReset
      <4> QED
        BY <4>1, <4>3
    <3> HIDE DEF msgs, s
    <3> QED
      BY <3>1, <3>2, <3>3
  <2>2. CASE m # ResetMsg
    <3>1. msgs = <<m>>
      BY <2>2
    <3>2. <<m>> \in Seq(Msg) /\ Hearing!Fold(Out(s), <<m>>) = PlayMsg(Out(s), m)
      BY <1>4, Hearing!FoldOne
    <3> HIDE DEF msgs, s
    <3> QED
      BY <3>1, <3>2
  <2> QED
    BY <2>1, <2>2
<1> HIDE DEF msgs
<1>10. Shows => Out(player'.session) = Hearing!Fold(Out(player.session), msgs)
  BY <1>7, <1>8, <1>9
<1> QED
  BY <1>1, <1>2, <1>8, <1>9, <1>10, ToldWatch

LEMMA RunMomentWatch ==
  ASSUME Order, AsExpected, PlayerInv, WatchInv, RunMoment
  PROVE  WatchInv'
<1> DEFINE s == player.session
           last == Min(Steps(s.cmds))
           t == Update(s, last)
           time == player.time + s.cmds[last].diff
<1>1. /\ player' = [player EXCEPT !.session = Update(@, last),
                                  !.time = @ + s.cmds[last].diff,
                                  !.updating = FALSE]
      /\ s.cmds # <<>> /\ Playing
      /\ UNCHANGED <<watchers, channel, session, lost, stale>>
  BY DEF RunMoment, assets
<1>2. player \in Performer /\ Good(s) /\ player.on
  BY <1>1 DEF Playing, PlayerInv, Plays, InShape
<1>3. last \in 1 .. Len(s.cmds)
  <2> HIDE DEF s
  <2> QED
    BY <1>1, <1>2, FirstStep DEF s
<1>4. player' = [player EXCEPT !.session = t, !.time = time, !.updating = FALSE]
  BY <1>1
<1>5. last \in 0 .. Len(s.cmds)
  BY <1>3
<1> HIDE DEF last
<1>6. Out(t) = Out(s)
  BY <1>2, <1>5, Updated
<1> HIDE DEF t, time
<1>7. player'.session = t /\ player'.torn = player.torn
  BY <1>2, <1>4 DEF Performer
<1>8. Shows' => Shows /\ Out(player'.session) = Out(player.session)
  BY <1>1, <1>6, <1>7 DEF Shows
<1> QED
  BY <1>1, <1>2, <1>7, <1>8, KeptWatch

LEMMA SeekToWatch ==
  ASSUME Order, AsExpected, PlayerInv, InTheTheatre, WatchInv, NEW goal, SeekTo(goal)
  PROVE  WatchInv'
<1>1. Playing /\ UNCHANGED <<watchers, session, stale>>
  BY DEF SeekTo, assets
<1>2. player \in Performer
  BY <1>1 DEF Playing, PlayerInv, Plays, InShape
<1>3. CASE player' = Rewound(player) /\ RewindTold /\ UNCHANGED lost
  <2>1. PICK p : p = player
    OBVIOUS
  <2> QED
    BY <1>1, <1>2, <1>3, <2>1, RewoundWatch DEF RewindTold
<1>4. CASE UNCHANGED <<player, channel, lost>>
  BY <1>1, <1>4, KeptWatch DEF Shows, Playing
<1>5. CASE lost' = watchers
  <2>1. watchers' \ lost' = {}
    BY <1>1, <1>5
  <2> QED
    BY <1>1, <1>5, <2>1 DEF WatchInv
<1> QED
  BY <1>3, <1>4, <1>5 DEF SeekTo

LEMMA ConnectedWatch ==
  ASSUME Order, AsExpected, PlayerInv, InTheTheatre, WatchInv,
         NEW w \in Watcher, OnClientConnected(w)
  PROVE  WatchInv'
<1> DEFINE s == player.session
           g == GetCorrectionMessages(s.objs)
           told == <<ResetMsg, DumpFullState(s.objs)>> \o g
           ready == ~player.torn /\ s.cmds \o s.pending = <<>>
<1>1. /\ UNCHANGED <<player, session, stale>> /\ player.on /\ w \notin watchers
      /\ watchers' = watchers \cup {w}
      /\ channel' = [v \in Watcher |->
                       CASE v = w -> told
                         [] v \in watchers \ {w} -> channel[v] \o g
                         [] OTHER -> channel[v]]
      /\ lost' = IF ready THEN lost ELSE lost \cup {w}
  BY DEF OnClientConnected, assets
<1>2. lost \subseteq watchers /\ watchers \subseteq Watcher
  BY DEF InTheTheatre
<1>3. /\ DOMAIN session' = Watcher
      /\ \A v \in Watcher \ watchers' : session'[v] = NewClientSession
      /\ session'[w] = NewClientSession
  BY <1>1 DEF WatchInv
<1>4. player'.on /\ player'.torn => lost' = watchers'
  BY <1>1 DEF WatchInv
<1>5. ASSUME Shows', NEW v \in watchers' \ lost'
      PROVE  Same(session'[v], channel'[v], player')
  <2>1. Shows
    BY <1>1, <1>5 DEF Shows, Playing
  <2>2. /\ Good(s) /\ s \in Session /\ s.objs \in Objs
        /\ Out(s) \in World
        /\ s.cmds = <<>> /\ s.pending = <<>> => Out(s) = Well(s.objs) /\ Homes(s.objs)
    BY <2>1, ShowsParts DEF Session
  <2>3. g \in Seq(Msg) /\ Hearing!Fold(Out(s), g) = Out(s)
    BY <2>2, Corrected
  <2>4. CASE v = w
    <3>1. ready
      BY <1>1, <1>5, <2>4
    <3>2. s.cmds = <<>> /\ s.pending = <<>>
      <4>1. s.cmds \in Seq(Cmd) /\ s.pending \in Seq(Cmd)
        BY <2>2 DEF Session
      <4> DEFINE a == s.cmds
                 b == s.pending
      <4>2. a \in Seq(Cmd) /\ b \in Seq(Cmd) /\ a \o b = <<>>
        BY <3>1, <4>1
      <4> HIDE DEF a, b
      <4>3. Len(a) \in Nat /\ Len(b) \in Nat /\ Len(a \o b) = Len(a) + Len(b)
        BY <4>2, ConcatProperties, LenProperties
      <4>4. Len(a) = 0 /\ Len(b) = 0
        BY <4>2, <4>3, EmptySeq
      <4>5. a = <<>> /\ b = <<>>
        BY <4>2, <4>4, EmptySeq
      <4> QED
        BY <4>5 DEF a, b
    <3>3. Same(NewClientSession, told, player)
      BY <2>2, <3>2, SameJoined
    <3> HIDE DEF told, g
    <3>4. channel'[v] = told
      BY <1>1, <2>4
    <3> QED
      BY <1>1, <1>3, <2>4, <3>3, <3>4
  <2>5. CASE v # w
    <3>1. v \in watchers \ lost /\ v \in watchers \ {w} /\ v \in Watcher
      BY <1>1, <1>2, <1>5, <2>5
    <3>2. Same(session[v], channel[v], player)
      BY <2>1, <3>1 DEF WatchInv
    <3>3. Same(session[v], channel[v] \o g, player)
      BY <2>3, <3>2, SameTold
    <3> HIDE DEF told, g
    <3>4. channel'[v] = channel[v] \o g
      BY <1>1, <2>5, <3>1
    <3> QED
      BY <1>1, <3>3, <3>4
  <2> QED
    BY <2>4, <2>5
<1> QED
  BY <1>3, <1>4, <1>5 DEF WatchInv

LEMMA DisconnectedWatch ==
  ASSUME InTheTheatre, WatchInv, NEW w \in Watcher, OnClientDisconnected(w)
  PROVE  WatchInv'
<1>1. /\ UNCHANGED <<player, stale>>
      /\ watchers' = watchers \ {w} /\ lost' = lost \ {w}
      /\ channel' = [channel EXCEPT ![w] = <<>>]
      /\ session' = [session EXCEPT ![w] = NewClientSession]
  BY DEF OnClientDisconnected, assets
<1>2. DOMAIN session = Watcher /\ DOMAIN channel = Watcher /\ watchers \subseteq Watcher
  BY DEF WatchInv, InTheTheatre
<1>3. DOMAIN session' = Watcher /\ session'[w] = NewClientSession
      /\ \A v \in Watcher \ {w} : session'[v] = session[v] /\ channel'[v] = channel[v]
  BY <1>1, <1>2
<1>4. \A v \in Watcher \ watchers' : session'[v] = NewClientSession
  BY <1>1, <1>3 DEF WatchInv
<1>5. player'.on /\ player'.torn => lost' = watchers'
  BY <1>1 DEF WatchInv
<1>6. ASSUME Shows', NEW v \in watchers' \ lost'
      PROVE  Same(session'[v], channel'[v], player')
  <2>1. Shows /\ v \in watchers \ lost /\ v \in Watcher \ {w}
    BY <1>1, <1>2, <1>6 DEF Shows, Playing
  <2>2. Same(session[v], channel[v], player)
    BY <2>1 DEF WatchInv
  <2> QED
    BY <1>1, <1>3, <2>1, <2>2
<1> QED
  BY <1>3, <1>4, <1>5, <1>6 DEF WatchInv

LEMMA ReceiveWatch ==
  ASSUME Order, AsExpected, PlayerInv, InTheTheatre, WatchInv,
         NEW w \in Watcher, Receive(w)
  PROVE  WatchInv'
<1> DEFINE t == HandleSessionMessage(session[w], Head(channel[w]))
<1>1. /\ UNCHANGED <<player, watchers, lost, stale>> /\ channel[w] # <<>>
      /\ channel' = [channel EXCEPT ![w] = Tail(@)]
      /\ session' = [session EXCEPT ![w] = HandleSessionMessage(@, Head(channel[w]))]
  BY DEF Receive, assets
<1>2. DOMAIN session = Watcher /\ DOMAIN channel = Watcher /\ watchers \subseteq Watcher
      /\ w \in watchers
  BY <1>1 DEF WatchInv, InTheTheatre
<1>3. session' = [session EXCEPT ![w] = t]
  BY <1>1
<1> HIDE DEF t
<1>4. DOMAIN session' = Watcher /\ session'[w] = t /\ channel'[w] = Tail(channel[w])
      /\ \A v \in Watcher \ {w} : session'[v] = session[v] /\ channel'[v] = channel[v]
  BY <1>1, <1>2, <1>3
<1>5. \A v \in Watcher \ watchers' : session'[v] = NewClientSession
  BY <1>1, <1>2, <1>4 DEF WatchInv
<1>6. player'.on /\ player'.torn => lost' = watchers'
  BY <1>1 DEF WatchInv
<1>7. ASSUME Shows', NEW v \in watchers' \ lost'
      PROVE  Same(session'[v], channel'[v], player')
  <2>1. Shows /\ v \in watchers \ lost /\ v \in Watcher
    BY <1>1, <1>2, <1>7 DEF Shows, Playing
  <2>2. Same(session[v], channel[v], player)
    BY <2>1 DEF WatchInv
  <2>3. CASE v = w
    <3>1. Out(player.session).ok
      BY <2>1, ShowsParts
    <3>2. Same(t, Tail(channel[w]), player)
      BY <1>1, <2>2, <2>3, <3>1, SameReceived DEF t
    <3> QED
      BY <1>1, <1>4, <2>3, <3>2
  <2>4. CASE v # w
    BY <1>1, <1>4, <2>1, <2>2, <2>4
  <2> QED
    BY <2>3, <2>4
<1> QED
  BY <1>4, <1>5, <1>6, <1>7 DEF WatchInv

LEMMA UpdateWatch ==
  ASSUME Order, AsExpected, PlayerInv, InTheTheatre, WatchInv,
         NEW w \in Watcher, UpdateSession(w)
  PROVE  WatchInv'
<1>1. /\ UNCHANGED <<player, watchers, channel, lost, stale>>
  BY DEF UpdateSession, assets
<1>2. PICK last \in Stops(session[w].cmds) : session' = [session EXCEPT ![w] = Update(@, last)]
  BY DEF UpdateSession
<1> DEFINE t == Update(session[w], last)
<1>3. DOMAIN session = Watcher /\ watchers \subseteq Watcher
  BY DEF WatchInv, InTheTheatre
<1>4. session' = [session EXCEPT ![w] = t]
  BY <1>2
<1> HIDE DEF t
<1>5. DOMAIN session' = Watcher /\ session'[w] = t
      /\ \A v \in Watcher \ {w} : session'[v] = session[v]
  BY <1>3, <1>4
<1>6. w \in watchers
  <2>1. ASSUME w \notin watchers PROVE FALSE
    <3>1. session[w].cmds = <<>>
      BY <2>1, NewParts DEF WatchInv
    <3>2. DOMAIN <<>> = {}
      BY EmptySeq
    <3>3. Stops(<<>>) = {}
      BY <3>2 DEF Stops, Steps
    <3> QED
      BY <1>2, <3>1, <3>3
  <2> QED
    BY <2>1
<1>7. \A v \in Watcher \ watchers' : session'[v] = NewClientSession
  BY <1>1, <1>5, <1>6 DEF WatchInv
<1>8. player'.on /\ player'.torn => lost' = watchers'
  BY <1>1 DEF WatchInv
<1>9. ASSUME Shows', NEW v \in watchers' \ lost'
      PROVE  Same(session'[v], channel'[v], player')
  <2>1. Shows /\ v \in watchers \ lost /\ v \in Watcher
    BY <1>1, <1>3, <1>9 DEF Shows, Playing
  <2>2. Same(session[v], channel[v], player)
    BY <2>1 DEF WatchInv
  <2>3. CASE v = w
    <3>1. Out(player.session).ok
      BY <2>1, ShowsParts
    <3>2. last \in 0 .. Len(session[w].cmds)
      <4> DEFINE q == session[w].cmds
      <4>1. q \in Seq(Cmd)
        BY <2>2, <2>3 DEF Same, Good, Session
      <4> HIDE DEF q
      <4>2. DOMAIN q = 1 .. Len(q) /\ Len(q) \in Nat
        BY <4>1, LenProperties
      <4>3. last \in DOMAIN q \/ last = Len(q)
        BY <1>2 DEF Stops, Steps, q
      <4>4. last \in 0 .. Len(q)
        BY <4>2, <4>3
      <4> QED
        BY <4>4 DEF q
    <3>3. Same(t, channel[w], player)
      BY <2>2, <2>3, <3>1, <3>2, SameUpdated DEF t
    <3> QED
      BY <1>1, <1>5, <2>3, <3>3
  <2>4. CASE v # w
    BY <1>1, <1>5, <2>1, <2>2, <2>4
  <2> QED
    BY <2>3, <2>4
<1> QED
  BY <1>5, <1>7, <1>8, <1>9 DEF WatchInv

LEMMA InvWatchersFollow ==
  ASSUME Order, AsExpected, PlayerInv, InTheTheatre, WatchInv
  PROVE  WatchersFollow
<1> SUFFICES ASSUME Playing, stale = <<>>, NEW w \in watchers \ lost
             PROVE  Outcome(session[w], channel[w]) = Outcome(player.session, <<>>)
  BY DEF WatchersFollow
<1> DEFINE s == player.session
           v == session[w]
           q == channel[w]
<1>1. Shows
  BY DEF Shows, WatchInv, Playing
<1>2. Good(s) /\ Out(s).ok
  BY <1>1, ShowsParts
<1>3. Good(v) /\ q \in Seq(Msg) /\ Hearing!Fold(Out(v), q) = Out(s)
  BY <1>1 DEF WatchInv, Same
<1> HIDE DEF s, v, q
<1>4. <<>> \in Seq(Msg) /\ Hearing!Fold(Out(s), <<>>) = Out(s)
  BY EmptySeq, Hearing!FoldEmpty
<1>5. Outcome(s, <<>>) = [objs |-> Out(s).objs, ended |-> FALSE]
  BY <1>2, <1>4, OutcomeThen
<1>6. Outcome(v, q) = [objs |-> Out(s).objs, ended |-> FALSE]
  BY <1>2, <1>3, OutcomeThen
<1> QED
  BY <1>5, <1>6 DEF s, v, q

-----------------------------------------------------------------------------
(* The whole invariant.                                                    *)

AllInv == IInv /\ AsExpected /\ PlayerInv /\ WatchInv

LEMMA InitAllInv == Init => AllInv
<1> SUFFICES ASSUME Init PROVE AllInv
  OBVIOUS
<1>1. IInv /\ AsExpected
  BY InitIInv, InitExpected
<1>2. ~player.on /\ watchers = {} /\ session = [w \in Watcher |-> NewClientSession]
  BY DEF Init, NoPlayer
<1>3. PlayerInv
  BY <1>2 DEF PlayerInv
<1>4. WatchInv
  BY <1>2 DEF WatchInv, Shows, Playing
<1> QED
  BY <1>1, <1>3, <1>4 DEF AllInv

\* The session that records and the assets thread.
LEMMA RecordingAllInv ==
  ASSUME AllInv, IInv',
         \/ StartRecording \/ Record \/ StopRecording
         \/ RunBegin \/ RunAddMessage \/ RunEnd \/ Process
  PROVE  AllInv'
<1>1. Order /\ Order' /\ AsExpected /\ PlayerInv /\ WatchInv /\ Types /\ TakeTurns
  BY DEF AllInv, IInv, Order
<1>2. AsExpected'
  BY <1>1, StartRecordingExpected, RecordExpected, StopRecordingExpected, RunBeginExpected,
     RunAddMessageExpected, RunEndExpected, ProcessExpected
<1>3. PlayerInv'
  BY <1>1, RecordingPlayer, RunBeginPlayer, RunAddMessagePlayer, RunEndPlayer, ProcessPlayer
<1>4. WatchInv'
  <2>1. CASE RunBegin
    BY <1>1, <2>1, RunBeginWatch
  <2>2. CASE StartRecording \/ Record \/ StopRecording
    BY <1>1, <2>2, RecordingWatch DEF StartRecording, Record, StopRecording, assets
  <2>3. CASE RunAddMessage
    <3>1. PICK item : NextCall(AddCall(item)) /\ RunAdd_(item)
      BY <2>3 DEF RunAddMessage
    <3>2. UNCHANGED <<theatre, stale>>
      BY <3>1 DEF NextCall, RunAdd_, Ignored, Break, Overflow, Take, assets
    <3> QED
      BY <1>1, <3>2, RecordingWatch
  <2>4. CASE RunEnd
    <3>1. UNCHANGED theatre
      BY <2>4 DEF RunEnd, NextCall
    <3>2. UNCHANGED stale
      BY <2>4 DEF RunEnd, Ignored, Break, assets
    <3> QED
      BY <1>1, <3>1, <3>2, RecordingWatch
  <2>5. CASE Process
    BY <1>1, <2>5, RecordingWatch DEF Process
  <2> QED
    BY <2>1, <2>2, <2>3, <2>4, <2>5
<1> QED
  BY <1>2, <1>3, <1>4 DEF AllInv

LEMMA PlaybackAllInv ==
  ASSUME AllInv, IInv', Playback
  PROVE  AllInv'
<1>1. /\ Order /\ Order' /\ AsExpected /\ PlayerInv /\ WatchInv /\ Types /\ TakeTurns
      /\ InTheTheatre
  BY DEF AllInv, IInv, Order
<1>2. UNCHANGED <<recorder, assets>>
  BY DEF Playback, LaunchReplaySession, EndReplaySession, ReadEnd, ReadGarbage, ReadMessage,
         RunMoment, Fetch, SeekTo, OnClientConnected, OnClientDisconnected, Receive,
         UpdateSession
<1>3. AsExpected'
  BY <1>1, <1>2, PlaybackExpected
<1>4. CASE LaunchReplaySession
  BY <1>1, <1>3, <1>4, LaunchPlayer, LaunchWatch DEF AllInv
<1>5. CASE EndReplaySession
  BY <1>3, <1>5, EndPlayer, EndWatch DEF AllInv
<1>6. CASE ReadEnd
  BY <1>1, <1>3, <1>6, ReadEndPlayer, ReadEndWatch DEF AllInv
<1>7. CASE ReadGarbage
  BY <1>1, <1>3, <1>7, ReadGarbagePlayer, ReadGarbageWatch DEF AllInv
<1>8. CASE ReadMessage
  BY <1>1, <1>3, <1>8, ReadMessagePlayer, ReadMessageWatch DEF AllInv
<1>9. CASE RunMoment
  BY <1>1, <1>3, <1>9, RunMomentPlayer, RunMomentWatch DEF AllInv
<1>10. ASSUME NEW goal \in Goals, SeekTo(goal) PROVE AllInv'
  BY <1>1, <1>3, <1>10, SeekToPlayer, SeekToWatch DEF AllInv
<1>11. ASSUME NEW w \in Watcher,
              \/ OnClientConnected(w) \/ OnClientDisconnected(w)
              \/ Receive(w) \/ UpdateSession(w)
       PROVE  AllInv'
  <2>1. PlayerInv'
    BY <1>1, <1>11, WatchingPlayer
  <2>2. WatchInv'
    BY <1>1, <1>11, ConnectedWatch, DisconnectedWatch, ReceiveWatch, UpdateWatch
  <2> QED
    BY <1>3, <2>1, <2>2 DEF AllInv
<1> QED
  BY <1>4, <1>5, <1>6, <1>7, <1>8, <1>9, <1>10, <1>11 DEF Playback

LEMMA NextAllInv == AllInv /\ [Next]_vars => AllInv'
<1> SUFFICES ASSUME AllInv, [Next]_vars PROVE AllInv'
  OBVIOUS
<1>1. IInv'
  BY NextIInv DEF AllInv
<1>2. CASE \/ StartRecording \/ Record \/ StopRecording
           \/ RunBegin \/ RunAddMessage \/ RunEnd \/ Process
  BY <1>1, <1>2, RecordingAllInv
<1>3. CASE Playback
  BY <1>1, <1>3, PlaybackAllInv
<1>4. CASE UNCHANGED vars
  <2>1. UNCHANGED <<recorder, assets, theatre>>
    BY <1>4 DEF vars
  <2>2. /\ Order /\ Order' /\ AsExpected /\ PlayerInv /\ WatchInv /\ Types
    BY <1>1 DEF AllInv, IInv, Order
  <2>3. AsExpected'
    BY <2>1, <2>2, PlaybackExpected
  <2>4. PlayerInv'
    BY <2>1, <2>2, PlayerStays DEF theatre
  <2>5. WatchInv'
    BY <2>1, <2>2, RecordingWatch DEF assets
  <2> QED
    BY <1>1, <2>3, <2>4, <2>5 DEF AllInv
<1> QED
  BY <1>2, <1>3, <1>4 DEF Next, Playback

LEMMA PlayedInvariant == Spec => []AllInv
<1>1. AllInv /\ [Next]_vars => AllInv'
  BY NextAllInv
<1> QED
  BY <1>1, InitAllInv, PTL DEF Spec

\* client_session_replay.cc:147-353: wherever a player seeks, and however often
\* it comes to the end, it has what playing the file from its start to the same
\* place makes, and no error but for a length that is not read as written;
\* unless it was restored from the middle of a moment.
THEOREM ReplayPlays == Spec => []PlaysTrue
<1>1. AllInv => PlaysTrue
  BY InvPlaysTrue DEF AllInv, IInv
<1> QED
  BY <1>1, PlayedInvariant, PTL

\* client_session_replay.cc:68-145: whenever a client joins, and whatever is on
\* the way to it, it comes to what the player has, unless it is one of those
\* that were not told all.
THEOREM ReplayWatched == Spec => []WatchersFollow
<1>1. AllInv => WatchersFollow
  BY InvWatchersFollow DEF AllInv, IInv
<1> QED
  BY <1>1, PlayedInvariant, PTL
=============================================================================
