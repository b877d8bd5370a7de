--------------------------- MODULE EventLoopProofs ---------------------------
(***************************************************************************)
(* For any number of loops and of runnables, however threads interleave:   *)
(* runnables run in order, the flag of a synchronous call outlives what    *)
(* sets it, results are there when a call returns, and loops are told to   *)
(* suspend and to go on by turns.                                          *)
(***************************************************************************)
EXTENDS EventLoop, SequenceTheorems, WellFoundedInduction, TLAPS

-----------------------------------------------------------------------------
(* The inductive invariant.                                                *)

\* Where a thread is while it calls, and once what it waits for was pushed.
Listening == {"listen", "tired", "asleep", "woken"}
Calling == {"push"} \cup Listening

\* What may be left where a thread is: a list is empty when it is swapped or
\* filled, and a loop that is suspended is not at work.
Stages ==
  \A t \in Loop :
    /\ pc[t] # "messages" => inbox[t] = <<>>
    /\ pc[t] \in {"body"} \cup Calling => batch[t] # <<>>
    /\ pc[t] \notin {"next", "body"} \cup Calling => batch[t] = <<>>
    /\ suspended[t] => pc[t] \in {"wait", "messages", "exited"}

\* A runnable is with the loop that it is for, and is not a message of its own;
\* only loops call synchronously.
Addressed ==
  \A t \in Loop :
    /\ \A r \in Pending(t) : r.to = t /\ (r.sync => r.by \in Loop)
    /\ \A m \in Messages(t) : m.type = "runnable" => m.by # t

\* RunInOrder, list by list.
Below(S, T) == \A m \in S, n \in T : m < n

InTurn(p, b, r, i, m, from, upto) ==
  /\ Ascending(p, b) /\ Ascending(p, r) /\ Ascending(p, i) /\ Ascending(p, m)
  /\ Below(Numbers(p, b), Numbers(p, r))
  /\ Below(Numbers(p, b), Numbers(p, i))
  /\ Below(Numbers(p, b), Numbers(p, m))
  /\ Below(Numbers(p, r), Numbers(p, i))
  /\ Below(Numbers(p, r), Numbers(p, m))
  /\ Below(Numbers(p, i), Numbers(p, m))
  /\ Numbers(p, b) \cup Numbers(p, r) \cup Numbers(p, i) \cup Numbers(p, m)
     = (from + 1) .. upto
  /\ from <= upto

InOrder ==
  \A p \in Pusher, t \in Loop :
    InTurn(p, batch[t], runnables[t], inbox[t], messages[t], ran[p][t], pushed[p][t])

\* What a caller has in its hands.
CallShape ==
  \A c \in Loop :
    /\ pc[c] \in Calling =>
         /\ call[c] \in RunnableType
         /\ call[c].by = c /\ call[c].to # c /\ call[c].sync
    /\ pc[c] = "push" => ~complete[c] /\ call[c].n = pushed[c][call[c].to] + 1

ResultsIn == \A c \in Loop : call[c] # NoCall /\ complete[c] => HasRun(call[c])

\* What a loop has been told and has not handled leads from what it is by turns
\* to what the app wants of it.
Mood == {"parked", "awake"}

Follows(before, m, after) ==
  \/ m.type = "runnable" /\ after = before
  \/ m.type = "suspend" /\ before = "awake" /\ after = "parked"
  \/ m.type = "unsuspend" /\ before = "parked" /\ after = "awake"

Alternate(from, list, to) ==
  \E h \in [0 .. Len(list) -> Mood] :
    /\ h[0] = from /\ h[Len(list)] = to
    /\ \A i \in 1 .. Len(list) : Follows(h[i - 1], list[i], h[i])

Is(t) == IF suspended[t] THEN "parked" ELSE "awake"

Told(t) ==
  IF /\ t \in Suspendable
     /\ IF t \in untold THEN app = "unsuspending" ELSE app \in {"suspending", "suspended"}
    THEN "parked" ELSE "awake"

Alternates == \A t \in Loop : Alternate(Is(t), inbox[t] \o messages[t], Told(t))

AppShape ==
  /\ app \in {"running", "suspended"} => untold = {}
  /\ parked => app = "suspended"

QueuesFine == Addressed /\ InOrder
CallsFine == FlagsAlive /\ CallShape /\ ResultsIn
SuspensionFine == Alternates /\ AppShape

Inv == TypeOK /\ Stages /\ QueuesFine /\ CallsFine /\ SuspensionFine

-----------------------------------------------------------------------------
(* Lists.                                                                  *)

LEMMA MessageKinds ==
  ASSUME NEW m \in MessageType
  PROVE  /\ m.type = "runnable" => m \in RunnableType
         /\ m.type \in {"runnable", "suspend", "unsuspend"}
         /\ m.type # "runnable" => m \in {Suspend, Unsuspend}
  BY DEF MessageType, RunnableType, Suspend, Unsuspend

LEMMA RunnablesAreMessages ==
  ASSUME NEW list \in Seq(RunnableType)
  PROVE  list \in Seq(MessageType)
  BY DEF MessageType

LEMMA RangeAppend ==
  ASSUME NEW S, NEW list \in Seq(S), NEW m \in S
  PROVE  Range(Append(list, m)) = Range(list) \cup {m}
<1>1. /\ Len(Append(list, m)) = Len(list) + 1
      /\ \A i \in 1 .. Len(list) : Append(list, m)[i] = list[i]
      /\ Append(list, m)[Len(list) + 1] = m
      /\ DOMAIN Append(list, m) = 1 .. (Len(list) + 1)
      /\ DOMAIN list = 1 .. Len(list) /\ Len(list) \in Nat
  OBVIOUS
<1>2. ASSUME NEW x \in Range(Append(list, m))
      PROVE  x \in Range(list) \cup {m}
  <2>1. PICK i \in 1 .. (Len(list) + 1) : x = Append(list, m)[i]
    BY <1>1, <1>2 DEF Range
  <2> QED
    BY <1>1, <2>1 DEF Range
<1>3. ASSUME NEW x \in Range(list)
      PROVE  x \in Range(Append(list, m))
  <2>1. PICK i \in 1 .. Len(list) : x = list[i]
    BY <1>1, <1>3 DEF Range
  <2>2. i \in 1 .. (Len(list) + 1) /\ x = Append(list, m)[i]
    BY <1>1, <2>1
  <2> QED
    BY <1>1, <2>2 DEF Range
<1>4. m \in Range(Append(list, m))
  <2>1. Len(list) + 1 \in 1 .. (Len(list) + 1)
    BY <1>1
  <2> QED
    BY <1>1, <2>1 DEF Range
<1> QED
  BY <1>2, <1>3, <1>4

LEMMA ListParts ==
  ASSUME NEW S, NEW list \in Seq(S), list # <<>>
  PROVE  /\ Len(list) \in Nat \ {0} /\ DOMAIN list = 1 .. Len(list)
         /\ Head(list) = list[1] /\ Head(list) \in S
         /\ Tail(list) \in Seq(S) /\ Len(Tail(list)) = Len(list) - 1
         /\ DOMAIN Tail(list) = 1 .. (Len(list) - 1)
         /\ \A i \in 1 .. (Len(list) - 1) : Tail(list)[i] = list[i + 1]
  OBVIOUS

LEMMA RangeTail ==
  ASSUME NEW S, NEW list \in Seq(S), list # <<>>
  PROVE  Range(list) = {Head(list)} \cup Range(Tail(list))
<1>1. ASSUME NEW x \in Range(list)
      PROVE  x \in {Head(list)} \cup Range(Tail(list))
  <2>1. PICK i \in 1 .. Len(list) : x = list[i]
    BY <1>1, ListParts DEF Range
  <2>2. CASE i = 1
    BY <2>1, <2>2, ListParts
  <2>3. CASE i # 1
    <3>1. i - 1 \in 1 .. (Len(list) - 1) /\ (i - 1) + 1 = i
      BY <2>1, <2>3, ListParts
    <3>2. Tail(list)[i - 1] = x /\ i - 1 \in DOMAIN Tail(list)
      BY <2>1, <3>1, ListParts
    <3> QED
      BY <3>2 DEF Range
  <2> QED
    BY <2>2, <2>3
<1>2. ASSUME NEW x \in Range(Tail(list))
      PROVE  x \in Range(list)
  <2>1. PICK i \in 1 .. (Len(list) - 1) : x = Tail(list)[i]
    BY <1>2, ListParts DEF Range
  <2>2. x = list[i + 1] /\ i + 1 \in DOMAIN list
    BY <2>1, ListParts
  <2> QED
    BY <2>2 DEF Range
<1>3. Head(list) \in Range(list)
  <2>1. 1 \in DOMAIN list /\ Head(list) = list[1]
    BY ListParts
  <2> QED
    BY <2>1 DEF Range
<1> QED
  BY <1>1, <1>2, <1>3

LEMMA RangeEmpty == Range(<<>>) = {}
  BY DEF Range

\* The numbers of p's runnables are those of the runnables by p among them.
LEMMA NumbersByRange ==
  ASSUME NEW p, NEW list
  PROVE  Numbers(p, list) = {m.n : m \in {x \in Range(list) : x.type = "runnable" /\ x.by = p}}
  BY DEF Numbers, OfPusher, Range

Own(p, m) == IF m.type = "runnable" /\ m.by = p THEN {m.n} ELSE {}

LEMMA NumbersAppend ==
  ASSUME NEW p, NEW list \in Seq(MessageType), NEW m \in MessageType
  PROVE  Numbers(p, Append(list, m)) = Numbers(p, list) \cup Own(p, m)
<1>1. Range(Append(list, m)) = Range(list) \cup {m}
  BY RangeAppend
<1> QED
  BY <1>1, NumbersByRange DEF Own

LEMMA NumbersTail ==
  ASSUME NEW p, NEW list \in Seq(MessageType), list # <<>>
  PROVE  Numbers(p, list) = Own(p, Head(list)) \cup Numbers(p, Tail(list))
<1>1. Range(list) = {Head(list)} \cup Range(Tail(list))
  BY RangeTail
<1> QED
  BY <1>1, NumbersByRange DEF Own

LEMMA NumbersEmpty ==
  ASSUME NEW p
  PROVE  Numbers(p, <<>>) = {} /\ Ascending(p, <<>>)
  BY DEF Numbers, OfPusher, Ascending

LEMMA NumbersNat ==
  ASSUME NEW p, NEW list \in Seq(MessageType)
  PROVE  Numbers(p, list) \subseteq Nat \ {0}
<1> SUFFICES ASSUME NEW i \in OfPusher(p, list) PROVE list[i].n \in Nat \ {0}
  BY DEF Numbers
<1>1. list[i] \in MessageType /\ list[i].type = "runnable"
  BY DEF OfPusher
<1> QED
  BY <1>1, MessageKinds DEF RunnableType

LEMMA AscendingAppend ==
  ASSUME NEW p, NEW list \in Seq(MessageType), NEW m \in MessageType,
         Ascending(p, list), Below(Numbers(p, list), Own(p, m))
  PROVE  Ascending(p, Append(list, m))
<1> DEFINE longer == Append(list, m)
<1>1. /\ DOMAIN longer = 1 .. (Len(list) + 1) /\ DOMAIN list = 1 .. Len(list)
      /\ Len(list) \in Nat
      /\ \A i \in 1 .. Len(list) : longer[i] = list[i]
      /\ longer[Len(list) + 1] = m
  OBVIOUS
<1> HIDE DEF longer
<1> SUFFICES ASSUME NEW i \in OfPusher(p, longer), NEW j \in OfPusher(p, longer), i < j
             PROVE  longer[i].n < longer[j].n
  BY DEF Ascending, longer
<1>2. i \in 1 .. Len(list) /\ j \in 1 .. (Len(list) + 1)
  BY <1>1 DEF OfPusher
<1>3. i \in OfPusher(p, list) /\ list[i].n \in Numbers(p, list) /\ longer[i] = list[i]
  BY <1>1, <1>2 DEF OfPusher, Numbers
<1>4. CASE j \in 1 .. Len(list)
  <2>1. j \in OfPusher(p, list)
    BY <1>1, <1>4 DEF OfPusher
  <2> QED
    BY <1>1, <1>3, <1>4, <2>1 DEF Ascending
<1>5. CASE j = Len(list) + 1
  <2>1. m.n \in Own(p, m)
    BY <1>1, <1>5 DEF OfPusher, Own
  <2> QED
    BY <1>1, <1>3, <1>5, <2>1 DEF Below
<1> QED
  BY <1>1, <1>2, <1>4, <1>5

LEMMA AscendingTail ==
  ASSUME NEW p, NEW list \in Seq(MessageType), list # <<>>, Ascending(p, list)
  PROVE  /\ Ascending(p, Tail(list))
         /\ Below(Own(p, Head(list)), Numbers(p, Tail(list)))
<1> DEFINE rest == Tail(list)
<1>1. /\ DOMAIN rest = 1 .. (Len(list) - 1) /\ DOMAIN list = 1 .. Len(list)
      /\ Len(list) \in Nat \ {0} /\ Head(list) = list[1]
      /\ \A i \in 1 .. (Len(list) - 1) : rest[i] = list[i + 1]
  BY ListParts
<1> HIDE DEF rest
<1>2. ASSUME NEW i \in OfPusher(p, rest)
      PROVE  /\ i + 1 \in OfPusher(p, list) /\ i \in Nat \ {0}
             /\ rest[i] = list[i + 1]
  BY <1>1, <1>2 DEF OfPusher
<1>3. Ascending(p, rest)
  <2> SUFFICES ASSUME NEW i \in OfPusher(p, rest), NEW j \in OfPusher(p, rest), i < j
               PROVE  rest[i].n < rest[j].n
    BY DEF Ascending
  <2>1. i + 1 < j + 1
    BY <1>2
  <2> QED
    BY <1>2, <2>1 DEF Ascending
<1>4. Below(Own(p, Head(list)), Numbers(p, rest))
  <2> SUFFICES ASSUME NEW n \in Own(p, Head(list)), NEW i \in OfPusher(p, rest)
               PROVE  n < rest[i].n
    BY DEF Below, Numbers
  <2>1. 1 \in OfPusher(p, list) /\ n = list[1].n
    BY <1>1 DEF Own, OfPusher
  <2>2. 1 < i + 1
    BY <1>2
  <2> QED
    BY <1>2, <2>1, <2>2 DEF Ascending
<1> QED
  BY <1>3, <1>4 DEF rest


-----------------------------------------------------------------------------
(* Types.                                                                  *)

LEMMA LeaveTyped ==
  ASSUME TypeOK, NEW r \in RunnableType, Leave(r)
  PROVE  /\ messages' \in [Loop -> Seq(MessageType)]
         /\ runnables' \in [Loop -> Seq(RunnableType)]
         /\ pushed' \in [Pusher -> [Loop -> Nat]]
<1>1. r \in MessageType /\ r.to \in Loop /\ r.by \in Pusher
  BY DEF MessageType, RunnableType
<1>2. /\ messages \in [Loop -> Seq(MessageType)]
      /\ runnables \in [Loop -> Seq(RunnableType)]
      /\ pushed \in [Pusher -> [Loop -> Nat]]
  BY DEF TypeOK
<1>3. pushed' = [pushed EXCEPT ![r.by] = [pushed[r.by] EXCEPT ![r.to] = pushed[r.by][r.to] + 1]]
  BY DEF Leave
<1>4. pushed' \in [Pusher -> [Loop -> Nat]]
  BY <1>1, <1>2, <1>3
<1>5. /\ Append(runnables[r.to], r) \in Seq(RunnableType)
      /\ Append(messages[r.to], r) \in Seq(MessageType)
  BY <1>1, <1>2
<1>6. \/ /\ runnables' = [runnables EXCEPT ![r.to] = Append(runnables[r.to], r)]
         /\ UNCHANGED messages
      \/ /\ messages' = [messages EXCEPT ![r.to] = Append(messages[r.to], r)]
         /\ UNCHANGED runnables
  BY DEF Leave
<1> QED
  BY <1>1, <1>2, <1>4, <1>5, <1>6

LEMMA CycleTyped ==
  ASSUME TypeOK, Stages, NEW t \in Loop, Cycle(t)
  PROVE  TypeOK'
<1> USE DEF TypeOK, queueVars, callVars, appVars
<1>1. CASE Take(t)
  BY <1>1 DEF Take
<1>2. CASE HandleMessage(t)
  <2> DEFINE m == Head(inbox[t])
  <2>1. inbox[t] # <<>> /\ inbox[t] \in Seq(MessageType)
    BY <1>2 DEF HandleMessage
  <2>2. m \in MessageType /\ Tail(inbox[t]) \in Seq(MessageType)
    BY <2>1
  <2>3. WithRunnable(runnables[t], m) \in Seq(RunnableType)
    BY <2>2, MessageKinds DEF WithRunnable
  <2> HIDE DEF m
  <2>4. /\ runnables' = [runnables EXCEPT ![t] = WithRunnable(runnables[t], m)]
        /\ inbox' = [inbox EXCEPT ![t] = Tail(inbox[t])]
        /\ suspended' = [suspended EXCEPT ![t] =
                           IF m.type = "runnable" THEN suspended[t] ELSE m.type = "suspend"]
        /\ UNCHANGED <<pc, messages, batch, done, notify, callVars, timer,
                       appVars, pushed, ran, timers>>
    BY <1>2 DEF HandleMessage, m
  <2>5. suspended' \in [Loop -> BOOLEAN]
    <3>1. (IF m.type = "runnable" THEN suspended[t] ELSE m.type = "suspend") \in BOOLEAN
      OBVIOUS
    <3> QED
      BY <2>4, <3>1
  <2> QED
    BY <2>2, <2>3, <2>4, <2>5
<1>3. CASE AfterMessages(t)
  BY <1>3 DEF AfterMessages, RestOfCycle, EndOfCycle
<1>4. CASE FinishTimer(t)
  BY <1>4 DEF FinishTimer
<1>5. CASE Swap(t)
  BY <1>5 DEF Swap
<1>6. CASE StartRunnable(t)
  BY <1>6 DEF StartRunnable
<1>7. CASE FinishRunnable(t)
  <2> DEFINE r == Head(batch[t])
  <2>1. pc[t] = "body" /\ batch[t] # <<>> /\ batch[t] \in Seq(RunnableType)
    BY <1>7 DEF FinishRunnable, Stages
  <2>2. r \in RunnableType /\ Tail(batch[t]) \in Seq(RunnableType)
    BY <2>1
  <2>3. r.by \in Pusher
    BY <2>2 DEF RunnableType
  <2>4. ran' = [ran EXCEPT ![r.by] = [ran[r.by] EXCEPT ![t] = ran[r.by][t] + 1]]
    BY <1>7 DEF FinishRunnable
  <2>5. ran' \in [Pusher -> [Loop -> Nat]]
    BY <2>3, <2>4
  <2>6. complete' \in [Loop -> BOOLEAN] /\ notify' \in [Loop -> BOOLEAN]
    BY <1>7 DEF FinishRunnable
  <2> HIDE DEF r
  <2> QED
    BY <1>7, <2>2, <2>5, <2>6 DEF FinishRunnable
<1>8. CASE FinishBatch(t)
  BY <1>8 DEF FinishBatch, EndOfCycle
<1>9. CASE GrabListenerLock(t)
  BY <1>9 DEF GrabListenerLock
<1>10. CASE NotifyListeners(t)
  BY <1>10 DEF NotifyListeners, EndOfCycle
<1> QED
  BY <1>1, <1>2, <1>3, <1>4, <1>5, <1>6, <1>7, <1>8, <1>9, <1>10 DEF Cycle

LEMMA RunnableTyped ==
  ASSUME TypeOK, NEW p \in Pusher, NEW t \in Loop, NEW sync \in BOOLEAN
  PROVE  Runnable(p, t, sync) \in RunnableType
  BY DEF Runnable, RunnableType, TypeOK

LEMMA OtherTyped ==
  ASSUME TypeOK, CallShape,
         \/ \E t \in Loop : NewTimer(t) \/ TimerExpires(t) \/ Exit(t)
         \/ \E p \in Pusher, t \in Loop : PushRunnable(p, t)
         \/ \E c \in Loop : CallStep(c) \/ SpuriousWakeup(c)
         \/ SuspendApp \/ UnsuspendApp \/ SuspendStep
  PROVE  TypeOK'
<1> USE DEF queueVars, callVars, appVars
<1>1. ASSUME NEW t \in Loop, NewTimer(t) \/ TimerExpires(t) \/ Exit(t)
      PROVE  TypeOK'
  <2>1. CASE NewTimer(t)
    <3>1. timers[t] + 1 \in Nat /\ timer' \in [Loop -> {"none", "armed", "due"}]
      BY <2>1 DEF TypeOK, NewTimer
    <3>2. timers' \in [Loop -> Nat]
      BY <2>1, <3>1 DEF TypeOK, NewTimer
    <3> QED
      BY <2>1, <3>1, <3>2 DEF TypeOK, NewTimer
  <2>2. CASE TimerExpires(t)
    BY <2>2 DEF TypeOK, TimerExpires
  <2>3. CASE Exit(t)
    BY <2>3 DEF TypeOK, Exit
  <2> QED
    BY <1>1, <2>1, <2>2, <2>3
<1>2. ASSUME NEW p \in Pusher, NEW t \in Loop, PushRunnable(p, t)
      PROVE  TypeOK'
  BY <1>2, RunnableTyped, LeaveTyped DEF TypeOK, PushRunnable
<1>3. ASSUME NEW c \in Loop, NEW t \in Loop, LockToCall(c, t)
      PROVE  TypeOK'
  <2>1. c \in Pusher
    BY DEF Pusher
  <2> QED
    BY <1>3, <2>1, RunnableTyped DEF TypeOK, LockToCall
<1>4. ASSUME NEW c \in Loop, PushToCall(c)
      PROVE  TypeOK'
  <2>1. call[c] \in RunnableType
    BY <1>4 DEF CallShape, PushToCall, Calling
  <2> QED
    BY <1>4, <2>1, LeaveTyped DEF TypeOK, PushToCall
<1>5. ASSUME NEW c \in Loop, Listen(c) \/ FallAsleep(c) \/ Relock(c) \/ SpuriousWakeup(c)
      PROVE  TypeOK'
  <2>1. CASE Listen(c)
    BY <2>1 DEF TypeOK, Listen
  <2>2. CASE FallAsleep(c)
    BY <2>2 DEF TypeOK, FallAsleep
  <2>3. CASE Relock(c)
    BY <2>3 DEF TypeOK, Relock
  <2>4. CASE SpuriousWakeup(c)
    BY <2>4 DEF TypeOK, SpuriousWakeup
  <2> QED
    BY <1>5, <2>1, <2>2, <2>3, <2>4
<1>6. CASE SuspendApp \/ UnsuspendApp \/ SuspendReturns \/ UnsuspendReturns
  <2>1. CASE SuspendApp
    BY <2>1 DEF TypeOK, SuspendApp
  <2>2. CASE UnsuspendApp
    BY <2>2 DEF TypeOK, UnsuspendApp
  <2>3. CASE SuspendReturns
    BY <2>3 DEF TypeOK, SuspendReturns
  <2>4. CASE UnsuspendReturns
    BY <2>4 DEF TypeOK, UnsuspendReturns
  <2> QED
    BY <1>6, <2>1, <2>2, <2>3, <2>4
<1>7. ASSUME NEW t \in Loop, PushSetSuspended(t)
      PROVE  TypeOK'
  <2>1. (IF app = "suspending" THEN Suspend ELSE Unsuspend) \in MessageType
    BY DEF MessageType
  <2> QED
    BY <1>7, <2>1 DEF TypeOK, PushSetSuspended
<1> QED
  BY <1>1, <1>2, <1>3, <1>4, <1>5, <1>6, <1>7 DEF CallStep, SuspendStep


-----------------------------------------------------------------------------
(* What may be left where a thread is.                                     *)

\* A step of thread t alone.
LEMMA StageOfOne ==
  ASSUME TypeOK, Stages, NEW t \in Loop,
         \A u \in Loop \ {t} :
           /\ pc'[u] = pc[u] /\ inbox'[u] = inbox[u]
           /\ batch'[u] = batch[u] /\ suspended'[u] = suspended[u],
         pc'[t] # "messages" => inbox'[t] = <<>>,
         pc'[t] \in {"body"} \cup Calling => batch'[t] # <<>>,
         pc'[t] \notin {"next", "body"} \cup Calling => batch'[t] = <<>>,
         suspended'[t] => pc'[t] \in {"wait", "messages", "exited"}
  PROVE  Stages'
  BY DEF Stages

LEMMA SameStages ==
  ASSUME Stages, UNCHANGED <<pc, inbox, batch, suspended>>
  PROVE  Stages'
  BY DEF Stages

LEMMA CycleStages ==
  ASSUME TypeOK, Stages, NEW t \in Loop, Cycle(t)
  PROVE  Stages'
<1> USE DEF TypeOK, Calling, Listening, queueVars, callVars, appVars
<1>1. CASE Take(t)
  BY <1>1, StageOfOne DEF Take, Stages
<1>2. CASE HandleMessage(t)
  <2>1. /\ pc[t] = "messages" /\ UNCHANGED <<pc, batch>>
        /\ inbox' = [inbox EXCEPT ![t] = Tail(inbox[t])]
        /\ \A u \in Loop \ {t} : suspended'[u] = suspended[u]
    BY <1>2 DEF HandleMessage
  <2> QED
    BY <2>1, StageOfOne DEF Stages
<1>3. CASE AfterMessages(t)
  BY <1>3, StageOfOne DEF AfterMessages, RestOfCycle, EndOfCycle, Stages
<1>4. CASE FinishTimer(t)
  BY <1>4, StageOfOne DEF FinishTimer, Stages
<1>5. CASE Swap(t)
  BY <1>5, StageOfOne DEF Swap, Stages
<1>6. CASE StartRunnable(t)
  BY <1>6, StageOfOne DEF StartRunnable, Stages
<1>7. CASE FinishRunnable(t)
  <2>1. /\ pc[t] = "body" /\ pc' = [pc EXCEPT ![t] = "next"]
        /\ batch' = [batch EXCEPT ![t] = Tail(batch[t])]
        /\ UNCHANGED <<inbox, suspended>>
    BY <1>7 DEF FinishRunnable
  <2> QED
    BY <2>1, StageOfOne DEF Stages
<1>8. CASE FinishBatch(t)
  BY <1>8, StageOfOne DEF FinishBatch, EndOfCycle, Stages
<1>9. CASE GrabListenerLock(t)
  BY <1>9, StageOfOne DEF GrabListenerLock, Stages
<1>10. CASE NotifyListeners(t)
  <2>1. /\ pc[t] = "notify" /\ UNCHANGED <<inbox, batch, suspended>>
        /\ pc'[t] \in {"exited", "wait"}
        /\ \A u \in Loop \ {t} :
             pc'[u] = pc[u] \/ (pc[u] = "asleep" /\ pc'[u] = "woken")
    BY <1>10 DEF NotifyListeners, EndOfCycle
  <2> QED
    BY <2>1 DEF Stages
<1> QED
  BY <1>1, <1>2, <1>3, <1>4, <1>5, <1>6, <1>7, <1>8, <1>9, <1>10 DEF Cycle

LEMMA OtherStages ==
  ASSUME TypeOK, Stages,
         \/ \E t \in Loop : NewTimer(t) \/ TimerExpires(t) \/ Exit(t)
         \/ \E p \in Pusher, t \in Loop : PushRunnable(p, t)
         \/ \E c \in Loop : CallStep(c) \/ SpuriousWakeup(c)
         \/ SuspendApp \/ UnsuspendApp \/ SuspendStep
  PROVE  Stages'
<1> USE DEF queueVars, callVars, appVars
<1>1. ASSUME NEW t \in Loop, NewTimer(t) \/ TimerExpires(t) \/ Exit(t)
      PROVE  Stages'
  BY <1>1, SameStages DEF NewTimer, TimerExpires, Exit
<1>2. ASSUME NEW p \in Pusher, NEW t \in Loop, PushRunnable(p, t)
      PROVE  Stages'
  BY <1>2, SameStages DEF PushRunnable
<1>3. ASSUME NEW c \in Loop, CallStep(c) \/ SpuriousWakeup(c)
      PROVE  Stages'
  <2> USE DEF TypeOK, Calling, Listening
  <2>1. ASSUME NEW t \in Loop, LockToCall(c, t)
        PROVE  Stages'
    BY <2>1, StageOfOne DEF LockToCall, Stages
  <2>2. CASE PushToCall(c)
    BY <2>2, StageOfOne DEF PushToCall, Stages
  <2>3. CASE Listen(c)
    BY <2>3, StageOfOne DEF Listen, Stages
  <2>4. CASE FallAsleep(c)
    BY <2>4, StageOfOne DEF FallAsleep, Stages
  <2>5. CASE Relock(c)
    BY <2>5, StageOfOne DEF Relock, Stages
  <2>6. CASE SpuriousWakeup(c)
    BY <2>6, StageOfOne DEF SpuriousWakeup, Stages
  <2> QED
    BY <1>3, <2>1, <2>2, <2>3, <2>4, <2>5, <2>6 DEF CallStep
<1>4. CASE SuspendApp \/ UnsuspendApp \/ SuspendStep
  BY <1>4, SameStages
  DEF SuspendApp, UnsuspendApp, SuspendStep, PushSetSuspended, SuspendReturns, UnsuspendReturns
<1> QED
  BY <1>1, <1>2, <1>3, <1>4


-----------------------------------------------------------------------------
(* The order of what waits: what each kind of step does to it.             *)

LEMMA TurnTaken ==
  ASSUME NEW p, NEW b, NEW r, NEW m, NEW from, NEW upto,
         InTurn(p, b, r, <<>>, m, from, upto)
  PROVE  InTurn(p, b, r, m, <<>>, from, upto)
<1>1. Numbers(p, <<>>) = {} /\ Ascending(p, <<>>)
  BY NumbersEmpty
<1> QED
  BY <1>1 DEF InTurn, Below

LEMMA TurnSwapped ==
  ASSUME NEW p, NEW r, NEW i, NEW m, NEW from, NEW upto,
         InTurn(p, <<>>, r, i, m, from, upto)
  PROVE  InTurn(p, r, <<>>, i, m, from, upto)
<1>1. Numbers(p, <<>>) = {} /\ Ascending(p, <<>>)
  BY NumbersEmpty
<1> QED
  BY <1>1 DEF InTurn, Below

LEMMA TurnHandled ==
  ASSUME NEW p, NEW b \in Seq(MessageType), NEW r \in Seq(MessageType),
         NEW i \in Seq(MessageType), NEW m \in Seq(MessageType), i # <<>>,
         NEW from, NEW upto, InTurn(p, b, r, i, m, from, upto)
  PROVE  InTurn(p, b, WithRunnable(r, Head(i)), Tail(i), m, from, upto)
<1> DEFINE x == Head(i)
           own == Own(p, x)
           rest == Numbers(p, Tail(i))
           moved == WithRunnable(r, x)
<1>1. x \in MessageType
  BY ListParts
<1>2. Numbers(p, i) = own \cup rest
  BY NumbersTail
<1>3. Ascending(p, Tail(i)) /\ Below(own, rest)
  BY AscendingTail DEF InTurn
<1>4. Below(Numbers(p, r), own)
  BY <1>2 DEF InTurn, Below
<1>5. Numbers(p, moved) = Numbers(p, r) \cup own /\ Ascending(p, moved)
  <2>1. CASE x.type = "runnable"
    BY <1>1, <1>4, <2>1, NumbersAppend, AscendingAppend DEF WithRunnable, InTurn
  <2>2. CASE x.type # "runnable"
    <3>1. own = {} /\ moved = r
      BY <2>2 DEF Own, WithRunnable
    <3> QED
      BY <3>1 DEF InTurn
  <2> QED
    BY <2>1, <2>2
<1> HIDE DEF own, rest, moved, x
<1>6. Below(own, Numbers(p, m)) /\ Below(Numbers(p, b), own)
  BY <1>2 DEF InTurn, Below
<1>7. Below(rest, Numbers(p, m)) /\ Below(Numbers(p, b), rest) /\ Below(Numbers(p, r), rest)
  BY <1>2 DEF InTurn, Below
<1>8. InTurn(p, b, moved, Tail(i), m, from, upto)
  BY <1>2, <1>3, <1>5, <1>6, <1>7 DEF InTurn, Below, rest
<1> QED
  BY <1>8 DEF moved, x

LEMMA TurnRun ==
  ASSUME NEW p, NEW b \in Seq(RunnableType), b # <<>>, NEW r \in Seq(MessageType),
         NEW i \in Seq(MessageType), NEW m \in Seq(MessageType),
         NEW from \in Nat, NEW upto \in Nat, InTurn(p, b, r, i, m, from, upto)
  PROVE  IF Head(b).by = p
           THEN Head(b).n = from + 1 /\ InTurn(p, Tail(b), r, i, m, from + 1, upto)
           ELSE InTurn(p, Tail(b), r, i, m, from, upto)
<1> DEFINE x == Head(b)
           own == Own(p, x)
           rest == Numbers(p, Tail(b))
<1>1. b \in Seq(MessageType) /\ x \in RunnableType /\ Tail(b) \in Seq(MessageType)
  BY RunnablesAreMessages, ListParts
<1>2. Numbers(p, b) = own \cup rest
  BY <1>1, NumbersTail
<1>3. Ascending(p, Tail(b)) /\ Below(own, rest)
  BY <1>1, AscendingTail DEF InTurn
<1>4. x.type = "runnable" /\ x.n \in Nat
  BY <1>1 DEF RunnableType
<1>5. /\ rest \subseteq Nat /\ Numbers(p, r) \subseteq Nat
      /\ Numbers(p, i) \subseteq Nat /\ Numbers(p, m) \subseteq Nat
  BY <1>1, NumbersNat
<1>6. CASE x.by # p
  <2>1. own = {}
    BY <1>6 DEF Own
  <2> QED
    BY <1>2, <1>3, <1>6, <2>1 DEF InTurn, Below
<1>7. CASE x.by = p
  <2> DEFINE later == rest \cup Numbers(p, r) \cup Numbers(p, i) \cup Numbers(p, m)
  <2>1. own = {x.n}
    BY <1>4, <1>7 DEF Own
  <2>2. {x.n} \cup later = (from + 1) .. upto
    BY <1>2, <2>1 DEF InTurn
  <2>3. \A n \in later : x.n < n
    BY <1>2, <1>3, <2>1 DEF InTurn, Below
  <2>4. later \subseteq Nat
    BY <1>5
  <2>5. /\ Below(rest, Numbers(p, r)) /\ Below(rest, Numbers(p, i))
        /\ Below(rest, Numbers(p, m))
    BY <1>2 DEF InTurn, Below
  <2> HIDE DEF later
  <2>6. x.n = from + 1
    <3>1. x.n \in (from + 1) .. upto
      BY <2>2
    <3>2. from + 1 \in (from + 1) .. upto
      BY <1>4, <3>1
    <3>3. from + 1 = x.n \/ from + 1 \in later
      BY <2>2, <3>2
    <3> QED
      BY <1>4, <2>3, <3>1, <3>3
  <2>7. later = (from + 2) .. upto
    <3>1. ASSUME NEW n \in later
          PROVE  n \in (from + 2) .. upto
      BY <2>2, <2>3, <2>4, <2>6, <3>1
    <3>2. ASSUME NEW n \in (from + 2) .. upto
          PROVE  n \in later
      <4>1. n \in (from + 1) .. upto /\ n # x.n
        BY <2>6, <3>2
      <4> QED
        BY <2>2, <4>1
    <3> QED
      BY <3>1, <3>2
  <2>8. (from + 1) + 1 = from + 2
    OBVIOUS
  <2>9. InTurn(p, Tail(b), r, i, m, from + 1, upto)
    <3>1. from + 1 <= upto
      BY <1>4, <2>2, <2>6
    <3> QED
      BY <1>3, <2>5, <2>7, <2>8, <3>1 DEF InTurn, later
  <2> QED
    BY <1>7, <2>6, <2>9
<1> QED
  BY <1>6, <1>7

LEMMA TurnLeft ==
  ASSUME NEW p, NEW b \in Seq(MessageType), NEW r \in Seq(MessageType),
         NEW i \in Seq(MessageType), NEW m \in Seq(MessageType),
         NEW from \in Nat, NEW upto \in Nat, NEW x \in MessageType,
         x.type = "runnable" /\ x.by = p => x.n = upto + 1,
         InTurn(p, b, r, i, m, from, upto)
  PROVE  InTurn(p, b, r, i, Append(m, x), from,
                IF x.type = "runnable" /\ x.by = p THEN upto + 1 ELSE upto)
<1> DEFINE own == Own(p, x)
           all == Numbers(p, b) \cup Numbers(p, r) \cup Numbers(p, i) \cup Numbers(p, m)
           new == IF x.type = "runnable" /\ x.by = p THEN upto + 1 ELSE upto
<1>1. all = (from + 1) .. upto /\ from <= upto
  BY DEF InTurn
<1>2. Below(all, own)
  BY <1>1 DEF Below, Own
<1>3. Numbers(p, Append(m, x)) = Numbers(p, m) \cup own
  BY NumbersAppend
<1>4. Ascending(p, Append(m, x))
  BY <1>2, AscendingAppend DEF InTurn, Below
<1>5. all \cup own = (from + 1) .. new
  BY <1>1 DEF Own
<1> HIDE DEF own, new
<1>6. InTurn(p, b, r, i, Append(m, x), from, new)
  <2>1. from <= new
    BY <1>1 DEF new
  <2> QED
    BY <1>2, <1>3, <1>4, <1>5, <2>1 DEF InTurn, Below
<1> QED
  BY <1>6 DEF new

\* A thread's own runnables pass those that others left, and stay in order.
LEMMA TurnKept ==
  ASSUME NEW p, NEW b \in Seq(MessageType), NEW r \in Seq(MessageType),
         NEW i \in Seq(MessageType), NEW m \in Seq(MessageType),
         NEW from \in Nat, NEW upto \in Nat, NEW x \in MessageType,
         x.type = "runnable" /\ x.by = p =>
           /\ x.n = upto + 1
           /\ Numbers(p, i) = {} /\ Numbers(p, m) = {},
         InTurn(p, b, r, i, m, from, upto)
  PROVE  InTurn(p, b, Append(r, x), i, m, from,
                IF x.type = "runnable" /\ x.by = p THEN upto + 1 ELSE upto)
<1> DEFINE own == Own(p, x)
           all == Numbers(p, b) \cup Numbers(p, r) \cup Numbers(p, i) \cup Numbers(p, m)
           new == IF x.type = "runnable" /\ x.by = p THEN upto + 1 ELSE upto
<1>1. all = (from + 1) .. upto /\ from <= upto
  BY DEF InTurn
<1>2. Below(all, own)
  BY <1>1 DEF Below, Own
<1>3. Numbers(p, Append(r, x)) = Numbers(p, r) \cup own
  BY NumbersAppend
<1>4. Ascending(p, Append(r, x))
  BY <1>2, AscendingAppend DEF InTurn, Below
<1>5. all \cup own = (from + 1) .. new
  BY <1>1 DEF Own
<1>6. Below(own, Numbers(p, i)) /\ Below(own, Numbers(p, m))
  BY DEF Below, Own
<1> HIDE DEF own, new
<1>7. InTurn(p, b, Append(r, x), i, m, from, new)
  <2>1. from <= new
    BY <1>1 DEF new
  <2> QED
    BY <1>2, <1>3, <1>4, <1>5, <1>6, <2>1 DEF InTurn, Below
<1> QED
  BY <1>7 DEF new


-----------------------------------------------------------------------------
(* What each step leaves pending.                                          *)

LEMMA SamePending ==
  ASSUME UNCHANGED <<messages, inbox, runnables, batch>>
  PROVE  \A u \in Loop : Pending(u)' = Pending(u) /\ Messages(u)' = Messages(u)
  BY DEF Pending, Messages

LEMMA ListsTyped ==
  ASSUME TypeOK, NEW t \in Loop
  PROVE  /\ messages[t] \in Seq(MessageType) /\ inbox[t] \in Seq(MessageType)
         /\ runnables[t] \in Seq(RunnableType) /\ batch[t] \in Seq(RunnableType)
         /\ runnables[t] \in Seq(MessageType) /\ batch[t] \in Seq(MessageType)
<1>1. /\ messages[t] \in Seq(MessageType) /\ inbox[t] \in Seq(MessageType)
      /\ runnables[t] \in Seq(RunnableType) /\ batch[t] \in Seq(RunnableType)
  BY DEF TypeOK
<1> QED
  BY <1>1, RunnablesAreMessages

LEMMA CyclePending ==
  ASSUME TypeOK, Stages, NEW t \in Loop, Cycle(t), NEW u \in Loop
  PROVE  Pending(u)' \subseteq Pending(u) /\ Messages(u)' \subseteq Messages(u)
<1> DEFINE Fewer == /\ Range(messages'[t]) \cup Range(inbox'[t])
                         \subseteq Range(messages[t]) \cup Range(inbox[t])
                    /\ Range(runnables'[t]) \cup Range(batch'[t])
                         \subseteq Pending(t)
           Elsewhere == \A v \in Loop \ {t} :
                          /\ messages'[v] = messages[v] /\ inbox'[v] = inbox[v]
                          /\ runnables'[v] = runnables[v] /\ batch'[v] = batch[v]
<1>1. SUFFICES (Fewer /\ Elsewhere) \/ UNCHANGED queueVars
  <2>1. CASE UNCHANGED queueVars
    BY <2>1, SamePending DEF queueVars
  <2>2. CASE Fewer /\ Elsewhere /\ u = t
    BY <2>2 DEF Pending, Messages
  <2>3. CASE Fewer /\ Elsewhere /\ u # t
    BY <2>3 DEF Pending, Messages
  <2> QED
    BY <2>1, <2>2, <2>3
<1>2. /\ messages[t] \in Seq(MessageType) /\ inbox[t] \in Seq(MessageType)
      /\ runnables[t] \in Seq(RunnableType) /\ batch[t] \in Seq(RunnableType)
  BY ListsTyped
<1>3. Range(<<>>) = {}
  BY RangeEmpty
<1>4. CASE Take(t)
  <2>1. /\ messages'[t] = <<>> /\ inbox'[t] = messages[t]
        /\ UNCHANGED <<runnables, batch>> /\ Elsewhere
    BY <1>4 DEF Take, TypeOK
  <2> QED
    BY <1>3, <2>1 DEF Pending
<1>5. CASE HandleMessage(t)
  <2> DEFINE m == Head(inbox[t])
  <2>1. /\ inbox[t] # <<>> /\ inbox'[t] = Tail(inbox[t])
        /\ runnables'[t] = WithRunnable(runnables[t], m)
        /\ UNCHANGED <<messages, batch>> /\ Elsewhere
    BY <1>5 DEF HandleMessage, TypeOK
  <2>2. Range(inbox[t]) = {m} \cup Range(Tail(inbox[t])) /\ m \in MessageType
    BY <1>2, <2>1, RangeTail, ListParts
  <2>3. CASE m.type = "runnable"
    <3>1. Range(runnables'[t]) = Range(runnables[t]) \cup {m}
      BY <1>2, <2>1, <2>2, <2>3, MessageKinds, RangeAppend DEF WithRunnable
    <3> QED
      BY <2>1, <2>2, <2>3, <3>1 DEF Pending, Messages
  <2>4. CASE m.type # "runnable"
    <3>1. runnables'[t] = runnables[t]
      BY <2>1, <2>4 DEF WithRunnable
    <3> QED
      BY <2>1, <2>2, <3>1 DEF Pending, Messages
  <2> QED
    BY <2>3, <2>4
<1>6. CASE Swap(t)
  <2>1. /\ runnables'[t] = <<>> /\ batch'[t] = runnables[t]
        /\ UNCHANGED <<messages, inbox>> /\ Elsewhere
    BY <1>6 DEF Swap, TypeOK
  <2> QED
    BY <1>3, <2>1 DEF Pending
<1>7. CASE FinishRunnable(t)
  <2>1. /\ batch[t] # <<>> /\ batch'[t] = Tail(batch[t])
        /\ UNCHANGED <<messages, inbox, runnables>> /\ Elsewhere
    BY <1>7 DEF FinishRunnable, TypeOK, Stages
  <2>2. Range(batch'[t]) \subseteq Range(batch[t])
    BY <1>2, <2>1, RangeTail
  <2> QED
    BY <2>1, <2>2 DEF Pending
<1>8. CASE \/ AfterMessages(t) \/ FinishTimer(t) \/ StartRunnable(t)
           \/ FinishBatch(t) \/ GrabListenerLock(t) \/ NotifyListeners(t)
  BY <1>8 DEF AfterMessages, FinishTimer, StartRunnable, FinishBatch,
              GrabListenerLock, NotifyListeners, queueVars
<1> QED
  BY <1>4, <1>5, <1>6, <1>7, <1>8 DEF Cycle

LEMMA LeavePending ==
  ASSUME TypeOK, NEW r \in RunnableType, Leave(r), UNCHANGED <<inbox, batch>>,
         NEW u \in Loop
  PROVE  /\ Pending(u)' \subseteq Pending(u) \cup {r}
         /\ Messages(u)' \subseteq Messages(u) \cup {r}
         /\ u # r.to => Pending(u)' = Pending(u)
         /\ u # r.to \/ r.by = r.to => Messages(u)' = Messages(u)
<1>1. r.to \in Loop /\ r \in MessageType
  BY DEF RunnableType, MessageType
<1>2. /\ messages[r.to] \in Seq(MessageType) /\ runnables[r.to] \in Seq(RunnableType)
  BY <1>1, ListsTyped
<1>3. CASE r.by = r.to
  <2>1. /\ UNCHANGED messages
        /\ runnables' = [runnables EXCEPT ![r.to] = Append(runnables[r.to], r)]
    BY <1>3 DEF Leave
  <2>2. Range(runnables'[r.to]) = Range(runnables[r.to]) \cup {r}
    BY <1>1, <1>2, <2>1, RangeAppend DEF TypeOK
  <2>3. u # r.to => runnables'[u] = runnables[u]
    BY <2>1 DEF TypeOK
  <2>4. Messages(u)' = Messages(u)
    BY <2>1 DEF Messages
  <2> QED
    BY <1>3, <2>2, <2>3, <2>4 DEF Pending
<1>4. CASE r.by # r.to
  <2>1. /\ UNCHANGED runnables
        /\ messages' = [messages EXCEPT ![r.to] = Append(messages[r.to], r)]
    BY <1>4 DEF Leave
  <2>2. Range(messages'[r.to]) = Range(messages[r.to]) \cup {r}
    BY <1>1, <1>2, <2>1, RangeAppend DEF TypeOK
  <2>3. u # r.to => messages'[u] = messages[u]
    BY <2>1 DEF TypeOK
  <2>4. /\ Messages(u)' \subseteq Messages(u) \cup {r}
        /\ u # r.to => Messages(u)' = Messages(u)
    BY <2>2, <2>3 DEF Messages
  <2> QED
    BY <1>4, <2>1, <2>4 DEF Pending
<1> QED
  BY <1>3, <1>4

\* A message that is not a runnable does not make anything pending.
LEMMA TellPending ==
  ASSUME TypeOK, NEW t \in Loop, PushSetSuspended(t), NEW u \in Loop
  PROVE  /\ Pending(u)' = Pending(u)
         /\ \A m \in Messages(u)' : m \in Messages(u) \/ m.type # "runnable"
<1> DEFINE m == IF app = "suspending" THEN Suspend ELSE Unsuspend
<1>1. /\ messages' = [messages EXCEPT ![t] = Append(messages[t], m)]
      /\ UNCHANGED <<inbox, runnables, batch>>
  BY DEF PushSetSuspended
<1>2. m \in MessageType /\ m.type # "runnable"
  BY DEF MessageType, Suspend, Unsuspend
<1> HIDE DEF m
<1>3. Range(messages'[t]) = Range(messages[t]) \cup {m}
  BY <1>1, <1>2, RangeAppend, ListsTyped DEF TypeOK
<1>4. u # t => messages'[u] = messages[u]
  BY <1>1 DEF TypeOK
<1>5. \A x \in Messages(u)' : x \in Messages(u) \/ x = m
  BY <1>1, <1>3, <1>4 DEF Messages
<1>6. Messages(u) \subseteq Messages(u)'
  BY <1>1, <1>3, <1>4 DEF Messages
<1> QED
  BY <1>1, <1>2, <1>5, <1>6 DEF Pending


-----------------------------------------------------------------------------
(* Runnables wait in order, with the loop that they are for.               *)

LEMMA SameQueues ==
  ASSUME QueuesFine, UNCHANGED <<messages, inbox, runnables, batch, pushed, ran>>
  PROVE  QueuesFine'
<1>1. InOrder'
  BY DEF QueuesFine, InOrder
<1>2. Addressed'
  BY SamePending DEF QueuesFine, Addressed
<1> QED
  BY <1>1, <1>2 DEF QueuesFine

\* A step that concerns one loop's lists.
LEMMA OrderOfOne ==
  ASSUME TypeOK, InOrder, NEW t \in Loop,
         \A u \in Loop \ {t} :
           /\ messages'[u] = messages[u] /\ inbox'[u] = inbox[u]
           /\ runnables'[u] = runnables[u] /\ batch'[u] = batch[u]
           /\ \A p \in Pusher : pushed'[p][u] = pushed[p][u] /\ ran'[p][u] = ran[p][u],
         \A p \in Pusher : InTurn(p, batch'[t], runnables'[t], inbox'[t],
                                  messages'[t], ran'[p][t], pushed'[p][t])
  PROVE  InOrder'
<1> SUFFICES ASSUME NEW p \in Pusher, NEW u \in Loop
             PROVE  InTurn(p, batch'[u], runnables'[u], inbox'[u], messages'[u],
                           ran'[p][u], pushed'[p][u])
  BY DEF InOrder
<1>1. CASE u = t
  BY <1>1
<1>2. CASE u # t
  BY <1>2 DEF InOrder
<1> QED
  BY <1>1, <1>2

LEMMA CycleQueues ==
  ASSUME TypeOK, Stages, QueuesFine, NEW t \in Loop, Cycle(t)
  PROVE  QueuesFine'
<1>1. Addressed'
  <2>1. \A u \in Loop : Pending(u)' \subseteq Pending(u) /\ Messages(u)' \subseteq Messages(u)
    BY CyclePending
  <2> QED
    BY <2>1 DEF QueuesFine, Addressed
<1> DEFINE Elsewhere == \A v \in Loop \ {t} :
                          /\ messages'[v] = messages[v] /\ inbox'[v] = inbox[v]
                          /\ runnables'[v] = runnables[v] /\ batch'[v] = batch[v]
<1>2. /\ messages[t] \in Seq(MessageType) /\ inbox[t] \in Seq(MessageType)
      /\ runnables[t] \in Seq(MessageType) /\ batch[t] \in Seq(MessageType)
      /\ batch[t] \in Seq(RunnableType)
      /\ \A p \in Pusher : \A u \in Loop : ran[p][u] \in Nat /\ pushed[p][u] \in Nat
  BY ListsTyped DEF TypeOK
<1>3. \A p \in Pusher : InTurn(p, batch[t], runnables[t], inbox[t], messages[t],
                               ran[p][t], pushed[p][t])
  BY DEF QueuesFine, InOrder
<1>4. CASE Take(t)
  <2>1. /\ inbox[t] = <<>> /\ messages'[t] = <<>> /\ inbox'[t] = messages[t]
        /\ UNCHANGED <<runnables, batch, pushed, ran>> /\ Elsewhere
    BY <1>4 DEF Take, TypeOK, Stages
  <2>2. \A p \in Pusher : InTurn(p, batch'[t], runnables'[t], inbox'[t], messages'[t],
                                 ran'[p][t], pushed'[p][t])
    BY <1>3, <2>1, TurnTaken
  <2>3. InOrder'
    BY <2>1, <2>2, OrderOfOne DEF QueuesFine
  <2> QED
    BY <1>1, <2>3 DEF QueuesFine
<1>5. CASE HandleMessage(t)
  <2>1. /\ inbox[t] # <<>> /\ inbox'[t] = Tail(inbox[t])
        /\ runnables'[t] = WithRunnable(runnables[t], Head(inbox[t]))
        /\ UNCHANGED <<messages, batch, pushed, ran>> /\ Elsewhere
    BY <1>5 DEF HandleMessage, TypeOK
  <2>2. \A p \in Pusher : InTurn(p, batch'[t], runnables'[t], inbox'[t], messages'[t],
                                 ran'[p][t], pushed'[p][t])
    BY <1>2, <1>3, <2>1, TurnHandled
  <2>3. InOrder'
    BY <2>1, <2>2, OrderOfOne DEF QueuesFine
  <2> QED
    BY <1>1, <2>3 DEF QueuesFine
<1>6. CASE Swap(t)
  <2>1. /\ batch[t] = <<>> /\ runnables'[t] = <<>> /\ batch'[t] = runnables[t]
        /\ UNCHANGED <<messages, inbox, pushed, ran>> /\ Elsewhere
    BY <1>6 DEF Swap, TypeOK, Stages, Calling, Listening
  <2>2. \A p \in Pusher : InTurn(p, batch'[t], runnables'[t], inbox'[t], messages'[t],
                                 ran'[p][t], pushed'[p][t])
    BY <1>3, <2>1, TurnSwapped
  <2>3. InOrder'
    BY <2>1, <2>2, OrderOfOne DEF QueuesFine
  <2> QED
    BY <1>1, <2>3 DEF QueuesFine
<1>7. CASE FinishRunnable(t)
  <2> DEFINE r == Head(batch[t])
  <2>1. /\ batch[t] # <<>> /\ batch'[t] = Tail(batch[t])
        /\ UNCHANGED <<messages, inbox, runnables, pushed>> /\ Elsewhere
        /\ ran' = [ran EXCEPT ![r.by] = [ran[r.by] EXCEPT ![t] = ran[r.by][t] + 1]]
    BY <1>7 DEF FinishRunnable, TypeOK, Stages
  <2>2. r.by \in Pusher
    <3>1. r \in RunnableType
      BY <1>2, <2>1, ListParts
    <3> QED
      BY <3>1 DEF RunnableType
  <2>3. /\ ran'[r.by][t] = ran[r.by][t] + 1
        /\ \A p \in Pusher \ {r.by} : ran'[p][t] = ran[p][t]
        /\ \A p \in Pusher : \A u \in Loop \ {t} : ran'[p][u] = ran[p][u]
    BY <2>1, <2>2 DEF TypeOK
  <2>4. ASSUME NEW p \in Pusher
        PROVE  InTurn(p, batch'[t], runnables'[t], inbox'[t], messages'[t],
                      ran'[p][t], pushed'[p][t])
    <3>1. IF r.by = p
            THEN InTurn(p, Tail(batch[t]), runnables[t], inbox[t], messages[t],
                        ran[p][t] + 1, pushed[p][t])
            ELSE InTurn(p, Tail(batch[t]), runnables[t], inbox[t], messages[t],
                        ran[p][t], pushed[p][t])
      BY <1>2, <1>3, <2>1, TurnRun
    <3> QED
      BY <2>1, <2>3, <3>1
  <2>5. InOrder'
    BY <2>1, <2>3, <2>4, OrderOfOne DEF QueuesFine
  <2> QED
    BY <1>1, <2>5 DEF QueuesFine
<1>8. CASE \/ AfterMessages(t) \/ FinishTimer(t) \/ StartRunnable(t)
           \/ FinishBatch(t) \/ GrabListenerLock(t) \/ NotifyListeners(t)
  BY <1>8, SameQueues
  DEF AfterMessages, FinishTimer, StartRunnable, FinishBatch,
      GrabListenerLock, NotifyListeners, queueVars
<1> QED
  BY <1>4, <1>5, <1>6, <1>7, <1>8 DEF Cycle

\* No runnable of a thread's own is among its messages.
LEMMA NoneOfItsOwn ==
  ASSUME TypeOK, Addressed, NEW t \in Loop
  PROVE  Numbers(t, inbox[t]) = {} /\ Numbers(t, messages[t]) = {}
  BY NumbersByRange DEF Addressed, Messages

LEMMA LeaveQueues ==
  ASSUME TypeOK, QueuesFine, NEW r \in RunnableType, Leave(r),
         r.n = pushed[r.by][r.to] + 1, r.sync => r.by \in Loop,
         UNCHANGED <<inbox, batch, ran>>
  PROVE  QueuesFine'
<1> DEFINE t == r.to
<1>1. t \in Loop /\ r.by \in Pusher /\ r \in MessageType /\ r.type = "runnable"
  BY DEF RunnableType, MessageType
<1>2. Addressed'
  <2> SUFFICES ASSUME NEW u \in Loop
               PROVE  /\ \A x \in Pending(u)' : x.to = u /\ (x.sync => x.by \in Loop)
                      /\ \A m \in Messages(u)' : m.type = "runnable" => m.by # u
    BY DEF Addressed
  <2> QED
    BY LeavePending DEF QueuesFine, Addressed
<1>3. /\ messages[t] \in Seq(MessageType) /\ inbox[t] \in Seq(MessageType)
      /\ runnables[t] \in Seq(MessageType) /\ batch[t] \in Seq(MessageType)
      /\ \A p \in Pusher : \A u \in Loop : ran[p][u] \in Nat /\ pushed[p][u] \in Nat
  BY <1>1, ListsTyped DEF TypeOK
<1>4. \A p \in Pusher : InTurn(p, batch[t], runnables[t], inbox[t], messages[t],
                               ran[p][t], pushed[p][t])
  BY <1>1 DEF QueuesFine, InOrder
<1>5. pushed' = [pushed EXCEPT ![r.by] = [pushed[r.by] EXCEPT ![t] = pushed[r.by][t] + 1]]
  BY DEF Leave
<1>6. /\ \A p \in Pusher : pushed'[p][t] = IF r.type = "runnable" /\ r.by = p
                                             THEN pushed[p][t] + 1 ELSE pushed[p][t]
      /\ \A p \in Pusher : \A u \in Loop \ {t} : pushed'[p][u] = pushed[p][u]
  BY <1>1, <1>5 DEF TypeOK
<1>7. InOrder'
  <2>1. CASE r.by = t
    <3>1. /\ UNCHANGED messages /\ runnables'[t] = Append(runnables[t], r)
          /\ \A u \in Loop \ {t} : runnables'[u] = runnables[u]
      BY <1>1, <2>1 DEF Leave, TypeOK
    <3>2. Numbers(t, inbox[t]) = {} /\ Numbers(t, messages[t]) = {}
      BY <1>1, NoneOfItsOwn DEF QueuesFine
    <3>3. ASSUME NEW p \in Pusher
          PROVE  InTurn(p, batch[t], Append(runnables[t], r), inbox[t], messages[t],
                        ran[p][t], pushed'[p][t])
      <4> HIDE DEF t
      <4>1. r.type = "runnable" /\ r.by = p =>
              /\ r.n = pushed[p][t] + 1
              /\ Numbers(p, inbox[t]) = {} /\ Numbers(p, messages[t]) = {}
        BY <2>1, <3>2 DEF t
      <4>2. InTurn(p, batch[t], Append(runnables[t], r), inbox[t], messages[t], ran[p][t],
                   IF r.type = "runnable" /\ r.by = p THEN pushed[p][t] + 1 ELSE pushed[p][t])
        BY <1>1, <1>3, <1>4, <4>1, TurnKept
      <4> QED
        BY <1>6, <4>2
    <3> QED
      BY <1>1, <1>6, <3>1, <3>3, OrderOfOne DEF QueuesFine
  <2>2. CASE r.by # t
    <3>1. /\ UNCHANGED runnables /\ messages'[t] = Append(messages[t], r)
          /\ \A u \in Loop \ {t} : messages'[u] = messages[u]
      BY <1>1, <2>2 DEF Leave, TypeOK
    <3>2. ASSUME NEW p \in Pusher
          PROVE  InTurn(p, batch[t], runnables[t], inbox[t], Append(messages[t], r),
                        ran[p][t], pushed'[p][t])
      <4> HIDE DEF t
      <4>1. r.type = "runnable" /\ r.by = p => r.n = pushed[p][t] + 1
        BY DEF t
      <4> QED
        BY <1>1, <1>3, <1>4, <1>6, <4>1, TurnLeft
    <3> QED
      BY <1>1, <1>6, <3>1, <3>2, OrderOfOne DEF QueuesFine
  <2> QED
    BY <2>1, <2>2
<1> QED
  BY <1>2, <1>7 DEF QueuesFine

LEMMA TellQueues ==
  ASSUME TypeOK, QueuesFine, NEW t \in Loop, PushSetSuspended(t)
  PROVE  QueuesFine'
<1> DEFINE m == IF app = "suspending" THEN Suspend ELSE Unsuspend
<1>1. /\ messages' = [messages EXCEPT ![t] = Append(messages[t], m)]
      /\ UNCHANGED <<inbox, runnables, batch, pushed, ran>>
  BY DEF PushSetSuspended
<1>2. m \in MessageType /\ m.type # "runnable"
  BY DEF MessageType, Suspend, Unsuspend
<1> HIDE DEF m
<1>3. Addressed'
  <2>1. \A u \in Loop : /\ Pending(u)' = Pending(u)
                        /\ \A x \in Messages(u)' : x \in Messages(u) \/ x.type # "runnable"
    BY TellPending
  <2> QED
    BY <2>1 DEF QueuesFine, Addressed
<1>4. /\ messages[t] \in Seq(MessageType) /\ inbox[t] \in Seq(MessageType)
      /\ runnables[t] \in Seq(MessageType) /\ batch[t] \in Seq(MessageType)
      /\ \A p \in Pusher : \A u \in Loop : ran[p][u] \in Nat /\ pushed[p][u] \in Nat
  BY ListsTyped DEF TypeOK
<1>5. ASSUME NEW p \in Pusher
      PROVE  InTurn(p, batch[t], runnables[t], inbox[t], Append(messages[t], m),
                    ran[p][t], pushed[p][t])
  <2>1. InTurn(p, batch[t], runnables[t], inbox[t], messages[t], ran[p][t], pushed[p][t])
    BY DEF QueuesFine, InOrder
  <2> QED
    BY <1>2, <1>4, <2>1, TurnLeft
<1>6. InOrder'
  <2>1. messages'[t] = Append(messages[t], m) /\ \A u \in Loop \ {t} : messages'[u] = messages[u]
    BY <1>1 DEF TypeOK
  <2> QED
    BY <1>1, <1>5, <2>1, OrderOfOne DEF QueuesFine
<1> QED
  BY <1>3, <1>6 DEF QueuesFine

LEMMA OtherQueues ==
  ASSUME TypeOK, QueuesFine, CallShape,
         \/ \E t \in Loop : NewTimer(t) \/ TimerExpires(t) \/ Exit(t)
         \/ \E p \in Pusher, t \in Loop : PushRunnable(p, t)
         \/ \E c \in Loop : CallStep(c) \/ SpuriousWakeup(c)
         \/ SuspendApp \/ UnsuspendApp \/ SuspendStep
  PROVE  QueuesFine'
<1> USE DEF queueVars, callVars, appVars
<1>1. ASSUME NEW t \in Loop, NewTimer(t) \/ TimerExpires(t) \/ Exit(t)
      PROVE  QueuesFine'
  BY <1>1, SameQueues DEF NewTimer, TimerExpires, Exit
<1>2. ASSUME NEW p \in Pusher, NEW t \in Loop, PushRunnable(p, t)
      PROVE  QueuesFine'
  <2> DEFINE r == Runnable(p, t, FALSE)
  <2>1. r \in RunnableType /\ r.n = pushed[r.by][r.to] + 1 /\ ~r.sync
    BY RunnableTyped DEF Runnable
  <2>2. Leave(r) /\ UNCHANGED <<inbox, batch, ran>>
    BY <1>2 DEF PushRunnable
  <2> HIDE DEF r
  <2> QED
    BY <2>1, <2>2, LeaveQueues
<1>3. ASSUME NEW c \in Loop, CallStep(c) \/ SpuriousWakeup(c)
      PROVE  QueuesFine'
  <2>1. CASE PushToCall(c)
    <3>1. /\ call[c] \in RunnableType /\ call[c].by = c
          /\ call[c].n = pushed[call[c].by][call[c].to] + 1
      BY <2>1 DEF PushToCall, CallShape, Calling
    <3> QED
      BY <2>1, <3>1, LeaveQueues DEF PushToCall
  <2>2. CASE ~PushToCall(c)
    BY <1>3, <2>2, SameQueues
    DEF CallStep, LockToCall, Listen, FallAsleep, Relock, SpuriousWakeup
  <2> QED
    BY <2>1, <2>2
<1>4. ASSUME NEW t \in Loop, PushSetSuspended(t)
      PROVE  QueuesFine'
  BY <1>4, TellQueues
<1>5. CASE SuspendApp \/ UnsuspendApp \/ SuspendReturns \/ UnsuspendReturns
  BY <1>5, SameQueues DEF SuspendApp, UnsuspendApp, SuspendReturns, UnsuspendReturns
<1> QED
  BY <1>1, <1>2, <1>3, <1>4, <1>5 DEF SuspendStep


-----------------------------------------------------------------------------
(* Synchronous calls.                                                      *)

\* A step that does not end, begin or answer a call.
LEMMA CallersStay ==
  ASSUME QueuesFine, CallsFine, UNCHANGED <<call, complete, ran>>,
         \A u \in Loop : \A r \in Pending(u)' : r \in Pending(u) \/ ~r.sync,
         \A u \in Loop : \A r \in Pending(u)' : r.sync => r.by \in Loop,
         \A c \in Loop :
           /\ pc[c] \in Listening => pc'[c] \in Listening
           /\ pc'[c] \in Calling => pc[c] \in Calling
           /\ pc'[c] = "push" => pc[c] = "push"
           /\ pc[c] = "push" => pushed'[c] = pushed[c]
  PROVE  CallsFine'
<1>1. FlagsAlive'
  <2> SUFFICES ASSUME NEW u \in Loop, NEW r \in Pending(u)', r.sync
               PROVE  /\ call'[r.by] = r /\ pc'[r.by] \in Listening /\ ~complete'[r.by]
    BY DEF FlagsAlive, Listening
  <2>1. r \in Pending(u) /\ r.by \in Loop
    OBVIOUS
  <2>2. call[r.by] = r /\ pc[r.by] \in Listening /\ ~complete[r.by]
    BY <2>1 DEF CallsFine, FlagsAlive, Listening
  <2> QED
    BY <2>1, <2>2
<1>2. CallShape'
  BY DEF CallsFine, CallShape
<1>3. ResultsIn'
  BY DEF CallsFine, ResultsIn, HasRun
<1> QED
  BY <1>1, <1>2, <1>3 DEF CallsFine

\* The first of a batch is the next to run, and is not pending afterwards.
LEMMA RunIsNext ==
  ASSUME TypeOK, Stages, QueuesFine, NEW t \in Loop, FinishRunnable(t)
  PROVE  LET r == Head(batch[t])
         IN /\ r \in Pending(t) /\ r \in RunnableType /\ r.to = t
            /\ ran' = [ran EXCEPT ![r.by] = [ran[r.by] EXCEPT ![t] = ran[r.by][t] + 1]]
            /\ r.n = ran[r.by][t] + 1
            /\ \A u \in Loop : r \notin Pending(u)'
<1> DEFINE r == Head(batch[t])
<1>1. batch[t] # <<>> /\ batch[t] \in Seq(RunnableType)
  BY ListsTyped DEF FinishRunnable, Stages
<1>2. r \in Range(batch[t]) /\ r \in RunnableType
  BY <1>1, RangeTail, ListParts
<1>3. r \in Pending(t) /\ r.to = t
  BY <1>2 DEF Pending, QueuesFine, Addressed
<1>4. r.by \in Pusher /\ r.type = "runnable"
  BY <1>2 DEF RunnableType
<1>5. ran' = [ran EXCEPT ![r.by] = [ran[r.by] EXCEPT ![t] = ran[r.by][t] + 1]]
  BY DEF FinishRunnable
<1>6. r.n = ran[r.by][t] + 1 /\ ran[r.by][t] \in Nat
  <2>1. InTurn(r.by, batch[t], runnables[t], inbox[t], messages[t], ran[r.by][t], pushed[r.by][t])
    BY <1>4 DEF QueuesFine, InOrder
  <2>2. /\ messages[t] \in Seq(MessageType) /\ inbox[t] \in Seq(MessageType)
        /\ runnables[t] \in Seq(MessageType)
        /\ ran[r.by][t] \in Nat /\ pushed[r.by][t] \in Nat
    BY <1>4, ListsTyped DEF TypeOK
  <2> QED
    BY <1>1, <2>1, <2>2, TurnRun
<1>7. ran'[r.by][t] = ran[r.by][t] + 1
  BY <1>4, <1>5 DEF TypeOK
<1>8. InOrder' /\ Addressed'
  BY CycleQueues DEF Cycle, QueuesFine
<1>9. ASSUME NEW u \in Loop, r \in Pending(u)'
      PROVE  FALSE
  <2>1. u = t
    BY <1>3, <1>8, <1>9 DEF Addressed
  <2>2. \/ r \in Range(messages'[t]) \/ r \in Range(inbox'[t])
        \/ r \in Range(runnables'[t]) \/ r \in Range(batch'[t])
    BY <1>9, <2>1 DEF Pending, Messages
  <2>3. \/ r.n \in Numbers(r.by, messages'[t]) \/ r.n \in Numbers(r.by, inbox'[t])
        \/ r.n \in Numbers(r.by, runnables'[t]) \/ r.n \in Numbers(r.by, batch'[t])
    BY <1>4, <2>2, NumbersByRange
  <2>4. InTurn(r.by, batch'[t], runnables'[t], inbox'[t], messages'[t],
               ran'[r.by][t], pushed'[r.by][t])
    BY <1>4, <1>8 DEF InOrder
  <2>5. r.n \in (ran'[r.by][t] + 1) .. pushed'[r.by][t]
    BY <2>3, <2>4 DEF InTurn
  <2> QED
    BY <1>6, <1>7, <2>5
<1> QED
  BY <1>2, <1>3, <1>5, <1>6, <1>9

LEMMA RanGrows ==
  ASSUME TypeOK, NEW q \in Pusher, NEW t \in Loop, NEW p \in Pusher, NEW u \in Loop,
         ran' = [ran EXCEPT ![q] = [ran[q] EXCEPT ![t] = ran[q][t] + 1]]
  PROVE  ran[p][u] \in Nat /\ ran'[p][u] \in Nat /\ ran[p][u] <= ran'[p][u]
<1>1. ran[p][u] \in Nat /\ ran[q][t] \in Nat
  BY DEF TypeOK
<1>2. ran'[p][u] = IF p = q /\ u = t THEN ran[p][u] + 1 ELSE ran[p][u]
  BY DEF TypeOK
<1> QED
  BY <1>1, <1>2

LEMMA CycleCalls ==
  ASSUME TypeOK, Stages, QueuesFine, CallsFine, NEW t \in Loop, Cycle(t)
  PROVE  CallsFine'
<1>1. \A u \in Loop : Pending(u)' \subseteq Pending(u)
  BY CyclePending
<1>2. \A u \in Loop : \A r \in Pending(u)' : r.sync => r.by \in Loop
  BY <1>1 DEF QueuesFine, Addressed
<1> USE DEF TypeOK, Calling, Listening, queueVars, callVars, appVars
<1>3. CASE Take(t)
  BY <1>1, <1>2, <1>3, CallersStay DEF Take
<1>4. CASE HandleMessage(t)
  BY <1>1, <1>2, <1>4, CallersStay DEF HandleMessage
<1>5. CASE AfterMessages(t)
  BY <1>1, <1>2, <1>5, CallersStay DEF AfterMessages, RestOfCycle, EndOfCycle
<1>6. CASE FinishTimer(t)
  BY <1>1, <1>2, <1>6, CallersStay DEF FinishTimer
<1>7. CASE Swap(t)
  BY <1>1, <1>2, <1>7, CallersStay DEF Swap
<1>8. CASE StartRunnable(t)
  BY <1>1, <1>2, <1>8, CallersStay DEF StartRunnable
<1>9. CASE FinishRunnable(t)
  <2> DEFINE r == Head(batch[t])
  <2>1. /\ r \in Pending(t) /\ r \in RunnableType /\ r.to = t
        /\ ran' = [ran EXCEPT ![r.by] = [ran[r.by] EXCEPT ![t] = ran[r.by][t] + 1]]
        /\ r.n = ran[r.by][t] + 1
        /\ \A u \in Loop : r \notin Pending(u)'
    BY <1>9, RunIsNext
  <2>2. /\ pc[t] = "body" /\ pc' = [pc EXCEPT ![t] = "next"] /\ UNCHANGED <<call, pushed>>
        /\ complete' = IF r.sync THEN [complete EXCEPT ![r.by] = TRUE] ELSE complete
    BY <1>9 DEF FinishRunnable
  <2>3. r.by \in Pusher /\ (r.sync => r.by \in Loop)
    BY <2>1 DEF RunnableType, QueuesFine, Addressed
  <2> HIDE DEF r
  <2>4. FlagsAlive'
    <3> SUFFICES ASSUME NEW u \in Loop, NEW x \in Pending(u)', x.sync
                 PROVE  /\ call'[x.by] = x /\ pc'[x.by] \in Listening /\ ~complete'[x.by]
      BY DEF FlagsAlive
    <3>1. x \in Pending(u) /\ x.by \in Loop
      BY <1>1, <1>2
    <3>2. call[x.by] = x /\ pc[x.by] \in Listening /\ ~complete[x.by]
      BY <3>1 DEF CallsFine, FlagsAlive
    <3>3. ~(r.sync /\ r.by = x.by)
      <4>1. r.sync => call[r.by] = r
        BY <2>1 DEF CallsFine, FlagsAlive
      <4> QED
        BY <2>1, <3>2, <4>1
    <3> QED
      BY <2>2, <2>3, <3>1, <3>2, <3>3
  <2>5. CallShape'
    <3>1. \A c \in Loop : pc'[c] \in Calling => pc'[c] = pc[c]
      BY <2>2
    <3>2. \A c \in Loop : pc[c] = "push" => complete'[c] = complete[c]
      <4>1. r.sync => pc[r.by] \in Listening
        BY <2>1 DEF CallsFine, FlagsAlive
      <4> QED
        BY <2>2, <2>3, <4>1
    <3> QED
      BY <2>2, <3>1, <3>2 DEF CallsFine, CallShape
  <2>6. ResultsIn'
    <3> SUFFICES ASSUME NEW c \in Loop, call'[c] # NoCall, complete'[c]
                 PROVE  call'[c].n <= ran'[call'[c].by][call'[c].to]
      BY DEF ResultsIn, HasRun
    <3> DEFINE x == call[c]
    <3>1. call'[c] = x /\ x \in RunnableType
      BY <2>2
    <3>2. x.by \in Pusher /\ x.to \in Loop /\ x.n \in Nat
      BY <3>1 DEF RunnableType
    <3>3. /\ ran[x.by][x.to] \in Nat /\ ran'[x.by][x.to] \in Nat
          /\ ran[x.by][x.to] <= ran'[x.by][x.to]
      BY <2>1, <2>3, <3>2, RanGrows
    <3>4. CASE complete[c]
      <4>1. x.n <= ran[x.by][x.to]
        BY <2>2, <3>4 DEF CallsFine, ResultsIn, HasRun
      <4>2. x.n <= ran'[x.by][x.to]
        <5>1. \A i, j, k \in Nat : i <= j /\ j <= k => i <= k
          OBVIOUS
        <5> HIDE DEF x
        <5> QED
          BY <3>2, <3>3, <4>1, <5>1
      <4> QED
        BY <3>1, <4>2
    <3>5. CASE ~complete[c]
      <4>1. r.sync /\ r.by = c
        BY <2>2, <2>3, <3>5
      <4>2. x = r
        BY <2>1, <4>1 DEF CallsFine, FlagsAlive
      <4>3. ran'[r.by][t] = ran[r.by][t] + 1 /\ ran[r.by][t] \in Nat
        BY <2>1, <2>3
      <4> QED
        BY <2>1, <3>1, <4>2, <4>3
    <3> QED
      BY <3>4, <3>5
  <2> QED
    BY <2>4, <2>5, <2>6 DEF CallsFine
<1>10. CASE FinishBatch(t)
  BY <1>1, <1>2, <1>10, CallersStay DEF FinishBatch, EndOfCycle
<1>11. CASE GrabListenerLock(t)
  BY <1>1, <1>2, <1>11, CallersStay DEF GrabListenerLock
<1>12. CASE NotifyListeners(t)
  BY <1>1, <1>2, <1>12, CallersStay DEF NotifyListeners, EndOfCycle
<1> QED
  BY <1>3, <1>4, <1>5, <1>6, <1>7, <1>8, <1>9, <1>10, <1>11, <1>12 DEF Cycle

\* A call begins, is left with the loop it is for, or is over.
LEMMA CallBegins ==
  ASSUME LoopAssumption, TypeOK, QueuesFine, CallsFine, NEW c \in Loop, NEW t \in Loop,
         LockToCall(c, t)
  PROVE  CallsFine'
<1> DEFINE r == Runnable(c, t, TRUE)
<1>1. /\ pc[c] = "body" /\ c # t /\ UNCHANGED <<messages, inbox, runnables, batch, pushed, ran>>
      /\ pc' = [pc EXCEPT ![c] = "push"] /\ call' = [call EXCEPT ![c] = r]
      /\ complete' = [complete EXCEPT ![c] = FALSE]
  BY DEF LockToCall, LoopAssumption, queueVars
<1>2. /\ r \in RunnableType /\ r.by = c /\ r.to = t /\ r.sync
      /\ r.n = pushed[c][t] + 1
  BY RunnableTyped DEF Runnable, Pusher
<1>3. \A u \in Loop : Pending(u)' = Pending(u)
  BY <1>1, SamePending
<1>4. /\ pc'[c] = "push" /\ call'[c] = r /\ ~complete'[c]
      /\ \A d \in Loop \ {c} : /\ pc'[d] = pc[d] /\ call'[d] = call[d]
                               /\ complete'[d] = complete[d]
  BY <1>1 DEF TypeOK
<1> HIDE DEF r
<1>5. FlagsAlive'
  <2> SUFFICES ASSUME NEW u \in Loop, NEW x \in Pending(u), x.sync
               PROVE  /\ call'[x.by] = x /\ pc'[x.by] \in Listening /\ ~complete'[x.by]
    BY <1>3 DEF FlagsAlive, Listening
  <2>1. /\ call[x.by] = x /\ pc[x.by] \in Listening /\ ~complete[x.by] /\ x.by \in Loop
    BY DEF CallsFine, FlagsAlive, Listening, QueuesFine, Addressed
  <2>2. x.by # c
    BY <1>1, <2>1 DEF Listening
  <2> QED
    BY <1>4, <2>1, <2>2
<1>6. CallShape'
  BY <1>1, <1>2, <1>4 DEF CallsFine, CallShape, Calling
<1>7. ResultsIn'
  BY <1>1, <1>4 DEF CallsFine, ResultsIn, HasRun
<1> QED
  BY <1>5, <1>6, <1>7 DEF CallsFine

LEMMA CallPushed ==
  ASSUME TypeOK, QueuesFine, CallsFine, NEW c \in Loop, PushToCall(c)
  PROVE  CallsFine'
<1> DEFINE r == call[c]
<1>1. /\ pc[c] = "push" /\ Leave(r) /\ pc' = [pc EXCEPT ![c] = "listen"]
      /\ UNCHANGED <<inbox, batch, call, complete, ran>>
  BY DEF PushToCall, callVars
<1>2. r \in RunnableType /\ r.by = c /\ r.to \in Loop /\ ~complete[c]
  BY <1>1 DEF CallsFine, CallShape, Calling, RunnableType
<1>3. /\ pc'[c] = "listen"
      /\ \A d \in Loop \ {c} : pc'[d] = pc[d]
  BY <1>1 DEF TypeOK
<1>4. \A d \in Loop \ {c} : pushed'[d] = pushed[d]
  BY <1>1, <1>2 DEF Leave, TypeOK, Pusher
<1>5. FlagsAlive'
  <2> SUFFICES ASSUME NEW u \in Loop, NEW x \in Pending(u)', x.sync
               PROVE  /\ call[x.by] = x /\ pc'[x.by] \in Listening /\ ~complete[x.by]
    BY <1>1 DEF FlagsAlive, Listening
  <2>1. x \in Pending(u) \/ x = r
    BY <1>1, <1>2, LeavePending
  <2>2. CASE x = r
    BY <1>2, <1>3, <2>2 DEF Listening
  <2>3. CASE x \in Pending(u)
    <3>1. /\ call[x.by] = x /\ pc[x.by] \in Listening /\ ~complete[x.by] /\ x.by \in Loop
      BY <2>3 DEF CallsFine, FlagsAlive, Listening, QueuesFine, Addressed
    <3>2. x.by # c
      BY <1>1, <3>1 DEF Listening
    <3> QED
      BY <1>3, <3>1, <3>2
  <2> QED
    BY <2>1, <2>2, <2>3
<1>6. CallShape'
  <2>1. \A d \in Loop : pc'[d] \in Calling => pc[d] \in Calling
    BY <1>1, <1>3 DEF Calling
  <2> QED
    BY <1>1, <1>3, <1>4, <2>1 DEF CallsFine, CallShape
<1>7. ResultsIn'
  BY <1>1 DEF CallsFine, ResultsIn, HasRun
<1> QED
  BY <1>5, <1>6, <1>7 DEF CallsFine

LEMMA CallEnds ==
  ASSUME TypeOK, QueuesFine, CallsFine, NEW c \in Loop, Listen(c), complete[c]
  PROVE  CallsFine'
<1>1. /\ pc[c] = "listen" /\ pc' = [pc EXCEPT ![c] = "body"]
      /\ call' = [call EXCEPT ![c] = NoCall]
      /\ UNCHANGED <<messages, inbox, runnables, batch, complete, pushed, ran>>
  BY DEF Listen, WaitOver, queueVars
<1>2. \A u \in Loop : Pending(u)' = Pending(u)
  BY <1>1, SamePending
<1>3. /\ pc'[c] = "body" /\ call'[c] = NoCall
      /\ \A d \in Loop \ {c} : pc'[d] = pc[d] /\ call'[d] = call[d]
  BY <1>1 DEF TypeOK
<1>4. FlagsAlive'
  <2> SUFFICES ASSUME NEW u \in Loop, NEW x \in Pending(u), x.sync
               PROVE  /\ call'[x.by] = x /\ pc'[x.by] \in Listening /\ ~complete[x.by]
    BY <1>1, <1>2 DEF FlagsAlive, Listening
  <2>1. /\ call[x.by] = x /\ pc[x.by] \in Listening /\ ~complete[x.by] /\ x.by \in Loop
    BY DEF CallsFine, FlagsAlive, Listening, QueuesFine, Addressed
  <2> QED
    BY <1>3, <2>1
<1>5. CallShape'
  BY <1>1, <1>3 DEF CallsFine, CallShape, Calling, Listening
<1>6. ResultsIn'
  BY <1>1, <1>3 DEF CallsFine, ResultsIn, HasRun
<1> QED
  BY <1>4, <1>5, <1>6 DEF CallsFine

LEMMA OtherCalls ==
  ASSUME LoopAssumption, TypeOK, QueuesFine, CallsFine,
         \/ \E t \in Loop : NewTimer(t) \/ TimerExpires(t) \/ Exit(t)
         \/ \E p \in Pusher, t \in Loop : PushRunnable(p, t)
         \/ \E c \in Loop : CallStep(c) \/ SpuriousWakeup(c)
         \/ SuspendApp \/ UnsuspendApp \/ SuspendStep
  PROVE  CallsFine'
<1>1. \A u \in Loop : \A r \in Pending(u)' : r.sync => r.by \in Loop
  BY OtherQueues DEF CallsFine, QueuesFine, Addressed
<1> USE DEF queueVars, callVars, appVars
<1>2. ASSUME UNCHANGED <<messages, inbox, runnables, batch>>
      PROVE  \A u \in Loop : \A r \in Pending(u)' : r \in Pending(u) \/ ~r.sync
  BY <1>2, SamePending
<1>3. ASSUME NEW t \in Loop, NewTimer(t) \/ TimerExpires(t) \/ Exit(t)
      PROVE  CallsFine'
  BY <1>1, <1>2, <1>3, CallersStay DEF NewTimer, TimerExpires, Exit
<1>4. ASSUME NEW p \in Pusher, NEW t \in Loop, PushRunnable(p, t)
      PROVE  CallsFine'
  <2> DEFINE r == Runnable(p, t, FALSE)
  <2>1. r \in RunnableType /\ r.by = p /\ ~r.sync
    BY RunnableTyped DEF Runnable
  <2>2. Leave(r) /\ UNCHANGED <<inbox, batch, call, complete, ran, pc>>
    BY <1>4 DEF PushRunnable
  <2> HIDE DEF r
  <2>3. \A u \in Loop : \A x \in Pending(u)' : x \in Pending(u) \/ ~x.sync
    BY <2>1, <2>2, LeavePending
  <2>4. \A c \in Loop : pc[c] = "push" => c # p
    BY <1>4 DEF PushRunnable, InBody
  <2>5. \A c \in Loop : c # p => pushed'[c] = pushed[c]
    BY <2>1, <2>2 DEF Leave, TypeOK, Pusher
  <2> QED
    BY <1>1, <2>2, <2>3, <2>4, <2>5, CallersStay
<1>5. ASSUME NEW c \in Loop, \/ \E t \in Loop : LockToCall(c, t)
                             \/ PushToCall(c) \/ (Listen(c) /\ complete[c])
      PROVE  CallsFine'
  BY <1>5, CallBegins, CallPushed, CallEnds
<1>6. ASSUME NEW c \in Loop, \/ Listen(c) /\ ~complete[c]
                             \/ FallAsleep(c) \/ Relock(c) \/ SpuriousWakeup(c)
      PROVE  CallsFine'
  <2>1. /\ pc[c] \in Listening /\ pc' \in {[pc EXCEPT ![c] = s] : s \in Listening}
        /\ UNCHANGED <<messages, inbox, runnables, batch, call, complete, pushed, ran>>
    BY <1>6 DEF Listen, WaitOver, FallAsleep, Relock, SpuriousWakeup, Listening
  <2>2. \A u \in Loop :
          /\ pc[u] \in Listening => pc'[u] \in Listening
          /\ pc'[u] \in Calling => pc[u] \in Calling
          /\ pc'[u] = "push" => pc[u] = "push"
    <3>1. DOMAIN pc = Loop
      BY DEF TypeOK
    <3> QED
      BY <2>1, <3>1 DEF Calling, Listening
  <2> QED
    BY <1>1, <1>2, <2>1, <2>2, CallersStay
<1>7. ASSUME NEW t \in Loop, PushSetSuspended(t)
      PROVE  CallsFine'
  <2>1. UNCHANGED <<call, complete, ran, pc, pushed>>
    BY <1>7 DEF PushSetSuspended
  <2>2. \A u \in Loop : Pending(u)' = Pending(u)
    BY <1>7, TellPending
  <2> QED
    BY <1>1, <2>1, <2>2, CallersStay
<1>8. CASE SuspendApp \/ UnsuspendApp \/ SuspendReturns \/ UnsuspendReturns
  BY <1>1, <1>2, <1>8, CallersStay
  DEF SuspendApp, UnsuspendApp, SuspendReturns, UnsuspendReturns
<1> QED
  BY <1>3, <1>4, <1>5, <1>6, <1>7, <1>8 DEF SuspendStep, CallStep


-----------------------------------------------------------------------------
(* By turns: a list of messages as a walk between two moods.               *)

LEMMA AlternateEmpty ==
  ASSUME NEW a \in Mood
  PROVE  Alternate(a, <<>>, a)
<1> DEFINE h == [i \in 0 .. 0 |-> a]
<1>1. h \in [0 .. Len(<<>>) -> Mood] /\ h[0] = a /\ h[Len(<<>>)] = a
  OBVIOUS
<1>2. \A i \in 1 .. Len(<<>>) : Follows(h[i - 1], <<>>[i], h[i])
  OBVIOUS
<1> QED
  BY <1>1, <1>2 DEF Alternate

LEMMA AlternateAppend ==
  ASSUME NEW a, NEW b, NEW c \in Mood, NEW list \in Seq(MessageType),
         NEW m \in MessageType, Alternate(a, list, b), Follows(b, m, c)
  PROVE  Alternate(a, Append(list, m), c)
<1> DEFINE longer == Append(list, m)
           n == Len(list)
<1>1. /\ n \in Nat /\ Len(longer) = n + 1 /\ longer[n + 1] = m
      /\ \A i \in 1 .. n : longer[i] = list[i]
  OBVIOUS
<1>2. PICK h \in [0 .. n -> Mood] :
        /\ h[0] = a /\ h[n] = b
        /\ \A i \in 1 .. n : Follows(h[i - 1], list[i], h[i])
  BY DEF Alternate
<1> DEFINE g == [i \in 0 .. (n + 1) |-> IF i = n + 1 THEN c ELSE h[i]]
<1> HIDE DEF longer, n
<1>3. g \in [0 .. (n + 1) -> Mood] /\ g[0] = a /\ g[n + 1] = c
  BY <1>1, <1>2
<1>4. ASSUME NEW i \in 1 .. (n + 1)
      PROVE  Follows(g[i - 1], longer[i], g[i])
  <2>1. CASE i = n + 1
    <3>1. g[i - 1] = b /\ g[i] = c /\ longer[i] = m
      BY <1>1, <1>2, <2>1
    <3> QED
      BY <3>1
  <2>2. CASE i # n + 1
    <3>1. i \in 1 .. n /\ g[i - 1] = h[i - 1] /\ g[i] = h[i] /\ longer[i] = list[i]
      BY <1>1, <2>2
    <3> QED
      BY <1>2, <3>1
  <2> QED
    BY <2>1, <2>2
<1> HIDE DEF g
<1> QED
  BY <1>1, <1>3, <1>4 DEF Alternate, longer

LEMMA AlternateTail ==
  ASSUME NEW a, NEW b, NEW list \in Seq(MessageType), list # <<>>, Alternate(a, list, b)
  PROVE  \E c \in Mood : Follows(a, Head(list), c) /\ Alternate(c, Tail(list), b)
<1> DEFINE n == Len(list)
           rest == Tail(list)
<1>1. /\ n \in Nat \ {0} /\ Len(rest) = n - 1 /\ Head(list) = list[1]
      /\ \A i \in 1 .. (n - 1) : rest[i] = list[i + 1]
  BY ListParts
<1>2. PICK h \in [0 .. n -> Mood] :
        /\ h[0] = a /\ h[n] = b
        /\ \A i \in 1 .. n : Follows(h[i - 1], list[i], h[i])
  BY DEF Alternate
<1> DEFINE g == [i \in 0 .. (n - 1) |-> h[i + 1]]
<1> HIDE DEF n, rest
<1>3. h[1] \in Mood /\ Follows(a, Head(list), h[1])
  <2>1. 1 \in 1 .. n /\ 1 \in 0 .. n /\ 1 - 1 = 0
    BY <1>1
  <2>2. Follows(h[1 - 1], list[1], h[1])
    BY <1>2, <2>1
  <2> QED
    BY <1>1, <1>2, <2>1, <2>2
<1>4. g \in [0 .. (n - 1) -> Mood] /\ g[0] = h[1] /\ g[n - 1] = b
  BY <1>1, <1>2
<1>5. ASSUME NEW i \in 1 .. (n - 1)
      PROVE  Follows(g[i - 1], rest[i], g[i])
  <2>1. /\ i + 1 \in 1 .. n /\ g[i - 1] = h[(i + 1) - 1] /\ g[i] = h[i + 1]
        /\ rest[i] = list[i + 1]
    BY <1>1
  <2> QED
    BY <1>2, <2>1
<1> HIDE DEF g
<1> QED
  BY <1>1, <1>3, <1>4, <1>5 DEF Alternate, rest

LEMMA Least ==
  ASSUME NEW S \in SUBSET Nat, S # {}
  PROVE  \E i \in S : \A j \in S : ~(j < i)
<1>1. PICK i \in S : \A j \in S : ~(<<j, i>> \in OpToRel(<, Nat))
  BY NatLessThanWellFounded, WFMin
<1> QED
  BY <1>1 DEF OpToRel

\* Who is told nothing that parks it and ends parked was parked.
LEMMA AlternateNoSuspend ==
  ASSUME NEW a, NEW list \in Seq(MessageType), Alternate(a, list, "parked"),
         \A i \in 1 .. Len(list) : list[i].type # "suspend"
  PROVE  a = "parked"
<1> DEFINE n == Len(list)
<1>1. PICK h \in [0 .. n -> Mood] :
        /\ h[0] = a /\ h[n] = "parked"
        /\ \A i \in 1 .. n : Follows(h[i - 1], list[i], h[i])
  BY DEF Alternate
<1> DEFINE S == {i \in 0 .. n : h[i] = "parked"}
<1>2. n \in Nat
  OBVIOUS
<1> HIDE DEF n
<1>3. PICK i \in S : \A j \in S : ~(j < i)
  <2>1. S \in SUBSET Nat /\ n \in S
    BY <1>1, <1>2
  <2> QED
    BY <2>1, Least
<1>4. CASE i = 0
  BY <1>1, <1>4
<1>5. CASE i # 0
  <2>1. i \in 1 .. n /\ i - 1 \in 0 .. n /\ i - 1 < i
    BY <1>2, <1>3, <1>5
  <2>2. h[i - 1] # "parked"
    BY <1>3, <2>1
  <2>3. Follows(h[i - 1], list[i], "parked") /\ list[i].type # "suspend"
    BY <1>1, <1>3, <2>1 DEF n
  <2> QED
    BY <2>2, <2>3 DEF Follows
<1> QED
  BY <1>4, <1>5

\* What a loop has not handled: its messages behind those it has taken.
LEMMA ConcatParts ==
  ASSUME NEW s \in Seq(MessageType), NEW u \in Seq(MessageType), NEW m \in MessageType
  PROVE  /\ s \o u \in Seq(MessageType)
         /\ <<>> \o u = u /\ u \o <<>> = u
         /\ s \o Append(u, m) = Append(s \o u, m)
         /\ s # <<>> => /\ s \o u # <<>>
                        /\ Head(s \o u) = Head(s) /\ Tail(s \o u) = Tail(s) \o u
  OBVIOUS


-----------------------------------------------------------------------------
(* Suspension.                                                             *)

LEMMA MoodTyped ==
  ASSUME NEW t \in Loop
  PROVE  Is(t) \in Mood /\ Told(t) \in Mood
  BY DEF Is, Told, Mood

\* A step that leaves nothing for a loop, or a runnable, or takes what is left.
LEMMA SameMood ==
  ASSUME TypeOK, Alternates, UNCHANGED <<suspended, untold, app>>, NEW t \in Loop,
         \/ inbox'[t] = inbox[t] /\ messages'[t] = messages[t]
         \/ inbox[t] = <<>> /\ inbox'[t] = messages[t] /\ messages'[t] = <<>>
         \/ \E r \in RunnableType :
              inbox'[t] = inbox[t] /\ messages'[t] = Append(messages[t], r)
  PROVE  Alternate(Is(t)', inbox'[t] \o messages'[t], Told(t)')
<1>1. /\ messages[t] \in Seq(MessageType) /\ inbox[t] \in Seq(MessageType)
  BY ListsTyped
<1>2. Is(t)' = Is(t) /\ Told(t)' = Told(t)
  BY DEF Is, Told
<1>3. Alternate(Is(t), inbox[t] \o messages[t], Told(t))
  BY DEF Alternates
<1>4. ASSUME NEW r \in RunnableType, inbox'[t] = inbox[t],
             messages'[t] = Append(messages[t], r)
      PROVE  Alternate(Is(t), inbox'[t] \o messages'[t], Told(t))
  <2>1. r \in MessageType /\ Follows(Told(t), r, Told(t))
    BY DEF MessageType, RunnableType, Follows
  <2>2. /\ inbox[t] \o messages[t] \in Seq(MessageType)
        /\ inbox[t] \o Append(messages[t], r) = Append(inbox[t] \o messages[t], r)
    BY <1>1, <2>1, ConcatParts, Zenon
  <2> QED
    BY <1>3, <1>4, <2>1, <2>2, AlternateAppend, MoodTyped
<1>5. ASSUME inbox[t] = <<>>, inbox'[t] = messages[t], messages'[t] = <<>>
      PROVE  inbox'[t] \o messages'[t] = inbox[t] \o messages[t]
  BY <1>1, <1>5
<1>6. CASE inbox'[t] = inbox[t] /\ messages'[t] = messages[t]
  BY <1>2, <1>3, <1>6
<1> QED
  BY <1>2, <1>3, <1>4, <1>5, <1>6

LEMMA CycleSuspension ==
  ASSUME TypeOK, Stages, SuspensionFine, NEW t \in Loop, Cycle(t)
  PROVE  SuspensionFine'
<1> USE DEF appVars, queueVars, callVars
<1>1. UNCHANGED <<untold, app, parked>>
  BY DEF Cycle, Take, HandleMessage, AfterMessages, FinishTimer, Swap, StartRunnable,
         FinishRunnable, FinishBatch, GrabListenerLock, NotifyListeners
<1>2. AppShape'
  BY <1>1 DEF SuspensionFine, AppShape
<1>3. CASE HandleMessage(t)
  <2> DEFINE m == Head(inbox[t])
  <2>1. /\ inbox[t] # <<>> /\ messages[t] \in Seq(MessageType)
        /\ inbox[t] \in Seq(MessageType) /\ m \in MessageType
    BY <1>3, ListsTyped, ListParts DEF HandleMessage
  <2>2. /\ inbox' = [inbox EXCEPT ![t] = Tail(inbox[t])] /\ UNCHANGED messages
        /\ suspended' = [suspended EXCEPT ![t] =
                           IF m.type = "runnable" THEN suspended[t] ELSE m.type = "suspend"]
    BY <1>3 DEF HandleMessage
  <2> HIDE DEF m
  <2>3. Alternate(Is(t)', inbox'[t] \o messages'[t], Told(t)')
    <3>1. /\ inbox[t] \o messages[t] \in Seq(MessageType)
          /\ inbox[t] \o messages[t] # <<>> /\ Head(inbox[t] \o messages[t]) = m
          /\ Tail(inbox[t] \o messages[t]) = inbox'[t] \o messages'[t]
      <4>1. inbox'[t] = Tail(inbox[t]) /\ messages'[t] = messages[t]
        BY <2>2 DEF TypeOK
      <4>2. /\ inbox[t] \o messages[t] \in Seq(MessageType)
            /\ inbox[t] \o messages[t] # <<>> /\ Head(inbox[t] \o messages[t]) = m
            /\ Tail(inbox[t] \o messages[t]) = Tail(inbox[t]) \o messages[t]
        BY <2>1, ConcatParts, Zenon DEF m
      <4> QED
        BY <4>1, <4>2
    <3>2. Alternate(Is(t), inbox[t] \o messages[t], Told(t))
      BY DEF SuspensionFine, Alternates
    <3>3. PICK c \in Mood : Follows(Is(t), m, c) /\ Alternate(c, inbox'[t] \o messages'[t], Told(t))
      BY <3>1, <3>2, AlternateTail
    <3>4. c = Is(t)'
      <4>1. suspended'[t] = IF m.type = "runnable" THEN suspended[t] ELSE m.type = "suspend"
        BY <2>2 DEF TypeOK
      <4> QED
        BY <3>3, <4>1 DEF Follows, Is
    <3>5. Told(t)' = Told(t)
      BY <1>1 DEF Told
    <3> QED
      BY <3>3, <3>4, <3>5
  <2>4. ASSUME NEW u \in Loop, u # t
        PROVE  Alternate(Is(u)', inbox'[u] \o messages'[u], Told(u)')
    <3>1. /\ inbox'[u] = inbox[u] /\ messages'[u] = messages[u]
          /\ suspended'[u] = suspended[u]
      BY <2>2, <2>4 DEF TypeOK
    <3>2. Is(u)' = Is(u) /\ Told(u)' = Told(u)
      BY <1>1, <3>1 DEF Is, Told
    <3> QED
      BY <3>1, <3>2 DEF SuspensionFine, Alternates
  <2>5. Alternates'
    BY <2>3, <2>4 DEF Alternates
  <2> QED
    BY <1>2, <2>5 DEF SuspensionFine
<1>4. CASE ~HandleMessage(t)
  <2>1. UNCHANGED suspended
    BY <1>4 DEF Cycle, Take, AfterMessages, FinishTimer, Swap, StartRunnable,
                FinishRunnable, FinishBatch, GrabListenerLock, NotifyListeners
  <2>2. \A u \in Loop : \/ inbox'[u] = inbox[u] /\ messages'[u] = messages[u]
                        \/ inbox[u] = <<>> /\ inbox'[u] = messages[u] /\ messages'[u] = <<>>
    <3>1. CASE Take(t)
      BY <3>1 DEF Take, Stages, TypeOK
    <3>2. CASE ~Take(t)
      BY <1>4, <3>2 DEF Cycle, AfterMessages, FinishTimer, Swap, StartRunnable,
                        FinishRunnable, FinishBatch, GrabListenerLock, NotifyListeners
    <3> QED
      BY <3>1, <3>2
  <2>3. Alternates'
    <3> SUFFICES ASSUME NEW u \in Loop
                 PROVE  Alternate(Is(u)', inbox'[u] \o messages'[u], Told(u)')
      BY DEF Alternates
    <3> QED
      BY <1>1, <2>1, <2>2, SameMood DEF SuspensionFine
  <2> QED
    BY <1>2, <2>3 DEF SuspensionFine
<1> QED
  BY <1>3, <1>4

LEMMA LeaveSuspension ==
  ASSUME TypeOK, SuspensionFine, NEW r \in RunnableType, Leave(r),
         UNCHANGED <<inbox, suspended, untold, app, parked>>
  PROVE  SuspensionFine'
<1>1. ASSUME NEW t \in Loop
      PROVE  messages'[t] = messages[t] \/ messages'[t] = Append(messages[t], r)
  BY DEF Leave, TypeOK
<1>2. Alternates'
  <2> SUFFICES ASSUME NEW t \in Loop
               PROVE  Alternate(Is(t)', inbox'[t] \o messages'[t], Told(t)')
    BY DEF Alternates
  <2> QED
    BY <1>1, SameMood DEF SuspensionFine
<1>3. AppShape'
  BY DEF SuspensionFine, AppShape
<1> QED
  BY <1>2, <1>3 DEF SuspensionFine

\* What SuspendApp and UnsuspendApp decide is told before it is done.
LEMMA AppSuspension ==
  ASSUME LoopAssumption, TypeOK, SuspensionFine,
         SuspendApp \/ UnsuspendApp \/ SuspendReturns \/ UnsuspendReturns
  PROVE  SuspensionFine'
<1>1. UNCHANGED <<messages, inbox, suspended>>
  BY DEF SuspendApp, UnsuspendApp, SuspendReturns, UnsuspendReturns, queueVars
<1>2. AppShape' /\ \A t \in Loop : Told(t)' = Told(t)
  <2>1. CASE SuspendApp
    BY <2>1 DEF SuspendApp, MaySuspend, SuspensionFine, AppShape, Told
  <2>2. CASE UnsuspendApp
    BY <2>2 DEF UnsuspendApp, SuspensionFine, AppShape, Told
  <2>3. CASE SuspendReturns
    BY <2>3 DEF SuspendReturns, SuspensionFine, AppShape, Told
  <2>4. CASE UnsuspendReturns
    BY <2>4 DEF UnsuspendReturns, SuspensionFine, AppShape, Told
  <2> QED
    BY <2>1, <2>2, <2>3, <2>4
<1>3. Alternates'
  BY <1>1, <1>2 DEF SuspensionFine, Alternates, Is
<1> QED
  BY <1>2, <1>3 DEF SuspensionFine

LEMMA TellSuspension ==
  ASSUME TypeOK, SuspensionFine, NEW t \in Loop, PushSetSuspended(t)
  PROVE  SuspensionFine'
<1> DEFINE m == IF app = "suspending" THEN Suspend ELSE Unsuspend
<1>1. /\ t \in untold /\ untold' = untold \ {t}
      /\ messages' = [messages EXCEPT ![t] = Append(messages[t], m)]
      /\ UNCHANGED <<inbox, suspended, app, parked>>
  BY DEF PushSetSuspended
<1>2. app \in {"suspending", "unsuspending"} /\ t \in Suspendable /\ ~parked
  BY <1>1 DEF TypeOK, SuspensionFine, AppShape
<1>3. m \in MessageType /\ Follows(Told(t), m, Told(t)')
  <2>1. m \in MessageType
    BY DEF MessageType
  <2>2. CASE app = "suspending"
    <3>1. Told(t) = "awake" /\ Told(t)' = "parked"
      BY <1>1, <1>2, <2>2 DEF Told
    <3>2. m.type = "suspend"
      BY <2>2 DEF Suspend
    <3> QED
      BY <2>1, <3>1, <3>2 DEF Follows
  <2>3. CASE app = "unsuspending"
    <3>1. Told(t) = "parked" /\ Told(t)' = "awake"
      BY <1>1, <1>2, <2>3 DEF Told
    <3>2. m.type = "unsuspend"
      BY <2>3 DEF Unsuspend
    <3> QED
      BY <2>1, <3>1, <3>2 DEF Follows
  <2> QED
    BY <1>2, <2>1, <2>2, <2>3
<1> HIDE DEF m
<1>4. Alternate(Is(t)', inbox'[t] \o messages'[t], Told(t)')
  <2>1. messages[t] \in Seq(MessageType) /\ inbox[t] \in Seq(MessageType)
    BY ListsTyped
  <2>2. inbox'[t] = inbox[t] /\ messages'[t] = Append(messages[t], m)
    BY <1>1 DEF TypeOK
  <2>3. /\ inbox[t] \o messages[t] \in Seq(MessageType)
        /\ inbox[t] \o Append(messages[t], m) = Append(inbox[t] \o messages[t], m)
    BY <1>3, <2>1, ConcatParts, Zenon
  <2>4. Told(t)' \in Mood
    BY DEF Told, Mood
  <2>5. Is(t)' = Is(t) /\ Alternate(Is(t), inbox[t] \o messages[t], Told(t))
    BY <1>1 DEF Is, SuspensionFine, Alternates
  <2> QED
    BY <1>3, <2>2, <2>3, <2>4, <2>5, AlternateAppend
<1>5. ASSUME NEW u \in Loop, u # t
      PROVE  Alternate(Is(u)', inbox'[u] \o messages'[u], Told(u)')
  <2>1. inbox'[u] = inbox[u] /\ messages'[u] = messages[u]
    BY <1>1, <1>5 DEF TypeOK
  <2>2. Is(u)' = Is(u) /\ Told(u)' = Told(u)
    BY <1>1, <1>5 DEF Is, Told
  <2> QED
    BY <2>1, <2>2 DEF SuspensionFine, Alternates
<1>6. Alternates'
  BY <1>4, <1>5 DEF Alternates
<1>7. AppShape'
  BY <1>1, <1>2 DEF AppShape
<1> QED
  BY <1>6, <1>7 DEF SuspensionFine

LEMMA OtherSuspension ==
  ASSUME LoopAssumption, TypeOK, CallShape, SuspensionFine,
         \/ \E t \in Loop : NewTimer(t) \/ TimerExpires(t) \/ Exit(t)
         \/ \E p \in Pusher, t \in Loop : PushRunnable(p, t)
         \/ \E c \in Loop : CallStep(c) \/ SpuriousWakeup(c)
         \/ SuspendApp \/ UnsuspendApp \/ SuspendStep
  PROVE  SuspensionFine'
<1> USE DEF appVars, queueVars, callVars
<1>1. ASSUME UNCHANGED <<messages, inbox, suspended, untold, app, parked>>
      PROVE  SuspensionFine'
  BY <1>1 DEF SuspensionFine, Alternates, AppShape, Is, Told
<1>2. ASSUME NEW t \in Loop, NewTimer(t) \/ TimerExpires(t) \/ Exit(t)
      PROVE  SuspensionFine'
  BY <1>1, <1>2 DEF NewTimer, TimerExpires, Exit
<1>3. ASSUME NEW p \in Pusher, NEW t \in Loop, PushRunnable(p, t)
      PROVE  SuspensionFine'
  BY <1>3, RunnableTyped, LeaveSuspension DEF PushRunnable
<1>4. ASSUME NEW c \in Loop, CallStep(c) \/ SpuriousWakeup(c)
      PROVE  SuspensionFine'
  <2>1. CASE PushToCall(c)
    <3>1. call[c] \in RunnableType
      BY <2>1 DEF PushToCall, CallShape, Calling
    <3> QED
      BY <2>1, <3>1, LeaveSuspension DEF PushToCall
  <2>2. CASE ~PushToCall(c)
    BY <1>1, <1>4, <2>2
    DEF CallStep, LockToCall, Listen, FallAsleep, Relock, SpuriousWakeup
  <2> QED
    BY <2>1, <2>2
<1> QED
  BY <1>2, <1>3, <1>4, AppSuspension, TellSuspension DEF SuspendStep


-----------------------------------------------------------------------------
(* The invariant.                                                          *)

LEMMA InvInit ==
  ASSUME LoopAssumption, Init
  PROVE  Inv
<1>1. /\ \A t \in Loop : /\ messages[t] = <<>> /\ inbox[t] = <<>>
                         /\ runnables[t] = <<>> /\ batch[t] = <<>>
                         /\ pc[t] = "wait" /\ ~suspended[t] /\ call[t] = NoCall
      /\ \A p \in Pusher : \A t \in Loop : pushed[p][t] = 0 /\ ran[p][t] = 0
      /\ untold = {} /\ app = "running" /\ ~parked
  BY DEF Init
<1>2. TypeOK
  <2>1. messages \in [Loop -> Seq(MessageType)] /\ runnables \in [Loop -> Seq(RunnableType)]
    BY DEF Init
  <2> QED
    BY <2>1 DEF Init, TypeOK
<1>3. Stages
  BY <1>1 DEF Stages, Calling, Listening
<1>4. \A t \in Loop : Pending(t) = {} /\ Messages(t) = {}
  BY <1>1, RangeEmpty DEF Pending, Messages
<1>5. QueuesFine
  <2>1. ASSUME NEW p \in Pusher
        PROVE  InTurn(p, <<>>, <<>>, <<>>, <<>>, 0, 0)
    <3>1. Numbers(p, <<>>) = {} /\ Ascending(p, <<>>) /\ (0 + 1) .. 0 = {}
      BY NumbersEmpty
    <3> QED
      BY <3>1 DEF InTurn, Below
  <2> QED
    BY <1>1, <1>4, <2>1 DEF QueuesFine, Addressed, InOrder
<1>6. CallsFine
  BY <1>1, <1>4 DEF CallsFine, FlagsAlive, CallShape, ResultsIn, Calling, Listening
<1>7. SuspensionFine
  <2>1. \A t \in Loop : Is(t) = "awake" /\ Told(t) = "awake"
    BY <1>1 DEF Is, Told
  <2>2. <<>> \o <<>> = <<>> /\ Alternate("awake", <<>>, "awake")
    BY AlternateEmpty DEF Mood
  <2> QED
    BY <1>1, <2>1, <2>2 DEF SuspensionFine, Alternates, AppShape
<1> QED
  BY <1>2, <1>3, <1>5, <1>6, <1>7 DEF Inv

LEMMA InvStutter ==
  ASSUME Inv, UNCHANGED vars
  PROVE  Inv'
<1> USE DEF Inv, vars
<1>1. TypeOK'
  BY DEF TypeOK
<1>2. Stages'
  BY SameStages
<1>3. QueuesFine'
  BY SameQueues
<1>4. CallsFine'
  BY SamePending DEF CallsFine, FlagsAlive, CallShape, ResultsIn, HasRun
<1>5. SuspensionFine'
  BY DEF SuspensionFine, Alternates, AppShape, Is, Told
<1> QED
  BY <1>1, <1>2, <1>3, <1>4, <1>5

LEMMA InvStep ==
  ASSUME LoopAssumption, Inv, Next
  PROVE  Inv'
<1>1. ASSUME NEW t \in Loop, Cycle(t)
      PROVE  Inv'
  BY <1>1, CycleTyped, CycleStages, CycleQueues, CycleCalls, CycleSuspension DEF Inv
<1>2. ASSUME \/ \E t \in Loop : NewTimer(t) \/ TimerExpires(t) \/ Exit(t)
             \/ \E p \in Pusher, t \in Loop : PushRunnable(p, t)
             \/ \E c \in Loop : CallStep(c) \/ SpuriousWakeup(c)
             \/ SuspendApp \/ UnsuspendApp \/ SuspendStep
      PROVE  Inv'
  BY <1>2, OtherTyped, OtherStages, OtherQueues, OtherCalls, OtherSuspension
  DEF Inv, CallsFine
<1> QED
  BY <1>1, <1>2 DEF Next

LEMMA Invariant == Spec => []Inv
<1>1. Init => Inv
  BY LoopAssumption, InvInit
<1>2. Inv /\ [Next]_vars => Inv'
  BY LoopAssumption, InvStep, InvStutter
<1> QED
  BY <1>1, <1>2, PTL DEF Spec

-----------------------------------------------------------------------------
(* What follows from it.                                                   *)

\* Every variable of the loops stays within its type.
THEOREM LoopTypes == Spec => []TypeOK
<1>1. Inv => TypeOK
  BY DEF Inv
<1> QED
  BY <1>1, Invariant, PTL

LEMMA ConcatInOrder ==
  ASSUME NEW p, NEW a \in Seq(MessageType), NEW b \in Seq(MessageType)
  PROVE  /\ a \o b \in Seq(MessageType)
         /\ Numbers(p, a \o b) = Numbers(p, a) \cup Numbers(p, b)
         /\ Ascending(p, a) /\ Ascending(p, b) /\ Below(Numbers(p, a), Numbers(p, b))
              => Ascending(p, a \o b)
<1> DEFINE ab == a \o b
           k == Len(a)
           n == Len(b)
<1>1. /\ k \in Nat /\ n \in Nat /\ ab \in Seq(MessageType) /\ Len(ab) = k + n
      /\ DOMAIN ab = 1 .. (k + n) /\ DOMAIN a = 1 .. k /\ DOMAIN b = 1 .. n
      /\ \A i \in 1 .. k : ab[i] = a[i]
      /\ \A i \in 1 .. n : ab[k + i] = b[i]
  OBVIOUS
<1> HIDE DEF ab, k, n
<1>2. \A i \in OfPusher(p, a) : i \in 1 .. k /\ i \in OfPusher(p, ab) /\ ab[i] = a[i]
  BY <1>1 DEF OfPusher
<1>3. \A i \in OfPusher(p, b) : i \in 1 .. n /\ k + i \in OfPusher(p, ab) /\ ab[k + i] = b[i]
  BY <1>1 DEF OfPusher
<1>4. ASSUME NEW i \in OfPusher(p, ab)
      PROVE  \/ i \in OfPusher(p, a) /\ i <= k
             \/ i - k \in OfPusher(p, b) /\ ab[i] = b[i - k] /\ i > k
  <2>1. i \in 1 .. (k + n) /\ ab[i].type = "runnable" /\ ab[i].by = p
    BY <1>1 DEF OfPusher
  <2>2. CASE i <= k
    <3>1. i \in 1 .. k
      BY <1>1, <2>1, <2>2
    <3> QED
      BY <1>1, <2>1, <2>2, <3>1 DEF OfPusher
  <2>3. CASE i > k
    <3>1. i - k \in 1 .. n /\ k + (i - k) = i
      BY <1>1, <2>1, <2>3
    <3>2. ab[i] = b[i - k]
      BY <1>1, <3>1
    <3> QED
      BY <1>1, <2>1, <2>3, <3>1, <3>2 DEF OfPusher
  <2> QED
    BY <1>1, <2>1, <2>2, <2>3
<1>5. Numbers(p, ab) = Numbers(p, a) \cup Numbers(p, b)
  <2>1. ASSUME NEW x \in Numbers(p, ab)
        PROVE  x \in Numbers(p, a) \cup Numbers(p, b)
    BY <1>2, <1>4, <2>1 DEF Numbers
  <2>2. ASSUME NEW x \in Numbers(p, a) \cup Numbers(p, b)
        PROVE  x \in Numbers(p, ab)
    BY <1>2, <1>3, <2>2 DEF Numbers
  <2> QED
    BY <2>1, <2>2
<1>6. ASSUME Ascending(p, a), Ascending(p, b), Below(Numbers(p, a), Numbers(p, b)),
             NEW i \in OfPusher(p, ab), NEW j \in OfPusher(p, ab), i < j
      PROVE  ab[i].n < ab[j].n
  <2>1. i \in Nat /\ j \in Nat /\ k \in Nat
    BY <1>1 DEF OfPusher
  <2>2. CASE i \in OfPusher(p, a) /\ j \in OfPusher(p, a)
    BY <1>2, <1>6, <2>2 DEF Ascending
  <2>3. CASE i \in OfPusher(p, a) /\ j - k \in OfPusher(p, b) /\ ab[j] = b[j - k]
    BY <1>2, <1>6, <2>3 DEF Below, Numbers
  <2>4. CASE /\ i - k \in OfPusher(p, b) /\ ab[i] = b[i - k]
             /\ j - k \in OfPusher(p, b) /\ ab[j] = b[j - k]
    <3>1. i - k < j - k
      BY <1>6, <2>1
    <3> QED
      BY <1>6, <2>4, <3>1 DEF Ascending
  <2>5. i > k /\ j <= k => FALSE
    BY <1>6, <2>1
  <2> QED
    BY <1>4, <2>2, <2>3, <2>4, <2>5
<1> QED
  BY <1>1, <1>5, <1>6 DEF Ascending, ab

\* What one thread leaves for one loop is run in the order it was left, each
\* exactly once, over thread_messages_, the list taken from it, runnables_ and
\* the list that RunPendingRunnables_ swaps out.
THEOREM LoopOrder == Spec => []RunInOrder
<1>1. ASSUME Inv
      PROVE  RunInOrder
  <2> SUFFICES ASSUME NEW p \in Pusher, NEW t \in Loop
               PROVE  /\ ran[p][t] <= pushed[p][t]
                      /\ Numbers(p, Waiting(t)) = (ran[p][t] + 1) .. pushed[p][t]
                      /\ Ascending(p, Waiting(t))
    BY DEF RunInOrder
  <2> DEFINE b == batch[t]
             r == runnables[t]
             i == inbox[t]
             m == messages[t]
  <2>1. InTurn(p, b, r, i, m, ran[p][t], pushed[p][t])
    BY <1>1 DEF Inv, QueuesFine, InOrder
  <2>2. /\ b \in Seq(MessageType) /\ r \in Seq(MessageType)
        /\ i \in Seq(MessageType) /\ m \in Seq(MessageType)
    BY <1>1, ListsTyped DEF Inv
  <2> HIDE DEF b, r, i, m
  <2>3. /\ b \o r \in Seq(MessageType) /\ Ascending(p, b \o r)
        /\ Numbers(p, b \o r) = Numbers(p, b) \cup Numbers(p, r)
    BY <2>1, <2>2, ConcatInOrder DEF InTurn
  <2>4. Below(Numbers(p, b \o r), Numbers(p, i)) /\ Below(Numbers(p, b \o r), Numbers(p, m))
    BY <2>1, <2>3 DEF InTurn, Below
  <2>5. /\ (b \o r) \o i \in Seq(MessageType) /\ Ascending(p, (b \o r) \o i)
        /\ Numbers(p, (b \o r) \o i) = Numbers(p, b \o r) \cup Numbers(p, i)
    BY <2>1, <2>2, <2>3, <2>4, ConcatInOrder DEF InTurn
  <2>6. Below(Numbers(p, (b \o r) \o i), Numbers(p, m))
    BY <2>1, <2>4, <2>5 DEF InTurn, Below
  <2>7. /\ Ascending(p, ((b \o r) \o i) \o m)
        /\ Numbers(p, ((b \o r) \o i) \o m) = Numbers(p, (b \o r) \o i) \cup Numbers(p, m)
    BY <2>1, <2>2, <2>5, <2>6, ConcatInOrder DEF InTurn
  <2>8. Numbers(p, ((b \o r) \o i) \o m) = (ran[p][t] + 1) .. pushed[p][t]
    BY <2>1, <2>3, <2>5, <2>7 DEF InTurn
  <2> QED
    BY <2>1, <2>7, <2>8 DEF InTurn, Waiting, b, r, i, m
<1> QED
  BY <1>1, Invariant, PTL

\* The flag that PushRunnableSynchronous has on its stack is never set after
\* the call has returned, nor one call's flag by the runnable of another.
THEOREM LoopFlags == Spec => []FlagsAlive
<1>1. Inv => FlagsAlive
  BY DEF Inv, CallsFine
<1> QED
  BY <1>1, Invariant, PTL

\* PushRunnableSynchronous returns only when its runnable has run, whatever
\* wakes the caller up in between.
THEOREM LoopResults == Spec => CallsReturnResults
<1>1. ASSUME Inv, [Next]_vars
      PROVE  [\A c \in Loop : call[c] # NoCall /\ call'[c] = NoCall
                                => HasRun(call[c])]_vars
  <2> SUFFICES ASSUME Next, NEW c \in Loop, call[c] # NoCall, call'[c] = NoCall
               PROVE  HasRun(call[c])
    BY <1>1
  <2>1. call \in [Loop -> RunnableType \cup {NoCall}]
    BY <1>1 DEF Inv, TypeOK
  <2>2. Listen(c) /\ complete[c]
    <3>1. ASSUME UNCHANGED call
          PROVE  FALSE
      BY <3>1
    <3>2. ASSUME NEW d \in Loop, NEW t \in Loop, LockToCall(d, t)
          PROVE  FALSE
      BY <2>1, <3>2 DEF LockToCall, Runnable, NoCall
    <3>3. ASSUME NEW d \in Loop, Listen(d)
          PROVE  d = c /\ complete[c]
      BY <2>1, <3>3 DEF Listen, WaitOver
    <3> QED
      BY <3>1, <3>2, <3>3
      DEF Next, Cycle, Take, HandleMessage, AfterMessages, FinishTimer, Swap, StartRunnable,
          FinishRunnable, FinishBatch, GrabListenerLock, NotifyListeners,
          NewTimer, TimerExpires, Exit, PushRunnable, CallStep, PushToCall, FallAsleep,
          Relock, SpuriousWakeup, SuspendApp, UnsuspendApp, SuspendStep,
          PushSetSuspended, SuspendReturns, UnsuspendReturns, callVars
  <2> QED
    BY <1>1, <2>2 DEF Inv, CallsFine, ResultsIn
<1> QED
  BY <1>1, Invariant, PTL DEF Spec, CallsReturnResults

\* assert(!suspended_) and assert(suspended_) in Run_ hold.
THEOREM LoopSuspension == Spec => []SuspendAlternates
<1>1. ASSUME Inv
      PROVE  SuspendAlternates
  <2> SUFFICES ASSUME NEW t \in Loop, inbox[t] # <<>>
               PROVE  /\ Head(inbox[t]).type = "suspend" => ~suspended[t]
                      /\ Head(inbox[t]).type = "unsuspend" => suspended[t]
    BY DEF SuspendAlternates
  <2> DEFINE news == inbox[t] \o messages[t]
  <2>1. news \in Seq(MessageType) /\ news # <<>> /\ Head(news) = Head(inbox[t])
    <3>1. inbox[t] \in Seq(MessageType) /\ messages[t] \in Seq(MessageType)
      BY <1>1, ListsTyped DEF Inv
    <3>2. Suspend \in MessageType
      BY DEF MessageType
    <3> QED
      BY <3>1, <3>2, ConcatParts, Zenon
  <2>2. Alternate(Is(t), news, Told(t))
    BY <1>1 DEF Inv, SuspensionFine, Alternates
  <2> HIDE DEF news
  <2>3. \E c \in Mood : Follows(Is(t), Head(inbox[t]), c)
    BY <2>1, <2>2, AlternateTail
  <2> QED
    BY <2>3 DEF Follows, Is
<1> QED
  BY <1>1, Invariant, PTL

\* When SuspendApp has seen all loops suspended, a loop that is not at rest has
\* still to handle the message that brings it to rest.
THEOREM LoopParking == Spec => []ParkedOrToPark
<1>1. ASSUME Inv
      PROVE  ParkedOrToPark
  <2> SUFFICES ASSUME parked, NEW t \in Suspendable, Suspend \notin Messages(t)
               PROVE  suspended[t] /\ ~InBody(t)
    BY DEF ParkedOrToPark
  <2>1. t \in Loop /\ Told(t) = "parked"
    BY <1>1, LoopAssumption DEF Inv, SuspensionFine, AppShape, Told
  <2> DEFINE news == inbox[t] \o messages[t]
             k == Len(inbox[t])
             n == Len(messages[t])
  <2>2. messages[t] \in Seq(MessageType) /\ inbox[t] \in Seq(MessageType)
    BY <1>1, <2>1, ListsTyped DEF Inv
  <2>3. ASSUME NEW i \in 1 .. Len(news)
        PROVE  news[i].type # "suspend"
    <3>1. news[i] \in Messages(t) /\ news[i] \in MessageType
      <4>1. CASE i <= k
        <5>1. i \in DOMAIN inbox[t] /\ news[i] = inbox[t][i]
          BY <2>2, <4>1
        <5> QED
          BY <2>2, <5>1 DEF Messages, Range
      <4>2. CASE i > k
        <5>1. i - k \in DOMAIN messages[t] /\ news[i] = messages[t][i - k]
          <6>1. /\ Len(news) = k + n /\ k \in Nat /\ n \in Nat
                /\ DOMAIN messages[t] = 1 .. n
            BY <2>2
          <6>2. i \in 1 .. (k + n)
            BY <6>1
          <6>3. news[i] = IF i <= k THEN inbox[t][i] ELSE messages[t][i - k]
            BY <2>2, <6>2, ConcatProperties
          <6> HIDE DEF news, k, n
          <6> QED
            BY <4>2, <6>1, <6>2, <6>3
        <5> QED
          BY <2>2, <5>1 DEF Messages, Range
      <4> QED
        BY <2>2, <4>1, <4>2
    <3> HIDE DEF news
    <3> QED
      BY <3>1, MessageKinds DEF Suspend, Unsuspend
  <2>4. Alternate(Is(t), news, "parked") /\ news \in Seq(MessageType)
    BY <1>1, <2>1, <2>2, ConcatParts, MessageKinds DEF Inv, SuspensionFine, Alternates
  <2> HIDE DEF news
  <2>5. Is(t) = "parked"
    BY <2>3, <2>4, AlternateNoSuspend
  <2> QED
    BY <1>1, <2>1, <2>5 DEF Is, Inv, Stages, InBody
<1> QED
  BY <1>1, Invariant, PTL

=============================================================================
