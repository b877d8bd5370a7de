------------------------------ MODULE EventLoop ------------------------------
(***************************************************************************)
(* The event loops that all threads of the engine run: class EventLoop of  *)
(* shared/foundation/event_loop.{h,cc}, and the part of SuspendApp and     *)
(* UnsuspendApp (base/base.cc) that parks the loops when the operating     *)
(* system is about to stop the process.                                    *)
(*                                                                         *)
(* A loop takes the messages other threads left for it, moves the          *)
(* runnables among them to its own list, runs due timers and then the      *)
(* list.  A thread may leave a runnable and go on, or leave it and sleep   *)
(* on the loop's condition variable until it has run.                      *)
(*                                                                         *)
(* What a runnable does is open: while its body runs the thread may push   *)
(* to any loop, call a loop synchronously, or set a timer.  What the main  *)
(* thread does at app start, before its loop runs, is such a body too.     *)
(* SuspendApp and UnsuspendApp are steps of the main thread, of which the  *)
(* loops see nothing but the messages.                                     *)
(***************************************************************************)
EXTENDS Integers, Sequences, FiniteSets, Functions

CONSTANTS
  Loop,         \* the threads that run an event loop
  Suspendable,  \* g_core->suspendable_event_loops
  Calls,        \* <<c, t>>: c may call loop t synchronously
  Outside,      \* stands for threads without a loop (network reader, OS)
  NoOne,        \* no holder of a mutex
  MayExit,      \* loops on which Exit() may be called
  MaxPushes,    \* bound: runnables that a thread pushes to a loop
  MaxTimers,    \* bound: timers that a loop sets
  MaxSuspends   \* bound: calls of SuspendApp

ASSUME LoopAssumption ==
  /\ Suspendable \subseteq Loop
  /\ Calls \subseteq Loop \X Loop /\ \A t \in Loop : <<t, t>> \notin Calls
  /\ Outside \notin Loop /\ NoOne \notin Loop
  /\ MayExit \subseteq Loop

ASSUME BoundAssumption ==
  /\ MaxPushes \in [Loop \cup {Outside} -> [Loop -> Nat]]
  /\ MaxTimers \in [Loop -> Nat] /\ MaxSuspends \in Nat

Pusher == Loop \cup {Outside}

VARIABLES
  pc,          \* where each thread is
  messages,    \* thread_messages_: what other threads have left
  inbox,       \* the messages taken in this cycle and not yet looked at
  runnables,   \* runnables_
  batch,       \* what RunPendingRunnables_ has swapped out and not yet run
  suspended,   \* suspended_
  done,        \* done_
  notify,      \* do_notify_listeners
  mutex,       \* holder of client_listener_mutex_
  timer,       \* a timer of the loop: none, armed or due
  call,        \* the runnable that a synchronous caller waits for
  complete,    \* its completion flag
  untold,      \* loops that SetEventLoopsSuspended has still to tell
  app,         \* what SuspendApp and UnsuspendApp have come to
  parked,      \* SuspendApp has returned and did not time out
  pushed,      \* history: how many runnables each pusher left for each loop
  ran,         \* history: how many of them each loop has run
  timers,      \* history: timers set
  suspends     \* history: calls of SuspendApp

queueVars == <<messages, inbox, runnables, batch>>
callVars == <<mutex, call, complete>>
appVars == <<untold, app, parked, suspends>>
vars == <<pc, messages, inbox, runnables, batch, suspended, done, notify,
          mutex, timer, call, complete, untold, app, parked, pushed,
          ran, timers, suspends>>

-----------------------------------------------------------------------------
(* What is left for a loop.  A runnable is known by who pushed it, to      *)
(* which loop, and the how-manieth it is between the two.                  *)

Runnable(p, t, sync) ==
  [type |-> "runnable", by |-> p, to |-> t, n |-> pushed[p][t] + 1,
   sync |-> sync]

Suspend == [type |-> "suspend"]
Unsuspend == [type |-> "unsuspend"]

NoCall == [type |-> "none"]

\* A thread that does what its runnable or timer tells it to.
InBody(t) == pc[t] \in {"body", "timerBody"}

-----------------------------------------------------------------------------
Init ==
  /\ pc = [t \in Loop |-> "wait"]
  /\ messages = [t \in Loop |-> <<>>]
  /\ inbox = [t \in Loop |-> <<>>]
  /\ runnables = [t \in Loop |-> <<>>]
  /\ batch = [t \in Loop |-> <<>>]
  /\ suspended = [t \in Loop |-> FALSE]
  /\ done = [t \in Loop |-> FALSE]
  /\ notify = [t \in Loop |-> FALSE]
  /\ mutex = [t \in Loop |-> NoOne]
  /\ timer = [t \in Loop |-> "none"]
  /\ call = [t \in Loop |-> NoCall]
  /\ complete = [t \in Loop |-> FALSE]
  /\ untold = {}
  /\ app = "running"
  /\ parked = FALSE
  /\ pushed = [p \in Pusher |-> [t \in Loop |-> 0]]
  /\ ran = [p \in Pusher |-> [t \in Loop |-> 0]]
  /\ timers = [t \in Loop |-> 0]
  /\ suspends = 0

-----------------------------------------------------------------------------
(* Run_: one cycle of a loop.                                              *)

\* Mutant: runnables that runnables have added are forgotten.
WakesOnMessage(t) ==
  \/ messages[t] # <<>>
  \/ ~suspended[t] /\ timer[t] = "due"

Wakes(t) ==
  \/ messages[t] # <<>>
  \/ ~suspended[t] /\ (runnables[t] # <<>> \/ timer[t] = "due")

\* WaitForNextEvent_ returns: at once if there is something to run, else
\* when the next timer is due or a message is left.  The messages are taken
\* under thread_message_mutex_, under which they are also left, so that no
\* wake-up of thread_message_cv_ is lost.
Take(t) ==
  /\ pc[t] = "wait"
  /\ Wakes(t)
  /\ inbox' = [inbox EXCEPT ![t] = messages[t]]
  /\ messages' = [messages EXCEPT ![t] = <<>>]
  /\ pc' = [pc EXCEPT ![t] = "messages"]
  /\ UNCHANGED <<runnables, batch, suspended, done, notify, callVars, timer,
                 appVars, pushed, ran, timers>>

\* Mutant: every message is taken for a runnable.
WithRunnableAny(list, m) == Append(list, m)

WithRunnable(list, m) == IF m.type = "runnable" THEN Append(list, m) ELSE list

HandleMessage(t) ==
  /\ pc[t] = "messages"
  /\ inbox[t] # <<>>
  /\ LET m == Head(inbox[t]) IN
       /\ runnables' = [runnables EXCEPT ![t] = WithRunnable(@, m)]
       /\ suspended' = [suspended EXCEPT ![t] =
                          IF m.type = "runnable" THEN @ ELSE m.type = "suspend"]
  /\ inbox' = [inbox EXCEPT ![t] = Tail(@)]
  /\ UNCHANGED <<pc, messages, batch, done, notify, callVars, timer, appVars,
                 pushed, ran, timers>>

\* The end of a cycle: RunToCompletion waits again unless done_ is set.
EndOfCycle(t) == IF done[t] THEN "exited" ELSE "wait"

\* Mutant: a suspended loop runs on.
RestOfCycleAwake(t) == IF timer[t] = "due" THEN "timerBody" ELSE "swap"

RestOfCycle(t) ==
  IF suspended[t] THEN EndOfCycle(t)
  ELSE IF timer[t] = "due" THEN "timerBody" ELSE "swap"

\* All messages are handled: timers and runnables, or neither.
AfterMessages(t) ==
  /\ pc[t] = "messages"
  /\ inbox[t] = <<>>
  /\ pc' = [pc EXCEPT ![t] = RestOfCycle(t)]
  /\ UNCHANGED <<queueVars, suspended, done, notify, callVars, timer, appVars,
                 pushed, ran, timers>>

\* timers_.Run has called the due timer.
FinishTimer(t) ==
  /\ pc[t] = "timerBody"
  /\ timer' = [timer EXCEPT ![t] = "none"]
  /\ pc' = [pc EXCEPT ![t] = "swap"]
  /\ UNCHANGED <<queueVars, suspended, done, notify, callVars, appVars,
                 pushed, ran, timers>>

\* RunPendingRunnables_ pulls the list first: bodies may add to it.
Swap(t) ==
  /\ pc[t] = "swap"
  /\ batch' = [batch EXCEPT ![t] = runnables[t]]
  /\ runnables' = [runnables EXCEPT ![t] = <<>>]
  /\ notify' = [notify EXCEPT ![t] = FALSE]
  /\ pc' = [pc EXCEPT ![t] = "next"]
  /\ UNCHANGED <<messages, inbox, suspended, done, callVars, timer, appVars,
                 pushed, ran, timers>>

\* Mutant: the flag is set before the body runs.
StartRunnableFlagged(t) ==
  /\ pc[t] = "next"
  /\ batch[t] # <<>>
  /\ pc' = [pc EXCEPT ![t] = "body"]
  /\ complete' = [c \in Loop |-> complete[c] \/ (Head(batch[t]).sync
                                                  /\ c = Head(batch[t]).by)]
  /\ UNCHANGED <<queueVars, suspended, done, notify, mutex, call, timer,
                 appVars, pushed, ran, timers>>

StartRunnable(t) ==
  /\ pc[t] = "next"
  /\ batch[t] # <<>>
  /\ pc' = [pc EXCEPT ![t] = "body"]
  /\ UNCHANGED <<queueVars, suspended, done, notify, callVars, timer, appVars,
                 pushed, ran, timers>>

\* The body has returned: a synchronous caller's flag is set, without a lock.
FinishRunnable(t) ==
  LET r == Head(batch[t]) IN
  /\ pc[t] = "body"
  /\ batch' = [batch EXCEPT ![t] = Tail(@)]
  /\ ran' = [ran EXCEPT ![r.by][t] = @ + 1]
  /\ IF r.sync
       THEN /\ complete' = [complete EXCEPT ![r.by] = TRUE]
            /\ notify' = [notify EXCEPT ![t] = TRUE]
       ELSE UNCHANGED <<complete, notify>>
  /\ pc' = [pc EXCEPT ![t] = "next"]
  /\ UNCHANGED <<messages, inbox, runnables, suspended, done, mutex, call,
                 timer, appVars, pushed, timers>>

FinishBatch(t) ==
  /\ pc[t] = "next"
  /\ batch[t] = <<>>
  /\ pc' = [pc EXCEPT ![t] = IF notify[t] THEN "grab" ELSE EndOfCycle(t)]
  /\ UNCHANGED <<queueVars, suspended, done, notify, callVars, timer, appVars,
                 pushed, ran, timers>>

\* Mutant: the lock is not grabbed.
GrabNoLock(t) ==
  /\ pc[t] = "grab"
  /\ pc' = [pc EXCEPT ![t] = "notify"]
  /\ UNCHANGED <<queueVars, suspended, done, notify, callVars, timer, appVars,
                 pushed, ran, timers>>

\* "Momentarily grab this lock": whoever pushed with a flag is listening now.
GrabListenerLock(t) ==
  /\ pc[t] = "grab"
  /\ mutex[t] = NoOne
  /\ pc' = [pc EXCEPT ![t] = "notify"]
  /\ UNCHANGED <<queueVars, suspended, done, notify, callVars, timer, appVars,
                 pushed, ran, timers>>

\* client_listener_cv_.notify_all(): all sleepers on this loop wake up.
NotifyListeners(t) ==
  /\ pc[t] = "notify"
  /\ pc' = [u \in Loop |->
              IF u = t THEN EndOfCycle(t)
              ELSE IF pc[u] = "asleep" /\ call[u].to = t THEN "woken"
              ELSE pc[u]]
  /\ UNCHANGED <<queueVars, suspended, done, notify, callVars, timer, appVars,
                 pushed, ran, timers>>

Cycle(t) ==
  \/ Take(t) \/ HandleMessage(t) \/ AfterMessages(t) \/ FinishTimer(t)
  \/ Swap(t) \/ StartRunnable(t) \/ FinishRunnable(t) \/ FinishBatch(t)
  \/ GrabListenerLock(t) \/ NotifyListeners(t)

-----------------------------------------------------------------------------
(* Pushing.                                                                *)

\* Mutant: what is pushed is put in front of the others.
LeaveInFront(r) ==
  /\ IF r.by = r.to
       THEN /\ runnables' = [runnables EXCEPT ![r.to] = <<r>> \o @]
            /\ UNCHANGED messages
       ELSE /\ messages' = [messages EXCEPT ![r.to] = <<r>> \o @]
            /\ UNCHANGED runnables
  /\ pushed' = [pushed EXCEPT ![r.by][r.to] = @ + 1]

\* PushRunnable: a loop's own thread adds to the list, others leave a message.
Leave(r) ==
  /\ IF r.by = r.to
       THEN /\ runnables' = [runnables EXCEPT ![r.to] = Append(@, r)]
            /\ UNCHANGED messages
       ELSE /\ messages' = [messages EXCEPT ![r.to] = Append(@, r)]
            /\ UNCHANGED runnables
  /\ pushed' = [pushed EXCEPT ![r.by][r.to] = @ + 1]

PushRunnable(p, t) ==
  /\ IF p = Outside THEN TRUE ELSE InBody(p)
  /\ pushed[p][t] < MaxPushes[p][t]
  /\ Leave(Runnable(p, t, FALSE))
  /\ UNCHANGED <<pc, inbox, batch, suspended, done, notify, callVars, timer,
                 appVars, ran, timers>>

-----------------------------------------------------------------------------
(* PushRunnableSynchronous.  The listener lock is held from before the     *)
(* push until the caller sleeps on the condition variable.                 *)

LockToCall(c, t) ==
  /\ pc[c] = "body"
  /\ <<c, t>> \in Calls
  /\ pushed[c][t] < MaxPushes[c][t]
  /\ mutex[t] = NoOne
  /\ mutex' = [mutex EXCEPT ![t] = c]
  /\ call' = [call EXCEPT ![c] = Runnable(c, t, TRUE)]
  /\ complete' = [complete EXCEPT ![c] = FALSE]
  /\ pc' = [pc EXCEPT ![c] = "push"]
  /\ UNCHANGED <<queueVars, suspended, done, notify, timer, appVars, pushed,
                 ran, timers>>

PushToCall(c) ==
  /\ pc[c] = "push"
  /\ Leave(call[c])
  /\ pc' = [pc EXCEPT ![c] = "listen"]
  /\ UNCHANGED <<inbox, batch, suspended, done, notify, callVars, timer,
                 appVars, ran, timers>>

\* Mutant: a wait without a predicate.
WaitOverAnyway(c) == TRUE

WaitOver(c) == complete[c]

\* wait(lock, predicate): the caller looks at the flag and the call is over,
\* or it goes to sleep.  The lock is held, but the flag is set without it.
Listen(c) ==
  /\ pc[c] = "listen"
  /\ IF WaitOver(c)
       THEN /\ pc' = [pc EXCEPT ![c] = "body"]
            /\ mutex' = [mutex EXCEPT ![call[c].to] = NoOne]
            /\ call' = [call EXCEPT ![c] = NoCall]
       ELSE /\ pc' = [pc EXCEPT ![c] = "tired"]
            /\ UNCHANGED <<mutex, call>>
  /\ UNCHANGED <<queueVars, suspended, done, notify, complete, timer, appVars,
                 pushed, ran, timers>>

\* The lock is given up in the moment of falling asleep.
FallAsleep(c) ==
  /\ pc[c] = "tired"
  /\ mutex' = [mutex EXCEPT ![call[c].to] = NoOne]
  /\ pc' = [pc EXCEPT ![c] = "asleep"]
  /\ UNCHANGED <<queueVars, suspended, done, notify, call, complete, timer,
                 appVars, pushed, ran, timers>>

\* After a notification the waiter needs the lock again.
Relock(c) ==
  /\ pc[c] = "woken"
  /\ mutex[call[c].to] = NoOne
  /\ mutex' = [mutex EXCEPT ![call[c].to] = c]
  /\ pc' = [pc EXCEPT ![c] = "listen"]
  /\ UNCHANGED <<queueVars, suspended, done, notify, call, complete, timer,
                 appVars, pushed, ran, timers>>

\* Condition variables may wake up for no reason.
SpuriousWakeup(c) ==
  /\ pc[c] = "asleep"
  /\ pc' = [pc EXCEPT ![c] = "woken"]
  /\ UNCHANGED <<queueVars, suspended, done, notify, callVars, timer, appVars,
                 pushed, ran, timers>>

-----------------------------------------------------------------------------
(* Timers and Exit.                                                        *)

NewTimer(t) ==
  /\ pc[t] = "body"
  /\ timer[t] = "none"
  /\ timers[t] < MaxTimers[t]
  /\ timer' = [timer EXCEPT ![t] = "armed"]
  /\ timers' = [timers EXCEPT ![t] = @ + 1]
  /\ UNCHANGED <<pc, queueVars, suspended, done, notify, callVars, appVars,
                 pushed, ran>>

TimerExpires(t) ==
  /\ timer[t] = "armed"
  /\ timer' = [timer EXCEPT ![t] = "due"]
  /\ UNCHANGED <<pc, queueVars, suspended, done, notify, callVars, appVars,
                 pushed, ran, timers>>

\* Called from a body of the loop; it ends after this cycle.
Exit(t) ==
  /\ t \in MayExit
  /\ pc[t] = "body"
  /\ ~done[t]
  /\ done' = [done EXCEPT ![t] = TRUE]
  /\ UNCHANGED <<pc, queueVars, suspended, notify, callVars, timer, appVars,
                 pushed, ran, timers>>

-----------------------------------------------------------------------------
(* Suspending the app.                                                     *)

\* Mutant: app_suspended_ is not looked at.
MaySuspendAgain == app \in {"running", "suspended"}

MaySuspend == app = "running"

\* What comes before in SuspendApp is a wait that ends after a second.
SuspendApp ==
  /\ MaySuspend
  /\ suspends < MaxSuspends
  /\ app' = "suspending"
  /\ untold' = Suspendable
  /\ suspends' = suspends + 1
  /\ UNCHANGED <<pc, queueVars, suspended, done, notify, callVars, timer,
                 parked, pushed, ran, timers>>

UnsuspendApp ==
  /\ app = "suspended"
  /\ app' = "unsuspending"
  /\ untold' = Suspendable
  /\ parked' = FALSE
  /\ UNCHANGED <<pc, queueVars, suspended, done, notify, callVars, timer,
                 suspends, pushed, ran, timers>>

\* SetEventLoopsSuspended calls PushSetSuspended on one loop after the other.
PushSetSuspended(t) ==
  /\ t \in untold
  /\ messages' = [messages EXCEPT ![t] =
                    Append(@, IF app = "suspending" THEN Suspend ELSE Unsuspend)]
  /\ untold' = untold \ {t}
  /\ UNCHANGED <<pc, inbox, runnables, batch, suspended, done, notify,
                 callVars, timer, app, parked, suspends, pushed, ran, timers>>

\* GetStillSuspendingEventLoops
StillSuspending == {t \in Suspendable : ~suspended[t]}

\* SuspendApp returns when no loop is still suspending, or after two seconds.
SuspendReturns ==
  /\ app = "suspending"
  /\ untold = {}
  /\ app' = "suspended"
  /\ parked' = (StillSuspending = {})
  /\ UNCHANGED <<pc, queueVars, suspended, done, notify, callVars, timer,
                 untold, suspends, pushed, ran, timers>>

UnsuspendReturns ==
  /\ app = "unsuspending"
  /\ untold = {}
  /\ app' = "running"
  /\ UNCHANGED <<pc, queueVars, suspended, done, notify, callVars, timer,
                 untold, parked, suspends, pushed, ran, timers>>

-----------------------------------------------------------------------------
CallStep(c) ==
  \/ \E t \in Loop : LockToCall(c, t)
  \/ PushToCall(c) \/ Listen(c) \/ FallAsleep(c) \/ Relock(c)

SuspendStep ==
  (\E t \in Loop : PushSetSuspended(t)) \/ SuspendReturns \/ UnsuspendReturns

Next ==
  \/ \E t \in Loop : Cycle(t) \/ NewTimer(t) \/ TimerExpires(t) \/ Exit(t)
  \/ \E p \in Pusher, t \in Loop : PushRunnable(p, t)
  \/ \E c \in Loop : CallStep(c) \/ SpuriousWakeup(c)
  \/ SuspendApp \/ UnsuspendApp \/ SuspendStep

Spec == Init /\ [][Next]_vars

\* Every thread is scheduled, bodies return, locks that are given up again
\* and again are got, the clock moves on.
Fairness ==
  /\ \A t \in Loop :
       /\ WF_vars(Cycle(t))
       /\ SF_vars(GrabListenerLock(t))
       /\ WF_vars(TimerExpires(t))
       /\ WF_vars(PushToCall(t) \/ Listen(t) \/ FallAsleep(t))
       /\ SF_vars(Relock(t))
  /\ WF_vars(SuspendStep)

FairSpec == Spec /\ Fairness
-----------------------------------------------------------------------------
(* Properties.                                                             *)

Messages(t) == Range(messages[t]) \cup Range(inbox[t])

\* Runnables that were left for t and have not run to their end.
Pending(t) == {m \in Messages(t) : m.type = "runnable"}
                \cup Range(runnables[t]) \cup Range(batch[t])

HasRun(r) == r.n <= ran[r.by][r.to]

RunnableType ==
  [type : {"runnable"}, by : Pusher, to : Loop, n : Nat \ {0}, sync : BOOLEAN]
MessageType == RunnableType \cup {Suspend, Unsuspend}

\* What the state is made of, over all places a thread can be in.
TypeOK ==
  /\ pc \in [Loop -> {"wait", "messages", "timerBody", "swap", "next", "body",
                      "grab", "notify", "exited", "push", "listen", "tired",
                      "asleep", "woken"}]
  /\ messages \in [Loop -> Seq(MessageType)]
  /\ inbox \in [Loop -> Seq(MessageType)]
  /\ runnables \in [Loop -> Seq(RunnableType)]
  /\ batch \in [Loop -> Seq(RunnableType)]
  /\ suspended \in [Loop -> BOOLEAN] /\ done \in [Loop -> BOOLEAN]
  /\ notify \in [Loop -> BOOLEAN]
  /\ mutex \in [Loop -> Loop \cup {NoOne}]
  /\ timer \in [Loop -> {"none", "armed", "due"}]
  /\ call \in [Loop -> RunnableType \cup {NoCall}]
  /\ complete \in [Loop -> BOOLEAN]
  /\ untold \subseteq Suspendable
  /\ app \in {"running", "suspending", "suspended", "unsuspending"}
  /\ parked \in BOOLEAN
  /\ pushed \in [Pusher -> [Loop -> Nat]]
  /\ ran \in [Pusher -> [Loop -> Nat]]
  /\ timers \in [Loop -> Nat] /\ suspends \in Nat

\* The places of p's runnables in a list, and their numbers.
OfPusher(p, list) == {i \in DOMAIN list : list[i].type = "runnable" /\ list[i].by = p}
Numbers(p, list) == {list[i].n : i \in OfPusher(p, list)}
Ascending(p, list) == \A i, j \in OfPusher(p, list) : i < j => list[i].n < list[j].n

\* What was left for t and has not run to its end, in the order it will run.
Waiting(t) == batch[t] \o runnables[t] \o inbox[t] \o messages[t]

\* What one thread leaves for one loop runs in the order it was left, nothing
\* twice and nothing skipped: two lists, a swap of each and a suspension lie
\* between PushRunnable and RunPendingRunnables_.
RunInOrder ==
  \A p \in Pusher, t \in Loop :
    /\ ran[p][t] <= pushed[p][t]
    /\ Numbers(p, Waiting(t)) = (ran[p][t] + 1) .. pushed[p][t]
    /\ Ascending(p, Waiting(t))

\* The completion flag is a local variable of PushRunnableSynchronous: as long
\* as a loop holds a runnable with a flag its caller is still in that call.
FlagsAlive ==
  \A t \in Loop : \A r \in Pending(t) :
    r.sync => /\ call[r.by] = r
              /\ pc[r.by] \in {"listen", "tired", "asleep", "woken"}
              /\ ~complete[r.by]

\* A synchronous call returns only when the called loop has run the runnable
\* to its end, however often its condition variable wakes up.
CallsReturnResults ==
  [][\A c \in Loop : call[c] # NoCall /\ call'[c] = NoCall
                       => HasRun(call[c])]_vars

\* assert(!suspended_) and assert(suspended_) in Run_: a loop is never told
\* twice in a row to suspend, nor twice to go on.
SuspendAlternates ==
  \A t \in Loop :
    pc[t] = "messages" /\ inbox[t] # <<>> =>
      /\ Head(inbox[t]).type = "suspend" => ~suspended[t]
      /\ Head(inbox[t]).type = "unsuspend" => suspended[t]

\* When SuspendApp has returned because no loop was still suspending, the
\* operating system may stop the process: no suspendable loop is at work.
ParkedLoopsRest == parked => \A t \in Suspendable : suspended[t] /\ ~InBody(t)

\* After that a loop that is not at rest has a kSuspend before it, and comes
\* to rest when it handles it; a loop that was awake is at rest already.
ParkedOrToPark ==
  parked => \A t \in Suspendable :
    Suspend \in Messages(t) \/ (suspended[t] /\ ~InBody(t))

Suspended == app \in {"suspending", "suspended"}

\* Some runnable that was left for t has not run.
Owes(t) == \E p \in Pusher : ran[p][t] < pushed[p][t]

\* A runnable that is left for a loop runs in the end, unless the loop ends
\* or the app is suspended for good: no wake-up is lost.  Pushes are bounded,
\* so a loop that has run all it was left owes nothing from then on.
EveryRunnableRuns ==
  \A t \in Loop : [](Owes(t) => <>(~Owes(t) \/ done[t] \/ []Suspended))

\* A synchronous call returns in the end, unless the app is suspended for good:
\* the notification cannot come between the push and the moment the caller
\* listens.
CallsReturn ==
  \A c \in Loop :
    [](call[c] # NoCall =>
         <>(call[c] = NoCall \/ done[call[c].to] \/ []Suspended))
=============================================================================
