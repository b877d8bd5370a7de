----------------------------- MODULE HostTimers -----------------------------
(***************************************************************************)
(* How time passes in a HostSession and in its HostActivities: the base    *)
(* clock of the session with its list of timers, among them one for each   *)
(* scene that steps it; in each step the scene's own timers, by its own    *)
(* clock (scene_v1/support/host_session.cc, host_activity.cc).             *)
(*                                                                         *)
(* One thread does all this.  What makes it hard is that the runnables are *)
(* Python code: while one runs, in the middle of one list or of two, it    *)
(* may set and delete timers, pause, change the speed and start activities.*)
(***************************************************************************)
EXTENDS TimerList

CONSTANTS
  Activity,    \* host activities
  Session,     \* the session, as what has a scene
  Step,        \* kGameStepMilliseconds
  Advances,    \* what Update may be asked to advance by
  Lengths,     \* lengths of timers that Python sets
  Speeds,      \* game speeds, as the time between two steps; Never for 0
  MaxTime,     \* bound: the base clock
  MaxTimers,   \* bound: timers that Python sets
  MaxChanges   \* bound: changes of speed, pauses and their ends

ASSUME StepAssumption == Step \in Nat \ {0} /\ Session \notin Activity

ASSUME SpeedAssumption ==
  /\ Speeds \subseteq (Nat \ {0}) \cup {Never} /\ Step \in Speeds
  /\ Lengths \subseteq Nat /\ Advances \subseteq Nat

ASSUME BoundAssumption == MaxTime \in Nat /\ MaxTimers \in Nat /\ MaxChanges \in Nat

Scene == Activity \cup {Session}

VARIABLES
  at,         \* where the thread is, see below
  baseTime,   \* base_time_millisecs_
  target,     \* target_base_time_millisecs, in Update
  base,       \* base_timers_
  sim,        \* sim_timers_ and the activities' scene_timers_
  sceneTime,  \* the time of each scene
  toRun,      \* timers_to_run of the list of each scene that is being run, and
              \* of base_timers_
  started, paused, speed, alive,  \* of each activity
  stepId,     \* step_scene_timer_id_
  owned,      \* session_base_timer_ids_
  deleted,    \* history: the timers that were deleted, by list
  ranNow,     \* history: those that ran since the list's clock last changed
  made, changes  \* counters for the bounds

activityVars == <<started, paused, speed, alive, stepId, owned>>
counters == <<made, changes>>
vars == <<at, baseTime, target, base, sim, sceneTime, toRun, activityVars,
          deleted, ranNow, counters>>

(* "rest": outside of Update.  "advance": in the loop of Update.  "base": in  *)
(* Run of base_timers_.  "sim": in StepScene of some scene, in Run of its     *)
(* timers.  "step": in the rest of StepScene.                                 *)

\* The two kinds of runnables of base timers; those of sim timers are calls.
StepOf(c) == [type |-> "step", of |-> c]
CallOf(c) == [type |-> "call", of |-> c]

\* The scene whose step timer is out.
Stepping == base.client.what.of

\* Python code may be running: what a timer calls, what is told of nodes that
\* are out of bounds or collide in a step, and anything outside of Update.
InPython ==
  \/ at = "rest"
  \/ at = "base" /\ base.client # NoTimer
  \/ at = "sim" /\ sim[Stepping].client # NoTimer
  \/ at = "step"

Living == {Session} \cup {a \in Activity : alive[a]}

Init ==
  /\ at = "rest" /\ baseTime = 0 /\ target = 0
  /\ base = NewTimer(EmptyList, 0, Step, TRUE, StepOf(Session))
  /\ sim = [c \in Scene |-> EmptyList]
  /\ sceneTime = [c \in Scene |-> 0]
  /\ toRun = [base |-> 0, sim |-> 0]
  /\ started = [a \in Activity |-> FALSE]
  /\ paused = [a \in Activity |-> FALSE]
  /\ speed = [a \in Activity |-> Step]
  /\ alive = [a \in Activity |-> TRUE]
  /\ stepId = [a \in Activity |-> 0]
  /\ owned = [a \in Activity |-> {}]
  /\ deleted = [base |-> {}, sim |-> [c \in Scene |-> {}]]
  /\ ranNow = [base |-> {}, sim |-> [c \in Scene |-> {}]]
  /\ made = 0 /\ changes = 0

-----------------------------------------------------------------------------
(* HostSession::Update.                                                    *)

SetBaseTime(time) ==
  /\ baseTime' = time
  /\ ranNow' = IF time = baseTime THEN ranNow ELSE [ranNow EXCEPT !.base = {}]

\* Update is called with the time since it was called last.
Update(advance) ==
  /\ at = "rest"
  /\ baseTime + advance <= MaxTime
  /\ target' = baseTime + advance
  /\ at' = "advance"
  /\ UNCHANGED <<baseTime, base, sim, sceneTime, toRun, activityVars, deleted,
                 ranNow, counters>>

TimerIsDue ==
  base.active # <<>> /\ baseTime + TimeToNextExpire(base, baseTime) <= target

\* The clock goes to where the next timer expires, and Run begins.
NextMoment ==
  /\ at = "advance"
  /\ TimerIsDue
  /\ SetBaseTime(baseTime + TimeToNextExpire(base, baseTime))
  /\ toRun' = [toRun EXCEPT !.base = GetExpiredCount(base, baseTime')]
  /\ at' = "base"
  /\ UNCHANGED <<target, base, sim, sceneTime, activityVars, deleted, counters>>

\* A round of Run: the runnable of the next timer that has expired is called,
\* if there still is one.  That of a step timer is StepScene.
RunTimer ==
  /\ at = "base" /\ base.client = NoTimer /\ toRun.base > 0
  /\ \/ /\ HasExpired(base, baseTime)
        /\ base' = GetExpiredTimer(base, baseTime)
        /\ ranNow' = [ranNow EXCEPT !.base = @ \cup {base'.client.id}]
        /\ LET what == base'.client.what IN
           \/ what.type = "call" /\ UNCHANGED <<at, toRun>>
           \/ /\ what.type = "step"
              /\ at' = "sim"
              /\ toRun' = [toRun EXCEPT !.sim =
                             GetExpiredCount(sim[what.of], sceneTime[what.of])]
     \/ /\ ~HasExpired(base, baseTime)
        /\ toRun' = [toRun EXCEPT !.base = @ - 1]
        /\ UNCHANGED <<at, base, ranNow>>
  /\ UNCHANGED <<baseTime, target, sim, sceneTime, activityVars, deleted, counters>>

\* The runnable returns.
TimerReturns ==
  /\ base' = SubmitTimer(base)
  /\ toRun' = [toRun EXCEPT !.base = @ - 1]

CallReturns ==
  /\ at = "base" /\ base.client # NoTimer
  /\ TimerReturns
  /\ UNCHANGED <<at, baseTime, target, sim, sceneTime, activityVars, deleted,
                 ranNow, counters>>

\* Mutant: only the timers that expire are looked through.
StillThere(ids) == {id \in ids : id \in {t.id : t \in Range(base.active)}}

\* PruneSessionBaseTimers: ids of timers that are gone are forgotten.
PruneSessionBaseTimers(ids) == ids \cap Existing(base)

\* Update returns.  Activities that were started count the time, and some have
\* waited long enough to prune.
EndUpdate ==
  /\ at' = "rest" /\ target' = 0
  /\ \E prune \in SUBSET {a \in Activity : started[a] /\ alive[a]} :
       owned' = [a \in Activity |->
                   IF a \in prune THEN PruneSessionBaseTimers(owned[a]) ELSE owned[a]]
  /\ UNCHANGED <<started, paused, speed, alive, stepId>>

\* Mutant: the time is lost when timers have taken too long.
SkipAhead ==
  /\ at = "base" /\ base.client = NoTimer /\ toRun.base = 0
  /\ \/ /\ at' = "advance" /\ UNCHANGED <<target, baseTime, activityVars, ranNow>>
     \/ EndUpdate /\ SetBaseTime(target)
  /\ UNCHANGED <<base, sim, sceneTime, toRun, deleted, counters>>

\* Run returns.  If timers have taken too long, the clock stays where it is.
EndMoment ==
  /\ at = "base" /\ base.client = NoTimer /\ toRun.base = 0
  /\ \/ /\ at' = "advance" /\ UNCHANGED <<target, activityVars>>
     \/ EndUpdate
  /\ UNCHANGED <<baseTime, base, sim, sceneTime, toRun, deleted, ranNow,
                 counters>>

\* Nothing more is due: the clock goes to where Update was aiming for.
ReachTarget ==
  /\ at = "advance"
  /\ ~TimerIsDue
  /\ SetBaseTime(target)
  /\ EndUpdate
  /\ UNCHANGED <<base, sim, sceneTime, toRun, deleted, counters>>

-----------------------------------------------------------------------------
(* StepScene of a session or an activity.                                  *)

\* A round of Run of the scene's timers.
RunSimTimer ==
  LET c == Stepping IN
  /\ at = "sim" /\ sim[c].client = NoTimer /\ toRun.sim > 0
  /\ \/ /\ HasExpired(sim[c], sceneTime[c])
        /\ sim' = [sim EXCEPT ![c] = GetExpiredTimer(@, sceneTime[c])]
        /\ ranNow' = [ranNow EXCEPT !.sim[c] = @ \cup {sim'[c].client.id}]
        /\ UNCHANGED toRun
     \/ /\ ~HasExpired(sim[c], sceneTime[c])
        /\ toRun' = [toRun EXCEPT !.sim = @ - 1]
        /\ UNCHANGED <<sim, ranNow>>
  /\ UNCHANGED <<at, baseTime, target, base, sceneTime, activityVars, deleted,
                 counters>>

SimCallReturns ==
  LET c == Stepping IN
  /\ at = "sim" /\ sim[c].client # NoTimer
  /\ sim' = [sim EXCEPT ![c] = SubmitTimer(@)]
  /\ toRun' = [toRun EXCEPT !.sim = @ - 1]
  /\ UNCHANGED <<at, baseTime, target, base, sceneTime, activityVars, deleted,
                 ranNow, counters>>

\* Run returns; nodes step, those out of bounds and those that collide tell.
BeginStep ==
  /\ at = "sim" /\ sim[Stepping].client = NoTimer /\ toRun.sim = 0
  /\ at' = "step"
  /\ UNCHANGED <<baseTime, target, base, sim, sceneTime, toRun, activityVars,
                 deleted, ranNow, counters>>

\* The scene's clock goes on by a step, and StepScene returns.
FinishStep ==
  /\ at = "step"
  /\ sceneTime' = [sceneTime EXCEPT ![Stepping] = @ + Step]
  /\ ranNow' = [ranNow EXCEPT !.sim[Stepping] = {}]
  /\ at' = "base"
  /\ TimerReturns
  /\ UNCHANGED <<baseTime, target, sim, activityVars, deleted, counters>>

-----------------------------------------------------------------------------
(* What Python code may do.                                                *)

MaySet(length, repeat) == made < MaxTimers /\ (repeat => length # 0)

\* A base timer, set in the context of the session or of an activity.  It is
\* set by the clock of the session's scene, not by the base clock.
NewBaseTimer(c, length, repeat) ==
  /\ InPython /\ c \in Living /\ MaySet(length, repeat)
  /\ base' = NewTimer(base, sceneTime[Session], length, repeat, CallOf(c))
  /\ owned' = [a \in Activity |->
                 IF a = c THEN owned[a] \cup {base.nextId} ELSE owned[a]]
  /\ made' = made + 1
  /\ UNCHANGED <<at, baseTime, target, sim, sceneTime, toRun, started, paused,
                 speed, alive, stepId, deleted, ranNow, changes>>

NewSimTimer(c, length, repeat) ==
  /\ InPython /\ c \in Living /\ MaySet(length, repeat)
  /\ sim' = [sim EXCEPT ![c] = NewTimer(@, sceneTime[c], length, repeat, CallOf(c))]
  /\ made' = made + 1
  /\ UNCHANGED <<at, baseTime, target, base, sceneTime, toRun, activityVars,
                 deleted, ranNow, changes>>

\* Python lets go of a timer that it holds: it holds none of those that step.
DeleteBaseTimer(t) ==
  /\ InPython
  /\ t \in Waiting(base) \cup Out(base)
  /\ t.what.type = "call" /\ t.what.of \in Living
  /\ base' = DeleteTimers(base, {t.id})
  /\ deleted' = [deleted EXCEPT !.base = @ \cup {t.id}]
  /\ UNCHANGED <<at, baseTime, target, sim, sceneTime, toRun, activityVars, ranNow,
                 counters>>

DeleteSimTimer(c, t) ==
  /\ InPython /\ c \in Living
  /\ t \in Waiting(sim[c]) \cup Out(sim[c])
  /\ sim' = [sim EXCEPT ![c] = DeleteTimers(@, {t.id})]
  /\ deleted' = [deleted EXCEPT !.sim[c] = @ \cup {t.id}]
  /\ UNCHANGED <<at, baseTime, target, base, sceneTime, toRun, activityVars, ranNow,
                 counters>>

\* SetBaseTimerLength.
SetBaseTimerLength(list, id, length) ==
  IF id \in Existing(list) THEN SetLength(list, id, length, baseTime) ELSE list

\* UpdateStepTimerLength.
StepTimerSet(list, id, isPaused, length) ==
  SetBaseTimerLength(list, id, IF isPaused THEN Never ELSE length)

\* HostActivity::Start.
Start(a) ==
  /\ InPython /\ alive[a] /\ ~started[a]
  /\ started' = [started EXCEPT ![a] = TRUE]
  /\ base' = StepTimerSet(NewTimer(base, sceneTime[Session], Step, TRUE, StepOf(a)),
                          base.nextId, paused[a], speed[a])
  /\ stepId' = [stepId EXCEPT ![a] = base.nextId]
  /\ owned' = [owned EXCEPT ![a] = @ \cup {base.nextId}]
  /\ UNCHANGED <<at, baseTime, target, sim, sceneTime, toRun, paused, speed, alive,
                 deleted, ranNow, counters>>

MayChange(a) == InPython /\ alive[a] /\ changes < MaxChanges

SetPaused(a) ==
  /\ MayChange(a)
  /\ paused' = [paused EXCEPT ![a] = ~@]
  /\ base' = IF started[a] THEN StepTimerSet(base, stepId[a], ~paused[a], speed[a])
             ELSE base
  /\ changes' = changes + 1
  /\ UNCHANGED <<at, baseTime, target, sim, sceneTime, toRun, started, speed, alive,
                 stepId, owned, deleted, ranNow, made>>

SetGameSpeed(a, s) ==
  /\ MayChange(a)
  /\ s # speed[a]
  /\ speed' = [speed EXCEPT ![a] = s]
  /\ base' = IF started[a] THEN StepTimerSet(base, stepId[a], paused[a], s) ELSE base
  /\ changes' = changes + 1
  /\ UNCHANGED <<at, baseTime, target, sim, sceneTime, toRun, started, paused, alive,
                 stepId, owned, deleted, ranNow, made>>

\* The destructor of an activity.  One that was started is expired by an app
\* timer, outside of Update; one that was not goes with the last reference.
Die(a) ==
  /\ InPython /\ alive[a]
  /\ started[a] => at = "rest"
  /\ alive' = [alive EXCEPT ![a] = FALSE]
  /\ base' = DeleteTimers(base, owned[a])
  /\ deleted' = [deleted EXCEPT !.base = @ \cup owned[a]]
  /\ owned' = [owned EXCEPT ![a] = {}]
  /\ sim' = [sim EXCEPT ![a] = Clear(@)]
  /\ UNCHANGED <<at, baseTime, target, sceneTime, toRun, started, paused, speed,
                 stepId, ranNow, counters>>

-----------------------------------------------------------------------------
Next ==
  \/ \E advance \in Advances : Update(advance)
  \/ NextMoment \/ RunTimer \/ CallReturns \/ EndMoment \/ ReachTarget
  \/ RunSimTimer \/ SimCallReturns \/ BeginStep \/ FinishStep
  \/ \E c \in Scene, length \in Lengths, repeat \in BOOLEAN :
       NewBaseTimer(c, length, repeat) \/ NewSimTimer(c, length, repeat)
  \/ \E t \in Waiting(base) \cup Out(base) : DeleteBaseTimer(t)
  \/ \E c \in Scene : \E t \in Waiting(sim[c]) \cup Out(sim[c]) : DeleteSimTimer(c, t)
  \/ \E a \in Activity :
       Start(a) \/ SetPaused(a) \/ Die(a) \/ \E s \in Speeds : SetGameSpeed(a, s)

Spec == Init /\ [][Next]_vars

-----------------------------------------------------------------------------
(* Properties.                                                             *)

Kind == [type : {"call", "step"}, of : Scene]
TimerType ==
  [id : Nat \ {0}, length : Nat \cup {Never}, repeat : BOOLEAN, last : Nat,
   expire : Nat \cup {Never}, dead : BOOLEAN, what : Kind]

ListType ==
  [active : Seq(TimerType), inactive : Seq(TimerType),
   client : TimerType \cup {NoTimer}, nextId : Nat \ {0}]

ASSUME NoTimerAssumption == NoTimer \notin TimerType

\* The ids of a list's timers differ.
Distinct(s) == \A i, j \in DOMAIN s : s[i].id = s[j].id => i = j

\* A list is in the order of expiry, the timers that never expire are where
\* they belong, every timer is in one place, and only the one that is out can
\* be marked.
ListOK(list) ==
  /\ list \in ListType
  /\ \A t \in Range(list.active) : t.length # Never
  /\ \A t \in Range(list.inactive) : t.length = Never
  /\ \A i, j \in DOMAIN list.active :
       i < j => list.active[i].expire <= list.active[j].expire
  /\ Distinct(list.active) /\ Distinct(list.inactive)
  /\ \A t \in Range(list.active), u \in Range(list.inactive) : t.id # u.id
  /\ \A t \in Waiting(list) : ~t.dead /\ \A u \in Out(list) : t.id # u.id
  /\ \A t \in Waiting(list) \cup Out(list) : t.id < list.nextId

\* Both lists stay lists, whatever is done to them while they are being run.
TypeOK ==
  /\ at \in {"rest", "advance", "base", "sim", "step"}
  /\ baseTime \in 0 .. MaxTime /\ target \in 0 .. MaxTime
  /\ ListOK(base) /\ \A c \in Scene : ListOK(sim[c])
  /\ sceneTime \in [Scene -> Nat]
  /\ toRun \in [base : Nat, sim : Nat]
  /\ started \in [Activity -> BOOLEAN] /\ paused \in [Activity -> BOOLEAN]
  /\ speed \in [Activity -> Speeds] /\ alive \in [Activity -> BOOLEAN]
  /\ stepId \in [Activity -> Nat] /\ owned \in [Activity -> SUBSET Nat]
  /\ made \in 0 .. MaxTimers /\ changes \in 0 .. MaxChanges

\* The clock of the session's scene, by which base timers are set, and the base
\* clock, by which they expire, are at most a step apart however long timers
\* take.  No timer that waits is late by more than a step: not one that is set
\* or changed while its list is run, nor the step timer of an activity that
\* was paused for long, which would catch up in a burst.
Punctual ==
  /\ sceneTime[Session] <= baseTime /\ baseTime <= sceneTime[Session] + Step
  /\ \A t \in Range(base.active) : baseTime <= t.expire + Step
  /\ \A c \in Living : \A t \in Range(sim[c].active) : sceneTime[c] <= t.expire + Step

\* A timer that is taken out, of base_timers_ and of the timers of c.
BaseTaken == base.client = NoTimer /\ base'.client # NoTimer
SimTaken(c) == sim[c].client = NoTimer /\ sim'[c].client # NoTimer

\* The FIXME in TimerList::Run: Run counts what has expired before it begins,
\* so a timer that deletes others leaves a round for one that already ran.  No
\* timer runs twice at one time of its clock all the same.
OncePerMoment ==
  [][/\ BaseTaken => base'.client.id \notin ranNow.base
     /\ \A c \in Scene : SimTaken(c) => sim'[c].client.id \notin ranNow.sim[c]]_vars

\* A timer that was deleted does not run again, if it was deleted while it
\* waited, while it ran, or with the activity that set it.
DeletedNeverRuns ==
  [][/\ BaseTaken => base'.client.id \notin deleted.base
     /\ \A c \in Scene : SimTaken(c) => sim'[c].client.id \notin deleted.sim[c]]_vars

\* The scene of an activity that is paused, stands still or is gone takes no
\* step, though it may have been paused in the moment its step was due, or in
\* its own step.
PausedStill ==
  [][\A a \in Activity :
       BaseTaken /\ base'.client.what = StepOf(a) =>
         alive[a] /\ ~paused[a] /\ speed[a] # Never]_vars

\* An activity leaves no timer behind in its session: what it forgot to own
\* (PruneSessionBaseTimers) would call into what is gone.
NoOrphans ==
  \A t \in Waiting(base) \cup {u \in Out(base) : ~u.dead} : t.what.of \in Living
=============================================================================
