------------------------------ MODULE TimerList ------------------------------
(***************************************************************************)
(* Class TimerList with its timers (shared/generic/timer_list.cc), as      *)
(* functions from a list to the next.  A list has the timers that wait, by *)
(* when they expire, those that never do, and the one that is out: while   *)
(* its runnable runs it is on neither list, and the runnable may do        *)
(* anything to the list, to this timer too.                                *)
(***************************************************************************)
EXTENDS Integers, Sequences, FiniteSets, Functions

CONSTANT NoTimer  \* nullptr

Never == -1       \* the length of a timer that never expires

EmptyList == [active |-> <<>>, inactive |-> <<>>, client |-> NoTimer, nextId |-> 1]

\* How many timers, from the first on, expire by then: the next expires later.
\* Run may take a timer out that often.
GetExpiredCount(list, time) ==
  CHOOSE n \in 0 .. Len(list.active) :
    /\ \A i \in 1 .. n : list.active[i].expire <= time
    /\ n < Len(list.active) => list.active[n + 1].expire > time

InsertBehind(s, n, t) == SubSeq(s, 1, n) \o <<t>> \o SubSeq(s, n + 1, Len(s))

\* AddTimer: behind all that expire no later.
AddTimer(list, t) ==
  IF t.length = Never THEN [list EXCEPT !.inactive = <<t>> \o @]
  ELSE [list EXCEPT !.active = InsertBehind(@, GetExpiredCount(list, t.expire), t)]

\* NewTimer; what says whose runnable it is.
NewTimer(list, now, length, repeat, what) ==
  AddTimer([list EXCEPT !.nextId = @ + 1],
           [id |-> list.nextId, length |-> length, repeat |-> repeat, last |-> now,
            expire |-> now + length, dead |-> FALSE, what |-> what])

\* The timers that wait, on either list.
Waiting(list) == Range(list.active) \cup Range(list.inactive)

Out(list) == IF list.client = NoTimer THEN {} ELSE {list.client}

\* The ids for which GetTimer has an answer.
Existing(list) ==
  {t.id : t \in Waiting(list)} \cup {t.id : t \in {u \in Out(list) : ~u.dead}}

\* A list without some timers; the others stay in their order.
Without(s, ids) ==
  LET kept == {i \in DOMAIN s : s[i].id \notin ids}
      places == 1 .. Cardinality(kept)
      place == CHOOSE f \in Bijection(places, kept) :
                 \A i, j \in places : i < j => f[i] < f[j]
  IN [i \in places |-> s[place[i]]]

\* PullTimer, of every timer with one of these ids.
PullTimers(list, ids) ==
  [list EXCEPT !.active = Without(@, ids), !.inactive = Without(@, ids)]

\* Mutant: the timer that is out is not looked for.
DeleteWaiting(list, ids) == PullTimers(list, ids)

\* DeleteTimer, of one timer after another: the one that is out is marked, to
\* be gone when it comes back.
DeleteTimers(list, ids) ==
  LET left == PullTimers(list, ids) IN
  IF \E t \in Out(list) : t.id \in ids THEN [left EXCEPT !.client.dead = TRUE] ELSE left

HasExpired(list, time) == GetExpiredCount(list, time) > 0

\* GetExpiredTimer, when there is one.
GetExpiredTimer(list, time) ==
  [list EXCEPT !.client = [Head(list.active) EXCEPT !.last = time], !.active = Tail(@)]

\* Mutant: "no drift", the branch that is switched off.
SubmitWithoutDrift(list) ==
  LET t == list.client
      back == [list EXCEPT !.client = NoTimer] IN
  IF t.dead \/ ~t.repeat THEN back
  ELSE AddTimer(back, [t EXCEPT !.expire = t.expire + t.length])

\* SubmitTimer, when the runnable has returned.
SubmitTimer(list) ==
  LET t == list.client
      back == [list EXCEPT !.client = NoTimer] IN
  IF t.dead \/ ~t.repeat THEN back
  ELSE AddTimer(back, [t EXCEPT !.expire = t.last + t.length])

\* TimeToNextExpire, when a timer waits that expires.
TimeToNextExpire(list, now) ==
  IF Head(list.active).expire < now THEN 0 ELSE Head(list.active).expire - now

\* Mutant: the timer that is out keeps its length.
SetLengthOfWaiting(list, id, length, start) ==
  IF id \notin {t.id : t \in Waiting(list)} THEN list
  ELSE LET t == CHOOSE u \in Waiting(list) : u.id = id IN
       AddTimer(PullTimers(list, {id}),
                [t EXCEPT !.length = length, !.last = start, !.expire = start + length])

\* Mutant: the expiry is changed where the timer is.
SetLengthInPlace(list, id, length, start) ==
  LET Set(t) == IF t.id # id THEN t
                ELSE [t EXCEPT !.length = length, !.last = start, !.expire = start + length]
  IN [list EXCEPT !.active = [i \in DOMAIN @ |-> Set(@[i])],
                  !.inactive = [i \in DOMAIN @ |-> Set(@[i])],
                  !.client = IF @ = NoTimer \/ @.id # id THEN @
                             ELSE [@ EXCEPT !.length = length, !.last = start]]

\* Timer::SetLength with a start time, of a timer that exists: one that waits
\* is put where it now belongs, one that is out when it comes back.
SetLength(list, id, length, start) ==
  IF id \in {t.id : t \in Waiting(list)}
    THEN LET t == CHOOSE u \in Waiting(list) : u.id = id IN
         AddTimer(PullTimers(list, {id}),
                  [t EXCEPT !.length = length, !.last = start, !.expire = start + length])
    ELSE [list EXCEPT !.client.length = length, !.client.last = start]

\* Clear: all that waits is gone.
Clear(list) == [list EXCEPT !.active = <<>>, !.inactive = <<>>]
=============================================================================
