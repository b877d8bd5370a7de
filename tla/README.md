# Ballistica: a TLA+ model of its concurrent and networked core

Ballistica is a game engine: C++ threads that exchange messages through event
loops, a Python layer above them, and parties of players connected over UDP.
The parts that are hard to test are the ones below that line: what threads do to
each other when they interleave, and what a connection does when packets are
lost, repeated and late. This directory models those parts from the source.
Paths below are relative to `src/ballistica/` of the repository unless they
start with another directory.

## Inventory

| Part | State | Operations | Interaction | Hard behaviour | Correct when |
|---|---|---|---|---|---|
| Reliable transport, `scene_v1/connection/connection.{h,cc}` | next numbers in and out (`uint16_t`), records of sent messages, held messages, times | send, resend, ack, keepalive, prune, error | both ends run it; called by the connection set | loss, repetition, reordering, wrap of numbers, pruning | each message once and in order; resends end and suffice |
| Large messages, same file and `connection_to_client.cc` | `multipart_buffer_` | cut, reassemble, refuse | on top of the transport | limits, refusal in the middle | messages arrive whole |
| Connection set and handshake, `connection_set.cc`, `connection_to_{client,host}*.cc` | connections by id, request ids, protocol version, timeouts | request, accept, deny, handshake, disconnect | network reader pushes calls; session reacts | retries, late answers, reused ids, full party | both ends agree who is in the party, or give up |
| Event loops, `shared/foundation/event_loop.{h,cc}` | two lists, flags, two mutexes and condition variables | push, call, timer, suspend, exit | every thread pushes to every other | interleaving, lost wake-ups, suspension | in order, exactly once, calls return |
| App suspension, `base/base.cc` | `app_suspended_` | `SuspendApp`, `UnsuspendApp` | messages to the suspendable loops; network reader | the process is stopped when the call returns | loops are parked before it returns |
| Timer list, `shared/generic/timer_list.cc` | sorted list, the timer that is out | run, submit, delete, set length | run by loops, sessions and scenes | a timer changes the list it is run from | each due timer once per pass, none after it was deleted |
| Network reader and writer, `base/networking/` | sockets, `paused_` | poll, pause, poke | own thread; pushes to logic | pause against opening sockets | the reader sleeps while suspended |
| Assets, `base/assets/` | preload and load queues, replay file | preload, load, write replay | logic, assets, audio and graphics threads | write errors, framing | a replay reads back as written |
| Logic thread and app lifecycle, `base/logic/logic.cc`, `base/base.cc`, `assets/ba_data/python/babase/_app.py` | active state, shutdown counts, app state | activate, suspend, shut down | main and logic thread, Python | flip-flops, shutdown against suppression | states are applied in order, shutdown ends |
| Graphics, `base/graphics/` | one slot for a frame definition, settings | draw, render | logic and graphics thread | the slot between two threads | one frame at a time |
| Audio, `base/audio/` | sources, locks | play, stop, fade | logic and audio thread | source reuse | a source is used by one sound |
| Input and the remote controller server, `base/input/` | devices, remote clients | join, state, ack | UDP, logic thread | reordering, reuse of slots | presses and releases in order |
| Background dynamics, scene, nodes, physics | simulation state | step | logic thread, own thread | numeric | out of TLC's reach |
| User interface, `base/ui/`, `ui_v1/`, Python `bauiv1*` | widget tree | layout, events | logic thread | none concurrent | not a protocol |
| Sessions and streams, `scene_v1/support/` | slots of the host, pending commands, slots and commands of a client, saved states of a replay | write, ship, join, correct, run, rewind, seek | connections, replay writer | joining in the middle of a moment, reuse of slots, seeking | a client sees the host's moments, whole and in order |
| Classic mode, `classic/` | roster, kick votes | vote, ban | connection set | votes against leaving | one vote each |
| Python sessions, `bascenev1/` | activities, players, lobby | join, leave, transition | logic thread, timers | callbacks that end what calls them | one activity at a time |
| Reinforcement learning, `rl_env.py`, `rl_train.py`, `rl/controller.py` | episode, game | reset, step; UDP client | logic thread; remote server | waiting for one's own event loop | an episode starts and ends |
| Support: `tools/efro`, server wrapper, build tools, vendored code | | | | | |

`PROJECT.json` lists every part with the reason why it is not modelled, and
under "hazards" the places in the modelled parts where the code can go wrong in a
way a test would hardly reach, with the property that covers it. Known hazards of parts that no module models yet: a poke that comes
before the network reader has opened its socket is lost
(`base/networking/network_reader.cc:196`); the logic thread reads the app's active
state when a call arrives, not the one it was pushed for
(`base/logic/logic.cc:719`); shutdown may begin between the test for a suppression
and the suppression (`base/base.cc:892`); one slot for frame definitions between two
threads (`base/graphics/graphics_server.cc:36`); `reset()` of the learning
environment polls for what only its own thread's event loop can start
(`assets/ba_data/python/rl_env.py:300`). Two by design: a loop with more than
10000 messages ends the process (`event_loop.cc:538`), and two loops that call one
another synchronously would wait for ever (`event_loop.cc:675`; no caller does).

## Modules

| Module | What it is |
|---|---|
| `ReliableChannels` | abstract: what `connection.h` promises, two lossless ordered channels |
| `Connection` | class `Connection` at both ends, and the network between |
| `ConnectionProofs` | theorems about `Connection`: order, what it implements, acks, and the place of unreliable messages |
| `Multipart` | large messages on top of an ordered channel |
| `MultipartProofs` | theorems about `Multipart` |
| `EventLoop` | class `EventLoop`, `SuspendApp` and `UnsuspendApp` |
| `EventLoopProofs` | theorems about `EventLoop` |
| `Party` | `ConnectionSet` and the UDP connections it keeps: who is in whose party |
| `PartyProofs` | theorems about `Party`: seats and members, request ids and client ids |
| `ClientSession` | the interpreter of session commands, as functions from a session to the next |
| `Broadcast` | abstract: those who follow a host are shown its moments, whole and in order |
| `SessionStream` | a host's output stream with its session and its clients |
| `FoldProofs` | what is so of a fold over a sequence, whatever its operator |
| `SessionStreamProofs` | theorems about `SessionStream` |
| `Replay` | the replay writer of the assets thread, a player of the file, and clients that watch along |
| `ReplayProofs` | theorems about `Replay`: the writer and its file, the player, and those who watch |
| `TimerList` | class `TimerList`, as functions from a list to the next |
| `HostTimers` | the clocks and timers of a host session and its activities |
| `HostTimersProofs` | theorems about `HostTimers` and the operations of `TimerList` |
| `MCConnection`, `MCMultipart`, `MCEventLoop`, `MCParty`, `MCSessionStream`, `MCReplay`, `MCHostTimers` | values for TLC |

The modules compose by their interfaces: `Connection` implements
`ReliableChannels` (checked and proved), and `Multipart` assumes exactly such a
channel, in one direction, that hands on a run of messages at a time. `Party`
decides when a connection exists, when it may communicate and when it has errored,
which `Connection` takes as given (its `canComm`, `errored` and `dying`).
`SessionStream` and `Replay` send over the channels that `Connection` implements, and
run at their ends the interpreter of `ClientSession`; the calls of `Replay` are
runnables of an `EventLoop`, run in order. `SessionStream` implements `Broadcast`.
`HostTimers` runs the lists of `TimerList`, one inside the other; the steps and the
times that it has are the `SetTime` of `SessionStream`.

### Connection

Every variable is a function of the end it belongs to: `nextOut`, `out`,
`nextIn`, `in` and so on are the members of the class without their underscore.
`SendReliableMessage`, `SendUnreliableMessage`, `Update` and the three
`Receive...` actions are the methods, each with all it calls: `HandleResends`
with its early end and its Error, `ProcessWaitingMessages`, the acks embedded by
every packet. `canComm`, `errored` and `dying` are the flags by which the rest of
the program steers the transport; an end that errored or is being destroyed
ignores what arrives, as both subclasses do.

Abstractions, all on the side of more behaviour:

- Content. The k-th reliable message has the content k.
- Time. A clock comparison is a flag that an action of its own sets: a record
  becomes `ripe` for a resend at any time, an end becomes `quiet` at any time,
  and any `Update` may prune, since its interval is far shorter than the age it
  prunes at. The back-off that doubles the resend time only makes ripe later.
  Records are pruned oldest first because send times grow; held messages in any
  combination because they may arrive in any order.
- Network. A set of packets for each end; a packet may be lost, handled, or
  handled and kept to arrive again. Any order.
- Handlers. What `HandleMessagePacket` sends is a send that follows. In the code
  it goes out in the middle of the run, with acks that count the message in
  hand as not yet received; such an ack is one that could have been sent a
  little earlier and been delayed.
- Pruning on or off is a constant (`PruneAllowed`). Off means: what happens
  within the ten seconds before anything is old enough.
- Not modelled: Huffman compression, statistics, ping, malformed packets.

`Young` is an assumption about the environment, not a guard of the code: fewer
than `Window` messages are sent while anything older is still about (under way,
held, recorded or not yet delivered), with `Window + AckBits < NumCount`. The
code relies on it by counting to 65536 and pruning after ten seconds. Without it
no protocol with finite numbers could be right.

### Multipart

A byte is a pair (message, place), so that a mix-up would be visible. The host's
limit on `multipart_buffer_` applies to middle parts only, as in the code, and an
Error does not stop the run of messages that `ProcessWaitingMessages` is in: the
rest of a run reaches the handlers of a client that was just refused.
`OnlyWholeMessages` therefore speaks of connections that have not errored. Nested
multiparts, which only a foreign program sends, are left out.

### EventLoop

`pc` says where each thread is in `Run_` or in `PushRunnableSynchronous`.

| Actions | Code |
|---|---|
| `Take`, `HandleMessage`, `AfterMessages` | `WaitForNextEvent_`, `GetThreadMessages_`, the message loop of `Run_` |
| `FinishTimer`, `TimerExpires`, `NewTimer` | `TimerList::Run`, reduced to one timer for each loop |
| `Swap`, `StartRunnable`, `FinishRunnable`, `FinishBatch`, `GrabListenerLock`, `NotifyListeners` | `RunPendingRunnables_` step by step, as its lock and its flag can be seen by others in between |
| `PushRunnable` | `PushRunnable` from the loop's own thread, from another loop, or from a thread without a loop |
| `LockToCall`, `PushToCall`, `Listen`, `FallAsleep`, `Relock`, `SpuriousWakeup` | `PushRunnableSynchronous` and what `condition_variable::wait` does |
| `SuspendApp`, `PushSetSuspended`, `SuspendReturns`, `UnsuspendApp`, `UnsuspendReturns` | `base.cc`, one message at a time to the suspendable loops |
| `Exit` | `EventLoop::Exit` |

A body (of a runnable or a timer) is open: while it runs, its thread may push,
call or set a timer. The two steps of pushing a message, lock and notify, are one
because the receiver waits with a predicate under the same mutex. The main
thread calls other loops only at app start, before its own loop runs; here that
start is a runnable like others. `SuspendApp` first waits for up to a second for
the logic thread to apply the active state; that wait always ends and changes
nothing here. Left out: the Python GIL, suspend callbacks, single cycles, which
have no caller, `kShutdown`, which nothing pushes, and the limit of 10000 messages.

### Party

Every app runs the same code, so every variable is a function of the app: `link`
is `connection_to_host_`, `seats` is `connections_to_clients_`, `calls` the
lambdas of this class that wait in the logic event loop, in order (`EventLoop`
says that they are run so). `net` holds the packets under way.

| Actions | Code |
|---|---|
| `ConnectToParty`, `DisconnectFromParty`, `DisconnectClient`, `PrepareForLaunchHostSession` | what Python may ask for at any time, `acts` times |
| `RunConnect`, `RunLeave`, `RunClear`, `RunGone` | the lambdas of the four `Push...Call` methods, run when their turn comes |
| `UpdateLink`, `UpdateSeat` | `Update` of the two UDP connections, with all they send and `Die` |
| `LinkSilence`, `SeatSilence` | the timeout has passed since the last game packet |
| `ReceiveRequest`, `ReceiveDisconnectFromClient`, `ReceiveClientGame` | `HandleIncomingUDPPacket` at a host, with the connection's `HandleGamePacket` |
| `ReceiveAccept`, `ReceiveDeny`, `ReceiveDisconnect`, `ReceiveHostGame` | the same at a client |
| `Drop` | packets that none of these take |

Abstractions:

- An app's address and its instance uuid are the app itself. A change of
  address during a connection is left out.
- Loss is in `Transmit`, which keeps any part of what is sent; repetition is the
  flag `again` of `Receive`; the order is free. `NetCap` bounds what is under
  way when more is sent.
- Time. What is sent at intervals is sent in every `Update`, loss included.
  Silence may come whenever no game packet that would break it is under way:
  this assumes that no packet lives for the five seconds of the timeout.
- Game packets are told apart as handshake, response (with a matching version or
  not), disconnect and data. Whether a response passes the checks of the host,
  and whether data makes `Connection` raise an Error, is a choice.
- Request ids do not come round within the bounds (`IdAssumption`); that their
  counter starts anew is modelled. The 151 values that it may start from are one.
- Client ids do come round: a host may give out more seats than it has ids. The
  counter goes on by one for each seat, whether or not the id that it gave was
  ahead of its turn, and starts again at 0; ids in use are passed over (`FreeId`).
- Left out: the denial by which old hosts made a client switch its protocol, the
  ack of a host's goodbye, which nobody waits for, and the party's own messages.

### ClientSession

A session is a record and every operation a function: `HandleSessionMessage` with
`AddCommand`, which holds commands back until the step that completes their
moment, `Update`, which runs commands up to some step, `Reset`, and the two ways a
session can tell of itself, `DumpFullState` and `GetCorrectionMessages`.

- A slot is a pair of a kind and an index. Of the kinds of media one stands for
  all: their commands differ in what is loaded. Of the commands on nodes, one
  that sets an attribute to refer to something, or to nothing, stands for those
  that do; those that set a number or play a sound change nothing that is looked
  up later. A correction is known by the nodes it was made for, which the code
  does not know: `mixed` is the history of a mix-up.
- A command that finds its slot empty, or full where it must be empty (an assert),
  ends the session, as an exception in `Update` does.
- The target time decides how far `Update` runs; here it may be any step.
- Left out: `GetActualTimeAdvance` and the adjustment of speed by `ClientSessionNet`,
  the lists of old slots, buffered sounds, screen messages.

### SessionStream

`host` is the session and its stream: what is in each slot, the lists of free
indices, `out`, the commands that are pending. `NewScene` to `DeleteNode` are what a
host does to its scenes, `SetTime` a step with what is due to be shipped (by real
time, so any choice), `OnClientConnected` with what is pending, dump and corrections,
`LaunchHostSession` the old session taken down and its clients taken over by the
stream of the new one. `promised` is the history of what a client is owed: a moment
for each step after it joined, and a cut where it starts anew.

A new object takes the index that was freed last, or a new one if none is free. What
is removed with a scene, and what is dumped, comes kind by kind as in the code, and
within a kind in an order that the proofs do not use. The host sets no
limit to an index, but a client's `Update` ends its session at one that is too
large (`MaxIndex`, by kind). That the host stays below it is an assumption about
the games that run there: `IndexLeft`, a guard of whatever makes an object, says
that there are no more objects of a kind than a client has indices for. The
assumption is about objects and not about indices: that a host which makes and
removes objects for ever never comes past the limit, as it takes free indices
first, is for `NoClientErrors` to show.

Left out: players, sounds, materials' components, attribute connections, the
recording of the stream (that is `Replay`), the flush of commands at a size limit,
which is a shipment like others.

### Replay

`tape` is the session that records, `calls` the assets thread's queue, `writer` the
members of `AssetsServer` that are about replays, `disk` the file, `player` a
`ClientSessionReplay`, `watchers` its connections.

| Actions | Code |
|---|---|
| `StartRecording`, `Record`, `StopRecording` | the three `Push...` calls by `SessionStream` or `ClientSessionNet` |
| `RunBegin`, `RunAddMessage`, `RunEnd` | their lambdas, with every failure of the file |
| `Process` | `Process_` as far as it writes |
| `LaunchReplaySession`, `EndReplaySession` | the player's constructor with its first reset, and its destructor |
| `ReadMessage`, `ReadGarbage`, `ReadEnd` | a round of the loop of `FetchMessages`; at the end the command that rewinds, which is run at once |
| `RunMoment` | the commands up to a step, after which the loop of `Update` may end |
| `SeekTo` | `SeekTo` with `RestoreFromCurrentState` |
| `OnClientConnected`, `OnClientDisconnected` | those of `ClientSessionReplay` |
| `Receive`, `UpdateSession` | the session of one who watches along |

- A file is its header and its entries, an entry the form of its length and its
  message. A write that fails leaves the rest of an entry missing. While the
  writer has the file open, the reader may or may not see what was written.
- Sizes are classes: below 254, up to 65534, 65535 itself (`edge`), above.
- What may be recorded is what a session that works sends or is sent: by
  `ScriptAssumption` the beginnings of a script all run without an error
  (`Works`), and nothing dangles when a moment is complete (`Homes`), as
  `NoClientErrors` and the proofs of `SessionStream` say of a host.
- A player is not started while the call that begins a file waits to be run.
- A length of the wrong width leads to the end of the file or to an error; that
  the bytes might happen to be a message is left out.

### TimerList and HostTimers

A list has its active and its inactive timers and the one that is out while its
runnable runs. `HostTimers` has such a list for the session (`base_timers_`) and
one for each scene, and `at` says where the thread is: outside of `Update`, in its
loop, in `Run` of the base timers, in `StepScene` of the scene whose step timer is
out, there in `Run` of the scene's timers or after it.

| Actions | Code |
|---|---|
| `Update`, `NextMoment`, `EndMoment`, `ReachTarget` | `HostSession::Update`; `EndMoment` may find that timers took too long |
| `RunTimer`, `CallReturns`, `RunSimTimer`, `SimCallReturns` | the rounds of `TimerList::Run` |
| `BeginStep`, `FinishStep` | the rest of `StepScene`, with `Scene::Step` |
| `NewBaseTimer`, `NewSimTimer`, `DeleteBaseTimer`, `DeleteSimTimer` | those of `HostActivity` and `HostSession` |
| `Start`, `SetPaused`, `SetGameSpeed`, `Die` | `HostActivity`, with `UpdateStepTimerLength` |

- Python code may run wherever the engine calls it, and may do any of the last two
  rows, in any context, as often as the bounds allow (`InPython`).
- An activity that was started dies outside of `Update`: Python expires it from an app
  timer (`assets/ba_data/python/bascenev1/_session.py:596`). Therefore no list dies
  while one of its timers is out, which `list_died_` in the code provides for.
- A game speed is the length that the step timer gets for it, of which speed 0 is
  `Never`. Pruning may be due at the end of any `Update`.
- Left out: what a scene does in a step, the output stream (that is
  `SessionStream`), idle players, `DebugSpeedMultChanged`, which is a change of
  speed like others, and the benchmark that steps a hundred times.

## What is checked

| Run | Instance | States | Shows |
|---|---|---|---|
| `connection` | 4 numbers from 3, one ack bit, window 2, 5 messages from the host, pruning | 235 175 | `TypeOK`, `DeliveredInOrder`, `NumbersIdentify`, `ImplementsChannels` |
| `connection_unpruned` | 5 numbers, window 3, 2 reliable messages, one unreliable at a time | 449 931 | `AckedIsHeld`, `NeverTooOld`, `UnreliableInPlace` |
| `connection_live` | 2 messages, fairness, the host may be destroyed | 10 634 | `Delivery` |
| `event_loop` | main and logic, a push or a call from one to the other, a thread that starts main, two pushes of logic to itself and a timer, 2 suspensions, Exit, fairness | 98 402 | `TypeOK`, `RunInOrder`, `FlagsAlive`, `SuspendAlternates`, `ParkedOrToPark`, `CallsReturnResults`, `EveryRunnableRuns`, `CallsReturn` |
| `event_loop_park` | 2 suspensions | small | violation of `ParkedLoopsRest`, see Findings |
| `party` | a guest, a host that may join another party, that other host; 3 calls from Python, 3 seats from 2 client ids, 2 packets | 2 231 255 | `TypeOK`, `AnswersAreMine`, `MembersJoined`, `SeatsKept`, `FreshIds` |
| `party_live` | a guest with 2 calls and a party with room for one, fairness | 8 520 | `LeaversGo`, `NoGhosts` |
| `party_full` | the same with one call | small | violation of `AcceptedAgain`, see Findings |
| `multipart` | sizes 1 to 9, packets of 3, limit 4, 2 messages | 2 130 | `OnlyWholeMessages`, `LimitIsFair` |
| `stream` | two clients alike (symmetry), 5 changes, steps, joins or new sessions, steps up to 2, bytes modulo 3, two indices of each kind | 243 577 | `TypeOK`, `NoClientErrors`, `CorrectionsFit`, `PromiseKept`, `ImplementsBroadcast` |
| `replay` | two recordings of up to 4 messages, one error of the file system, one player, two seeks, one joiner, one message more in the queue than may wait | 1 054 239 | `TypeOK`, `FileIsRecording`, `PlaysTrue`, `WatchersFollow` |
| `host_timers` | one activity, steps of 2, frames of 2 up to time 4, two timers that last 0 or 1, two changes of speed or pauses | 920 501 | `TypeOK`, `Punctual`, `NoOrphans`, `OncePerMoment`, `DeletedNeverRuns`, `PausedStill` |

Why these bounds are enough. `connection` sends five messages through four
numbers that start at the last one, so that the numbers wrap at once and come
round; window 2 is the largest with one ack bit and keeps a gap and a held
message possible; two packets may be under way when another is sent. With the
theorems below, the run serves to show the reader that the interesting cases
happen. One unreliable message between reliable ones at a time, repeated and
delayed at will, is enough to be out of place in every way `UnreliableInPlace`
excludes. In `event_loop` the loop that is called is also the one that is
suspended, and has a timer and runnables of its own, two of which show their order;
two suspensions are the fewest that let a message of one be handled after the start
of the next. That run is small because it has to do for liveness; the safety
properties are proved for any size. The sizes of `multipart` cover a message that is sent whole, one
that fills its last part exactly and one with a byte over, and cross the limit.

In `party` the guest may go from one party to another, or leave and come back;
the host has two places and as many client ids, of which the second is the one
after the wrap, and gives out three seats, so that the third has the id of the first;
it may throw the guest out or leave for a party itself, so that old and new
connections of each kind meet the packets of one another. The other host gives out
no seat and so never accepts; it is there to be asked while answers of the first
host are late. With one guest at a time
no id is passed over because it is in use, and the limit of the party is not reached
in this run (it is in `party_full`); for these the theorems below hold with any
number of guests. `FreshIds` is about the seats of the first round of the ids: in
the third seat's step it claims nothing. In
`party_live` and `party_full` one guest fills the party. Calls
waiting in an event loop are bounded by one in each: a second would be the same
end pushed again. `party_live` has one packet under way at a time, as its
properties are about what becomes of an end when nothing arrives.

In `stream` five counted things are enough for a slot to be freed and used again
between a joiner's dump and its next step, for a reference to what is removed, for
steps that are cut, and for a second session over clients that lag behind; a
client may lag behind by any number of messages and run any number of steps at a
time. The last index that a client takes is 1 for each kind, so a host that did not
take freed indices again would soon come past it.

In `replay` the scripts have a scene built up, a node replaced in the same moment,
moments that are cut by the ends of messages, a reset, and a message of 65535 bytes.
States are saved at every moment, one of them in the middle of the next, and two
seeks go back to it and away again with a watcher who joins meanwhile. `MaxChannel`
bounds only when the player reads on: it plays in circles and would fill the channel
of one who does not listen.

In `host_timers` a frame is as long as a step. Timers that take too long end one
between steps, and from then on frames and steps cross. Two frames make room for a
pause long enough to be late after it; of two timers one may delete or precede the
other; two changes pause an activity and let it go on.

Deadlock checking is off in every run: the systems come to rest when the bounds
on what is sent, pushed and suspended are used up.

### Fairness

`Connection`: `Update` runs every frame (weak fairness), clocks go on (weak
fairness of the two time actions), and a packet that is sent again and again is
at last let through (strong fairness of the reception of a keepalive, and of each
message). No fairness of sending, handshake, loss, repetition or destruction.
Messages sent by the game need none: what is sent gets there through keepalives
and resends alone. `EventLoop`: each thread goes on (weak fairness of a cycle,
which includes that bodies return), timers expire, and a mutex that is given up
again and again is got at last (strong fairness of the two lock actions). No
fairness of pushes, spurious wake-ups, suspensions or unsuspensions: a property
that needs the app to go on says so (`[]Suspended`).

`SessionStream`, `Replay` and `HostTimers` have no liveness properties.

`Party`: `Update` runs every frame, calls that wait are run, clocks go on, and a
packet under way arrives (weak fairness of `Arrives` for each kind and
receiver). The disconnect request, which an errored link repeats every second,
gets under way again and again (strong fairness of `AsksToLeave`). Nothing else
that is sent is assumed to arrive: neither the goodbye of a client that is
thrown out nor any answer. No fairness of what Python asks for.

### Mutants

Every property of a passing run has a mutant: a definition of the module that
differs from the one it replaces as a plausible mistake in the code would, named
next to it (comment "Mutant"). TLC then finds that property violated.

## What is proved

`ConnectionProofs` holds for every `NumCount`, `FirstNum`, `Window`, `AckBits`,
every pair of ends and every bound, from the named assumptions of `Connection`:

- `TypeCorrect`: `Spec => []TypeOK`.
- `NumbersCorrect`: `Spec => []NumbersIdentify`.
- `Order`: `Spec => []DeliveredInOrder`.
- `Refinement`: `Spec => ImplementsChannels`.

`DeliveredInOrder` is not inductive: it says nothing of what is under way. The
strengthening `NumbersIdentify` adds that the counters are where the history
says (`CountersAgree`), and that whatever stands for a message, a record, a held
entry or a packet, is one of the last `Window` messages of its sender and bears
that message's number (`RecordsAgree`). The heart is then arithmetic: two
numbers of messages less than `NumCount` apart are equal only if the messages
are (`NumOfInjective`, from division with remainder). A held entry with the
wanted number lies within `Window` of the last message sent, and so does the
message wanted; both numbers are equal, so both messages are. A run of held
messages is therefore the run of messages that comes next (`AcceptInOrder`), and
each step maps to a `Send`, a `Deliver` or a stutter of `ReliableChannels`.

`Young` is used where a message is sent: all that was recent stays recent.

The module goes on from there:

- `UnreliableOrder`: `Spec => []UnreliableInPlace`.
- `AcksAreTrue`: `Spec => []AckedIsHeld`.
- `AcksNeverTooOld`: `Spec => []NeverTooOld`.

For the first, `UnreliableAgree` says of an unreliable message under way what
`RecordsAgree` says of a reliable one: it bears the number of the reliable message
that comes next, and so many messages have not been sent since that the number
could mean another. So a message that passes the test of its number is in its
place. What was handed on earlier lies before that place, or at it and below
`next_in_unreliable_message_num_`, which starts again when the place moves on.

The other two suppose, as the properties do, that nothing is pruned. `NothingLost`
says that every message sent is still on record, so that, by `Young`, no more than
`Window` were sent and no number means two messages (`Complete`); that an ack under
way says only what is so, however old it is (`TrueAck`), as what an end once had it
has for good, held or delivered (`AcceptKeeps`); and that a record counts as acked
only for a message that the other end has. Here `Window + AckBits < NumCount` is
needed: an ack speaks of numbers up to `AckBits` beyond those in use. The number
before the first one, which the first acks name, is nobody's (`BackNumOf`,
`NumOfWrap`). And the loop of `HandleResends` reaches the next number to be sent
before it could miss a record (`AckInTime`).

`MultipartProofs` holds for all sizes of messages, of packets and of the limit, from
`SizeAssumption`:

- `MultipartWhole`: `Spec => []OnlyWholeMessages`.
- `MultipartLimit`: `Spec => []LimitIsFair`.

A packet under way is a piece of a message that was sent, of the kind that its type
says (`Fits`): its first byte and its last tell between which two places it leads.
The packets of a message make a chain over the whole of it (`PacketsChained`, by
division with remainder), chains can be joined and cut, and the invariant is that
what is under way is a chain from where the receiver is, so many messages handled
and so many bytes in the buffer, to where the sender is (`OnTheWay`), while the buffer
is the beginning of the message that is awaited (`BufferFits`). After an Error only
the chain goes on; its beginning is then nowhere. A message is refused when more
than `MaxBuffer` bytes of it are in the buffer and a part comes that is not the last.

`PartyProofs` holds for every set of apps, every limit, number of ids and bound,
from `AppAssumption` and `IdAssumption`:

- `PartyTypes`: `Spec => []TypeOK`.
- `PartySeats`: `Spec => []SeatsKept`.
- `PartyMembers`: `Spec => []MembersJoined`.

The invariant `Inv` gives types to links, seats, calls and packets, and adds
`ResponsesJoined`, as `MembersJoined` says nothing of the responses under way: who
sent a response had joined by then, and nobody else sends one. `SeatsKept` is kept
because a seat is added in one place only, by a host that is not full, has no link
and has no seat for who asks; the id that it gets is free because it is the least
one that is (`Least`).

The module goes on from there:

- `PartyAnswers`: `Spec => []AnswersAreMine`.
- `PartyFreshIds`: `Spec => FreshIds`.
- `PartySeatsStand`: `Spec => SeatsStand`.

`FreshIds` is what holds of client ids: until the host has given out all of them
once (`FirstRound`), a newcomer's id is named by nothing under way. Afterwards the
code does give out an id that is still named (see Observations); without the
restriction TLC finds it. `SeatsStand` holds in every round: as long as an id has a
seat it is the same client's, so that nobody gets the place of a client who has been
there since the counter last came by. No run checks it, as with one guest at a host
nothing could break it.

A request id asks one host: whatever bears it, a request, an answer, a seat or the
link, names the same one (`OneHost`). This is kept because the counter of request
ids is past every id in use (`Used`). The code takes the counter modulo 256 and lets
it come round; the theorem holds as long as it does not, which `IdAssumption` says of
the bounds: no more connects than request ids. `Budget` says that the connects made
and still to be made fit. Every client id that anything speaks of was given out
before (`IdsGiven`): in the first round this means an id that the counter is past, so
the next one is spoken of by nothing; once the counter has come round it may be any
(`Given`), and only what concerns seats and request ids is kept. All actions but `RunConnect` and `AcceptNew` only repeat what was said
before (the `...Kept` lemmas).

`EventLoopProofs` holds for every set of loops, of callers and callees, of
suspendable loops and for every bound, from `LoopAssumption` and `BoundAssumption`
(a thread does not call itself synchronously; the suspendable loops are loops):

- `LoopTypes`: `Spec => []TypeOK`.
- `LoopOrder`: `Spec => []RunInOrder`.
- `LoopFlags`: `Spec => []FlagsAlive`.
- `LoopResults`: `Spec => CallsReturnResults`.
- `LoopSuspension`: `Spec => []SuspendAlternates`.
- `LoopParking`: `Spec => []ParkedOrToPark`.

Their invariant has four parts. `Stages` says which lists are empty where a thread
is. `InOrder` takes a runnable's way apart into the four lists it may wait in, the
list being run, `runnables_`, the messages taken and `thread_messages_`: what one
thread left for one loop ascends in each, what waits in one comes before what waits
in the next, and together they are the numbers between what was run and what was
pushed. From this the next to run is the next that was pushed (`RunIsNext`), and no
number waits twice; so a flag can be set only by the call that it belongs to,
while that call is still in `PushRunnableSynchronous` (`CallShape`, `ResultsIn`).
`Alternates` sees the messages that a loop still has to handle as a walk between
being parked and being awake, which starts where the loop is and ends where it has
last been told to be: such a walk takes turns, which are the asserts of `Run_`, and
if it ends parked then either the loop is at rest or a `kSuspend` is among the
messages (`AlternateNoSuspend`, by the least place where the walk changes), which
is `ParkedOrToPark`.

`HostTimersProofs` holds for every set of activities, every step, set of speeds, of
lengths and of advances and every bound, from `StepAssumption`, `SpeedAssumption`,
`BoundAssumption` and `NoTimerAssumption` (a step takes time, a speed is a positive
length or `Never`, `nullptr` is no timer):

- `ListsStayLists`: `Spec => []TypeOK`.
- `TimersArePunctual`: `Spec => []Punctual`.
- `NoTimerOutlivesActivity`: `Spec => []NoOrphans`.
- `RunsOncePerMoment`: `Spec => OncePerMoment`.
- `DeletedIsForever`: `Spec => DeletedNeverRuns`.
- `PausedScenesStandStill`: `Spec => PausedStill`.

The first part of the module says of each operation of `TimerList` what it does to a
list: where each timer of the new list was in the old one (`Added`, `Pulled`,
`Taken`, `Submitted`, `Deleted`, `Relengthed`), and that the list stays in order with
every timer in one place (`ListOK`). For `PullTimers` that needs a counting of what
stays in its order, which a set of places always has (`AllOrderable`, by the least
element).

The invariant `IInv`, which TLC checks on the instance of `host_timers` as well, has
these parts. `Fine` relates a list to its clock and to its history: a timer that has
run at this time of the clock and waits again expires later, which is why none runs
twice however many rounds `Run` has left; a timer that was deleted waits nowhere, and
is marked if it is out; ids are given in order, so no timer gets the id of one that
is gone. `WhoIsOut` ties the timer that is out to where the thread is, so that only
`Run` takes timers out (`BaseTakes`, `SimTakes`). `SessionSteps` says when the
session's step timer expires: one step after the time of the session's scene, and not
before the base clock. As `Update` never moves the clock past a timer that waits, the
two clocks stay within a step. `StepTimers` says that the step timer of an activity
has the length its pauses and speed ask for, wherever it is, so a paused one is never
among those that can be taken out. `Owners` says that whatever would call into an
activity is owned by it, which pruning keeps because it forgets only ids that no
timer has. `SimPunctual` gives the number of a scene's timers that may be late while
its list is run: as many as `Run` still takes out. A timer that is put in, or taken
away, leaves those that are late within that number, since it goes behind all that
expire no later.

`ReplayProofs` holds for everything that may be recorded, every set of watchers,
every limit of the queue and every bound, from `ScriptAssumption`:

- `CallsTakeTurns`: `Spec => []TypeOK`.
- `FileHasWhatItWasGiven`: `Spec => []FileIsRecording`.
- `ReplayPlays`: `Spec => []PlaysTrue`.
- `ReplayWatched`: `Spec => []WatchersFollow`.

That the writer is never broken is about calls that were pushed long before they are
run: `TakeTurns` says that beginnings and ends alternate in the queue of calls, that
the first call fits what the writer is at and the last one what the session that
records is at, so each call finds the writer as it needs it (`InTurn`). Of the file,
`FileInOrder` says that while it is open its entries and the queue together are what
is due, and that later its entries are the first of what was due, with a torn one
after them if a write failed (`AllWritten`, `SomeWritten`). `WriterInOrder` says that
what waits while no file is open was left there by an error. What the player does is
not used; it leaves all of that alone.

What a player makes of messages is compared to a play that knows no time, no queue and
no error (`Play`, `PlayMsg`): `Out` is the play, from what a session has, of the
commands that it has still to run, and `Cast` the play of messages from nothing. Such
a play stays well as long as each command fits, and then a session that hears the
same comes to the same (`Received`, `Updated`, `OneHeard`, `OutcomeThen`), a dump and
corrections make what there was if it was complete (`Remade`, `Retold`), and
corrections alone change nothing (`Corrected`). The argument then has three parts,
each an invariant on top of those before:

- `AsExpected`: the file that is written begins as something that may be recorded
  begins, although messages wait as calls, then in the queue, and then a failure may
  leave them there. It folds over the calls that wait what the writer will have been
  given when it has run them. So what is in the file at any place works (`AtWorks`).
- `PlayerInv`: what awaits the player is the play of the file up to its place, every
  state that is saved and was not in the middle of a moment makes the play up to its
  place, and a player has no part of a moment unless the whole file up to there has
  (`Follows`, which is why a state may be restored into a session that was reset).
  Nothing is recorded meanwhile (`Quiet`), but the file may still grow.
- `WatchInv`: what a client has, with what is on the way to it, plays to what awaits
  the player, unless it is among `lost`; and all are when the player was restored from
  the middle of a moment.

`SessionStreamProofs` holds for every set of clients, every choice of times between
steps, of limits of indices, of the modulus of bytes and every bound, from
`StreamAssumption` (times are numbers, a byte has at least one value, limits are
numbers):

- `StreamTypes`: `Spec => []TypeOK`.
- `StreamFits`: `Spec => []NoClientErrors`.
- `StreamCorrects`: `Spec => []CorrectionsFit`.
- `StreamKeepsPromise`: `Spec => []PromiseKept`.
- `StreamBroadcasts`: `Spec => ImplementsBroadcast`.

The code has no such thing as a command that is meant for the state in which it is
run: a command is written when the host changes, and run by each client whenever it
comes to it, after a dump and corrections that nobody else was sent. The proof
therefore plays the commands, without time, without queue and without errors of its
own: `Play` takes a `World`, objects and the moments that are owed, from one command
to the next, notes the moments that are complete, and stays well as long as each
command fits what is there (`Fits`; a correction fits the nodes that it was made
for). What awaits a client is then `Fate`: what its session has to run, what is under
way to it and `host.out`, played from what the session has now. The invariant `IInv`
is that every client's fate is the host (`Arrives`): all fits, the moments on the way
are those promised, and the objects in the end are the host's. Besides, `Good` says of
a session that whole moments wait, that the rest of one is held back, and that the
time that is buffered is the time of the steps that wait; `HostOK` that what an object refers to is there (`Homes`) and that
the lists of free indices have each index once (`Lists`), with no more indices than
`MaxIndex` has room for, which an object that takes a free index before a new one
keeps.

The lemmas are about the two ends. Whatever the host writes plays to what it has
(`Mirror`), for each of its changes, and for taking down a scene with all that is in
it; a dump plays from nothing to the host's objects, as whatever an object needs is
made before it, and the references follow when all is there (`Build`, `Grounded`,
`Makes`). At a client, to add a command or run a step is to play it sooner or later
(`Queued` and the lemmas after it), so the fate does not change but for the moments
that were reached; that a correction is run when its nodes are there follows, as it
would not fit otherwise. And
an action of either end maps to the step of `Broadcast` that it claims: what
is shown is a moment of those owed, and what is passed over lies before it and
before the next cut.

The functions of `ClientSession` are folds over sequences of commands, and the
library's theorems about induction cannot be used here. `FoldProofs` has the operator
of a fold as a CONSTANT, shows by well-founded induction that a fold is the last of
the results along the sequence (`FoldTrace`), and from this what a fold over joined
sequences is, what it keeps, and what relates two folds (`FoldEmpty`, `FoldConcat`,
`FoldKeeps`, `FoldRelates`...). Each fold of the model is an instance of that module
(`Playing`, `Adding`, `Running`, `Dumping`...), with the property that is kept given
as a set.

Only model-checked: the liveness properties, which are beyond the prover. Every
invariant that a passing run checks, and every action property and refinement, is
proved for all values of the constants.

## Findings

1. `base.cc:334` waits until each loop shows `suspended_`, which a loop sets
   itself. After suspend, unsuspend and suspend in quick succession a loop may
   still show the flag of the first suspension: `SuspendApp` returns at once and
   the loop runs on afterwards, until it comes to its second `kSuspend`.
   `ParkedOrToPark` is what does hold.
2. `connection_set.cc:628` compares the size of the party before line 651 looks
   for the connection that a request already has. A client that took the last
   place and whose accept is lost or late repeats its request, is told that the
   party is full, and gives up the connection that it was given. The comment at
   line 690 says that it is accepted again.

Observations, which the properties allow for and no run is about:

- `connection.cc:211` subtracts two `uint16_t` values, which C++ promotes to `int`;
  the comment above it means the difference modulo 2^16. Late duplicates from
  before the wanted number are stored instead of ignored, and stay until pruned.
  Order is not hurt as long as they are pruned before their number comes round.
- `assets_server.cc:179` and `:195` disagree about a message of 65535 bytes, which the
  comment at `:172` says is written with two bytes: the file is out of step from
  there on. `PlaysTrue` excepts it.
- A write error (`assets_server.cc:184`) leaves the whole queue, and the next file
  begins with it. `FileIsRecording` says just this.
- A seek to a saved state (`client_session_replay.cc:341`) resets those who watch
  along, but does not send them the state. `WatchersFollow` excepts those who were
  there.
- A state that is saved while commands wait for the end of their moment
  (`client_session_replay.cc:158`) does not have them: `torn` in `Replay`. Who joins
  a player that was restored from such a state is told what it has, and then what
  the file says, which may not fit: `WatchersFollow` excepts them too.
- The comment at `client_session_replay.cc:87` says that new connections have to be
  ignored once something was sent; the code takes them, and one that joins while
  commands wait at the player is behind by these. `WatchersFollow` excepts it.
- `HostSession::NewTimer` (`host_session.cc:810`) sets base timers by the time of the
  session's scene, which may be up to a step behind the base clock that they expire
  by: a base timer may run up to a step early. `Punctual` bounds the other side.
- The FIXME at `timer_list.cc:111` asks whether it matters that a timer may run more
  than once in a pass. By `OncePerMoment` none does in a host session: what repeats
  has a length of at least 1 and so expires later than the pass.
- A host looks for a client id that is not in use, but counts on by one only
  (`connection_set.cc:664-673`). After 255 joins, past the id c of a client who is
  still there, a newcomer is given c + 1 and the counter stands at c + 1: if the
  newcomer leaves, the next to join is given c + 1 at once, while a call to end the
  old connection may wait in the event loop (line 359) or a goodbye for it be under
  way. Such a call then ends the new connection. `FreshIds` excludes this only in
  the first round of the ids, where every id waits for its turn.
- Goodbyes and their acks name only a client id, and every host starts at 113
  (`connection_set.cc:486`): one from the previous host, delayed, ends the connection
  to the next if both gave the same id.

## Plan

In this order; each new module brings its run, mutants and theorems. For `Party`
there remain an abstract specification (a party as the set of members that both
ends agree on), kick votes and the roster.

1. `TimerList` in place of the single timer of `EventLoop`; that the lists of
   `HostTimers` implement a set of timers, of which the earliest runs first.
2. `NetworkReader` with the suspension of `EventLoop`; the active state, shutdown
   and its suppression (`base.cc`, `logic.cc`); the frame definition slot.
3. The remote controller server with its client; Python's session transitions;
   the learning environment against the event loop.

Proofs: the theorems of each new module. `ReplayProofs` and `SessionStreamProofs` each
have the lemmas that they need about sessions and plays of commands, over different
sets of commands; one module for both would make the next stream cheaper to prove.
No module holds a RECURSIVE operator.
