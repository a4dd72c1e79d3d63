# Formal models of the Roady backend

The backend is one FastAPI process. A driver's phone opens a WebSocket for a
driving session and streams camera frames and locations; the server classifies
the frames, turns the classifications into behaviour events, and the app reads
and changes everything else (profiles, sessions, conversations, places,
reports) over HTTP. This directory holds TLA+ models of the parts whose
correctness depends on the order in which things happen, the TLC runs that
check them on small instances, and TLAPS proofs for every instance.

Contents: [System](#1-the-system) · [Modules](#2-modules) · [Runs](#3-runs) ·
[Fairness](#4-fairness) · [Proofs](#5-proofs) ·
[Where code and tests disagree](#6-where-the-code-and-what-is-said-of-it-disagree) ·
[Not modelled](#7-what-is-not-modelled) · [Plan](#8-plan)

## 1. The system

### 1.1 Components, their state, how they interact

| Component (`app/…`) | State it keeps | Operations | Interacts with |
|---|---|---|---|
| Connection manager, `realtime/connection_manager.py` | one registered socket per session; one lock for all sessions | register, disconnect, is_current, send_json_to_current | every handler, worker and heartbeat; its lock is held while a send is awaited |
| Session runtimes, `realtime/session_runtime.py` | per session: generation, frame queue and wake-up event, recent frame ids, last result and counts, behaviour policy, active event, last heartbeat, last location | get_or_create, prepare_connection, accept_frame, wait_for_next_frame, record_*, observe_behavior_result, touch_heartbeat, apply_location_update, remove | shared by the handlers and workers of all connections of the session; its lock is never held across an await |
| WebSocket handler, `api/v1/endpoints/websocket.py` | its point of execution, its generation | admission, accept, register, close the predecessor, prepare, receive loop, clean-up | starts and stops the worker, the heartbeat and the frame pairing |
| Inference worker, `realtime/inference_worker.py` | the frame it holds | wait, check, predict, record, publish, observe | cancelled by its handler wherever it is |
| Detection pipeline and publisher, `realtime/detection_*.py` | — | record, publish, observe, write event | runs inside the worker |
| Frame pairing, `realtime/frame_pairing.py` | pending metadata, its timeout task, a generation | replace, drop, claim, close, timeout | called by the receive loop; the timeout calls back into the socket |
| Heartbeat, `realtime/heartbeat.py` | a task per connection | tick: check the silence, send PING | reads `last_heartbeat_at` of the runtime, which PONGs of any connection refresh |
| Behaviour policy, `policies/sliding_window_behavior_policy.py` | window of samples, active behaviour | observe → STARTED / UPDATED / CLEARED | owned by the runtime |
| Behaviour events, `services/behavior_event_service.py` | rows of `behavior_events` | open, reuse, close, each in a transaction of its own | called by workers; competes with the end of the session |
| Driving sessions, `services/driving_session_service.py` | rows of `driving_sessions` | start, end, reads | profiles (locks), events, conversations |
| Profiles, `services/profile_service.py` | rows of `driver_profiles`, files | create, update, tune, select, delete | sessions (cascade), Gemini |
| General conversations, `services/agent_conversation_service.py` | rows of `agent_conversations` | start; ended with the session | sessions |
| Agent runtime, `services/agent_runtime_service.py` | messages, interventions, tool executions, driver responses | plan, send, decide, respond | events, conversations, profiles, Gemini |
| Saved places, search history | rows | upsert, create, update, delete | profiles |
| Locations, `services/location_update_service.py` | samples, the runtime's last location | apply, persist | receive loop, sessions |
| Reports, bootstrap, health, music, voice, navigation, model lab | none | reads and third-party calls | — |

`PROJECT.json` lists all of them with their files and what is modelled of each.

### 1.2 What is hard about it

*On the event loop.* The realtime layer is many tasks on one asyncio loop: code
between two awaits is atomic, and everything can happen at an await. A client
that reconnects makes a second handler and worker for the session while the
first are still on their way out, with a prediction of seconds in a thread, and
both work on one `SessionRuntime`. What tells them apart is a generation number
(which starts over when the runtime is removed) and the identity of the
registered socket. The manager's lock is held while a client's socket is
written, for all sessions.

*In the database.* MySQL's InnoDB at REPEATABLE READ: the first plain read of a
transaction fixes what all later plain reads see, while `FOR UPDATE` reads see
what is committed now and wait. Every HTTP request reads the account first, so
every check made with a plain read after a lock was obtained is made on a state
from before the wait. Gap locks do not exclude each other; cascades lock rows
in another order than the joins do.

*In time.* Frame metadata time out, heartbeats are checked, clients' clocks
differ from the server's.

### 1.3 What makes each component correct

- connections: one owner per session; results, sends and clean-ups of one
  connection never reach the state of another; no queued frame is slept on; who
  is registered is served; clean-ups end.
- frame pairing: every metadata has exactly one fate, and it comes.
- heartbeat: a client that answers stays, one that is silent is noticed.
- behaviour events: one open event per session, none in a session that is over,
  and the runtime does not go on with a closed one.
- profiles and sessions: one active session per profile, none without profile,
  ends are final, limits hold, nobody's setting is overwritten unseen.
- behaviour policy: episodes do not overlap nor flicker, and the runtime's copy
  of what is active is the policy's; what is worse is not warned of less.
- agent: a behaviour is warned of once within the cooldown, messages are
  numbered without a gap, consent comes before a tool runs, decisions stay.
- places and searches: unique where they are said to be, gone with the profile,
  refused only for a reason.
- locations: nothing after the end, in order, apart, and all of them in the
  distance.
- reports: figures of different queries agree, pages tile, periods adjoin.

`hazards` in `PROJECT.json` lists what can go wrong at which line, and the
properties that watch over it.

## 2. Modules

Every module has its code lines in `PROJECT.json`, `map`; definitions named
`Mut…` are plausible bugs of the definition after them. They belong to no
specification: they are what the properties have been tested against.

A property that a run checks is often the conjunction of a few named parts that
concern one question (`ServingSound`, `SoundSessions`, `AnswersAgree`, …); the parts
have their own comments in the module, right above it. The type invariants are
part of the properties in the modules without proofs, and of the proved `IInv`
in the others.

### 2.1 `ConnectionLifecycle` (with `SessionOwnership`)

The connections of one session. `handler[c]` and `worker[c]` say at which await
the two tasks of a connection are; an action is what one of them does from one
possible suspension to the next. Calls of the runtime registry never suspend
and so are part of the action around them; calls of the manager need its lock
(`ManagerFree`), which `lock` gives to the task in the middle of a send.

| Action | Code |
|---|---|
| `RegisterAlone`, `RegisterReplacing` | `register`, the second leaving a predecessor to be closed |
| `PreviousClosed`, `Prepare` | the close of the predecessor ends; `get_or_create` and `prepare_connection` run, the worker and heartbeat start |
| `BeginSend`, `EndSend`, `SkipReady` | `send_json_to_current` of the handler: the check and the send under the lock |
| `AcceptFrame` | a binary message becomes a frame in the queue, the oldest one dropped, the worker woken |
| `ReceiveEnds`, `StopWorker`, `Leave` | the receive loop ends in any way; the worker is cancelled where it is; `disconnect`, and `remove` if it was current |
| `Poll` … `Observe` | the worker: wait for a frame, check, predict, record, publish, observe |

A frame is represented by the connection it came from, which is all the
properties need. `preparedBy` is the one history variable: whose connection
prepared the runtime. `SessionOwnership` is the abstract promise (an owner,
those who lost it, whose results the state holds), with `owner = current`.

### 2.2 `FramePairing`

`FramePairingController` and the receive loop that drives it. Three kinds of task:
the loop, timeout tasks asleep (`sleeping`, cancelled by the controller) and
timeout tasks in their callback (`reporting`, which nothing cancels any more).
A metadata is named by the generation it was registered under; `asked`, `fates`
and `lastMessage` are history. `MaxGeneration` bounds the client's messages. Its
specification is `FairPairing`: the names of `FramePairing` and `Heartbeat` are apart,
so that one proof module can be about both.

### 2.3 `Heartbeat`

`HeartbeatController` of every connection of a session over the shared
`last_heartbeat_at`, in discrete time. `due[c]` is when a phase ends at the
latest: a sleep ends on time, asking the manager or sending takes up to `Stall`.
A prompt client answers each PING within `Delay`. `Tick` does not pass
anybody's due. `inherited` says that a connection found another's runtime.

### 2.4 `BehaviorEvents`

The rows of `behavior_events` of one session, the runtime's active event, the
workers of several connections as writers, and `end_session`. A write goes
`observed` → `validated` (the generation is right, the transaction opens) →
`locked` (all `FOR UPDATE` reads are done) → `committed` (the runtime is still
to be told) → `idle`, and can be rolled back or cancelled at each point. The
database's part (row locks, gap locks that only exclude inserts, snapshot of the
end's plain read, deadlock victims) is external and modelled from the queries.
The policy's transitions are arbitrary within its alternation of STARTED and
CLEARED. `ahead` marks events whose `started_at`, a client's time, is later than
the server's clock.

### 2.5 `ProfileSessions`

The HTTP requests on one account's profiles, sessions and general conversations:
create, update, tune, delete, start, end, talk. A request is `begun` (the
account was loaded: its snapshot, `seen`, is fixed), takes its locks (`Lock`, and
for requests on a session `LockOwner`, since the join locks the profile second),
and ends with one action that is its commit, since nobody sees its writes
earlier. Deleting a profile has its file deletion before the commit (`DeleteFiles`,
`DeleteProfile`). Any request can fail at any point (`Fail`).

### 2.6 `BehaviorWindow` (with `RiskPolicy` and `BehaviorEpisodes`)

`SlidingWindowBehaviorPolicy` as the function it is, from a window and what is
active to a transition, and the state machine of a runtime that hands it
detections (`Observe`), starts over for a new connection (`Reset`), and keeps a
copy of what is active: that of the transition (`Recorded`), so that the two can
differ. The window is a sequence in order of arrival; counts and
ratios are over the samples of it, confidences whole numbers of basis points. `BehaviorEpisodes` is what the policy promises
to those who store its transitions, start, turn and clear, and what
`BehaviorEvents` takes for granted; `EpisodesSpec` shows that the policy keeps it.
`RiskPolicy` has the pure functions that follow: driving state, risk level,
level of an intervention.

### 2.7 `AgentRuntime`

The requests the agent answers: `plan`, `message`, `decide`, `respond`, with what
starts and ends the conversations. A request takes its snapshot, locks the rows
of its join one after the other (`Lock`: a join of three tables can be half
locked), checks, asks the language model while it holds the locks, and commits
or fails. `OneOpenPerBehavior` rests on the scan for open interventions, which is a
locking read and so sees what is committed; the message numbers rest on a plain
one, which does not (§ 6). Lines that assign several columns are one step, since
nobody sees them before the commit.

### 2.8 `ProfilePlaces`

Saved places and search history of one profile, with the profile's deletion.
A place is its type, the provider's id and its coordinates; `Patch` is a partial
update; the provider, whose ids name its places, is part of the id. What a request
writes are the columns that differ from what it read, as SQLAlchemy does. Unique
constraints do not cover NULL. A search is answered with what a read after its
commit finds (`RefreshSearch`), which may be nothing when the profile went meanwhile:
the request then fails although the search was stored.

### 2.9 `LocationUpdates`

`LOCATION_UPDATE` messages from admission to the answer: the check of the client's
time against the runtime's, the decision to persist, the transaction under the
session's lock, the mark in the runtime after it; and `end_session` with the
distance it adds up and the reads of the samples. A commit can be lost on its
way back (`Store(c, FALSE)`). Positions are on a line, so distances are exact. A
sample has the history the properties need: the `life` of the runtime that decided on
it, when (`decided`), whether any other handler was storing then (`alone`), and whether
its handler learned that it is stored (`confirmed`). The samples are a set; what the
database does with them, `ORDER BY` and a sum over rows, is in `RowSets`, which
`DrivingReports` uses too. That two windows of the list have all samples holds as long as
there are no more than the limit of one answer (5000); reading on from the last sample of a
page needs no bound (`WindowsCover`).

### 2.10 `DrivingReports` (with `ReportPeriods`)

What is read while drives go on. A request is one of the reports, the history,
the detail or the timeline, refused if a parameter of it is none (`Refused`); `Queries`
lists its queries in order, `Query` makes the
next one on `View`, the snapshot the request took with the account. Others write
in between (`CompleteSession`, `StartEvent`, `ClearEvent`, `Intervene`, `Respond`,
`DeleteProfile`). The rows are functions from ids; `IsDatabase` says which columns and
foreign keys they have, is assumed of the tables a run starts from, and is proved of what
the writers make of them. Sums, counts and orders are those of `RowSets`. Shares
and changes are in tenths of a percent, `Whole` being all of it, rounded as the code does;
an average latency stays a total and a number, which the summary and the detail round
differently.
`ReportPeriods` is the calendar: days of Seoul, months, the period before, the limit
of one year. Days are numbers, instants hours. Names that `LocationUpdates` has as well
are others here, so that one proof module, `DriveRecordsProofs`, can be about both.

## 3. Runs

All runs are exhaustive: there are no state constraints, the bounds are in the
actions' guards or in the sizes of the constants. Deadlock is not checked
because every system modelled here legitimately stops: connections are gone,
ids or the time are used up.

| Run | Instance | Distinct states | Shows |
|---|---|---|---|
| `connections_safety` | 3 connections, queue 2, symmetry | 123,122 | no result, send or clean-up of one connection reaches the session of another; no lost wake-up; refinement of `SessionOwnership` |
| `connections_liveness` | 2 connections, queue 1 | 6,376 | clean-ups and replacements complete, queued frames reach the model |
| `connections_overtaken` | as safety | violated | § 6.1 |
| `pairing` | 7 messages | 7,089 | one fate per metadata, one timer, nothing after close, and no metadata waits for ever |
| `heartbeat_safety` | 2 connections, one prompt; interval 2, timeout 6, 16 ticks | 1.2 million | answering clients stay, silent ones are noticed |
| `events` | 2 writers, 2 behaviours, 3 rows, symmetry | 1.4 million | one open event; a found event stays open until the commit; no transaction waits for ever |
| `profiles` | 2 requests, 3 profiles, 2 sessions, limit 1, symmetry | 900,151 | one active session per profile, none outliving it, final ends, bounded excess of the limit, a tuned value replaces the one it came from, no request waits for ever |
| `agent_runtime` | 2 requests, 1 session, 2 events of one behaviour, 2 conversations, 1 tool, symmetry | 918,711 | warned once, messages in order, consent, decisions and responses kept |
| `behavior_window` | window 3, 4 frames, 5 detections, clock 0..1, symmetry | 19,184 | episodes, the runtime's copy, monotone risk; refinement of `BehaviorEpisodes` |
| `places` | 3 requests, 5 places, symmetry | 205,763 | unique places; twins and failures only of requests that overlapped; nothing outlives the profile |
| `location` | 2 connections, 1 end, 3 updates with 2 times | 298,914 | nothing after the end, samples in order and apart, the distance is theirs, everyone is answered |
| `reports` | 3 drives, 4 events, 2 interventions, 2 responses, 5 periods, 3 writes | 1.3 million | figures agree, pages tile in an order that ties do not upset, the timeline is whole, periods adjoin |

Why these bounds are enough for the cases that matter:

- *Three connections*: the shortest history in which a replaced handler resumes
  after its own successor has been replaced or has left, and in which a runtime
  is removed and created again while a worker of its earlier life still runs.
  With two, no handler is overtaken. Two suffice for the liveness properties,
  where the contention is for the lock. The queue's size is 1 or 2 in the code.
- *Seven messages* let a metadata be claimed, superseded and timed out while two
  earlier reports are still in progress.
- *Heartbeat*: interval : timeout is 1 : 3 as in the settings (10 s, 30 s); 16
  ticks are two full timeouts and a replacement in between; `Stall` 1 lets waits
  shift a check by half an interval.
- *Events*: three rows are one too many for any invariant to hold by exhaustion
  (one of each writer and one more after a reuse); two behaviours tell a reuse
  from a new event.
- *Agent*: a second plan on an event of the same behaviour needs two events and
  two conversations; one driver's message and its reply are two messages, so that
  a gap or a double number shows; sensitivities 3..5 move both ways and stop.
- *Window*: three samples are the smallest window in which start and clear can
  have different majorities; a fourth frame id makes one leave and come back.
- *Places*: a third request can fall between the reads and the writes of two.
- *Locations*: three updates with two times include a repeat and a step back;
  one interval of the server's clock is at and below the limit.
- *Reports*: the drives begin in the last hour before, the first hour of and the
  last hour of a Seoul day that is the 1st of March after a leap day, or two of them
  at the same instant, with one drive to a page, so that only the order by id keeps
  the pages apart; the periods are that day, its month, the two lengths on either side
  of the limit, and an empty one. Pages and sizes go from what is refused below to what
  is refused above. Three writes are an event, an intervention and a response to it,
  or an event that its session's end does not see.
- *Profiles*: two concurrent requests already give every pair of operations on
  every stale snapshot; with limit 1 and three ids the excess can be reached and
  exceeded; sensitivity 3..4 gives both directions of the smoothing.

Each property of each passing run has a mutant in `PROJECT.json`: a change of
the code's behaviour under which that run finds the property violated.

## 4. Fairness

Only what the program and its environment owe is fair, and never a client: nobody
has to connect, send, answer, or leave.

- `ConnectionLifecycle`: strong fairness of each handler's own progress and each
  worker. The loop runs every runnable task, and `asyncio.Lock` is FIFO, so a task
  waiting for the manager's lock gets it although it is taken again and again in
  between: weak fairness would not be enough, and the FIFO queue justifies
  strong. Closes, sends and predictions are assumed to end; a socket that never
  accepts nor fails a send would block every session, which is a hazard of the one
  lock and not excluded by the code itself.
- `FramePairing`: weak fairness of a timeout's sleep and report, of a send, and
  of the clean-up.
- `LocationUpdates`: weak fairness of a handler that has an update to answer and of
  a request to end: a connection to the database answers or fails, and the one
  lock they share is released by whoever holds it, which is a step of the same kind.
- `BehaviorEvents`, `ProfileSessions`, `ProfilePlaces`: no fairness. That no
  transaction waits for ever is an invariant (`SomeoneGoesOn`, `RequestsGoOn`,
  `NothingStuck`): whenever
  one is under way, one can take a step that ends in its commit or failure, a
  deadlock's victim included, and each takes boundedly many. So it does not
  depend on the order in which the database grants its locks.
- `Heartbeat` has no fairness: its bounds are invariants over explicit time.

## 5. Proofs

Every proof module is checked by TLAPS for all values of the constants, under
the named assumptions of its module (listed there, each with the setting or
check in the code that gives it).

| Module | Theorem | States |
|---|---|---|
| `ConnectionLifecycleProofs` | `Invariance`, `TypeCorrect` | `IInv` is inductive; types, and the queue's bound |
| | `OneConnectionResults` | results of one connection only |
| | `ServingSafety` | `ServingSound`: sends, wake-ups, and who may lose a worker |
| | `EvictionOnlyByHeirOrSelf` | a registered connection is displaced only by a newer one or itself |
| | `ImplementsOwnership` | refinement of `SessionOwnership` |
| `ConnectionControllersProofs` | `PairingInvariance`, `OneFateAlways`, `PairingSafety` | of `FramePairing`: any number of messages |
| | `HeartbeatInvariance`, `PromptSurvives`, `SilenceDetected` | of `Heartbeat`: any number of connections, any settings that are `Punctual` |
| `BehaviorEventsProofs` | `EventsInvariance`, `OneOpenEvent`, `TrackingIsSound` | any number of writers, behaviours and rows |
| | `NoLongCycle` | `WaitsEnd`: somebody who waits can go on, or be rolled back |
| `AgentRuntimeProofs` | `AgentInvariance`, `WarnedOnce`, `NumberedInOrder`, `ConsentFirst`, `SilenceAfterEnd`, `OneStepEach` | any number of requests, sessions, events and conversations, any tools and bounds |
| `ProfileSessionsProofs` | `ProfilesInvariance`, `SessionsAreSound`, `LimitExcess`, `EndsAreFinal` | any number of requests, profiles and sessions, any limit |
| | `TunesWhatItRead` | `TunedFromCurrent`: an automatic sensitivity replaces the value it came from |
| | `NoLongCycle` | `WaitsEnd` of its own locks |
| `BehaviorWindowProofs` | `Invariance`, `CopiesAlwaysAgree`, `WindowAlwaysDecides`, `EpisodesEndAfterStart` | any size and thresholds of the window, frames, behaviours and clock |
| | `ReactionAlwaysMonotone` | any order of dangers, speeds and accuracies |
| | `ImplementsEpisodes` | refinement of `BehaviorEpisodes` |
| `ProfilePlacesProofs` | `PlacesUnique`, `OnlyOverlapHurts`, `OkIsStored` | any number of requests, types, places and data |
| | `HistoryAnswersAll` | any sizes of pages, any number of searches |
| | `NoLongCycle` | `WaitsEnd` of its own locks |
| `DriveRecordsProofs` | `IntervalsKept`, `OverStaysOver` | of `LocationUpdates`: any number of connections, requests, readings and times, any interval |
| | `SamplesAreReadWhole` | of `LocationUpdates`: any number of samples, any positions and times, any number of requests that end the session |
| | `PeriodsAlwaysFit` | of `DrivingReports`: any periods of any years, any drives, any number of writes |
| | `AnswersAlwaysAgree` | `AnswersAgree`: any tables that keep their foreign keys, any number of rows and writes |
| | `PagesAlwaysTile` | `PagesTile`: any number of drives, any size of a page |

The arguments:

- *Connections.* "Results of one connection" is not inductive: generations repeat
  after a runtime is removed, so a matching number does not identify a connection.
  `CurrentOwnsItsGeneration` is the missing fact: the registered, prepared
  connection has a runtime at least as new as its generation, and when they are
  equal it prepared that runtime itself, since only the registered connection's
  clean-up removes one. A worker records only after `is_current`, so what it
  records comes from its own frames (`QueueOfCurrent`, `CurrentHoldsOwnFrame`).
  The refinement adds that only the recording step changes the contributors, and
  then to the owner alone.
- *Pairing.* `TimerOfPending` (exactly the pending metadata has a timer) and
  `GenerationBound` (a generation is used once) make the fates exclusive.
- *Heartbeat.* `SilentRound` and `PromptRound` bound each phase's due time by the
  last heartbeat; `Punctual` (an answer comes before the next PING, and the
  timeout leaves room for one round and two waits) closes the induction. The
  theorems assume `Punctual`: the code only requires timeout > interval.
- *Events.* `ReadsUnderLock`: a STARTED about to commit has locked everything
  that is open, and the gaps. So what it closes is all there is, and nobody
  closes what it found.
- *Profiles.* `HeldRows`: a locked row has one holder and is as it was read under
  the lock. What is checked on such a read is safe; `AtMostOneActive` rests on the
  unique constraint instead, `ExcessIsConcurrent` on a count of the requests whose
  snapshot is older than the last free place.

- *Agent.* Every join ends with the row of the profile, so of all requests one is
  past its join (`Alone`). The others hold at most the rows before that: what they
  have read under a lock is still so (`ReadsHold`, `Undisturbed`), whichever request
  finishes (`FinishCourse`). A plan that found nothing to reuse therefore finds
  nothing when it stores (`PlansAlone`), and a message that is answered still is in
  an active conversation. The number of a message is older than its locks: that it
  is the next one follows from the unique constraint, all numbers below being taken.
- *Window.* The window is answered: what it shows has been acted on (`Heeded`), by every
  way `Observe` can leave it, and the copy follows what the policy has (`RuntimeFollows`).
  That two behaviours never have their threshold at once is an argument on disjoint
  sets of samples (`MinHitCount + ClearHitCount > WindowSize`, which the program's
  only configuration gives, is what keeps start and clear apart). `InTime`: while the
  clock has not stepped back, the normal samples from before an episode are too few to
  end it, so that a later one does.
- *Places.* Uniqueness is the database's. That only overlapping requests see a twin, or
  fail, is not inductive by itself: `SnapshotBehind` says that a place that differs from
  a request's snapshot was written by a request answered after the snapshot was
  taken, which therefore overlapped it; `DropAfter` says the same of the profile; `Held`
  that a locked row is there and has one holder. The pages of the history are
  intervals of one injective sequence, and `TotalPages` of them cover its length.
- *Locations.* Two handlers of one session work on one runtime, so the sample that is
  marked need not be the last that was stored. `AloneIsLast` is the missing fact: an
  update that found no other under way is not earlier than anything still to be
  stored. With `Orders` (decisions in the order of the client's times, for what is
  stored and for what still may be) and `Marks` (a confirmed sample is marked, or
  somebody is about to) it gives the interval between samples of one runtime; `WritersHold`
  (the lock, and the status read under it) gives that nothing follows the end.
- *Samples.* `SampleInv`: the samples of a session have different times, the unique key
  that `FindStored` looks up under the lock; and what the end recorded is the
  distance over the samples of its request's snapshot, which is a part of those
  there are. `DistanceOfSamples` follows from three facts about any set of dated positions:
  the code's sum over the sorted list is the way from each sample to the next
  (`DistanceIsWay`, by renaming the legs), a further sample never makes the way shorter
  (`WayGrows`, the triangle inequality at the place where it falls), and the way is no
  shorter than from its start to its end (`WayIsLong`). `WindowsCover` follows from
  one: the sorted list of two sets, all of one before all of the other, is the one list
  after the other (`JoinInOrder`).
- *Reports.* `ReportInv`: after n queries of a request there are the answers to the first n,
  each the same function of the one snapshot (`Answer`), whatever the writers have
  done to the tables since. It is inductive because no query depends on another, but for
  those of the timeline, which are made for the rows that an earlier one
  returned (`DependentAnswers`). What is left is about one set of tables that keep their foreign
  keys: rows counted by type, by risk, by hour, by session or by the row they
  belong to add up to the rows counted at once (`CountsAddUp`), which gives each
  conjunct of `AnswersAgree`. The pages of a list are intervals of one sequence, in
  which every session has a place of its own (`IdsHavePlaces`, `NewestIs`), and
  flattened they are that sequence (`PagesOfList`).
- *Sums and orders.* These need induction over data. The library's induction
  theorems take an operator, so the module has its own, about sets
  instead of predicates: if a family of subsets of S has {} and with T every T ∪ {x}, it
  has S (`SetInduction`, from the well-founded order of the subsets of a finite
  set). With it, a sum does not depend on the order in which it is taken (`AddingIs`,
  `SumIs`, `SumWithout`), and `ORDER BY` by a strict total order puts every row in one place
  (`OrderByIs`: the ranks differ, so that as many as there are rows take all places).
- *Tuning.* The value is read when the row is locked (`LockedRead`) and compared and
  written in a later step. `HeldRows` says of a tuning request that holds its row that
  the row still has the value of that read. It rests on the lock: with a read that
  takes none another request changes the value in between, and with the copy of the
  session's identity map (`Reread`) it was changed before. Both are mutants.
- *Periods.* `DateOfDay` and `DayOfDate`: a day leads to one year, month and day of the
  month, and back, since years and months follow one another without a gap
  (`YearLength`, `MonthsGrow`, `OneYear`). So the day before the first of a month is the last
  of another, which is whole (`PreviousPeriod`), and the same date of the next year is
  365 or 366 days later, the 29th of February included (`YearLater`): starting later
  never makes a period too long. `ReportInv` adds that what is answered was let in.
  The theorem assumes that a period's days and the day before it are in the calendar
  (`IsAsked`); § 7 says what the program does at its limits.
- *Waiting.* In `BehaviorEvents`, `ProfileSessions` and `ProfilePlaces` a transaction that has only
  begun holds nothing, and one that has all its locks wants nothing, but for the gap of an
  insert. What is left, for any number of requests, are those that hold some and want
  others: either one
  of these waits for nobody, or two wait for one another, which is the deadlock that the
  database finds and ends with a victim. Longer cycles cannot form, so this victim is
  enough. `WaitsEnd` states it in terms of guards. The runs check the stronger
  `SomeoneGoesOn`, `RequestsGoOn` and `NothingStuck`, which add that the next-state
  relation really has such a step.

The inductive invariants and what only they need (types, `OnlyOwnCleanupEvicts`) are
not repeated in the runs: the proofs hold for every instance.

Two properties of these models were false for large instances, and the runs, being
small, could not show it; the attempt to prove them did. That the change in phone
use leads back to the count it was made of (`SummaryAgrees`) fails beyond some thousand
events, where a tenth of a percent is more than one event: it now says that the
change is right to half of its last digit. That two windows list all samples
(`WindowsCover`) fails when there are more than the limit of an answer: it now says so,
and what it says of reading page by page holds for any number.

Only model-checked, and why:

- all liveness (`CleanupCompletes`, `QueuedFramesReachTheModel`, `WaitingEnds`,
  `EveryoneAnswered`), and of `SomeoneGoesOn`, `RequestsGoOn` and `NothingStuck` the
  conjunct with ENABLED:
  the prover has no theory of either here. The rest of these three, that among those who
  wait somebody waits for nobody or two for one another, is `WaitsEnd`.

Every other property of a passing run is a theorem.

## 6. Where the code and what is said of it disagree

Shown by a run:

1. **An overtaken handler stops its successor's worker** (`connections_overtaken`,
   `websocket.py:113`). B replaces A and awaits A's close; C replaces B, prepares
   generation 1 and is served; B resumes, prepares generation 2 over it: C's
   worker ends as stale and C's frames are accepted and never processed.
   A check of `is_current` after the close would prevent it.
   `WorkerLostOnlyToOvertaking` shows that this is the only way.

In the models as the code has it, found with properties that said what the test
says; the runs keep the properties that do hold:

2. **An ended session can keep an open event** (`driving_session_repository.py:131`).
   The end closes the events of its snapshot; the writer never looks at the
   session's status. `tests/integration/test_driving_session_api.py:296` asserts that all are
   RESOLVED.
3. **The profile limit can be exceeded** (`profile_service.py:90`), by concurrent
   creates whose snapshots are older than the account's lock, and by no more than
   those (`ExcessIsConcurrent`). `tests/integration/test_profile_api.py:235` is named "limit is
   protected by account row lock"; it loads the account elsewhere.
4. **A profile can be deleted with its active session** (`profile_service.py:255`): the
   check reads the snapshot from before a start that the delete then waited for.
   `SessionHasProfile` shows that the session is then gone as well.
5. **An upsert can be refused for a twin** (`saved_place_service.py:100`): of two upserts of
   the same fixed place the second, with an older snapshot, inserts and fails on
   the unique constraint as a validation error, and one that finds the place
   writes only what differs from its snapshot. `tests/integration/test_saved_place_api.py:297`
   asserts that both succeed. `FailuresOverlapped` and `OkMeansStored` bound it.
6. **A message can fail for its number** (`agent_runtime_service.py:224`): the next number
   is read in the snapshot, so that a message that waited for another fails on the
   unique constraint. `MessagesInOrder` shows that nothing worse happens.

Met while modelling, with the actions in the models:

- a handler that resumes after its successor has left re-creates the runtime, and
  nobody removes it (`websocket.py:114`, `:231`);
- a connection that replaces a silent one inherits its `last_heartbeat_at` and can be
  closed before its first PING (`session_runtime.py:262`): the exception in
  `PromptNotTimedOut`;
- a worker replaced after its generation was checked still writes, and can close
  the event its successor reused (`behavior_event_service.py:82`): why
  `TrackedEventNotOwnClosed` speaks of the worker's own closes only;
- a client clock that is ahead makes the end of a session fail on a check
  constraint (`driving_session_repository.py:141`): `EndRejected`; and one that steps back
  makes an episode end before it began, which the same constraint refuses: the
  exception in `EndsAfterStart`;
- a profile's files are deleted before the commit that may fail
  (`profile_service.py:268`): `DeleteFiles`;
- an intervention can be planned in a session that has ended
  (`agent_runtime_service.py:85`): what `ActiveAfterEndIsSafety` allows; and a response
  changes an intervention whatever its status was (`:386`);
- the scan for open interventions and the end of a session can deadlock
  (`agent_runtime_service.py:517`), and one of them is rolled back: `Fail`;
- two favourites without a provider's id can be in the same spot
  (`saved_place_service.py:155`): what `TwinsOverlapped` allows;
- a location whose storing failed is a duplicate for the runtime when the client
  sends it again, so it is never stored (`location_update_service.py:124`);
- the history goes by days of UTC and the reports by days of Seoul
  (`driving_session_service.py:424`, `report_period.py:85`): a drive before nine in the
  morning is on different days in them;
- no safety score is ever stored (`driving_session_service.py:294`), so that the reports'
  scores are always empty.

## 7. What is not modelled

- *Shutdown* (`close_all`, `clear`): the process ends with it.
- *Other sessions*, except that their sends hold the manager's lock: in
  `ConnectionLifecycle` sends of the session itself already do, in `Heartbeat` they
  are the `Stall`.
- *select_profile* and other writes of a single field that nothing reads back in
  a decision.
- *The window of recent frame ids* (`session_runtime.py:391`), by which a frame that
  comes twice is refused: a frame is represented by its connection.
- *Awaits that decide nothing here*: a cancelled timeout task is awaited
  (`frame_pairing.py:63`) until it has ended, which it does at once; the rows and gaps
  of one `FOR UPDATE` query are taken one after the other, in `BehaviorEvents` together;
  the write of an event that follows a worker's observation is a step of
  `BehaviorEvents`, not of `ConnectionLifecycle`.
- *Average confidences, texts, the narrative of a report, safety scores*: data no
  property here is about.
- *Data retention and report exports*: nothing calls the one or writes the other.
- Parsing, HTTP routing, error bodies, third-party calls, the neural network,
  migrations: no state of their own, or outside what TLC can say. Where a
  transaction spans a call of a third party, the call is a step that may take any
  time and fail.
- *Calendars of the past*: Seoul's clock is nine hours ahead of UTC all year, as it has
  been since 1988. A period that begins or ends at the limits of the calendar
  (years 1 and 9999) fails in `report_period.py` with an uncaught error.

## 8. Plan

1. **Compositions**: the alternation promised by `BehaviorEpisodes` as what drives
   `BehaviorEvents`; one abstract life cycle of a session that `BehaviorEvents`,
   `ProfileSessions`, `AgentRuntime` and `LocationUpdates` each implement.
2. **Frame ids**: the window of recent ids and the validation of a payload.
