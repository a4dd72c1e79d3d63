--------------------------- MODULE LocationUpdates ---------------------------
(***************************************************************************)
(* The positions of one driving session: LOCATION_UPDATE messages that its *)
(* connections handle (app/services/location_update_service.py), the       *)
(* latest position in the session's runtime, the samples in the database,  *)
(* and the end of the session, which adds them up                          *)
(* (app/services/driving_session_service.py).                              *)
(*                                                                         *)
(* A position is a point on a line, so that a distance is a difference.    *)
(* The client's clock stamps an update; the server's monotonic clock, now, *)
(* decides whether it is time to store one.                                *)
(***************************************************************************)
EXTENDS Integers, Sequences, FiniteSets, SequencesExt, RiskPolicy, RowSets

CONSTANTS Conn,       \* connections, each made once
          Request,    \* requests to end the session
          Time,       \* times the client's clock can show
          Reading,    \* what a device can report: [pos, speed, accuracy]
          Start,      \* start_latitude and start_longitude
          Body,       \* bodies of such a request: [to, reason], to may be None
          Interval,   \* persist_interval_ms
          MaxUpdates, \* bound on the updates sent
          MaxNow,     \* bound on the clock
          None

ASSUME LocationAssumption ==
    /\ Interval \in Nat \ {0} /\ MaxUpdates \in Nat /\ MaxNow \in Nat
    /\ Time \subseteq Nat /\ Start \in Int
    /\ IsFiniteSet(Conn) /\ Conn \cap Request = {}
    /\ None \notin Conn \cup Request \cup Int
    /\ \A b \in Body : b.to \in Int \cup {None}
    /\ \A x \in Reading : DOMAIN x = {"pos", "speed", "accuracy"} /\ x.pos \in Int

VARIABLES
    now,       \* the server's monotonic clock
    status,    \* status of the session
    samples,   \* location_samples of the session
    lock,      \* who holds the session's row
    runtime,   \* the session's runtime, or NoRuntime
    current,   \* the registered connection
    phase,     \* per connection: where its handler is
    update,    \* per connection: the update it handles
    asked,     \* per request: where it is
    snapshot,  \* per request: the samples of its snapshot
    summary,   \* what the end stored
    sent,      \* number of updates received
    life       \* history: number of runtimes created

rows == <<status, samples, summary>>
conns == <<current, phase, update>>
requests == <<asked, snapshot>>
vars == <<now, rows, lock, runtime, conns, requests, sent, life>>

NoRuntime == [life |-> 0, at |-> None, pos |-> None, state |-> "UNKNOWN",
              persistedAt |-> None, persisted |-> None]

NoUpdate == [at |-> None]

NoSummary == [distance |-> 0, duration |-> 0, speed |-> 0, to |-> None]

Init ==
    /\ now = 0 /\ status = "ACTIVE" /\ samples = {} /\ lock = None
    /\ runtime = NoRuntime /\ current = None
    /\ phase = [c \in Conn |-> "away"]
    /\ update = [c \in Conn |-> NoUpdate]
    /\ asked = [r \in Request |-> "idle"]
    /\ snapshot = [r \in Request |-> {}]
    /\ summary = NoSummary
    /\ sent = 0 /\ life = 0

-----------------------------------------------------------------------------
(* Connections.                                                            *)

At(c, p) == phase[c] = p

Goes(c, p) == phase' = [phase EXCEPT ![c] = p]

\* WebSocketSessionService.validate_connection: one read of the status.  The
\* model's readiness is asked, and may be denied.
Admit(c) ==
    /\ At(c, "away")
    /\ \/ status = "ACTIVE" /\ Goes(c, "admitted")
       \/ Goes(c, "gone")
    /\ UNCHANGED <<now, rows, lock, runtime, current, update, requests, sent, life>>

\* get_or_create; prepare_connection leaves the location as it is.
GetOrCreate ==
    IF runtime = NoRuntime
    THEN /\ runtime' = [NoRuntime EXCEPT !.life = life + 1]
         /\ life' = life + 1
    ELSE UNCHANGED <<runtime, life>>

\* A connection that replaces another awaits that one's close in between.
Register(c) ==
    /\ At(c, "admitted")
    /\ current' = c
    /\ IF current = None
       THEN GetOrCreate /\ Goes(c, "receiving")
       ELSE Goes(c, "replacing") /\ UNCHANGED <<runtime, life>>
    /\ UNCHANGED <<now, rows, lock, update, requests, sent>>

Replaced(c) ==
    /\ At(c, "replacing")
    /\ GetOrCreate
    /\ Goes(c, "receiving")
    /\ UNCHANGED <<now, rows, lock, current, update, requests, sent>>

\* The clean-up of the handler, once its socket is closed.
Leave(c) ==
    /\ phase[c] \in {"receiving", "closing"}
    /\ Goes(c, "gone")
    /\ IF current = c
       THEN current' = None /\ runtime' = NoRuntime
       ELSE UNCHANGED <<current, runtime>>
    /\ UNCHANGED <<now, rows, lock, update, requests, sent, life>>

-----------------------------------------------------------------------------
(* An update.                                                              *)

\* determine_state is told that the session is active.
StateOf(x) == DrivingState(x.speed, x.accuracy, "ACTIVE")

\* Neither STALE nor DUPLICATE.
IsNewer(at) == runtime.at = None \/ at > runtime.at

\* LocationUpdateService._should_persist
ShouldPersist ==
    runtime.persisted = None \/ now - runtime.persisted >= Interval

Persisting == {"locking", "storing", "marking"}

Busy(c) == phase[c] \in Persisting

\* handle() up to its first await on the database.  A stale update and one
\* without a runtime are answered with an error, a duplicate with nothing.
Receive(c, at, x) ==
    /\ At(c, "receiving") /\ sent < MaxUpdates
    /\ sent' = sent + 1
    /\ IF runtime # NoRuntime /\ IsNewer(at)
       THEN /\ runtime' = [runtime EXCEPT !.at = at, !.pos = x.pos,
                                          !.state = StateOf(x)]
            /\ IF ShouldPersist
               THEN /\ Goes(c, "locking")
                    /\ update' = [update EXCEPT ![c] =
                          [at |-> at, pos |-> x.pos, state |-> StateOf(x),
                           life |-> runtime.life, decided |-> now,
                           alone |-> \A d \in Conn \ {c} : ~Busy(d)]]
               ELSE UNCHANGED <<phase, update>>
       ELSE UNCHANGED <<runtime, phase, update>>
    /\ UNCHANGED <<now, rows, lock, current, requests, life>>

\* The handler is done with its update.
Answered(c, p) ==
    /\ Goes(c, p)
    /\ update' = [update EXCEPT ![c] = NoUpdate]

\* Mutant: a handler that finds the session over keeps its transaction.
MutKeepsLock(c, p) ==
    IF p = "storing" \/ p = "closing" THEN c ELSE IF lock = c THEN None ELSE lock

\* Who holds the row once the handler has gone on to p.
Holder(c, p) ==
    IF p = "storing" THEN c ELSE IF lock = c THEN None ELSE lock

\* Mutant: the session is read without a look at its status.
MutAnyStatus == TRUE

IsActive == status = "ACTIVE"

\* get_owned_by_account_for_update.  SESSION_NOT_ACTIVE closes the socket.
LockSession(c) ==
    /\ At(c, "locking") /\ lock = None
    /\ IF IsActive
       THEN Goes(c, "storing") /\ lock' = Holder(c, "storing") /\ UNCHANGED update
       ELSE Answered(c, "closing") /\ lock' = Holder(c, "closing")
    /\ UNCHANGED <<now, rows, runtime, current, requests, sent, life>>

\* LocationSampleRepository.exists_at: the first plain read of a transaction
\* that holds the session's row.
ExistsAt(at) == \E s \in samples : s.at = at

Stored(c, confirmed) ==
    [at |-> update[c].at, pos |-> update[c].pos, state |-> update[c].state,
     life |-> update[c].life, decided |-> update[c].decided,
     alone |-> update[c].alone, confirmed |-> confirmed]

\* The row is inserted, and the commit releases the session's row; its answer
\* may be lost.
Store(c, confirmed) ==
    /\ At(c, "storing")
    /\ ~ExistsAt(update[c].at)
    /\ samples' = samples \cup {Stored(c, confirmed)}
    /\ lock' = Holder(c, "marking")
    /\ IF confirmed THEN Goes(c, "marking") /\ UNCHANGED update
       ELSE Answered(c, "receiving")
    /\ UNCHANGED <<now, status, summary, runtime, current, requests, sent, life>>

\* DUPLICATE: an earlier runtime of the session stored it.
FindStored(c) ==
    /\ At(c, "storing")
    /\ ExistsAt(update[c].at)
    /\ Goes(c, "marking") /\ lock' = Holder(c, "marking")
    /\ UNCHANGED <<now, rows, runtime, current, update, requests, sent, life>>

\* Mutant: a failure marks the update as stored.
MutMarks(c) == Goes(c, "marking") /\ UNCHANGED update

\* PERSIST_FAILED is answered with an error and changes nothing else.
Unmarked(c) == Answered(c, "receiving")

\* Any statement may fail.
FailToStore(c) ==
    /\ phase[c] \in {"locking", "storing"}
    /\ Unmarked(c) /\ lock' = Holder(c, "receiving")
    /\ UNCHANGED <<now, rows, runtime, current, requests, sent, life>>

\* mark_location_persisted, on whatever runtime the session has by now.
Mark(c) ==
    /\ At(c, "marking")
    /\ runtime' = IF runtime = NoRuntime THEN runtime
                  ELSE [runtime EXCEPT !.persistedAt = update[c].at,
                                       !.persisted = now]
    /\ Answered(c, "receiving")
    /\ UNCHANGED <<now, rows, lock, current, requests, sent, life>>

-----------------------------------------------------------------------------
(* The end of the session.                                                 *)

Metres(a, b) == IF a < b THEN b - a ELSE a - b

\* Mutant: a point that was visited before is left out.
MutOnce(points) ==
    LET new == {i \in 2..Len(points) : points[i] \notin {points[j] : j \in 1..(i - 1)}}
    IN  Sum([i \in new |-> Metres(points[i - 1], points[i])])

\* total_distance_meters
TotalDistance(points) ==
    Sum([i \in 2..Len(points) |-> Metres(points[i - 1], points[i])])

\* ORDER BY recorded_at, id
InOrder(set) == OrderBy(set, {xy \in set \X set : xy[1].at < xy[2].at})

\* DrivingSessionService._calculate_distance
Distance(set, to) ==
    LET found == InOrder(set)
        points == <<Start>> \o [i \in 1..Len(found) |-> found[i].pos]
    IN  TotalDistance(IF to = None THEN points ELSE Append(points, to))

\* Metres per second as hundredths of a kilometre per hour, rounded.
AverageSpeed(distance, duration) ==
    IF duration = 0 THEN 0 ELSE (720 * distance + duration) \div (2 * duration)

\* The snapshot is the one of the account's load, before any lock.
BeginEnd(r) ==
    /\ asked[r] = "idle"
    /\ asked' = [asked EXCEPT ![r] = "begun"]
    /\ snapshot' = [snapshot EXCEPT ![r] = samples]
    /\ UNCHANGED <<now, rows, lock, runtime, conns, sent, life>>

LockToEnd(r) ==
    /\ asked[r] = "begun" /\ lock = None
    /\ IF IsActive
       THEN asked' = [asked EXCEPT ![r] = "ending"] /\ lock' = r
       ELSE asked' = [asked EXCEPT ![r] = "refused"] /\ UNCHANGED lock
    /\ UNCHANGED <<now, rows, runtime, conns, snapshot, sent, life>>

\* started_at is 0.
EndSession(r, body) ==
    /\ asked[r] = "ending"
    /\ LET distance == Distance(snapshot[r], body.to) IN
       summary' = [distance |-> distance, duration |-> now,
                   speed |-> AverageSpeed(distance, now), to |-> body.to]
    /\ status' = IF body.reason = "USER_REQUEST" THEN "COMPLETED" ELSE "ABORTED"
    /\ asked' = [asked EXCEPT ![r] = "ended"]
    /\ lock' = None
    /\ UNCHANGED <<now, samples, runtime, conns, snapshot, sent, life>>

FailToEnd(r) ==
    /\ asked[r] \in {"begun", "ending"}
    /\ asked' = [asked EXCEPT ![r] = "failed"]
    /\ lock' = IF lock = r THEN None ELSE lock
    /\ UNCHANGED <<now, rows, runtime, conns, snapshot, sent, life>>

-----------------------------------------------------------------------------
Tick ==
    /\ now < MaxNow
    /\ now' = now + 1
    /\ UNCHANGED <<rows, lock, runtime, conns, requests, sent, life>>

\* What a handler does with an update it has received, and a request once it
\* has begun, when nothing fails.
Handle(c) == LockSession(c) \/ FindStored(c) \/ Store(c, TRUE) \/ Mark(c)

Ending(r) == LockToEnd(r) \/ \E body \in Body : EndSession(r, body)

Next ==
    \/ \E c \in Conn :
         \/ Admit(c) \/ Register(c) \/ Replaced(c) \/ Leave(c)
         \/ Handle(c) \/ Store(c, FALSE) \/ FailToStore(c)
         \/ \E at \in Time, x \in Reading : Receive(c, at, x)
    \/ \E r \in Request : BeginEnd(r) \/ Ending(r) \/ FailToEnd(r)
    \/ Tick

Spec == Init /\ [][Next]_vars

\* Who has begun goes on, and not by way of a failure: an event loop that is
\* not blocked, and row locks that are granted in the order of the requests.
FairSpec ==
    /\ Spec
    /\ \A c \in Conn : WF_vars(Handle(c))
    /\ \A r \in Request : WF_vars(Ending(r))

-----------------------------------------------------------------------------
(* Reading the samples.                                                    *)

MaxLocationSampleLimit == 5000

Between(from, to) ==
    {s \in samples : (from = None \/ s.at >= from) /\ (to = None \/ s.at <= to)}

\* LocationSampleRepository.list_by_session
ListBySession(from, to, limit) ==
    LET found == InOrder(Between(from, to))
    IN  [i \in {n \in DOMAIN found : n <= limit} |-> found[i]]

-----------------------------------------------------------------------------
(* Properties.                                                             *)

Row == [at : Time, pos : {x.pos : x \in Reading},
        state : {"MOVING", "TEMPORARY_STOP", "UNKNOWN"},
        life : Nat, decided : Nat, alone : BOOLEAN]

Sample == [at : Time, pos : {x.pos : x \in Reading},
           state : {"MOVING", "TEMPORARY_STOP", "UNKNOWN"},
           life : Nat, decided : Nat, alone : BOOLEAN, confirmed : BOOLEAN]

\* The variables keep their types: above all, a stored state is one the
\* table's constraint allows (ck_location_samples_driving_state).
TypeOK ==
    /\ now \in 0..MaxNow /\ sent \in 0..MaxUpdates /\ life \in 0..Cardinality(Conn)
    /\ status \in {"ACTIVE", "COMPLETED", "ABORTED"}
    /\ samples \subseteq Sample
    /\ lock \in Conn \cup Request \cup {None}
    /\ current \in Conn \cup {None}
    /\ runtime.state \in {"MOVING", "TEMPORARY_STOP", "UNKNOWN"}
    /\ runtime.at \in Time \cup {None} /\ runtime.persistedAt \in Time \cup {None}
    /\ phase \in [Conn -> {"away", "admitted", "replacing", "receiving", "closing",
                           "gone"} \cup Persisting]
    /\ update \in [Conn -> Row \cup {NoUpdate}]
    /\ \A c \in Conn : Busy(c) <=> update[c] \in Row
    /\ asked \in [Request -> {"idle", "begun", "ending", "ended", "refused", "failed"}]

\* No sample is added to a session that is over, whatever a handler was in
\* the middle of when it ended, and what the end stored stays.
OverIsOver ==
    [][status # "ACTIVE" => UNCHANGED <<samples, status, summary>>]_vars

\* Samples of one runtime were decided on in the order of the client's times,
\* and at least an interval apart, but when another handler of the session
\* was storing one at that moment or the answer to a commit was lost.
StoredApart ==
    \A x, y \in samples : x.life = y.life /\ x.at < y.at =>
        /\ x.decided <= y.decided
        /\ x.confirmed /\ y.alone => y.decided - x.decided >= Interval

\* What the runtime goes by when it leaves an update out is a sample that
\* really is in the database, although replaced handlers mark it as well.
MarkedIsStored ==
    runtime.persistedAt # None => ExistsAt(runtime.persistedAt)

\* The interval between the samples is kept although the runtime, whose marks
\* stand for what is stored, is shared by the handlers of a session.
IntervalKept == TypeOK /\ StoredApart /\ MarkedIsStored

\* The way from the start over all samples to the end, each leg from the
\* sample before.
Way(set, to) ==
    LET last(ys) == IF ys = {} THEN Start
                    ELSE (CHOOSE y \in ys : \A z \in ys : z.at <= y.at).pos
        leg(x) == Metres(last({y \in set : y.at < x.at}), x.pos)
    IN  Sum([x \in set |-> leg(x)]) + (IF to = None THEN 0 ELSE Metres(last(set), to))

\* A session that ended holds at most the length of its way, and all of it
\* unless a sample was stored while the request was under way; and no less
\* than the direct distance.
DistanceOfSamples ==
    /\ summary.distance \in Nat /\ summary.speed \in Nat
    /\ \A r \in Request : asked[r] = "ended" =>
          /\ summary.distance <= Way(samples, summary.to)
          /\ samples = snapshot[r] => summary.distance = Way(samples, summary.to)
          /\ summary.to # None => summary.distance >= Metres(Start, summary.to)

\* Reading the samples in two intervals, as far as they fit the limit, finds
\* all of them, in order; and reading on from the last one, two or more at a
\* time, goes on where the reading stopped.
WindowsCover ==
    LET List(from, to) == ListBySession(from, to, MaxLocationSampleLimit)
        Rest(from) == InOrder(Between(from, None))
    IN  /\ \A t \in Time : Cardinality(samples) <= MaxLocationSampleLimit =>
              List(None, None)
                 = List(None, t) \o (IF ExistsAt(t) THEN Tail(List(t, None)) ELSE List(t, None))
        /\ \A from \in Time \cup {None}, limit \in {2, MaxLocationSampleLimit} :
              LET page == ListBySession(from, None, limit)
              IN  page # << >> => Rest(from) = page \o Tail(Rest(page[Len(page)].at))

\* What is read of the samples, in windows or as a length, is all of them.
SamplesReadWhole == DistanceOfSamples /\ WindowsCover

\* A handler that stores an update comes back to its socket, and a request
\* to end the session is answered, however their locks meet.
EveryoneAnswered ==
    /\ \A c \in Conn : Busy(c) ~> ~Busy(c)
    /\ \A r \in Request : asked[r] = "begun" ~> asked[r] \in {"ended", "refused", "failed"}

-----------------------------------------------------------------------------
(* The inductive invariant.                                                *)

Served == {c \in Conn : phase[c] \notin {"away", "admitted", "replacing"}}

\* The runtime there is, if any, is the last that was created; a connection
\* creates at most one.
Runtimes ==
    /\ runtime \in [life : {0, life}, at : Time \cup {None},
                    pos : {x.pos : x \in Reading} \cup {None},
                    state : {"MOVING", "TEMPORARY_STOP", "UNKNOWN"},
                    persistedAt : Time \cup {None}, persisted : Nat \cup {None}]
    /\ runtime.life = 0 => runtime = NoRuntime
    /\ life <= Cardinality(Served)

\* Who writes to the session's rows has its lock, and found it active.
WritersHold ==
    /\ \A c \in Conn : phase[c] = "storing" => lock = c /\ status = "ACTIVE"
    /\ \A r \in Request : asked[r] = "ending" => lock = r /\ status = "ACTIVE"

Handled == {update[c] : c \in {d \in Conn : Busy(d)}}

\* An update was decided on in the past, and if its runtime is still there, no
\* later one has an earlier time.
Decided(y) ==
    /\ y.decided <= now /\ y.life \in 1..life
    /\ y.life = runtime.life => runtime.at # None /\ y.at <= runtime.at

InOrderOf(x, y) == x.life = y.life /\ x.at < y.at => x.decided <= y.decided

Apart(x, y) ==
    x.life = y.life /\ x.at < y.at /\ x.confirmed /\ y.alone =>
        y.decided - x.decided >= Interval

\* Nothing that is still to be stored is from before an update that found no
\* other under way.
AloneIsLast(u, y) == u.life = y.life /\ y.alone => y.at <= u.at

Orders ==
    /\ \A y \in samples \cup Handled : Decided(y)
    /\ \A x, y \in samples \cup Handled : InOrderOf(x, y)
    /\ \A x \in samples, y \in samples \cup Handled : Apart(x, y)
    /\ \A u \in Handled, y \in samples \cup Handled : AloneIsLast(u, y)

\* A sample of the runtime that its handler knows to be stored is marked, or
\* some handler is about to mark the present time.
Marks ==
    /\ \A c \in Conn : phase[c] = "marking" => ExistsAt(update[c].at)
    /\ runtime.persisted # None => runtime.persisted <= now
    /\ \A x \in samples : x.confirmed /\ x.life = runtime.life =>
          \/ \E c \in Conn : phase[c] = "marking"
          \/ runtime.persisted # None /\ x.decided <= runtime.persisted

IInv ==
    /\ TypeOK
    /\ Runtimes
    /\ WritersHold
    /\ Orders
    /\ Marks
    /\ MarkedIsStored
=============================================================================
