--------------------------- MODULE BehaviorEvents ---------------------------
(***************************************************************************)
(* The behaviour events of one driving session: the rows of                *)
(* behavior_events that the inference workers of the session's connections *)
(* open and close (app/services/behavior_event_service.py, called by the   *)
(* detection pipeline), the one the runtime tracks                         *)
(* (app/realtime/session_runtime.py), and end_session, which closes those  *)
(* it sees (app/services/driving_session_service.py).                      *)
(*                                                                         *)
(* A writer is the worker of one connection, and its generation.  The      *)
(* database is external: MySQL's InnoDB at REPEATABLE READ.  A plain read  *)
(* sees the snapshot the transaction began with; a read FOR UPDATE sees    *)
(* what is committed, and locks the rows it found and the gaps it searched *)
(* until the transaction ends.  Gap locks exclude inserts and not each     *)
(* other.  An insert also waits for the lock of the session's row.         *)
(***************************************************************************)
EXTENDS Naturals, FiniteSets

CONSTANTS Writer,     \* workers, one per connection of the session
          Type,       \* event behaviour types
          Event,      \* ids the rows can get, a bound on their number
          End,        \* end_session, as the closer of a row
          None

ASSUME DistinctAssumption ==
    /\ Type \cap Event = {}
    /\ End \notin Writer
    /\ None \notin Writer \cup Type \cup Event \cup {End}

VARIABLES
    registered,   \* the writer of the connection the manager has registered
    serving,      \* the writer of the runtime's generation
    activeType,   \* runtime.active_event_behavior_type
    activeEvent,  \* runtime.active_behavior_event_id
    phase,        \* per writer
    write,        \* per writer: the transition it is writing, its behaviour
                  \* type, and the event it was given, or found, or wrote
    locks,        \* per writer: rows locked, and types whose gaps are
    status,       \* of the row of each event
    type,         \* behavior_type of each row
    closedBy,     \* resolution_reason, and the writer that gave it
    ahead,        \* rows whose started_at is later than the server's clock
    session,      \* status of the driving session
    ender,        \* phase of the end request
    snapshot      \* the active events the end request saw

runtimeVars == <<registered, serving, activeType, activeEvent>>
writerVars == <<phase, write, locks>>
rowVars == <<status, type, closedBy, ahead>>
endVars == <<session, ender, snapshot>>
vars == <<runtimeVars, writerVars, rowVars, endVars>>

WriterPhase == {"new", "registered", "idle", "observed", "validated",
                "locked", "committed", "stopped"}

Running == {"idle", "observed", "validated", "locked", "committed"}

Open == {e \in Event : status[e] = "ACTIVE"}

Nothing == [kind |-> "none", type |-> None, event |-> None]

OpenOf(t) == {e \in Open : type[e] = t}

----------------------------------------------------------------------------

Init ==
    /\ registered = None
    /\ serving = None
    /\ activeType = None
    /\ activeEvent = None
    /\ phase = [w \in Writer |-> "new"]
    /\ write = [w \in Writer |-> Nothing]
    /\ locks = [w \in Writer |-> {}]
    /\ status = [e \in Event |-> "absent"]
    /\ type = [e \in Event |-> None]
    /\ closedBy = [e \in Event |-> None]
    /\ ahead = [e \in Event |-> FALSE]
    /\ session = "ACTIVE"
    /\ ender = "idle"
    /\ snapshot = {}

----------------------------------------------------------------------------
(* Connections.                                                            *)

\* The session was ACTIVE when the connection was admitted, earlier.
Register(w) ==
    /\ phase[w] = "new"
    /\ registered' = w
    /\ phase' = [phase EXCEPT ![w] = "registered"]
    /\ UNCHANGED <<serving, activeType, activeEvent, write, locks,
                   rowVars, endVars>>

\* prepare_connection forgets the behaviour of the connection before.
PrepareConnection(w) ==
    /\ phase[w] = "registered"
    /\ serving' = w
    /\ activeType' = None
    /\ activeEvent' = None
    /\ phase' = [phase EXCEPT ![w] = "idle"]
    /\ UNCHANGED <<registered, write, locks, rowVars, endVars>>

MutRestKeepsLocks(w, p) ==
    /\ phase' = [phase EXCEPT ![w] = p]
    /\ write' = [write EXCEPT ![w] = Nothing]
    /\ UNCHANGED locks

\* The end of handle_transition: its session and its locks are gone.
Rest(w, p) ==
    /\ phase' = [phase EXCEPT ![w] = p]
    /\ write' = [write EXCEPT ![w] = Nothing]
    /\ locks' = [locks EXCEPT ![w] = {}]

\* The handler cancels its worker, wherever that is, and leaves.  A
\* transaction that is not committed is rolled back.
Stop(w) ==
    /\ phase[w] \in Running
    /\ Rest(w, "stopped")
    /\ IF registered = w
       THEN /\ registered' = None
            /\ serving' = None
            /\ activeType' = None
            /\ activeEvent' = None
       ELSE UNCHANGED runtimeVars
    /\ UNCHANGED <<rowVars, endVars>>

----------------------------------------------------------------------------
(* observe_behavior_result: the policy's transition, and what the runtime   *)
(* had been tracking.                                                      *)

\* Bound: every transition under way that may create an event has an id left.
IdsLeft ==
    Cardinality({v \in Writer : write[v].kind = "STARTED"})
       < Cardinality({e \in Event : status[e] = "absent"})

Started(w, t) ==
    /\ IdsLeft
    /\ phase[w] = "idle" /\ serving = w
    /\ activeType = None
    /\ activeType' = t
    /\ phase' = [phase EXCEPT ![w] = "observed"]
    /\ write' = [write EXCEPT
                   ![w] = [kind |-> "STARTED", type |-> t, event |-> None]]
    /\ UNCHANGED <<registered, serving, activeEvent, locks, rowVars, endVars>>

\* An UPDATED transition changes the runtime and is never written.
Updated(w, t) ==
    /\ phase[w] = "idle" /\ serving = w
    /\ activeType \notin {None, t}
    /\ activeType' = t
    /\ UNCHANGED <<registered, serving, activeEvent, writerVars, rowVars,
                   endVars>>

EventAfterCleared == None

Cleared(w) ==
    /\ phase[w] = "idle" /\ serving = w
    /\ activeType # None
    /\ activeType' = None
    /\ activeEvent' = EventAfterCleared
    /\ phase' = [phase EXCEPT ![w] = "observed"]
    /\ write' = [write EXCEPT ![w] = [kind |-> "CLEARED", type |-> activeType,
                                      event |-> activeEvent]]
    /\ UNCHANGED <<registered, serving, locks, rowVars, endVars>>

----------------------------------------------------------------------------
(* handle_transition.                                                      *)

\* is_current and _validate_runtime_generation.
Validate(w) ==
    /\ phase[w] = "observed"
    /\ IF serving = w
       THEN /\ phase' = [phase EXCEPT ![w] = "validated"]
            /\ UNCHANGED <<write, locks>>
       ELSE Rest(w, "idle")
    /\ UNCHANGED <<runtimeVars, rowVars, endVars>>

\* is_current says that the connection was replaced, prepared or not.
Replaced(w) ==
    /\ phase[w] = "observed" /\ registered # w
    /\ Rest(w, "idle")
    /\ UNCHANGED <<runtimeVars, rowVars, endVars>>

\* A row another transaction has locked makes a FOR UPDATE wait.
FreeFor(w, rows) == \A v \in Writer \ {w} : locks[v] \cap rows = {}

MutPlainRead(rows, gaps) == {}

Locked(rows, gaps) == rows \cup gaps

\* A locking read takes its rows and gaps together.
Read(w, found, rows, gaps) ==
    /\ phase[w] = "validated"
    /\ FreeFor(w, rows)
    /\ write' = [write EXCEPT ![w].event = found]
    /\ locks' = [locks EXCEPT ![w] = Locked(rows, gaps)]
    /\ phase' = [phase EXCEPT ![w] = "locked"]
    /\ UNCHANGED <<runtimeVars, rowVars, endVars>>

\* list_open_by_session_for_update: reuse an event of the same type.
ReadForStarted(w) ==
    /\ write[w].kind = "STARTED"
    /\ \/ \E e \in OpenOf(write[w].type) : Read(w, e, Open, Type)
       \/ OpenOf(write[w].type) = {} /\ Read(w, None, Open, Type)

\* get_open_by_id_for_update, else get_open_by_session_and_type_for_update.
ReadForCleared(w) ==
    /\ write[w].kind = "CLEARED"
    /\ IF write[w].event \in Open
       THEN Read(w, write[w].event, {write[w].event}, {})
       ELSE \/ \E e \in OpenOf(write[w].type) :
                  Read(w, e, OpenOf(write[w].type), {write[w].type})
            \/ /\ OpenOf(write[w].type) = {}
               /\ Read(w, None, {}, {write[w].type})

\* Rows this transaction leaves RESOLVED: all it read but the one to reuse.
ToClose(w) ==
    IF write[w].kind = "STARTED" THEN (locks[w] \cap Event) \ {write[w].event}
                           ELSE {write[w].event} \ {None}

Close(events, by) ==
    /\ status' = [e \in Event |->
                     IF e \in events THEN "RESOLVED" ELSE status[e]]
    /\ closedBy' = [e \in Event |-> IF e \in events THEN by ELSE closedBy[e]]

Committed(w) ==
    /\ phase' = [phase EXCEPT ![w] = "committed"]
    /\ locks' = [locks EXCEPT ![w] = {}]

\* Another transaction's gap lock, or its lock on the session, makes the
\* insert wait.
MayInsert(w) ==
    /\ \A v \in Writer \ {w} : write[w].type \notin locks[v]
    /\ ender # "holding"

\* A new event, whose started_at is the client's clock.
CommitCreated(w) ==
    /\ phase[w] = "locked" /\ write[w].kind = "STARTED" /\ write[w].event = None
    /\ MayInsert(w)
    /\ \E e \in Event, early \in BOOLEAN :
          /\ status[e] = "absent"
          /\ status' = [f \in Event |->
                           IF f \in ToClose(w) THEN "RESOLVED"
                           ELSE IF f = e THEN "ACTIVE" ELSE status[f]]
          /\ closedBy' = [f \in Event |->
                             IF f \in ToClose(w) THEN w ELSE closedBy[f]]
          /\ type' = [type EXCEPT ![e] = write[w].type]
          /\ ahead' = [ahead EXCEPT ![e] = early]
          /\ write' = [write EXCEPT ![w].event = e]
    /\ Committed(w)
    /\ UNCHANGED <<runtimeVars, endVars>>

\* The reused event, or the cleared one.
CommitFound(w) ==
    /\ phase[w] = "locked" /\ write[w].event # None
    /\ Close(ToClose(w), w)
    /\ Committed(w)
    /\ UNCHANGED <<runtimeVars, write, type, ahead, endVars>>

\* OPEN_EVENT_NOT_FOUND
CommitNothing(w) ==
    /\ phase[w] = "locked" /\ write[w].kind = "CLEARED" /\ write[w].event = None
    /\ Rest(w, "idle")
    /\ UNCHANGED <<runtimeVars, rowVars, endVars>>

\* WRITE_FAILED: the transaction is rolled back and not tried again.
RollBack(w) ==
    /\ phase[w] \in {"validated", "locked"}
    /\ Rest(w, "idle")
    /\ UNCHANGED <<runtimeVars, rowVars, endVars>>

MutAnyGeneration(w) == TRUE

GenerationMatches(w) == serving = w

\* record_active_behavior_event
RecordStarted(w) ==
    /\ phase[w] = "committed" /\ write[w].kind = "STARTED"
    /\ activeEvent' = IF GenerationMatches(w) /\ activeType = write[w].type
                      THEN write[w].event ELSE activeEvent
    /\ Rest(w, "idle")
    /\ UNCHANGED <<registered, serving, activeType, rowVars, endVars>>

\* clear_active_behavior_event
RecordCleared(w) ==
    /\ phase[w] = "committed" /\ write[w].kind = "CLEARED"
    /\ activeEvent' = IF GenerationMatches(w) /\ activeEvent = write[w].event
                      THEN None ELSE activeEvent
    /\ Rest(w, "idle")
    /\ UNCHANGED <<registered, serving, activeType, rowVars, endVars>>

----------------------------------------------------------------------------
(* end_session.                                                            *)

\* Loading the account takes the transaction's snapshot.
EndBegins ==
    /\ ender = "idle"
    /\ session = "ACTIVE"
    /\ snapshot' = Open
    /\ ender' = "begun"
    /\ UNCHANGED <<runtimeVars, writerVars, rowVars, session>>

\* get_owned_by_account_for_update; an insert holds that lock only while it
\* commits.
EndLocksSession ==
    /\ ender = "begun"
    /\ ender' = "holding"
    /\ UNCHANGED <<runtimeVars, writerVars, rowVars, session, snapshot>>

EndMayWrite ==
    /\ ender = "holding"
    /\ \A w \in Writer : locks[w] \cap snapshot = {}

EndCommits ==
    /\ EndMayWrite
    /\ \A e \in snapshot : ~ahead[e]
    /\ Close(snapshot, End)
    /\ session' = "COMPLETED"
    /\ ender' = "ended"
    /\ UNCHANGED <<runtimeVars, writerVars, type, ahead, snapshot>>

\* ended_at is the server's time: the row's check constraint fails when its
\* started_at is later, and the whole end is rolled back.
EndRejected ==
    /\ EndMayWrite
    /\ \E e \in snapshot : ahead[e]
    /\ ender' = "idle"
    /\ snapshot' = {}
    /\ UNCHANGED <<runtimeVars, writerVars, rowVars, session>>

EndRollsBack ==
    /\ ender \in {"begun", "holding"}
    /\ ender' = "idle"
    /\ snapshot' = {}
    /\ UNCHANGED <<runtimeVars, writerVars, rowVars, session>>

\* The server's clock reaches a started_at.
CatchUp(e) ==
    /\ ahead[e]
    /\ ahead' = [ahead EXCEPT ![e] = FALSE]
    /\ UNCHANGED <<runtimeVars, writerVars, status, type, closedBy, endVars>>

----------------------------------------------------------------------------
(* A cycle of waits has a victim, which is rolled back.                    *)

\* w waits to insert what v's gap locks exclude, and v what w's do.
InsertsBlocked(w, v) ==
    /\ w # v
    /\ \A x \in {w, v} : phase[x] = "locked" /\ write[x].kind = "STARTED" /\ write[x].event = None
    /\ write[w].type \in locks[v] /\ write[v].type \in locks[w]

\* w waits for the session's row, and its holder for a row of w's.
EndBlocked(w) ==
    /\ phase[w] = "locked" /\ write[w].kind = "STARTED" /\ write[w].event = None
    /\ ender = "holding" /\ locks[w] \cap snapshot # {}

DeadlockVictim(w) ==
    /\ EndBlocked(w) \/ \E v \in Writer : InsertsBlocked(w, v)
    /\ RollBack(w)

Write(w) ==
    \/ CommitCreated(w) \/ CommitFound(w) \/ CommitNothing(w)

WriterStep(w) ==
    \/ Validate(w) \/ Replaced(w) \/ ReadForStarted(w) \/ ReadForCleared(w)
    \/ Write(w) \/ RecordStarted(w) \/ RecordCleared(w)

Next ==
    \/ \E w \in Writer :
          \/ Register(w) \/ PrepareConnection(w) \/ Stop(w)
          \/ \E t \in Type : Started(w, t) \/ Updated(w, t)
          \/ Cleared(w)
          \/ WriterStep(w)
          \/ RollBack(w)
    \/ EndBegins \/ EndLocksSession \/ EndCommits \/ EndRejected
    \/ EndRollsBack
    \/ \E e \in Event : CatchUp(e)

Spec == Init /\ [][Next]_vars

----------------------------------------------------------------------------
(* Properties.                                                             *)

TypeOK ==
    /\ registered \in Writer \cup {None}
    /\ serving \in Writer \cup {None}
    /\ activeType \in Type \cup {None}
    /\ activeEvent \in Event \cup {None}
    /\ phase \in [Writer -> WriterPhase]
    /\ write \in [Writer -> [kind : {"none", "STARTED", "CLEARED"},
                             type : Type \cup {None},
                             event : Event \cup {None}]]
    /\ locks \in [Writer -> SUBSET (Event \cup Type)]
    /\ status \in [Event -> {"absent", "ACTIVE", "RESOLVED"}]
    /\ type \in [Event -> Type \cup {None}]
    /\ closedBy \in [Event -> Writer \cup {End, None}]
    /\ ahead \in [Event -> BOOLEAN]
    /\ session \in {"ACTIVE", "COMPLETED"}
    /\ ender \in {"idle", "begun", "holding", "ended"}
    /\ snapshot \subseteq Event

\* A session has one behaviour at a time: however many workers of its
\* connections write at once, at most one of its events is open.
AtMostOneOpen == \A e, f \in Open : e = f

\* The event the runtime tracks is open, unless another writer's late
\* transaction or the end of the session closed it: the worker that serves
\* never goes on with an event it has closed itself.
TrackedEventNotOwnClosed ==
    activeEvent # None => closedBy[activeEvent] # serving

\* The event a transaction found stays open until that transaction commits:
\* no other worker, and not the end of the session, closes it meanwhile.
HeldEventStaysOpen ==
    \A w \in Writer :
       phase[w] = "locked" => write[w].event \in Open \cup {None}

\* Neither the runtime nor a transaction goes on with an event that was closed
\* behind its back by one of the session's own workers.
TrackingSound == TrackedEventNotOwnClosed /\ HeldEventStaysOpen

InTransaction == {w \in Writer : phase[w] \in {"validated", "locked"}}

\* The open rows the read of a transition is FOR UPDATE of.
RowsToRead(w) ==
    IF write[w].kind = "STARTED" THEN Open
    ELSE IF write[w].event \in Open THEN {write[w].event}
    ELSE OpenOf(write[w].type)

Inserts(w) ==
    phase[w] = "locked" /\ write[w].kind = "STARTED" /\ write[w].event = None

Waits(w) ==
    \/ phase[w] = "validated" /\ ~FreeFor(w, RowsToRead(w))
    \/ Inserts(w) /\ ~MayInsert(w)

\* However transactions wait for rows, gaps and the session, one of them does
\* not wait, or is in one of the two kinds of cycles there are.
WaitsEnd ==
    InTransaction # {} \/ ender \in {"begun", "holding"} =>
        \/ \E w \in InTransaction :
              ~Waits(w) \/ EndBlocked(w) \/ \E v \in Writer : InsertsBlocked(w, v)
        \/ ender = "begun" \/ EndMayWrite

\* No transaction waits for ever, whatever the others lock: while one is under
\* way some transaction goes on, or is a victim that breaks a cycle of waits.
SomeoneGoesOn ==
    /\ WaitsEnd
    /\ InTransaction # {} \/ ender \in {"begun", "holding"} =>
          ENABLED (\/ \E w \in Writer : \/ ReadForStarted(w) \/ ReadForCleared(w)
                                      \/ Write(w) \/ DeadlockVictim(w)
                   \/ EndLocksSession \/ EndCommits \/ EndRejected)

----------------------------------------------------------------------------
(* The inductive invariant.                                                *)

\* Locked rows are open and have one holder, between its read and its commit.
RowsExclusive ==
    \A v, w \in Writer :
       /\ v # w => locks[v] \cap locks[w] \cap Event = {}
       /\ phase[w] # "locked" => locks[w] = {}
       /\ locks[w] \cap Event \subseteq Open

\* A transition about to be written has read all that is open, and found a
\* place in it, or the gap, for its own event.
ReadsUnderLock(w) ==
    /\ write[w].kind = "none" <=>
          phase[w] \notin {"observed", "validated", "locked", "committed"}
    /\ write[w].kind # "none" => write[w].type \in Type
    /\ phase[w] = "locked" /\ write[w].kind = "STARTED" =>
          Open \cup Type \subseteq locks[w]
    /\ phase[w] = "locked" /\ write[w].event # None =>
          write[w].event \in locks[w] \cap Open

ReadUnderLock == \A w \in Writer : ReadsUnderLock(w)

\* The closer of a row and the worker that goes on to track it.
Closers ==
    /\ \A e \in Event : status[e] # "RESOLVED" => closedBy[e] = None
    /\ \A w \in Writer :
          phase[w] = "committed" /\ write[w].kind = "STARTED" =>
             write[w].event # None /\ closedBy[write[w].event] # w

\* The serving worker writes only while the runtime tracks nothing.
Tracking ==
    /\ activeType = None => activeEvent = None
    /\ serving # None =>
          /\ phase[serving] \in Running \cup {"stopped"}
          /\ phase[serving] \notin {"idle", "stopped"} => activeEvent = None

IInv ==
    /\ TypeOK
    /\ RowsExclusive
    /\ ReadUnderLock
    /\ Closers
    /\ Tracking
    /\ AtMostOneOpen
    /\ TrackedEventNotOwnClosed
=============================================================================
