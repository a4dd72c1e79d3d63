------------------------ MODULE BehaviorEventsProofs ------------------------
(***************************************************************************)
(* Proofs about BehaviorEvents, for any number of writers, event types and *)
(* events.  Every step preserves IInv; what matters in it is that a        *)
(* transaction about to insert an event holds every open row and the gaps  *)
(* of every type, so the row it adds is the only one left open.            *)
(***************************************************************************)
EXTENDS BehaviorEvents, TLAPS

LEMMA InitInv == Init => IInv
  BY DistinctAssumption
  DEF Init, IInv, TypeOK, RowsExclusive, ReadUnderLock, ReadsUnderLock,
      Closers, Tracking, AtMostOneOpen, TrackedEventNotOwnClosed, Open,
      Nothing, WriterPhase

\* A read keeps the types: it locks rows and gaps and notes the event found.
LEMMA ReadTypes ==
    ASSUME TypeOK, NEW w \in Writer, NEW found \in Event \cup {None},
           NEW rows \in SUBSET Event, NEW gaps \in SUBSET Type,
           Read(w, found, rows, gaps)
    PROVE  TypeOK'
<1>1. locks' \in [Writer -> SUBSET (Event \cup Type)]
  BY DEF TypeOK, Read, Locked
<1>2. phase' \in [Writer -> WriterPhase]
  BY DEF TypeOK, Read, WriterPhase
<1>3. write' \in [Writer -> [kind : {"none", "STARTED", "CLEARED"},
                            type : Type \cup {None},
                            event : Event \cup {None}]]
  BY DEF TypeOK, Read
<1> QED
  BY <1>1, <1>2, <1>3 DEF TypeOK, Read, runtimeVars, rowVars, endVars

\* A step that changes the write of one worker disturbs no other's locks.
LEMMA OthersRead ==
    ASSUME TypeOK, ReadUnderLock, NEW w \in Writer, NEW v \in Writer \ {w},
           phase'[v] = phase[v], write'[v] = write[v], locks'[v] = locks[v],
           UNCHANGED status
    PROVE  ReadsUnderLock(v)'
  BY DEF ReadUnderLock, ReadsUnderLock, Open

\* A step of the end request that writes no row.
LEMMA OnlyTheEnd ==
    ASSUME IInv, UNCHANGED <<runtimeVars, writerVars, rowVars, session>>,
           ender' \in {"idle", "begun", "holding"}, snapshot' \subseteq Event
    PROVE  IInv'
  BY DEF IInv, TypeOK, RowsExclusive, ReadUnderLock, ReadsUnderLock, Closers,
     Tracking, AtMostOneOpen, TrackedEventNotOwnClosed, Open, runtimeVars,
     writerVars, rowVars

-----------------------------------------------------------------------------
(* Connections.                                                            *)

LEMMA RegisterStep ==
    ASSUME IInv, NEW w \in Writer, Register(w)
    PROVE  IInv'
<1>1. TypeOK'
  BY DistinctAssumption DEF IInv, TypeOK, Register, rowVars, endVars,
     WriterPhase
<1>2. RowsExclusive'
  BY DistinctAssumption DEF IInv, TypeOK, RowsExclusive, Register, rowVars,
     endVars, Open
<1>3. ReadUnderLock'
  BY DistinctAssumption DEF IInv, TypeOK, RowsExclusive, ReadUnderLock,
     ReadsUnderLock, Register, rowVars, endVars, Open
<1>4. Closers'
  BY DistinctAssumption DEF IInv, TypeOK, RowsExclusive, ReadUnderLock,
     ReadsUnderLock, Closers, Register, rowVars, endVars
<1>5. Tracking'
  BY DistinctAssumption DEF IInv, TypeOK, ReadUnderLock, ReadsUnderLock,
     Tracking, Register, rowVars, endVars, Running
<1>6. AtMostOneOpen'
  BY DistinctAssumption DEF IInv, TypeOK, ReadUnderLock, ReadsUnderLock,
     AtMostOneOpen, Register, rowVars, endVars, Open
<1>7. TrackedEventNotOwnClosed'
  BY DistinctAssumption DEF IInv, TypeOK, ReadUnderLock, ReadsUnderLock,
     Closers, Tracking, TrackedEventNotOwnClosed, Register, rowVars, endVars
<1> QED BY <1>1, <1>2, <1>3, <1>4, <1>5, <1>6, <1>7 DEF IInv

LEMMA PrepareConnectionStep ==
    ASSUME IInv, NEW w \in Writer, PrepareConnection(w)
    PROVE  IInv'
<1>1. TypeOK'
  BY DistinctAssumption DEF IInv, TypeOK, PrepareConnection, rowVars, endVars,
     WriterPhase
<1>2. RowsExclusive'
  BY DistinctAssumption DEF IInv, TypeOK, RowsExclusive, PrepareConnection,
     rowVars, endVars, Open
<1>3. ReadUnderLock'
  BY DistinctAssumption DEF IInv, TypeOK, RowsExclusive, ReadUnderLock,
     ReadsUnderLock, PrepareConnection, rowVars, endVars, Open
<1>4. Closers'
  BY DistinctAssumption DEF IInv, TypeOK, RowsExclusive, ReadUnderLock,
     ReadsUnderLock, Closers, PrepareConnection, rowVars, endVars
<1>5. Tracking'
  BY DistinctAssumption DEF IInv, TypeOK, ReadUnderLock, ReadsUnderLock,
     Tracking, PrepareConnection, rowVars, endVars, Running
<1>6. AtMostOneOpen'
  BY DistinctAssumption DEF IInv, TypeOK, ReadUnderLock, ReadsUnderLock,
     AtMostOneOpen, PrepareConnection, rowVars, endVars, Open
<1>7. TrackedEventNotOwnClosed'
  BY DistinctAssumption DEF IInv, TypeOK, ReadUnderLock, ReadsUnderLock,
     Closers, Tracking, TrackedEventNotOwnClosed, PrepareConnection, rowVars,
     endVars
<1> QED BY <1>1, <1>2, <1>3, <1>4, <1>5, <1>6, <1>7 DEF IInv

LEMMA StopStep ==
    ASSUME IInv, NEW w \in Writer, Stop(w)
    PROVE  IInv'
<1>1. TypeOK'
  BY DistinctAssumption DEF IInv, TypeOK, Stop, runtimeVars, rowVars, endVars,
     Rest, Running, Nothing, WriterPhase
<1>2. RowsExclusive'
  BY DistinctAssumption DEF IInv, TypeOK, RowsExclusive, Stop, runtimeVars,
     rowVars, endVars, Rest, Running, Nothing, Open
<1>3. ReadUnderLock'
  BY DistinctAssumption DEF IInv, TypeOK, RowsExclusive, ReadUnderLock,
     ReadsUnderLock, Stop, runtimeVars, rowVars, endVars, Rest, Running,
     Nothing, Open
<1>4. Closers'
  BY DistinctAssumption DEF IInv, TypeOK, RowsExclusive, ReadUnderLock,
     ReadsUnderLock, Closers, Stop, runtimeVars, rowVars, endVars, Rest,
     Running, Nothing
<1>5. Tracking'
  BY DistinctAssumption DEF IInv, TypeOK, ReadUnderLock, ReadsUnderLock,
     Tracking, Stop, runtimeVars, rowVars, endVars, Rest, Running, Nothing
<1>6. AtMostOneOpen'
  BY DistinctAssumption DEF IInv, TypeOK, ReadUnderLock, ReadsUnderLock,
     AtMostOneOpen, Stop, runtimeVars, rowVars, endVars, Rest, Running,
     Nothing, Open
<1>7. TrackedEventNotOwnClosed'
  BY DistinctAssumption DEF IInv, TypeOK, ReadUnderLock, ReadsUnderLock,
     Closers, Tracking, TrackedEventNotOwnClosed, Stop, runtimeVars, rowVars,
     endVars, Rest, Running, Nothing
<1> QED BY <1>1, <1>2, <1>3, <1>4, <1>5, <1>6, <1>7 DEF IInv

-----------------------------------------------------------------------------
(* The policy's transitions.                                               *)

LEMMA StartedStep ==
    ASSUME IInv, NEW w \in Writer, NEW t \in Type, Started(w, t)
    PROVE  IInv'
<1>1. TypeOK'
  BY DistinctAssumption DEF IInv, TypeOK, Started, rowVars, endVars,
     WriterPhase
<1>2. RowsExclusive'
  BY DistinctAssumption DEF IInv, TypeOK, RowsExclusive, Started, rowVars,
     endVars, Open
<1>3. ReadUnderLock'
  <2>1. ReadsUnderLock(w)'
    <3>1. write'[w] = [kind |-> "STARTED", type |-> t, event |-> None] /\ phase'[w] = "observed"
      BY DEF IInv, TypeOK, Started
    <3> QED BY <3>1, DistinctAssumption DEF ReadsUnderLock, IInv, TypeOK
  <2>2. ASSUME NEW v \in Writer \ {w} PROVE ReadsUnderLock(v)'
    BY OthersRead DEF IInv, TypeOK, Started, rowVars
  <2> QED BY <2>1, <2>2 DEF ReadUnderLock
<1>4. Closers'
  BY DistinctAssumption DEF IInv, TypeOK, RowsExclusive, ReadUnderLock,
     ReadsUnderLock, Closers, Started, rowVars, endVars
<1>5. Tracking'
  BY DistinctAssumption DEF IInv, TypeOK, ReadUnderLock, ReadsUnderLock,
     Tracking, Started, rowVars, endVars, Running
<1>6. AtMostOneOpen'
  BY DistinctAssumption DEF IInv, TypeOK, ReadUnderLock, ReadsUnderLock,
     AtMostOneOpen, Started, rowVars, endVars, Open
<1>7. TrackedEventNotOwnClosed'
  BY DistinctAssumption DEF IInv, TypeOK, ReadUnderLock, ReadsUnderLock,
     Closers, Tracking, TrackedEventNotOwnClosed, Started, rowVars, endVars
<1> QED BY <1>1, <1>2, <1>3, <1>4, <1>5, <1>6, <1>7 DEF IInv

LEMMA UpdatedStep ==
    ASSUME IInv, NEW w \in Writer, NEW t \in Type, Updated(w, t)
    PROVE  IInv'
<1>1. TypeOK'
  BY DistinctAssumption DEF IInv, TypeOK, Updated, writerVars, rowVars,
     endVars, WriterPhase
<1>2. RowsExclusive'
  BY DistinctAssumption DEF IInv, TypeOK, RowsExclusive, Updated, writerVars,
     rowVars, endVars, Open
<1>3. ReadUnderLock'
  BY DistinctAssumption DEF IInv, TypeOK, RowsExclusive, ReadUnderLock,
     ReadsUnderLock, Updated, writerVars, rowVars, endVars, Open
<1>4. Closers'
  BY DistinctAssumption DEF IInv, TypeOK, RowsExclusive, ReadUnderLock,
     ReadsUnderLock, Closers, Updated, writerVars, rowVars, endVars
<1>5. Tracking'
  BY DistinctAssumption DEF IInv, TypeOK, ReadUnderLock, ReadsUnderLock,
     Tracking, Updated, writerVars, rowVars, endVars, Running
<1>6. AtMostOneOpen'
  BY DistinctAssumption DEF IInv, TypeOK, ReadUnderLock, ReadsUnderLock,
     AtMostOneOpen, Updated, writerVars, rowVars, endVars, Open
<1>7. TrackedEventNotOwnClosed'
  BY DistinctAssumption DEF IInv, TypeOK, ReadUnderLock, ReadsUnderLock,
     Closers, Tracking, TrackedEventNotOwnClosed, Updated, writerVars, rowVars,
     endVars
<1> QED BY <1>1, <1>2, <1>3, <1>4, <1>5, <1>6, <1>7 DEF IInv

LEMMA ClearedStep ==
    ASSUME IInv, NEW w \in Writer, Cleared(w)
    PROVE  IInv'
<1>1. TypeOK'
  BY DistinctAssumption DEF IInv, TypeOK, Cleared, rowVars, endVars,
     EventAfterCleared, WriterPhase
<1>2. RowsExclusive'
  BY DistinctAssumption DEF IInv, TypeOK, RowsExclusive, Cleared, rowVars,
     endVars, EventAfterCleared, Open
<1>3. ReadUnderLock'
  <2>1. ReadsUnderLock(w)'
    <3>1. /\ write'[w] = [kind |-> "CLEARED", type |-> activeType,
                        event |-> activeEvent]
         /\ phase'[w] = "observed"
         /\ activeType \in Type
      BY DEF IInv, TypeOK, Cleared
    <3> QED BY <3>1, DistinctAssumption DEF ReadsUnderLock, IInv, TypeOK
  <2>2. ASSUME NEW v \in Writer \ {w} PROVE ReadsUnderLock(v)'
    BY OthersRead DEF IInv, TypeOK, Cleared, rowVars
  <2> QED BY <2>1, <2>2 DEF ReadUnderLock
<1>4. Closers'
  BY DistinctAssumption DEF IInv, TypeOK, RowsExclusive, ReadUnderLock,
     ReadsUnderLock, Closers, Cleared, rowVars, endVars, EventAfterCleared
<1>5. Tracking'
  BY DistinctAssumption DEF IInv, TypeOK, ReadUnderLock, ReadsUnderLock,
     Tracking, Cleared, rowVars, endVars, EventAfterCleared, Running
<1>6. AtMostOneOpen'
  BY DistinctAssumption DEF IInv, TypeOK, ReadUnderLock, ReadsUnderLock,
     AtMostOneOpen, Cleared, rowVars, endVars, EventAfterCleared, Open
<1>7. TrackedEventNotOwnClosed'
  BY DistinctAssumption DEF IInv, TypeOK, ReadUnderLock, ReadsUnderLock,
     Closers, Tracking, TrackedEventNotOwnClosed, Cleared, rowVars, endVars,
     EventAfterCleared
<1> QED BY <1>1, <1>2, <1>3, <1>4, <1>5, <1>6, <1>7 DEF IInv

-----------------------------------------------------------------------------
(* handle_transition.                                                      *)

LEMMA ValidateStep ==
    ASSUME IInv, NEW w \in Writer, Validate(w)
    PROVE  IInv'
<1>1. TypeOK'
  <2>1. CASE serving = w
    BY <2>1 DEF IInv, TypeOK, Validate, runtimeVars, rowVars, endVars,
       WriterPhase
  <2>2. CASE serving # w
    <3>1. phase' \in [Writer -> WriterPhase]
      BY <2>2 DEF IInv, TypeOK, Validate, Rest, WriterPhase
    <3>2. locks' \in [Writer -> SUBSET (Event \cup Type)]
      BY <2>2 DEF IInv, TypeOK, Validate, Rest
    <3>3. write' \in [Writer -> [kind : {"none", "STARTED", "CLEARED"},
                                type : Type \cup {None},
                                event : Event \cup {None}]]
      BY <2>2 DEF IInv, TypeOK, Validate, Rest, Nothing
    <3> QED
      BY <3>1, <3>2, <3>3 DEF IInv, TypeOK, Validate, runtimeVars, rowVars,
         endVars
  <2> QED BY <2>1, <2>2
<1>2. RowsExclusive'
  BY DistinctAssumption DEF IInv, TypeOK, RowsExclusive, Validate, runtimeVars,
     rowVars, endVars, Rest, Nothing, Open
<1>3. ReadUnderLock'
  BY DistinctAssumption DEF IInv, TypeOK, RowsExclusive, ReadUnderLock,
     ReadsUnderLock, Validate, runtimeVars, rowVars, endVars, Rest, Nothing,
     Open
<1>4. Closers'
  BY DistinctAssumption DEF IInv, TypeOK, RowsExclusive, ReadUnderLock,
     ReadsUnderLock, Closers, Validate, runtimeVars, rowVars, endVars, Rest,
     Nothing
<1>5. Tracking'
  BY DistinctAssumption DEF IInv, TypeOK, ReadUnderLock, ReadsUnderLock,
     Tracking, Validate, runtimeVars, rowVars, endVars, Rest, Nothing, Running
<1>6. AtMostOneOpen'
  BY DistinctAssumption DEF IInv, TypeOK, ReadUnderLock, ReadsUnderLock,
     AtMostOneOpen, Validate, runtimeVars, rowVars, endVars, Rest, Nothing,
     Open
<1>7. TrackedEventNotOwnClosed'
  BY DistinctAssumption DEF IInv, TypeOK, ReadUnderLock, ReadsUnderLock,
     Closers, Tracking, TrackedEventNotOwnClosed, Validate, runtimeVars,
     rowVars, endVars, Rest, Nothing
<1> QED BY <1>1, <1>2, <1>3, <1>4, <1>5, <1>6, <1>7 DEF IInv

LEMMA ReplacedStep ==
    ASSUME IInv, NEW w \in Writer, Replaced(w)
    PROVE  IInv'
<1>1. TypeOK'
  BY DistinctAssumption DEF IInv, TypeOK, Replaced, runtimeVars, rowVars,
     endVars, Rest, Nothing, WriterPhase
<1>2. RowsExclusive'
  BY DistinctAssumption DEF IInv, TypeOK, RowsExclusive, Replaced, runtimeVars,
     rowVars, endVars, Rest, Nothing, Open
<1>3. ReadUnderLock'
  BY DistinctAssumption DEF IInv, TypeOK, RowsExclusive, ReadUnderLock,
     ReadsUnderLock, Replaced, runtimeVars, rowVars, endVars, Rest, Nothing,
     Open
<1>4. Closers'
  BY DistinctAssumption DEF IInv, TypeOK, RowsExclusive, ReadUnderLock,
     ReadsUnderLock, Closers, Replaced, runtimeVars, rowVars, endVars, Rest,
     Nothing
<1>5. Tracking'
  BY DistinctAssumption DEF IInv, TypeOK, ReadUnderLock, ReadsUnderLock,
     Tracking, Replaced, runtimeVars, rowVars, endVars, Rest, Nothing, Running
<1>6. AtMostOneOpen'
  BY DistinctAssumption DEF IInv, TypeOK, ReadUnderLock, ReadsUnderLock,
     AtMostOneOpen, Replaced, runtimeVars, rowVars, endVars, Rest, Nothing,
     Open
<1>7. TrackedEventNotOwnClosed'
  BY DistinctAssumption DEF IInv, TypeOK, ReadUnderLock, ReadsUnderLock,
     Closers, Tracking, TrackedEventNotOwnClosed, Replaced, runtimeVars,
     rowVars, endVars, Rest, Nothing
<1> QED BY <1>1, <1>2, <1>3, <1>4, <1>5, <1>6, <1>7 DEF IInv

LEMMA ReadForStartedStep ==
    ASSUME IInv, NEW w \in Writer, ReadForStarted(w)
    PROVE  IInv'
<1>1. TypeOK'
  BY ReadTypes DEF IInv, ReadForStarted, Open, OpenOf
<1>2. RowsExclusive'
  BY DistinctAssumption DEF IInv, TypeOK, RowsExclusive, ReadForStarted, Read,
     Open, OpenOf, runtimeVars, rowVars, endVars, Locked, FreeFor
<1>3. ReadUnderLock'
  BY DistinctAssumption DEF IInv, TypeOK, RowsExclusive, ReadUnderLock,
     ReadsUnderLock, ReadForStarted, Read, Open, OpenOf, runtimeVars, rowVars,
     endVars, Locked, FreeFor
<1>4. Closers'
  BY DistinctAssumption DEF IInv, TypeOK, RowsExclusive, ReadUnderLock,
     ReadsUnderLock, Closers, ReadForStarted, Read, Open, OpenOf, runtimeVars,
     rowVars, endVars, Locked, FreeFor
<1>5. Tracking'
  BY DistinctAssumption DEF IInv, TypeOK, ReadUnderLock, ReadsUnderLock,
     Tracking, ReadForStarted, Read, Open, OpenOf, runtimeVars, rowVars,
     endVars, Locked, FreeFor, Running
<1>6. AtMostOneOpen'
  BY DistinctAssumption DEF IInv, TypeOK, ReadUnderLock, ReadsUnderLock,
     AtMostOneOpen, ReadForStarted, Read, Open, OpenOf, runtimeVars, rowVars,
     endVars, Locked, FreeFor
<1>7. TrackedEventNotOwnClosed'
  BY DistinctAssumption DEF IInv, TypeOK, ReadUnderLock, ReadsUnderLock,
     Closers, Tracking, TrackedEventNotOwnClosed, ReadForStarted, Read, Open,
     OpenOf, runtimeVars, rowVars, endVars, Locked, FreeFor
<1> QED BY <1>1, <1>2, <1>3, <1>4, <1>5, <1>6, <1>7 DEF IInv

LEMMA ReadForClearedStep ==
    ASSUME IInv, NEW w \in Writer, ReadForCleared(w)
    PROVE  IInv'
<1>1. TypeOK'
  <2>1. {write[w].type} \in SUBSET Type
    BY DEF IInv, TypeOK, ReadUnderLock, ReadsUnderLock, ReadForCleared
  <2>2. OpenOf(write[w].type) \in SUBSET Event
    BY DEF OpenOf, Open
  <2>3. ASSUME NEW found \in Event \cup {None}, NEW rows \in SUBSET Event,
               NEW gaps \in SUBSET Type, Read(w, found, rows, gaps)
        PROVE  TypeOK'
    BY <2>3, ReadTypes DEF IInv
  <2>4. CASE write[w].event \in Open
    BY <2>3, <2>4 DEF ReadForCleared, Open
  <2>5. CASE write[w].event \notin Open
    BY <2>1, <2>2, <2>3, <2>5 DEF ReadForCleared, OpenOf, Open
  <2> QED BY <2>4, <2>5
<1>2. RowsExclusive'
  BY DistinctAssumption DEF IInv, TypeOK, RowsExclusive, ReadForCleared, Read,
     Open, OpenOf, runtimeVars, rowVars, endVars, Locked, FreeFor
<1>3. ReadUnderLock'
  BY DistinctAssumption DEF IInv, TypeOK, RowsExclusive, ReadUnderLock,
     ReadsUnderLock, ReadForCleared, Read, Open, OpenOf, runtimeVars, rowVars,
     endVars, Locked, FreeFor
<1>4. Closers'
  <2>1. UNCHANGED <<status, closedBy>> /\ phase'[w] = "locked"
    BY DEF IInv, TypeOK, ReadForCleared, Read, rowVars
  <2>2. ASSUME NEW v \in Writer \ {w}
        PROVE  phase'[v] = phase[v] /\ write'[v] = write[v]
    BY DEF IInv, TypeOK, ReadForCleared, Read
  <2> QED BY <2>1, <2>2 DEF IInv, Closers
<1>5. Tracking'
  BY DistinctAssumption DEF IInv, TypeOK, ReadUnderLock, ReadsUnderLock,
     Tracking, ReadForCleared, Read, Open, OpenOf, runtimeVars, rowVars,
     endVars, Locked, FreeFor, Running
<1>6. AtMostOneOpen'
  BY DistinctAssumption DEF IInv, TypeOK, ReadUnderLock, ReadsUnderLock,
     AtMostOneOpen, ReadForCleared, Read, Open, OpenOf, runtimeVars, rowVars,
     endVars, Locked, FreeFor
<1>7. TrackedEventNotOwnClosed'
  BY DistinctAssumption DEF IInv, TypeOK, ReadUnderLock, ReadsUnderLock,
     Closers, Tracking, TrackedEventNotOwnClosed, ReadForCleared, Read, Open,
     OpenOf, runtimeVars, rowVars, endVars, Locked, FreeFor
<1> QED BY <1>1, <1>2, <1>3, <1>4, <1>5, <1>6, <1>7 DEF IInv

LEMMA CommitCreatedStep ==
    ASSUME IInv, NEW w \in Writer, CommitCreated(w)
    PROVE  IInv'
<1>1. TypeOK'
  BY DistinctAssumption DEF IInv, TypeOK, CommitCreated, runtimeVars, endVars,
     Committed, ToClose, MayInsert, WriterPhase
<1>2. RowsExclusive'
  BY DistinctAssumption DEF IInv, TypeOK, RowsExclusive, CommitCreated,
     runtimeVars, endVars, Committed, ToClose, MayInsert, Open
<1>3. ReadUnderLock'
  BY DistinctAssumption DEF IInv, TypeOK, RowsExclusive, ReadUnderLock,
     ReadsUnderLock, CommitCreated, runtimeVars, endVars, Committed, ToClose,
     MayInsert, Open
<1>4. Closers'
  <2> PICK e \in Event, early \in BOOLEAN :
         /\ status[e] = "absent"
         /\ status' = [f \in Event |->
                          IF f \in ToClose(w) THEN "RESOLVED"
                          ELSE IF f = e THEN "ACTIVE" ELSE status[f]]
         /\ closedBy' = [f \in Event |->
                            IF f \in ToClose(w) THEN w ELSE closedBy[f]]
         /\ write' = [write EXCEPT ![w].event = e]
    BY DEF CommitCreated
  <2>1. e \notin ToClose(w) /\ closedBy[e] = None /\ w # None
    BY DistinctAssumption
       DEF IInv, RowsExclusive, ReadUnderLock, ReadsUnderLock, Closers,
           ToClose, CommitCreated, Open
  <2>2. \A f \in Event : status'[f] # "RESOLVED" => closedBy'[f] = None
    BY <2>1 DEF IInv, Closers
  <2>3. write'[w].event = e /\ closedBy'[e] # w /\ e # None
    BY <2>1, DistinctAssumption DEF IInv, TypeOK
  <2>4. ASSUME NEW v \in Writer \ {w}, phase'[v] = "committed",
               write'[v].kind = "STARTED"
        PROVE  write'[v].event # None /\ closedBy'[write'[v].event] # v
    <3>1. phase[v] = "committed" /\ write'[v] = write[v]
      BY <2>4 DEF IInv, TypeOK, CommitCreated, Committed
    <3>2. write[v].event \in Event /\ closedBy[write[v].event] # v
      BY <2>4, <3>1 DEF IInv, TypeOK, Closers
    <3> QED BY <3>1, <3>2, DistinctAssumption
  <2> QED BY <2>2, <2>3, <2>4 DEF Closers
<1>5. Tracking'
  BY DistinctAssumption DEF IInv, TypeOK, ReadUnderLock, ReadsUnderLock,
     Tracking, CommitCreated, runtimeVars, endVars, Committed, ToClose,
     MayInsert, Running
<1>6. AtMostOneOpen'
  BY DistinctAssumption DEF IInv, TypeOK, ReadUnderLock, ReadsUnderLock,
     AtMostOneOpen, CommitCreated, runtimeVars, endVars, Committed, ToClose,
     MayInsert, Open
<1>7. TrackedEventNotOwnClosed'
  BY DistinctAssumption DEF IInv, TypeOK, ReadUnderLock, ReadsUnderLock,
     Closers, Tracking, TrackedEventNotOwnClosed, CommitCreated, runtimeVars,
     endVars, Committed, ToClose, MayInsert
<1> QED BY <1>1, <1>2, <1>3, <1>4, <1>5, <1>6, <1>7 DEF IInv

LEMMA CommitFoundStep ==
    ASSUME IInv, NEW w \in Writer, CommitFound(w)
    PROVE  IInv'
<1>1. TypeOK'
  BY DistinctAssumption DEF IInv, TypeOK, CommitFound, runtimeVars, endVars,
     Committed, Close, ToClose, WriterPhase
<1>2. RowsExclusive'
  BY DistinctAssumption DEF IInv, TypeOK, RowsExclusive, ReadUnderLock,
     ReadsUnderLock, CommitFound, runtimeVars, endVars, Committed, Close,
     ToClose, Open
<1>3. ReadUnderLock'
  BY DistinctAssumption DEF IInv, TypeOK, RowsExclusive, ReadUnderLock,
     ReadsUnderLock, CommitFound, runtimeVars, endVars, Committed, Close,
     ToClose, Open
<1>4. Closers'
  <2>1. write[w].event \in Open /\ closedBy[write[w].event] = None /\ w # None
    BY DistinctAssumption
       DEF IInv, ReadUnderLock, ReadsUnderLock, Closers, CommitFound, Open
  <2>2. \A f \in Event : status'[f] # "RESOLVED" => closedBy'[f] = None
    BY DEF IInv, Closers, CommitFound, Close
  <2>3. ASSUME write[w].kind = "STARTED"
        PROVE  closedBy'[write[w].event] # w
    BY <2>1, <2>3 DEF CommitFound, Close, ToClose, Open
  <2>4. ASSUME NEW v \in Writer \ {w}, phase'[v] = "committed",
               write'[v].kind = "STARTED"
        PROVE  write'[v].event # None /\ closedBy'[write'[v].event] # v
    <3>1. phase[v] = "committed" /\ write'[v] = write[v]
      BY <2>4 DEF IInv, TypeOK, CommitFound, Committed
    <3>2. write[v].event \in Event /\ closedBy[write[v].event] # v
      BY <2>4, <3>1 DEF IInv, TypeOK, Closers
    <3> QED BY <3>1, <3>2, DistinctAssumption DEF CommitFound, Close
  <2> QED BY <2>2, <2>3, <2>4 DEF Closers, CommitFound
<1>5. Tracking'
  BY DistinctAssumption DEF IInv, TypeOK, ReadUnderLock, ReadsUnderLock,
     Tracking, CommitFound, runtimeVars, endVars, Committed, Close, ToClose,
     Running
<1>6. AtMostOneOpen'
  BY DistinctAssumption DEF IInv, TypeOK, ReadUnderLock, ReadsUnderLock,
     AtMostOneOpen, CommitFound, runtimeVars, endVars, Committed, Close,
     ToClose, Open
<1>7. TrackedEventNotOwnClosed'
  BY DistinctAssumption DEF IInv, TypeOK, ReadUnderLock, ReadsUnderLock,
     Closers, Tracking, TrackedEventNotOwnClosed, CommitFound, runtimeVars,
     endVars, Committed, Close, ToClose
<1> QED BY <1>1, <1>2, <1>3, <1>4, <1>5, <1>6, <1>7 DEF IInv

LEMMA CommitNothingStep ==
    ASSUME IInv, NEW w \in Writer, CommitNothing(w)
    PROVE  IInv'
<1>1. TypeOK'
  BY DistinctAssumption DEF IInv, TypeOK, CommitNothing, runtimeVars, rowVars,
     endVars, Rest, Nothing, WriterPhase
<1>2. RowsExclusive'
  BY DistinctAssumption DEF IInv, TypeOK, RowsExclusive, CommitNothing,
     runtimeVars, rowVars, endVars, Rest, Nothing, Open
<1>3. ReadUnderLock'
  BY DistinctAssumption DEF IInv, TypeOK, RowsExclusive, ReadUnderLock,
     ReadsUnderLock, CommitNothing, runtimeVars, rowVars, endVars, Rest,
     Nothing, Open
<1>4. Closers'
  BY DistinctAssumption DEF IInv, TypeOK, RowsExclusive, ReadUnderLock,
     ReadsUnderLock, Closers, CommitNothing, runtimeVars, rowVars, endVars,
     Rest, Nothing
<1>5. Tracking'
  BY DistinctAssumption DEF IInv, TypeOK, ReadUnderLock, ReadsUnderLock,
     Tracking, CommitNothing, runtimeVars, rowVars, endVars, Rest, Nothing,
     Running
<1>6. AtMostOneOpen'
  BY DistinctAssumption DEF IInv, TypeOK, ReadUnderLock, ReadsUnderLock,
     AtMostOneOpen, CommitNothing, runtimeVars, rowVars, endVars, Rest,
     Nothing, Open
<1>7. TrackedEventNotOwnClosed'
  BY DistinctAssumption DEF IInv, TypeOK, ReadUnderLock, ReadsUnderLock,
     Closers, Tracking, TrackedEventNotOwnClosed, CommitNothing, runtimeVars,
     rowVars, endVars, Rest, Nothing
<1> QED BY <1>1, <1>2, <1>3, <1>4, <1>5, <1>6, <1>7 DEF IInv

LEMMA RollBackStep ==
    ASSUME IInv, NEW w \in Writer, RollBack(w)
    PROVE  IInv'
<1>1. TypeOK'
  BY DistinctAssumption DEF IInv, TypeOK, RollBack, runtimeVars, rowVars,
     endVars, Rest, Nothing, WriterPhase
<1>2. RowsExclusive'
  BY DistinctAssumption DEF IInv, TypeOK, RowsExclusive, RollBack, runtimeVars,
     rowVars, endVars, Rest, Nothing, Open
<1>3. ReadUnderLock'
  BY DistinctAssumption DEF IInv, TypeOK, RowsExclusive, ReadUnderLock,
     ReadsUnderLock, RollBack, runtimeVars, rowVars, endVars, Rest, Nothing,
     Open
<1>4. Closers'
  BY DistinctAssumption DEF IInv, TypeOK, RowsExclusive, ReadUnderLock,
     ReadsUnderLock, Closers, RollBack, runtimeVars, rowVars, endVars, Rest,
     Nothing
<1>5. Tracking'
  BY DistinctAssumption DEF IInv, TypeOK, ReadUnderLock, ReadsUnderLock,
     Tracking, RollBack, runtimeVars, rowVars, endVars, Rest, Nothing, Running
<1>6. AtMostOneOpen'
  BY DistinctAssumption DEF IInv, TypeOK, ReadUnderLock, ReadsUnderLock,
     AtMostOneOpen, RollBack, runtimeVars, rowVars, endVars, Rest, Nothing,
     Open
<1>7. TrackedEventNotOwnClosed'
  BY DistinctAssumption DEF IInv, TypeOK, ReadUnderLock, ReadsUnderLock,
     Closers, Tracking, TrackedEventNotOwnClosed, RollBack, runtimeVars,
     rowVars, endVars, Rest, Nothing
<1> QED BY <1>1, <1>2, <1>3, <1>4, <1>5, <1>6, <1>7 DEF IInv

LEMMA RecordStartedStep ==
    ASSUME IInv, NEW w \in Writer, RecordStarted(w)
    PROVE  IInv'
<1>1. TypeOK'
  BY DistinctAssumption DEF IInv, TypeOK, RecordStarted, rowVars, endVars,
     Rest, GenerationMatches, Nothing, WriterPhase
<1>2. RowsExclusive'
  BY DistinctAssumption DEF IInv, TypeOK, RowsExclusive, RecordStarted,
     rowVars, endVars, Rest, GenerationMatches, Nothing, Open
<1>3. ReadUnderLock'
  BY DistinctAssumption DEF IInv, TypeOK, RowsExclusive, ReadUnderLock,
     ReadsUnderLock, RecordStarted, rowVars, endVars, Rest, GenerationMatches,
     Nothing, Open
<1>4. Closers'
  BY DistinctAssumption DEF IInv, TypeOK, RowsExclusive, ReadUnderLock,
     ReadsUnderLock, Closers, RecordStarted, rowVars, endVars, Rest,
     GenerationMatches, Nothing
<1>5. Tracking'
  BY DistinctAssumption DEF IInv, TypeOK, ReadUnderLock, ReadsUnderLock,
     Tracking, RecordStarted, rowVars, endVars, Rest, GenerationMatches,
     Nothing, Running
<1>6. AtMostOneOpen'
  BY DistinctAssumption DEF IInv, TypeOK, ReadUnderLock, ReadsUnderLock,
     AtMostOneOpen, RecordStarted, rowVars, endVars, Rest, GenerationMatches,
     Nothing, Open
<1>7. TrackedEventNotOwnClosed'
  BY DistinctAssumption DEF IInv, TypeOK, ReadUnderLock, ReadsUnderLock,
     Closers, Tracking, TrackedEventNotOwnClosed, RecordStarted, rowVars,
     endVars, Rest, GenerationMatches, Nothing
<1> QED BY <1>1, <1>2, <1>3, <1>4, <1>5, <1>6, <1>7 DEF IInv

LEMMA RecordClearedStep ==
    ASSUME IInv, NEW w \in Writer, RecordCleared(w)
    PROVE  IInv'
<1>1. TypeOK'
  BY DistinctAssumption DEF IInv, TypeOK, RecordCleared, rowVars, endVars,
     Rest, GenerationMatches, Nothing, WriterPhase
<1>2. RowsExclusive'
  BY DistinctAssumption DEF IInv, TypeOK, RowsExclusive, RecordCleared,
     rowVars, endVars, Rest, GenerationMatches, Nothing, Open
<1>3. ReadUnderLock'
  BY DistinctAssumption DEF IInv, TypeOK, RowsExclusive, ReadUnderLock,
     ReadsUnderLock, RecordCleared, rowVars, endVars, Rest, GenerationMatches,
     Nothing, Open
<1>4. Closers'
  BY DistinctAssumption DEF IInv, TypeOK, RowsExclusive, ReadUnderLock,
     ReadsUnderLock, Closers, RecordCleared, rowVars, endVars, Rest,
     GenerationMatches, Nothing
<1>5. Tracking'
  BY DistinctAssumption DEF IInv, TypeOK, ReadUnderLock, ReadsUnderLock,
     Tracking, RecordCleared, rowVars, endVars, Rest, GenerationMatches,
     Nothing, Running
<1>6. AtMostOneOpen'
  BY DistinctAssumption DEF IInv, TypeOK, ReadUnderLock, ReadsUnderLock,
     AtMostOneOpen, RecordCleared, rowVars, endVars, Rest, GenerationMatches,
     Nothing, Open
<1>7. TrackedEventNotOwnClosed'
  BY DistinctAssumption DEF IInv, TypeOK, ReadUnderLock, ReadsUnderLock,
     Closers, Tracking, TrackedEventNotOwnClosed, RecordCleared, rowVars,
     endVars, Rest, GenerationMatches, Nothing
<1> QED BY <1>1, <1>2, <1>3, <1>4, <1>5, <1>6, <1>7 DEF IInv

-----------------------------------------------------------------------------
(* end_session.                                                            *)

LEMMA EndBeginsStep == ASSUME IInv, EndBegins PROVE IInv'
  BY OnlyTheEnd DEF EndBegins, IInv, TypeOK, Open

LEMMA EndLocksSessionStep == ASSUME IInv, EndLocksSession PROVE IInv'
  BY OnlyTheEnd DEF EndLocksSession, IInv, TypeOK, Open

LEMMA EndCommitsStep ==
    ASSUME IInv, EndCommits
    PROVE  IInv'
<1>1. TypeOK'
  BY DistinctAssumption DEF IInv, TypeOK, EndCommits, runtimeVars, writerVars,
     EndMayWrite, Close, WriterPhase
<1>2. RowsExclusive'
  BY DistinctAssumption DEF IInv, TypeOK, RowsExclusive, EndCommits,
     runtimeVars, writerVars, EndMayWrite, Close, Open
<1>3. ReadUnderLock'
  BY DistinctAssumption DEF IInv, TypeOK, RowsExclusive, ReadUnderLock,
     ReadsUnderLock, EndCommits, runtimeVars, writerVars, EndMayWrite, Close,
     Open
<1>4. Closers'
  BY DistinctAssumption DEF IInv, TypeOK, RowsExclusive, ReadUnderLock,
     ReadsUnderLock, Closers, EndCommits, runtimeVars, writerVars, EndMayWrite,
     Close
<1>5. Tracking'
  BY DistinctAssumption DEF IInv, TypeOK, ReadUnderLock, ReadsUnderLock,
     Tracking, EndCommits, runtimeVars, writerVars, EndMayWrite, Close, Running
<1>6. AtMostOneOpen'
  BY DistinctAssumption DEF IInv, TypeOK, ReadUnderLock, ReadsUnderLock,
     AtMostOneOpen, EndCommits, runtimeVars, writerVars, EndMayWrite, Close,
     Open
<1>7. TrackedEventNotOwnClosed'
  BY DistinctAssumption DEF IInv, TypeOK, ReadUnderLock, ReadsUnderLock,
     Closers, Tracking, TrackedEventNotOwnClosed, EndCommits, runtimeVars,
     writerVars, EndMayWrite, Close
<1> QED BY <1>1, <1>2, <1>3, <1>4, <1>5, <1>6, <1>7 DEF IInv

LEMMA EndRejectedStep == ASSUME IInv, EndRejected PROVE IInv'
  BY OnlyTheEnd DEF EndRejected, IInv, TypeOK, Open

LEMMA EndRollsBackStep == ASSUME IInv, EndRollsBack PROVE IInv'
  BY OnlyTheEnd DEF EndRollsBack, IInv, TypeOK, Open

LEMMA CatchUpStep ==
    ASSUME IInv, NEW e \in Event, CatchUp(e)
    PROVE  IInv'
<1>1. TypeOK'
  BY DistinctAssumption DEF IInv, TypeOK, CatchUp, runtimeVars, writerVars,
     endVars, WriterPhase
<1>2. RowsExclusive'
  BY DistinctAssumption DEF IInv, TypeOK, RowsExclusive, CatchUp, runtimeVars,
     writerVars, endVars, Open
<1>3. ReadUnderLock'
  BY DistinctAssumption DEF IInv, TypeOK, RowsExclusive, ReadUnderLock,
     ReadsUnderLock, CatchUp, runtimeVars, writerVars, endVars, Open
<1>4. Closers'
  BY DistinctAssumption DEF IInv, TypeOK, RowsExclusive, ReadUnderLock,
     ReadsUnderLock, Closers, CatchUp, runtimeVars, writerVars, endVars
<1>5. Tracking'
  BY DistinctAssumption DEF IInv, TypeOK, ReadUnderLock, ReadsUnderLock,
     Tracking, CatchUp, runtimeVars, writerVars, endVars, Running
<1>6. AtMostOneOpen'
  BY DistinctAssumption DEF IInv, TypeOK, ReadUnderLock, ReadsUnderLock,
     AtMostOneOpen, CatchUp, runtimeVars, writerVars, endVars, Open
<1>7. TrackedEventNotOwnClosed'
  BY DistinctAssumption DEF IInv, TypeOK, ReadUnderLock, ReadsUnderLock,
     Closers, Tracking, TrackedEventNotOwnClosed, CatchUp, runtimeVars,
     writerVars, endVars
<1> QED BY <1>1, <1>2, <1>3, <1>4, <1>5, <1>6, <1>7 DEF IInv

-----------------------------------------------------------------------------
(* The theorems.                                                           *)

LEMMA StepInv == IInv /\ [Next]_vars => IInv'
<1> SUFFICES ASSUME IInv, [Next]_vars PROVE IInv'
  OBVIOUS
<1>1. ASSUME NEW w \in Writer, Register(w) \/ PrepareConnection(w) \/ Stop(w)
      PROVE  IInv'
  BY <1>1, RegisterStep, PrepareConnectionStep, StopStep
<1>2. ASSUME NEW w \in Writer,
             Cleared(w) \/ \E t \in Type : Started(w, t) \/ Updated(w, t)
      PROVE  IInv'
  BY <1>2, StartedStep, UpdatedStep, ClearedStep
<1>3. ASSUME NEW w \in Writer, WriterStep(w) \/ RollBack(w)
      PROVE  IInv'
  BY <1>3, ValidateStep, ReplacedStep, ReadForStartedStep, ReadForClearedStep,
     CommitCreatedStep, CommitFoundStep, CommitNothingStep, RollBackStep,
     RecordStartedStep, RecordClearedStep
     DEF WriterStep, Write
<1>4. ASSUME EndBegins \/ EndLocksSession \/ EndCommits \/ EndRejected
                \/ EndRollsBack \/ \E e \in Event : CatchUp(e)
      PROVE  IInv'
  BY <1>4, EndBeginsStep, EndLocksSessionStep, EndCommitsStep,
     EndRejectedStep, EndRollsBackStep, CatchUpStep
<1>5. CASE UNCHANGED vars
  BY <1>5 DEF vars, runtimeVars, writerVars, rowVars, endVars, IInv, TypeOK,
     RowsExclusive, ReadUnderLock, ReadsUnderLock, Closers, Tracking,
     AtMostOneOpen, TrackedEventNotOwnClosed, Open
<1> QED BY <1>1, <1>2, <1>3, <1>4, <1>5 DEF Next

\* The invariant of the module, for every value of its constants: workers of
\* any number of connections, however late, and the end of the session.
THEOREM EventsInvariance == Spec => []IInv
  BY InitInv, StepInv, PTL DEF Spec

\* At most one event of a session is open, however the transactions of
\* handle_transition and end_session interleave.
THEOREM OneOpenEvent == Spec => []AtMostOneOpen
<1>1. IInv => AtMostOneOpen
  BY DEF IInv
<1> QED BY EventsInvariance, <1>1, PTL

\* The runtime never goes on with an event that its own worker has closed,
\* and nobody closes an event under the transaction that holds it.
THEOREM TrackingIsSound == Spec => []TrackingSound
<1>1. IInv => TrackedEventNotOwnClosed
  BY DEF IInv
<1>2. IInv => HeldEventStaysOpen
  BY DEF IInv, ReadUnderLock, ReadsUnderLock, HeldEventStaysOpen
<1>3. IInv => TrackingSound
  BY <1>1, <1>2 DEF TrackingSound
<1> QED BY EventsInvariance, <1>3, PTL

-----------------------------------------------------------------------------
(* Waiting.                                                                *)

\* Only a transaction between its read and its commit holds anything, and it
\* waits only if it inserts.  Two that insert hold the gaps of each other.
LEMMA WaitsEndHolds == IInv => WaitsEnd
<1> SUFFICES ASSUME IInv,
                    InTransaction # {} \/ ender \in {"begun", "holding"},
                    \A w \in InTransaction :
                       /\ Waits(w) /\ ~EndBlocked(w)
                       /\ \A v \in Writer : ~InsertsBlocked(w, v),
                    ender # "begun" /\ ~EndMayWrite
             PROVE  FALSE
  BY DEF WaitsEnd
<1>1. \A w \in Writer : locks[w] # {} => phase[w] = "locked"
  BY DEF IInv, RowsExclusive
<1>2. \A w \in Writer : phase[w] = "locked" => Inserts(w) /\ ~MayInsert(w)
  BY DEF InTransaction, Waits, Inserts
<1>3. \A w \in Writer : Inserts(w) => write[w].type \in Type /\ Type \subseteq locks[w]
  BY DEF IInv, ReadUnderLock, ReadsUnderLock, Inserts
<1>4. ender = "holding" => \E w \in Writer : locks[w] \cap snapshot # {}
  BY DEF EndMayWrite
<1>5. ender # "holding"
  <2> SUFFICES ASSUME ender = "holding" PROVE FALSE
    OBVIOUS
  <2>1. PICK w \in Writer : locks[w] \cap snapshot # {}
    BY <1>4
  <2>2. phase[w] = "locked" /\ Inserts(w)
    BY <1>1, <1>2, <2>1
  <2> QED BY <2>1, <2>2 DEF EndBlocked, Inserts, InTransaction
<1>6. \A w \in Writer : phase[w] # "locked"
  <2> SUFFICES ASSUME NEW w \in Writer, phase[w] = "locked" PROVE FALSE
    OBVIOUS
  <2>1. PICK v \in Writer \ {w} : write[w].type \in locks[v]
    BY <1>2, <1>5 DEF MayInsert
  <2>2. Inserts(v) /\ Inserts(w)
    BY <1>1, <1>2, <2>1
  <2>3. write[v].type \in locks[w]
    BY <1>3, <2>2
  <2>4. InsertsBlocked(w, v)
    BY <2>1, <2>2, <2>3 DEF InsertsBlocked, Inserts
  <2> QED BY <2>4 DEF InTransaction
<1>7. PICK w \in InTransaction : phase[w] = "validated" /\ ~FreeFor(w, RowsToRead(w))
  BY <1>5, <1>6 DEF InTransaction, Waits, Inserts
<1> QED BY <1>1, <1>6, <1>7 DEF FreeFor, InTransaction

\* However many workers of a session write at once, and whether it ends or not,
\* some transaction goes on or is a victim: the waits of list_open_by_session_for_update,
\* of the inserts and of end_session make only cycles of two.
THEOREM NoLongCycle == Spec => []WaitsEnd
  BY WaitsEndHolds, EventsInvariance, PTL
=============================================================================
