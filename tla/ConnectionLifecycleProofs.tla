---------------------- MODULE ConnectionLifecycleProofs ----------------------
(***************************************************************************)
(* Proofs about the connections of a session, for every set of connections *)
(* and both queue sizes the code accepts.                                  *)
(*                                                                         *)
(* IInv is inductive: one lemma per action shows that the action preserves *)
(* each of its conjuncts.  The crucial ones are CurrentOwnsItsGeneration   *)
(* and PreparerKnowsGeneration: generations restart at 1 when a runtime is *)
(* removed, so an equal generation alone would not prove that a result     *)
(* belongs to the runtime; it does for the registered connection, because  *)
(* only the registered connection's clean-up removes the runtime.          *)
(***************************************************************************)
EXTENDS ConnectionLifecycle, TLAPS

\* The bounded, latest-wins frame queue: type, bound and content.
LEMMA PutLatestType ==
    ASSUME NEW q \in Seq(Conn), NEW c \in Conn, Len(q) <= QueueSize
    PROVE  /\ PutLatest(q, c) \in Seq(Conn)
           /\ Len(PutLatest(q, c)) <= QueueSize
           /\ \A i \in 1 .. Len(PutLatest(q, c)) :
                 PutLatest(q, c)[i] = c \/ \E j \in 1 .. Len(q) : PutLatest(q, c)[i] = q[j]
  <1> USE QueueSizeAssumption
  <1>1. CASE Len(q) >= QueueSize
    <2>1. q # <<>> /\ Tail(q) \in Seq(Conn) /\ Len(Tail(q)) = Len(q) - 1
      BY <1>1
    <2>2. \A i \in 1 .. Len(Tail(q)) : Tail(q)[i] = q[i + 1]
      BY <2>1
    <2>3. PutLatest(q, c) = Append(Tail(q), c)
      BY <1>1 DEF PutLatest
    <2>4. \A i \in 1 .. Len(q) - 1 : PutLatest(q, c)[i] = q[i + 1] /\ i + 1 \in 1 .. Len(q)
      BY <2>1, <2>2, <2>3
    <2>5. Len(PutLatest(q, c)) = Len(q) /\ PutLatest(q, c)[Len(q)] = c
      BY <2>1, <2>3
    <2>6. ASSUME NEW i \in 1 .. Len(q)
          PROVE  PutLatest(q, c)[i] = c \/ \E j \in 1 .. Len(q) : PutLatest(q, c)[i] = q[j]
      <3>1. CASE i = Len(q)
        BY <2>5, <3>1
      <3>2. CASE i # Len(q)
        <4>1. i \in 1 .. Len(q) - 1
          BY <3>2
        <4>2. QED
          BY <2>4, <4>1
      <3>3. QED
        BY <3>1, <3>2
    <2>7. PutLatest(q, c) \in Seq(Conn)
      BY <2>1, <2>3
    <2>8. QED
      BY <2>5, <2>6, <2>7
  <1>2. CASE ~(Len(q) >= QueueSize)
    BY <1>2 DEF PutLatest
  <1>3. QED
    BY <1>1, <1>2

LEMMA RegisterAloneStep ==
    ASSUME IInv, NEW c \in Conn, RegisterAlone(c) PROVE IInv'
  <1> USE QueueSizeAssumption, NoConnAssumption, NoneAssumption
        DEF IInv, TypeOK, Tasks, HandlerPhase, WorkerPhase, Prepared, Serving,
            GenerationMatches, ManagerFree, IsCurrent, RegisterAlone, Prepare,
            PreparedRuntime, FreshRuntime, Woken
  <1>0. runtime' \in Runtime /\ runtime'.queue = <<>> /\ runtime'.preparedBy = c /\ runtime'.generation = gen'[c]
    BY DEF Runtime
  <1>1. TypeOK'
    BY <1>0 DEF Runtime
  <1>2. CurrentOwnsItsGeneration'
    <2>1. runtime' # NoRuntime /\ runtime'.generation \in Nat
      BY <1>0 DEF Runtime
    <2>2. gen'[c] <= runtime'.generation /\ runtime'.preparedBy = c
      BY <1>0, <2>1
    <2>4. QED
      BY <2>1, <2>2 DEF CurrentOwnsItsGeneration
  <1>3. PreparerKnowsGeneration'
    BY <1>0 DEF PreparerKnowsGeneration
  <1>4. QueueOfCurrent'
    BY <1>0 DEF QueueOfCurrent
  <1>5. CurrentHoldsOwnFrame'
    BY <1>0 DEF CurrentHoldsOwnFrame, TasksInStep, CurrentOwnsItsGeneration,
           QueueOfCurrent, Runtime
  <1>6. TasksInStep'
    BY <1>0 DEF TasksInStep
  <1>7. ResultsOfOneConnection'
    BY <1>0 DEF ResultsOfOneConnection
  <1>8. SendsOnlyToCurrent'
    BY <1>0 DEF SendsOnlyToCurrent
  <1>9. NoLostWakeup'
    BY <1>0 DEF NoLostWakeup
  <1>10. WorkerLostOnlyToOvertaking'
    BY <1>0 DEF WorkerLostOnlyToOvertaking
  <1>11. QED BY <1>1, <1>2, <1>3, <1>4, <1>5, <1>6, <1>7, <1>8, <1>9, <1>10

LEMMA RegisterReplacingStep ==
    ASSUME IInv, NEW c \in Conn, RegisterReplacing(c) PROVE IInv'
  <1> USE QueueSizeAssumption, NoConnAssumption, NoneAssumption
        DEF IInv, TypeOK, Tasks, HandlerPhase, WorkerPhase, Prepared, Serving,
            GenerationMatches, ManagerFree, IsCurrent, RegisterReplacing
  <1>1. TypeOK'
    BY DEF Runtime
  <1>2. CurrentOwnsItsGeneration'
    BY DEF CurrentOwnsItsGeneration
  <1>3. PreparerKnowsGeneration'
    BY DEF PreparerKnowsGeneration
  <1>4. QueueOfCurrent'
    BY DEF QueueOfCurrent, PreparerKnowsGeneration, CurrentOwnsItsGeneration, Runtime
  <1>5. CurrentHoldsOwnFrame'
    BY DEF CurrentHoldsOwnFrame, TasksInStep, CurrentOwnsItsGeneration, QueueOfCurrent,
           Runtime
  <1>6. TasksInStep'
    BY DEF TasksInStep
  <1>7. ResultsOfOneConnection'
    BY DEF ResultsOfOneConnection
  <1>8. SendsOnlyToCurrent'
    BY DEF SendsOnlyToCurrent
  <1>9. NoLostWakeup'
    BY DEF NoLostWakeup
  <1>10. WorkerLostOnlyToOvertaking'
    BY DEF WorkerLostOnlyToOvertaking
  <1>11. QED BY <1>1, <1>2, <1>3, <1>4, <1>5, <1>6, <1>7, <1>8, <1>9, <1>10

LEMMA PreviousClosedStep ==
    ASSUME IInv, NEW c \in Conn, PreviousClosed(c) PROVE IInv'
  <1> USE QueueSizeAssumption, NoConnAssumption, NoneAssumption
        DEF IInv, TypeOK, Tasks, HandlerPhase, WorkerPhase, Prepared, Serving,
            GenerationMatches, ManagerFree, IsCurrent, PreviousClosed, Prepare,
            PreparedRuntime, FreshRuntime, Woken
  <1>0. runtime' \in Runtime /\ runtime'.queue = <<>> /\ runtime'.preparedBy = c /\ runtime'.generation = gen'[c]
    BY DEF Runtime
  <1>1. TypeOK'
    BY <1>0 DEF Runtime
  <1>2. CurrentOwnsItsGeneration'
    <2>1. runtime' # NoRuntime /\ runtime'.generation \in Nat
      BY <1>0 DEF Runtime
    <2>2. gen'[c] <= runtime'.generation /\ runtime'.preparedBy = c
      BY <1>0, <2>1
    <2>3. ASSUME NEW d \in Conn, d # c, current = d, Prepared(d)
          PROVE  gen'[d] < runtime'.generation
      <3>1. runtime \in Runtime /\ gen[d] <= runtime.generation
        BY <2>3 DEF CurrentOwnsItsGeneration
      <3>2. runtime'.generation = runtime.generation + 1 /\ gen'[d] = gen[d]
        BY <2>3, <3>1
      <3>3. QED
        BY <3>1, <3>2 DEF Runtime
    <2>4. QED
      BY <2>1, <2>2, <2>3 DEF CurrentOwnsItsGeneration
  <1>3. PreparerKnowsGeneration'
    BY <1>0 DEF PreparerKnowsGeneration
  <1>4. QueueOfCurrent'
    BY <1>0 DEF QueueOfCurrent
  <1>5. CurrentHoldsOwnFrame'
    BY <1>0 DEF CurrentHoldsOwnFrame
  <1>6. TasksInStep'
    BY <1>0 DEF TasksInStep
  <1>7. ResultsOfOneConnection'
    BY <1>0 DEF ResultsOfOneConnection
  <1>8. SendsOnlyToCurrent'
    BY <1>0 DEF SendsOnlyToCurrent
  <1>9. NoLostWakeup'
    BY <1>0 DEF NoLostWakeup
  <1>10. WorkerLostOnlyToOvertaking'
    BY <1>0 DEF WorkerLostOnlyToOvertaking
  <1>11. QED BY <1>1, <1>2, <1>3, <1>4, <1>5, <1>6, <1>7, <1>8, <1>9, <1>10

LEMMA BeginSendStep ==
    ASSUME IInv, NEW c \in Conn, BeginSend(c) PROVE IInv'
  <1> USE QueueSizeAssumption, NoConnAssumption, NoneAssumption
        DEF IInv, TypeOK, Tasks, HandlerPhase, WorkerPhase, Prepared, Serving,
            GenerationMatches, ManagerFree, IsCurrent, BeginSend
  <1>1. TypeOK'
    BY DEF Runtime
  <1>2. CurrentOwnsItsGeneration'
    BY DEF CurrentOwnsItsGeneration
  <1>3. PreparerKnowsGeneration'
    BY DEF PreparerKnowsGeneration
  <1>4. QueueOfCurrent'
    BY DEF QueueOfCurrent
  <1>5. CurrentHoldsOwnFrame'
    BY DEF CurrentHoldsOwnFrame
  <1>6. TasksInStep'
    BY DEF TasksInStep
  <1>7. ResultsOfOneConnection'
    BY DEF ResultsOfOneConnection
  <1>8. SendsOnlyToCurrent'
    BY DEF SendsOnlyToCurrent
  <1>9. NoLostWakeup'
    BY DEF NoLostWakeup
  <1>10. WorkerLostOnlyToOvertaking'
    BY DEF WorkerLostOnlyToOvertaking
  <1>11. QED BY <1>1, <1>2, <1>3, <1>4, <1>5, <1>6, <1>7, <1>8, <1>9, <1>10

LEMMA SkipReadyStep ==
    ASSUME IInv, NEW c \in Conn, SkipReady(c) PROVE IInv'
  <1> USE QueueSizeAssumption, NoConnAssumption, NoneAssumption
        DEF IInv, TypeOK, Tasks, HandlerPhase, WorkerPhase, Prepared, Serving,
            GenerationMatches, ManagerFree, IsCurrent, SkipReady
  <1>1. TypeOK'
    BY DEF Runtime
  <1>2. CurrentOwnsItsGeneration'
    BY DEF CurrentOwnsItsGeneration
  <1>3. PreparerKnowsGeneration'
    BY DEF PreparerKnowsGeneration
  <1>4. QueueOfCurrent'
    BY DEF QueueOfCurrent
  <1>5. CurrentHoldsOwnFrame'
    BY DEF CurrentHoldsOwnFrame
  <1>6. TasksInStep'
    BY DEF TasksInStep
  <1>7. ResultsOfOneConnection'
    BY DEF ResultsOfOneConnection
  <1>8. SendsOnlyToCurrent'
    BY DEF SendsOnlyToCurrent
  <1>9. NoLostWakeup'
    BY DEF NoLostWakeup
  <1>10. WorkerLostOnlyToOvertaking'
    BY DEF WorkerLostOnlyToOvertaking
  <1>11. QED BY <1>1, <1>2, <1>3, <1>4, <1>5, <1>6, <1>7, <1>8, <1>9, <1>10

LEMMA EndSendStep ==
    ASSUME IInv, NEW c \in Conn, EndSend(c) PROVE IInv'
  <1> USE QueueSizeAssumption, NoConnAssumption, NoneAssumption
        DEF IInv, TypeOK, Tasks, HandlerPhase, WorkerPhase, Prepared, Serving,
            GenerationMatches, ManagerFree, IsCurrent, EndSend
  <1>1. TypeOK'
    BY DEF Runtime
  <1>2. CurrentOwnsItsGeneration'
    BY DEF CurrentOwnsItsGeneration
  <1>3. PreparerKnowsGeneration'
    BY DEF PreparerKnowsGeneration
  <1>4. QueueOfCurrent'
    BY DEF QueueOfCurrent
  <1>5. CurrentHoldsOwnFrame'
    BY DEF CurrentHoldsOwnFrame
  <1>6. TasksInStep'
    BY DEF TasksInStep
  <1>7. ResultsOfOneConnection'
    BY DEF ResultsOfOneConnection
  <1>8. SendsOnlyToCurrent'
    BY DEF SendsOnlyToCurrent
  <1>9. NoLostWakeup'
    BY DEF NoLostWakeup
  <1>10. WorkerLostOnlyToOvertaking'
    BY DEF WorkerLostOnlyToOvertaking
  <1>11. QED BY <1>1, <1>2, <1>3, <1>4, <1>5, <1>6, <1>7, <1>8, <1>9, <1>10

LEMMA ReceiveEndsStep ==
    ASSUME IInv, NEW c \in Conn, ReceiveEnds(c) PROVE IInv'
  <1> USE QueueSizeAssumption, NoConnAssumption, NoneAssumption
        DEF IInv, TypeOK, Tasks, HandlerPhase, WorkerPhase, Prepared, Serving,
            GenerationMatches, ManagerFree, IsCurrent, ReceiveEnds
  <1>1. TypeOK'
    BY DEF Runtime
  <1>2. CurrentOwnsItsGeneration'
    BY DEF CurrentOwnsItsGeneration
  <1>3. PreparerKnowsGeneration'
    BY DEF PreparerKnowsGeneration
  <1>4. QueueOfCurrent'
    BY DEF QueueOfCurrent
  <1>5. CurrentHoldsOwnFrame'
    BY DEF CurrentHoldsOwnFrame
  <1>6. TasksInStep'
    BY DEF TasksInStep
  <1>7. ResultsOfOneConnection'
    BY DEF ResultsOfOneConnection
  <1>8. SendsOnlyToCurrent'
    BY DEF SendsOnlyToCurrent
  <1>9. NoLostWakeup'
    BY DEF NoLostWakeup
  <1>10. WorkerLostOnlyToOvertaking'
    BY DEF WorkerLostOnlyToOvertaking
  <1>11. QED BY <1>1, <1>2, <1>3, <1>4, <1>5, <1>6, <1>7, <1>8, <1>9, <1>10

LEMMA StopWorkerStep ==
    ASSUME IInv, NEW c \in Conn, StopWorker(c) PROVE IInv'
  <1> USE QueueSizeAssumption, NoConnAssumption, NoneAssumption
        DEF IInv, TypeOK, Tasks, HandlerPhase, WorkerPhase, Prepared, Serving,
            GenerationMatches, ManagerFree, IsCurrent, StopWorker, LockAfterCancel
  <1>1. TypeOK'
    BY DEF Runtime
  <1>2. CurrentOwnsItsGeneration'
    BY DEF CurrentOwnsItsGeneration
  <1>3. PreparerKnowsGeneration'
    BY DEF PreparerKnowsGeneration
  <1>4. QueueOfCurrent'
    BY DEF QueueOfCurrent
  <1>5. CurrentHoldsOwnFrame'
    BY DEF CurrentHoldsOwnFrame
  <1>6. TasksInStep'
    BY DEF TasksInStep
  <1>7. ResultsOfOneConnection'
    BY DEF ResultsOfOneConnection
  <1>8. SendsOnlyToCurrent'
    BY DEF SendsOnlyToCurrent
  <1>9. NoLostWakeup'
    BY DEF NoLostWakeup
  <1>10. WorkerLostOnlyToOvertaking'
    BY DEF WorkerLostOnlyToOvertaking
  <1>11. QED BY <1>1, <1>2, <1>3, <1>4, <1>5, <1>6, <1>7, <1>8, <1>9, <1>10

LEMMA LeaveStep ==
    ASSUME IInv, NEW c \in Conn, Leave(c) PROVE IInv'
  <1> USE QueueSizeAssumption, NoConnAssumption, NoneAssumption
        DEF IInv, TypeOK, Tasks, HandlerPhase, WorkerPhase, Prepared, Serving,
            GenerationMatches, ManagerFree, IsCurrent, Leave, AfterDisconnect,
            RemovesRuntime, Woken
  <1>1. TypeOK'
    BY DEF Runtime
  <1>2. CurrentOwnsItsGeneration'
    BY DEF CurrentOwnsItsGeneration
  <1>3. PreparerKnowsGeneration'
    BY DEF PreparerKnowsGeneration
  <1>4. QueueOfCurrent'
    BY DEF QueueOfCurrent
  <1>5. CurrentHoldsOwnFrame'
    BY DEF CurrentHoldsOwnFrame
  <1>6. TasksInStep'
    BY DEF TasksInStep
  <1>7. ResultsOfOneConnection'
    BY DEF ResultsOfOneConnection
  <1>8. SendsOnlyToCurrent'
    BY DEF SendsOnlyToCurrent
  <1>9. NoLostWakeup'
    BY DEF NoLostWakeup
  <1>10. WorkerLostOnlyToOvertaking'
    BY DEF WorkerLostOnlyToOvertaking
  <1>11. QED BY <1>1, <1>2, <1>3, <1>4, <1>5, <1>6, <1>7, <1>8, <1>9, <1>10

LEMMA CheckTakenStep ==
    ASSUME IInv, NEW c \in Conn, CheckTaken(c) PROVE IInv'
  <1> USE QueueSizeAssumption, NoConnAssumption, NoneAssumption
        DEF IInv, TypeOK, Tasks, HandlerPhase, WorkerPhase, Prepared, Serving,
            GenerationMatches, ManagerFree, IsCurrent, CheckTaken
  <1>1. TypeOK'
    BY DEF Runtime
  <1>2. CurrentOwnsItsGeneration'
    BY DEF CurrentOwnsItsGeneration
  <1>3. PreparerKnowsGeneration'
    BY DEF PreparerKnowsGeneration
  <1>4. QueueOfCurrent'
    BY DEF QueueOfCurrent
  <1>5. CurrentHoldsOwnFrame'
    BY DEF CurrentHoldsOwnFrame
  <1>6. TasksInStep'
    BY DEF TasksInStep
  <1>7. ResultsOfOneConnection'
    BY DEF ResultsOfOneConnection
  <1>8. SendsOnlyToCurrent'
    BY DEF SendsOnlyToCurrent
  <1>9. NoLostWakeup'
    BY DEF NoLostWakeup
  <1>10. WorkerLostOnlyToOvertaking'
    BY DEF WorkerLostOnlyToOvertaking
  <1>11. QED BY <1>1, <1>2, <1>3, <1>4, <1>5, <1>6, <1>7, <1>8, <1>9, <1>10

LEMMA PredictEndsStep ==
    ASSUME IInv, NEW c \in Conn, PredictEnds(c) PROVE IInv'
  <1> USE QueueSizeAssumption, NoConnAssumption, NoneAssumption
        DEF IInv, TypeOK, Tasks, HandlerPhase, WorkerPhase, Prepared, Serving,
            GenerationMatches, ManagerFree, IsCurrent, PredictEnds
  <1>1. TypeOK'
    BY DEF Runtime
  <1>2. CurrentOwnsItsGeneration'
    BY DEF CurrentOwnsItsGeneration
  <1>3. PreparerKnowsGeneration'
    BY DEF PreparerKnowsGeneration
  <1>4. QueueOfCurrent'
    BY DEF QueueOfCurrent
  <1>5. CurrentHoldsOwnFrame'
    BY DEF CurrentHoldsOwnFrame
  <1>6. TasksInStep'
    BY DEF TasksInStep
  <1>7. ResultsOfOneConnection'
    BY DEF ResultsOfOneConnection
  <1>8. SendsOnlyToCurrent'
    BY DEF SendsOnlyToCurrent
  <1>9. NoLostWakeup'
    BY DEF NoLostWakeup
  <1>10. WorkerLostOnlyToOvertaking'
    BY DEF WorkerLostOnlyToOvertaking
  <1>11. QED BY <1>1, <1>2, <1>3, <1>4, <1>5, <1>6, <1>7, <1>8, <1>9, <1>10

LEMMA DiscardStep ==
    ASSUME IInv, NEW c \in Conn, Discard(c) PROVE IInv'
  <1> USE QueueSizeAssumption, NoConnAssumption, NoneAssumption
        DEF IInv, TypeOK, Tasks, HandlerPhase, WorkerPhase, Prepared, Serving,
            GenerationMatches, ManagerFree, IsCurrent, Discard, NextFrame
  <1>1. TypeOK'
    BY DEF Runtime
  <1>2. CurrentOwnsItsGeneration'
    BY DEF CurrentOwnsItsGeneration
  <1>3. PreparerKnowsGeneration'
    BY DEF PreparerKnowsGeneration
  <1>4. QueueOfCurrent'
    BY DEF QueueOfCurrent
  <1>5. CurrentHoldsOwnFrame'
    BY DEF CurrentHoldsOwnFrame
  <1>6. TasksInStep'
    BY DEF TasksInStep
  <1>7. ResultsOfOneConnection'
    BY DEF ResultsOfOneConnection
  <1>8. SendsOnlyToCurrent'
    BY DEF SendsOnlyToCurrent
  <1>9. NoLostWakeup'
    BY DEF NoLostWakeup
  <1>10. WorkerLostOnlyToOvertaking'
    BY DEF WorkerLostOnlyToOvertaking
  <1>11. QED BY <1>1, <1>2, <1>3, <1>4, <1>5, <1>6, <1>7, <1>8, <1>9, <1>10

LEMMA BeginPublishStep ==
    ASSUME IInv, NEW c \in Conn, BeginPublish(c) PROVE IInv'
  <1> USE QueueSizeAssumption, NoConnAssumption, NoneAssumption
        DEF IInv, TypeOK, Tasks, HandlerPhase, WorkerPhase, Prepared, Serving,
            GenerationMatches, ManagerFree, IsCurrent, BeginPublish
  <1>1. TypeOK'
    BY DEF Runtime
  <1>2. CurrentOwnsItsGeneration'
    BY DEF CurrentOwnsItsGeneration
  <1>3. PreparerKnowsGeneration'
    BY DEF PreparerKnowsGeneration
  <1>4. QueueOfCurrent'
    BY DEF QueueOfCurrent
  <1>5. CurrentHoldsOwnFrame'
    BY DEF CurrentHoldsOwnFrame
  <1>6. TasksInStep'
    BY DEF TasksInStep
  <1>7. ResultsOfOneConnection'
    BY DEF ResultsOfOneConnection
  <1>8. SendsOnlyToCurrent'
    BY DEF SendsOnlyToCurrent
  <1>9. NoLostWakeup'
    BY DEF NoLostWakeup
  <1>10. WorkerLostOnlyToOvertaking'
    BY DEF WorkerLostOnlyToOvertaking
  <1>11. QED BY <1>1, <1>2, <1>3, <1>4, <1>5, <1>6, <1>7, <1>8, <1>9, <1>10

LEMMA EndPublishStep ==
    ASSUME IInv, NEW c \in Conn, EndPublish(c) PROVE IInv'
  <1> USE QueueSizeAssumption, NoConnAssumption, NoneAssumption
        DEF IInv, TypeOK, Tasks, HandlerPhase, WorkerPhase, Prepared, Serving,
            GenerationMatches, ManagerFree, IsCurrent, EndPublish
  <1>1. TypeOK'
    BY DEF Runtime
  <1>2. CurrentOwnsItsGeneration'
    BY DEF CurrentOwnsItsGeneration
  <1>3. PreparerKnowsGeneration'
    BY DEF PreparerKnowsGeneration
  <1>4. QueueOfCurrent'
    BY DEF QueueOfCurrent
  <1>5. CurrentHoldsOwnFrame'
    BY DEF CurrentHoldsOwnFrame
  <1>6. TasksInStep'
    BY DEF TasksInStep
  <1>7. ResultsOfOneConnection'
    BY DEF ResultsOfOneConnection
  <1>8. SendsOnlyToCurrent'
    BY DEF SendsOnlyToCurrent
  <1>9. NoLostWakeup'
    BY DEF NoLostWakeup
  <1>10. WorkerLostOnlyToOvertaking'
    BY DEF WorkerLostOnlyToOvertaking
  <1>11. QED BY <1>1, <1>2, <1>3, <1>4, <1>5, <1>6, <1>7, <1>8, <1>9, <1>10

Result(c) == [of |-> frame[c], by |-> c]

\* The three actions that record something differ in the worker's next phase.
LEMMA RecordingStep ==
    ASSUME IInv, NEW c \in Conn, RecordResult(c) \/ RecordFailure(c) \/ Observe(c)
    PROVE  IInv'
  <1> USE QueueSizeAssumption, NoConnAssumption, NoneAssumption DEF IInv
  <1>1. /\ worker[c] \in {"recording", "failing", "observing"}
        /\ current = c /\ GenerationMatches(c)
        /\ \/ worker' = [worker EXCEPT ![c] = "publishing"] /\ frame' = frame
           \/ worker' = [worker EXCEPT ![c] = "polling"] /\ frame' = [frame EXCEPT ![c] = NoConn]
        /\ UNCHANGED <<current, lock, handler, gen>>
    BY DEF RecordResult, RecordFailure, Observe, NextFrame, IsCurrent
  <1>2. runtime \in Runtime /\ Result(c) \in Outcome
    BY <1>1 DEF TypeOK, GenerationMatches, TasksInStep, Result, Outcome
  <1>3. runtime' \in {[runtime EXCEPT !.outcomes = @ \cup {Result(c)}],
                      [runtime EXCEPT !.observed = @ \cup {Result(c)}]}
    BY DEF RecordResult, RecordFailure, Observe, Result
  <1>4. /\ runtime' \in Runtime /\ runtime' # NoRuntime
        /\ runtime'.generation = runtime.generation
        /\ runtime'.preparedBy = runtime.preparedBy
        /\ runtime'.queue = runtime.queue
        /\ runtime'.outcomes \cup runtime'.observed
             = runtime.outcomes \cup runtime.observed \cup {Result(c)}
    <2>1. CASE runtime' = [runtime EXCEPT !.outcomes = @ \cup {Result(c)}]
      BY <1>2, <2>1 DEF Runtime
    <2>2. CASE runtime' = [runtime EXCEPT !.observed = @ \cup {Result(c)}]
      BY <1>2, <2>2 DEF Runtime
    <2>3. QED
      BY <1>3, <2>1, <2>2
  <1>5. Prepared(c) /\ runtime.preparedBy = c /\ Result(c).of = c /\ Result(c).by = c
    BY <1>1, <1>2 DEF CurrentOwnsItsGeneration, CurrentHoldsOwnFrame, TasksInStep,
                      GenerationMatches, TypeOK, Runtime, Result
  <1>6. TypeOK'
    BY <1>1, <1>2, <1>4 DEF TypeOK, WorkerPhase
  <1>7. CurrentOwnsItsGeneration' /\ PreparerKnowsGeneration'
    BY <1>1, <1>2, <1>4 DEF CurrentOwnsItsGeneration, PreparerKnowsGeneration, Prepared
  <1>8. QueueOfCurrent'
    BY <1>1, <1>2, <1>4 DEF QueueOfCurrent
  <1>9. CurrentHoldsOwnFrame' /\ TasksInStep'
    BY <1>1, <1>5 DEF CurrentHoldsOwnFrame, TasksInStep, Prepared, TypeOK
  <1>10. ResultsOfOneConnection'
    BY <1>2, <1>4, <1>5 DEF ResultsOfOneConnection
  <1>11. SendsOnlyToCurrent'
    BY <1>1 DEF SendsOnlyToCurrent
  <1>12. NoLostWakeup'
    BY <1>1, <1>2, <1>4 DEF NoLostWakeup, GenerationMatches, TypeOK
  <1>13. WorkerLostOnlyToOvertaking'
    BY <1>1, <1>2, <1>4 DEF WorkerLostOnlyToOvertaking, Serving, TypeOK
  <1>14. QED
    BY <1>6, <1>7, <1>8, <1>9, <1>10, <1>11, <1>12, <1>13

LEMMA AcceptFrameStep ==
    ASSUME IInv, NEW c \in Conn, AcceptFrame(c)
    PROVE  IInv'
  <1> USE NoConnAssumption, NoneAssumption DEF IInv
  <1>1. runtime \in Runtime /\ Len(runtime.queue) <= QueueSize
    BY DEF TypeOK, AcceptFrame, QueueFrame
  <1>2. /\ runtime' \in Runtime /\ runtime' # NoRuntime
        /\ runtime'.generation = runtime.generation
        /\ runtime'.preparedBy = runtime.preparedBy
        /\ runtime'.outcomes = runtime.outcomes /\ runtime'.observed = runtime.observed
        /\ runtime'.queue = PutLatest(runtime.queue, c)
        /\ Len(runtime'.queue) <= QueueSize
    <2>1. /\ PutLatest(runtime.queue, c) \in Seq(Conn)
          /\ Len(PutLatest(runtime.queue, c)) <= QueueSize
      BY <1>1, PutLatestType DEF Runtime
    <2>2. runtime' = [runtime EXCEPT !.queue = PutLatest(runtime.queue, c)]
      BY DEF AcceptFrame, QueueFrame
    <2>3. QED
      BY <1>1, <2>1, <2>2 DEF Runtime
  <1>3. /\ current = c /\ handler[c] = "receiving"
        /\ worker' = Woken(worker)
        /\ UNCHANGED <<current, lock, handler, gen, frame>>
    BY DEF AcceptFrame, QueueFrame, IsCurrent
  <1>4. TypeOK'
    BY <1>2, <1>3 DEF TypeOK, Woken, WorkerPhase
  <1>5. CurrentOwnsItsGeneration' /\ PreparerKnowsGeneration'
    BY <1>1, <1>2, <1>3 DEF CurrentOwnsItsGeneration, PreparerKnowsGeneration, Prepared
  <1>6. QueueOfCurrent'
    <2>1. CASE runtime.preparedBy = c
      <3>1. \A j \in 1 .. Len(runtime.queue) : runtime.queue[j] = c
        BY <1>1, <1>3, <2>1 DEF QueueOfCurrent
      <3>2. \A i \in 1 .. Len(runtime'.queue) : runtime'.queue[i] = c
        <4>1. \A i \in 1 .. Len(PutLatest(runtime.queue, c)) :
                 \/ PutLatest(runtime.queue, c)[i] = c
                 \/ \E j \in 1 .. Len(runtime.queue) :
                       PutLatest(runtime.queue, c)[i] = runtime.queue[j]
          BY <1>1, PutLatestType DEF Runtime
        <4>2. QED
          BY <1>2, <3>1, <4>1
      <3>3. QED
        BY <1>3, <3>2 DEF QueueOfCurrent
    <2>2. CASE runtime.preparedBy # c
      BY <1>2, <1>3, <2>2 DEF QueueOfCurrent
    <2>3. QED
      BY <2>1, <2>2
  <1>7. CurrentHoldsOwnFrame' /\ TasksInStep'
    BY <1>3 DEF CurrentHoldsOwnFrame, TasksInStep, Prepared, Woken, TypeOK
  <1>8. ResultsOfOneConnection'
    BY <1>1, <1>2 DEF ResultsOfOneConnection
  <1>9. SendsOnlyToCurrent'
    BY <1>3 DEF SendsOnlyToCurrent
  <1>10. NoLostWakeup'
    BY <1>3 DEF NoLostWakeup, Woken, TypeOK
  <1>11. WorkerLostOnlyToOvertaking'
    BY <1>1, <1>2, <1>3 DEF WorkerLostOnlyToOvertaking, Serving, Woken, TypeOK
  <1>12. QED
    BY <1>4, <1>5, <1>6, <1>7, <1>8, <1>9, <1>10, <1>11

LEMMA PollStep ==
    ASSUME IInv, NEW c \in Conn, Poll(c)
    PROVE  IInv'
  <1> USE NoConnAssumption, NoneAssumption DEF IInv
  <1>1. worker[c] = "polling" /\ UNCHANGED <<current, lock, handler, gen>>
    BY DEF Poll
  <1>2. CASE runtime' = runtime /\ frame' = frame
    <2>1. \/ ~GenerationMatches(c) /\ worker' = [worker EXCEPT ![c] = "done"]
          \/ /\ GenerationMatches(c) /\ runtime.queue = <<>>
             /\ worker' = [worker EXCEPT ![c] = "asleep"]
          \/ GenerationMatches(c) /\ worker' = [worker EXCEPT ![c] = "checking"] /\ frame[c] \in Conn
      BY <1>2 DEF Poll, TypeOK, Runtime, GenerationMatches
    <2>2. TypeOK'
      BY <1>1, <1>2, <2>1 DEF TypeOK, WorkerPhase
    <2>3. CurrentOwnsItsGeneration' /\ PreparerKnowsGeneration'
      BY <1>1, <1>2 DEF CurrentOwnsItsGeneration, PreparerKnowsGeneration, Prepared
    <2>4. QueueOfCurrent' /\ CurrentHoldsOwnFrame'
      BY <1>1, <1>2 DEF QueueOfCurrent, CurrentHoldsOwnFrame
    <2>5. TasksInStep'
      BY <1>1, <1>2, <2>1 DEF TasksInStep, Prepared, TypeOK
    <2>6. ResultsOfOneConnection' /\ SendsOnlyToCurrent'
      BY <1>1, <1>2 DEF ResultsOfOneConnection, SendsOnlyToCurrent
    <2>7. NoLostWakeup'
      BY <1>1, <1>2, <2>1 DEF NoLostWakeup, GenerationMatches, TypeOK
    <2>8. WorkerLostOnlyToOvertaking'
      BY <1>1, <1>2, <2>1 DEF WorkerLostOnlyToOvertaking, Serving, GenerationMatches,
                              PreparerKnowsGeneration, TypeOK
    <2>9. QED
      BY <2>2, <2>3, <2>4, <2>5, <2>6, <2>7, <2>8
  <1>3. CASE /\ GenerationMatches(c) /\ runtime.queue # <<>>
             /\ frame' = [frame EXCEPT ![c] = Head(runtime.queue)]
             /\ runtime' = [runtime EXCEPT !.queue = Tail(@)]
             /\ worker' = [worker EXCEPT ![c] = "checking"]
    <2>1. /\ runtime \in Runtime /\ Len(runtime.queue) <= QueueSize
          /\ runtime.queue \in Seq(Conn) /\ Head(runtime.queue) \in Conn
          /\ Tail(runtime.queue) \in Seq(Conn)
          /\ Len(Tail(runtime.queue)) = Len(runtime.queue) - 1
      BY <1>3 DEF TypeOK, GenerationMatches, Runtime
    <2>2. /\ runtime' \in Runtime /\ runtime' # NoRuntime
          /\ runtime'.generation = runtime.generation
          /\ runtime'.preparedBy = runtime.preparedBy
          /\ runtime'.outcomes = runtime.outcomes /\ runtime'.observed = runtime.observed
          /\ runtime'.queue = Tail(runtime.queue)
      BY <1>3, <2>1 DEF Runtime
    <2>3. TypeOK'
      BY <1>1, <1>3, <2>1, <2>2, QueueSizeAssumption DEF TypeOK, WorkerPhase
    <2>4. CurrentOwnsItsGeneration' /\ PreparerKnowsGeneration'
      BY <1>1, <2>1, <2>2 DEF CurrentOwnsItsGeneration, PreparerKnowsGeneration, Prepared
    <2>5. QueueOfCurrent'
      BY <1>1, <2>1, <2>2 DEF QueueOfCurrent
    <2>6. CurrentHoldsOwnFrame'
      <3>1. current = c => Head(runtime.queue) = c
        <4>1. current = c => runtime.preparedBy = c
          BY <1>1, <1>3 DEF CurrentOwnsItsGeneration, GenerationMatches, TasksInStep
        <4>2. Head(runtime.queue) = runtime.queue[1] /\ 1 \in 1 .. Len(runtime.queue)
          BY <1>3, <2>1
        <4>3. QED
          BY <2>1, <4>1, <4>2 DEF QueueOfCurrent
      <3>2. QED
        BY <1>1, <1>3, <3>1 DEF CurrentHoldsOwnFrame, TypeOK
    <2>7. TasksInStep'
      BY <1>1, <1>3, <2>1 DEF TasksInStep, Prepared, TypeOK
    <2>8. ResultsOfOneConnection' /\ SendsOnlyToCurrent'
      BY <1>1, <2>1, <2>2 DEF ResultsOfOneConnection, SendsOnlyToCurrent
    <2>9. NoLostWakeup'
      BY <1>1, <1>3 DEF NoLostWakeup, TypeOK
    <2>10. WorkerLostOnlyToOvertaking'
      BY <1>1, <1>3, <2>1, <2>2 DEF WorkerLostOnlyToOvertaking, Serving, TypeOK
    <2>11. QED
      BY <2>3, <2>4, <2>5, <2>6, <2>7, <2>8, <2>9, <2>10
  <1>4. QED
    BY <1>2, <1>3 DEF Poll

LEMMA InitIInv == Init => IInv
  <1> SUFFICES ASSUME Init PROVE IInv
    OBVIOUS
  <1> USE NoConnAssumption, NoneAssumption DEF Init, ManagerFree
  <1>1. TypeOK
    BY DEF TypeOK, HandlerPhase, WorkerPhase
  <1>2. CurrentOwnsItsGeneration /\ PreparerKnowsGeneration /\ QueueOfCurrent
    BY DEF CurrentOwnsItsGeneration, PreparerKnowsGeneration, QueueOfCurrent
  <1>3. CurrentHoldsOwnFrame /\ TasksInStep /\ ResultsOfOneConnection
    BY DEF CurrentHoldsOwnFrame, TasksInStep, ResultsOfOneConnection, Prepared
  <1>4. SendsOnlyToCurrent
    BY DEF SendsOnlyToCurrent, Tasks
  <1>5. NoLostWakeup /\ WorkerLostOnlyToOvertaking
    BY DEF NoLostWakeup, WorkerLostOnlyToOvertaking, Serving
  <1>6. QED
    BY <1>1, <1>2, <1>3, <1>4, <1>5 DEF IInv

LEMMA NextIInv == IInv /\ [Next]_vars => IInv'
  <1> SUFFICES ASSUME IInv, [Next]_vars PROVE IInv'
    OBVIOUS
  <1>1. ASSUME NEW c \in Conn, HandlerStep(c)
        PROVE  IInv'
    BY <1>1, RegisterAloneStep, RegisterReplacingStep, PreviousClosedStep, BeginSendStep,
       SkipReadyStep, EndSendStep, AcceptFrameStep, ReceiveEndsStep, StopWorkerStep, LeaveStep
       DEF HandlerStep
  <1>2. ASSUME NEW c \in Conn, WorkerStep(c)
        PROVE  IInv'
    BY <1>2, PollStep, CheckTakenStep, PredictEndsStep, DiscardStep, RecordingStep,
       BeginPublishStep, EndPublishStep DEF WorkerStep
  <1>3. CASE UNCHANGED vars
    BY <1>3 DEF vars, IInv, TypeOK, CurrentOwnsItsGeneration, PreparerKnowsGeneration,
                QueueOfCurrent, CurrentHoldsOwnFrame, TasksInStep, ResultsOfOneConnection,
                SendsOnlyToCurrent, NoLostWakeup, WorkerLostOnlyToOvertaking,
                Prepared, Serving, GenerationMatches
  <1>4. QED
    BY <1>1, <1>2, <1>3 DEF Next

\* The inductive invariant holds in every reachable state.
THEOREM Invariance == Spec => []IInv
  BY InitIInv, NextIInv, PTL DEF Spec

\* Every variable keeps its type and the frame queue its bound.
THEOREM TypeCorrect == Spec => []TypeOK
  <1>1. IInv => TypeOK
    BY DEF IInv
  <1>2. QED
    BY <1>1, Invariance, PTL

\* The runtime never mixes the results of two connections.
THEOREM OneConnectionResults == Spec => []ResultsOfOneConnection
  <1>1. IInv => ResultsOfOneConnection
    BY DEF IInv
  <1>2. QED
    BY <1>1, Invariance, PTL

\* No message leaves for a replaced connection, no worker sleeps on a queued
\* frame, and a serving connection loses its worker only to an overtaking one.
THEOREM ServingSafety == Spec => []ServingSound
  <1>1. IInv => ServingSound
    BY DEF IInv, ServingSound
  <1>2. QED
    BY <1>1, Invariance, PTL

\* Handler phases only leave "off" by registering.
LEMMA OtherStepsKeepOwner ==
    ASSUME IInv, NEW c \in Conn, HandlerStep(c) \/ WorkerStep(c),
           ~RegisterAlone(c), ~RegisterReplacing(c), ~Leave(c)
    PROVE  /\ current' = current
           /\ handler' \in [Conn -> HandlerPhase]
           /\ \A d \in Conn : handler'[d] = "off" <=> handler[d] = "off"
  <1> USE DEF IInv, TypeOK, HandlerPhase
  <1>1. CASE HandlerStep(c)
    BY <1>1 DEF HandlerStep, PreviousClosed, Prepare, BeginSend, SkipReady, EndSend,
                AcceptFrame, QueueFrame, ReceiveEnds, StopWorker
  <1>2. CASE WorkerStep(c)
    BY <1>2 DEF WorkerStep, Poll, CheckTaken, PredictEnds, Discard, RecordResult,
                RecordFailure, BeginPublish, EndPublish, Observe
  <1>3. QED
    BY <1>1, <1>2

\* A registered connection is evicted only by a newer one or by itself.
THEOREM EvictionOnlyByHeirOrSelf == Spec => OnlyOwnCleanupEvicts
  <1> DEFINE Evicts ==
        \/ \E c \in Conn : current' = c /\ handler[c] = "off"
        \/ current' = NoConn /\ handler[current] = "leaving"
  <1>1. ASSUME IInv, [Next]_vars, current' # current
        PROVE  Evicts
    <2>1. PICK c \in Conn : HandlerStep(c) \/ WorkerStep(c)
      BY <1>1 DEF Next, vars
    <2>2. RegisterAlone(c) \/ RegisterReplacing(c) \/ Leave(c)
      BY <1>1, <2>1, OtherStepsKeepOwner
    <2>3. QED
      BY <1>1, <2>2 DEF RegisterAlone, RegisterReplacing, Leave, AfterDisconnect
  <1>2. IInv /\ [Next]_vars => [current' # current => Evicts]_vars
    BY <1>1
  <1>3. QED
    BY <1>2, Invariance, PTL DEF Spec, OnlyOwnCleanupEvicts

LEMMA RegisteringTakesOver ==
    ASSUME IInv, NEW c \in Conn, RegisterAlone(c) \/ RegisterReplacing(c)
    PROVE  Ownership!TakeOver
  <1> USE NoConnAssumption, NoneAssumption
  <1>1. /\ handler[c] = "off" /\ current' = c
        /\ handler' \in [Conn -> HandlerPhase]
        /\ handler'[c] # "off" /\ \A d \in Conn \ {c} : handler'[d] = handler[d]
    BY DEF RegisterAlone, RegisterReplacing, Prepare, IInv, TypeOK, HandlerPhase
  <1>2. c \notin Retired \cup {current}
    BY <1>1 DEF Retired, IInv, TasksInStep
  <1>3. Retired' = Retired \cup ({current} \ {NoConn})
    BY <1>1 DEF Retired, IInv, TypeOK, TasksInStep
  <1>4. Contributors' \in {Contributors, {}}
    <2>1. CASE RegisterAlone(c)
      <3>1. runtime'.outcomes \cup runtime'.observed = {}
        BY <2>1 DEF RegisterAlone, Prepare, PreparedRuntime, FreshRuntime
      <3>2. QED
        BY <3>1 DEF Contributors
    <2>2. CASE RegisterReplacing(c)
      BY <2>2 DEF RegisterReplacing, Contributors
    <2>3. QED
      BY <2>1, <2>2
  <1>5. QED
    BY <1>1, <1>2, <1>3, <1>4 DEF Ownership!TakeOver, Ownership!Retire

LEMMA LeavingReleases ==
    ASSUME IInv, NEW c \in Conn, Leave(c)
    PROVE  Ownership!Release \/ UNCHANGED <<current, Retired, Contributors>>
  <1> USE NoConnAssumption
  <1>1. /\ handler[c] = "leaving"
        /\ \A d \in Conn : handler'[d] = "off" <=> handler[d] = "off"
    BY DEF Leave, IInv, TypeOK, HandlerPhase
  <1>2. CASE current = c
    <2>1. current' = NoConn /\ runtime' = NoRuntime
      BY <1>2 DEF Leave, AfterDisconnect, RemovesRuntime, IsCurrent
    <2>2. Retired' = Retired \cup {c}
      BY <1>1, <1>2, <2>1 DEF Retired
    <2>3. QED
      BY <1>2, <2>1, <2>2 DEF Ownership!Release, Ownership!Retire, Contributors
  <1>3. CASE current # c
    BY <1>1, <1>3 DEF Leave, AfterDisconnect, RemovesRuntime, IsCurrent, Retired,
           Contributors
  <1>4. QED
    BY <1>2, <1>3

LEMMA RecordingContributes ==
    ASSUME IInv, NEW c \in Conn, RecordResult(c) \/ RecordFailure(c) \/ Observe(c)
    PROVE  Contributors \subseteq {current} /\ Contributors' = {current} /\ current = c
  <1> USE NoConnAssumption, NoneAssumption
  <1>1. /\ current = c /\ GenerationMatches(c) /\ runtime \in Runtime
        /\ worker[c] \in {"recording", "failing", "observing"}
        /\ runtime' \in {[runtime EXCEPT !.outcomes = @ \cup {Result(c)}],
                         [runtime EXCEPT !.observed = @ \cup {Result(c)}]}
    BY DEF RecordResult, RecordFailure, Observe, IsCurrent, Result, GenerationMatches,
           IInv, TypeOK
  <1>2. runtime.preparedBy = c
    BY <1>1 DEF IInv, CurrentOwnsItsGeneration, GenerationMatches, TasksInStep
  <1>3. \A r \in runtime.outcomes \cup runtime.observed : r.by = c
    BY <1>1, <1>2 DEF IInv, ResultsOfOneConnection, GenerationMatches
  <1>4. runtime'.outcomes \cup runtime'.observed
          = runtime.outcomes \cup runtime.observed \cup {Result(c)}
    BY <1>1 DEF Runtime
  <1>5. runtime # NoRuntime /\ runtime' # NoRuntime
    <2>1. Result(c) \in Outcome
      BY <1>1 DEF IInv, TypeOK, TasksInStep, Result, Outcome
    <2>2. CASE runtime' = [runtime EXCEPT !.outcomes = @ \cup {Result(c)}]
      BY <1>1, <2>1, <2>2 DEF Runtime, GenerationMatches
    <2>3. CASE runtime' = [runtime EXCEPT !.observed = @ \cup {Result(c)}]
      BY <1>1, <2>1, <2>3 DEF Runtime, GenerationMatches
    <2>4. QED
      BY <1>1, <2>2, <2>3
  <1>6. Result(c).by = c
    BY DEF Result
  <1>7. QED
    BY <1>1, <1>3, <1>4, <1>5, <1>6 DEF Contributors

\* The remaining steps are invisible to the abstract specification, or reset.
LEMMA OtherStepsKeepContributors ==
    ASSUME IInv, NEW c \in Conn, HandlerStep(c) \/ WorkerStep(c),
           ~RegisterAlone(c), ~RegisterReplacing(c), ~Leave(c),
           ~RecordResult(c), ~RecordFailure(c), ~Observe(c)
    PROVE  Contributors' \in {Contributors, {}}
  <1>1. CASE PreviousClosed(c)
    <2>1. runtime'.outcomes \cup runtime'.observed = {}
      BY <1>1 DEF PreviousClosed, Prepare, PreparedRuntime, FreshRuntime
    <2>2. QED
      BY <2>1 DEF Contributors
  <1>2. CASE runtime' = runtime
    BY <1>2 DEF Contributors
  <1>3. ASSUME NEW q, runtime \in Runtime, runtime' = [runtime EXCEPT !.queue = q], q \in Seq(Conn)
        PROVE  Contributors' = Contributors
    <2>1. runtime' # NoRuntime /\ runtime # NoRuntime
      BY <1>3, NoneAssumption DEF Runtime
    <2>2. runtime'.outcomes = runtime.outcomes /\ runtime'.observed = runtime.observed
      BY <1>3 DEF Runtime
    <2>3. QED
      BY <2>1, <2>2 DEF Contributors
  <1>4. CASE AcceptFrame(c)
    <2>1. runtime \in Runtime /\ PutLatest(runtime.queue, c) \in Seq(Conn)
      BY <1>4, PutLatestType DEF AcceptFrame, QueueFrame, IInv, TypeOK, Runtime
    <2>2. QED
      BY <1>3, <1>4, <2>1 DEF AcceptFrame, QueueFrame
  <1>5. CASE Poll(c)
    <2>1. CASE GenerationMatches(c) /\ runtime.queue # <<>>
                 /\ runtime' = [runtime EXCEPT !.queue = Tail(@)]
      <3>1. runtime \in Runtime /\ Tail(runtime.queue) \in Seq(Conn)
        BY <2>1 DEF GenerationMatches, IInv, TypeOK, Runtime
      <3>2. QED
        BY <1>3, <2>1, <3>1
    <2>2. QED
      BY <1>2, <1>5, <2>1 DEF Poll
  <1>6. QED
    BY <1>1, <1>2, <1>4, <1>5
       DEF HandlerStep, WorkerStep, BeginSend, SkipReady, EndSend, ReceiveEnds, StopWorker,
           CheckTaken, PredictEnds, Discard, BeginPublish, EndPublish

\* Every step of the connections, workers and runtime is a step, or a stutter,
\* of the ownership specification.
THEOREM ImplementsOwnership == Spec => OwnershipSpec
  <1>1. Init => Ownership!Init
    BY NoConnAssumption DEF Init, Ownership!Init, Retired, Contributors
  <1>2. ASSUME IInv, [Next]_vars
        PROVE  [Ownership!Next]_<<current, Retired, Contributors>>
    <2>1. ASSUME NEW c \in Conn, HandlerStep(c) \/ WorkerStep(c)
          PROVE  Ownership!Next \/ UNCHANGED <<current, Retired, Contributors>>
      <3>1. CASE RegisterAlone(c) \/ RegisterReplacing(c)
        BY <1>2, <3>1, RegisteringTakesOver DEF Ownership!Next
      <3>2. CASE Leave(c)
        BY <1>2, <3>2, LeavingReleases DEF Ownership!Next
      <3>3. CASE ~(RegisterAlone(c) \/ RegisterReplacing(c) \/ Leave(c))
        <4>1. current' = current /\ Retired' = Retired
          BY <1>2, <2>1, <3>3, OtherStepsKeepOwner DEF Retired
        <4>2. CASE RecordResult(c) \/ RecordFailure(c) \/ Observe(c)
          <5>1. Contributors \subseteq {current} /\ Contributors' = {current} /\ current = c
            BY <1>2, <4>2, RecordingContributes
          <5>2. QED
            BY <4>1, <5>1, NoConnAssumption DEF Ownership!Next, Ownership!Contribute
        <4>3. CASE ~(RecordResult(c) \/ RecordFailure(c) \/ Observe(c))
          <5>1. Contributors' \in {Contributors, {}}
            BY <1>2, <2>1, <3>3, <4>3, OtherStepsKeepContributors
          <5>2. QED
            BY <4>1, <5>1 DEF Ownership!Next, Ownership!Reset
        <4>4. QED
          BY <4>2, <4>3
      <3>4. QED
        BY <3>1, <3>2, <3>3
    <2>2. CASE UNCHANGED vars
      BY <2>2 DEF vars, Retired, Contributors
    <2>3. QED
      BY <1>2, <2>1, <2>2 DEF Next
  <1>3. QED
    BY <1>1, <1>2, Invariance, PTL DEF Spec, OwnershipSpec, Ownership!Spec, Ownership!vars
=============================================================================
