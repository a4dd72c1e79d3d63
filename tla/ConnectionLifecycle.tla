------------------------ MODULE ConnectionLifecycle ------------------------
(***************************************************************************)
(* The WebSocket connections of one driving session: who is registered in  *)
(* the ConnectionManager, the SessionRuntime they share, and the two tasks *)
(* of every connection, its handler (app/api/v1/endpoints/websocket.py)    *)
(* and its inference worker (app/realtime/inference_worker.py).            *)
(*                                                                         *)
(* Everything runs on one asyncio event loop, so a step of the model is    *)
(* what a task does between two points where it can be suspended:          *)
(*   - SessionRuntimeRegistry._lock is never held across an await, hence   *)
(*     never contended: a registry call never suspends its caller;         *)
(*   - ConnectionManager._lock IS held across the await of a send (of this *)
(*     or of any other session), so every manager call may suspend before  *)
(*     it, and none can run while `lock' names a task;                     *)
(*   - closing a replaced socket, receiving, predicting and sending await. *)
(*                                                                         *)
(* A frame is represented by the connection that delivered it.  Frame ids, *)
(* the wake-up event and the behaviour policy have modules of their own.   *)
(***************************************************************************)
EXTENDS Naturals, Sequences

CONSTANTS Conn,       \* the WebSocket connections ever opened for the session
          NoConn,     \* "no connection", "no task"
          NoRuntime,  \* the session has no entry in the registry
          QueueSize   \* ws_frame_queue_max_size

\* LatestFrameQueue.__init__ refuses every other size.
ASSUME QueueSizeAssumption == QueueSize \in {1, 2}
\* "None" is told apart from a socket, a task and a SessionRuntime.
ASSUME NoConnAssumption == NoConn \notin Conn

VARIABLES current,  \* ConnectionManager._connections[session]
          lock,     \* the task that holds ConnectionManager._lock over a send
          runtime,  \* SessionRuntimeRegistry._runtimes[session]
          handler,  \* where each connection's handler is
          worker,   \* where each connection's inference worker is
          gen,      \* connection_generation, captured when it was prepared
          frame     \* the frame each worker has taken off the queue

vars == <<current, lock, runtime, handler, worker, gen, frame>>

Tasks == Conn \X {"handler", "worker"}

\* "off" before the handshake; "replacing" awaits the close of the connection
\* it replaced; "starting" is prepared and owes SESSION_READY; "leaving" has
\* stopped its worker and heartbeat and has not yet deregistered.
HandlerPhase == {"off", "replacing", "starting", "sending", "receiving",
                 "stopping", "leaving", "gone"}

\* "asleep" awaits the frame event; "checking" holds a frame and awaits
\* is_current; "recording"/"failing" have a prediction or its exception.
WorkerPhase == {"off", "polling", "asleep", "checking", "predicting",
                "recording", "failing", "publishing", "sending",
                "observing", "done"}

\* A result in the runtime: the connection that delivered its frame and the
\* connection whose worker put the result there.
Outcome == [of : Conn, by : Conn]

Runtime == [generation : Nat,
            preparedBy : Conn,           \* history: who set this generation
            queue      : Seq(Conn),      \* latest_frame_queue
            outcomes   : SUBSET Outcome, \* results, processed and failure counts
            observed   : SUBSET Outcome] \* samples of the behaviour policy

ASSUME NoneAssumption == NoConn \notin Tasks /\ NoRuntime \notin Runtime

----------------------------------------------------------------------------
(* The manager's and the registry's guards.                                *)

\* ConnectionManager._lock can be taken.
ManagerFree == lock = NoConn

\* ConnectionManager.is_current: identity of the registered socket.
IsCurrent(c) == current = c

MutAnyGeneration(c) == runtime # NoRuntime

\* The guard of every generation-scoped registry operation.
GenerationMatches(c) ==
    /\ runtime # NoRuntime
    /\ runtime.generation = gen[c]

MutNobodyWoken(w) == w

\* event.set(): whoever waits on the runtime's event object is runnable.
Woken(w) == [c \in Conn |-> IF w[c] = "asleep" THEN "polling" ELSE w[c]]

\* LatestFrameQueue.put_latest: a full queue loses its oldest frame.
PutLatest(q, c) == IF Len(q) >= QueueSize THEN Append(Tail(q), c)
                                          ELSE Append(q, c)

\* A runtime right after prepare_connection: frame queue, inference results
\* and behaviour state are reset.
FreshRuntime(c, g) == [generation |-> g, preparedBy |-> c, queue |-> <<>>,
                       outcomes |-> {}, observed |-> {}]

MutPreparedKeepingResults(c) ==
    IF runtime = NoRuntime THEN FreshRuntime(c, 1)
    ELSE [runtime EXCEPT !.generation = @ + 1, !.preparedBy = c, !.queue = <<>>]

\* get_or_create creates at generation 0; prepare_connection adds one.
PreparedRuntime(c) ==
    IF runtime = NoRuntime THEN FreshRuntime(c, 1)
    ELSE FreshRuntime(c, runtime.generation + 1)

\* The connection has prepared the runtime.
Prepared(c) == handler[c] \notin {"off", "replacing"}

\* The connection is the registered one and its handler serves it.
Serving(c) == current = c /\ handler[c] \in {"starting", "sending", "receiving"}

----------------------------------------------------------------------------
(* The handler.                                                            *)

Init ==
    /\ current = NoConn
    /\ ManagerFree
    /\ runtime = NoRuntime
    /\ handler = [c \in Conn |-> "off"]
    /\ worker = [c \in Conn |-> "off"]
    /\ gen = [c \in Conn |-> 0]
    /\ frame = [c \in Conn |-> NoConn]

\* get_or_create, prepare_connection and worker.start follow one another
\* without suspending.
Prepare(c) ==
    /\ runtime' = PreparedRuntime(c)
    /\ gen' = [gen EXCEPT ![c] = runtime'.generation]
    /\ worker' = [Woken(worker) EXCEPT ![c] = "polling"]
    /\ handler' = [handler EXCEPT ![c] = "starting"]
    /\ UNCHANGED frame

\* register() with nobody to close: no previous connection, or one whose
\* handler closed its own socket on its way out (close() then returns at once).
RegisterAlone(c) ==
    /\ handler[c] = "off"
    /\ ManagerFree
    /\ current \in {NoConn} \cup {p \in Conn : handler[p] \in {"stopping", "leaving"}}
    /\ current' = c
    /\ Prepare(c)
    /\ UNCHANGED lock

\* register() returns the previous connection: the handler awaits its close.
RegisterReplacing(c) ==
    /\ handler[c] = "off"
    /\ ManagerFree
    /\ current # NoConn
    /\ current' = c
    /\ handler' = [handler EXCEPT ![c] = "replacing"]
    /\ UNCHANGED <<lock, runtime, worker, gen, frame>>

\* The close of the replaced socket has returned or failed: nothing re-checks
\* that this connection is still the registered one.
PreviousClosed(c) ==
    /\ handler[c] = "replacing"
    /\ Prepare(c)
    /\ UNCHANGED <<current, lock>>

\* send_json_to_current: SESSION_READY, or an error message while receiving.
BeginSend(c) ==
    /\ handler[c] \in {"starting", "receiving"}
    /\ ManagerFree
    /\ IsCurrent(c)
    /\ lock' = <<c, "handler">>
    /\ handler' = [handler EXCEPT ![c] = "sending"]
    /\ UNCHANGED <<current, runtime, worker, gen, frame>>

\* send_json_to_current returns False: the handler goes on to receive.
SkipReady(c) ==
    /\ handler[c] = "starting"
    /\ ManagerFree
    /\ ~IsCurrent(c)
    /\ handler' = [handler EXCEPT ![c] = "receiving"]
    /\ UNCHANGED <<current, lock, runtime, worker, gen, frame>>

\* The send completes, or raises and ends the handler.
EndSend(c) ==
    /\ handler[c] = "sending"
    /\ lock' = NoConn
    /\ \E next \in {"receiving", "stopping"} :
          handler' = [handler EXCEPT ![c] = next]
    /\ UNCHANGED <<current, runtime, worker, gen, frame>>

\* accept_frame: the frame is queued, and whoever waits for one woken.
QueueFrame(c) ==
    /\ runtime # NoRuntime
    /\ runtime' = [runtime EXCEPT !.queue = PutLatest(@, c)]
    /\ worker' = Woken(worker)

\* A binary frame claimed by the pairing: FrameIngressService.handle.  From a
\* connection that is no longer current, and from a repeated frame id, it
\* changes nothing.
AcceptFrame(c) ==
    /\ handler[c] = "receiving"
    /\ ManagerFree
    /\ IsCurrent(c)
    /\ QueueFrame(c)
    /\ UNCHANGED <<current, lock, handler, gen, frame>>

\* The receive loop ends: the peer left, the server closed the socket
\* (replacement, heartbeat, protocol error), or the handler raised.
ReceiveEnds(c) ==
    /\ handler[c] = "receiving"
    /\ handler' = [handler EXCEPT ![c] = "stopping"]
    /\ UNCHANGED <<current, lock, runtime, worker, gen, frame>>

MutCancelKeepsLock(c) == IF c \in Conn THEN lock ELSE NoConn

\* `async with' gives the manager's lock back when the send is cancelled.
LockAfterCancel(c) == IF lock = <<c, "worker">> THEN NoConn ELSE lock

\* finally: the pairing closes and the worker is cancelled and awaited.
StopWorker(c) ==
    /\ handler[c] = "stopping"
    /\ worker' = [worker EXCEPT ![c] = "done"]
    /\ frame' = [frame EXCEPT ![c] = NoConn]
    /\ lock' = LockAfterCancel(c)
    /\ handler' = [handler EXCEPT ![c] = "leaving"]
    /\ UNCHANGED <<current, runtime, gen>>

MutRemovesAlways(c) == runtime # NoRuntime

\* removed_current: only the registered connection takes the runtime away.
RemovesRuntime(c) == IsCurrent(c)

\* ConnectionManager.disconnect
AfterDisconnect(c) == IF current = c THEN NoConn ELSE current

\* disconnect(), then registry.remove() when it removed this connection.
Leave(c) ==
    /\ handler[c] = "leaving"
    /\ ManagerFree
    /\ current' = AfterDisconnect(c)
    /\ handler' = [handler EXCEPT ![c] = "gone"]
    /\ IF RemovesRuntime(c)
       THEN runtime' = NoRuntime /\ worker' = Woken(worker)
       ELSE UNCHANGED <<runtime, worker>>
    /\ UNCHANGED <<lock, gen, frame>>

----------------------------------------------------------------------------
(* The inference worker and the detection pipeline.                        *)

\* One turn of wait_for_next_frame.
Poll(c) ==
    /\ worker[c] = "polling"
    /\ \/ /\ ~GenerationMatches(c)
          /\ worker' = [worker EXCEPT ![c] = "done"]
          /\ UNCHANGED <<runtime, frame>>
       \/ /\ GenerationMatches(c)
          /\ runtime.queue = <<>>
          /\ worker' = [worker EXCEPT ![c] = "asleep"]
          /\ UNCHANGED <<runtime, frame>>
       \/ /\ GenerationMatches(c)
          /\ runtime.queue # <<>>
          /\ frame' = [frame EXCEPT ![c] = Head(runtime.queue)]
          /\ runtime' = [runtime EXCEPT !.queue = Tail(@)]
          /\ worker' = [worker EXCEPT ![c] = "checking"]
    /\ UNCHANGED <<current, lock, handler, gen>>

\* is_current before the prediction: a replaced worker ends, and the frame it
\* took is lost.
CheckTaken(c) ==
    /\ worker[c] = "checking"
    /\ ManagerFree
    /\ \/ /\ IsCurrent(c)
          /\ worker' = [worker EXCEPT ![c] = "predicting"]
          /\ UNCHANGED frame
       \/ /\ ~IsCurrent(c)
          /\ worker' = [worker EXCEPT ![c] = "done"]
          /\ frame' = [frame EXCEPT ![c] = NoConn]
    /\ UNCHANGED <<current, lock, runtime, handler, gen>>

\* adapter.predict returns or raises.
PredictEnds(c) ==
    /\ worker[c] = "predicting"
    /\ \E next \in {"recording", "failing"} :
          worker' = [worker EXCEPT ![c] = next]
    /\ UNCHANGED <<current, lock, runtime, handler, gen, frame>>

\* Back to wait_for_next_frame, done with the frame.
NextFrame(c) ==
    /\ worker' = [worker EXCEPT ![c] = "polling"]
    /\ frame' = [frame EXCEPT ![c] = NoConn]

\* A result that is neither recorded nor observed: not current (a connection
\* never becomes current again, so the worker's check and the pipeline's,
\* made one after the other, amount to the second), or of another generation.
Discard(c) ==
    /\ worker[c] \in {"recording", "failing", "observing"}
    /\ ManagerFree
    /\ ~IsCurrent(c) \/ ~GenerationMatches(c)
    /\ NextFrame(c)
    /\ UNCHANGED <<current, lock, runtime, handler, gen>>

\* record_detection_result
RecordResult(c) ==
    /\ worker[c] = "recording"
    /\ ManagerFree
    /\ IsCurrent(c)
    /\ GenerationMatches(c)
    /\ runtime' = [runtime EXCEPT !.outcomes = @ \cup {[of |-> frame[c], by |-> c]}]
    /\ worker' = [worker EXCEPT ![c] = "publishing"]
    /\ UNCHANGED <<current, lock, handler, gen, frame>>

\* record_inference_failure
RecordFailure(c) ==
    /\ worker[c] = "failing"
    /\ ManagerFree
    /\ IsCurrent(c)
    /\ GenerationMatches(c)
    /\ runtime' = [runtime EXCEPT !.outcomes = @ \cup {[of |-> frame[c], by |-> c]}]
    /\ NextFrame(c)
    /\ UNCHANGED <<current, lock, handler, gen>>

\* DetectionUpdatePublisher.publish takes the lock for the send, or skips it.
BeginPublish(c) ==
    /\ worker[c] = "publishing"
    /\ ManagerFree
    /\ \/ /\ IsCurrent(c)
          /\ lock' = <<c, "worker">>
          /\ worker' = [worker EXCEPT ![c] = "sending"]
       \/ /\ ~IsCurrent(c)
          /\ worker' = [worker EXCEPT ![c] = "observing"]
          /\ UNCHANGED lock
    /\ UNCHANGED <<current, runtime, handler, gen, frame>>

\* The send returned, or failed and was logged: the pipeline goes on.
EndPublish(c) ==
    /\ worker[c] = "sending"
    /\ lock' = NoConn
    /\ worker' = [worker EXCEPT ![c] = "observing"]
    /\ UNCHANGED <<current, runtime, handler, gen, frame>>

\* observe_behavior_result; the event that follows is written in a transaction
\* of its own, which is left to BehaviorEvents.
Observe(c) ==
    /\ worker[c] = "observing"
    /\ ManagerFree
    /\ IsCurrent(c)
    /\ GenerationMatches(c)
    /\ runtime' = [runtime EXCEPT !.observed = @ \cup {[of |-> frame[c], by |-> c]}]
    /\ NextFrame(c)
    /\ UNCHANGED <<current, lock, handler, gen>>

HandlerStep(c) ==
    \/ RegisterAlone(c) \/ RegisterReplacing(c) \/ PreviousClosed(c)
    \/ BeginSend(c) \/ SkipReady(c) \/ EndSend(c)
    \/ AcceptFrame(c) \/ ReceiveEnds(c) \/ StopWorker(c) \/ Leave(c)

WorkerStep(c) ==
    \/ Poll(c) \/ CheckTaken(c) \/ PredictEnds(c) \/ Discard(c)
    \/ RecordResult(c) \/ RecordFailure(c)
    \/ BeginPublish(c) \/ EndPublish(c) \/ Observe(c)

Next == \E c \in Conn : HandlerStep(c) \/ WorkerStep(c)

Spec == Init /\ [][Next]_vars

\* What a handler does on its own, without its client.
HandlerProgress(c) ==
    \/ PreviousClosed(c) \/ EndSend(c) \/ SkipReady(c) \/ StopWorker(c) \/ Leave(c)
    \/ handler[c] = "starting" /\ BeginSend(c)

\* The event loop runs every runnable task.  asyncio.Lock hands itself to its
\* waiters in FIFO order, so a task that waits for the manager's lock gets it
\* although others keep taking it: strong fairness.  Closes, sends and
\* predictions end: the server's socket timeouts bound the first two, the
\* model's run time the third.  Clients are not fair: nobody has to connect, to
\* send a frame, or to leave.
Fairness ==
    \A c \in Conn : SF_vars(HandlerProgress(c)) /\ SF_vars(WorkerStep(c))

FairSpec == Spec /\ Fairness

----------------------------------------------------------------------------
(* Properties.                                                             *)

TypeOK ==
    /\ current \in Conn \cup {NoConn}
    /\ lock \in Tasks \cup {NoConn}
    /\ runtime \in Runtime \cup {NoRuntime}
    /\ runtime # NoRuntime => Len(runtime.queue) <= QueueSize
    /\ handler \in [Conn -> HandlerPhase]
    /\ worker \in [Conn -> WorkerPhase]
    /\ gen \in [Conn -> Nat]
    /\ frame \in [Conn -> Conn \cup {NoConn}]

\* Whatever the interleaving of replaced handlers, slow predictions and
\* re-created runtimes (whose generations start over), the inference and
\* behaviour state of a session only holds results of frames that the
\* connection which prepared the state delivered and its own worker processed.
ResultsOfOneConnection ==
    runtime # NoRuntime =>
        \A r \in runtime.outcomes \cup runtime.observed :
            r.of = runtime.preparedBy /\ r.by = runtime.preparedBy

\* ConnectionManager serialises a replacement behind a send in progress: a
\* message never leaves for a connection that has already been replaced.
SendsOnlyToCurrent == \A c \in Conn : lock \in {c} \X {"handler", "worker"} => current = c

\* A worker sleeps on the frame event only when there is nothing for it to do:
\* no frame is queued, and its generation is still the runtime's.
NoLostWakeup ==
    \A c \in Conn : worker[c] = "asleep" => GenerationMatches(c) /\ runtime.queue = <<>>

\* While a connection serves the session its runtime exists, and the only way
\* for its worker to be gone is that another handler prepared the runtime
\* after it: no disconnect and no crash of a prediction does that.
WorkerLostOnlyToOvertaking ==
    \A c \in Conn : Serving(c) =>
        /\ runtime # NoRuntime
        /\ worker[c] = "done" => runtime.preparedBy # c

\* What a serving connection relies on: sends never outlive its place, its
\* worker sleeps on no queued frame, and only an overtaking handler retires it.
ServingSound == SendsOnlyToCurrent /\ NoLostWakeup /\ WorkerLostOnlyToOvertaking

\* A registered connection loses its place only to a newer connection or in
\* its own clean-up; a late disconnect of an old one never evicts its heir.
OnlyOwnCleanupEvicts ==
    [][current' # current =>
          \/ \E c \in Conn : current' = c /\ handler[c] = "off"
          \/ current' = NoConn /\ handler[current] = "leaving"]_vars

\* The session's realtime state implements the abstract ownership promise.
Retired == {c \in Conn : handler[c] # "off" /\ c # current}

Contributors == IF runtime = NoRuntime THEN {}
                ELSE {r.by : r \in runtime.outcomes \cup runtime.observed}

Ownership == INSTANCE SessionOwnership WITH
    owner <- current, retired <- Retired, contributors <- Contributors

OwnershipSpec == Ownership!Spec

\* A connection that begins its clean-up finishes it, and one that replaces
\* another gets past the close, whatever the other tasks do with the lock.
CleanupCompletes ==
    \A c \in Conn :
        /\ handler[c] = "stopping" ~> handler[c] = "gone"
        /\ handler[c] = "replacing" ~> handler[c] # "replacing"

\* A frame queued for the connection that prepared the runtime reaches the
\* model unless that connection is replaced, overtaken or leaves, or a worker
\* left over from an earlier runtime of the session takes it.
QueuedFramesReachTheModel ==
    \A c \in Conn :
        (Serving(c) /\ runtime # NoRuntime /\ runtime.preparedBy = c /\ runtime.queue # <<>>)
            ~> \/ worker[c] = "predicting" \/ ~Serving(c) \/ runtime.preparedBy # c
               \/ \E d \in Conn \ {c} : frame[d] = c

\* Why the above hold.  A registered, prepared connection has a runtime at
\* least as new as its generation, and if the generations agree the runtime is
\* the one it prepared: a removed runtime restarts at generation 1, but only
\* the registered connection removes it.  So whatever the registered
\* connection's worker may still record comes from its own frames.
CurrentOwnsItsGeneration ==
    \A c \in Conn : current = c /\ Prepared(c) =>
        /\ runtime # NoRuntime
        /\ gen[c] <= runtime.generation
        /\ gen[c] = runtime.generation => runtime.preparedBy = c

PreparerKnowsGeneration ==
    runtime # NoRuntime =>
        /\ Prepared(runtime.preparedBy)
        /\ gen[runtime.preparedBy] = runtime.generation

QueueOfCurrent ==
    runtime # NoRuntime =>
        (runtime.preparedBy = current =>
            \A i \in 1 .. Len(runtime.queue) : runtime.queue[i] = current)

CurrentHoldsOwnFrame ==
    \A c \in Conn : current = c /\ frame[c] # NoConn => frame[c] = c

TasksInStep ==
    \A c \in Conn :
        /\ ~Prepared(c) => worker[c] = "off" /\ frame[c] = NoConn
        /\ Prepared(c) => worker[c] # "off"
        /\ current = c => handler[c] \notin {"off", "gone"}
        /\ worker[c] \in {"recording", "failing", "observing", "publishing",
                           "sending", "predicting", "checking"} => frame[c] # NoConn

IInv ==
    /\ TypeOK
    /\ CurrentOwnsItsGeneration
    /\ PreparerKnowsGeneration
    /\ QueueOfCurrent
    /\ CurrentHoldsOwnFrame
    /\ TasksInStep
    /\ ResultsOfOneConnection
    /\ SendsOnlyToCurrent
    /\ NoLostWakeup
    /\ WorkerLostOnlyToOvertaking

\* What test_driving_session_websocket.py asserts of a connection that took a
\* session over: it is served, so its worker is running.
ServingConnectionHasWorker == \A c \in Conn : Serving(c) => worker[c] # "done"
============================================================================
