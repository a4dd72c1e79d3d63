---------------------------- MODULE FramePairing ----------------------------
(***************************************************************************)
(* Pairing of FRAME_META text messages with the binary messages that       *)
(* follow them (app/realtime/frame_pairing.py), driven by the receive loop *)
(* of one connection (app/api/v1/endpoints/websocket.py).                  *)
(*                                                                         *)
(* Three kinds of task meet here: the receive loop, the timeout task armed *)
(* for each metadata, and the timeout tasks that are past their sleep and  *)
(* report FRAME_BINARY_TIMEOUT, which nothing can cancel any more.  The    *)
(* controller's lock is never held across an await, so each of its methods *)
(* is one step; a cancelled timeout task ends without another effect, and  *)
(* the await of its end, which comes at once, is no step of its own.       *)
(* A metadata is named by the generation it was registered under.          *)
(***************************************************************************)
EXTENDS Naturals

CONSTANT MaxGeneration  \* bound on the messages the client sends

ASSUME MaxGenerationAssumption == MaxGeneration \in Nat

VARIABLES pending,     \* _pending
          timer,       \* _timeout_task
          generation,  \* _generation
          sleeping,    \* timeout tasks that have not woken up
          reporting,   \* timeout tasks inside on_timeout
          handler,     \* what the receive loop is doing
          after,       \* what it does once the error message is sent
          lastMessage, \* history: the metadata, if it was the last message
          asked,       \* history: every metadata ever registered
          fates        \* history: what became of each of them

pairingVars ==
    <<pending, timer, generation, sleeping, reporting, handler, after,
      lastMessage, asked, fates>>

NoMeta == 0

\* The generations a metadata can be registered under.
Generations == 1 .. MaxGeneration + 1

\* Valid text messages: FRAME_META, and PONG or LOCATION_UPDATE.
Text == {"meta", "other"}

HandlerPhase == {"receiving", "sending", "leaving", "gone"}

Continuation == Text \cup {"receive", "leave"}

Fate == {"claimed", "timed out", "rejected", "closed"}

----------------------------------------------------------------------------
(* The controller.                                                         *)

NextGeneration == generation + 1

\* What is left of the timeout tasks when one is cancelled.
Cancelled(task) == sleeping \ {task}

\* drop_pending, on behalf of claim_binary, of an error, or of close.
Drop(fate) ==
    /\ generation' = NextGeneration
    /\ pending' = NoMeta
    /\ timer' = NoMeta
    /\ sleeping' = Cancelled(timer)
    /\ fates' = IF pending = NoMeta THEN fates ELSE fates \cup {<<pending, fate>>}

\* replace_pending
Replace ==
    /\ generation' = NextGeneration
    /\ pending' = NextGeneration
    /\ timer' = NextGeneration
    /\ sleeping' = Cancelled(timer) \cup {NextGeneration}
    /\ asked' = asked \cup {NextGeneration}
    /\ lastMessage' = NextGeneration
    /\ UNCHANGED fates

MutStaleWhenCurrent(g) == pending = g

\* The timeout of a metadata that is not pending any more reports nothing.
Stale(g) == pending # g

MutTimeoutKeepsPending == pending

\* A timeout takes its metadata off the controller.
PendingAfterTimeout == NoMeta

\* _run_timeout, from the end of its sleep to the call of on_timeout.
Expire(g) ==
    /\ g \in sleeping
    /\ sleeping' = sleeping \ {g}
    /\ IF Stale(g)
       THEN UNCHANGED <<pending, timer, generation, reporting, fates>>
       ELSE /\ generation' = NextGeneration
            /\ pending' = PendingAfterTimeout
            /\ timer' = NoMeta
            /\ reporting' = reporting \cup {g}
            /\ fates' = fates \cup {<<g, "timed out">>}
    /\ UNCHANGED <<handler, after, lastMessage, asked>>

\* The FRAME_BINARY_TIMEOUT message was sent, skipped, or failed.
Reported(g) ==
    /\ g \in reporting
    /\ reporting' = reporting \ {g}
    /\ UNCHANGED <<pending, timer, generation, sleeping, handler, after,
                   lastMessage, asked, fates>>

----------------------------------------------------------------------------
(* The receive loop.                                                       *)

PairingInit ==
    /\ pending = NoMeta
    /\ timer = NoMeta
    /\ generation = 0
    /\ sleeping = {}
    /\ reporting = {}
    /\ handler = "receiving"
    /\ after = "receive"
    /\ lastMessage = NoMeta
    /\ asked = {}
    /\ fates = {}

\* The next message of the client, as far as MaxGeneration lets it go on.
MessageArrives == handler = "receiving" /\ generation < MaxGeneration

SendError(next) == handler' = "sending" /\ after' = next

\* Accepted, or refused with an error: too large, no JPEG, a known frame id.
\* Without metadata it is an orphan.
ReceiveBinary ==
    /\ MessageArrives
    /\ Drop("claimed")
    /\ \/ pending # NoMeta /\ UNCHANGED <<handler, after>>
       \/ SendError("receive")
    /\ lastMessage' = NoMeta
    /\ UNCHANGED <<reporting, asked>>

\* An invalid LOCATION_UPDATE or FRAME_META, or text that is no message at all.
ReceiveInvalidText ==
    /\ MessageArrives
    /\ Drop("rejected")
    /\ \E next \in {"receive", "leave"} : SendError(next)
    /\ lastMessage' = NoMeta
    /\ UNCHANGED <<reporting, asked>>

\* Neither text nor bytes: the pairing is left alone until close().
ReceiveNothing ==
    /\ MessageArrives
    /\ SendError("leave")
    /\ lastMessage' = NoMeta
    /\ UNCHANGED <<pending, timer, generation, sleeping, reporting, asked, fates>>

\* PONG and LOCATION_UPDATE do not touch the pairing; a location may be
\* refused, and ends the connection when the session is not active any more.
HandleOther ==
    /\ \/ handler' = "receiving" /\ after' = "receive"
       \/ SendError("receive")
       \/ SendError("leave")
    /\ lastMessage' = NoMeta
    /\ UNCHANGED <<pending, timer, generation, sleeping, asked, fates>>

Handle(text) ==
    \/ text = "meta" /\ Replace /\ handler' = "receiving" /\ after' = "receive"
    \/ text = "other" /\ HandleOther

MutOnlyMetaExpectsBinary(text) == pending # NoMeta /\ text = "meta"

\* has_pending: the client owed the binary of its last metadata.
BinaryExpected(text) == pending # NoMeta

\* A valid text message is handled after the FRAME_BINARY_EXPECTED error.
ReceiveText(text) ==
    /\ MessageArrives
    /\ \/ /\ BinaryExpected(text)
          /\ Drop("rejected")
          /\ SendError(text)
          /\ lastMessage' = NoMeta
          /\ UNCHANGED asked
       \/ /\ ~BinaryExpected(text)
          /\ Handle(text)
    /\ UNCHANGED reporting

\* The error message was sent or skipped, or the send raised.
ErrorSent ==
    /\ handler = "sending"
    /\ \/ /\ after \in Text
          /\ Handle(after)
       \/ /\ handler' = IF after = "leave" THEN "leaving" ELSE "receiving"
          /\ after \notin Text
          /\ after' = "receive"
          /\ UNCHANGED <<pending, timer, generation, sleeping, lastMessage,
                         asked, fates>>
       \/ /\ handler' = "leaving"
          /\ after' = "receive"
          /\ UNCHANGED <<pending, timer, generation, sleeping, lastMessage,
                         asked, fates>>
    /\ UNCHANGED reporting

PeerLeaves ==
    /\ handler = "receiving"
    /\ handler' = "leaving"
    /\ UNCHANGED <<pending, timer, generation, sleeping, reporting, after,
                   lastMessage, asked, fates>>

\* FramePairingController.close
ClosePairing == Drop("closed")

\* finally: frame_pairing.close()
LeavePairing ==
    /\ handler = "leaving"
    /\ handler' = "gone"
    /\ ClosePairing
    /\ UNCHANGED <<reporting, after, lastMessage, asked>>

Loop ==
    \/ ReceiveBinary \/ ReceiveInvalidText \/ ReceiveNothing
    \/ \E text \in Text : ReceiveText(text)
    \/ ErrorSent \/ PeerLeaves \/ LeavePairing

PairingNext ==
    \/ Loop
    \/ \E g \in Generations : Expire(g) \/ Reported(g)

PairingSpec == PairingInit /\ [][PairingNext]_pairingVars

\* A sleep ends, and a message is sent or fails, in bounded time; the client
\* may stay silent for ever.
PairingFairness ==
    /\ \A g \in Generations :
        WF_pairingVars(Expire(g)) /\ WF_pairingVars(Reported(g))
    /\ WF_pairingVars(ErrorSent) /\ WF_pairingVars(LeavePairing)

FairPairing == PairingSpec /\ PairingFairness

----------------------------------------------------------------------------
(* Properties.                                                             *)

PairingTypes ==
    /\ pending \in Generations \cup {NoMeta}
    /\ timer \in Generations \cup {NoMeta}
    /\ generation \in 0 .. MaxGeneration + 3
    /\ sleeping \subseteq Generations
    /\ reporting \subseteq Generations
    /\ handler \in HandlerPhase
    /\ after \in Continuation
    /\ lastMessage \in Generations \cup {NoMeta}
    /\ asked \subseteq Generations
    /\ fates \subseteq Generations \X Fate

\* A metadata is claimed, or timed out, or rejected, and never two of these:
\* no FRAME_BINARY_TIMEOUT follows for a frame that was accepted, and no
\* binary is accepted for a metadata that was reported as timed out.
OneFate ==
    /\ \A f, h \in fates : f[1] = h[1] => f = h
    /\ \A f \in fates : f[1] # pending
    /\ \A g \in reporting : <<g, "timed out">> \in fates

\* No metadata is discarded silently, whatever message follows it: each one
\* is pending or was claimed, reported to the client, or dropped by close.
NoMetaForgotten == asked = {f[1] : f \in fates} \cup ({pending} \ {NoMeta})

\* Exactly the pending metadata has a timeout task asleep: no timer survives
\* its metadata, and no metadata waits without a timer.
TimerOfPending ==
    /\ timer = pending
    /\ sleeping = {pending} \ {NoMeta}

\* A binary is only ever matched with the message right before it.
PendingIsLastMessage ==
    handler = "receiving" /\ pending # NoMeta => lastMessage = pending

\* After close() nothing is pending and no timeout can fire any more, only
\* reports that were under way may still end.
ClosedForGood == handler = "gone" => pending = NoMeta /\ sleeping = {}

\* The pairing keeps its books: every metadata is accounted for, the pending
\* one has the only timer, its binary comes right after it, and close() ends
\* all of it.
BooksKept == NoMetaForgotten /\ TimerOfPending /\ PendingIsLastMessage /\ ClosedForGood

\* A metadata does not wait for ever for its binary.
WaitingEnds == \A g \in Generations : pending = g ~> pending # g

\* Generations only grow, by at most one per message, one per timeout and one
\* for the close, so a registered generation is never used twice.
GenerationBound ==
    /\ \A g \in asked : g <= generation
    /\ handler = "gone" => generation <= MaxGeneration + 3
    /\ handler # "gone" => generation <= MaxGeneration + 2
    /\ handler # "gone" /\ pending # NoMeta => generation <= MaxGeneration + 1
    /\ handler = "sending" /\ after = "meta" => generation <= MaxGeneration

\* While an error is sent no metadata waits, unless the connection is left.
NothingOwedWhileSending == handler = "sending" /\ after # "leave" => pending = NoMeta

PairingInv ==
    /\ PairingTypes
    /\ OneFate
    /\ NoMetaForgotten
    /\ TimerOfPending
    /\ PendingIsLastMessage
    /\ ClosedForGood
    /\ GenerationBound
    /\ NothingOwedWhileSending
=============================================================================
