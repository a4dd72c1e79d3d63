--------------------- MODULE ConnectionControllersProofs ---------------------
(***************************************************************************)
(* Proofs about the two controllers every connection of a session owns:    *)
(* FramePairing, for any number of messages, and Heartbeat, for any number *)
(* of connections and any settings.  They share no state, so the two       *)
(* halves do not use each other.                                           *)
(***************************************************************************)
EXTENDS FramePairing, Heartbeat, TLAPS

----------------------------------------------------------------------------
(* FramePairing.                                                           *)

\* The initial state satisfies the inductive invariant.
LEMMA PairingInitInv == PairingInit => PairingInv
BY MaxGenerationAssumption
   DEF PairingInit, PairingInv, PairingTypes, OneFate, NoMetaForgotten, TimerOfPending,
       PendingIsLastMessage, ClosedForGood, GenerationBound,
       NothingOwedWhileSending, Generations, NoMeta, HandlerPhase, Continuation

\* The controller's own invariants, as far as they do not depend on what the
\* receive loop is doing.
Controller ==
    /\ PairingTypes
    /\ OneFate
    /\ NoMetaForgotten
    /\ TimerOfPending
    /\ \A g \in asked : g <= generation

\* Dropping the pending metadata, for whatever reason, leaves none behind.
LEMMA DropKeeps ==
    ASSUME Controller, NEW fate \in Fate, Drop(fate),
           reporting' = reporting, asked' = asked
    PROVE  /\ OneFate' /\ NoMetaForgotten' /\ TimerOfPending'
           /\ pending' = NoMeta
           /\ generation' = generation + 1
           /\ \A g \in asked' : g <= generation'
           /\ fates' \subseteq Generations \X Fate
           /\ sleeping' = {}
<1>1. /\ pending' = NoMeta /\ timer' = NoMeta /\ generation' = generation + 1
      /\ sleeping' = {}
  BY DEF Drop, NextGeneration, Cancelled, Controller, TimerOfPending, NoMeta
<1>2. TimerOfPending'
  BY <1>1 DEF TimerOfPending
<1>3. CASE pending = NoMeta
  <2>1. fates' = fates
    BY <1>3 DEF Drop
  <2>2. OneFate'
    BY <2>1, <1>1, <1>3 DEF Controller, OneFate
  <2>3. NoMetaForgotten'
    BY <2>1, <1>1, <1>3 DEF Controller, NoMetaForgotten
  <2> QED
    BY <1>1, <1>2, <2>1, <2>2, <2>3 DEF Controller, PairingTypes, Generations
<1>4. CASE pending # NoMeta
  <2> DEFINE new == <<pending, fate>>
  <2>0. new[1] = pending
    OBVIOUS
  <2>1. fates' = fates \cup {new}
    BY <1>4 DEF Drop
  <2>2. \A f \in fates : f[1] # pending /\ f[1] \in Generations
    BY DEF Controller, OneFate, PairingTypes
  <2>3. pending \in Generations
    BY <1>4 DEF Controller, PairingTypes
  <2>4. OneFate'
    <3>1. \A f, h \in fates' : f[1] = h[1] => f = h
      <4> HIDE DEF new
      <4>1. \A f, h \in fates : f[1] = h[1] => f = h
        BY DEF Controller, OneFate
      <4> QED
        BY <4>1, <2>0, <2>1, <2>2, Zenon
    <3>2. \A f \in fates' : f[1] # pending'
      <4> HIDE DEF new
      <4> QED
        BY <2>0, <2>1, <2>2, <2>3, <1>1 DEF Generations, NoMeta
    <3>3. \A g \in reporting' : <<g, "timed out">> \in fates'
      BY <2>1 DEF Controller, OneFate
    <3> QED
      BY <3>1, <3>2, <3>3 DEF OneFate
  <2>5. NoMetaForgotten'
    <3>1. {f[1] : f \in fates'} = {f[1] : f \in fates} \cup {pending}
      <4> HIDE DEF new
      <4> QED
        BY <2>0, <2>1
    <3> QED
      BY <3>1, <1>1, <1>4 DEF Controller, NoMetaForgotten, NoMeta
  <2>6. fates' \subseteq Generations \X Fate
    BY <2>1, <2>3 DEF Controller, PairingTypes
  <2> QED
    BY <1>1, <1>2, <2>4, <2>5, <2>6 DEF Controller, PairingTypes, Generations
<1> QED
  BY <1>3, <1>4

\* Registering a metadata where none is pending gives it a generation that was
\* never used.
LEMMA ReplaceKeeps ==
    ASSUME Controller, Replace, pending = NoMeta, generation <= MaxGeneration,
           reporting' = reporting
    PROVE  /\ OneFate' /\ NoMetaForgotten' /\ TimerOfPending'
           /\ pending' = generation + 1
           /\ lastMessage' = pending'
           /\ generation' = generation + 1
           /\ generation' \in Generations
           /\ \A g \in asked' : g <= generation'
           /\ asked' \subseteq Generations
           /\ fates' = fates
<1>0. generation \in Nat /\ generation + 1 \in Generations
  BY MaxGenerationAssumption DEF Controller, PairingTypes, Generations
<1>1. /\ pending' = generation + 1 /\ timer' = generation + 1
      /\ lastMessage' = generation + 1 /\ generation' = generation + 1
      /\ sleeping' = {generation + 1}
      /\ asked' = asked \cup {generation + 1} /\ fates' = fates
  BY DEF Replace, NextGeneration, Cancelled, Controller, TimerOfPending, NoMeta
<1>2. \A f \in fates : f[1] \in asked
  BY DEF Controller, NoMetaForgotten
<1>3. \A f \in fates : f[1] # generation + 1
  BY <1>0, <1>2 DEF Controller, PairingTypes, Generations
<1>4. OneFate'
  BY <1>1, <1>3 DEF Controller, OneFate
<1>5. NoMetaForgotten'
  BY <1>0, <1>1 DEF Controller, NoMetaForgotten, NoMeta, Generations
<1>6. TimerOfPending'
  BY <1>0, <1>1 DEF TimerOfPending, NoMeta, Generations
<1> QED
  BY <1>0, <1>1, <1>4, <1>5, <1>6 DEF Controller, PairingTypes, Generations

\* PairingInv follows from the controller's part and the part of the receive loop.
LEMMA Assemble ==
    ASSUME OneFate', NoMetaForgotten', TimerOfPending', PairingTypes',
           PendingIsLastMessage', ClosedForGood', GenerationBound',
           NothingOwedWhileSending'
    PROVE  PairingInv'
BY DEF PairingInv

LEMMA ControllerOfInv == PairingInv => Controller
BY DEF PairingInv, Controller, GenerationBound

\* HandleOther and Handle only ever meet an empty pairing.
LEMMA HandleKeeps ==
    ASSUME PairingInv, pending = NoMeta, NEW text \in Text, Handle(text),
           reporting' = reporting, generation <= MaxGeneration,
           handler \in {"receiving", "sending"}
    PROVE  PairingInv'
<1>0. Controller
  BY ControllerOfInv
<1>1. CASE text = "meta"
  <2>1. Replace /\ handler' = "receiving" /\ after' = "receive"
    BY <1>1 DEF Handle
  <2>2. /\ OneFate' /\ NoMetaForgotten' /\ TimerOfPending'
        /\ pending' = generation + 1 /\ lastMessage' = pending'
        /\ generation' = generation + 1 /\ generation' \in Generations
        /\ \A g \in asked' : g <= generation'
        /\ asked' \subseteq Generations /\ fates' = fates
    BY <1>0, <2>1, ReplaceKeeps
  <2>3. PairingTypes'
    <3>1. sleeping' \subseteq Generations /\ timer' = pending'
      BY <2>2 DEF TimerOfPending
    <3>2. generation' \in 0 .. MaxGeneration + 3
      BY <2>2, MaxGenerationAssumption DEF Generations
    <3> QED
      BY <2>1, <2>2, <3>1, <3>2 DEF PairingInv, PairingTypes, HandlerPhase, Continuation
  <2>4. GenerationBound'
    BY <2>1, <2>2, MaxGenerationAssumption DEF GenerationBound, Generations
  <2> QED
    BY <2>1, <2>2, <2>3, <2>4, Assemble
       DEF PendingIsLastMessage, ClosedForGood, NothingOwedWhileSending
<1>2. CASE text = "other"
  <2>1. HandleOther
    BY <1>2 DEF Handle
  <2>2. /\ handler' \in {"receiving", "sending"}
        /\ after' \in {"receive", "leave"}
        /\ lastMessage' = NoMeta
        /\ UNCHANGED <<pending, timer, generation, sleeping, reporting, asked, fates>>
    BY <2>1 DEF HandleOther, SendError
  <2>3. PairingTypes' /\ OneFate' /\ NoMetaForgotten' /\ TimerOfPending'
    BY <2>2 DEF PairingInv, PairingTypes, OneFate, NoMetaForgotten, TimerOfPending,
       HandlerPhase, Continuation
  <2>4. GenerationBound'
    BY <2>2, MaxGenerationAssumption DEF PairingInv, PairingTypes, GenerationBound
  <2> QED
    BY <2>2, <2>3, <2>4, Assemble
       DEF PendingIsLastMessage, ClosedForGood, NothingOwedWhileSending
<1> QED
  BY <1>1, <1>2 DEF Text

\* What follows a drop in the receive loop or in the clean-up.
LEMMA DropStep ==
    ASSUME PairingInv, NEW fate \in Fate, Drop(fate), reporting' = reporting,
           asked' = asked, lastMessage' \in {NoMeta, lastMessage},
           handler' \in HandlerPhase, after' \in Continuation,
           \/ handler = "receiving" /\ generation < MaxGeneration /\ handler' # "gone"
           \/ handler = "leaving" /\ handler' = "gone"
    PROVE  PairingInv'
<1>0. Controller
  BY ControllerOfInv
<1>1. /\ OneFate' /\ NoMetaForgotten' /\ TimerOfPending'
      /\ pending' = NoMeta /\ sleeping' = {}
      /\ generation' = generation + 1
      /\ \A g \in asked' : g <= generation'
      /\ fates' \subseteq Generations \X Fate
  BY <1>0, DropKeeps
<1>2. generation \in Nat /\ MaxGeneration \in Nat
  BY MaxGenerationAssumption DEF PairingInv, PairingTypes
<1>3. GenerationBound'
  BY <1>1, <1>2 DEF PairingInv, GenerationBound
<1>4. PairingTypes'
  BY <1>1, <1>2 DEF PairingInv, PairingTypes, GenerationBound, TimerOfPending, NoMeta
<1> QED
  BY <1>1, <1>3, <1>4, Assemble
     DEF PendingIsLastMessage, ClosedForGood, NothingOwedWhileSending

\* Every step of the receive loop, of a timeout and of a report keeps PairingInv.
LEMMA PairingStepInv == PairingInv /\ [PairingNext]_pairingVars => PairingInv'
<1> SUFFICES ASSUME PairingInv, [PairingNext]_pairingVars PROVE PairingInv'
  OBVIOUS
<1>0. /\ Controller
      /\ generation \in Nat /\ MaxGeneration \in Nat
  BY ControllerOfInv, MaxGenerationAssumption DEF PairingInv, PairingTypes
<1>1. CASE ReceiveBinary
  <2>1. handler' \in HandlerPhase /\ after' \in Continuation /\ handler' # "gone"
    BY <1>1 DEF ReceiveBinary, MessageArrives, SendError, PairingInv, PairingTypes,
       HandlerPhase, Continuation
  <2> QED
    BY <1>1, <2>1, DropStep DEF ReceiveBinary, MessageArrives, Fate
<1>2. CASE ReceiveInvalidText
  <2>1. handler' \in HandlerPhase /\ after' \in Continuation /\ handler' # "gone"
    BY <1>2 DEF ReceiveInvalidText, SendError, HandlerPhase, Continuation
  <2> QED
    BY <1>2, <2>1, DropStep DEF ReceiveInvalidText, MessageArrives, Fate
<1>3. CASE ReceiveNothing
  BY <1>0, <1>3 DEF ReceiveNothing, MessageArrives, SendError, PairingInv, PairingTypes, OneFate,
     NoMetaForgotten, TimerOfPending, PendingIsLastMessage, ClosedForGood,
     GenerationBound, NothingOwedWhileSending, HandlerPhase, Continuation
<1>4. ASSUME NEW text \in Text, ReceiveText(text) PROVE PairingInv'
  <2>1. CASE BinaryExpected(text) /\ Drop("rejected") /\ SendError(text)
             /\ lastMessage' = NoMeta /\ asked' = asked
    <3>1. handler' \in HandlerPhase /\ after' \in Continuation /\ handler' # "gone"
      BY <2>1 DEF SendError, HandlerPhase, Continuation
    <3> QED
      BY <1>4, <2>1, <3>1, DropStep DEF ReceiveText, MessageArrives, Fate
  <2>2. CASE ~BinaryExpected(text) /\ Handle(text)
    BY <1>0, <1>4, <2>2, HandleKeeps DEF ReceiveText, MessageArrives, BinaryExpected
  <2> QED
    BY <1>4, <2>1, <2>2 DEF ReceiveText
<1>5. CASE ErrorSent
  <2>1. CASE after \in Text /\ Handle(after)
    <3>1. (pending = NoMeta /\ generation <= MaxGeneration) \/ after # "meta"
      BY <1>5 DEF ErrorSent, PairingInv, GenerationBound, NothingOwedWhileSending
    <3>2. CASE after = "meta"
      BY <1>5, <2>1, <3>1, <3>2, HandleKeeps
         DEF ErrorSent, PairingInv, NothingOwedWhileSending
    <3>3. CASE after = "other"
      <4>1. pending = NoMeta
        BY <1>5, <3>3 DEF ErrorSent, PairingInv, NothingOwedWhileSending
      <4> QED
        BY <1>0, <1>5, <2>1, <3>3, <4>1
           DEF ErrorSent, Handle, HandleOther, SendError, PairingInv, PairingTypes,
           OneFate, NoMetaForgotten, TimerOfPending, PendingIsLastMessage,
           ClosedForGood, GenerationBound, NothingOwedWhileSending,
           HandlerPhase, Continuation
    <3> QED
      BY <2>1, <3>2, <3>3 DEF Text
  <2>2. CASE /\ handler' \in {"receiving", "leaving"}
             /\ handler' = "receiving" => after \notin Text /\ after # "leave"
             /\ after' = "receive"
             /\ UNCHANGED <<pending, timer, generation, sleeping, lastMessage,
                            asked, fates>>
    BY <1>0, <1>5, <2>2
       DEF ErrorSent, PairingInv, PairingTypes, OneFate, NoMetaForgotten, TimerOfPending,
       PendingIsLastMessage, ClosedForGood, GenerationBound,
       NothingOwedWhileSending, HandlerPhase, Continuation
  <2> QED
    BY <1>5, <2>1, <2>2 DEF ErrorSent
<1>6. CASE PeerLeaves
  BY <1>0, <1>6 DEF PeerLeaves, PairingInv, PairingTypes, OneFate, NoMetaForgotten,
     TimerOfPending, PendingIsLastMessage, ClosedForGood, GenerationBound,
     NothingOwedWhileSending, HandlerPhase, Continuation
<1>7. CASE LeavePairing
  <2>1. handler' \in HandlerPhase /\ after' \in Continuation
    BY <1>7 DEF LeavePairing, PairingInv, PairingTypes, HandlerPhase
  <2> QED
    BY <1>7, <2>1, DropStep DEF LeavePairing, ClosePairing, Fate
<1>8. ASSUME NEW g \in Generations, Expire(g) PROVE PairingInv'
  <2>1. pending = g /\ g # NoMeta /\ sleeping' = {}
    BY <1>8 DEF Expire, PairingInv, TimerOfPending, NoMeta, Generations
  <2>2. /\ generation' = generation + 1 /\ pending' = NoMeta /\ timer' = NoMeta
        /\ reporting' = reporting \cup {g}
        /\ fates' = fates \cup {<<g, "timed out">>}
        /\ UNCHANGED <<handler, after, lastMessage, asked>>
    BY <1>8, <2>1 DEF Expire, Stale, NextGeneration, PendingAfterTimeout
  <2> DEFINE new == <<g, "timed out">>
  <2>3. new[1] = g /\ new \in Generations \X Fate
    BY DEF Fate
  <2>4. \A f \in fates : f[1] # g
    BY <2>1 DEF PairingInv, OneFate
  <2>5. OneFate'
    <3>1. \A f, h \in fates : f[1] = h[1] => f = h
      BY DEF PairingInv, OneFate
    <3>2. \A f, h \in fates' : f[1] = h[1] => f = h
      <4>1. fates' = fates \cup {new}
        BY <2>2
      <4> HIDE DEF new
      <4> QED
        BY <3>1, <4>1, <2>3, <2>4, Zenon
    <3>3. \A f \in fates' : f[1] # pending'
      <4>1. \A f \in fates : f[1] # NoMeta
        BY DEF PairingInv, NoMetaForgotten, PairingTypes, NoMeta, Generations
      <4>2. fates' = fates \cup {new}
        BY <2>2
      <4> HIDE DEF new
      <4> QED
        BY <4>1, <4>2, <2>1, <2>2, <2>3
    <3>4. \A h \in reporting' : <<h, "timed out">> \in fates'
      BY <2>2 DEF PairingInv, OneFate
    <3> QED
      BY <3>2, <3>3, <3>4 DEF OneFate
  <2>6. NoMetaForgotten'
    <3>1. fates' = fates \cup {new}
      BY <2>2
    <3>2. {f[1] : f \in fates'} = {f[1] : f \in fates} \cup {g}
      <4> HIDE DEF new
      <4> QED
        BY <3>1, <2>3
    <3> QED
      BY <3>2, <2>1, <2>2 DEF PairingInv, NoMetaForgotten, NoMeta
  <2>7. TimerOfPending' /\ PendingIsLastMessage' /\ ClosedForGood'
        /\ NothingOwedWhileSending'
    BY <2>1, <2>2 DEF TimerOfPending, PendingIsLastMessage, ClosedForGood,
       NothingOwedWhileSending
  <2>8. handler # "gone" /\ ~(handler = "sending" /\ after = "meta")
    BY <2>1 DEF PairingInv, ClosedForGood, NothingOwedWhileSending
  <2>9. GenerationBound' /\ generation' <= MaxGeneration + 2
    <3>1. generation <= MaxGeneration + 1
      BY <2>1, <2>8 DEF PairingInv, GenerationBound
    <3>2. \A h \in asked : h <= generation /\ h \in Nat
      BY DEF PairingInv, GenerationBound, PairingTypes, Generations
    <3>3. handler' # "gone" /\ pending' = NoMeta
          /\ ~(handler' = "sending" /\ after' = "meta")
      BY <2>2, <2>8
    <3>4. generation' = generation + 1 /\ asked' = asked
      BY <2>2
    <3>5. generation \in Nat /\ MaxGeneration \in Nat
      BY <1>0
    <3>6. \A h \in asked' : h <= generation'
      BY <3>2, <3>4, <3>5
    <3> QED
      BY <3>1, <3>3, <3>4, <3>5, <3>6 DEF GenerationBound
  <2>10. PairingTypes'
    <3>1. fates' \subseteq Generations \X Fate
      BY <2>2, <2>3 DEF PairingInv, PairingTypes
    <3>2. generation' \in 0 .. MaxGeneration + 3
      <4>1. generation' = generation + 1 /\ generation \in Nat
        BY <1>0, <2>2
      <4> QED
        BY <1>0, <4>1, <2>9
    <3> QED
      BY <3>1, <3>2, <2>1, <2>2 DEF PairingInv, PairingTypes
  <2> QED
    BY <2>5, <2>6, <2>7, <2>9, <2>10, Assemble
<1>9. ASSUME NEW g \in Generations, Reported(g) PROVE PairingInv'
  BY <1>9 DEF Reported, PairingInv, PairingTypes, OneFate, NoMetaForgotten,
     TimerOfPending, PendingIsLastMessage, ClosedForGood, GenerationBound,
     NothingOwedWhileSending
<1>10. CASE UNCHANGED pairingVars
  BY <1>10 DEF pairingVars, PairingInv, PairingTypes, OneFate, NoMetaForgotten, TimerOfPending,
     PendingIsLastMessage, ClosedForGood, GenerationBound,
     NothingOwedWhileSending
<1> QED
  BY <1>1, <1>2, <1>3, <1>4, <1>5, <1>6, <1>7, <1>8, <1>9, <1>10
     DEF PairingNext, Loop

\* PairingInv is an invariant, whatever the number of messages.
THEOREM PairingInvariance == PairingSpec => []PairingInv
<1>1. PairingInit => PairingInv
  BY PairingInitInv
<1>2. PairingInv /\ [PairingNext]_pairingVars => PairingInv'
  BY PairingStepInv
<1> QED
  BY <1>1, <1>2, PTL DEF PairingSpec

\* A metadata never has two fates: none is reported as timed out after its
\* binary was accepted, and none is accepted after it was reported.
THEOREM OneFateAlways == PairingSpec => []OneFate
<1>1. PairingInv => OneFate
  BY DEF PairingInv
<1> QED
  BY <1>1, PairingInvariance, PTL

\* No metadata is forgotten, none waits without a timer, a binary is only
\* matched with the message right before it, and after close() nothing is
\* pending and no timeout is left to fire.
THEOREM PairingSafety == PairingSpec => []BooksKept
<1>1. PairingInv => BooksKept
  BY DEF PairingInv, BooksKept
<1> QED
  BY <1>1, PairingInvariance, PTL

----------------------------------------------------------------------------
(* Heartbeat.                                                              *)

\* The settings and bounds are numbers.
LEMMA Numbers ==
    /\ Interval \in Nat /\ Timeout \in Nat /\ Delay \in Nat
    /\ Stall \in Nat /\ MaxTime \in Nat
    /\ NoConn \notin Conn /\ Prompt \subseteq Conn
BY TimeoutAssumption, BoundAssumption, PromptAssumption

\* Every due time a phase can be entered with.
LEMMA DueTimes ==
    \A t \in Time : /\ t \in DueTime /\ t + Stall \in DueTime
                    /\ t + Interval \in DueTime
BY Numbers DEF Time, DueTime

LEMMA InitInv == Init => IInv
<1> SUFFICES ASSUME Init PROVE IInv
  OBVIOUS
<1>1. 0 \in Time /\ 0 \in DueTime
  BY Numbers DEF Time, DueTime
<1>2. TypeOK
  BY <1>1 DEF Init, TypeOK, Phase
<1>3. TimesInOrder
  BY Numbers DEF Init, TimesInOrder, None, Timed, Receiving, Beating
<1> QED
  BY <1>2, <1>3, Numbers DEF Init, IInv, CurrentHasRuntime, UnpingedRound,
     PromptRound, SilentRound, PromptNotTimedOut

\* Entering a phase changes this connection's phase and due time only.
LEMMA EnterEffect ==
    ASSUME TypeOK, NEW c \in Conn, NEW p \in Phase, NEW t \in DueTime,
           Enter(c, p, t)
    PROVE  /\ phase' \in [Conn -> Phase] /\ due' \in [Conn -> DueTime]
           /\ phase'[c] = p /\ due'[c] = t
           /\ \A d \in Conn : d # c => phase'[d] = phase[d] /\ due'[d] = due[d]
BY DEF TypeOK, Enter

\* Every step keeps every variable in its type.
LEMMA StepType == TypeOK /\ [Next]_vars => TypeOK'
<1> SUFFICES ASSUME TypeOK, [Next]_vars PROVE TypeOK'
  OBVIOUS
<1>0. now \in Time
  BY DEF TypeOK
<1>1. CASE Tick
  <2>1. now' \in Time
    BY <1>0, <1>1, Numbers DEF Tick, Time
  <2> QED
    BY <1>1, <2>1 DEF Tick, TypeOK
<1>2. ASSUME NEW c \in Conn, Register(c) PROVE TypeOK'
  BY <1>0, <1>2, DueTimes, EnterEffect DEF TypeOK, Register, Phase
<1>3. ASSUME NEW c \in Conn, Prepare(c) PROVE TypeOK'
  BY <1>0, <1>3, DueTimes, EnterEffect DEF TypeOK, Prepare, Phase, LastWhenFound
<1>4. ASSUME NEW c \in Conn, StartHeartbeat(c) PROVE TypeOK'
  BY <1>0, <1>4, DueTimes, EnterEffect
     DEF TypeOK, StartHeartbeat, Phase, Receiving, Beating, NextWake
<1>5. ASSUME NEW c \in Conn, WakeUp(c) PROVE TypeOK'
  BY <1>0, <1>5, DueTimes, EnterEffect DEF TypeOK, WakeUp, Phase, Receiving, Beating
<1>6. ASSUME NEW c \in Conn, Check(c) PROVE TypeOK'
  BY <1>0, <1>6, DueTimes, EnterEffect DEF TypeOK, Check, Phase, Receiving, Beating
<1>7. ASSUME NEW c \in Conn, PingSent(c) PROVE TypeOK'
  <2>1. phase' \in [Conn -> Phase] /\ due' \in [Conn -> DueTime]
    BY <1>0, <1>7, DueTimes, EnterEffect
       DEF PingSent, Phase, Receiving, Beating, NextWake
  <2>2. owed' \in [Conn -> Time \cup {None}] /\ pinged' \in [Conn -> BOOLEAN]
    BY <1>0, <1>7 DEF TypeOK, PingSent
  <2> QED
    BY <1>7, <2>1, <2>2 DEF TypeOK, PingSent
<1>8. ASSUME NEW c \in Conn, PingFails(c) PROVE TypeOK'
  BY <1>0, <1>8, DueTimes, EnterEffect DEF TypeOK, PingFails, Phase
<1>9. ASSUME NEW c \in Conn, Pong(c) PROVE TypeOK'
  BY <1>0, <1>9 DEF TypeOK, Pong
<1>10. ASSUME NEW c \in Conn, Leave(c) PROVE TypeOK'
  BY <1>0, <1>10, DueTimes, EnterEffect DEF TypeOK, Leave, Phase
<1>11. CASE UNCHANGED vars
  BY <1>11 DEF vars, TypeOK
<1> QED
  BY <1>1, <1>2, <1>3, <1>4, <1>5, <1>6, <1>7, <1>8, <1>9, <1>10, <1>11 DEF Next

\* The parts of the invariant that are about time and change.
Clockwork == TimesInOrder /\ CurrentHasRuntime /\ UnpingedRound /\ PromptRound
             /\ SilentRound /\ PromptNotTimedOut

LEMMA TimesAreIntegers ==
    TypeOK => /\ now \in Int /\ last \in Int /\ now >= 0
              /\ \A d \in Conn : due[d] \in Int /\ owed[d] \in Int
              /\ \A d \in Conn : pinged[d] \in BOOLEAN /\ inherited[d] \in BOOLEAN
BY Numbers DEF TypeOK, Time, DueTime, None

LEMMA TickKeeps == ASSUME TypeOK, Clockwork, Tick PROVE Clockwork'
<1>1. /\ now \in Int /\ last \in Int /\ now' = now + 1
      /\ \A d \in Conn : due[d] \in Int /\ owed[d] \in Int
      /\ UNCHANGED <<current, last, phase, due, owed, pinged, inherited>>
      /\ \A c \in Conn : phase[c] \in Timed => now < due[c]
      /\ \A c \in Prompt :
            phase[c] \in Receiving /\ owed[c] # None => now < owed[c] + Delay
  BY TimesAreIntegers DEF Tick
<1>2. TimesInOrder'
  BY <1>1, Numbers DEF Clockwork, TimesInOrder
<1> QED
  BY <1>1, <1>2 DEF Clockwork, CurrentHasRuntime, UnpingedRound, PromptRound,
     SilentRound, PromptNotTimedOut

LEMMA RegisterKeeps ==
    ASSUME TypeOK, Clockwork, NEW c \in Conn, Register(c) PROVE Clockwork'
<1>1. /\ phase' = [phase EXCEPT ![c] = "registering"]
      /\ due' = [due EXCEPT ![c] = now + Stall]
      /\ phase[c] = "new" /\ current' = c
      /\ UNCHANGED <<now, last, owed, pinged, inherited>>
  BY DEF Register, Enter
<1>2. /\ phase'[c] = "registering" /\ due'[c] = now + Stall
      /\ \A d \in Conn : d # c => phase'[d] = phase[d] /\ due'[d] = due[d]
  BY <1>1 DEF TypeOK
<1>3. TimesInOrder'
  BY <1>1, <1>2, TimesAreIntegers, Numbers
     DEF Clockwork, TimesInOrder, Timed, Receiving, Beating
<1>4. PromptRound'
  BY <1>1, <1>2 DEF Clockwork, PromptRound
<1>5. CurrentHasRuntime'
  BY <1>1, <1>2 DEF Clockwork, CurrentHasRuntime
<1>6. UnpingedRound' /\ SilentRound'
  BY <1>1, <1>2 DEF UnpingedRound, SilentRound
<1>7. PromptNotTimedOut'
  BY <1>1, <1>2, Numbers DEF Clockwork, PromptNotTimedOut
<1> QED
  BY <1>3, <1>4, <1>5, <1>6, <1>7 DEF Clockwork

LEMMA PrepareKeeps ==
    ASSUME TypeOK, Clockwork, NEW c \in Conn, Prepare(c) PROVE Clockwork'
<1>1. /\ phase[c] = "registering"
      /\ inherited' = [inherited EXCEPT ![c] = last # None]
      /\ last' = IF last = None THEN now ELSE last
      /\ UNCHANGED <<now, current, owed, pinged>>
  BY DEF Prepare, LastWhenFound
<1>2. /\ phase'[c] = "readying" /\ due'[c] = now + Stall
      /\ ~inherited'[c] => last = None
      /\ \A d \in Conn : d # c => /\ phase'[d] = phase[d] /\ due'[d] = due[d]
                                  /\ inherited'[d] = inherited[d]
  BY <1>1 DEF TypeOK, Prepare, Enter
<1>3. last' >= last /\ last' # None /\ last' \in Int /\ last' <= now
  BY <1>1, TimesAreIntegers DEF Clockwork, TimesInOrder, TypeOK, None, Time
<1>4. TimesInOrder'
  BY <1>1, <1>2, <1>3, TimesAreIntegers, Numbers
     DEF Clockwork, TimesInOrder, Timed, Receiving, Beating
<1>5. PromptRound'
  BY <1>1, <1>2, <1>3, TimesAreIntegers, Numbers DEF Clockwork, PromptRound
<1>6. UnpingedRound'
  BY <1>1, <1>2, <1>3, TimesAreIntegers, Numbers DEF Clockwork, UnpingedRound
<1>7. SilentRound'
  BY <1>1, <1>2, <1>3, TimesAreIntegers, Numbers DEF Clockwork, SilentRound
<1>8. CurrentHasRuntime'
  BY <1>1, <1>2, <1>3 DEF Clockwork, CurrentHasRuntime
<1>9. PromptNotTimedOut'
  BY <1>1, <1>2, Numbers DEF Clockwork, PromptNotTimedOut
<1> QED
  BY <1>4, <1>5, <1>6, <1>7, <1>8, <1>9 DEF Clockwork

LEMMA StartKeeps ==
    ASSUME TypeOK, Clockwork, NEW c \in Conn, StartHeartbeat(c) PROVE Clockwork'
<1>1. /\ phase[c] = "readying"
      /\ UNCHANGED <<now, current, last, owed, pinged, inherited>>
  BY DEF StartHeartbeat
<1>2. /\ phase'[c] = "sleeping" /\ due'[c] = now + Interval
      /\ \A d \in Conn : d # c => phase'[d] = phase[d] /\ due'[d] = due[d]
  BY DEF TypeOK, StartHeartbeat, Enter, NextWake
<1>3. now <= due[c] /\ owed[c] = None /\ ~pinged[c]
  BY <1>1 DEF Clockwork, TimesInOrder, Timed, PromptRound
<1>4. TimesInOrder'
  BY <1>1, <1>2, <1>3, TimesAreIntegers, Numbers
     DEF Clockwork, TimesInOrder, Timed, Receiving, Beating
<1>5. PromptRound'
  BY <1>1, <1>2, <1>3 DEF Clockwork, PromptRound
<1>6. UnpingedRound'
  BY <1>1, <1>2, <1>3, TimesAreIntegers, Numbers DEF Clockwork, UnpingedRound
<1>7. SilentRound'
  BY <1>1, <1>2, <1>3 DEF Clockwork, SilentRound
<1>8. CurrentHasRuntime' /\ PromptNotTimedOut'
  BY <1>1, <1>2, Numbers DEF Clockwork, CurrentHasRuntime, PromptNotTimedOut
<1> QED
  BY <1>4, <1>5, <1>6, <1>7, <1>8 DEF Clockwork

\* A prompt client's PONG came before the wake-up that follows its PING.
LEMMA WakeUpKeeps ==
    ASSUME TypeOK, Clockwork, Punctual, NEW c \in Conn, WakeUp(c)
    PROVE  Clockwork'
<1>1. /\ phase[c] = "sleeping" /\ now >= due[c]
      /\ UNCHANGED <<now, current, last, owed, pinged, inherited>>
  BY DEF WakeUp
<1>2. /\ phase'[c] = "asking" /\ due'[c] = now + Stall
      /\ \A d \in Conn : d # c => phase'[d] = phase[d] /\ due'[d] = due[d]
  BY DEF TypeOK, WakeUp, Enter
<1>3. now = due[c]
  BY <1>1, TimesAreIntegers DEF Clockwork, TimesInOrder, Timed, Beating
<1>4. c \in Prompt /\ owed[c] # None => now < owed[c] + Interval
  BY <1>1, TimesAreIntegers, Numbers DEF Clockwork, TimesInOrder, Receiving, Beating,
     Punctual
<1>5. TimesInOrder'
  BY <1>1, <1>2, TimesAreIntegers, Numbers
     DEF Clockwork, TimesInOrder, Timed, Receiving, Beating
<1>6. PromptRound'
  <2>1. current = c /\ c \in Prompt =>
           owed[c] = None /\ (pinged[c] => due[c] <= last + Interval)
    BY <1>1, <1>3, <1>4, TimesAreIntegers, Numbers DEF Clockwork, PromptRound
  <2> QED
    BY <1>1, <1>2, <1>3, <2>1, TimesAreIntegers, Numbers DEF Clockwork, PromptRound
<1>7. UnpingedRound'
  BY <1>1, <1>2, <1>3, TimesAreIntegers, Numbers DEF Clockwork, UnpingedRound
<1>8. SilentRound'
  BY <1>1, <1>2, <1>3, TimesAreIntegers, Numbers DEF Clockwork, SilentRound
<1>9. CurrentHasRuntime' /\ PromptNotTimedOut'
  BY <1>1, <1>2, Numbers DEF Clockwork, CurrentHasRuntime, PromptNotTimedOut
<1> QED
  BY <1>5, <1>6, <1>7, <1>8, <1>9 DEF Clockwork

\* The check lets a prompt client pass, and bounds the silence of the others.
LEMMA CheckKeeps ==
    ASSUME TypeOK, Clockwork, Punctual, NEW c \in Conn, Check(c)
    PROVE  Clockwork'
<1>1. /\ phase[c] = "asking"
      /\ UNCHANGED <<now, current, last, owed, pinged, inherited>>
  BY DEF Check
<1>2. /\ \/ phase'[c] = "idle" /\ (current # c \/ last = None)
         \/ phase'[c] = "timed out" /\ current = c /\ now - last > Timeout
         \/ /\ phase'[c] = "pinging" /\ due'[c] = now + Stall
            /\ current = c /\ now - last <= Timeout
      /\ \A d \in Conn : d # c => phase'[d] = phase[d] /\ due'[d] = due[d]
  <2>1. \A p, t : Enter(c, p, t) =>
           /\ phase'[c] = p /\ due'[c] = t
           /\ \A d \in Conn : d # c => phase'[d] = phase[d] /\ due'[d] = due[d]
    BY DEF TypeOK, Enter
  <2>2. CASE (current # c \/ last = None) /\ Enter(c, "idle", now)
    BY <2>1, <2>2
  <2>3. CASE current = c /\ now - last > Timeout /\ Enter(c, "timed out", now)
    BY <2>1, <2>3
  <2>4. CASE current = c /\ ~(now - last > Timeout) /\ Enter(c, "pinging", now + Stall)
    <3>1. now - last <= Timeout
      BY <2>4, TimesAreIntegers, Numbers
    <3> QED
      BY <2>1, <2>4, <3>1
  <2> QED
    BY <2>2, <2>3, <2>4 DEF Check, Silent
<1>3. /\ now <= due[c]
      /\ phase'[c] \in {"idle", "timed out", "pinging"}
      /\ phase'[c] = "pinging" => due'[c] = now + Stall /\ now <= last + Timeout
  <2>1. now - last <= Timeout => now <= last + Timeout
    BY TimesAreIntegers, Numbers
  <2> QED
    BY <1>1, <1>2, <2>1 DEF Clockwork, TimesInOrder, Timed, Beating
<1>4. last # None \/ current # c
  BY <1>1 DEF Clockwork, CurrentHasRuntime
<1>5. TimesInOrder'
  <2>1. \A d \in Conn : phase'[d] \in Timed => now' <= due'[d]
    <3> SUFFICES ASSUME NEW d \in Conn, phase'[d] \in Timed PROVE now' <= due'[d]
      OBVIOUS
    <3>1. CASE d = c
      <4>1. phase'[c] = "pinging" /\ due'[c] = now + Stall
        BY <1>3, <3>1 DEF Timed, Beating
      <4>2. now <= now + Stall
        BY TimesAreIntegers, Numbers
      <4> QED
        BY <1>1, <3>1, <4>1, <4>2
    <3>2. CASE d # c
      BY <1>1, <1>2, <3>2 DEF Clockwork, TimesInOrder
    <3> QED
      BY <3>1, <3>2
  <2>2. \A d \in Prompt : phase'[d] \in Receiving => phase[d] \in Receiving
    BY <1>1, <1>2, Numbers DEF Receiving, Beating
  <2> QED
    BY <1>1, <2>1, <2>2 DEF Clockwork, TimesInOrder
<1>6. PromptRound'
  BY <1>1, <1>2 DEF Clockwork, PromptRound
<1>7. UnpingedRound'
  BY <1>1, <1>2 DEF Clockwork, UnpingedRound
<1>8. SilentRound'
  <2> SUFFICES ASSUME NEW d \in Conn, current = d
               PROVE  /\ phase'[d] = "pinging" => due'[d] <= last + Timeout + Stall
                      /\ phase'[d] = "sleeping" /\ pinged[d] =>
                            due'[d] <= last + Timeout + Stall + Interval
                      /\ phase'[d] = "asking" /\ pinged[d] =>
                            due'[d] <= last + Timeout + 2 * Stall + Interval
    BY <1>1 DEF SilentRound
  <2>1. CASE d = c
    <3>1. now <= last + Timeout => now + Stall <= last + Timeout + Stall
      BY TimesAreIntegers, Numbers
    <3> QED
      BY <1>3, <2>1, <3>1
  <2>2. CASE d # c
    BY <1>2, <2>2 DEF Clockwork, SilentRound
  <2> QED
    BY <2>1, <2>2
<1>9. CurrentHasRuntime'
  BY <1>1, <1>2, <1>4 DEF Clockwork, CurrentHasRuntime
<1>10. PromptNotTimedOut'
  <2>1. ASSUME c \in Prompt, current = c, now - last > Timeout
        PROVE  inherited[c] /\ ~pinged[c]
    <3>0. now <= due[c]
      BY <1>3
    <3>1. ~pinged[c]
      BY <1>1, <3>0, <2>1, TimesAreIntegers, Numbers DEF Clockwork, PromptRound, Punctual
    <3>2. inherited[c]
      BY <1>1, <3>0, <2>1, <3>1, TimesAreIntegers, Numbers
         DEF Clockwork, UnpingedRound, Punctual
    <3> QED
      BY <3>1, <3>2
  <2> QED
    BY <1>1, <1>2, <2>1, Numbers DEF Clockwork, PromptNotTimedOut
<1> QED
  BY <1>5, <1>6, <1>7, <1>8, <1>9, <1>10 DEF Clockwork

LEMMA PingSentKeeps ==
    ASSUME TypeOK, Clockwork, NEW c \in Conn, PingSent(c) PROVE Clockwork'
<1>1. /\ phase[c] = "pinging"
      /\ UNCHANGED <<now, current, last, inherited>>
  BY DEF PingSent
<1>2. /\ phase'[c] = "sleeping" /\ due'[c] = now + Interval
      /\ current = c => owed'[c] = now /\ pinged'[c]
      /\ current # c => owed'[c] = owed[c] /\ pinged'[c] = pinged[c]
      /\ \A d \in Conn : d # c => /\ phase'[d] = phase[d] /\ due'[d] = due[d]
                                  /\ owed'[d] = owed[d] /\ pinged'[d] = pinged[d]
  BY DEF TypeOK, PingSent, Enter, NextWake
<1>3. now <= due[c]
  BY <1>1 DEF Clockwork, TimesInOrder, Timed, Beating
<1>4. now # None
  BY TimesAreIntegers DEF None
<1>5. TimesInOrder'
  BY <1>1, <1>2, TimesAreIntegers, Numbers
     DEF Clockwork, TimesInOrder, Timed, Receiving, Beating
<1>6. PromptRound'
  BY <1>1, <1>2, <1>4 DEF Clockwork, PromptRound
<1>7. UnpingedRound'
  BY <1>1, <1>2 DEF Clockwork, UnpingedRound
<1>8. SilentRound'
  BY <1>1, <1>2, <1>3, TimesAreIntegers, Numbers DEF Clockwork, SilentRound
<1>9. CurrentHasRuntime' /\ PromptNotTimedOut'
  BY <1>1, <1>2, Numbers DEF Clockwork, CurrentHasRuntime, PromptNotTimedOut
<1> QED
  BY <1>5, <1>6, <1>7, <1>8, <1>9 DEF Clockwork

LEMMA PingFailsKeeps ==
    ASSUME TypeOK, Clockwork, NEW c \in Conn, PingFails(c) PROVE Clockwork'
<1>1. /\ phase[c] = "pinging" /\ phase'[c] = "failed"
      /\ \A d \in Conn : d # c => phase'[d] = phase[d] /\ due'[d] = due[d]
      /\ UNCHANGED <<now, current, last, owed, pinged, inherited>>
  BY DEF TypeOK, PingFails, Enter
<1>2. TimesInOrder'
  BY <1>1, Numbers DEF Clockwork, TimesInOrder, Timed, Receiving, Beating
<1>4. PromptRound' /\ UnpingedRound' /\ SilentRound'
  BY <1>1 DEF Clockwork, PromptRound, UnpingedRound, SilentRound
<1>3. CurrentHasRuntime' /\ PromptNotTimedOut'
  BY <1>1, Numbers DEF Clockwork, CurrentHasRuntime, PromptNotTimedOut
<1> QED
  BY <1>2, <1>3, <1>4 DEF Clockwork

LEMMA PongKeeps ==
    ASSUME TypeOK, Clockwork, NEW c \in Conn, Pong(c) PROVE Clockwork'
<1>1. /\ phase[c] \notin {"new", "registering", "readying", "gone"}
      /\ last' \in {last, now} /\ (last # None => last' = now)
      /\ UNCHANGED <<now, current, phase, due, pinged, inherited>>
  BY DEF Pong, Receiving, Beating
<1>2. /\ owed'[c] = None
      /\ \A d \in Conn : d # c => owed'[d] = owed[d]
  BY DEF TypeOK, Pong
<1>3. last <= last' /\ last' <= now /\ last' \in Int
  BY <1>1, TimesAreIntegers DEF Clockwork, TimesInOrder
<1>4. last # None => last' # None
  BY <1>1, TimesAreIntegers DEF None
<1>5. TimesInOrder'
  BY <1>1, <1>2, <1>3, TimesAreIntegers, Numbers DEF Clockwork, TimesInOrder, None
<1>6. PromptRound'
  <2>1. ASSUME current = c, phase[c] = "sleeping", c \in Prompt, pinged[c]
        PROVE  due[c] <= last' + Interval
    <3>1. last' = now
      BY <1>1, <2>1 DEF Clockwork, CurrentHasRuntime
    <3> QED
      BY <2>1, <3>1, <1>3, TimesAreIntegers, Numbers DEF Clockwork, PromptRound, TimesInOrder
  <2> QED
    BY <1>1, <1>2, <1>3, <2>1, TimesAreIntegers, Numbers DEF Clockwork, PromptRound
<1>7. UnpingedRound' /\ SilentRound'
  BY <1>1, <1>3, TimesAreIntegers, Numbers DEF Clockwork, UnpingedRound, SilentRound
<1>8. CurrentHasRuntime' /\ PromptNotTimedOut'
  BY <1>1, <1>4, Numbers DEF Clockwork, CurrentHasRuntime, PromptNotTimedOut
<1> QED
  BY <1>5, <1>6, <1>7, <1>8 DEF Clockwork

LEMMA LeaveKeeps ==
    ASSUME TypeOK, Clockwork, NEW c \in Conn, Leave(c) PROVE Clockwork'
<1>1. /\ phase'[c] = "gone"
      /\ \A d \in Conn : d # c => phase'[d] = phase[d] /\ due'[d] = due[d]
      /\ phase[c] \notin {"new", "registering"}
      /\ UNCHANGED <<now, owed, pinged, inherited>>
  BY DEF TypeOK, Leave, Enter, Receiving, Beating
<1>2. /\ current = c => current' = NoConn /\ last' = None
      /\ current # c => current' = current /\ last' = last
  BY DEF Leave, RemovesRuntime
<1>3. TimesInOrder'
  BY <1>1, <1>2, TimesAreIntegers, Numbers
     DEF Clockwork, TimesInOrder, Timed, Receiving, Beating, None
<1>4. PromptRound'
  <2>1. phase[c] = "readying" => owed[c] = None /\ ~pinged[c]
    BY DEF Clockwork, PromptRound
  <2> QED
    BY <1>1, <1>2, <2>1, Numbers DEF Clockwork, PromptRound
<1>5. UnpingedRound' /\ SilentRound'
  BY <1>1, <1>2, Numbers DEF Clockwork, UnpingedRound, SilentRound
<1>6. CurrentHasRuntime' /\ PromptNotTimedOut'
  BY <1>1, <1>2, Numbers DEF Clockwork, CurrentHasRuntime, PromptNotTimedOut
<1> QED
  BY <1>3, <1>4, <1>5, <1>6 DEF Clockwork

\* IInv is inductive if the settings leave a prompt client the time it needs.
LEMMA StepInv == ASSUME Punctual PROVE IInv /\ [Next]_vars => IInv'
<1> SUFFICES ASSUME IInv, [Next]_vars PROVE IInv'
  OBVIOUS
<1>0. TypeOK /\ Clockwork /\ TypeOK'
  BY StepType DEF IInv, Clockwork
<1>1. CASE UNCHANGED vars
  BY <1>1 DEF vars, IInv, TypeOK, TimesInOrder, CurrentHasRuntime,
     UnpingedRound, PromptRound, SilentRound, PromptNotTimedOut
<1>2. CASE Next
  <2>1. Clockwork'
    BY <1>0, <1>2, TickKeeps, RegisterKeeps, PrepareKeeps, StartKeeps,
       WakeUpKeeps, CheckKeeps, PingSentKeeps, PingFailsKeeps, PongKeeps,
       LeaveKeeps, Punctual DEF Next
  <2> QED
    BY <1>0, <2>1 DEF IInv, Clockwork
<1> QED
  BY <1>1, <1>2

\* Under punctual settings the heartbeat closes no client for silence that
\* answers its PINGs, once it was pinged or if its runtime was its own.
THEOREM PromptSurvives == ASSUME Punctual PROVE Spec => []PromptNotTimedOut
<1>1. Init => IInv
  BY InitInv
<1>2. IInv /\ [Next]_vars => IInv'
  BY StepInv
<1>3. IInv => PromptNotTimedOut
  BY DEF IInv
<1> QED
  BY <1>1, <1>2, <1>3, PTL DEF Spec

\* IInv is an invariant of punctual settings.
THEOREM HeartbeatInvariance == ASSUME Punctual PROVE Spec => []IInv
<1>1. Init => IInv
  BY InitInv
<1>2. IInv /\ [Next]_vars => IInv'
  BY StepInv
<1> QED
  BY <1>1, <1>2, PTL DEF Spec

\* No registered connection is silent unnoticed for longer than the timeout,
\* a round and two waits, and none of them is left without a heartbeat.
THEOREM SilenceDetected ==
    ASSUME Punctual PROVE Spec => []SilenceIsNoticed
<1>1. IInv => SilenceIsBounded
  <2> SUFFICES ASSUME IInv, NEW c \in Conn, current = c, pinged[c],
                      phase[c] \in Beating
               PROVE  now - last <= Timeout + Interval + 2 * Stall
    BY DEF SilenceIsBounded
  <2>1. now <= due[c]
    BY DEF IInv, TimesInOrder, Timed
  <2> QED
    BY <2>1, TimesAreIntegers, Numbers DEF IInv, SilentRound, Beating
<1>2. IInv => CurrentIsWatched
  BY DEF IInv, CurrentHasRuntime, CurrentIsWatched
<1>3. IInv => SilenceIsNoticed
  BY <1>1, <1>2 DEF SilenceIsNoticed
<1> QED
  BY <1>3, HeartbeatInvariance, PTL
=============================================================================
