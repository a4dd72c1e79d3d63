--------------------------- MODULE BehaviorWindow ---------------------------
(***************************************************************************)
(* The sliding window that turns detections of single frames into          *)
(* behaviour transitions (app/policies/sliding_window_behavior_policy.py), *)
(* and the copy of its state the session runtime keeps                     *)
(* (observe_behavior_result of app/realtime/session_runtime.py).           *)
(*                                                                         *)
(* A detection is the frame it is of, the model's action, a confidence in  *)
(* basis points and the client's captured_at.  Samples leave the window in *)
(* the order they came in, whatever their captured_at; the time bounds of  *)
(* a transition are those of captured_at.                                  *)
(***************************************************************************)
EXTENDS Integers, Sequences, FiniteSets, FiniteSetsExt, RiskPolicy

CONSTANTS Frame,          \* frame ids
          Detection,      \* [action, confidence] the model can answer
          WindowSize, MinConfidence, MinHitCount, ClearHitCount,
          MinHitPercent, ClearHitPercent,
          AllowUpdate,    \* allow_update_transition
          MaxTime,        \* bound on captured_at
          Backstep,       \* how far the client's clock may step back
          None

\* MODEL_ACTION_METADATA, in the order of ModelActionType.
Actions == <<"SAFE_DRIVING", "HAIR_MAKEUP", "ADJUSTING_RADIO",
             "GPS_OPERATING", "WRITING_MSG_RIGHT", "WRITING_MSG_LEFT",
             "TALKING_PHONE_RIGHT", "TALKING_PHONE_LEFT", "TAKING_PICTURE",
             "TALKING_PASSENGER", "SINGING_DANCING", "FATIGUE_SOMNOLENCE",
             "DRINKING_RIGHT", "DRINKING_LEFT", "REACHING_BEHIND", "SMOKING">>

BehaviorOf(action) ==
    CASE action = "SAFE_DRIVING" -> "NORMAL"
      [] action \in {"HAIR_MAKEUP", "ADJUSTING_RADIO", "GPS_OPERATING",
                     "TALKING_PASSENGER", "SINGING_DANCING"} -> "SECONDARY_TASK"
      [] action \in {"WRITING_MSG_RIGHT", "WRITING_MSG_LEFT",
                     "TALKING_PHONE_RIGHT", "TALKING_PHONE_LEFT",
                     "TAKING_PICTURE"} -> "PHONE_USE"
      [] action = "FATIGUE_SOMNOLENCE" -> "DROWSINESS"
      [] action \in {"DRINKING_RIGHT", "DRINKING_LEFT"} -> "FOOD_OR_DRINK"
      [] OTHER -> action

\* DetectionBehaviorType, in its order; all but NORMAL are event behaviours.
Behaviors == <<"NORMAL", "DROWSINESS", "PHONE_USE", "FOOD_OR_DRINK",
               "GAZE_AWAY", "SECONDARY_TASK", "REACHING_BEHIND", "SMOKING">>

Action == {Actions[i] : i \in DOMAIN Actions}
Behavior == {Behaviors[i] : i \in DOMAIN Behaviors}
Abnormal == Behavior \ {"NORMAL"}

\* 0.0 to 1.0 in basis points
Confidence == 0..10000

\* SlidingWindowBehaviorConfig.__post_init__, and what the only configuration
\* of the program adds: starting and clearing take a majority each.
ASSUME ConfigAssumption ==
    /\ WindowSize \in Nat \ {0}
    /\ MinHitCount \in 1..WindowSize /\ ClearHitCount \in 1..WindowSize
    /\ MinHitPercent \in 0..100 /\ ClearHitPercent \in 0..100
    /\ MinHitCount + ClearHitCount > WindowSize
    /\ AllowUpdate \in BOOLEAN
    /\ None \notin Behavior \cup Action /\ None \notin Int

ASSUME InputAssumption ==
    /\ Detection \subseteq [action : Action, confidence : Confidence]
    /\ MinConfidence \in Confidence
    /\ MaxTime \in Nat /\ Backstep \in Nat

VARIABLES
    samples,      \* _samples
    frameIds,     \* _frame_ids
    active,       \* _active_behavior_type, _model_action_type, _started_at
    runtime,      \* the session runtime's copy, with the last transition
    clock,        \* captured_at of the newest sample since the last reset
    opened,       \* history: started_at of the last STARTED transition
    steppedBack   \* history: captured_at went back since the last reset

vars == <<samples, frameIds, active, runtime, clock, opened, steppedBack>>

Time == 0..MaxTime

Idle == [behavior |-> None, action |-> None, since |-> None]

NoTransition == [told |-> "NONE", behavior |-> None, action |-> None,
                 since |-> None, seen |-> None]

Init ==
    /\ samples = <<>> /\ frameIds = {}
    /\ active = Idle /\ runtime = NoTransition
    /\ clock = 0 /\ opened = None /\ steppedBack = FALSE

-----------------------------------------------------------------------------
(* Summaries.  A group is a set of positions of a window w.                *)

\* Mutant: the threshold is exclusive.
MutExclusive(w) == {i \in DOMAIN w : w[i].confidence > MinConfidence}

Eligible(w) == {i \in DOMAIN w : w[i].confidence >= MinConfidence}

Hits(w, b) == {i \in Eligible(w) : BehaviorOf(w[i].action) = b}

HitsOfAction(w, b, a) == {i \in Hits(w, b) : w[i].action = a}

Total(w, group) == MapThenSumSet(LAMBDA i : w[i].confidence, group)

Highest(w, group) == Max({w[i].confidence : i \in group})

\* Of groups that are as large, the one with the higher total has the higher
\* average.
Outdoes(w, g, h) ==
    \/ Cardinality(g) > Cardinality(h)
    \/ /\ Cardinality(g) = Cardinality(h)
       /\ \/ Total(w, g) > Total(w, h)
          \/ Total(w, g) = Total(w, h) /\ Highest(w, g) > Highest(w, h)

RankIn(order, x) == CHOOSE i \in DOMAIN order : order[i] = x

\* max(..., key=...) of the groups' names: the rank in the order breaks a tie.
Best(w, group, order) ==
    CHOOSE x \in DOMAIN group : \A y \in DOMAIN group \ {x} :
        \/ Outdoes(w, group[x], group[y])
        \/ /\ ~Outdoes(w, group[y], group[x])
           /\ RankIn(order, x) < RankIn(order, y)

SeenIn(w) == {b \in Abnormal : Hits(w, b) # {}}

Dominant(w) == Best(w, [b \in SeenIn(w) |-> Hits(w, b)], Behaviors)

DominantAction(w, b) ==
    LET seen == {w[i].action : i \in Hits(w, b)}
    IN  Best(w, [a \in seen |-> HitsOfAction(w, b, a)], Actions)

Reaches(w, b, count, percent) ==
    /\ Cardinality(Hits(w, b)) >= count
    /\ 100 * Cardinality(Hits(w, b)) >= percent * Cardinality(Eligible(w))

\* Mutant: one normal frame ends an episode.
MutOneNormal(w) == Hits(w, "NORMAL") # {}

MeetsClearThreshold(w) == Reaches(w, "NORMAL", ClearHitCount, ClearHitPercent)

MeetsStartThreshold(w) ==
    /\ SeenIn(w) # {}
    /\ Reaches(w, Dominant(w), MinHitCount, MinHitPercent)

FirstSeen(w, b) == Min({w[i].at : i \in Hits(w, b)})

LastSeen(w, b) == Max({w[i].at : i \in Hits(w, b)})

-----------------------------------------------------------------------------
(* What observe() makes of the evidence e of a window when a is active.     *)

\* _set_active
Summary(w) == [behavior |-> Dominant(w),
               action |-> DominantAction(w, Dominant(w)),
               since |-> FirstSeen(w, Dominant(w))]

Evidence(w) ==
    LET starts == MeetsStartThreshold(w)
    IN [clears |-> MeetsClearThreshold(w), starts |-> starts,
        summary |-> IF starts THEN Summary(w) ELSE Idle]

Clears(e, a) == a # Idle /\ e.clears

\* Mutant: a new episode starts over the one under way.
MutStartsAgain(e, a) == e.starts /\ ~Clears(e, a)

Starts(e, a) == a = Idle /\ e.starts

Turns(e, a) ==
    /\ a # Idle /\ ~Clears(e, a) /\ e.starts
    /\ e.summary.behavior # a.behavior

ChangesAction(e, a) ==
    /\ a # Idle /\ ~Clears(e, a) /\ e.starts
    /\ e.summary.behavior = a.behavior /\ e.summary.action # a.action

ActiveAfter(e, a) ==
    CASE Clears(e, a) -> Idle
      [] Starts(e, a) \/ Turns(e, a) -> e.summary
      [] ChangesAction(e, a) -> [a EXCEPT !.action = e.summary.action]
      [] OTHER -> a

TransitionType(e, a) ==
    CASE Clears(e, a) -> "CLEARED"
      [] Starts(e, a) -> "STARTED"
      [] AllowUpdate /\ (Turns(e, a) \/ ChangesAction(e, a)) -> "UPDATED"
      [] OTHER -> "NONE"

\* _transition_from_summary: an episode that only changes its action goes on
\* since it began.
Transition(e, a) ==
    [e.summary EXCEPT !.since = IF ChangesAction(e, a) THEN a.since ELSE @]

\* _record_behavior_transition_locked: the copy is that of the transition.
Recorded(w, e, a) ==
    LET told == TransitionType(e, a)
        b == IF told = "CLEARED" THEN Idle ELSE Transition(e, a)
        of == IF told = "CLEARED" THEN "NORMAL" ELSE b.behavior
    IN IF told = "NONE" THEN runtime
       ELSE [told |-> told, behavior |-> b.behavior, action |-> b.action,
             since |-> b.since, seen |-> LastSeen(w, of)]

\* _append_sample
Appended(w, sample) ==
    Append(IF Len(w) >= WindowSize THEN Tail(w) ELSE w, sample)

\* Mutant: a frame that leaves the window is still taken for a duplicate.
MutRemembersAll(w, frame) == frameIds \cup {frame}

IdsAfter(w, frame) ==
    (frameIds \ (IF Len(w) >= WindowSize THEN {Head(w).frame} ELSE {}))
        \cup {frame}

\* observe() of a frame already in the window.
Duplicate(f) == f \in frameIds /\ UNCHANGED vars

Observe(f, d, t) ==
    LET w == Appended(samples, [frame |-> f, action |-> d.action,
                                confidence |-> d.confidence, at |-> t])
        e == Evidence(w)
    IN /\ f \notin frameIds
       /\ samples' = w
       /\ frameIds' = IdsAfter(samples, f)
       /\ active' = ActiveAfter(e, active)
       /\ runtime' = Recorded(w, e, active)
       /\ clock' = t
       /\ opened' = IF Starts(e, active) THEN e.summary.since ELSE opened
       /\ steppedBack' = (steppedBack \/ t < clock)

\* A new connection: _reset_frame_state_locked.
Reset ==
    /\ samples' = <<>> /\ frameIds' = {}
    /\ active' = Idle /\ runtime' = NoTransition
    /\ clock' = 0 /\ opened' = None /\ steppedBack' = FALSE

Next ==
    \/ \E f \in Frame : Duplicate(f)
    \/ \E f \in Frame, d \in Detection, t \in Time :
        t >= clock - Backstep /\ Observe(f, d, t)
    \/ Reset

Spec == Init /\ [][Next]_vars

-----------------------------------------------------------------------------
(* Properties.                                                             *)

Sample == [frame : Frame, action : Action, confidence : Confidence, at : Time]

\* The window is never longer than configured, and what is active is either
\* all of an abnormal behaviour, one of its actions and a time, or nothing.
TypeOK ==
    /\ samples \in Seq(Sample) /\ Len(samples) <= WindowSize
    /\ frameIds \subseteq Frame
    /\ active \in {Idle} \cup
          [behavior : Abnormal, action : Action, since : Time]
    /\ runtime.told \in {"NONE", "STARTED", "UPDATED", "CLEARED"}
    /\ clock \in Time /\ opened \in Time \cup {None}
    /\ steppedBack \in BOOLEAN

\* The ids kept beside the window are those of its samples, each in it once:
\* a frame counts once, and a frame that has left may come again.
WindowOfDistinctFrames ==
    /\ frameIds = {samples[i].frame : i \in DOMAIN samples}
    /\ \A i, j \in DOMAIN samples :
          samples[i].frame = samples[j].frame => i = j

\* The runtime, which hears of transitions only, knows the behaviour, the
\* action and the start the policy has active.
RuntimeMirrorsPolicy ==
    AllowUpdate => /\ runtime.behavior = active.behavior
                   /\ runtime.action = active.action
                   /\ runtime.since = active.since

\* The window, the ids beside it, the policy's behaviour and the runtime's copy
\* are four records of one history, each changed by code of its own: they agree.
CopiesAgree == TypeOK /\ WindowOfDistinctFrames /\ RuntimeMirrorsPolicy

\* A window has one reading: looked at again without new evidence, it makes
\* no further transition.  (Starting and clearing cannot both have a
\* majority, so an episode does not flicker.)
Settled ==
    LET e == Evidence(samples) IN TransitionType(e, active) = "NONE"

\* Agreement is heeded: when every frame of a full window shows the same
\* behaviour with confidence, that behaviour is active, or none if normal.
AgreementIsHeeded ==
    \A b \in Behavior :
        Cardinality({i \in DOMAIN samples :
                        /\ BehaviorOf(samples[i].action) = b
                        /\ samples[i].confidence >= MinConfidence}) = WindowSize =>
            active.behavior = (IF b = "NORMAL" THEN None ELSE b)

\* The window decides: what is active is what it shows, no less and no more.
WindowDecides == Settled /\ AgreementIsHeeded

\* The risk of the behaviour that is active never falls when the car is
\* faster, a sample of it more confident or the behaviour more frequent, nor
\* does the level of the intervention that follows; and both are levels the
\* tables admit, whatever the state of the drive.
RiskIsMonotone ==
    active # Idle =>
    \A accuracy \in {Unset, MaxAccuracy + 1},
       r1, r2 \in 1..2, s1, s2 \in {0, MovingSpeed, 60} :
        LET seen == {samples[i].confidence : i \in DOMAIN samples}
            Risk(s, c, r) ==
                RiskLevel(active.behavior, c, DrivingState(s, accuracy, "ACTIVE"), s, r)
        IN  \A c1, c2 \in seen :
                /\ RiskLevel(active.behavior, c1, "PARKED", s1, r1) \in 1..3
                /\ Risk(s1, c1, r1) \in 1..3
                /\ s1 <= s2 /\ c1 <= c2 /\ r1 <= r2 => Risk(s1, c1, r1) <= Risk(s2, c2, r2)

\* An intervention in what is active is at least as strong as the risk,
\* stronger for a driver who asked for more warnings, and the stronger the
\* sooner looked at again.
InterventionFollowsRisk ==
    active # Idle =>
    \A i \in DOMAIN samples, k1, k2 \in 1..3, n1, n2 \in 8..9, high \in BOOLEAN :
        LET Level(k, n) == InterventionLevel(k, n, 1, high, samples[i].confidence)
        IN  /\ Level(k1, n1) >= k1
            /\ k1 <= k2 /\ n1 <= n2 =>
                 /\ Level(k1, n1) <= Level(k2, n2)
                 /\ NextCheckAfterMs(Level(k1, n1)) >= NextCheckAfterMs(Level(k2, n2))

\* More danger never makes for a milder reaction.
ReactionIsMonotone == RiskIsMonotone /\ InterventionFollowsRisk

\* An episode ends no earlier than it began (what the constraint
\* ck_behavior_events_ended_at_after_started_at wants of the row) unless the
\* client's clock went back.
EndsAfterStart ==
    [][runtime'.told = "CLEARED" /\ active # active' /\ ~steppedBack' =>
         runtime'.seen >= opened]_vars

Episodes == INSTANCE BehaviorEpisodes
              WITH Behavior <- Abnormal, episode <- runtime.behavior,
                   told <- runtime.told

\* The transitions the runtime records are those of BehaviorEpisodes.
EpisodesSpec == Episodes!Spec

-----------------------------------------------------------------------------
(* The inductive invariant.                                                *)

\* The window has nothing more to say of what is active, told or not.
Heeded ==
    LET e == Evidence(samples)
    IN  /\ ~Clears(e, active) /\ ~Starts(e, active)
        /\ ~Turns(e, active) /\ ~ChangesAction(e, active)

\* The runtime has an episode exactly while the policy has one, also when it
\* is not told of what the episode turns into.
RuntimeFollows ==
    /\ runtime.behavior \in Abnormal \cup {None}
    /\ runtime.behavior = None <=> active = Idle
    /\ runtime.told = "CLEARED" => active = Idle

NormalBefore(w, t) == {i \in Hits(w, "NORMAL") : w[i].at < t}

\* Unless the clock went back, what came before an episode is too little
\* evidence to end it.
InTime ==
    ~steppedBack =>
        /\ \A i \in DOMAIN samples : samples[i].at <= clock
        /\ opened # None => opened <= clock
        /\ active # Idle =>
              /\ opened # None
              /\ Cardinality(NormalBefore(samples, opened)) < ClearHitCount

IInv ==
    /\ CopiesAgree
    /\ Heeded /\ RuntimeFollows /\ InTime

=============================================================================
