----------------------------- MODULE RiskPolicy -----------------------------
(***************************************************************************)
(* The pure policies that turn what is known of a driver into numbers: the *)
(* driving state (app/policies/driving_context_policy.py), the risk of a   *)
(* behaviour (behavior_risk_policy.py) and the level of an intervention    *)
(* (agent_demo_policy.py).                                                 *)
(*                                                                         *)
(* Confidences are in basis points, speeds in km/h.                        *)
(***************************************************************************)
EXTENDS Integers

CONSTANTS MovingSpeed,   \* driving_moving_speed_threshold_kph
          MaxAccuracy,   \* driving_location_max_accuracy_meters
          Unset          \* a value that is not known

ASSUME PolicyAssumption ==
    MovingSpeed \in Nat /\ MaxAccuracy \in Nat /\ Unset \notin Int

Clamp(low, n, high) == IF n < low THEN low ELSE IF n > high THEN high ELSE n

Boost(condition) == IF condition THEN 1 ELSE 0

DrivingState(speed, accuracy, status) ==
    IF \/ status # "ACTIVE"
       \/ accuracy # Unset /\ accuracy > MaxAccuracy
       \/ speed = Unset
    THEN "UNKNOWN"
    ELSE IF speed >= MovingSpeed THEN "MOVING" ELSE "TEMPORARY_STOP"

HighRisk == {"DROWSINESS", "PHONE_USE", "GAZE_AWAY"}

\* Mutant: a parked car is told from the others after the clamping.
MutParkedLast(behavior, confidence, driving, speed, recurrence) ==
    Clamp(1, 1 + Boost(behavior \in HighRisk) + Boost(driving = "MOVING")
               + Boost(speed # Unset /\ speed >= 60)
               + Boost(confidence >= 8500) + Boost(recurrence >= 2), 3)
    - Boost(driving = "PARKED")

RiskLevel(behavior, confidence, driving, speed, recurrence) ==
    Clamp(1, 1 + Boost(behavior \in HighRisk) + Boost(driving = "MOVING")
               + Boost(speed # Unset /\ speed >= 60)
               + Boost(confidence >= 8500) + Boost(recurrence >= 2)
               - Boost(driving = "PARKED"), 3)

InterventionLevel(risk, sensitivity, recurrence, high, confidence) ==
    Clamp(1, Clamp(1, risk, 3) + Boost(sensitivity >= 9)
               + Boost(recurrence >= 2) + Boost(high)
               + Boost(confidence >= 8500), 3)

NextCheckAfterMs(level) == CASE level = 1 -> 5000
                             [] level = 2 -> 3500
                             [] level = 3 -> 2000

InterventionType(level) == IF level >= 3 THEN "TOOL_OFFER" ELSE "WARNING"

=============================================================================
