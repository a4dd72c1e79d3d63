-------------------------- MODULE MCDrivingReports --------------------------
(* Model-checking instance of DrivingReports: drives around the midnight of  *)
(* Seoul that ends the February of a leap year.                              *)
EXTENDS DrivingReports

CONSTANTS s1, s2, s3, e1, e2, e3, i1, r1

March == Day(2024, 3, 1)

MCPeriod ==
    {[start |-> March, end |-> March],
     [start |-> March, end |-> Day(2024, 3, 31)],
     [start |-> March - 1, end |-> Day(2025, 2, 28)],
     [start |-> March - 1, end |-> Day(2025, 3, 1)],
     [start |-> March, end |-> March - 1]}

Drive(status, started) ==
    [status |-> status, started |-> started, seconds |-> 30, metres |-> 100]

EventIn(s, type, started) ==
    [session |-> s, type |-> type, risk |-> 2, duration |-> 7, started |-> started]

\* It goes on at the last hour of a day, or began when the second did.
Third == {Drive("ACTIVE", UtcStart(March + 1) - 1), Drive("COMPLETED", UtcStart(March))}

MCExisting ==
    {[profile |-> TRUE,
      sessions |-> s1 :> Drive("ABORTED", UtcStart(March) - 1)
                   @@ s2 :> Drive("COMPLETED", UtcStart(March))
                   @@ s3 :> third,
      events |-> e1 :> EventIn(s1, "PHONE_USE", UtcStart(March))
                 @@ e2 :> EventIn(s2, type, UtcStart(March))
                 @@ e3 :> EventIn(s2, "PHONE_USE", UtcStart(March) + 15),
      interventions |-> i1 :> e2,
      responses |-> r1 :> [intervention |-> i1, corrected |-> TRUE, latency |-> 3]] :
        third \in Third, type \in Type}
    \cup {Nothing}
=============================================================================
