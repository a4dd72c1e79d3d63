SPECIFICATION ReportSpec
CONSTANTS
    Session = {s1, s2, s3}
    s1 = s1
    s2 = s2
    s3 = s3
    Event = {e1, e2, e3, e4}
    e1 = e1
    e2 = e2
    e3 = e3
    Intervention = {i1, i2}
    i1 = i1
    Response = {r1, r2}
    r1 = r1
    Type = {"PHONE_USE", "SMOKING"}
    Period <- MCPeriod
    Size = {1, 2, 101}
    Existing <- MCExisting
    MaxWrites = 3
    Year = {2023, 2024, 2025, 2026}
    Null = Null
INVARIANTS
    AnswersAgree
    PagesTile
    PeriodsFit
CHECK_DEADLOCK FALSE
