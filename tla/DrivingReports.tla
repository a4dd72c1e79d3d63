--------------------------- MODULE DrivingReports ---------------------------
(***************************************************************************)
(* What is read of a profile's drives while they go on: the reports of     *)
(* app/services/report_service.py, and the history, the detail and the     *)
(* timeline of app/services/driving_session_service.py.                    *)
(*                                                                         *)
(* An answer is put together from several queries of one transaction, each *)
(* an await: rows are written in between.  All of them read the snapshot   *)
(* that the request took when it loaded the account.                       *)
(*                                                                         *)
(* Safety scores are left out: the program stores none.                    *)
(***************************************************************************)
EXTENDS Integers, Sequences, FiniteSets, SequencesExt, ReportPeriods, RowSets

CONSTANTS Session, Event, Intervention, Response,  \* ids, bounds on their number
          Type,       \* behaviour types; PHONE_USE is one
          Period,     \* periods asked for
          Size,       \* page sizes asked for
          Existing,   \* databases to begin with
          MaxWrites,  \* bound on the rows written
          Null

\* Both ends of a period are dates; if it is one, so are its days and the day
\* before it.
IsAsked(p) ==
    /\ p \in [start : Int, end : Int]
    /\ IsPeriod(p) => \A n \in (p.start - 1)..p.end : InCalendar(n)

Nothing == [profile |-> FALSE, sessions |-> << >>, events |-> << >>,
            interventions |-> << >>, responses |-> << >>]

\* The columns of the tables, with their foreign keys.
IsDatabase(v) ==
    /\ DOMAIN v = DOMAIN Nothing
    /\ v.profile \in BOOLEAN /\ (~v.profile => v = Nothing)
    /\ \A s \in DOMAIN v.sessions :
          /\ s \in Session
          /\ v.sessions[s] \in [status : {"ACTIVE", "COMPLETED", "ABORTED"}, started : Int,
                               seconds : Nat, metres : Nat]
    /\ \A e \in DOMAIN v.events :
          /\ e \in Event
          /\ v.events[e] \in [session : DOMAIN v.sessions, type : Type, risk : 0..3,
                             duration : Nat \cup {Null}, started : Int]
    /\ \A i \in DOMAIN v.interventions :
          i \in Intervention /\ v.interventions[i] \in DOMAIN v.events
    /\ \A r \in DOMAIN v.responses :
          /\ r \in Response
          /\ v.responses[r] \in [intervention : DOMAIN v.interventions, corrected : BOOLEAN,
                                latency : Nat \cup {Null}]

ASSUME ReportAssumption ==
    /\ "PHONE_USE" \in Type /\ MaxWrites \in Nat /\ Size \subseteq Int
    /\ \A set \in {Session, Event, Intervention, Response, Type} : IsFiniteSet(set)
    /\ Null \notin Int
    /\ \A v \in Existing : IsDatabase(v)
    /\ \A p \in Period : IsAsked(p)

VARIABLES
    db,       \* the rows of the profile, or Nothing once it is deleted
    writes,   \* number of rows written
    request,  \* what is asked, or Null
    seen,     \* what the request sees: its snapshot
    parts,    \* the results of the queries made so far
    answer    \* "none", "reading", "done", or the error

reportVars == <<db, writes, request, seen, parts, answer>>

-----------------------------------------------------------------------------
(* The rows: functions from the ids there are.                             *)

With(f, id, row) == [x \in DOMAIN f \cup {id} |-> IF x = id THEN row ELSE f[x]]

Count(set) == Cardinality(set)

\* _session_conditions: started in the period, and over.
SessionsIn(v, p) ==
    {s \in DOMAIN v.sessions :
        v.sessions[s].status # "ACTIVE" /\ Covers(p, v.sessions[s].started)}

EventsOf(v, ss) == {e \in DOMAIN v.events : v.events[e].session \in ss}

\* _event_conditions: an event belongs to the period its session began in.
EventsIn(v, p, types) ==
    {e \in EventsOf(v, SessionsIn(v, p)) : v.events[e].type \in types}

InterventionsOf(v, es) ==
    {i \in DOMAIN v.interventions : v.interventions[i] \in es}

ResponsesOf(v, is) == {r \in DOMAIN v.responses : v.responses[r].intervention \in is}

\* Interventions with a response that says the behaviour was corrected.
CorrectedOf(v, es) ==
    {i \in InterventionsOf(v, es) :
        \E r \in ResponsesOf(v, {i}) : v.responses[r].corrected}

CorrectedEvents(v, es) == {e \in es : CorrectedOf(v, {e}) # {}}

Latencies(v, is) == {r \in ResponsesOf(v, is) : v.responses[r].latency # Null}

\* An average, rounded to a whole number with halves away from zero.
Average(total, n) == IF n = 0 THEN Null ELSE (2 * total + n) \div (2 * n)

\* func.avg, as a total and what it is divided by: the summary rounds it to a
\* whole number and the detail to a tenth.
AverageLatency(v, is) ==
    LET rs == Latencies(v, is)
    IN  IF rs = {} THEN Null
        ELSE [total |-> Sum([r \in rs |-> v.responses[r].latency]), of |-> Count(rs)]

CountsBy(key, keys) == [k \in keys |-> Count({e \in DOMAIN key : key[e] = k})]

\* DrivingSession.started_at DESC, id DESC
NewestFirst(v, set) ==
    LET rank == SetToSeq(Session)
        pos(s) == CHOOSE n \in DOMAIN rank : rank[n] = s
        before(s, t) ==
            \/ v.sessions[s].started > v.sessions[t].started
            \/ v.sessions[s].started = v.sessions[t].started /\ pos(s) > pos(t)
    IN  OrderBy(set, {st \in set \X set : before(st[1], st[2])})

\* Mutant: pages are counted from nought.
MutFromNought(list, page, size) ==
    SubSeq(list, page * size + 1, IF Len(list) < (page + 1) * size THEN Len(list) ELSE (page + 1) * size)

\* offset and limit
Page(list, page, size) ==
    SubSeq(list, (page - 1) * size + 1, IF Len(list) < page * size THEN Len(list) ELSE page * size)

TotalPages(total, size) == (total + size - 1) \div size

\* The counts that come with a session in a list of them.
CountsOf(v, s) ==
    LET es == EventsOf(v, {s}) IN
    [events |-> Count(es), interventions |-> Count(InterventionsOf(v, es)),
     corrected |-> Count(CorrectedOf(v, es))]

-----------------------------------------------------------------------------
(* The queries of a request, in their order.                               *)

SummaryQueries ==
    <<"overview", "byType", "byRisk", "interventions", "phoneUse", "phoneUseBefore">>

BehaviorQueries == <<"statistics", "correctedByType", "byRisk", "byHour">>

ListQueries == <<"total", "page">>

DetailQueries == <<"eventCount", "interventionCount", "correctedCount", "latency">>

TimelineQueries == <<"events", "itsInterventions", "itsResponses">>

Queries(kind) ==
    CASE kind = "summary" -> SummaryQueries
      [] kind = "behaviors" -> BehaviorQueries
      [] kind \in {"sessions", "history"} -> ListQueries
      [] kind = "detail" -> DetailQueries
      [] kind = "timeline" -> TimelineQueries

\* _history_conditions: the days are those of UTC, each end and the status
\* may be left open, and sessions that go on are in.
HistoryOf(v, q) ==
    {s \in DOMAIN v.sessions :
        /\ q.status \in {Null, v.sessions[s].status}
        /\ q.from # Null => 24 * q.from <= v.sessions[s].started
        /\ q.to # Null => v.sessions[s].started < 24 * (q.to + 1)}

\* What the two lists of sessions go through.
Listed(v, q) == IF q.kind = "history" THEN HistoryOf(v, q) ELSE SessionsIn(v, q.period)

\* Mutant: the ids do not order what started at the same time, and the second
\* page is cut from another order than the first.
MutUntied(v, q) ==
    LET first == NewestFirst(v, Listed(v, q))
        orders == {f \in [DOMAIN first -> Listed(v, q)] :
                     /\ ToSet(f) = Listed(v, q)
                     /\ \A j, k \in DOMAIN f :
                           j < k => v.sessions[f[j]].started >= v.sessions[f[k]].started}
        second == CHOOSE f \in orders : orders = {first} \/ f # first
    IN  Page(IF q.page = 1 THEN first ELSE second, q.page, q.size)

PageOf(v, q) == Page(NewestFirst(v, Listed(v, q)), q.page, q.size)

Hour(at) == (at + SeoulOffset) % 24

Overview(v, p) ==
    LET ss == SessionsIn(v, p) IN
    [sessions |-> Count(ss),
     seconds |-> Sum([s \in ss |-> v.sessions[s].seconds]),
     metres |-> Sum([s \in ss |-> v.sessions[s].metres])]

\* Counts, with noughts for the types and risks that did not occur.
ByType(v, q) == CountsBy([e \in EventsIn(v, q.period, q.types) |-> v.events[e].type], q.types)

ByRisk(v, q) == CountsBy([e \in EventsIn(v, q.period, q.types) |-> v.events[e].risk], 0..3)

\* GROUP BY: the hours at which an event started.
ByHour(v, q) ==
    LET es == EventsIn(v, q.period, q.types)
        hour == [e \in es |-> Hour(v.events[e].started)]
    IN  CountsBy(hour, {hour[e] : e \in es})

Interventions(v, q) ==
    LET es == EventsIn(v, q.period, q.types)
        is == InterventionsOf(v, es)
    IN  [count |-> Count(is), corrected |-> Count(CorrectedOf(v, es)),
         latency |-> AverageLatency(v, is)]

PhoneUse(v, p) == Count(EventsIn(v, p, {"PHONE_USE"}))

\* An event that goes on lasts nought.
Lasted(event) == IF event.duration = Null THEN 0 ELSE event.duration

Statistics(v, q) ==
    [t \in q.types |->
        LET es == EventsIn(v, q.period, {t}) IN
        [count |-> Count(es),
         total |-> Sum([e \in es |-> Lasted(v.events[e])]),
         risk |-> IF es = {} THEN Null ELSE Max({v.events[e].risk : e \in es})]]

CorrectedByType(v, q) ==
    [t \in q.types |-> Count(CorrectedEvents(v, EventsIn(v, q.period, {t})))]

Listing(v, q) ==
    [n \in DOMAIN PageOf(v, q) |->
        [id |-> PageOf(v, q)[n], counts |-> CountsOf(v, PageOf(v, q)[n])]]

\* What a query returns on the rows v, q being the request and found the
\* results so far.
Result(name, v, q, found) ==
    CASE name = "overview" -> Overview(v, q.period)
      [] name = "byType" -> ByType(v, q)
      [] name = "byRisk" -> ByRisk(v, q)
      [] name = "byHour" -> ByHour(v, q)
      [] name = "interventions" -> Interventions(v, q)
      [] name = "phoneUse" -> PhoneUse(v, q.period)
      [] name = "phoneUseBefore" -> PhoneUse(v, Previous(q.period))
      [] name = "statistics" -> Statistics(v, q)
      [] name = "correctedByType" -> CorrectedByType(v, q)
      [] name = "total" -> Count(Listed(v, q))
      [] name = "page" -> Listing(v, q)
      [] name = "eventCount" -> CountsOf(v, q.session).events
      [] name = "interventionCount" -> CountsOf(v, q.session).interventions
      [] name = "correctedCount" -> CountsOf(v, q.session).corrected
      [] name = "latency" -> AverageLatency(v, InterventionsOf(v, EventsOf(v, {q.session})))
      [] name = "events" -> Restrict(v.events, EventsOf(v, {q.session}))
      [] name = "itsInterventions" ->
            Restrict(v.interventions, InterventionsOf(v, DOMAIN found.events))
      [] name = "itsResponses" ->
            Restrict(v.responses, ResponsesOf(v, DOMAIN found.itsInterventions))

-----------------------------------------------------------------------------
(* Requests.                                                               *)

\* A report of behaviours; no type stands for a list with a name of none.
AskedReports ==
    [kind : {"summary", "behaviors"}, period : Period, types : SUBSET Type]

AskedSessions == [kind : {"sessions"}, period : Period, page : 0..2, size : Size]

\* Either day of the filter may be left out, and so may the status.
AskedHistories ==
    LET days == {Null} \cup {p.start : p \in Period}
    IN  [kind : {"history"}, from : days, to : days, status : {Null, "ACTIVE", "COMPLETED"},
         page : 0..2, size : Size]

AskedDrives == [kind : {"detail", "timeline"}, session : Session]

Asks == AskedReports \cup AskedSessions \cup AskedHistories \cup AskedDrives

Idle == [kind |-> "none"]

ReportInit ==
    /\ db \in Existing /\ writes = 0
    /\ request = Idle /\ seen = Nothing /\ parts = << >> /\ answer = "none"

\* parse_behavior_types
NoTypes(q) == "types" \in DOMAIN q /\ q.types = {}

\* validate_pagination, which the history has too.
NoPage(q) == "page" \in DOMAIN q /\ (q.page < 1 \/ q.size \notin 1..100)

\* _parse_date_range
NoDays(q) == q.kind = "history" /\ Null \notin {q.from, q.to} /\ q.from > q.to

\* What is refused before the database is asked.
Refused(q) ==
    \/ "period" \in DOMAIN q /\ ~IsPeriod(q.period)
    \/ q.kind = "summary" /\ TooLong(q.period)
    \/ NoTypes(q) \/ NoPage(q) \/ NoDays(q)

\* The account is loaded, which is when the snapshot is taken.
Ask(q) ==
    /\ answer = "none"
    /\ request' = q
    /\ seen' = db
    /\ answer' = IF Refused(q) THEN "INVALID" ELSE "reading"
    /\ UNCHANGED <<db, writes, parts>>

\* Mutant: every query sees what is committed by then.
MutCommitted == db

View == seen

\* get_by_account and get_owned_by_account, the first query of a request.
Found(q, v) == v.profile /\ ("session" \in DOMAIN q => q.session \in DOMAIN v.sessions)

NotFound ==
    /\ answer = "reading" /\ parts = << >>
    /\ ~Found(request, View)
    /\ answer' = "NOT_FOUND"
    /\ UNCHANGED <<db, writes, request, seen, parts>>

Query ==
    LET names == Queries(request.kind)
        name == names[Cardinality(DOMAIN parts) + 1]
    IN  /\ answer = "reading"
        /\ parts = << >> => Found(request, View)
        /\ parts' = With(parts, name, Result(name, View, request, parts))
        /\ answer' = IF Cardinality(DOMAIN parts) + 1 = Len(names) THEN "done" ELSE "reading"
        /\ UNCHANGED <<db, writes, request, seen>>

-----------------------------------------------------------------------------
(* What others commit meanwhile.                                           *)

Writes(new) ==
    /\ db.profile /\ writes < MaxWrites /\ answer \in {"none", "reading"}
    /\ db' = new /\ writes' = writes + 1
    /\ UNCHANGED <<request, seen, parts, answer>>

\* An event that goes on has no duration; it is given one when it is cleared
\* or its session ended.
Closed(events, es) ==
    [e \in DOMAIN events |->
        IF e \in es /\ events[e].duration = Null THEN [events[e] EXCEPT !.duration = 4] ELSE events[e]]

\* The end closes the events es of its snapshot; one started since goes on.
CompleteSession(s, es) ==
    /\ s \in DOMAIN db.sessions /\ db.sessions[s].status = "ACTIVE"
    /\ es \subseteq EventsOf(db, {s})
    /\ Writes([db EXCEPT !.sessions[s].status = "COMPLETED",
                         !.sessions[s].seconds = 60, !.sessions[s].metres = 500,
                         !.events = Closed(@, es)])

StartEvent(e, s, t) ==
    /\ e \notin DOMAIN db.events
    /\ s \in DOMAIN db.sessions /\ db.sessions[s].status = "ACTIVE"
    /\ Writes([db EXCEPT !.events =
          With(@, e, [session |-> s, type |-> t, risk |-> 1, duration |-> Null,
                      started |-> db.sessions[s].started + 1])])

ClearEvent(e) ==
    /\ e \in DOMAIN db.events /\ db.events[e].duration = Null
    /\ Writes([db EXCEPT !.events = Closed(@, {e})])

\* An intervention is planned whether or not the session goes on.
Intervene(i, e) ==
    /\ i \notin DOMAIN db.interventions /\ e \in DOMAIN db.events
    /\ Writes([db EXCEPT !.interventions = With(@, i, e)])

Respond(r, i, corrected, latency) ==
    /\ r \notin DOMAIN db.responses /\ i \in DOMAIN db.interventions
    /\ Writes([db EXCEPT !.responses =
          With(@, r, [intervention |-> i, corrected |-> corrected,
                      latency |-> latency])])

\* The foreign keys of the tables delete what belongs to a profile with it.
Deleted == Nothing

DeleteProfile ==
    /\ \A s \in DOMAIN db.sessions : db.sessions[s].status # "ACTIVE"
    /\ Writes(Deleted)

ReportNext ==
    \/ \E q \in Asks : Ask(q)
    \/ NotFound \/ Query
    \/ \E s \in Session, es \in SUBSET Event : CompleteSession(s, es)
    \/ \E s \in Session, e \in Event, t \in Type : StartEvent(e, s, t)
    \/ \E e \in Event : ClearEvent(e)
    \/ \E i \in Intervention, e \in Event : Intervene(i, e)
    \/ \E r \in Response, i \in Intervention, corrected \in BOOLEAN, latency \in {Null, 5} :
          Respond(r, i, corrected, latency)
    \/ DeleteProfile

ReportSpec == ReportInit /\ [][ReportNext]_reportVars

-----------------------------------------------------------------------------
(* The answers.                                                            *)

\* 100 percent; what is counted is tenths of a percent.
Whole == 1000

\* _rate
Rate(n, d) == IF d = 0 THEN 0 ELSE Average(Whole * n, d)

\* _change_percent, halves away from zero.
ChangePercent(current, previous) ==
    IF previous = 0 THEN IF current = 0 THEN 0 ELSE Null
    ELSE IF current >= previous THEN Average(Whole * (current - previous), previous)
         ELSE -Average(Whole * (previous - current), previous)

\* The summary: the events are those of the types, added up.
Summary(found) ==
    [sessions |-> found.overview.sessions,
     events |-> Sum(found.byType),
     interventions |-> found.interventions.count,
     corrected |-> found.interventions.corrected,
     rate |-> Rate(found.interventions.corrected, found.interventions.count),
     phoneUseChange |-> ChangePercent(found.phoneUse, found.phoneUseBefore)]

\* The figures of one behaviour.
Statistic(found, t) ==
    LET n == found.statistics[t].count IN
    [count |-> n, risk |-> found.statistics[t].risk,
     duration |-> Average(found.statistics[t].total, n),
     corrected |-> found.correctedByType[t],
     rate |-> Rate(found.correctedByType[t], n)]

\* The timeline: the responses of the interventions of the events.
Timeline(found) ==
    [e \in DOMAIN found.events |->
        [i \in {x \in DOMAIN found.itsInterventions : found.itsInterventions[x] = e} |->
            {r \in DOMAIN found.itsResponses : found.itsResponses[r].intervention = i}]]

Is(kind) == answer = "done" /\ request.kind = kind

-----------------------------------------------------------------------------
(* Properties.                                                             *)

\* The variables keep their types, rows refer to rows, and an answer that is
\* done has the results of all its queries.
ReportTypes ==
    /\ IsDatabase(db) /\ IsDatabase(seen) /\ writes \in 0..MaxWrites
    /\ request \in Asks \cup {Idle}
    /\ answer \in {"none", "reading", "done", "INVALID", "NOT_FOUND"}
    /\ request.kind # "none" => DOMAIN parts \subseteq ToSet(Queries(request.kind))
    /\ answer = "done" => DOMAIN parts = ToSet(Queries(request.kind))

\* The figures of a summary, each of a query of its own, agree: every event
\* has one type and one risk, phone use is one of the types, nothing is there
\* without what it belongs to, no more is corrected than was intervened in,
\* and the change against the period before is right to half of its last digit.
SummaryAgrees ==
    Is("summary") =>
        LET summary == Summary(parts)
        IN  /\ summary.events = Sum(parts.byRisk)
            /\ "PHONE_USE" \in request.types => parts.phoneUse = parts.byType["PHONE_USE"]
            /\ summary.sessions = 0 => summary.events = 0
            /\ summary.events = 0 => summary.interventions = 0
            /\ summary.rate \in 0..Whole
            /\ summary.phoneUseChange # Null =>
                  LET before == parts.phoneUseBefore
                      off == before * summary.phoneUseChange - Whole * (parts.phoneUse - before)
                  IN  2 * off \in -before..before

\* So do those of the behaviours: types, risks and hours of the day count the
\* same events, no behaviour is corrected more often than it occurred, and
\* the worst risk of a type is one that was counted.
BehaviorsAgree ==
    Is("behaviors") =>
        /\ Sum([t \in request.types |-> Statistic(parts, t).count]) = Sum(parts.byRisk)
        /\ Sum(parts.byRisk) = Sum(parts.byHour)
        /\ \A t \in request.types :
              LET one == Statistic(parts, t) IN
              /\ one.rate \in 0..Whole
              /\ (one.risk = Null) <=> (one.count = 0)
              /\ one.risk # Null => parts.byRisk[one.risk] > 0

\* The pages of a list, taken at one moment, have each of its sessions once,
\* the newest first, and the number of pages fits the total.
PagesTile ==
    (Is("sessions") \/ Is("history")) =>
        LET all == FlattenSeq([k \in 1..TotalPages(parts.total, request.size) |->
                       PageOf(seen, [request EXCEPT !.page = k])])
        IN  /\ Len(all) = parts.total /\ ToSet(all) = Listed(seen, request)
            /\ \A k \in 1..(Len(all) - 1) :
                  seen.sessions[all[k]].started >= seen.sessions[all[k + 1]].started
            /\ request.page > TotalPages(parts.total, request.size) => parts.page = << >>

\* What the sessions of a period show one by one adds up to what the summary
\* and the behaviours of the period show of all types.
SessionsAddUp ==
    Is("sessions") =>
        LET q == [period |-> request.period, types |-> Type]
            ss == SessionsIn(seen, request.period)
            Added(f) == Sum([s \in ss |-> CountsOf(seen, s)[f]])
            interventions == Interventions(seen, q)
        IN  /\ Added("events") = Sum(ByType(seen, q))
            /\ Added("interventions") = interventions.count
            /\ Added("corrected") = interventions.corrected
            /\ \A n \in DOMAIN parts.page :
                  /\ parts.page[n].counts = CountsOf(seen, parts.page[n].id)
                  /\ parts.page[n].counts.corrected <= parts.page[n].counts.interventions

\* The detail of a session counts what there was at one moment: nothing is
\* answered that was not an intervention, nor intervened in that did not occur.
DetailAgrees ==
    Is("detail") =>
        /\ parts.correctedCount <= parts.interventionCount
        /\ parts.eventCount = 0 => parts.interventionCount = 0
        /\ parts.interventionCount = 0 => parts.latency = Null

\* The timeline of a session shows it whole: each of its interventions and
\* responses once, under what it belongs to.
TimelineWhole ==
    Is("timeline") =>
        LET line == Timeline(parts)
            counts == CountsOf(seen, request.session)
            \* the interventions shown for an event, and the corrected ones
            shown(e) == DOMAIN line[e]
            corrected(e) == {i \in shown(e) : \E r \in line[e][i] : parts.itsResponses[r].corrected}
        IN  /\ Cardinality(DOMAIN line) = counts.events
            /\ Sum([e \in DOMAIN line |-> Cardinality(shown(e))]) = counts.interventions
            /\ Sum([e \in DOMAIN line |-> Cardinality(corrected(e))]) = counts.corrected

\* The answers agree with themselves and with one another, although each is put
\* together from queries between which rows are written.
AnswersAgree ==
    /\ ReportTypes
    /\ SummaryAgrees
    /\ BehaviorsAgree
    /\ SessionsAddUp
    /\ DetailAgrees
    /\ TimelineWhole

\* A period and the one it is compared with adjoin: no drive is in both, and
\* none between them is lost; they are as long, or both a whole month.
PreviousAdjoins ==
    answer = "reading" /\ "types" \in DOMAIN request /\ parts = << >> =>
        LET p == request.period
            before == Previous(p)
            both == [start |-> before.start, end |-> p.end]
        IN  /\ SessionsIn(seen, p) \cap SessionsIn(seen, before) = {}
            /\ SessionsIn(seen, both) = SessionsIn(seen, p) \cup SessionsIn(seen, before)
            /\ before.end + 1 = p.start
            /\ Length(before) = Length(p) \/ (IsFullMonth(before) /\ IsFullMonth(p))

\* The limit of a summary is a year, leap or not: what is let in has no more
\* than 366 days and every later part of it is let in too, while what is
\* turned away for its length has at least 366 days.
LimitIsAYear ==
    request.kind = "summary" /\ ~NoTypes(request) /\ parts = << >> /\ IsPeriod(request.period) =>
        LET p == request.period IN
        IF answer = "INVALID" THEN Length(p) >= 366
        ELSE /\ Length(p) <= 366
             /\ \A n \in p.start..p.end : ~TooLong([p EXCEPT !.start = n])

\* Periods fit: the one before adjoins, and none is let in by being shorter.
PeriodsFit == PreviousAdjoins /\ LimitIsAYear
=============================================================================
