-------------------------- MODULE ProfileSessions ---------------------------
(***************************************************************************)
(* The requests on the profiles of one account, on their driving sessions  *)
(* and on the general conversations of those: profile_service.py,          *)
(* driving_session_service.py and agent_conversation_service.py under      *)
(* app/services, and the repositories they use.                            *)
(*                                                                         *)
(* Every request is one database transaction.  Loading the current account *)
(* (app/api/dependencies.py) is its first read and takes its snapshot; the *)
(* locking reads that follow may wait, and see what is committed by then.  *)
(* A plain read after them still sees the snapshot.  Nobody sees what a    *)
(* transaction writes before it commits, so its writes are one step.       *)
(***************************************************************************)
EXTENDS Integers, FiniteSets

CONSTANTS Request,    \* requests that can be under way at once
          Profile,    \* ids profiles can get, a bound on their number
          Session,    \* ids driving sessions can get, a bound
          Limit,      \* PROFILE_LIMIT
          Low, High,  \* bounds of a behaviour warning sensitivity
          Account,    \* the account's row
          None

ASSUME RowsAssumption ==
    /\ IsFiniteSet(Request) /\ IsFiniteSet(Profile)
    /\ Profile \cap Session = {}
    /\ Account \notin Profile \cup Session
    /\ None \notin Request \cup Profile \cup Session

ASSUME NumbersAssumption ==
    /\ Limit \in Nat \ {0}
    /\ Low \in Nat /\ High \in Nat /\ Low <= High

VARIABLES
    profile,       \* state of each profile's row
    sensitivity,   \* behavior_warning_sensitivity of a profile
    files,         \* profiles whose image and reports are in the storage
    session,       \* status of each driving session's row
    owner,         \* profile_id of a session
    endedBy,       \* the request whose ended_at and end_reason a session has
    talking,       \* sessions with an ACTIVE general conversation
    phase,         \* per request
    op,            \* per request: what it is, on which profile or session
    seen,          \* per request: what its reads returned
    locks          \* per request: the rows it has locked

rowVars == <<profile, sensitivity, files, session, owner, endedBy, talking>>
requestVars == <<phase, op, seen, locks>>
vars == <<rowVars, requestVars>>

ProfileKind == {"update", "tune", "delete", "start"}
SessionKind == {"end", "talk"}

Sensitivity == Low..High

NoOp == [kind |-> "none", row |-> None]

NothingSeen ==
    [count |-> 0, active |-> FALSE, value |-> Low, reread |-> Low, status |-> "none"]

Kept == {p \in Profile : profile[p] = "kept"}

Active == {s \in Session : session[s] = "ACTIVE"}

ActiveOf(p) == {s \in Active : owner[s] = p}

Init ==
    /\ profile = [p \in Profile |-> "absent"]
    /\ sensitivity = [p \in Profile |-> Low]
    /\ files = {}
    /\ session = [s \in Session |-> "absent"]
    /\ owner = [s \in Session |-> None]
    /\ endedBy = [s \in Session |-> None]
    /\ talking = {}
    /\ phase = [r \in Request |-> "idle"]
    /\ op = [r \in Request |-> NoOp]
    /\ seen = [r \in Request |-> NothingSeen]
    /\ locks = [r \in Request |-> {}]

----------------------------------------------------------------------------
(* The course of a request.                                                *)

MutKeepsLocks(r) ==
    /\ phase' = [phase EXCEPT ![r] = "idle"]
    /\ op' = [op EXCEPT ![r] = NoOp]
    /\ seen' = [seen EXCEPT ![r] = NothingSeen]
    /\ UNCHANGED locks

\* The response is sent; the transaction is committed or rolled back.
Rest(r) ==
    /\ phase' = [phase EXCEPT ![r] = "idle"]
    /\ op' = [op EXCEPT ![r] = NoOp]
    /\ seen' = [seen EXCEPT ![r] = NothingSeen]
    /\ locks' = [locks EXCEPT ![r] = {}]

\* Of the snapshot, what the plain reads of the request will return.
Snapshot(kind, row) ==
    [count |-> IF kind = "create" THEN Cardinality(Kept) ELSE 0,
     active |-> kind \in {"delete", "start"} /\ ActiveOf(row) # {},
     value |-> IF kind = "tune" THEN sensitivity[row] ELSE Low,
     reread |-> Low,
     status |-> "none"]

Begin(r, kind, row) ==
    /\ phase[r] = "idle"
    /\ phase' = [phase EXCEPT ![r] = "begun"]
    /\ op' = [op EXCEPT ![r] = [kind |-> kind, row |-> row]]
    /\ seen' = [seen EXCEPT ![r] = Snapshot(kind, row)]
    /\ UNCHANGED <<locks, rowVars>>

\* Bound: a create or start that is begun has an id left.
IdsLeft(kind, ids) ==
    Cardinality({r \in Request : op[r].kind = kind}) < Cardinality(ids)

BeginCreate(r) ==
    /\ IdsLeft("create", {p \in Profile : profile[p] = "absent"})
    /\ Begin(r, "create", Account)

\* An id the client knows: the profile may have been deleted since, and then
\* the plain read that update_behavior_warning_sensitivity begins with fails.
BeginOnProfile(r, kind, p) ==
    /\ profile[p] # "absent"
    /\ kind = "tune" => profile[p] = "kept"
    /\ kind = "start" =>
          IdsLeft("start", {s \in Session : session[s] = "absent"})
    /\ Begin(r, kind, p)

BeginOnSession(r, kind, s) ==
    /\ session[s] # "absent"
    /\ Begin(r, kind, s)

\* A row somebody else has locked makes a locking read wait.
Free(r, rows) == \A q \in Request \ {r} : locks[q] \cap rows = {}

Gone(row) ==
    \/ row \in Profile /\ profile[row] = "deleted"
    \/ row \in Session /\ session[row] = "deleted"

MutPlainRead(rows) == {}

\* The rows a read is made FOR UPDATE of.
WithForUpdate(rows) == rows

MutIdentityMap(r) == seen[r].value

\* populate_existing: the row, and not the object the first read returned.
Reread(r) == sensitivity[op[r].row]

\* What the locking read returns, of a session its status and of a profile to
\* be tuned its sensitivity, is kept and used when the row is written.
LockedRead(r) ==
    [seen[r] EXCEPT
       !.status = IF op[r].kind \in SessionKind THEN session[op[r].row] ELSE @,
       !.reread = IF op[r].kind = "tune" THEN Reread(r) ELSE @]

\* SELECT ... FOR UPDATE of the account, a profile, or a session with the
\* profile it is joined to, which is locked after it.
Lock(r) ==
    /\ phase[r] = "begun"
    /\ ~Gone(op[r].row)
    /\ Free(r, WithForUpdate({op[r].row}))
    /\ locks' = [locks EXCEPT ![r] = WithForUpdate({op[r].row})]
    /\ phase' = [phase EXCEPT
                   ![r] = IF op[r].kind \in SessionKind THEN "joining"
                                                        ELSE "locked"]
    /\ seen' = [seen EXCEPT ![r] = LockedRead(r)]
    /\ UNCHANGED <<op, rowVars>>

LockOwner(r) ==
    /\ phase[r] = "joining"
    /\ Free(r, WithForUpdate({owner[op[r].row]}))
    /\ locks' = [locks EXCEPT ![r] = @ \cup WithForUpdate({owner[op[r].row]})]
    /\ phase' = [phase EXCEPT ![r] = "locked"]
    /\ UNCHANGED <<op, seen, rowVars>>

\* PROFILE_NOT_FOUND, SESSION_NOT_FOUND
NotFound(r) ==
    /\ phase[r] = "begun"
    /\ Gone(op[r].row)
    /\ Rest(r)
    /\ UNCHANGED rowVars

Doing(r, kind) == phase[r] = "locked" /\ op[r].kind = kind

Reject(r) == Rest(r) /\ UNCHANGED rowVars

\* A database error: the transaction is rolled back, and not tried again.
Fail(r) == phase[r] # "idle" /\ Reject(r)

----------------------------------------------------------------------------
(* ProfileService.                                                         *)

MutNoLimit(r) == FALSE

AtLimit(r) == seen[r].count >= Limit

CreateProfile(r) ==
    /\ Doing(r, "create")
    /\ \/ AtLimit(r) /\ Reject(r)
       \/ /\ ~AtLimit(r)
          /\ \E p \in Profile, value \in Sensitivity :
                /\ profile[p] = "absent"
                /\ profile' = [profile EXCEPT ![p] = "kept"]
                /\ sensitivity' = [sensitivity EXCEPT ![p] = value]
                /\ files' = files \cup {p}
          /\ Rest(r)
          /\ UNCHANGED <<session, owner, endedBy, talking>>

SetSensitivity(r, value) ==
    /\ sensitivity' = [sensitivity EXCEPT ![op[r].row] = value]
    /\ Rest(r)
    /\ UNCHANGED <<profile, files, session, owner, endedBy, talking>>

UpdateProfile(r) ==
    /\ Doing(r, "update")
    /\ \E value \in Sensitivity : SetSensitivity(r, value)

Size(difference) == IF difference < 0 THEN -difference ELSE difference

\* Three tenths of the way, rounded, and at least one.
Smoothed(current, recommended) ==
    LET difference == recommended - current
        rounded == (3 * Size(difference) + 5) \div 10
        delta == IF rounded = 0 THEN 1 ELSE rounded
        next == IF difference > 0 THEN current + delta ELSE current - delta
    IN  IF difference = 0 THEN current
        ELSE IF next > High THEN High
        ELSE IF next < Low THEN Low ELSE next

\* The recommendation came while the row was not locked: it is written if
\* what was read under the lock is what it was computed from.
TuneProfile(r) ==
    /\ Doing(r, "tune")
    /\ \/ seen[r].reread # seen[r].value /\ Reject(r)
       \/ /\ seen[r].reread = seen[r].value
          /\ \E recommended \in Sensitivity :
                SetSensitivity(r, Smoothed(seen[r].value, recommended))

\* _delete_profile_files; deleting some of them may fail.
DeleteFiles(r) ==
    /\ Doing(r, "delete")
    /\ \/ seen[r].active /\ Reject(r)
       \/ /\ ~seen[r].active
          /\ \/ /\ phase' = [phase EXCEPT ![r] = "emptied"]
                /\ UNCHANGED <<op, seen, locks>>
             \/ Rest(r)
          /\ files' = files \ {op[r].row}
          /\ UNCHANGED <<profile, sensitivity, session, owner, endedBy, talking>>

SessionsOf(p) == {s \in Session : owner[s] = p /\ session[s] # "absent"}

\* The foreign keys delete the profile's sessions, and what belongs to them.
DeleteProfile(r) ==
    LET p == op[r].row
        its == SessionsOf(p)
    IN  /\ phase[r] = "emptied"
        /\ Free(r, its)
        /\ profile' = [profile EXCEPT ![p] = "deleted"]
        /\ session' = [s \in Session |->
                          IF s \in its THEN "deleted" ELSE session[s]]
        /\ talking' = talking \ its
        /\ Rest(r)
        /\ UNCHANGED <<sensitivity, files, owner, endedBy>>

----------------------------------------------------------------------------
(* DrivingSessionService and AgentConversationService.                     *)

\* uq_driving_sessions_active_profile
MayBeActive(p) == ActiveOf(p) = {}

\* The model's readiness is asked in between, and may be denied.
StartSession(r) ==
    /\ Doing(r, "start")
    /\ \/ Reject(r)
       \/ /\ ~seen[r].active
          /\ MayBeActive(op[r].row)
          /\ \E s \in Session :
                /\ session[s] = "absent"
                /\ session' = [session EXCEPT ![s] = "ACTIVE"]
                /\ owner' = [owner EXCEPT ![s] = op[r].row]
          /\ Rest(r)
          /\ UNCHANGED <<profile, sensitivity, files, endedBy, talking>>

MutAnyStatus(r) == TRUE

WasActive(r) == seen[r].status = "ACTIVE"

\* COMPLETED or ABORTED, and its conversations with it.
EndSession(r) ==
    /\ Doing(r, "end")
    /\ \/ ~WasActive(r) /\ Reject(r)
       \/ /\ WasActive(r)
          /\ session' = [session EXCEPT ![op[r].row] = "ended"]
          /\ endedBy' = [endedBy EXCEPT ![op[r].row] = r]
          /\ talking' = talking \ {op[r].row}
          /\ Rest(r)
          /\ UNCHANGED <<profile, sensitivity, files, owner>>

StartConversation(r) ==
    /\ Doing(r, "talk")
    /\ \/ ~WasActive(r) /\ Reject(r)
       \/ /\ WasActive(r)
          /\ talking' = talking \cup {op[r].row}
          /\ Rest(r)
          /\ UNCHANGED <<profile, sensitivity, files, session, owner, endedBy>>

----------------------------------------------------------------------------

\* One waits for a profile to finish its join, and its holder deletes that
\* profile and waits for the session.
Deadlocked(r, q) ==
    /\ phase[r] = "joining" /\ phase[q] = "emptied"
    /\ owner[op[r].row] = op[q].row

DeadlockVictim(r) ==
    /\ \E q \in Request : Deadlocked(r, q) \/ Deadlocked(q, r)
    /\ Fail(r)

Finish(r) ==
    \/ CreateProfile(r) \/ UpdateProfile(r) \/ TuneProfile(r)
    \/ DeleteFiles(r) \/ DeleteProfile(r)
    \/ StartSession(r) \/ EndSession(r) \/ StartConversation(r)

Step(r) == Lock(r) \/ LockOwner(r) \/ NotFound(r) \/ Finish(r)

Next ==
    \E r \in Request :
       \/ BeginCreate(r)
       \/ \E kind \in ProfileKind, p \in Profile : BeginOnProfile(r, kind, p)
       \/ \E kind \in SessionKind, s \in Session : BeginOnSession(r, kind, s)
       \/ Step(r)
       \/ Fail(r)

Spec == Init /\ [][Next]_vars

----------------------------------------------------------------------------
(* Properties.                                                             *)

RowTypes ==
    /\ profile \in [Profile -> {"absent", "kept", "deleted"}]
    /\ sensitivity \in [Profile -> Sensitivity]
    /\ files \subseteq Profile
    /\ session \in [Session -> {"absent", "ACTIVE", "ended", "deleted"}]
    /\ owner \in [Session -> Profile \cup {None}]
    /\ endedBy \in [Session -> Request \cup {None}]
    /\ talking \subseteq Session

Phase == {"idle", "begun", "joining", "locked", "emptied"}

Op == [kind : {"none", "create"} \cup ProfileKind \cup SessionKind,
       row : Profile \cup Session \cup {Account, None}]

Seen == [count : Nat, active : BOOLEAN,
         value : Sensitivity, reread : Sensitivity,
         status : {"none", "absent", "ACTIVE", "ended", "deleted"}]

RequestTypes ==
    /\ phase \in [Request -> Phase]
    /\ op \in [Request -> Op]
    /\ seen \in [Request -> Seen]
    /\ locks \in [Request -> SUBSET (Profile \cup Session \cup {Account})]

TypeOK == RowTypes /\ RequestTypes

\* Creates whose snapshot is from before the limit was reached.
MayCreate == {r \in Request : op[r].kind = "create" /\ ~(seen[r].count >= Limit)}

\* The count is of the snapshot, and the account's lock does not refresh it:
\* the limit can be exceeded, but only by creates that were all under way
\* when the last free place was taken.
ExcessIsConcurrent ==
    Cardinality(Kept) + Cardinality(MayCreate) < Limit + Cardinality(Request)

\* A profile is driven by one session at a time, although a start looks for
\* an active one in a snapshot that may be older than that session.
AtMostOneActive ==
    \A s, t \in Active : owner[s] = owner[t] => s = t

\* Starts race the delete of their profile: no session outlives its profile.
SessionHasProfile ==
    \A s \in Session :
       session[s] \in {"ACTIVE", "ended"} => profile[owner[s]] = "kept"

\* A conversation is not started in a session that ends meanwhile: none of an
\* ended session is active.
NoTalkAfterEnd == talking \subseteq Active

\* What sessions rely on across requests: one drives a profile, its profile is
\* there, and its conversations end with it.
SoundSessions == AtMostOneActive /\ SessionHasProfile /\ NoTalkAfterEnd

\* Of two ends of a session one is refused: what the first recorded stays,
\* and no ended session is active again.
EndedOnce ==
    [][\A s \in Session :
          endedBy[s] # None =>
             endedBy'[s] = endedBy[s] /\ session'[s] \in {session[s], "deleted"}]_vars

\* The recommendation is computed while the driver may change the setting by
\* hand: it replaces only the value it was computed from.  The comparison is
\* of two earlier reads; that the second still holds is the row lock's doing.
TunedFromCurrent ==
    [][\A r \in Request :
          op[r].kind = "tune" /\ sensitivity' # sensitivity /\ phase'[r] # phase[r] =>
             sensitivity[op[r].row] = seen[r].value]_vars

\* The rows a request needs next, and waits for while others have locked them.
Wants(r) ==
    CASE phase[r] = "begun" /\ ~Gone(op[r].row) -> {op[r].row}
      [] phase[r] = "joining" -> {owner[op[r].row]}
      [] phase[r] = "emptied" -> SessionsOf(op[r].row)
      [] OTHER -> {}

\* However requests wait for one another, one of them does not wait, or is in
\* the one kind of cycle there is, whose victim the database rolls back.
WaitsEnd ==
    (\E r \in Request : phase[r] # "idle") =>
        \E r \in Request :
           /\ phase[r] # "idle"
           /\ \/ Free(r, Wants(r))
              \/ \E q \in Request : Deadlocked(r, q) \/ Deadlocked(q, r)

\* No request waits for ever: while one is under way some request can take a
\* step of its course, or is a victim the database can pick to break a cycle.
RequestsGoOn ==
    /\ WaitsEnd
    /\ (\E r \in Request : phase[r] # "idle") =>
          ENABLED (\E r \in Request : Step(r) \/ DeadlockVictim(r))

----------------------------------------------------------------------------
(* The inductive invariant.                                                *)

\* The row a request is on is of its kind's table, and was there once.
OpIsOnItsTable(r) ==
    /\ phase[r] = "idle" <=> op[r].kind = "none"
    /\ op[r].kind = "create" => op[r].row = Account
    /\ op[r].kind \in ProfileKind =>
          op[r].row \in Profile /\ profile[op[r].row] # "absent"
    /\ op[r].kind \in SessionKind =>
          op[r].row \in Session /\ session[op[r].row] # "absent"

\* Which rows a request has locked at each point of its course.
LocksOfPhase(r) ==
    /\ phase[r] \in {"idle", "begun"} => locks[r] = {}
    /\ phase[r] = "joining" =>
          op[r].kind \in SessionKind /\ locks[r] = {op[r].row}
    /\ phase[r] = "locked" =>
          IF op[r].kind \in SessionKind
          THEN locks[r] = {op[r].row, owner[op[r].row]}
          ELSE locks[r] = {op[r].row}
    /\ phase[r] = "emptied" =>
          op[r].kind = "delete" /\ locks[r] = {op[r].row}

\* A locked row has one holder, who still finds it as it was when locked.
HeldRows(r) ==
    /\ \A q \in Request : q # r => locks[q] \cap locks[r] = {}
    /\ \A p \in Profile \cap locks[r] :
          /\ profile[p] = "kept"
          /\ op[r].kind = "tune" => sensitivity[p] = seen[r].reread
    /\ \A s \in Session \cap locks[r] :
          session[s] \in {"ACTIVE", "ended"} /\ session[s] = seen[r].status

Courses ==
    \A r \in Request : OpIsOnItsTable(r) /\ LocksOfPhase(r) /\ HeldRows(r)

OwnersAndEnds ==
    \A s \in Session :
       /\ session[s] = "absent" <=> owner[s] = None
       /\ endedBy[s] # None => session[s] \in {"ended", "deleted"}

IInv ==
    /\ TypeOK
    /\ Courses
    /\ OwnersAndEnds
    /\ ExcessIsConcurrent
    /\ AtMostOneActive
    /\ SessionHasProfile
    /\ NoTalkAfterEnd
=============================================================================
