---------------------------- MODULE AgentRuntime ----------------------------
(***************************************************************************)
(* The requests the agent answers for one driver: planning an intervention *)
(* for a behaviour event, messages of a conversation, the decision on a    *)
(* tool, the driver's response to an intervention                          *)
(* (app/services/agent_runtime_service.py), and what starts and ends those *)
(* conversations (agent_conversation_service.py, end_session of            *)
(* driving_session_service.py).                                            *)
(*                                                                         *)
(* A request is one transaction, whose snapshot is older than its locks.   *)
(* A read FOR UPDATE of a join locks a row of every table it joins, one    *)
(* after the other, and returns what is committed by then.  A language     *)
(* model is asked in the middle of the transaction, with the locks held.   *)
(***************************************************************************)
EXTENDS Integers, Sequences, FiniteSets

CONSTANTS Request,       \* requests that can be under way at once
          Session,       \* driving sessions of the profile
          Event,         \* behaviour events
          Behavior,      \* behaviour types
          Conversation,  \* ids conversations can get, a bound on their number
          Tool,          \* ids tool executions can get, a bound
          SessionOf,     \* session_id of an event
          BehaviorOf,    \* behavior_type of an event
          AllowedTool,   \* ALLOWED_TOOL_NAMES
          ConfirmedTool, \* REQUIRES_CONFIRMATION_TOOL_NAMES
          UnknownTool,   \* any other name
          MaxTurns,      \* bound on the driver's messages in a conversation
          Low, High,     \* bounds of a behaviour's warning sensitivity
          None

\* recent holds requests and conversations, which must not be confused.
ASSUME EventsAssumption ==
    /\ SessionOf \in [Event -> Session]
    /\ BehaviorOf \in [Event -> Behavior]
    /\ None \notin Event \cup Session \cup Conversation \cup AllowedTool
    /\ Request \cap Conversation = {}

ASSUME ToolsAssumption ==
    /\ ConfirmedTool \subseteq AllowedTool
    /\ UnknownTool \notin AllowedTool \cup {None}

ASSUME BoundsAssumption ==
    /\ MaxTurns \in Nat
    /\ Low \in Nat /\ High \in Nat /\ Low <= High

VARIABLES
    session,       \* status of each driving session
    conversation,  \* status of each conversation
    about,         \* trigger_behavior_event_id, None of a general one
    place,         \* session_id of a conversation
    intervention,  \* status of the intervention a conversation came with
    messages,      \* the sequence_no of its messages, as they were committed
    tool,          \* each tool execution
    sensitivity,   \* behavior_warning_sensitivity of the profile
    recent,        \* interventions and plans begun within the cooldown
    phase,         \* per request
    op,            \* per request: what it is, on which row
    seen,          \* per request: what its reads returned
    locks          \* per request: the rows it has locked

talkVars == <<conversation, about, place, intervention, messages>>
rowVars == <<session, talkVars, tool, sensitivity>>
requestVars == <<phase, op, seen, locks>>
vars == <<rowVars, recent, requestVars>>

Sensitivity == Low..High

Waiting == "WAITING_RESPONSE"

NoTool == [name |-> None, in |-> None, confirmation |-> "absent",
           execution |-> "absent"]

NoOp == [kind |-> "none", row |-> None]

NothingSeen == [last |-> 0, rows |-> 0, status |-> "none", recent |-> {},
                sensitivity |-> [b \in Behavior |-> Low]]

Init ==
    /\ session = [s \in Session |-> "ACTIVE"]
    /\ conversation = [c \in Conversation |-> "absent"]
    /\ about = [c \in Conversation |-> None]
    /\ place = [c \in Conversation |-> None]
    /\ intervention = [c \in Conversation |-> "absent"]
    /\ messages = [c \in Conversation |-> <<>>]
    /\ tool = [t \in Tool |-> NoTool]
    /\ sensitivity \in [Behavior -> Sensitivity]
    /\ recent = {}
    /\ phase = [r \in Request |-> "idle"]
    /\ op = [r \in Request |-> NoOp]
    /\ seen = [r \in Request |-> NothingSeen]
    /\ locks = [r \in Request |-> {}]

----------------------------------------------------------------------------
(* The course of a request.                                                *)

Kind == {"plan", "send", "decide", "respond", "end", "talk"}

\* The tables a request's first read joins.
Joined(kind) ==
    CASE kind = "plan" -> <<"event", "session", "profile">>
      [] kind = "send" -> <<"conversation", "session", "profile">>
      [] kind = "decide" -> <<"tool", "conversation", "session", "profile">>
      [] kind = "respond" -> <<"intervention", "event", "session", "profile">>
      [] OTHER -> <<"session", "profile">>

MutOwnRow(kind) == <<Joined(kind)[1]>>

\* The order in which a join locks its rows.
LockOrder(kind) == Joined(kind)

TalkOf(o) == IF o.kind = "decide" THEN tool[o.row].in ELSE o.row

EventOf(o) == IF o.kind = "plan" THEN o.row ELSE about[o.row]

SessionOfOp(o) ==
    CASE o.kind = "plan" -> SessionOf[o.row]
      [] o.kind = "respond" -> SessionOf[about[o.row]]
      [] o.kind \in {"send", "decide"} -> place[TalkOf(o)]
      [] OTHER -> o.row

RowIn(table, o) ==
    CASE table = "event" -> <<table, EventOf(o)>>
      [] table = "conversation" -> <<table, TalkOf(o)>>
      [] table = "session" -> <<table, SessionOfOp(o)>>
      [] table = "profile" -> <<table, None>>
      [] OTHER -> <<table, o.row>>

\* The response is sent; the transaction is committed or rolled back.
Rest(r) ==
    /\ phase' = [phase EXCEPT ![r] = "idle"]
    /\ op' = [op EXCEPT ![r] = NoOp]
    /\ seen' = [seen EXCEPT ![r] = NothingSeen]
    /\ locks' = [locks EXCEPT ![r] = {}]

Reject(r) == Rest(r) /\ recent' = recent \ {r} /\ UNCHANGED rowVars

Known(kind, row) ==
    CASE kind = "plan" -> row \in Event
      [] kind = "send" -> row \in Conversation /\ conversation[row] # "absent"
      [] kind = "decide" -> row \in Tool /\ tool[row] # NoTool
      [] kind = "respond" -> row \in Conversation /\ intervention[row] # "absent"
      [] OTHER -> row \in Session

\* Bound: a plan or a start that is begun has an id left.
IdsLeft ==
    Cardinality({r \in Request : op[r].kind \in {"plan", "talk"}})
       < Cardinality({c \in Conversation : conversation[c] = "absent"})

\* Bound: a safety conversation begins with two messages of its own.
TurnsLeft(c) ==
    Len(messages[c]) < 2 * MaxTurns + (IF about[c] = None THEN 0 ELSE 2)

\* The account is loaded: of the snapshot, a message will read the last
\* sequence number of its conversation.
Begin(r, kind, row) ==
    /\ phase[r] = "idle"
    /\ Known(kind, row)
    /\ kind \in {"plan", "talk"} => IdsLeft
    /\ kind = "send" => TurnsLeft(row)
    /\ phase' = [phase EXCEPT ![r] = "locking"]
    /\ op' = [op EXCEPT ![r] = [kind |-> kind, row |-> row]]
    /\ seen' = [seen EXCEPT
                  ![r].last = IF kind = "send" THEN Len(messages[row]) ELSE 0]
    /\ UNCHANGED <<locks, recent, rowVars>>

NextTable(r) == LockOrder(op[r].kind)[seen[r].rows + 1]

\* A row somebody else has locked makes a locking read wait.
Free(r, rows) == \A q \in Request \ {r} : locks[q] \cap rows = {}

StatusOf(table, o) ==
    CASE table = "conversation" -> conversation[TalkOf(o)]
      [] table = "tool" -> tool[o.row].confirmation
      [] OTHER -> session[o.row]

\* The row the request is on is read when it is locked, and the profile when
\* that is; a plan looks at the clock after it.
Lock(r) ==
    LET table == NextTable(r)
        row == RowIn(table, op[r])
        first == seen[r].rows = 0
        last == seen[r].rows + 1 = Len(LockOrder(op[r].kind))
    IN  /\ phase[r] = "locking"
        /\ Free(r, {row})
        /\ locks' = [locks EXCEPT ![r] = @ \cup {row}]
        /\ seen' = [seen EXCEPT
                      ![r].rows = @ + 1,
                      ![r].status = IF first /\ op[r].kind \notin {"plan", "respond"}
                                    THEN StatusOf(table, op[r]) ELSE @,
                      ![r].sensitivity = IF last /\ op[r].kind = "respond"
                                         THEN sensitivity ELSE @,
                      ![r].recent = IF last /\ op[r].kind = "plan"
                                    THEN recent \cap Conversation ELSE @]
        /\ phase' = [phase EXCEPT ![r] = IF last THEN "locked" ELSE @]
        /\ recent' = IF last /\ op[r].kind = "plan" THEN recent \cup {r} ELSE recent
        /\ UNCHANGED <<op, rowVars>>

Doing(r, kind) == phase[r] = "locked" /\ op[r].kind = kind

\* A database error, or the end of the process: nothing is committed.
Fail(r) == phase[r] # "idle" /\ Reject(r)

\* Fifteen seconds have passed since a plan looked at the clock.  More happens
\* here than can: a later plan may leave the cooldown before an earlier one.
CoolDown ==
    /\ \E x \in recent : recent' = recent \ {x}
    /\ UNCHANGED <<rowVars, requestVars>>

----------------------------------------------------------------------------
(* plan_intervention                                                       *)

\* CREATED, DELIVERED or WAITING_RESPONSE; nothing writes the first two.
IsOpen(c) == intervention[c] = Waiting

InSession(s) == {c \in Conversation : place[c] = s}

\* The rows a scan of the session's interventions or conversations meets.
Scanned(s) ==
    {<<"event", e>> : e \in {e \in Event : SessionOf[e] = s}}
    \cup ({"intervention", "conversation"} \X InSession(s))

MutSameEvent(r) ==
    {c \in seen[r].recent : IsOpen(c) /\ about[c] = op[r].row}

\* What _get_recent_open_intervention_for_behavior finds.
Reusable(r) ==
    {c \in seen[r].recent :
        /\ about[c] # None /\ IsOpen(c)
        /\ SessionOf[about[c]] = SessionOf[op[r].row]
        /\ BehaviorOf[about[c]] = BehaviorOf[op[r].row]}

Plan(r) ==
    /\ Doing(r, "plan")
    /\ Free(r, Scanned(SessionOf[op[r].row]))
    /\ \/ Reusable(r) # {} /\ Reject(r)
       \/ /\ Reusable(r) = {}
          /\ phase' = [phase EXCEPT ![r] = "asking"]
          /\ locks' = [locks EXCEPT ![r] = @ \cup Scanned(SessionOf[op[r].row])]
          /\ UNCHANGED <<op, seen, recent, rowVars>>

\* Whatever the language model answers, or the template if it does not: only
\* the wording differs.  The intervention began when the plan did.
Intervene(r) ==
    /\ phase[r] = "asking" /\ op[r].kind = "plan"
    /\ \E c \in Conversation :
          /\ conversation[c] = "absent"
          /\ conversation' = [conversation EXCEPT ![c] = "ACTIVE"]
          /\ about' = [about EXCEPT ![c] = op[r].row]
          /\ place' = [place EXCEPT ![c] = SessionOf[op[r].row]]
          /\ intervention' = [intervention EXCEPT ![c] = Waiting]
          /\ messages' = [messages EXCEPT ![c] = <<1, 2>>]
          /\ recent' = (recent \ {r}) \cup (IF r \in recent THEN {c} ELSE {})
    /\ Rest(r)
    /\ UNCHANGED <<session, tool, sensitivity>>

----------------------------------------------------------------------------
(* send_message                                                            *)

MutAnyStatus(r) == TRUE

IsActive(r) == seen[r].status = "ACTIVE"

Ask(r) ==
    /\ Doing(r, "send")
    /\ \/ ~IsActive(r) /\ Reject(r)
       \/ /\ IsActive(r)
          /\ phase' = [phase EXCEPT ![r] = "asking"]
          /\ UNCHANGED <<op, seen, locks, recent, rowVars>>

\* A tool a reply proposes; result is what it says the tool has already done.
Proposal == [name : AllowedTool \cup {UnknownTool}, confirm : BOOLEAN,
             result : BOOLEAN]

\* validate_agent_reply_plan
IsAllowed(p) ==
    /\ p.name \in AllowedTool
    /\ p.confirm <=> p.name \in ConfirmedTool
    /\ p.name \in ConfirmedTool => ~p.result

\* plan_agent_reply, when the model gave no answer or one that is not allowed.
RuleBased == {p \in Proposal : /\ p.name \in AllowedTool
                               /\ p.confirm = (p.name \in ConfirmedTool)
                               /\ p.result = ~p.confirm}

Proposed == {p \in Proposal : IsAllowed(p)} \cup RuleBased

\* _build_tool_execution
Execution(p, c) ==
    [name |-> p.name, in |-> c,
     confirmation |-> IF p.confirm THEN "PENDING" ELSE "NOT_REQUIRED",
     execution |-> IF p.confirm THEN "PENDING" ELSE "SUCCEEDED"]

MutNoConstraint(c, numbers) == TRUE

\* uq_agent_messages_conversation_sequence
MayInsert(c, numbers) == \A k \in DOMAIN messages[c] : messages[c][k] \notin numbers

\* The driver's message and the reply take the two numbers after the last one
\* of the snapshot; if the constraint refuses them nothing is stored.
Answer(r) ==
    LET c == op[r].row
        n == seen[r].last + 1
    IN  /\ phase[r] = "asking" /\ op[r].kind = "send"
        /\ \/ ~MayInsert(c, {n, n + 1}) /\ UNCHANGED <<messages, tool>>
           \/ /\ MayInsert(c, {n, n + 1})
              /\ messages' = [messages EXCEPT ![c] = @ \o <<n, n + 1>>]
              /\ \/ UNCHANGED tool
                 \/ \E p \in Proposed, t \in Tool :
                       /\ tool[t] = NoTool
                       /\ tool' = [tool EXCEPT ![t] = Execution(p, c)]
        /\ Rest(r)
        /\ UNCHANGED <<session, conversation, about, place, intervention,
                       sensitivity, recent>>

----------------------------------------------------------------------------
(* decide_tool_execution                                                   *)

MutAnyDecision(r) == seen[r].status # "NOT_REQUIRED"

\* It is required, and not given yet.
AwaitsDecision(r) == seen[r].status = "PENDING"

Decide(r) ==
    LET t == op[r].row
    IN  /\ Doing(r, "decide")
        /\ \/ ~AwaitsDecision(r) /\ UNCHANGED tool
           \/ /\ AwaitsDecision(r)
              /\ \/ tool' = [tool EXCEPT ![t].confirmation = "ACCEPTED",
                                         ![t].execution = "SUCCEEDED"]
                 \/ tool' = [tool EXCEPT ![t].confirmation = "REJECTED",
                                         ![t].execution = "CANCELLED"]
        /\ Rest(r)
        /\ UNCHANGED <<session, talkVars, sensitivity, recent>>

----------------------------------------------------------------------------
(* record_driver_response                                                  *)

ResponseType == {"BEHAVIOR_CORRECTED", "VOICE_ACCEPTED", "VOICE_REJECTED",
                 "BUTTON_ACCEPTED", "BUTTON_DISMISSED", "NO_RESPONSE",
                 "BEHAVIOR_REPEATED"}

\* behavior_corrected
Corrected == {"yes", "no", "unknown"}

Unheeded == {"BEHAVIOR_REPEATED", "NO_RESPONSE"}

Refused == {"BUTTON_DISMISSED", "VOICE_REJECTED"}

Clamped(n) == IF n > High THEN High ELSE IF n < Low THEN Low ELSE n

\* _apply_response_personalization: by how much a response moves it.
Adjustment(response, corrected) ==
    IF response \in Unheeded \/ corrected = "no" THEN 1
    ELSE IF response \notin Refused /\ corrected = "yes" THEN -1 ELSE 0

\* The intervention is RESOLVED, ESCALATED or CANCELLED by any response,
\* whichever it was before.
Respond(r) ==
    LET c == op[r].row
        b == BehaviorOf[about[c]]
    IN  /\ Doing(r, "respond")
        /\ \E response \in ResponseType, corrected \in Corrected :
              sensitivity' =
                 IF Adjustment(response, corrected) = 0 THEN sensitivity
                 ELSE [seen[r].sensitivity EXCEPT
                         ![b] = Clamped(@ + Adjustment(response, corrected))]
        /\ intervention' = [intervention EXCEPT ![c] = "closed"]
        /\ Rest(r)
        /\ UNCHANGED <<session, conversation, about, place, messages, tool, recent>>

----------------------------------------------------------------------------
(* start_general_conversation and end_session                              *)

StartConversation(r) ==
    /\ Doing(r, "talk")
    /\ \/ ~IsActive(r) /\ UNCHANGED talkVars
       \/ /\ IsActive(r)
          /\ \E c \in Conversation :
                /\ conversation[c] = "absent"
                /\ conversation' = [conversation EXCEPT ![c] = "ACTIVE"]
                /\ place' = [place EXCEPT ![c] = op[r].row]
          /\ UNCHANGED <<about, intervention, messages>>
    /\ Rest(r)
    /\ UNCHANGED <<session, tool, sensitivity, recent>>

\* cancel_open_interventions and abort_active_conversations are updates: they
\* see what is committed, and wait for the rows they scan.
EndSession(r) ==
    LET its == InSession(op[r].row)
    IN  /\ Doing(r, "end")
        /\ \/ ~IsActive(r) /\ UNCHANGED <<session, conversation, intervention>>
           \/ /\ IsActive(r)
              /\ Free(r, Scanned(op[r].row))
              /\ session' = [session EXCEPT ![op[r].row] = "ended"]
              /\ intervention' =
                    [c \in Conversation |-> IF c \in its /\ IsOpen(c)
                                            THEN "closed" ELSE intervention[c]]
              /\ conversation' =
                    [c \in Conversation |->
                        IF c \in its /\ conversation[c] = "ACTIVE"
                        THEN "ABORTED" ELSE conversation[c]]
        /\ Rest(r)
        /\ UNCHANGED <<about, place, messages, tool, sensitivity, recent>>

----------------------------------------------------------------------------

Finish(r) ==
    \/ Plan(r) \/ Intervene(r) \/ Ask(r) \/ Answer(r) \/ Decide(r)
    \/ Respond(r) \/ StartConversation(r) \/ EndSession(r)

Next ==
    \/ \E r \in Request :
          \/ \E kind \in Kind, row \in Event \cup Conversation \cup Tool \cup Session :
                Begin(r, kind, row)
          \/ Lock(r)
          \/ Finish(r)
          \/ Fail(r)
    \/ CoolDown

Spec == Init /\ [][Next]_vars

----------------------------------------------------------------------------
(* Properties.                                                             *)

Phase == {"idle", "locking", "locked", "asking"}

Table == {"event", "conversation", "session", "profile", "intervention", "tool"}

Row == Table \X (Event \cup Conversation \cup Session \cup Tool \cup {None})

TalkTypes ==
    /\ session \in [Session -> {"ACTIVE", "ended"}]
    /\ conversation \in [Conversation -> {"absent", "ACTIVE", "ABORTED"}]
    /\ about \in [Conversation -> Event \cup {None}]
    /\ place \in [Conversation -> Session \cup {None}]
    /\ intervention \in [Conversation -> {"absent", Waiting, "closed"}]
    /\ messages \in [Conversation -> Seq(Nat)]
    /\ sensitivity \in [Behavior -> Sensitivity]
    /\ recent \subseteq Conversation \cup Request

ToolRow == [name : AllowedTool \cup {UnknownTool, None},
            in : Conversation \cup {None},
            confirmation : {"absent", "PENDING", "NOT_REQUIRED", "ACCEPTED",
                            "REJECTED"},
            execution : {"absent", "PENDING", "SUCCEEDED", "CANCELLED"}]

Status == {"none", "absent", "ACTIVE", "ABORTED", "ended", "PENDING",
           "NOT_REQUIRED", "ACCEPTED", "REJECTED"}

RequestTypes ==
    /\ tool \in [Tool -> ToolRow]
    /\ phase \in [Request -> Phase]
    /\ op \in [Request -> [kind : Kind \cup {"none"},
                           row : Event \cup Conversation \cup Session \cup Tool
                                 \cup {None}]]
    /\ seen \in [Request -> [last : Nat, rows : 0..4, status : Status,
                             recent : SUBSET Conversation,
                             sensitivity : [Behavior -> Sensitivity]]]
    /\ locks \in [Request -> SUBSET Row]

TypeOK == TalkTypes /\ RequestTypes

\* Plans of two events of one behaviour race, each asking the language model
\* for seconds before it stores anything: within the cooldown the driver is
\* still warned once.
OneOpenPerBehavior ==
    \A c, d \in recent \cap Conversation :
       /\ intervention[c] = Waiting /\ intervention[d] = Waiting
       /\ SessionOf[about[c]] = SessionOf[about[d]]
       /\ BehaviorOf[about[c]] = BehaviorOf[about[d]]
       => c = d

\* A message takes its number from a snapshot that may be older than the
\* messages it waited for: what is stored still has the numbers 1, 2, 3 and so
\* on, in the order of the commits.
MessagesInOrder ==
    \A c \in Conversation : \A k \in DOMAIN messages[c] : messages[c][k] = k

\* Whatever the language model proposes, and whatever races the decision, no
\* tool that needs the driver's consent has run without it.
NothingWithoutConsent ==
    \A t \in Tool :
       tool[t].name \in ConfirmedTool /\ tool[t].execution = "SUCCEEDED" =>
          tool[t].confirmation = "ACCEPTED"

\* A plan does not look at the session's status: after the end of a session
\* the conversations that are active are those of interventions.
ActiveAfterEndIsSafety ==
    \A c \in Conversation :
       conversation[c] = "ACTIVE" /\ session[place[c]] = "ended" => about[c] # None

\* A tool runs with the driver's consent if it needs it, and of two decisions
\* on it the first is final.
ConsentIsFinal ==
    [][/\ NothingWithoutConsent'
       /\ \A t \in Tool :
             tool[t].confirmation \in {"ACCEPTED", "REJECTED", "NOT_REQUIRED"} =>
                tool'[t] = tool[t]]_vars

\* The end of a session leaves only interventions to talk about; and although
\* it comes while the reply to a message is being made, nothing is stored any
\* more in a conversation it aborted.
NothingAfterEnd ==
    [][/\ ActiveAfterEndIsSafety'
       /\ \A c \in Conversation :
             conversation[c] = "ABORTED" => messages'[c] = messages[c]]_vars

\* Responses write the whole map of sensitivities from what they read of it:
\* each still moves one behaviour, by one.
OneStepPerResponse ==
    [][\A a, b \in Behavior :
          sensitivity'[a] # sensitivity[a] /\ sensitivity'[b] # sensitivity[b] =>
             a = b /\ sensitivity'[a] - sensitivity[a] \in {-1, 1}]_vars

----------------------------------------------------------------------------
(* The inductive invariant.                                                *)

\* The row a request is on is there.
OpKnown(r) ==
    /\ phase[r] = "idle" <=> op[r].kind = "none"
    /\ op[r].kind # "none" => Known(op[r].kind, op[r].row)

\* How far its join has got.
RowsRead(r) ==
    /\ phase[r] = "idle" => seen[r].rows = 0 /\ locks[r] = {}
    /\ phase[r] = "locking" => seen[r].rows < Len(LockOrder(op[r].kind))
    /\ phase[r] \in {"locked", "asking"} =>
          seen[r].rows = Len(LockOrder(op[r].kind))
    /\ phase[r] = "asking" => op[r].kind \in {"plan", "send"}

RowsHeld(r) ==
    \A k \in 1..seen[r].rows : RowIn(LockOrder(op[r].kind)[k], op[r]) \in locks[r]

\* What it has read under a lock is still so.
ReadsHold(r) ==
    /\ op[r].kind = "send" => seen[r].last <= Len(messages[op[r].row])
    /\ op[r].kind \notin {"none", "plan", "respond"} /\ seen[r].rows # 0 =>
          seen[r].status = StatusOf(LockOrder(op[r].kind)[1], op[r])
    /\ op[r].kind = "respond" /\ phase[r] = "locked" =>
          seen[r].sensitivity = sensitivity
    /\ op[r].kind = "plan" /\ phase[r] = "locked" =>
          recent \cap Conversation \subseteq seen[r].recent
    /\ op[r].kind = "send" /\ phase[r] = "asking" => IsActive(r)

\* For a plan nothing was there to be reused, and nothing comes while the
\* model is asked.
PlansAlone(r) ==
    op[r].kind = "plan" /\ phase[r] = "asking" =>
       \A c \in recent \cap Conversation :
          ~ /\ intervention[c] = Waiting
            /\ SessionOf[about[c]] = SessionOf[op[r].row]
            /\ BehaviorOf[about[c]] = BehaviorOf[op[r].row]

InCourse(r) ==
    OpKnown(r) /\ RowsRead(r) /\ RowsHeld(r) /\ ReadsHold(r) /\ PlansAlone(r)

\* A row is locked by one request.
LocksExclusive == \A r, q \in Request : r # q => locks[r] \cap locks[q] = {}

\* What belongs to what.
TalksKnown ==
    \A c \in Conversation :
       /\ conversation[c] = "absent" <=> place[c] = None
       /\ intervention[c] = "absent" <=> about[c] = None
       /\ about[c] # None => place[c] = SessionOf[about[c]]
       /\ conversation[c] = "absent" => messages[c] = <<>> /\ about[c] = None
       /\ c \in recent => about[c] # None

ToolsKnown ==
    \A t \in Tool :
       /\ tool[t] # NoTool => tool[t].in \in Conversation /\ place[tool[t].in] # None
       /\ tool[t].confirmation = "NOT_REQUIRED" => tool[t].name \notin ConfirmedTool
       /\ tool[t].execution = "SUCCEEDED" =>
             tool[t].confirmation \in {"NOT_REQUIRED", "ACCEPTED"}

IInv ==
    /\ TypeOK
    /\ TalksKnown
    /\ ToolsKnown
    /\ LocksExclusive
    /\ \A r \in Request : InCourse(r)
    /\ OneOpenPerBehavior
    /\ MessagesInOrder
    /\ NothingWithoutConsent
    /\ ActiveAfterEndIsSafety
=============================================================================
