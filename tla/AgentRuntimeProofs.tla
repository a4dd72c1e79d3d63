------------------------- MODULE AgentRuntimeProofs -------------------------
(***************************************************************************)
(* Proofs about AgentRuntime, for any number of requests, sessions, events *)
(* and conversations.  Every join ends with the row of the profile, so one *)
(* request at a time is past it; the others hold at most the rows of their *)
(* joins before that, and have read them when they locked them.            *)
(***************************************************************************)
EXTENDS AgentRuntime, TLAPS

\* What a join begins and ends with.
LEMMA Joins ==
    ASSUME NEW kind \in Kind
    PROVE  LET order == LockOrder(kind)
           IN  /\ Len(order) \in 2..4
               /\ order[Len(order)] = "profile"
               /\ \A k \in 1..Len(order) :
                     /\ order[k] \in Table
                     /\ order[k] = "event" => kind \in {"plan", "respond"}
                     /\ order[k] = "conversation" => kind \in {"send", "decide"}
               /\ order[1] = CASE kind = "plan" -> "event"
                               [] kind = "send" -> "conversation"
                               [] kind = "decide" -> "tool"
                               [] kind = "respond" -> "intervention"
                               [] OTHER -> "session"
  BY DEF LockOrder, Joined, Kind, Table

\* Rows that are there stay, and belong to what they belonged to.
Lasting ==
    /\ \A c \in Conversation :
          /\ conversation[c] # "absent" =>
                /\ conversation'[c] # "absent"
                /\ place'[c] = place[c] /\ about'[c] = about[c]
          /\ intervention[c] # "absent" => intervention'[c] # "absent"
    /\ \A t \in Tool :
          tool[t] # NoTool => tool'[t] # NoTool /\ tool'[t].in = tool[t].in

\* So the rows of a request's join stay the same, and what it is on is there.
LEMMA SameRows ==
    ASSUME TalksKnown, ToolsKnown, Lasting,
           NEW kind \in Kind, NEW row, Known(kind, row),
           NEW k \in 1..Len(LockOrder(kind))
    PROVE  LET o == [kind |-> kind, row |-> row]
           IN  RowIn(LockOrder(kind)[k], o)' = RowIn(LockOrder(kind)[k], o)
<1> DEFINE table == LockOrder(kind)[k]
           o == [kind |-> kind, row |-> row]
<1>1. /\ table \in Table
      /\ table = "event" => kind \in {"plan", "respond"}
      /\ table = "conversation" => kind \in {"send", "decide"}
  BY Joins
<1> HIDE DEF table
<1>2. RowIn(table, o)' = RowIn(table, o)
  BY <1>1, EventsAssumption DEF RowIn, TalkOf, EventOf, SessionOfOp, Known,
     Lasting, TalksKnown, ToolsKnown, Kind, Table
<1> QED BY <1>2 DEF table

LEMMA StaysKnown ==
    ASSUME Lasting, NEW kind \in Kind, NEW row, Known(kind, row)
    PROVE  Known(kind, row)'
  BY DEF Known, Lasting, Kind

LEMMA KnownRow ==
    ASSUME NEW kind \in Kind, NEW row, Known(kind, row)
    PROVE  /\ kind = "plan" => row \in Event
           /\ kind = "send" => row \in Conversation /\ conversation[row] # "absent"
           /\ kind = "decide" => row \in Tool /\ tool[row] # NoTool
           /\ kind = "respond" =>
                 row \in Conversation /\ intervention[row] # "absent"
           /\ kind \in {"end", "talk"} => row \in Session
  BY DEF Known, Kind

\* A request in which nothing is done stays in its course.
LEMMA OtherInCourse ==
    ASSUME TypeOK, TalksKnown, ToolsKnown, Lasting,
           NEW q \in Request, InCourse(q),
           phase'[q] = phase[q], op'[q] = op[q], seen'[q] = seen[q], locks'[q] = locks[q]
    PROVE  OpKnown(q)' /\ RowsRead(q)' /\ RowsHeld(q)'
<1> DEFINE kind == op[q].kind
           row == op[q].row
<1>1. op[q] = [kind |-> kind, row |-> row] /\ (kind = "none" \/ kind \in Kind)
  BY DEF TypeOK, RequestTypes
<1>2. OpKnown(q)'
  BY <1>1, StaysKnown DEF InCourse, OpKnown
<1>3. RowsRead(q)'
  BY DEF InCourse, RowsRead
<1>4. RowsHeld(q)'
  <2>1. CASE phase[q] = "idle"
    BY <2>1 DEF InCourse, RowsRead, RowsHeld
  <2>2. CASE phase[q] # "idle"
    <3>1. kind \in Kind /\ Known(kind, row)
      BY <1>1, <2>2 DEF InCourse, OpKnown
    <3>2. seen[q].rows \in 0..Len(LockOrder(kind)) /\ Len(LockOrder(kind)) \in 2..4
      BY <2>2, <3>1, Joins DEF InCourse, RowsRead, TypeOK, RequestTypes, Phase
    <3> SUFFICES ASSUME NEW k \in 1..seen[q].rows
                 PROVE  RowIn(LockOrder(op[q].kind)[k], op[q])' \in locks[q]
      BY DEF RowsHeld
    <3>3. RowIn(LockOrder(kind)[k], op[q]) \in locks[q]
      BY DEF InCourse, RowsHeld
    <3>4. k \in 1..Len(LockOrder(kind))
      BY <3>2
    <3> QED BY <1>1, <3>1, <3>3, <3>4, SameRows
  <2> QED BY <2>1, <2>2
<1> QED BY <1>2, <1>3, <1>4

\* What a request past its join has locked.
LEMMA Holds ==
    ASSUME TypeOK, NEW r \in Request, InCourse(r),
           phase[r] \in {"locked", "asking"}
    PROVE  <<"profile", None>> \in locks[r]
<1> DEFINE order == LockOrder(op[r].kind)
<1>1. op[r].kind \in Kind
  BY DEF InCourse, OpKnown, TypeOK, RequestTypes
<1>2. Len(order) \in 1..seen[r].rows /\ order[Len(order)] = "profile"
  BY <1>1, Joins DEF InCourse, RowsRead
<1> HIDE DEF order
<1>3. RowIn(order[Len(order)], op[r]) \in locks[r]
  BY <1>2 DEF InCourse, RowsHeld, order
<1> QED BY <1>2, <1>3 DEF RowIn

LEMMA Alone ==
    ASSUME TypeOK, LocksExclusive, NEW r \in Request, InCourse(r),
           phase[r] \in {"locked", "asking"},
           NEW q \in Request \ {r}, InCourse(q)
    PROVE  phase[q] \in {"idle", "locking"}
<1>1. <<"profile", None>> \in locks[r]
  BY Holds
<1>2. phase[q] \in {"locked", "asking"} => <<"profile", None>> \in locks[q]
  BY Holds
<1> QED BY <1>1, <1>2 DEF LocksExclusive, TypeOK, RequestTypes, Phase

\* The row a request is on is the first it locks.
LEMMA FirstRow ==
    ASSUME TypeOK, NEW q \in Request, InCourse(q), seen[q].rows # 0
    PROVE  /\ op[q].kind \in Kind
           /\ op[q].kind = "send" => <<"conversation", op[q].row>> \in locks[q]
           /\ op[q].kind = "decide" => <<"tool", op[q].row>> \in locks[q]
           /\ op[q].kind = "respond" => <<"intervention", op[q].row>> \in locks[q]
           /\ op[q].kind \in {"end", "talk"} => <<"session", op[q].row>> \in locks[q]
<1>1. op[q].kind \in Kind /\ 1 \in 1..seen[q].rows
  <2>1. seen[q].rows \in 1..4 /\ phase[q] # "idle"
    BY DEF InCourse, RowsRead, TypeOK, RequestTypes
  <2> QED BY <2>1 DEF InCourse, OpKnown, TypeOK, RequestTypes
<1> DEFINE table == LockOrder(op[q].kind)[1]
<1>2. /\ op[q].kind = "send" => table = "conversation"
      /\ op[q].kind = "decide" => table = "tool"
      /\ op[q].kind = "respond" => table = "intervention"
      /\ op[q].kind \in {"end", "talk"} => table = "session"
  BY <1>1, Joins
<1> HIDE DEF table
<1>3. RowIn(table, op[q]) \in locks[q]
  BY <1>1 DEF InCourse, RowsHeld, table
<1> QED BY <1>1, <1>2, <1>3 DEF RowIn, TalkOf, SessionOfOp

\* What another request may do to one that is not past its join.
LEMMA Undisturbed ==
    ASSUME TypeOK, TalksKnown, ToolsKnown, Lasting,
           NEW q \in Request, InCourse(q), phase[q] \in {"idle", "locking"},
           phase'[q] = phase[q], op'[q] = op[q], seen'[q] = seen[q], locks'[q] = locks[q],
           \A c \in Conversation : conversation[c] # "absent" =>
              /\ Len(messages[c]) \in Nat /\ Len(messages'[c]) \in Nat
              /\ Len(messages[c]) <= Len(messages'[c]),
           \A c \in Conversation :
              conversation[c] # "absent" /\ <<"conversation", c>> \in locks[q] =>
                 conversation'[c] = conversation[c],
           \A t \in Tool :
              tool[t] # NoTool /\ <<"tool", t>> \in locks[q] =>
                 tool'[t].confirmation = tool[t].confirmation,
           \A s \in Session :
              <<"session", s>> \in locks[q] => session'[s] = session[s]
    PROVE  InCourse(q)'
<1>1. OpKnown(q)' /\ RowsRead(q)' /\ RowsHeld(q)'
  BY OtherInCourse
<1>2. ReadsHold(q)'
  <2>1. CASE phase[q] = "idle"
    BY <2>1 DEF InCourse, OpKnown, ReadsHold
  <2>2. CASE phase[q] = "locking"
    <3>1. op[q].kind \in Kind /\ Known(op[q].kind, op[q].row)
      BY <2>2 DEF InCourse, OpKnown, TypeOK, RequestTypes
    <3>2. (op[q].kind = "send" => seen[q].last <= Len(messages[op[q].row]))'
      BY <3>1 DEF InCourse, ReadsHold, Known, TypeOK, RequestTypes
    <3>3. ASSUME op[q].kind \notin {"none", "plan", "respond"}, seen[q].rows # 0
          PROVE  seen[q].status = StatusOf(LockOrder(op[q].kind)[1], op[q])'
      <4> DEFINE table == LockOrder(op[q].kind)[1]
      <4>0. table' = table
        BY DEF LockOrder, Joined
      <4>1. /\ op[q].kind = "send" => table = "conversation"
            /\ op[q].kind = "decide" => table = "tool"
            /\ op[q].kind \in {"end", "talk"} => table = "session"
        BY <3>1, Joins
      <4> HIDE DEF table
      <4>2. seen[q].status = StatusOf(table, op[q])
        BY <3>3 DEF InCourse, ReadsHold, table
      <4>3. StatusOf(table, op[q])' = StatusOf(table, op[q])
        <5>1. op[q].kind \in {"send", "decide", "end", "talk"}
          BY <3>1, <3>3 DEF Kind
        <5>2. CASE op[q].kind = "send"
          BY <3>1, <3>3, <4>0, <4>1, <5>2, FirstRow, KnownRow DEF StatusOf, TalkOf
        <5>3. CASE op[q].kind = "decide"
          BY ZenonT(30), <3>1, <3>3, <4>0, <4>1, <5>3, FirstRow, KnownRow DEF StatusOf
        <5>4. CASE op[q].kind \in {"end", "talk"}
          BY <3>1, <3>3, <4>0, <4>1, <5>4, FirstRow, KnownRow DEF StatusOf
        <5> QED BY <5>1, <5>2, <5>3, <5>4
      <4> QED BY <4>2, <4>3 DEF table
    <3> QED BY <2>2, <3>2, <3>3 DEF ReadsHold
  <2> QED BY <2>1, <2>2
<1>3. PlansAlone(q)'
  BY DEF PlansAlone
<1> QED BY <1>1, <1>2, <1>3 DEF InCourse

\* Where the rows are left alone the invariants on them stay, whatever leaves
\* the cooldown.
Settled ==
    /\ TalksKnown /\ ToolsKnown /\ OneOpenPerBehavior /\ MessagesInOrder
    /\ NothingWithoutConsent /\ ActiveAfterEndIsSafety

Quiet ==
    /\ UNCHANGED rowVars
    /\ recent' \subseteq Conversation \cup Request
    /\ recent' \cap Conversation \subseteq recent

LEMMA QuietRows ==
    ASSUME TalkTypes, Settled, Quiet
    PROVE  TalkTypes' /\ Settled' /\ Lasting
<1> USE DEF Quiet, rowVars, talkVars
<1>1. TalkTypes'
  BY DEF TalkTypes
<1>2. TalksKnown' /\ ToolsKnown'
  BY DEF Settled, TalksKnown, ToolsKnown
<1>3. OneOpenPerBehavior'
  BY DEF Settled, OneOpenPerBehavior
<1>4. MessagesInOrder' /\ NothingWithoutConsent' /\ ActiveAfterEndIsSafety'
  BY DEF Settled, MessagesInOrder, NothingWithoutConsent, ActiveAfterEndIsSafety
<1>5. Lasting
  BY DEF Lasting
<1> QED BY <1>1, <1>2, <1>3, <1>4, <1>5 DEF Settled

LEMMA QuietCourse ==
    ASSUME TypeOK, Settled, Quiet,
           NEW q \in Request, InCourse(q),
           phase'[q] = phase[q], op'[q] = op[q], seen'[q] = seen[q], locks'[q] = locks[q]
    PROVE  InCourse(q)'
<1> USE DEF Quiet, rowVars, talkVars
<1>1. OpKnown(q)' /\ RowsRead(q)' /\ RowsHeld(q)'
  BY QuietRows, OtherInCourse DEF Settled, TypeOK
<1>2. StatusOf(LockOrder(op[q].kind)[1], op[q])' = StatusOf(LockOrder(op[q].kind)[1], op[q])
  BY DEF StatusOf, TalkOf, LockOrder, Joined
<1>3. ReadsHold(q)'
  <2> DEFINE now == StatusOf(LockOrder(op[q].kind)[1], op[q])
  <2>2. now' = now
    BY <1>2
  <2> HIDE DEF now
  <2>3. op[q].kind \notin {"none", "plan", "respond"} /\ seen[q].rows # 0 =>
           seen[q].status = now
    BY DEF InCourse, ReadsHold, now
  <2>4. recent' \cap Conversation \subseteq recent \cap Conversation
    OBVIOUS
  <2>5. op[q].kind = "plan" /\ phase[q] = "locked" =>
           recent' \cap Conversation \subseteq seen[q].recent
    BY <2>4 DEF InCourse, ReadsHold
  <2> QED BY <2>2, <2>3, <2>5 DEF InCourse, ReadsHold, IsActive, now
<1>4. PlansAlone(q)'
  BY DEF InCourse, PlansAlone
<1> QED BY <1>1, <1>3, <1>4 DEF InCourse

\* A request that has finished leaves the others in their course.
LEMMA FinishCourse ==
    ASSUME TypeOK, TalksKnown, ToolsKnown, LocksExclusive,
           \A q \in Request : InCourse(q),
           Lasting, NEW r \in Request, Rest(r), phase[r] \in {"locked", "asking"},
           \A c \in Conversation : conversation[c] # "absent" =>
              /\ Len(messages[c]) \in Nat /\ Len(messages'[c]) \in Nat
              /\ Len(messages[c]) <= Len(messages'[c]),
           \A c \in Conversation :
              conversation[c] # "absent" /\ conversation'[c] # conversation[c] =>
                 <<"conversation", c>> \in locks[r] \/ Free(r, {<<"conversation", c>>}),
           \A t \in Tool :
              tool[t] # NoTool /\ tool'[t].confirmation # tool[t].confirmation =>
                 <<"tool", t>> \in locks[r],
           \A s \in Session :
              session'[s] # session[s] => <<"session", s>> \in locks[r]
    PROVE  (\A q \in Request : InCourse(q)') /\ LocksExclusive'
<1>1. /\ phase'[r] = "idle" /\ op'[r] = NoOp /\ seen'[r] = NothingSeen /\ locks'[r] = {}
      /\ \A q \in Request \ {r} :
            /\ phase'[q] = phase[q] /\ op'[q] = op[q]
            /\ seen'[q] = seen[q] /\ locks'[q] = locks[q]
  BY DEF Rest, TypeOK, RequestTypes
<1>2. LocksExclusive'
  BY <1>1 DEF LocksExclusive
<1>3. InCourse(r)'
  BY <1>1 DEF InCourse, OpKnown, RowsRead, RowsHeld, ReadsHold, PlansAlone, NoOp,
     NothingSeen
<1>4. ASSUME NEW q \in Request \ {r}
      PROVE  InCourse(q)'
  <2>1. phase[q] \in {"idle", "locking"}
    BY Alone
  <2>2. /\ \A c \in Conversation :
              conversation[c] # "absent" /\ <<"conversation", c>> \in locks[q] =>
                 conversation'[c] = conversation[c]
        /\ \A t \in Tool :
              tool[t] # NoTool /\ <<"tool", t>> \in locks[q] =>
                 tool'[t].confirmation = tool[t].confirmation
        /\ \A s \in Session :
              <<"session", s>> \in locks[q] => session'[s] = session[s]
    BY DEF LocksExclusive, Free
  <2> QED BY <1>1, <2>1, <2>2, Undisturbed
<1> QED BY <1>2, <1>3, <1>4

LEMMA Parts ==
    IInv <=> /\ TalkTypes /\ RequestTypes /\ Settled /\ LocksExclusive
             /\ \A r \in Request : InCourse(r)
  BY DEF IInv, Settled, TypeOK

LEMMA RestTypes ==
    ASSUME RequestTypes, NEW r \in Request, Rest(r), tool' \in [Tool -> ToolRow]
    PROVE  RequestTypes'
<1>1. NothingSeen \in [last : Nat, rows : 0..4, status : Status,
                       recent : SUBSET Conversation,
                       sensitivity : [Behavior -> Sensitivity]]
  BY BoundsAssumption DEF NothingSeen, Status, Sensitivity
<1>2. NoOp \in [kind : Kind \cup {"none"},
                row : Event \cup Conversation \cup Session \cup Tool \cup {None}]
  BY DEF NoOp
<1> QED BY <1>1, <1>2 DEF RequestTypes, Rest, Phase

LEMMA InitInv == ASSUME Init PROVE IInv
<1> USE DEF Init
<1>1. TalkTypes
  BY DEF TalkTypes
<1>2. RequestTypes
  <2>1. NothingSeen \in [last : Nat, rows : 0..4, status : Status,
                         recent : SUBSET Conversation,
                         sensitivity : [Behavior -> Sensitivity]]
    BY BoundsAssumption DEF NothingSeen, Status, Sensitivity
  <2>2. NoTool \in ToolRow
    BY DEF NoTool, ToolRow
  <2> QED BY <2>1, <2>2 DEF RequestTypes, Phase, NoOp
<1>3. Settled
  <2>1. TalksKnown /\ ToolsKnown
    BY EventsAssumption DEF TalksKnown, ToolsKnown, NoTool
  <2>2. OneOpenPerBehavior /\ MessagesInOrder /\ ActiveAfterEndIsSafety
    BY DEF OneOpenPerBehavior, MessagesInOrder, ActiveAfterEndIsSafety
  <2>3. NothingWithoutConsent
    BY DEF NothingWithoutConsent, NoTool
  <2> QED BY <2>1, <2>2, <2>3 DEF Settled
<1>4. LocksExclusive
  BY DEF LocksExclusive
<1>5. \A r \in Request : InCourse(r)
  BY DEF InCourse, OpKnown, RowsRead, RowsHeld, ReadsHold, PlansAlone, NoOp,
     NothingSeen
<1> QED BY <1>1, <1>2, <1>3, <1>4, <1>5, Parts

LEMMA RejectStep ==
    ASSUME IInv, NEW r \in Request, Reject(r)
    PROVE  IInv'
<1>1. Quiet
  BY Parts DEF Reject, Quiet, TalkTypes
<1>2. TalkTypes' /\ Settled'
  BY <1>1, QuietRows, Parts
<1>3. RequestTypes'
  BY RestTypes, Parts DEF Reject, RequestTypes, rowVars
<1>4. /\ phase'[r] = "idle" /\ op'[r] = NoOp /\ seen'[r] = NothingSeen /\ locks'[r] = {}
      /\ \A q \in Request \ {r} :
            /\ phase'[q] = phase[q] /\ op'[q] = op[q]
            /\ seen'[q] = seen[q] /\ locks'[q] = locks[q]
  BY Parts DEF Reject, Rest, RequestTypes
<1>5. LocksExclusive'
  BY <1>4, Parts DEF LocksExclusive
<1>6. InCourse(r)'
  BY <1>4 DEF InCourse, OpKnown, RowsRead, RowsHeld, ReadsHold, PlansAlone, NoOp,
     NothingSeen
<1>7. \A q \in Request \ {r} : InCourse(q)'
  BY <1>1, <1>4, QuietCourse, Parts DEF TypeOK
<1> QED BY <1>2, <1>3, <1>5, <1>6, <1>7 DEF IInv, Settled, TypeOK

LEMMA CoolDownStep ==
    ASSUME IInv, CoolDown
    PROVE  IInv'
<1>1. Quiet /\ UNCHANGED requestVars
  BY Parts DEF CoolDown, Quiet, TalkTypes
<1>2. TalkTypes' /\ Settled'
  BY <1>1, QuietRows, Parts
<1>3. RequestTypes' /\ LocksExclusive'
  BY <1>1, Parts DEF Quiet, rowVars, requestVars, RequestTypes, LocksExclusive
<1>4. \A q \in Request : InCourse(q)'
  BY <1>1, QuietCourse, Parts DEF TypeOK, requestVars
<1> QED BY <1>2, <1>3, <1>4 DEF IInv, Settled, TypeOK

LEMMA SameHeld ==
    ASSUME UNCHANGED rowVars, NEW r \in Request, op'[r] = op[r], seen'[r] = seen[r],
           locks[r] \subseteq locks'[r], RowsHeld(r)
    PROVE  RowsHeld(r)'
<1>1. \A k \in 1..seen[r].rows :
         RowIn(LockOrder(op[r].kind)[k], op[r])' = RowIn(LockOrder(op[r].kind)[k], op[r])
  BY DEF rowVars, talkVars, RowIn, TalkOf, EventOf, SessionOfOp, LockOrder, Joined
<1> QED BY <1>1 DEF RowsHeld

LEMMA BeginStep ==
    ASSUME IInv, NEW r \in Request, NEW kind \in Kind,
           NEW row \in Event \cup Conversation \cup Tool \cup Session,
           Begin(r, kind, row)
    PROVE  IInv'
<1>1. Quiet
  BY Parts DEF Begin, Quiet, TalkTypes
<1>2. TalkTypes' /\ Settled' /\ Lasting
  BY <1>1, QuietRows, Parts
<1>3. kind = "send" => row \in Conversation /\ Len(messages[row]) \in Nat
  BY Parts, KnownRow DEF Begin, TalkTypes
<1> DEFINE n == IF kind = "send" THEN Len(messages[row]) ELSE 0
<1>4. /\ n \in Nat
      /\ phase' = [phase EXCEPT ![r] = "locking"]
      /\ op' = [op EXCEPT ![r] = [kind |-> kind, row |-> row]]
      /\ seen' = [seen EXCEPT ![r].last = n]
      /\ locks' = locks /\ UNCHANGED rowVars
  BY <1>3 DEF Begin
<1>5. kind = "send" => n = Len(messages'[row])
  BY <1>4 DEF rowVars, talkVars
<1> HIDE DEF n
<1>6. RequestTypes'
  BY <1>4, Parts DEF RequestTypes, Phase, rowVars
<1>7. LocksExclusive'
  BY <1>4, Parts DEF LocksExclusive
<1>8. \A q \in Request \ {r} : InCourse(q)'
  BY <1>1, <1>4, QuietCourse, Parts DEF TypeOK, RequestTypes
<1>9. InCourse(r)'
  <2>1. /\ phase'[r] = "locking" /\ op'[r] = [kind |-> kind, row |-> row]
        /\ seen'[r].last = n /\ seen'[r].rows = 0
    BY <1>4, Parts DEF Begin, InCourse, RowsRead, RequestTypes
  <2>2. Known(kind, row)'
    BY <1>2, StaysKnown DEF Begin
  <2>3. OpKnown(r)'
    BY <2>1, <2>2 DEF OpKnown, Kind
  <2>4. RowsRead(r)' /\ RowsHeld(r)'
    BY <2>1, Joins DEF RowsRead, RowsHeld
  <2>5. ReadsHold(r)' /\ PlansAlone(r)'
    BY <1>4, <1>5, <2>1 DEF ReadsHold, PlansAlone
  <2> QED BY <2>3, <2>4, <2>5 DEF InCourse
<1> QED BY <1>2, <1>6, <1>7, <1>8, <1>9 DEF IInv, Settled, TypeOK

LEMMA AskStep ==
    ASSUME IInv, NEW r \in Request, Ask(r)
    PROVE  IInv'
<1>1. CASE Reject(r)
  BY <1>1, RejectStep
<1>2. CASE /\ IsActive(r)
           /\ phase' = [phase EXCEPT ![r] = "asking"]
           /\ UNCHANGED <<op, seen, locks, recent, rowVars>>
  <2>1. Quiet
    BY <1>2, Parts DEF Quiet, TalkTypes
  <2>2. TalkTypes' /\ Settled'
    BY <2>1, QuietRows, Parts
  <2>3. RequestTypes' /\ LocksExclusive'
    BY <1>2, Parts DEF RequestTypes, Phase, rowVars, LocksExclusive
  <2>4. \A q \in Request \ {r} : InCourse(q)'
    BY <1>2, <2>1, QuietCourse, Parts DEF TypeOK, RequestTypes
  <2>5. phase'[r] = "asking" /\ phase[r] = "locked" /\ op[r].kind = "send"
    BY <1>2, Parts DEF Ask, Doing, RequestTypes
  <2>6. OpKnown(r)' /\ RowsRead(r)'
    BY <1>2, <2>1, <2>5, QuietRows, StaysKnown, Parts
       DEF InCourse, OpKnown, RowsRead, Kind, LockOrder, Joined
  <2>7. RowsHeld(r)'
    BY <1>2, <2>5, SameHeld, Parts DEF InCourse
  <2>8. ReadsHold(r)' /\ PlansAlone(r)'
    BY <1>2, <2>5, Parts
       DEF InCourse, ReadsHold, PlansAlone, IsActive, StatusOf, TalkOf, LockOrder,
           Joined, rowVars, talkVars
  <2> QED
    BY <2>2, <2>3, <2>4, <2>6, <2>7, <2>8 DEF IInv, Settled, TypeOK, InCourse
<1> QED BY <1>1, <1>2 DEF Ask

LEMMA PlanStep ==
    ASSUME IInv, NEW r \in Request, Plan(r)
    PROVE  IInv'
<1> DEFINE rows == Scanned(SessionOf[op[r].row])
<1>1. CASE Reject(r)
  BY <1>1, RejectStep
<1>2. CASE /\ Reusable(r) = {}
           /\ phase' = [phase EXCEPT ![r] = "asking"]
           /\ locks' = [locks EXCEPT ![r] = @ \cup rows]
           /\ UNCHANGED <<op, seen, recent, rowVars>>
  <2>1. Quiet
    BY <1>2, Parts DEF Quiet, TalkTypes
  <2>2. TalkTypes' /\ Settled'
    BY <2>1, QuietRows, Parts
  <2>3. rows \subseteq Row
    BY DEF Scanned, InSession, Row, Table
  <2>4. \A q \in Request \ {r} : locks[q] \cap rows = {}
    BY DEF Plan, Free
  <2> HIDE DEF rows
  <2>5. RequestTypes' /\ LocksExclusive'
    BY <1>2, <2>3, <2>4, Parts DEF RequestTypes, Phase, rowVars, LocksExclusive
  <2>6. \A q \in Request \ {r} : InCourse(q)'
    BY <1>2, <2>1, QuietCourse, Parts DEF TypeOK, RequestTypes
  <2>7. phase'[r] = "asking" /\ phase[r] = "locked" /\ op[r].kind = "plan"
    BY <1>2, Parts DEF Plan, Doing, RequestTypes
  <2>8. OpKnown(r)' /\ RowsRead(r)'
    BY <1>2, <2>1, <2>7, QuietRows, StaysKnown, Parts
       DEF InCourse, OpKnown, RowsRead, Kind, LockOrder, Joined
  <2>9. RowsHeld(r)'
    BY <1>2, <2>7, SameHeld, Parts DEF InCourse, RequestTypes
  <2>10. ReadsHold(r)'
    BY <1>2, <2>7 DEF ReadsHold
  <2>11. PlansAlone(r)'
    <3>1. recent \cap Conversation \subseteq seen[r].recent
      BY <2>7, Parts DEF InCourse, ReadsHold
    <3>2. \A c \in recent \cap Conversation : about[c] # None
      BY Parts DEF Settled, TalksKnown
    <3> QED
      BY <1>2, <3>1, <3>2 DEF PlansAlone, Reusable, IsOpen, rowVars, talkVars
  <2> QED
    BY <2>2, <2>5, <2>6, <2>8, <2>9, <2>10, <2>11 DEF IInv, Settled, TypeOK, InCourse
<1> QED BY <1>1, <1>2 DEF Plan

\* What a join names are rows, and its first has a status.
LEMMA RowTyped ==
    ASSUME TypeOK, TalksKnown, ToolsKnown,
           NEW kind \in Kind, NEW row, Known(kind, row),
           NEW k \in 1..Len(LockOrder(kind))
    PROVE  LET o == [kind |-> kind, row |-> row]
           IN  /\ RowIn(LockOrder(kind)[k], o) \in Row
               /\ kind \notin {"plan", "respond"} =>
                     StatusOf(LockOrder(kind)[1], o) \in Status
<1> DEFINE table == LockOrder(kind)[k]
           top == LockOrder(kind)[1]
           o == [kind |-> kind, row |-> row]
<1>1. /\ table \in Table
      /\ table = "event" => kind \in {"plan", "respond"}
      /\ table = "conversation" => kind \in {"send", "decide"}
  BY Joins
<1>2. /\ kind = "send" => top = "conversation"
      /\ kind = "decide" => top = "tool"
      /\ kind \in {"end", "talk"} => top = "session"
  BY Joins
<1> HIDE DEF table, top
<1>3. /\ kind = "plan" => row \in Event
      /\ kind = "send" => row \in Conversation
      /\ kind = "decide" =>
            row \in Tool /\ tool[row].in \in Conversation
      /\ kind = "respond" => row \in Conversation /\ about[row] \in Event
      /\ kind \in {"end", "talk"} => row \in Session
  BY KnownRow DEF TalksKnown, ToolsKnown, TypeOK, TalkTypes
<1>4. ASSUME table \in {"event", "session"}
      PROVE  RowIn(table, o) \in Row
  <2>1. table = "event" => EventOf(o) \in Event
    BY <1>1, <1>3 DEF EventOf
  <2>2. SessionOfOp(o) \in Session \cup {None}
    BY <1>3, EventsAssumption DEF SessionOfOp, TalkOf, Kind, TypeOK, TalkTypes
  <2> QED BY <1>4, <2>1, <2>2 DEF RowIn, Row, Table
<1>5. ASSUME table \in {"conversation", "profile"}
      PROVE  RowIn(table, o) \in Row
  <2>1. table = "conversation" => TalkOf(o) \in Conversation
    BY <1>1, <1>3 DEF TalkOf
  <2> QED BY <1>5, <2>1 DEF RowIn, Row, Table
<1>6. ASSUME table \in {"intervention", "tool"}
      PROVE  RowIn(table, o) \in Row
  <2>1. row \in Event \cup Conversation \cup Tool \cup Session
    BY <1>3 DEF Kind
  <2> QED BY <1>6, <2>1 DEF RowIn, Row, Table
<1>7. kind \notin {"plan", "respond"} => StatusOf(top, o) \in Status
  <2>1. CASE kind = "send"
    BY <1>2, <1>3, <2>1 DEF StatusOf, TalkOf, TypeOK, TalkTypes, Status
  <2>2. CASE kind = "decide"
    <3>1. tool[row] \in ToolRow
      BY <1>3, <2>2 DEF TypeOK, RequestTypes
    <3> QED BY <1>2, <2>2, <3>1 DEF StatusOf, ToolRow, Status
  <2>3. CASE kind \in {"end", "talk"}
    BY <1>2, <1>3, <2>3 DEF StatusOf, TypeOK, TalkTypes, Status
  <2> QED BY <2>1, <2>2, <2>3 DEF Kind
<1>8. table \in {"event", "session", "conversation", "profile", "intervention", "tool"}
  BY <1>1 DEF Table
<1> QED BY <1>4, <1>5, <1>6, <1>7, <1>8 DEF table, top

\* Writing four fields of what a request has read keeps their types.
Reads == [last : Nat, rows : 0..4, status : Status, recent : SUBSET Conversation,
          sensitivity : [Behavior -> Sensitivity]]

LEMMA LockReads ==
    ASSUME NEW f \in [Request -> Reads], NEW r \in Request, f[r].rows \in 0..3,
           NEW status \in Status, NEW map \in [Behavior -> Sensitivity],
           NEW talks \in SUBSET Conversation
    PROVE  [f EXCEPT ![r].rows = @ + 1, ![r].status = status,
                     ![r].sensitivity = map, ![r].recent = talks]
              \in [Request -> Reads]
<1> DEFINE f1 == [f EXCEPT ![r].rows = @ + 1]
           f2 == [f1 EXCEPT ![r].status = status]
           f3 == [f2 EXCEPT ![r].sensitivity = map]
           f4 == [f3 EXCEPT ![r].recent = talks]
<1>1. f1 \in [Request -> Reads]
  BY DEF Reads
<1>2. f2 \in [Request -> Reads]
  <2> HIDE DEF f1
  <2> QED BY <1>1 DEF Reads
<1>3. f3 \in [Request -> Reads]
  <2> HIDE DEF f2
  <2> QED BY <1>2 DEF Reads
<1>4. f4 \in [Request -> Reads]
  <2> HIDE DEF f3
  <2> QED BY <1>3 DEF Reads
<1>5. f4 = [f EXCEPT ![r].rows = @ + 1, ![r].status = status,
                     ![r].sensitivity = map, ![r].recent = talks]
  OBVIOUS
<1> QED BY <1>4, <1>5

LEMMA LockStep ==
    ASSUME IInv, NEW r \in Request, Lock(r)
    PROVE  IInv'
<1> DEFINE kind == op[r].kind
           n == Len(LockOrder(kind))
           k == seen[r].rows + 1
           table == NextTable(r)
           row == RowIn(table, op[r])
           status == StatusOf(table, op[r])
<1>1. /\ kind \in Kind /\ Known(kind, op[r].row)
      /\ op[r] = [kind |-> kind, row |-> op[r].row]
      /\ n \in 2..4 /\ k \in 1..n
      /\ table = LockOrder(kind)[k]
  <2>1. kind \in Kind /\ Known(kind, op[r].row)
    BY Parts DEF Lock, InCourse, OpKnown, RequestTypes
  <2>2. n \in 2..4
    BY <2>1, Joins
  <2>3. seen[r].rows \in 0..4 /\ seen[r].rows < n
    BY Parts DEF Lock, InCourse, RowsRead, RequestTypes
  <2> QED BY <2>1, <2>2, <2>3, Parts DEF RequestTypes, NextTable
<1>2. row \in Row
  BY <1>1, RowTyped, Parts DEF Settled, TypeOK
<1>3. kind \notin {"plan", "respond"} /\ seen[r].rows = 0 => status \in Status
  BY <1>1, RowTyped, Parts DEF Settled, TypeOK
<1> HIDE DEF table, row, status, n
<1> DEFINE last == k = n
           newStatus == IF seen[r].rows = 0 /\ kind \notin {"plan", "respond"}
                        THEN status ELSE seen[r].status
           newSensitivity == IF last /\ kind = "respond"
                             THEN sensitivity ELSE seen[r].sensitivity
           newRecent == IF last /\ kind = "plan"
                        THEN recent \cap Conversation ELSE seen[r].recent
<1>4. /\ phase[r] = "locking"
      /\ Free(r, {row})
      /\ locks' = [locks EXCEPT ![r] = @ \cup {row}]
      /\ seen' = [seen EXCEPT ![r].rows = @ + 1, ![r].status = newStatus,
                              ![r].sensitivity = newSensitivity,
                              ![r].recent = newRecent]
      /\ phase' = [phase EXCEPT ![r] = IF last THEN "locked" ELSE @]
      /\ recent' = IF last /\ kind = "plan" THEN recent \cup {r} ELSE recent
      /\ UNCHANGED <<op, rowVars>>
  BY DEF Lock, table, row, status, n
<1>5. /\ newStatus \in Status /\ newSensitivity \in [Behavior -> Sensitivity]
      /\ newRecent \subseteq Conversation
  BY <1>3, Parts DEF TalkTypes, RequestTypes
<1> HIDE DEF last, newStatus, newSensitivity, newRecent
<1>6. Quiet
  BY <1>4, EventsAssumption, Parts DEF Quiet, TalkTypes
<1>7. TalkTypes' /\ Settled' /\ Lasting
  BY <1>6, QuietRows, Parts
<1>8. seen[r].rows \in 0..3
  BY <1>1, Parts DEF RequestTypes
<1>9. RequestTypes'
  <2>1. locks' \in [Request -> SUBSET Row]
    BY <1>2, <1>4, Parts DEF RequestTypes
  <2>2. phase' \in [Request -> Phase] /\ op' = op /\ tool' = tool
    BY <1>4, Parts DEF RequestTypes, Phase, rowVars
  <2>3. seen' \in [Request -> [last : Nat, rows : 0..4, status : Status,
                               recent : SUBSET Conversation,
                               sensitivity : [Behavior -> Sensitivity]]]
    BY ZenonT(30), <1>4, <1>5, <1>8, LockReads, Parts DEF RequestTypes, Reads
  <2> QED BY <2>1, <2>2, <2>3, Parts DEF RequestTypes
<1>10. LocksExclusive'
  BY <1>4, Parts DEF LocksExclusive, Free, RequestTypes
<1>11. \A q \in Request \ {r} : InCourse(q)'
  BY <1>4, <1>6, QuietCourse, Parts DEF TypeOK, RequestTypes
<1>12. /\ phase'[r] = IF last THEN "locked" ELSE "locking"
       /\ op'[r] = op[r]
       /\ seen'[r].rows = k /\ seen'[r].last = seen[r].last
       /\ seen'[r].status = newStatus /\ seen'[r].sensitivity = newSensitivity
       /\ seen'[r].recent = newRecent
       /\ locks'[r] = locks[r] \cup {row}
  BY <1>4, Parts DEF RequestTypes
<1>13. OpKnown(r)'
  BY <1>1, <1>7, <1>12, StaysKnown DEF OpKnown, Kind
<1>14. RowsRead(r)'
  BY <1>1, <1>12 DEF RowsRead, last, n, LockOrder, Joined
<1>15. RowsHeld(r)'
  <2>1. \A i \in 1..seen[r].rows : RowIn(LockOrder(kind)[i], op[r]) \in locks[r]
    BY Parts DEF InCourse, RowsHeld
  <2>2. \A i \in 1..k : RowIn(LockOrder(kind)[i], op[r]) \in locks[r] \cup {row}
    BY <1>1, <1>8, <2>1 DEF row
  <2>3. \A i \in 1..k :
           RowIn(LockOrder(kind)[i], op[r])' = RowIn(LockOrder(kind)[i], op[r])
    BY <1>4, <1>12 DEF rowVars, talkVars, RowIn, TalkOf, EventOf, SessionOfOp,
       LockOrder, Joined
  <2> QED BY <1>12, <2>2, <2>3 DEF RowsHeld
<1>16. ReadsHold(r)'
  <2> DEFINE now == StatusOf(LockOrder(kind)[1], op[r])
  <2>1. now' = now
    BY <1>4, <1>12 DEF rowVars, talkVars, StatusOf, TalkOf, LockOrder, Joined
  <2>2. kind \notin {"none", "plan", "respond"} => newStatus = now
    <3>1. CASE seen[r].rows = 0
      BY <1>1, <3>1 DEF newStatus, status
    <3>2. CASE seen[r].rows # 0
      BY <3>2, Parts DEF newStatus, InCourse, ReadsHold
    <3> QED BY <3>1, <3>2
  <2> HIDE DEF now
  <2>3. kind = "send" => seen'[r].last <= Len(messages'[op[r].row])
    BY <1>4, <1>12, Parts DEF InCourse, ReadsHold, rowVars, talkVars
  <2>4. kind = "respond" /\ last => newSensitivity = sensitivity'
    BY <1>4 DEF newSensitivity, rowVars
  <2>5. kind = "plan" /\ last => recent' \cap Conversation \subseteq newRecent
    BY <1>4, EventsAssumption DEF newRecent
  <2> QED BY <1>12, <2>1, <2>2, <2>3, <2>4, <2>5 DEF ReadsHold, now
<1>17. PlansAlone(r)'
  BY <1>12 DEF PlansAlone
<1> QED
  BY <1>7, <1>9, <1>10, <1>11, <1>13, <1>14, <1>15, <1>16, <1>17
     DEF IInv, Settled, TypeOK, InCourse

\* What a request past its join knows.
LEMMA WhatIsRead ==
    ASSUME IInv, NEW r \in Request, phase[r] \in {"locked", "asking"}
    PROVE  LET row == op[r].row
           IN  /\ op[r].kind = "plan" => row \in Event
               /\ op[r].kind = "send" =>
                     /\ row \in Conversation /\ conversation[row] # "absent"
                     /\ seen[r].status = conversation[row]
                     /\ seen[r].last \in Nat /\ seen[r].last <= Len(messages[row])
               /\ op[r].kind = "decide" =>
                     /\ row \in Tool /\ tool[row] # NoTool
                     /\ seen[r].status = tool[row].confirmation
                     /\ <<"tool", row>> \in locks[r]
               /\ op[r].kind = "respond" =>
                     /\ row \in Conversation /\ about[row] \in Event
                     /\ phase[r] = "locked" => seen[r].sensitivity = sensitivity
               /\ op[r].kind \in {"end", "talk"} =>
                     /\ row \in Session
                     /\ seen[r].status = session[row]
                     /\ <<"session", row>> \in locks[r]
<1> DEFINE kind == op[r].kind
           top == LockOrder(kind)[1]
<1>1. kind \in Kind /\ Known(kind, op[r].row)
  BY Parts DEF InCourse, OpKnown, RequestTypes
<1>2. Len(LockOrder(kind)) \in 2..4 /\ seen[r].rows # 0
  BY <1>1, Joins, Parts DEF InCourse, RowsRead
<1>3. /\ kind = "send" => top = "conversation"
      /\ kind = "decide" => top = "tool"
      /\ kind \in {"end", "talk"} => top = "session"
  BY <1>1, Joins
<1>4. kind \in {"send", "decide", "end", "talk"} =>
         seen[r].status = StatusOf(top, op[r])
  BY <1>2, Parts DEF InCourse, ReadsHold
<1> HIDE DEF top
<1>5. /\ kind = "decide" => <<"tool", op[r].row>> \in locks[r]
      /\ kind \in {"end", "talk"} => <<"session", op[r].row>> \in locks[r]
  BY <1>2, FirstRow, Parts DEF TypeOK
<1>6. kind = "send" => seen[r].last \in Nat /\ seen[r].last <= Len(messages[op[r].row])
  BY Parts DEF InCourse, ReadsHold, RequestTypes
<1>7. kind = "respond" /\ phase[r] = "locked" => seen[r].sensitivity = sensitivity
  BY Parts DEF InCourse, ReadsHold
<1>8. kind = "respond" => op[r].row \in Conversation /\ about[op[r].row] \in Event
  BY <1>1, KnownRow, Parts DEF Settled, TalksKnown, TalkTypes
<1> QED
  BY <1>1, <1>3, <1>4, <1>5, <1>6, <1>7, <1>8, KnownRow DEF StatusOf, TalkOf

LEMMA InterveneStep ==
    ASSUME IInv, NEW r \in Request, Intervene(r)
    PROVE  IInv'
<1> DEFINE e == op[r].row
<1>1. phase[r] = "asking" /\ op[r].kind = "plan" /\ Rest(r) /\ e \in Event
  BY WhatIsRead DEF Intervene
<1>2. PICK c \in Conversation :
         /\ conversation[c] = "absent"
         /\ conversation' = [conversation EXCEPT ![c] = "ACTIVE"]
         /\ about' = [about EXCEPT ![c] = e]
         /\ place' = [place EXCEPT ![c] = SessionOf[e]]
         /\ intervention' = [intervention EXCEPT ![c] = Waiting]
         /\ messages' = [messages EXCEPT ![c] = <<1, 2>>]
         /\ recent' = (recent \ {r}) \cup (IF r \in recent THEN {c} ELSE {})
  BY DEF Intervene
<1>3. UNCHANGED <<session, tool, sensitivity>>
  BY DEF Intervene
<1>4. e # None /\ SessionOf[e] \in Session /\ None \notin Session
  BY <1>1, EventsAssumption
<1>5. place[c] = None /\ about[c] = None /\ intervention[c] = "absent"
  BY <1>2, Parts DEF Settled, TalksKnown
<1> HIDE DEF e
<1>6. TalkTypes'
  <2>1. <<1, 2>> \in Seq(Nat)
    OBVIOUS
  <2> QED
    BY <1>1, <1>2, <1>3, <1>4, <2>1, Parts DEF TalkTypes, Waiting
<1>7. RequestTypes'
  BY <1>1, <1>3, RestTypes, Parts DEF RequestTypes
<1>8. Lasting
  BY <1>2, <1>3, <1>5, Parts DEF Lasting, TalkTypes
<1>9. TalksKnown'
  BY <1>2, <1>4, <1>5, Parts DEF Settled, TalksKnown, TalkTypes, Waiting
<1>10. ToolsKnown' /\ NothingWithoutConsent'
  BY <1>2, <1>3, <1>4, Parts DEF Settled, ToolsKnown, NothingWithoutConsent, TalkTypes
<1>11. OneOpenPerBehavior'
  <2>1. /\ about'[c] = e
        /\ \A d \in Conversation \ {c} :
              about'[d] = about[d] /\ intervention'[d] = intervention[d]
    BY <1>2, Parts DEF TalkTypes
  <2>2. \A d \in recent' \cap Conversation : d = c \/ d \in recent
    BY <1>2
  <2>3. \A d \in recent \cap Conversation :
           ~ /\ intervention[d] = Waiting
             /\ SessionOf[about[d]] = SessionOf[e]
             /\ BehaviorOf[about[d]] = BehaviorOf[e]
    BY <1>1, Parts DEF InCourse, PlansAlone, e
  <2> SUFFICES ASSUME NEW d1 \in recent' \cap Conversation,
                      NEW d2 \in recent' \cap Conversation,
                      intervention'[d1] = Waiting, intervention'[d2] = Waiting,
                      SessionOf[about'[d1]] = SessionOf[about'[d2]],
                      BehaviorOf[about'[d1]] = BehaviorOf[about'[d2]]
               PROVE  d1 = d2
    BY DEF OneOpenPerBehavior
  <2>4. CASE d1 # c /\ d2 # c
    BY <2>1, <2>2, <2>4, Parts DEF Settled, OneOpenPerBehavior
  <2>5. CASE d1 = c /\ d2 # c
    BY <2>1, <2>2, <2>3, <2>5
  <2>6. CASE d1 # c /\ d2 = c
    BY <2>1, <2>2, <2>3, <2>6
  <2> QED BY <2>4, <2>5, <2>6
<1>12. MessagesInOrder'
  <2>1. \A k \in DOMAIN <<1, 2>> : <<1, 2>>[k] = k
    OBVIOUS
  <2> QED BY <1>2, <2>1, Parts DEF Settled, MessagesInOrder, TalkTypes
<1>13. ActiveAfterEndIsSafety'
  BY <1>2, <1>3, <1>4, Parts DEF Settled, ActiveAfterEndIsSafety, TalkTypes
<1>14. (\A q \in Request : InCourse(q)') /\ LocksExclusive'
  <2>1. \A d \in Conversation : conversation[d] # "absent" =>
           /\ conversation'[d] = conversation[d] /\ messages'[d] = messages[d]
           /\ Len(messages[d]) \in Nat
    BY <1>2, Parts DEF TalkTypes
  <2> QED
    BY <1>1, <1>3, <1>8, <2>1, FinishCourse, Parts DEF Settled, TypeOK
<1> QED
  BY <1>6, <1>7, <1>9, <1>10, <1>11, <1>12, <1>13, <1>14 DEF IInv, TypeOK

\* A tool of a reply waits for consent exactly if its name requires it.
LEMMA Executed ==
    ASSUME NEW p \in Proposed, NEW c \in Conversation
    PROVE  LET x == Execution(p, c)
           IN  /\ x \in ToolRow /\ x.in = c
               /\ x.confirmation = "NOT_REQUIRED" => x.name \notin ConfirmedTool
               /\ x.execution = "SUCCEEDED" => x.confirmation = "NOT_REQUIRED"
<1>1. p.name \in AllowedTool
  BY DEF Proposed, IsAllowed, RuleBased
<1>2. p.confirm <=> p.name \in ConfirmedTool
  BY DEF Proposed, IsAllowed, RuleBased
<1>3. CASE p.confirm
  BY <1>1, <1>3 DEF Execution, ToolRow
<1>4. CASE ~p.confirm
  BY <1>1, <1>2, <1>4 DEF Execution, ToolRow
<1> QED BY <1>3, <1>4

LEMMA AnswerStep ==
    ASSUME IInv, NEW r \in Request, Answer(r)
    PROVE  IInv'
<1> DEFINE c == op[r].row
           n == seen[r].last + 1
<1>1. /\ phase[r] = "asking" /\ Rest(r)
      /\ c \in Conversation /\ conversation[c] # "absent"
      /\ seen[r].last \in Nat /\ seen[r].last <= Len(messages[c])
  BY WhatIsRead DEF Answer
<1>2. UNCHANGED <<session, conversation, about, place, intervention, sensitivity, recent>>
  BY DEF Answer
<1>3. /\ \/ messages' = messages
         \/ /\ MayInsert(c, {n, n + 1})
            /\ messages' = [messages EXCEPT ![c] = @ \o <<n, n + 1>>]
      /\ \/ tool' = tool
         \/ \E p \in Proposed, t \in Tool :
               tool[t] = NoTool /\ tool' = [tool EXCEPT ![t] = Execution(p, c)]
  BY DEF Answer
<1>4. n \in Nat
  BY <1>1
<1> HIDE DEF c, n
<1>5. messages \in [Conversation -> Seq(Nat)]
  BY Parts DEF TalkTypes
<1>6. messages' \in [Conversation -> Seq(Nat)]
  <2>1. messages[c] \o <<n, n + 1>> \in Seq(Nat)
    BY <1>1, <1>4, <1>5
  <2> QED BY <1>3, <1>5, <2>1
<1>7. \A d \in Conversation :
         Len(messages[d]) \in Nat /\ Len(messages'[d]) \in Nat
         /\ Len(messages[d]) <= Len(messages'[d])
  <2>1. Len(messages[c] \o <<n, n + 1>>) = Len(messages[c]) + 2
    BY <1>1, <1>5
  <2>2. \A d \in Conversation : Len(messages[d]) \in Nat /\ Len(messages'[d]) \in Nat
    BY <1>5, <1>6
  <2>3. \A d \in Conversation :
           messages'[d] = messages[d] \/ Len(messages'[d]) = Len(messages[d]) + 2
    BY <1>3, <1>5, <2>1
  <2> QED BY <2>2, <2>3
<1>8. MessagesInOrder'
  <2>1. CASE messages' = messages
    BY <2>1, Parts DEF Settled, MessagesInOrder
  <2>2. CASE /\ MayInsert(c, {n, n + 1})
             /\ messages' = [messages EXCEPT ![c] = @ \o <<n, n + 1>>]
    <3> DEFINE m == messages[c]
    <3>1. m \in Seq(Nat) /\ Len(m) \in Nat /\ DOMAIN m = 1..Len(m)
      BY <1>1, <1>5
    <3>2. \A k \in DOMAIN m : m[k] = k /\ m[k] \notin {n, n + 1}
      BY <1>1, <2>2, Parts DEF Settled, MessagesInOrder, MayInsert
    <3>3. n = Len(m) + 1
      <4>1. n \notin 1..Len(m)
        BY <3>1, <3>2
      <4>2. n \in 1..(Len(m) + 1)
        BY <1>1, <3>1 DEF n
      <4> QED BY <3>1, <4>1, <4>2
    <3>4. \A k \in DOMAIN (m \o <<n, n + 1>>) : (m \o <<n, n + 1>>)[k] = k
      <4>1. Len(m \o <<n, n + 1>>) = Len(m) + 2
            /\ DOMAIN (m \o <<n, n + 1>>) = 1..(Len(m) + 2)
        BY <1>4, <3>1
      <4>2. \A k \in 1..Len(m) : (m \o <<n, n + 1>>)[k] = m[k]
        BY <1>4, <3>1
      <4>3. (m \o <<n, n + 1>>)[Len(m) + 1] = n
        BY <1>4, <3>1
      <4>4. (m \o <<n, n + 1>>)[Len(m) + 2] = n + 1
        BY <1>4, <3>1
      <4>5. \A k \in 1..(Len(m) + 2) :
               k \in 1..Len(m) \/ k = Len(m) + 1 \/ k = Len(m) + 2
        BY <3>1
      <4> QED BY SMTT(20), <3>1, <3>2, <3>3, <4>1, <4>2, <4>3, <4>4, <4>5
    <3> HIDE DEF m
    <3>5. \A d \in Conversation :
             messages'[d] = IF d = c THEN m \o <<n, n + 1>> ELSE messages[d]
      BY <1>5, <2>2 DEF m
    <3> QED BY <3>4, <3>5, Parts DEF Settled, MessagesInOrder
  <2> QED BY <1>3, <2>1, <2>2
<1>9. /\ tool' \in [Tool -> ToolRow] /\ ToolsKnown' /\ NothingWithoutConsent'
      /\ \A t \in Tool : tool[t] # NoTool => tool'[t] = tool[t]
  <2>1. CASE tool' = tool
    BY <1>2, <2>1, Parts DEF RequestTypes, Settled, ToolsKnown, NothingWithoutConsent
  <2>2. CASE \E p \in Proposed, t \in Tool :
                tool[t] = NoTool /\ tool' = [tool EXCEPT ![t] = Execution(p, c)]
    <3>1. PICK p \in Proposed, t \in Tool :
             tool[t] = NoTool /\ tool' = [tool EXCEPT ![t] = Execution(p, c)]
      BY <2>2
    <3> DEFINE x == Execution(p, c)
    <3>2. /\ x \in ToolRow /\ x.in = c
          /\ x.confirmation = "NOT_REQUIRED" => x.name \notin ConfirmedTool
          /\ x.execution = "SUCCEEDED" => x.confirmation = "NOT_REQUIRED"
      BY <1>1, Executed
    <3>3. tool' = [tool EXCEPT ![t] = x] /\ tool[t] = NoTool
      BY <3>1
    <3> HIDE DEF x
    <3>4. place[c] # None
      BY <1>1, Parts DEF Settled, TalksKnown
    <3> QED
      BY <1>1, <1>2, <3>2, <3>3, <3>4, Parts
         DEF RequestTypes, Settled, ToolsKnown, NothingWithoutConsent
  <2> QED BY <1>3, <2>1, <2>2
<1>10. TalkTypes'
  BY <1>2, <1>6, Parts DEF TalkTypes
<1>11. RequestTypes'
  BY <1>1, <1>9, RestTypes, Parts
<1>12. Lasting
  BY <1>2, <1>9, Parts DEF Lasting
<1>13. TalksKnown'
  <2>1. \A d \in Conversation : conversation[d] = "absent" => messages'[d] = messages[d]
    BY <1>1, <1>3, <1>5
  <2> QED BY <1>2, <2>1, Parts DEF Settled, TalksKnown
<1>14. OneOpenPerBehavior' /\ ActiveAfterEndIsSafety'
  BY <1>2, Parts DEF Settled, OneOpenPerBehavior, ActiveAfterEndIsSafety
<1>15. (\A q \in Request : InCourse(q)') /\ LocksExclusive'
  BY <1>1, <1>2, <1>7, <1>9, <1>12, FinishCourse, Parts DEF Settled, TypeOK
<1> QED
  BY <1>8, <1>9, <1>10, <1>11, <1>13, <1>14, <1>15 DEF IInv, TypeOK

LEMMA DecideStep ==
    ASSUME IInv, NEW r \in Request, Decide(r)
    PROVE  IInv'
<1> DEFINE t == op[r].row
<1>1. /\ phase[r] = "locked" /\ Rest(r)
      /\ t \in Tool /\ tool[t] # NoTool /\ <<"tool", t>> \in locks[r]
  BY WhatIsRead DEF Decide, Doing
<1>2. UNCHANGED <<session, talkVars, sensitivity, recent>>
  BY DEF Decide
<1>3. \/ tool' = tool
      \/ tool' = [tool EXCEPT ![t].confirmation = "ACCEPTED",
                              ![t].execution = "SUCCEEDED"]
      \/ tool' = [tool EXCEPT ![t].confirmation = "REJECTED",
                              ![t].execution = "CANCELLED"]
  BY DEF Decide
<1> HIDE DEF t
<1> USE DEF talkVars
<1>4. tool \in [Tool -> ToolRow] /\ tool[t] \in ToolRow
  BY <1>1, Parts DEF RequestTypes
<1>5. /\ tool' \in [Tool -> ToolRow]
      /\ \A u \in Tool \ {t} : tool'[u] = tool[u]
      /\ tool'[t].in = tool[t].in /\ tool'[t].name = tool[t].name
      /\ \/ tool'[t] = tool[t]
         \/ tool'[t].confirmation = "ACCEPTED" /\ tool'[t].execution = "SUCCEEDED"
         \/ tool'[t].confirmation = "REJECTED" /\ tool'[t].execution = "CANCELLED"
  BY <1>1, <1>3, <1>4 DEF ToolRow
<1>6. tool[t].in \in Conversation /\ tool'[t] # NoTool
  BY <1>1, <1>5, EventsAssumption, Parts DEF Settled, ToolsKnown, NoTool
<1>7. TalkTypes'
  BY <1>2, Parts DEF TalkTypes
<1>8. RequestTypes'
  BY <1>1, <1>5, RestTypes, Parts
<1>9. Lasting
  BY <1>1, <1>2, <1>5, <1>6 DEF Lasting
<1>10. TalksKnown' /\ OneOpenPerBehavior' /\ MessagesInOrder' /\ ActiveAfterEndIsSafety'
  BY <1>2, Parts DEF Settled, TalksKnown, OneOpenPerBehavior, MessagesInOrder,
     ActiveAfterEndIsSafety
<1>11. ToolsKnown' /\ NothingWithoutConsent'
  BY <1>1, <1>2, <1>5, <1>6, Parts DEF Settled, ToolsKnown, NothingWithoutConsent
<1>12. (\A q \in Request : InCourse(q)') /\ LocksExclusive'
  <2>1. \A d \in Conversation : Len(messages[d]) \in Nat
    BY Parts DEF TalkTypes
  <2> QED
    BY <1>1, <1>2, <1>5, <1>9, <2>1, FinishCourse, Parts DEF Settled, TypeOK
<1> QED
  BY <1>7, <1>8, <1>10, <1>11, <1>12 DEF IInv, TypeOK

\* How a response moves the sensitivity of one behaviour.
LEMMA ClampedStep ==
    ASSUME NEW n \in Sensitivity, NEW d \in {-1, 0, 1}
    PROVE  Clamped(n + d) \in Sensitivity /\ Clamped(n + d) - n \in {-1, 0, 1}
  BY BoundsAssumption DEF Clamped, Sensitivity

LEMMA RespondStep ==
    ASSUME IInv, NEW r \in Request, Respond(r)
    PROVE  /\ IInv'
           /\ \A a, b \in Behavior :
                 sensitivity'[a] # sensitivity[a] /\ sensitivity'[b] # sensitivity[b] =>
                    a = b /\ sensitivity'[a] - sensitivity[a] \in {-1, 1}
<1> DEFINE c == op[r].row
           b == BehaviorOf[about[c]]
<1>1. /\ phase[r] = "locked" /\ Rest(r)
      /\ c \in Conversation /\ about[c] \in Event
      /\ seen[r].sensitivity = sensitivity
  BY WhatIsRead DEF Respond, Doing
<1>2. /\ UNCHANGED <<session, conversation, about, place, messages, tool, recent>>
      /\ intervention' = [intervention EXCEPT ![c] = "closed"]
  BY DEF Respond
<1>3. b \in Behavior
  BY <1>1, EventsAssumption
<1>4. \E d \in {-1, 0, 1} :
         \/ sensitivity' = sensitivity
         \/ sensitivity' = [sensitivity EXCEPT ![b] = Clamped(@ + d)]
  <2>1. PICK response \in ResponseType, corrected \in Corrected :
           sensitivity' =
              IF Adjustment(response, corrected) = 0 THEN sensitivity
              ELSE [seen[r].sensitivity EXCEPT
                      ![b] = Clamped(@ + Adjustment(response, corrected))]
    BY DEF Respond
  <2>2. Adjustment(response, corrected) \in {-1, 0, 1}
    BY DEF Adjustment
  <2> QED BY <1>1, <2>1, <2>2
<1> HIDE DEF c, b
<1>5. sensitivity \in [Behavior -> Sensitivity]
  BY Parts DEF TalkTypes
<1>6. /\ sensitivity' \in [Behavior -> Sensitivity]
      /\ \A a \in Behavior : sensitivity'[a] # sensitivity[a] =>
            a = b /\ sensitivity'[a] - sensitivity[a] \in {-1, 1}
  <2>1. PICK d \in {-1, 0, 1} :
           \/ sensitivity' = sensitivity
           \/ sensitivity' = [sensitivity EXCEPT ![b] = Clamped(@ + d)]
    BY <1>4
  <2>2. CASE sensitivity' = sensitivity
    BY <1>5, <2>2
  <2>3. CASE sensitivity' = [sensitivity EXCEPT ![b] = Clamped(@ + d)]
    <3> DEFINE m == Clamped(sensitivity[b] + d)
    <3>1. m \in Sensitivity /\ m - sensitivity[b] \in {-1, 0, 1}
      BY <1>3, <1>5, ClampedStep
    <3>2. sensitivity' = [sensitivity EXCEPT ![b] = m]
      BY <2>3
    <3> HIDE DEF m
    <3>3. sensitivity[b] \in Int /\ m \in Int
      BY <1>3, <1>5, <3>1, BoundsAssumption DEF Sensitivity
    <3> QED BY <1>3, <1>5, <3>1, <3>2, <3>3
  <2> QED BY <2>1, <2>2, <2>3
<1>7. TalkTypes'
  BY <1>2, <1>6, Parts DEF TalkTypes
<1>8. RequestTypes'
  BY <1>1, <1>2, RestTypes, Parts DEF RequestTypes
<1>9. Lasting
  BY <1>1, <1>2, Parts DEF Lasting, TalkTypes
<1>10. TalksKnown' /\ OneOpenPerBehavior'
  <2>1. about[c] # None
    BY <1>1, EventsAssumption
  <2>2. \A d \in Conversation :
           intervention'[d] = IF d = c THEN "closed" ELSE intervention[d]
    BY <1>2, Parts DEF TalkTypes
  <2> QED
    BY <1>2, <2>1, <2>2, Parts DEF Settled, TalksKnown, OneOpenPerBehavior, Waiting
<1>11. MessagesInOrder' /\ ActiveAfterEndIsSafety' /\ ToolsKnown' /\ NothingWithoutConsent'
  BY <1>2, Parts DEF Settled, MessagesInOrder, ActiveAfterEndIsSafety, ToolsKnown,
     NothingWithoutConsent
<1>12. (\A q \in Request : InCourse(q)') /\ LocksExclusive'
  <2>1. \A d \in Conversation : Len(messages[d]) \in Nat
    BY Parts DEF TalkTypes
  <2> QED
    BY <1>1, <1>2, <1>9, <2>1, FinishCourse, Parts DEF Settled, TypeOK
<1>13. IInv'
  BY <1>7, <1>8, <1>10, <1>11, <1>12 DEF IInv, TypeOK
<1> QED BY <1>6, <1>13

LEMMA StartConversationStep ==
    ASSUME IInv, NEW r \in Request, StartConversation(r)
    PROVE  IInv'
<1> DEFINE s == op[r].row
<1>1. /\ phase[r] = "locked" /\ Rest(r)
      /\ s \in Session /\ seen[r].status = session[s]
  BY WhatIsRead DEF StartConversation, Doing
<1>2. UNCHANGED <<about, intervention, messages, session, tool, sensitivity, recent>>
  BY DEF StartConversation, talkVars
<1>3. \/ UNCHANGED <<conversation, place>>
      \/ /\ session[s] = "ACTIVE"
         /\ \E c \in Conversation :
               /\ conversation[c] = "absent"
               /\ conversation' = [conversation EXCEPT ![c] = "ACTIVE"]
               /\ place' = [place EXCEPT ![c] = s]
  BY <1>1 DEF StartConversation, talkVars, IsActive
<1> HIDE DEF s
<1>4. s # None
  BY <1>1, EventsAssumption
<1>5. \/ UNCHANGED <<conversation, place>>
      \/ \E c \in Conversation :
            /\ session[s] = "ACTIVE"
            /\ conversation[c] = "absent" /\ place[c] = None /\ about[c] = None
            /\ conversation' = [conversation EXCEPT ![c] = "ACTIVE"]
            /\ place' = [place EXCEPT ![c] = s]
  BY <1>3, Parts DEF Settled, TalksKnown
<1>6. TalkTypes'
  BY <1>1, <1>2, <1>3, Parts DEF TalkTypes
<1>7. RequestTypes'
  BY <1>1, <1>2, RestTypes, Parts DEF RequestTypes
<1>8. Lasting
  BY <1>2, <1>3, Parts DEF Lasting, TalkTypes
<1>9. TalksKnown'
  BY <1>2, <1>4, <1>5, Parts DEF Settled, TalksKnown, TalkTypes
<1>10. ToolsKnown' /\ ActiveAfterEndIsSafety'
  <2>1. CASE UNCHANGED <<conversation, place>>
    BY <1>2, <2>1, Parts DEF Settled, ToolsKnown, ActiveAfterEndIsSafety
  <2>2. CASE ~UNCHANGED <<conversation, place>>
    <3>1. PICK c \in Conversation :
             /\ session[s] = "ACTIVE"
             /\ conversation[c] = "absent" /\ place[c] = None /\ about[c] = None
             /\ conversation' = [conversation EXCEPT ![c] = "ACTIVE"]
             /\ place' = [place EXCEPT ![c] = s]
      BY <1>5, <2>2
    <3>2. /\ place'[c] = s
          /\ \A d \in Conversation \ {c} :
                place'[d] = place[d] /\ conversation'[d] = conversation[d]
      BY <3>1, Parts DEF TalkTypes
    <3>3. ToolsKnown'
      BY <1>2, <1>4, <3>2, Parts DEF Settled, ToolsKnown
    <3>4. ActiveAfterEndIsSafety'
      BY <1>2, <3>1, <3>2, Parts DEF Settled, ActiveAfterEndIsSafety
    <3> QED BY <3>3, <3>4
  <2> QED BY <2>1, <2>2
<1>11. OneOpenPerBehavior' /\ MessagesInOrder' /\ NothingWithoutConsent'
  BY <1>2, Parts DEF Settled, OneOpenPerBehavior, MessagesInOrder, NothingWithoutConsent
<1>12. (\A q \in Request : InCourse(q)') /\ LocksExclusive'
  <2>1. \A d \in Conversation :
           /\ Len(messages[d]) \in Nat
           /\ conversation[d] # "absent" => conversation'[d] = conversation[d]
    BY <1>3, Parts DEF TalkTypes
  <2> QED
    BY <1>1, <1>2, <1>8, <2>1, FinishCourse, Parts DEF Settled, TypeOK
<1> QED
  BY <1>6, <1>7, <1>9, <1>10, <1>11, <1>12 DEF IInv, TypeOK

LEMMA EndSessionStep ==
    ASSUME IInv, NEW r \in Request, EndSession(r)
    PROVE  IInv'
<1> DEFINE s == op[r].row
           its == InSession(s)
<1>1. /\ phase[r] = "locked" /\ Rest(r)
      /\ s \in Session /\ <<"session", s>> \in locks[r]
  BY WhatIsRead DEF EndSession, Doing
<1>2. UNCHANGED <<about, place, messages, tool, sensitivity, recent>>
  BY DEF EndSession
<1>3. \/ UNCHANGED <<session, conversation, intervention>>
      \/ /\ Free(r, Scanned(s))
         /\ session' = [session EXCEPT ![s] = "ended"]
         /\ intervention' =
               [c \in Conversation |-> IF c \in its /\ IsOpen(c)
                                       THEN "closed" ELSE intervention[c]]
         /\ conversation' =
               [c \in Conversation |-> IF c \in its /\ conversation[c] = "ACTIVE"
                                       THEN "ABORTED" ELSE conversation[c]]
  BY DEF EndSession
<1>4. TalkTypes'
  BY <1>2, <1>3, Parts DEF TalkTypes
<1>5. RequestTypes'
  BY <1>1, <1>2, RestTypes, Parts DEF RequestTypes
<1> HIDE DEF s
<1>6. /\ \A c \in Conversation : conversation'[c] # conversation[c] =>
            conversation[c] = "ACTIVE" /\ conversation'[c] = "ABORTED" /\ place[c] = s
      /\ \A c \in Conversation : intervention'[c] # intervention[c] =>
            intervention[c] = Waiting /\ intervention'[c] = "closed"
      /\ conversation' # conversation => Free(r, Scanned(s))
  BY <1>3 DEF InSession, IsOpen
<1>7. /\ \A u \in Session \ {s} : session'[u] = session[u]
      /\ session' = session
         \/ \A c \in Conversation : place[c] = s => conversation'[c] # "ACTIVE"
  BY <1>3, Parts DEF TalkTypes, InSession
<1>8. Lasting
  BY <1>2, <1>6 DEF Lasting
<1>9. TalksKnown'
  BY <1>2, <1>6, Parts DEF Settled, TalksKnown, Waiting
<1>10. OneOpenPerBehavior'
  BY <1>2, <1>6, Parts DEF Settled, OneOpenPerBehavior, Waiting
<1>11. ActiveAfterEndIsSafety'
  <2>1. \A c \in Conversation : conversation'[c] = "ACTIVE" =>
           conversation[c] = "ACTIVE" /\ place[c] \in Session
    BY <1>6, Parts DEF Settled, TalksKnown, TalkTypes
  <2> QED
    BY <1>2, <1>7, <2>1, Parts DEF Settled, ActiveAfterEndIsSafety
<1>12. MessagesInOrder' /\ ToolsKnown' /\ NothingWithoutConsent'
  BY <1>2, Parts DEF Settled, MessagesInOrder, ToolsKnown, NothingWithoutConsent
<1>13. (\A q \in Request : InCourse(q)') /\ LocksExclusive'
  <2>1. \A d \in Conversation : Len(messages[d]) \in Nat
    BY Parts DEF TalkTypes
  <2>2. \A c \in Conversation :
           conversation'[c] # conversation[c] => Free(r, {<<"conversation", c>>})
    BY <1>6 DEF Free, Scanned, InSession
  <2>3. \A u \in Session : session'[u] # session[u] => <<"session", u>> \in locks[r]
    BY <1>1, <1>7 DEF s
  <2> QED
    BY <1>1, <1>2, <1>8, <2>1, <2>2, <2>3, FinishCourse, Parts DEF Settled, TypeOK
<1> QED
  BY <1>4, <1>5, <1>9, <1>10, <1>11, <1>12, <1>13 DEF IInv, TypeOK

LEMMA NextStep ==
    ASSUME IInv, [Next]_vars
    PROVE  IInv'
<1>1. CASE UNCHANGED vars
  <2>1. Quiet /\ UNCHANGED requestVars
    BY <1>1, Parts DEF vars, Quiet, TalkTypes
  <2>2. TalkTypes' /\ Settled'
    BY <2>1, QuietRows, Parts
  <2>3. RequestTypes' /\ LocksExclusive'
    BY <2>1, Parts DEF Quiet, rowVars, requestVars, RequestTypes, LocksExclusive
  <2>4. \A q \in Request : InCourse(q)'
    BY <2>1, QuietCourse, Parts DEF TypeOK, requestVars
  <2> QED BY <2>2, <2>3, <2>4 DEF IInv, Settled, TypeOK
<1>2. CASE CoolDown
  BY <1>2, CoolDownStep
<1>3. ASSUME NEW r \in Request, NEW kind \in Kind,
             NEW row \in Event \cup Conversation \cup Tool \cup Session,
             Begin(r, kind, row)
      PROVE  IInv'
  BY <1>3, BeginStep
<1>4. ASSUME NEW r \in Request, Lock(r) \/ Fail(r) \/ Finish(r)
      PROVE  IInv'
  BY <1>4, LockStep, RejectStep, PlanStep, InterveneStep, AskStep, AnswerStep,
     DecideStep, RespondStep, StartConversationStep, EndSessionStep DEF Fail, Finish
<1> QED BY <1>1, <1>2, <1>3, <1>4 DEF Next

\* The inductive invariant holds whatever requests race each other.
THEOREM AgentInvariance == Spec => []IInv
<1>1. Init => IInv
  BY InitInv
<1>2. IInv /\ [Next]_vars => IInv'
  BY NextStep
<1> QED BY <1>1, <1>2, PTL DEF Spec

\* Plans of two events of one behaviour race, each asking the language model:
\* within the cooldown the driver is warned once, for any number of requests.
THEOREM WarnedOnce == Spec => []OneOpenPerBehavior
<1>1. IInv => OneOpenPerBehavior
  BY DEF IInv
<1> QED BY <1>1, AgentInvariance, PTL

\* Messages take their numbers from snapshots: what is stored still has the
\* numbers 1, 2, 3 and so on, in the order of the commits.
THEOREM NumberedInOrder == Spec => []MessagesInOrder
<1>1. IInv => MessagesInOrder
  BY DEF IInv
<1> QED BY <1>1, AgentInvariance, PTL

\* Which requests write tools, messages and sensitivities.
LEMMA Writers ==
    ASSUME [Next]_vars
    PROVE  \/ UNCHANGED <<messages, tool, sensitivity>>
           \/ \E r \in Request :
                 Intervene(r) \/ Answer(r) \/ Decide(r) \/ Respond(r)
<1> USE DEF rowVars, talkVars
<1>1. CASE UNCHANGED vars \/ CoolDown
  BY <1>1 DEF vars, CoolDown
<1>2. ASSUME NEW r \in Request, NEW kind, NEW row, Begin(r, kind, row)
      PROVE  UNCHANGED <<messages, tool, sensitivity>>
  BY <1>2 DEF Begin
<1>3. ASSUME NEW r \in Request, Lock(r) \/ Fail(r)
      PROVE  UNCHANGED <<messages, tool, sensitivity>>
  BY <1>3 DEF Lock, Fail, Reject
<1>4. ASSUME NEW r \in Request,
             Plan(r) \/ Ask(r) \/ StartConversation(r) \/ EndSession(r)
      PROVE  UNCHANGED <<messages, tool, sensitivity>>
  BY <1>4 DEF Plan, Ask, StartConversation, EndSession, Reject
<1> QED BY <1>1, <1>2, <1>3, <1>4 DEF Next, Finish

\* Of two decisions on a tool the first is final, and no tool that needs the
\* driver's consent runs without it, whatever the language model proposes.
THEOREM ConsentFirst == Spec => ConsentIsFinal
<1>1. ASSUME IInv, [Next]_vars, IInv'
      PROVE  /\ NothingWithoutConsent'
             /\ \A t \in Tool :
                   tool[t].confirmation \in {"ACCEPTED", "REJECTED", "NOT_REQUIRED"} =>
                      tool'[t] = tool[t]
  <2>1. NothingWithoutConsent'
    BY <1>1 DEF IInv
  <2> SUFFICES ASSUME NEW t \in Tool,
                      tool[t].confirmation \in {"ACCEPTED", "REJECTED", "NOT_REQUIRED"}
               PROVE  tool'[t] = tool[t]
    BY <2>1
  <2>2. tool \in [Tool -> ToolRow] /\ tool[t] # NoTool
    BY <1>1, Parts DEF RequestTypes, NoTool
  <2>3. CASE tool' = tool
    BY <2>3
  <2>4. ASSUME NEW r \in Request, Answer(r)
        PROVE  tool'[t] = tool[t]
    BY <2>2, <2>4 DEF Answer
  <2>5. ASSUME NEW r \in Request, Decide(r)
        PROVE  tool'[t] = tool[t]
    <3>1. CASE ~AwaitsDecision(r)
      BY <2>5, <3>1 DEF Decide
    <3>2. CASE AwaitsDecision(r)
      <4>1. op[r].row \in Tool /\ tool[op[r].row].confirmation = "PENDING"
        BY <1>1, <2>5, <3>2, WhatIsRead DEF Decide, Doing, AwaitsDecision
      <4>2. t # op[r].row
        BY <4>1
      <4> QED BY <2>2, <2>5, <4>2 DEF Decide
    <3> QED BY <3>1, <3>2
  <2>6. ASSUME NEW r \in Request, Intervene(r) \/ Respond(r)
        PROVE  tool' = tool
    BY <2>6 DEF Intervene, Respond
  <2> QED BY <1>1, <2>3, <2>4, <2>5, <2>6, Writers
<1> QED BY <1>1, AgentInvariance, PTL DEF Spec, ConsentIsFinal

\* Nothing is stored any more in a conversation the end of a session aborted,
\* and only interventions are left to talk about.
THEOREM SilenceAfterEnd == Spec => NothingAfterEnd
<1>1. ASSUME IInv, [Next]_vars, IInv'
      PROVE  /\ ActiveAfterEndIsSafety'
             /\ \A c \in Conversation :
                   conversation[c] = "ABORTED" => messages'[c] = messages[c]
  <2>1. ActiveAfterEndIsSafety'
    BY <1>1 DEF IInv
  <2> SUFFICES ASSUME NEW c \in Conversation, conversation[c] = "ABORTED"
               PROVE  messages'[c] = messages[c]
    BY <2>1
  <2>2. messages \in [Conversation -> Seq(Nat)]
    BY <1>1, Parts DEF TalkTypes
  <2>3. CASE messages' = messages
    BY <2>3
  <2>4. ASSUME NEW r \in Request, Answer(r)
        PROVE  messages'[c] = messages[c]
    <3>1. op[r].kind = "send" /\ phase[r] = "asking"
      BY <2>4 DEF Answer
    <3>2. conversation[op[r].row] = "ACTIVE" /\ op[r].row \in Conversation
      BY <1>1, <3>1, WhatIsRead, Parts DEF InCourse, ReadsHold, IsActive
    <3>3. c # op[r].row
      BY <3>2
    <3> QED BY <2>2, <2>4, <3>3 DEF Answer
  <2>5. ASSUME NEW r \in Request, Intervene(r)
        PROVE  messages'[c] = messages[c]
    BY <2>2, <2>5 DEF Intervene
  <2>6. ASSUME NEW r \in Request, Decide(r) \/ Respond(r)
        PROVE  messages' = messages
    BY <2>6 DEF Decide, Respond, talkVars
  <2> QED BY <1>1, <2>3, <2>4, <2>5, <2>6, Writers
<1> QED BY <1>1, AgentInvariance, PTL DEF Spec, NothingAfterEnd

\* Responses write the whole map of sensitivities back, and none loses what
\* another has written: one behaviour moves, by one.
THEOREM OneStepEach == Spec => OneStepPerResponse
<1>1. ASSUME IInv, [Next]_vars, NEW a \in Behavior, NEW b \in Behavior,
             sensitivity'[a] # sensitivity[a], sensitivity'[b] # sensitivity[b]
      PROVE  a = b /\ sensitivity'[a] - sensitivity[a] \in {-1, 1}
  <2>1. \A r \in Request :
           Intervene(r) \/ Answer(r) \/ Decide(r) => sensitivity' = sensitivity
    BY DEF Intervene, Answer, Decide
  <2> QED BY <1>1, <2>1, Writers, RespondStep
<1>2. IInv /\ [Next]_vars =>
         [\A a, b \in Behavior :
             sensitivity'[a] # sensitivity[a] /\ sensitivity'[b] # sensitivity[b] =>
                a = b /\ sensitivity'[a] - sensitivity[a] \in {-1, 1}]_vars
  BY <1>1
<1> QED BY <1>2, AgentInvariance, PTL DEF Spec, OneStepPerResponse
=============================================================================
