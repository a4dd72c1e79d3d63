----------------------- MODULE ProfileSessionsProofs ------------------------
(***************************************************************************)
(* Proofs about ProfileSessions, for any number of requests, profiles and  *)
(* sessions and any limit.  What a request has locked stays as it was when *)
(* it was locked, although its snapshot may be older: the properties that  *)
(* hold rest on what is read under the lock, and on the one constraint.    *)
(***************************************************************************)
EXTENDS ProfileSessions, FiniteSetTheorems, TLAPS

LEMMA CountsAreNumbers ==
    /\ IsFiniteSet(Kept) /\ Cardinality(Kept) \in Nat
    /\ IsFiniteSet(MayCreate) /\ Cardinality(MayCreate) \in Nat
    /\ Cardinality(MayCreate) <= Cardinality(Request)
    /\ Cardinality(Request) \in Nat
<1>1. Kept \subseteq Profile /\ MayCreate \subseteq Request
  BY DEF Kept, MayCreate
<1> QED
  BY <1>1, RowsAssumption, FS_Subset, FS_CardinalityType

LEMMA PrimedCounts ==
    /\ IsFiniteSet(Kept') /\ Cardinality(Kept') \in Nat
    /\ IsFiniteSet(MayCreate') /\ Cardinality(MayCreate') \in Nat
    /\ Cardinality(MayCreate') <= Cardinality(Request)
<1>1. Kept' \subseteq Profile /\ MayCreate' \subseteq Request
  BY DEF Kept, MayCreate
<1> QED
  BY <1>1, RowsAssumption, FS_Subset, FS_CardinalityType

\* Fewer profiles and fewer creates under way make no more excess.
LEMMA ExcessShrinks ==
    ASSUME ExcessIsConcurrent, Kept' \subseteq Kept, MayCreate' \subseteq MayCreate
    PROVE  ExcessIsConcurrent'
<1>1. Cardinality(Kept') <= Cardinality(Kept)
  BY CountsAreNumbers, FS_Subset
<1>2. Cardinality(MayCreate') <= Cardinality(MayCreate)
  BY CountsAreNumbers, FS_Subset
<1> QED
  BY <1>1, <1>2, CountsAreNumbers, PrimedCounts, NumbersAssumption
  DEF ExcessIsConcurrent

LEMMA RestTypes ==
    ASSUME RequestTypes, NEW r \in Request, Rest(r)
    PROVE  RequestTypes'
<1>1. NothingSeen \in Seen
  BY NumbersAssumption DEF NothingSeen, Seen, Sensitivity
<1>2. NoOp \in Op
  BY DEF NoOp, Op
<1>3. "idle" \in Phase
  BY DEF Phase
<1> QED
  BY <1>1, <1>2, <1>3 DEF Rest, RequestTypes

LEMMA RestMayCreate ==
    ASSUME RequestTypes, NEW r \in Request, Rest(r)
    PROVE  MayCreate' = MayCreate \ {r}
  BY DEF Rest, RequestTypes, MayCreate, NoOp

\* A request that ends leaves the others as they are, if it changed no row
\* that one of them holds.
LEMMA RestCourses ==
    ASSUME TypeOK, Courses, NEW r \in Request, Rest(r),
           \A p \in Profile : profile[p] # "absent" => profile'[p] # "absent",
           \A s \in Session : session[s] # "absent" =>
              session'[s] # "absent" /\ owner'[s] = owner[s],
           \A q \in Request \ {r} :
              /\ \A p \in Profile \cap locks[q] :
                    profile'[p] = profile[p] /\ sensitivity'[p] = sensitivity[p]
              /\ \A s \in Session \cap locks[q] : session'[s] = session[s]
    PROVE  Courses'
<1> SUFFICES ASSUME NEW q \in Request
             PROVE  OpIsOnItsTable(q)' /\ LocksOfPhase(q)' /\ HeldRows(q)'
  BY DEF Courses
<1>1. CASE q = r
  BY <1>1 DEF Rest, TypeOK, RequestTypes, OpIsOnItsTable, LocksOfPhase,
     HeldRows, NoOp, ProfileKind, SessionKind
<1>2. CASE q # r
  <2>1. /\ phase'[q] = phase[q] /\ op'[q] = op[q]
        /\ seen'[q] = seen[q] /\ locks'[q] = locks[q]
    BY <1>2 DEF Rest, TypeOK, RequestTypes
  <2>2. OpIsOnItsTable(q)'
    BY <2>1 DEF Courses, OpIsOnItsTable
  <2>3. LocksOfPhase(q)'
    BY <2>1 DEF Courses, LocksOfPhase, OpIsOnItsTable
  <2>4. HeldRows(q)'
    BY <1>2, <2>1 DEF Courses, HeldRows, Rest, TypeOK, RequestTypes
  <2> QED BY <2>2, <2>3, <2>4
<1> QED BY <1>1, <1>2

\* What a step that changes no row of these tables leaves true.
LEMMA RowsKept ==
    ASSUME IInv, UNCHANGED <<profile, session, owner, endedBy, talking>>
    PROVE  /\ OwnersAndEnds' /\ AtMostOneActive' /\ SessionHasProfile'
           /\ NoTalkAfterEnd'
           /\ Kept' = Kept
  BY DEF IInv, OwnersAndEnds, AtMostOneActive, SessionHasProfile,
     NoTalkAfterEnd, Active, Kept

LEMMA RestStep ==
    ASSUME IInv, NEW r \in Request, Rest(r), RowTypes',
           UNCHANGED <<profile, session, owner, endedBy, talking>>,
           \A q \in Request \ {r} : \A p \in Profile \cap locks[q] :
              sensitivity'[p] = sensitivity[p]
    PROVE  IInv'
<1>1. TypeOK'
  BY RestTypes DEF IInv, TypeOK
<1>2. Courses'
  BY RestCourses DEF IInv
<1>3. ExcessIsConcurrent'
  <2>1. MayCreate' \subseteq MayCreate
    BY RestMayCreate DEF IInv, TypeOK
  <2> QED BY <2>1, RowsKept, ExcessShrinks DEF IInv
<1> QED BY <1>1, <1>2, <1>3, RowsKept DEF IInv

LEMMA RejectStep ==
    ASSUME IInv, NEW r \in Request, Reject(r)
    PROVE  IInv'
<1>1. RowTypes'
  BY DEF IInv, TypeOK, RowTypes, Reject, rowVars
<1> QED
  BY <1>1, RestStep DEF Reject, rowVars

LEMMA InitInv == Init => IInv
<1> SUFFICES ASSUME Init PROVE IInv
  OBVIOUS
<1>1. TypeOK
  <2>1. NothingSeen \in Seen /\ NoOp \in Op /\ "idle" \in Phase /\ Low \in Sensitivity
    BY NumbersAssumption DEF NothingSeen, Seen, Sensitivity, NoOp, Op, Phase
  <2> QED BY <2>1 DEF Init, TypeOK, RowTypes, RequestTypes
<1>2. Courses
  BY DEF Init, Courses, OpIsOnItsTable, LocksOfPhase, HeldRows, NoOp,
     ProfileKind, SessionKind
<1>3. ExcessIsConcurrent
  <2>1. Kept = {} /\ MayCreate = {}
    BY DEF Init, Kept, MayCreate, NoOp
  <2>2. Cardinality(Kept) = 0 /\ Cardinality(MayCreate) = 0
    BY <2>1, FS_EmptySet
  <2> QED BY <2>2, CountsAreNumbers, NumbersAssumption DEF ExcessIsConcurrent
<1>4. OwnersAndEnds /\ AtMostOneActive /\ SessionHasProfile /\ NoTalkAfterEnd
  BY DEF Init, OwnersAndEnds, AtMostOneActive, SessionHasProfile,
     NoTalkAfterEnd, Active
<1> QED BY <1>1, <1>2, <1>3, <1>4 DEF IInv

-----------------------------------------------------------------------------
(* Before a request has its locks.                                         *)

\* A request that begins: its snapshot bounds what it may add.
LEMMA BeginStep ==
    ASSUME IInv, NEW r \in Request, NEW kind, NEW row,
           Begin(r, kind, row),
           \/ kind = "create" /\ row = Account
           \/ kind \in ProfileKind /\ row \in Profile /\ profile[row] # "absent"
           \/ kind \in SessionKind /\ row \in Session /\ session[row] # "absent"
    PROVE  IInv'
<1>1. [kind |-> kind, row |-> row] \in Op
  BY DEF Op
<1>2. Snapshot(kind, row) \in Seen
  <2>1. Low \in Sensitivity
    BY NumbersAssumption DEF Sensitivity
  <2>2. kind = "tune" => sensitivity[row] \in Sensitivity
    BY DEF IInv, TypeOK, RowTypes, ProfileKind, SessionKind
  <2> QED BY <2>1, <2>2, CountsAreNumbers DEF Snapshot, Seen
<1>3. TypeOK'
  <2>1. RequestTypes'
    BY <1>1, <1>2 DEF IInv, TypeOK, RequestTypes, Begin, Phase
  <2>2. RowTypes'
    BY DEF IInv, TypeOK, RowTypes, Begin, rowVars
  <2> QED BY <2>1, <2>2 DEF TypeOK
<1>4. Courses'
  <2> SUFFICES ASSUME NEW q \in Request
               PROVE  OpIsOnItsTable(q)' /\ LocksOfPhase(q)' /\ HeldRows(q)'
    BY DEF Courses
  <2>1. CASE q = r
    <3>1. locks[r] = {} /\ locks'[r] = {}
      BY DEF IInv, Courses, LocksOfPhase, Begin
    <3>2. phase'[r] = "begun" /\ op'[r] = [kind |-> kind, row |-> row]
      BY DEF IInv, TypeOK, RequestTypes, Begin
    <3>3. op'[r].kind # "none"
      BY <3>2 DEF ProfileKind, SessionKind
    <3> QED
      BY <2>1, <3>1, <3>2, <3>3 DEF OpIsOnItsTable, LocksOfPhase, HeldRows,
         Begin, rowVars, ProfileKind, SessionKind
  <2>2. CASE q # r
    <3>1. /\ phase'[q] = phase[q] /\ op'[q] = op[q] /\ seen'[q] = seen[q]
          /\ locks' = locks
      BY <2>2 DEF IInv, TypeOK, RequestTypes, Begin
    <3> QED
      BY <3>1 DEF IInv, Courses, OpIsOnItsTable, LocksOfPhase, HeldRows,
         Begin, rowVars
  <2> QED BY <2>1, <2>2
<1>5. ExcessIsConcurrent'
  <2>1. Kept' = Kept
    BY DEF Kept, Begin, rowVars
  <2>2. CASE kind # "create" \/ Cardinality(Kept) >= Limit
    <3>1. r \notin MayCreate'
      BY <2>2 DEF MayCreate, Begin, IInv, TypeOK, RequestTypes, Snapshot
    <3>2. MayCreate' \subseteq MayCreate
      BY <3>1 DEF MayCreate, Begin, IInv, TypeOK, RequestTypes
    <3> QED BY <2>1, <3>2, ExcessShrinks DEF IInv
  <2>3. CASE ~(Cardinality(Kept) >= Limit)
    BY <2>1, <2>3, CountsAreNumbers, PrimedCounts, NumbersAssumption
    DEF ExcessIsConcurrent
  <2> QED BY <2>2, <2>3
<1> QED
  BY <1>3, <1>4, <1>5, RowsKept DEF IInv, Begin, rowVars

LEMMA LockStep ==
    ASSUME IInv, NEW r \in Request, Lock(r)
    PROVE  IInv'
<1>0. /\ op[r].kind \in {"create"} \cup ProfileKind \cup SessionKind
      /\ op[r].kind = "create" => op[r].row = Account
      /\ op[r].kind \in ProfileKind =>
            op[r].row \in Profile /\ profile[op[r].row] = "kept"
      /\ op[r].kind \in SessionKind =>
            op[r].row \in Session /\ session[op[r].row] \in {"ACTIVE", "ended"}
  <2>1. op[r].kind # "none" /\ OpIsOnItsTable(r) /\ ~Gone(op[r].row)
    BY DEF IInv, Courses, OpIsOnItsTable, Lock
  <2>2. op[r].kind \in {"none", "create"} \cup ProfileKind \cup SessionKind
    BY DEF IInv, TypeOK, RequestTypes, Op
  <2> QED
    BY <2>1, <2>2 DEF IInv, TypeOK, RowTypes, OpIsOnItsTable, Gone
<1>1. op[r].row \in Profile \cup Session \cup {Account}
  BY <1>0
<1>2. /\ op' = op
      /\ \A q \in Request \ {r} :
            phase'[q] = phase[q] /\ seen'[q] = seen[q] /\ locks'[q] = locks[q]
  BY DEF IInv, TypeOK, RequestTypes, Lock
<1>3. /\ locks'[r] = {op[r].row}
      /\ phase'[r] = IF op[r].kind \in SessionKind THEN "joining" ELSE "locked"
      /\ seen'[r].count = seen[r].count
      /\ op[r].kind \in SessionKind => seen'[r].status = session[op[r].row]
      /\ op[r].kind = "tune" => seen'[r].reread = sensitivity[op[r].row]
  BY DEF IInv, TypeOK, RequestTypes, Lock, LockedRead, Reread, WithForUpdate, Seen
<1>4. TypeOK'
  <2>1. seen' \in [Request -> Seen]
    <3>1. /\ op[r].kind \in SessionKind => op[r].row \in Session
          /\ op[r].kind = "tune" => op[r].row \in Profile
      BY <1>0 DEF ProfileKind
    <3>2. LockedRead(r) \in Seen
      BY <3>1 DEF IInv, TypeOK, RequestTypes, RowTypes, LockedRead, Reread, Seen
    <3> QED
      BY <3>2 DEF IInv, TypeOK, RequestTypes, Lock
  <2>2. RequestTypes'
    BY <1>1, <2>1 DEF IInv, TypeOK, RequestTypes, Lock, WithForUpdate, Phase
  <2> QED BY <2>2 DEF IInv, TypeOK, RowTypes, Lock, rowVars
<1>5. Courses'
  <2> SUFFICES ASSUME NEW q \in Request
               PROVE  OpIsOnItsTable(q)' /\ LocksOfPhase(q)' /\ HeldRows(q)'
    BY DEF Courses
  <2>1. \A x \in Request \ {r} : locks[x] \cap locks'[r] = {}
    BY <1>3 DEF Lock, Free, WithForUpdate
  <2>2. OpIsOnItsTable(q)'
    BY <1>2, <1>3 DEF IInv, Courses, OpIsOnItsTable, Lock, rowVars, NoOp
  <2>3. LocksOfPhase(q)'
    <3>1. CASE q = r
      BY <1>0, <1>2, <1>3, <3>1 DEF LocksOfPhase
    <3>2. CASE q # r
      BY <1>2, <3>2 DEF IInv, Courses, LocksOfPhase, Lock, rowVars
    <3> QED BY <3>1, <3>2
  <2>4. CASE q = r
    <3>1. \A p \in Profile \cap locks'[r] :
             /\ profile[p] = "kept"
             /\ op[r].kind = "tune" => sensitivity[p] = seen'[r].reread
      BY <1>0, <1>3, RowsAssumption
    <3>2. \A s \in Session \cap locks'[r] :
             /\ op[r].kind \in SessionKind
             /\ session[s] \in {"ACTIVE", "ended"}
             /\ session[s] = seen'[r].status
      BY <1>0, <1>3, RowsAssumption
    <3>3. \A x \in Request : x # r => locks'[x] \cap locks'[r] = {}
      BY <1>2, <2>1
    <3>4. HeldRows(r)'
      BY <1>2, <3>1, <3>2, <3>3 DEF HeldRows, Lock, rowVars
    <3> QED BY <2>2, <2>3, <2>4, <3>4
  <2>5. CASE q # r
    <3>1. \A x \in Request \ {q} : locks'[x] \cap locks'[q] = {}
      BY <1>2, <2>1, <2>5 DEF IInv, Courses, HeldRows
    <3>2. profile' = profile /\ session' = session /\ sensitivity' = sensitivity
      BY DEF Lock, rowVars
    <3>3. HeldRows(q) /\ locks'[q] = locks[q] /\ seen'[q] = seen[q]
      BY <1>2, <2>5 DEF IInv, Courses
    <3>4. HeldRows(q)'
      BY <1>2, <3>1, <3>2, <3>3 DEF HeldRows
    <3> QED BY <2>2, <2>3, <3>4
  <2> QED BY <2>4, <2>5
<1>6. ExcessIsConcurrent'
  <2>1. MayCreate' \subseteq MayCreate
    BY <1>2, <1>3 DEF MayCreate
  <2> QED BY <2>1, RowsKept, ExcessShrinks DEF IInv, Lock, rowVars
<1> QED
  BY <1>4, <1>5, <1>6, RowsKept DEF IInv, Lock, rowVars

LEMMA LockOwnerStep ==
    ASSUME IInv, NEW r \in Request, LockOwner(r)
    PROVE  IInv'
<1> DEFINE s == op[r].row
<1>1. /\ op[r].kind \in SessionKind /\ s \in Session /\ locks[r] = {s}
      /\ session[s] \in {"ACTIVE", "ended"}
  BY DEF IInv, Courses, OpIsOnItsTable, LocksOfPhase, HeldRows, LockOwner
<1>2. owner[s] \in Profile /\ profile[owner[s]] = "kept"
  BY <1>1 DEF IInv, TypeOK, RowTypes, OwnersAndEnds, SessionHasProfile
<1>3. /\ op' = op /\ seen' = seen
      /\ \A q \in Request \ {r} : phase'[q] = phase[q] /\ locks'[q] = locks[q]
      /\ phase'[r] = "locked" /\ locks'[r] = {s, owner[s]}
  BY <1>1 DEF IInv, TypeOK, RequestTypes, LockOwner, WithForUpdate
<1>4. TypeOK'
  <2>1. RequestTypes'
    BY <1>1, <1>2, <1>3 DEF IInv, TypeOK, RequestTypes, LockOwner,
       WithForUpdate, Phase
  <2> QED BY <2>1 DEF IInv, TypeOK, RowTypes, LockOwner, rowVars
<1>5. Courses'
  <2> SUFFICES ASSUME NEW q \in Request
               PROVE  OpIsOnItsTable(q)' /\ LocksOfPhase(q)' /\ HeldRows(q)'
    BY DEF Courses
  <2>1. \A x \in Request \ {r} : locks[x] \cap locks'[r] = {}
    BY <1>1, <1>3 DEF IInv, Courses, HeldRows, LockOwner, Free, WithForUpdate
  <2>2. OpIsOnItsTable(q)'
    BY <1>3 DEF IInv, Courses, OpIsOnItsTable, LockOwner, rowVars
  <2>3. LocksOfPhase(q)'
    BY <1>1, <1>3 DEF IInv, Courses, LocksOfPhase, LockOwner, rowVars
  <2>4. CASE q = r
    <3>1. \A p \in Profile \cap locks'[r] : profile[p] = "kept"
      BY <1>1, <1>2, <1>3, RowsAssumption
    <3>2. \A t \in Session \cap locks'[r] :
             session[t] \in {"ACTIVE", "ended"} /\ session[t] = seen[r].status
      BY <1>1, <1>2, <1>3, RowsAssumption DEF IInv, Courses, HeldRows
    <3>3. op[r].kind # "tune"
      BY <1>1 DEF SessionKind
    <3> QED
      BY <1>3, <2>1, <2>2, <2>3, <2>4, <3>1, <3>2, <3>3 DEF HeldRows, LockOwner, rowVars
  <2>5. CASE q # r
    <3>1. \A x \in Request \ {q} : locks'[x] \cap locks'[q] = {}
      BY <1>3, <2>1, <2>5 DEF IInv, Courses, HeldRows
    <3>2. profile' = profile /\ session' = session /\ sensitivity' = sensitivity
      BY DEF LockOwner, rowVars
    <3>3. HeldRows(q) /\ locks'[q] = locks[q] /\ seen'[q] = seen[q]
      BY <1>3, <2>5 DEF IInv, Courses
    <3>4. HeldRows(q)'
      BY <1>3, <3>1, <3>2, <3>3 DEF HeldRows
    <3> QED BY <2>2, <2>3, <3>4
  <2> QED BY <2>4, <2>5
<1>6. ExcessIsConcurrent'
  <2>1. MayCreate' = MayCreate
    BY <1>3 DEF MayCreate
  <2> QED BY <2>1, RowsKept, ExcessShrinks DEF IInv, LockOwner, rowVars
<1> QED
  BY <1>4, <1>5, <1>6, RowsKept DEF IInv, LockOwner, rowVars

-----------------------------------------------------------------------------
(* The end of a request, under its locks.                                  *)

LEMMA CreateProfileStep ==
    ASSUME IInv, NEW r \in Request, CreateProfile(r)
    PROVE  IInv'
<1>1. CASE AtLimit(r) /\ Reject(r)
  BY <1>1, RejectStep
<1>2. CASE ~(AtLimit(r) /\ Reject(r))
  <2>1. PICK p \in Profile, value \in Sensitivity :
           /\ profile[p] = "absent"
           /\ profile' = [profile EXCEPT ![p] = "kept"]
           /\ sensitivity' = [sensitivity EXCEPT ![p] = value]
           /\ files' = files \cup {p}
    BY <1>2 DEF CreateProfile
  <2>2. /\ ~(seen[r].count >= Limit) /\ op[r].kind = "create" /\ Rest(r)
        /\ UNCHANGED <<session, owner, endedBy, talking>>
    BY <1>2 DEF CreateProfile, AtLimit, Doing
  <2>3. TypeOK'
    BY <2>1, <2>2, RestTypes DEF IInv, TypeOK, RowTypes
  <2>4. Courses'
    <3>1. \A q \in Request : \A x \in Profile \cap locks[q] :
             profile'[x] = profile[x] /\ sensitivity'[x] = sensitivity[x]
      BY <2>1 DEF IInv, Courses, HeldRows, TypeOK, RowTypes
    <3>2. \A x \in Profile : profile[x] # "absent" => profile'[x] # "absent"
      BY <2>1 DEF IInv, TypeOK, RowTypes
    <3> QED BY <2>2, <3>1, <3>2, RestCourses DEF IInv
  <2>5. ExcessIsConcurrent'
    <3>1. Kept' = Kept \cup {p} /\ p \notin Kept
      BY <2>1 DEF Kept, IInv, TypeOK, RowTypes
    <3>2. MayCreate' = MayCreate \ {r} /\ r \in MayCreate
      BY <2>2, RestMayCreate DEF IInv, TypeOK, MayCreate
    <3>3. Cardinality(Kept') = Cardinality(Kept) + 1
      BY <3>1, CountsAreNumbers, FS_AddElement
    <3>4. Cardinality(MayCreate') = Cardinality(MayCreate) - 1
      BY <3>2, CountsAreNumbers, FS_RemoveElement
    <3> QED
      BY <3>3, <3>4, CountsAreNumbers, NumbersAssumption
      DEF IInv, ExcessIsConcurrent
  <2>6. OwnersAndEnds' /\ AtMostOneActive' /\ NoTalkAfterEnd'
    BY <2>2 DEF IInv, OwnersAndEnds, AtMostOneActive, NoTalkAfterEnd, Active
  <2>7. SessionHasProfile'
    BY <2>1, <2>2, RowsAssumption
    DEF IInv, TypeOK, RowTypes, OwnersAndEnds, SessionHasProfile
  <2> QED BY <2>3, <2>4, <2>5, <2>6, <2>7 DEF IInv
<1> QED BY <1>1, <1>2

\* Who sets a sensitivity has locked the profile, and nobody else has.
LEMMA HasItsProfile ==
    ASSUME IInv, NEW r \in Request, phase[r] = "locked",
           op[r].kind \in {"update", "tune"}
    PROVE  /\ op[r].row \in Profile /\ op[r].row \in locks[r]
           /\ op[r].kind = "tune" => sensitivity[op[r].row] = seen[r].reread
           /\ \A q \in Request \ {r} : op[r].row \notin locks[q]
<1>1. op[r].row \in Profile /\ op[r].row \in locks[r]
  BY DEF IInv, Courses, OpIsOnItsTable, LocksOfPhase, ProfileKind, SessionKind
<1> QED BY <1>1 DEF IInv, Courses, HeldRows

LEMMA SetSensitivityStep ==
    ASSUME IInv, NEW r \in Request, NEW value \in Sensitivity,
           phase[r] = "locked", op[r].kind \in {"update", "tune"},
           SetSensitivity(r, value)
    PROVE  IInv'
<1>1. RowTypes'
  BY DEF IInv, TypeOK, RowTypes, SetSensitivity
<1>2. \A q \in Request \ {r} : \A p \in Profile \cap locks[q] :
         sensitivity'[p] = sensitivity[p]
  BY HasItsProfile DEF IInv, TypeOK, RowTypes, SetSensitivity
<1> QED
  BY <1>1, <1>2, RestStep DEF SetSensitivity

LEMMA SizeIsNatural ==
    ASSUME NEW d \in Int
    PROVE  /\ Size(d) \in Nat
           /\ d # 0 => Size(d) > 0
  BY DEF Size

\* The smoothed value is in the range of the settings.
LEMMA SmoothedInRange ==
    ASSUME NEW current \in Sensitivity, NEW recommended \in Sensitivity
    PROVE  Smoothed(current, recommended) \in Sensitivity
<1> DEFINE d == recommended - current
           rounded == (3 * Size(d) + 5) \div 10
           delta == IF rounded = 0 THEN 1 ELSE rounded
           next == IF d > 0 THEN current + delta ELSE current - delta
<1>1. current \in Int /\ recommended \in Int /\ d \in Int
  BY NumbersAssumption DEF Sensitivity
<1>2. rounded \in Int
  BY <1>1, SizeIsNatural
<1>3. next \in Int
  BY <1>1, <1>2
<1>4. Smoothed(current, recommended) =
         IF d = 0 THEN current
         ELSE IF next > High THEN High ELSE IF next < Low THEN Low ELSE next
  BY DEF Smoothed
<1> HIDE DEF d, next
<1> QED
  BY <1>1, <1>3, <1>4, NumbersAssumption DEF Sensitivity

LEMMA TuneProfileStep ==
    ASSUME IInv, NEW r \in Request, TuneProfile(r)
    PROVE  IInv'
<1>1. CASE Reject(r)
  BY <1>1, RejectStep
<1>2. CASE ~Reject(r)
  <2>1. PICK recommended \in Sensitivity :
           /\ SetSensitivity(r, Smoothed(seen[r].value, recommended))
           /\ phase[r] = "locked" /\ op[r].kind = "tune"
    BY <1>2 DEF TuneProfile, Doing
  <2>2. seen[r].value \in Sensitivity
    BY DEF IInv, TypeOK, RequestTypes, Seen
  <2> QED BY <2>1, <2>2, SmoothedInRange, SetSensitivityStep
<1> QED BY <1>1, <1>2

LEMMA DeleteFilesStep ==
    ASSUME IInv, NEW r \in Request, DeleteFiles(r)
    PROVE  IInv'
<1>1. CASE Reject(r)
  BY <1>1, RejectStep
<1>2. CASE ~Reject(r) /\ Rest(r)
  <2>1. RowTypes'
    BY <1>2 DEF IInv, TypeOK, RowTypes, DeleteFiles
  <2> QED BY <1>2, <2>1, RestStep DEF DeleteFiles
<1>3. CASE ~Reject(r) /\ ~Rest(r)
  <2>1. /\ phase' = [phase EXCEPT ![r] = "emptied"]
        /\ UNCHANGED <<op, seen, locks>>
        /\ files' = files \ {op[r].row}
        /\ UNCHANGED <<profile, sensitivity, session, owner, endedBy, talking>>
        /\ phase[r] = "locked" /\ op[r].kind = "delete"
    BY <1>3 DEF DeleteFiles, Doing
  <2>2. TypeOK'
    BY <2>1 DEF IInv, TypeOK, RowTypes, RequestTypes, Phase
  <2>3. Courses'
    <3> SUFFICES ASSUME NEW q \in Request
                 PROVE  OpIsOnItsTable(q)' /\ LocksOfPhase(q)' /\ HeldRows(q)'
      BY DEF Courses
    <3>1. HeldRows(q)'
      BY <2>1 DEF IInv, Courses, HeldRows
    <3>2. CASE q = r
      BY <2>1, <3>1, <3>2 DEF IInv, TypeOK, RequestTypes, Courses,
         OpIsOnItsTable, LocksOfPhase, ProfileKind, SessionKind
    <3>3. CASE q # r
      <4>1. phase'[q] = phase[q]
        BY <2>1, <3>3 DEF IInv, TypeOK, RequestTypes
      <4> QED
        BY <2>1, <3>1, <4>1 DEF IInv, Courses, OpIsOnItsTable, LocksOfPhase
    <3> QED BY <3>2, <3>3
  <2>4. ExcessIsConcurrent'
    <3>1. MayCreate' = MayCreate
      BY <2>1 DEF MayCreate
    <3> QED BY <2>1, <3>1, RowsKept, ExcessShrinks DEF IInv
  <2> QED BY <2>1, <2>2, <2>3, <2>4, RowsKept DEF IInv
<1> QED BY <1>1, <1>2, <1>3

LEMMA DeleteProfileStep ==
    ASSUME IInv, NEW r \in Request, DeleteProfile(r)
    PROVE  IInv'
<1> DEFINE p == op[r].row
           its == SessionsOf(p)
<1>1. /\ p \in Profile /\ locks[r] = {p}
  BY DEF IInv, Courses, OpIsOnItsTable, LocksOfPhase, DeleteProfile,
     ProfileKind
<1>2. /\ Free(r, its) /\ Rest(r)
      /\ profile' = [profile EXCEPT ![p] = "deleted"]
      /\ session' = [s \in Session |->
                        IF s \in its THEN "deleted" ELSE session[s]]
      /\ talking' = talking \ its
      /\ UNCHANGED <<sensitivity, files, owner, endedBy>>
  BY DEF DeleteProfile
<1>3. TypeOK'
  BY <1>1, <1>2, RestTypes DEF IInv, TypeOK, RowTypes
<1>4. Courses'
  <2>1. \A x \in Profile : profile[x] # "absent" => profile'[x] # "absent"
    BY <1>1, <1>2 DEF IInv, TypeOK, RowTypes
  <2>2. \A s \in Session : session[s] # "absent" =>
           session'[s] # "absent" /\ owner'[s] = owner[s]
    BY <1>2
  <2>3. \A q \in Request \ {r} : p \notin locks[q] /\ locks[q] \cap its = {}
    BY <1>1, <1>2 DEF IInv, Courses, HeldRows, Free
  <2>4. \A q \in Request \ {r} :
           /\ \A x \in Profile \cap locks[q] :
                 profile'[x] = profile[x] /\ sensitivity'[x] = sensitivity[x]
           /\ \A s \in Session \cap locks[q] : session'[s] = session[s]
    BY <1>1, <1>2, <2>3 DEF IInv, TypeOK, RowTypes
  <2> QED BY <1>2, <2>1, <2>2, <2>4, RestCourses DEF IInv
<1>5. ExcessIsConcurrent'
  <2>1. Kept' \subseteq Kept
    BY <1>1, <1>2 DEF Kept, IInv, TypeOK, RowTypes
  <2>2. MayCreate' \subseteq MayCreate
    BY <1>2, RestMayCreate DEF IInv, TypeOK
  <2> QED BY <2>1, <2>2, ExcessShrinks DEF IInv
<1>6. OwnersAndEnds'
  BY <1>2 DEF IInv, OwnersAndEnds, SessionsOf
<1>7. \A s \in Session : session'[s] # "deleted" =>
         session'[s] = session[s] /\ s \notin its
  BY <1>2
<1>8. AtMostOneActive'
  BY <1>2, <1>7 DEF IInv, AtMostOneActive, Active
<1>9. NoTalkAfterEnd'
  BY <1>2 DEF IInv, NoTalkAfterEnd, Active
<1>10. SessionHasProfile'
  <2> SUFFICES ASSUME NEW s \in Session, session'[s] \in {"ACTIVE", "ended"}
               PROVE  profile'[owner[s]] = "kept"
    BY <1>2 DEF SessionHasProfile
  <2>1. session[s] \in {"ACTIVE", "ended"} /\ owner[s] # p
    BY <1>7 DEF SessionsOf
  <2>2. profile[owner[s]] = "kept" /\ owner[s] \in Profile
    BY <2>1 DEF IInv, SessionHasProfile, OwnersAndEnds, TypeOK, RowTypes
  <2> QED BY <1>2, <2>1, <2>2 DEF IInv, TypeOK, RowTypes
<1> QED BY <1>3, <1>4, <1>5, <1>6, <1>8, <1>9, <1>10 DEF IInv

LEMMA StartSessionStep ==
    ASSUME IInv, NEW r \in Request, StartSession(r)
    PROVE  IInv'
<1>1. CASE Reject(r)
  BY <1>1, RejectStep
<1>2. CASE ~Reject(r)
  <2> DEFINE p == op[r].row
  <2>1. PICK s \in Session : /\ session[s] = "absent"
                             /\ session' = [session EXCEPT ![s] = "ACTIVE"]
                             /\ owner' = [owner EXCEPT ![s] = p]
    BY <1>2 DEF StartSession
  <2>2. /\ phase[r] = "locked" /\ op[r].kind = "start" /\ MayBeActive(p) /\ Rest(r)
        /\ UNCHANGED <<profile, sensitivity, files, endedBy, talking>>
    BY <1>2 DEF StartSession, Doing
  <2>3. p \in Profile /\ profile[p] = "kept"
    <3>1. p \in Profile /\ p \in locks[r]
      BY <2>2 DEF IInv, Courses, OpIsOnItsTable, LocksOfPhase, ProfileKind,
         SessionKind
    <3> QED BY <3>1 DEF IInv, Courses, HeldRows
  <2>4. TypeOK'
    BY <2>1, <2>2, <2>3, RestTypes DEF IInv, TypeOK, RowTypes
  <2>5. Courses'
    <3>1. \A t \in Session : session[t] # "absent" =>
             session'[t] # "absent" /\ owner'[t] = owner[t]
      BY <2>1 DEF IInv, TypeOK, RowTypes
    <3>2. \A q \in Request : \A t \in Session \cap locks[q] : session'[t] = session[t]
      BY <2>1 DEF IInv, Courses, HeldRows, TypeOK, RowTypes
    <3> QED BY <2>2, <3>1, <3>2, RestCourses DEF IInv
  <2>6. ExcessIsConcurrent'
    <3>1. Kept' = Kept
      BY <2>2 DEF Kept
    <3>2. MayCreate' \subseteq MayCreate
      BY <2>2, RestMayCreate DEF IInv, TypeOK
    <3> QED BY <3>1, <3>2, ExcessShrinks DEF IInv
  <2>7. OwnersAndEnds'
    <3>1. s \in Session /\ p # None /\ endedBy[s] = None
      BY <2>1, <2>3, RowsAssumption DEF IInv, OwnersAndEnds
    <3> QED
      BY <2>1, <2>2, <3>1 DEF IInv, OwnersAndEnds, TypeOK, RowTypes
  <2>8. AtMostOneActive'
    <3>1. \A t \in Active : owner[t] # p /\ owner'[t] = owner[t]
      BY <2>1, <2>2 DEF MayBeActive, ActiveOf, Active, IInv, TypeOK, RowTypes
    <3>2. Active' = Active \cup {s} /\ owner'[s] = p
      BY <2>1 DEF Active, IInv, TypeOK, RowTypes
    <3> QED BY <3>1, <3>2 DEF IInv, AtMostOneActive
  <2>9. SessionHasProfile'
    BY <2>1, <2>2, <2>3 DEF IInv, SessionHasProfile, TypeOK, RowTypes
  <2>10. NoTalkAfterEnd'
    BY <2>1, <2>2 DEF IInv, NoTalkAfterEnd, Active, TypeOK, RowTypes
  <2> QED BY <2>4, <2>5, <2>6, <2>7, <2>8, <2>9, <2>10 DEF IInv
<1> QED BY <1>1, <1>2

\* What a locking read of a session returned is still so under the lock.
LEMMA ReadIsCurrent ==
    ASSUME IInv, NEW r \in Request, phase[r] = "locked",
           op[r].kind \in SessionKind
    PROVE  /\ op[r].row \in Session
           /\ session[op[r].row] \in {"ACTIVE", "ended"}
           /\ session[op[r].row] = seen[r].status
           /\ \A q \in Request \ {r} : op[r].row \notin locks[q]
<1>1. op[r].row \in Session /\ op[r].row \in locks[r]
  BY DEF IInv, Courses, OpIsOnItsTable, LocksOfPhase
<1> QED BY <1>1 DEF IInv, Courses, HeldRows

LEMMA EndSessionStep ==
    ASSUME IInv, NEW r \in Request, EndSession(r)
    PROVE  IInv'
<1>1. CASE Reject(r)
  BY <1>1, RejectStep
<1>2. CASE ~Reject(r)
  <2> DEFINE s == op[r].row
  <2>1. /\ phase[r] = "locked" /\ op[r].kind = "end" /\ Rest(r)
        /\ session' = [session EXCEPT ![s] = "ended"]
        /\ endedBy' = [endedBy EXCEPT ![s] = r]
        /\ talking' = talking \ {s}
        /\ UNCHANGED <<profile, sensitivity, files, owner>>
    BY <1>2 DEF EndSession, Doing
  <2>2. /\ s \in Session /\ session[s] \in {"ACTIVE", "ended"}
        /\ \A q \in Request \ {r} : s \notin locks[q]
    BY <2>1, ReadIsCurrent DEF SessionKind
  <2>3. TypeOK'
    BY <2>1, <2>2, RestTypes DEF IInv, TypeOK, RowTypes
  <2>4. Courses'
    <3>1. \A t \in Session : session[t] # "absent" => session'[t] # "absent"
      BY <2>1 DEF IInv, TypeOK, RowTypes
    <3>2. \A q \in Request \ {r} :
             \A t \in Session \cap locks[q] : session'[t] = session[t]
      BY <2>1, <2>2 DEF IInv, TypeOK, RowTypes
    <3> QED BY <2>1, <3>1, <3>2, RestCourses DEF IInv
  <2>5. ExcessIsConcurrent'
    <3>1. Kept' = Kept
      BY <2>1 DEF Kept
    <3>2. MayCreate' \subseteq MayCreate
      BY <2>1, RestMayCreate DEF IInv, TypeOK
    <3> QED BY <3>1, <3>2, ExcessShrinks DEF IInv
  <2>6. OwnersAndEnds'
    BY <2>1, <2>2 DEF IInv, OwnersAndEnds, TypeOK, RowTypes
  <2>7. AtMostOneActive' /\ SessionHasProfile' /\ NoTalkAfterEnd'
    BY <2>1, <2>2 DEF IInv, AtMostOneActive, SessionHasProfile,
       NoTalkAfterEnd, Active, TypeOK, RowTypes
  <2> QED BY <2>3, <2>4, <2>5, <2>6, <2>7 DEF IInv
<1> QED BY <1>1, <1>2

LEMMA StartConversationStep ==
    ASSUME IInv, NEW r \in Request, StartConversation(r)
    PROVE  IInv'
<1>1. CASE Reject(r)
  BY <1>1, RejectStep
<1>2. CASE ~Reject(r)
  <2>1. /\ phase[r] = "locked" /\ op[r].kind = "talk" /\ Rest(r)
        /\ seen[r].status = "ACTIVE"
        /\ talking' = talking \cup {op[r].row}
        /\ UNCHANGED <<profile, sensitivity, files, session, owner, endedBy>>
    BY <1>2 DEF StartConversation, Doing, WasActive
  <2>2. op[r].row \in Active
    BY <2>1, ReadIsCurrent DEF SessionKind, Active
  <2>3. TypeOK'
    BY <2>1, <2>2, RestTypes DEF IInv, TypeOK, RowTypes, Active
  <2>4. Courses'
    BY <2>1, RestCourses DEF IInv
  <2>5. ExcessIsConcurrent'
    <3>1. Kept' = Kept
      BY <2>1 DEF Kept
    <3>2. MayCreate' \subseteq MayCreate
      BY <2>1, RestMayCreate DEF IInv, TypeOK
    <3> QED BY <3>1, <3>2, ExcessShrinks DEF IInv
  <2>6. OwnersAndEnds' /\ AtMostOneActive' /\ SessionHasProfile'
    BY <2>1 DEF IInv, OwnersAndEnds, AtMostOneActive, SessionHasProfile, Active
  <2>7. NoTalkAfterEnd'
    BY <2>1, <2>2 DEF IInv, NoTalkAfterEnd, Active
  <2> QED BY <2>3, <2>4, <2>5, <2>6, <2>7 DEF IInv
<1> QED BY <1>1, <1>2

-----------------------------------------------------------------------------
(* The theorems.                                                           *)

LEMMA RequestStep ==
    ASSUME IInv, NEW r \in Request, Step(r) \/ Fail(r)
    PROVE  IInv'
<1>1. CASE Lock(r)  BY <1>1, LockStep
<1>2. CASE LockOwner(r)  BY <1>2, LockOwnerStep
<1>3. CASE NotFound(r)  BY <1>3, RejectStep DEF NotFound, Reject
<1>4. CASE CreateProfile(r)  BY <1>4, CreateProfileStep
<1>5. CASE UpdateProfile(r)  BY <1>5, SetSensitivityStep DEF UpdateProfile, Doing
<1>6. CASE TuneProfile(r)  BY <1>6, TuneProfileStep
<1>7. CASE DeleteFiles(r)  BY <1>7, DeleteFilesStep
<1>8. CASE DeleteProfile(r)  BY <1>8, DeleteProfileStep
<1>9. CASE StartSession(r)  BY <1>9, StartSessionStep
<1>10. CASE EndSession(r)  BY <1>10, EndSessionStep
<1>11. CASE StartConversation(r)  BY <1>11, StartConversationStep
<1>12. CASE Fail(r)  BY <1>12, RejectStep DEF Fail
<1> QED
  BY <1>1, <1>2, <1>3, <1>4, <1>5, <1>6, <1>7, <1>8, <1>9, <1>10, <1>11, <1>12
  DEF Step, Finish

LEMMA NextStep == IInv /\ [Next]_vars => IInv'
<1> SUFFICES ASSUME IInv, [Next]_vars PROVE IInv'
  OBVIOUS
<1>1. CASE UNCHANGED vars
  BY <1>1 DEF vars, rowVars, requestVars, IInv, TypeOK, RowTypes, RequestTypes,
     Courses, OpIsOnItsTable, LocksOfPhase, HeldRows, OwnersAndEnds,
     ExcessIsConcurrent, Kept, MayCreate, AtMostOneActive, SessionHasProfile,
     NoTalkAfterEnd, Active
<1>2. CASE Next
  <2>1. PICK r \in Request :
           \/ BeginCreate(r)
           \/ \E kind \in ProfileKind, p \in Profile : BeginOnProfile(r, kind, p)
           \/ \E kind \in SessionKind, s \in Session : BeginOnSession(r, kind, s)
           \/ Step(r)
           \/ Fail(r)
    BY <1>2 DEF Next
  <2>2. CASE BeginCreate(r)
    BY <2>2, BeginStep DEF BeginCreate
  <2>3. ASSUME NEW kind \in ProfileKind, NEW p \in Profile,
               BeginOnProfile(r, kind, p)
        PROVE  IInv'
    BY <2>3, BeginStep DEF BeginOnProfile
  <2>4. ASSUME NEW kind \in SessionKind, NEW s \in Session,
               BeginOnSession(r, kind, s)
        PROVE  IInv'
    BY <2>4, BeginStep DEF BeginOnSession
  <2> QED BY <2>1, <2>2, <2>3, <2>4, RequestStep
<1> QED BY <1>1, <1>2

\* The inductive invariant of the requests' transactions, their types first.
THEOREM ProfilesInvariance == Spec => []IInv
<1>1. Init => IInv
  BY InitInv
<1>2. IInv /\ [Next]_vars => IInv'
  BY NextStep
<1> QED BY <1>1, <1>2, PTL DEF Spec

\* However the requests interleave, a profile has one active session, no
\* session outlives its profile, no conversation the end of its session.
THEOREM SessionsAreSound == Spec => []SoundSessions
<1>1. IInv => SoundSessions
  BY DEF IInv, SoundSessions
<1> QED BY <1>1, ProfilesInvariance, PTL

\* The count of an old snapshot lets in no more creates than were under way.
THEOREM LimitExcess == Spec => []ExcessIsConcurrent
<1>1. IInv => ExcessIsConcurrent
  BY DEF IInv
<1> QED BY <1>1, ProfilesInvariance, PTL

\* Only the first end of a session records itself, and only a session that is
\* absent starts: what a session was ended with is final.
LEMMA EndedOnceStep ==
    ASSUME IInv, Next, NEW s \in Session, endedBy[s] # None
    PROVE  endedBy'[s] = endedBy[s] /\ session'[s] \in {session[s], "deleted"}
<1>1. session[s] \in {"ended", "deleted"}
  BY DEF IInv, OwnersAndEnds
<1>2. PICK r \in Request :
         \/ BeginCreate(r)
         \/ \E kind \in ProfileKind, p \in Profile : BeginOnProfile(r, kind, p)
         \/ \E kind \in SessionKind, t \in Session : BeginOnSession(r, kind, t)
         \/ Step(r)
         \/ Fail(r)
  BY DEF Next
<1>3. CASE UNCHANGED <<session, endedBy>>
  BY <1>3
<1>4. CASE EndSession(r) /\ ~Reject(r)
  <2>1. /\ session' = [session EXCEPT ![op[r].row] = "ended"]
        /\ endedBy' = [endedBy EXCEPT ![op[r].row] = r]
        /\ session[op[r].row] = "ACTIVE"
    BY <1>4, ReadIsCurrent DEF EndSession, Doing, WasActive, SessionKind
  <2>2. op[r].row # s
    BY <2>1, <1>1
  <2> QED BY <2>1, <2>2 DEF IInv, TypeOK, RowTypes
<1>5. CASE StartSession(r) /\ ~Reject(r)
  BY <1>1, <1>5 DEF StartSession, IInv, TypeOK, RowTypes
<1>6. CASE DeleteProfile(r)
  BY <1>6 DEF DeleteProfile, IInv, TypeOK, RowTypes
<1> QED
  BY <1>2, <1>3, <1>4, <1>5, <1>6
  DEF BeginCreate, BeginOnProfile, BeginOnSession, Begin, Step, Finish, Lock,
      LockOwner, NotFound, Fail, Reject, CreateProfile, UpdateProfile,
      TuneProfile, SetSensitivity, DeleteFiles, StartConversation, EndSession,
      StartSession, rowVars

\* Whoever asks again to end a session: the first end is the one recorded.
THEOREM EndsAreFinal == Spec => EndedOnce
<1> DEFINE Once ==
      \A s \in Session :
         endedBy[s] # None =>
            endedBy'[s] = endedBy[s] /\ session'[s] \in {session[s], "deleted"}
<1>1. IInv /\ [Next]_vars => [Once]_vars
  BY EndedOnceStep
<1> QED BY <1>1, ProfilesInvariance, PTL DEF Spec, EndedOnce

\* Only the request whose phase changes writes.  That the comparison of what
\* it read, before and under the lock, says something of the row as it is now
\* is HeldRows: nobody has written the row since it was locked.
LEMMA TunedStep ==
    ASSUME IInv, Next, NEW r \in Request, op[r].kind = "tune",
           sensitivity' # sensitivity, phase'[r] # phase[r]
    PROVE  sensitivity[op[r].row] = seen[r].value
<1>1. PICK q \in Request :
         \/ BeginCreate(q)
         \/ \E kind \in ProfileKind, p \in Profile : BeginOnProfile(q, kind, p)
         \/ \E kind \in SessionKind, s \in Session : BeginOnSession(q, kind, s)
         \/ Step(q)
         \/ Fail(q)
  BY DEF Next
<1>2. CreateProfile(q) \/ UpdateProfile(q) \/ (TuneProfile(q) /\ ~Reject(q))
  BY <1>1
  DEF BeginCreate, BeginOnProfile, BeginOnSession, Begin, Step, Finish, Lock,
      LockOwner, NotFound, Fail, Reject, DeleteFiles, DeleteProfile,
      StartConversation, EndSession, StartSession, rowVars
<1>3. phase' = [phase EXCEPT ![q] = "idle"]
  BY <1>2 DEF CreateProfile, UpdateProfile, TuneProfile, SetSensitivity, Reject, Rest
<1>4. q = r
  BY <1>3 DEF IInv, TypeOK, RequestTypes
<1>5. TuneProfile(r) /\ ~Reject(r)
  BY <1>2, <1>4 DEF CreateProfile, UpdateProfile, Doing
<1>6. seen[r].reread = seen[r].value /\ phase[r] = "locked"
  BY <1>5 DEF TuneProfile, Doing
<1> QED BY <1>6, HasItsProfile

\* A recommendation replaces only the value it was computed from, whoever set
\* the sensitivity by hand meanwhile (update_behavior_warning_sensitivity_from_drive_summary).
THEOREM TunesWhatItRead == Spec => TunedFromCurrent
<1> DEFINE Tuned ==
      \A r \in Request :
         op[r].kind = "tune" /\ sensitivity' # sensitivity /\ phase'[r] # phase[r] =>
            sensitivity[op[r].row] = seen[r].value
<1>1. IInv /\ [Next]_vars => [Tuned]_vars
  BY TunedStep
<1> QED BY <1>1, ProfilesInvariance, PTL DEF Spec, TunedFromCurrent

-----------------------------------------------------------------------------
(* Waiting.  Requests that have begun hold nothing, those that have all     *)
(* their locks want nothing: a wait is for a request that joins or deletes, *)
(* and these two wait for one another only in a cycle of two.               *)

LEMMA WaitsEndHolds == IInv => WaitsEnd
<1> SUFFICES ASSUME IInv, NEW r \in Request, phase[r] # "idle",
                    \A q \in Request : phase[q] # "idle" =>
                       /\ ~Free(q, Wants(q))
                       /\ \A s \in Request : ~Deadlocked(q, s)
             PROVE  FALSE
  BY DEF WaitsEnd
<1>1. \A q \in Request : phase[q] # "locked"
  <2> SUFFICES ASSUME NEW q \in Request, phase[q] = "locked" PROVE FALSE
    OBVIOUS
  <2>1. Wants(q) = {}
    BY DEF Wants
  <2> QED BY <2>1 DEF Free
<1>2. \A q \in Request : phase[q] = "joining" =>
        locks[q] = {op[q].row} /\ op[q].row \in Session /\ owner[op[q].row] \in Profile
  BY RowsAssumption
  DEF IInv, Courses, OpIsOnItsTable, LocksOfPhase, OwnersAndEnds, TypeOK, RowTypes
<1>3. \A q \in Request : phase[q] = "emptied" =>
        locks[q] = {op[q].row} /\ op[q].row \in Profile
  BY DEF IInv, Courses, OpIsOnItsTable, LocksOfPhase, ProfileKind
<1>4. \A q \in Request : locks[q] # {} => phase[q] \in {"joining", "emptied"}
  BY <1>1 DEF IInv, Courses, LocksOfPhase, TypeOK, RequestTypes, Phase
<1>5. \A q \in Request : phase[q] # "joining"
  <2> SUFFICES ASSUME NEW q \in Request, phase[q] = "joining" PROVE FALSE
    OBVIOUS
  <2>1. Wants(q) = {owner[op[q].row]}
    BY DEF Wants
  <2>2. PICK s \in Request : owner[op[q].row] \in locks[s]
    BY <2>1 DEF Free
  <2>3. phase[s] = "emptied"
    BY <1>2, <1>4, <2>2, RowsAssumption
  <2> QED BY <1>3, <2>2, <2>3 DEF Deadlocked
<1>6. \A q \in Request : phase[q] # "emptied"
  <2> SUFFICES ASSUME NEW q \in Request, phase[q] = "emptied" PROVE FALSE
    OBVIOUS
  <2>1. Wants(q) \subseteq Session
    BY DEF Wants, SessionsOf
  <2>2. PICK s \in Request : locks[s] \cap Session # {}
    BY <2>1 DEF Free
  <2> QED BY <1>3, <1>4, <1>5, <2>2, RowsAssumption
<1> QED BY <1>4, <1>5, <1>6 DEF Free

\* However many requests wait for the rows of an account, one of them goes on,
\* or two wait for one another and the database rolls one back: the locks of
\* delete_profile and of the requests on sessions make no longer cycle.
THEOREM NoLongCycle == Spec => []WaitsEnd
  BY WaitsEndHolds, ProfilesInvariance, PTL
=============================================================================
