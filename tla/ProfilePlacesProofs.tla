------------------------ MODULE ProfilePlacesProofs ------------------------
(***************************************************************************)
(* Proofs about ProfilePlaces, for any number of requests and places.  What *)
(* a request reads in its snapshot may be behind what is stored, but only  *)
(* by what requests wrote that were answered after the snapshot was taken, *)
(* and those overlap it.                                                   *)
(***************************************************************************)
EXTENDS ProfilePlaces, FiniteSetTheorems, SequenceTheorems,
        TLAPS

Row == [type : Type, pid : {d.pid : d \in Data}, lat : Latitude, lon : Longitude]

UnderWay == {"begun", "joining", "locked", "stored"}

\* The place that is sent, as it is stored.
LEMMA SentRow ==
    ASSUME NEW type \in Type, NEW d \in Data
    PROVE  LET row == WithData([Absent EXCEPT !.type = type], d)
           IN  /\ row = [type |-> type, pid |-> d.pid, lat |-> d.lat, lon |-> d.lon]
               /\ Valid(d) => row \in Row
<1> DEFINE row == WithData([Absent EXCEPT !.type = type], d)
<1>1. DOMAIN d = {"pid", "lat", "lon"}
  BY PlacesAssumption
<1>2. row = [type |-> type, pid |-> d.pid, lat |-> d.lat, lon |-> d.lon]
  <2> DEFINE typed == [Absent EXCEPT !.type = type]
  <2>1. typed = [type |-> type, pid |-> None, lat |-> 0, lon |-> 0]
    BY DEF Absent
  <2>2. row = [typed EXCEPT !.pid = d.pid, !.lat = d.lat, !.lon = d.lon]
    BY Zenon DEF WithData
  <2> HIDE DEF typed, row
  <2> DEFINE one == [typed EXCEPT !.pid = d.pid]
             two == [one EXCEPT !.lat = d.lat]
  <2>3. one = [type |-> type, pid |-> d.pid, lat |-> 0, lon |-> 0]
    BY <2>1
  <2>4. row = [two EXCEPT !.lon = d.lon]
    BY <2>2
  <2> HIDE DEF one
  <2>5. two = [type |-> type, pid |-> d.pid, lat |-> d.lat, lon |-> 0]
    BY <2>3
  <2> HIDE DEF two
  <2> QED BY <2>4, <2>5
<1>3. Valid(d) => row \in Row
  BY <1>1, <1>2 DEF Valid, Row
<1> QED BY <1>2, <1>3

\* A partial update leaves a place on the map, of its type.
LEMMA MergedRow ==
    ASSUME NEW row \in Row, NEW read, NEW data \in Data \cup Patch, Valid(data)
    PROVE  LET new == Merged(row, read, data)
           IN  /\ new \in Row /\ new.type = row.type
               /\ data \in Patch => new.pid = row.pid
<1> DEFINE new == Merged(row, read, data)
<1>1. DOMAIN row = {"type", "pid", "lat", "lon"}
  BY DEF Row
<1>2. /\ new.type = row.type
      /\ new.pid \in {d.pid : d \in Data} /\ (data \in Patch => new.pid = row.pid)
      /\ new.lat \in Latitude /\ new.lon \in Longitude
  BY <1>1, PlacesAssumption DEF Merged, Valid, Row
<1>3. new = [type |-> new.type, pid |-> new.pid, lat |-> new.lat, lon |-> new.lon]
  BY <1>1 DEF Merged
<1> QED BY <1>2, <1>3 DEF Row

LEMMA StoredRow ==
    ASSUME NEW rows \in Rows, NEW p \in Place
    PROVE  /\ rows[p] # Absent <=> rows[p] \in Row
           /\ rows[p] # Absent <=> rows[p].type # None
           /\ rows[p].type \in Type \cup {None}
  BY PlacesAssumption DEF Rows, Row, Absent

\* Two requests that overlap have overlapped for good.
LEMMA OverlapLasts ==
    ASSUME TypeOK, before' = before,
           \A s \in Request : phase[s] # "idle" => phase'[s] # "idle"
    PROVE  \A r, s \in Request : Overlap(r, s) => Overlap(r, s)'
  BY DEF Overlap

\* A request under way overlaps every request that is answered after its
\* snapshot was taken.
LEMMA OverlapsLater ==
    ASSUME NEW r \in Request, SnapshotBehind(r), phase[r] \in UnderWay,
           NEW s \in Request, SnapshotBehind(s),
           phase[s] = "done", s \notin before[r]
    PROVE  Overlap(r, s)
  BY DEF Overlap, SnapshotBehind, UnderWay

\* What is no longer as the snapshot of a request under way has it was
\* written by a request that overlaps it.
LEMMA ChangedByOther ==
    ASSUME TypeOK, \A s \in Request : SnapshotBehind(s), profile,
           NEW r \in Request, phase[r] \in UnderWay,
           NEW p \in Place, places[p] # seen[r][p]
    PROVE  writer[p] \in Request /\ Overlap(r, writer[p])
<1>1. /\ writer[p] \in Request /\ writer[p] \notin before[r]
      /\ phase[writer[p]] = "done"
  BY DEF SnapshotBehind, UnderWay
<1> QED BY <1>1, OverlapsLater

-----------------------------------------------------------------------------

LEMMA InitIInv == Init => IInv
<1> SUFFICES ASSUME Init PROVE IInv
  OBVIOUS
<1>1. TypeOK
  BY PlacesAssumption DEF Init, TypeOK
<1>2. Bookkeeping /\ NothingOutlivesProfile /\ DropAfter
  BY FS_EmptySet DEF Init, Bookkeeping, NothingOutlivesProfile, DropAfter
<1>3. Unique(places) /\ TwinsOverlapped /\ FailuresOverlapped
  BY ExistingAssumption DEF Init, TwinsOverlapped, FailuresOverlapped
<1>4. ASSUME NEW r \in Request PROVE OpKnown(r) /\ Held(r) /\ SnapshotBehind(r)
  BY DEF Init, OpKnown, Held, SnapshotBehind, Holding, Others
<1> QED BY <1>1, <1>2, <1>3, <1>4 DEF IInv

-----------------------------------------------------------------------------
(* What the steps of a request have in common.                             *)

\* The request that begins reads what there is.
LEMMA BeginStep ==
    ASSUME IInv, NEW r \in Request, Begin(r)
    PROVE  IInv'
<1> USE DEF Begin
<1>1. PICK o \in Kinds({p \in Place : Known(p)}) :
        LET bad == \/ o.kind \in {"upsert", "favorite"} /\ ~Valid(o.data)
                   \/ o.kind = "update" /\ DOMAIN o.patch = {}
        IN /\ op' = [op EXCEPT ![r] = o]
           /\ phase' = [phase EXCEPT ![r] = IF bad THEN "done" ELSE "begun"]
           /\ result' = [result EXCEPT ![r] = IF bad THEN "invalid" ELSE "none"]
  BY Zenon
<1>2. o \in Kinds(Place)
  BY DEF Kinds
<1>3. TypeOK'
  BY <1>1 DEF IInv, TypeOK, db
<1>4. Bookkeeping'
  BY <1>1, <1>2 DEF IInv, Bookkeeping, db
<1>5. /\ phase[r] = "idle" /\ phase'[r] \in {"begun", "done"} /\ op'[r] = o
      /\ seen'[r] = places /\ before'[r] = {s \in Request : phase[s] = "done"}
      /\ hadProfile'[r] = profile /\ locks'[r] = {}
      /\ phase'[r] = "begun" /\ o.kind \in {"upsert", "favorite"} => Valid(o.data)
      /\ result'[r] = "invalid" /\ o.kind = "upsert" => ~Valid(o.data)
      /\ result'[r] \in {"invalid", "none"}
  BY <1>1 DEF IInv, TypeOK, Bookkeeping
<1>6. \A q \in Others(r) :
        /\ phase'[q] = phase[q] /\ op'[q] = op[q] /\ seen'[q] = seen[q]
        /\ hadProfile'[q] = hadProfile[q] /\ before'[q] = before[q]
        /\ result'[q] = result[q]
  BY <1>1 DEF IInv, TypeOK, Bookkeeping, Others
<1>7. /\ profile' = profile /\ places' = places /\ searches' = searches
      /\ writer' = writer /\ locks' = locks
  BY DEF db
<1> HIDE DEF Begin
<1>8. ASSUME NEW q \in Request
      PROVE  OpKnown(q)' /\ Held(q)' /\ SnapshotBehind(q)'
  <2>1. OpKnown(q)'
    BY <1>2, <1>5, <1>6 DEF IInv, OpKnown, LocksPlace, LocksProfile, Others
  <2>2. Held(q)'
    BY <1>5, <1>6, <1>7 DEF IInv, Held, Holding, LocksPlace, Known, Others
  <2>3. SnapshotBehind(q)'
    <3>1. \A s \in Request : phase[s] = "done" => phase'[s] = "done"
      BY <1>5, <1>6 DEF Others
    <3>2. CASE q = r
      BY <1>5, <1>7, <3>1, <3>2 DEF SnapshotBehind, Known
    <3>3. CASE q # r
      <4>1. /\ phase'[q] = phase[q] /\ before'[q] = before[q] /\ seen'[q] = seen[q]
            /\ SnapshotBehind(q)
        BY <1>6, <3>3 DEF IInv, Others
      <4> QED BY <1>7, <3>1, <4>1 DEF SnapshotBehind, Known
    <3> QED BY <3>2, <3>3
  <2> QED BY <2>1, <2>2, <2>3
<1>9. DropAfter'
  BY <1>5, <1>6, <1>7 DEF IInv, DropAfter, Others
<1>10. \A q, s \in Request : Overlap(q, s) => Overlap(q, s)'
  BY <1>5, <1>6 DEF Overlap, Others
<1>11. TwinsOverlapped'
  BY <1>7, <1>10 DEF IInv, TwinsOverlapped
<1>12. FailuresOverlapped'
  BY <1>5, <1>6, <1>10 DEF IInv, FailuresOverlapped, Others
<1>13. Unique(places)' /\ NothingOutlivesProfile'
  BY <1>7 DEF IInv, NothingOutlivesProfile, Known
<1> QED BY <1>3, <1>4, <1>8, <1>9, <1>11, <1>12, <1>13 DEF IInv

\* A request that gets a lock: nothing else holds the row, which is there.
LEMMA LockStep ==
    ASSUME IInv, NEW r \in Request, phase[r] \in {"begun", "joining"},
           NEW row \in Place \cup {Profile}, Free(r, row), profile,
           locks' = [locks EXCEPT ![r] = @ \cup {row}],
           NEW next \in {"joining", "locked"}, phase' = [phase EXCEPT ![r] = next],
           next = "joining" => LocksPlace(r),
           next = "locked" => row = Profile /\ (LocksProfile(r) \/ LocksPlace(r)),
           LocksPlace(r) => /\ op[r].place \in locks[r] \cup {row}
                            /\ Known(op[r].place),
           UNCHANGED <<db, op, seen, hadProfile, result, before>>
    PROVE  IInv'
<1>1. /\ profile' = profile /\ places' = places /\ searches' = searches
      /\ writer' = writer /\ op' = op /\ seen' = seen /\ before' = before
      /\ hadProfile' = hadProfile /\ result' = result
  BY DEF db
<1>2. TypeOK' /\ Bookkeeping'
  BY <1>1 DEF IInv, TypeOK, Bookkeeping
<1>3. /\ phase'[r] = next /\ locks'[r] = locks[r] \cup {row}
      /\ \A q \in Others(r) : phase'[q] = phase[q] /\ locks'[q] = locks[q]
  BY DEF IInv, TypeOK, Bookkeeping, Others
<1>4. ASSUME NEW q \in Request
      PROVE  OpKnown(q)' /\ Held(q)' /\ SnapshotBehind(q)'
  <2>1. OpKnown(q)'
    <3>1. OpKnown(q) /\ OpKnown(r) /\ (q = r \/ q \in Others(r))
      BY DEF IInv, Others
    <3>2. CASE q = r
      <4>1. op'[r] \in Kinds(Place)
        BY <1>1, <3>1 DEF OpKnown
      <4>2. op'[r].kind \in {"upsert", "favorite"} => Valid(op'[r].data)
        BY <1>1, <3>1 DEF OpKnown, LocksPlace
      <4> QED BY <1>1, <1>3, <3>2, <4>1, <4>2 DEF OpKnown, LocksPlace, LocksProfile
    <3>3. CASE q \in Others(r)
      BY <1>1, <1>3, <3>1, <3>3 DEF OpKnown, LocksPlace, LocksProfile
    <3> QED BY <3>1, <3>2, <3>3
  <2>2. Held(q)'
    <3>1. Held(q) /\ Held(r)
      BY DEF IInv
    <3>2. CASE q = r
      <4>1. \A s \in Others(r) : locks'[r] \cap locks'[s] = {}
        BY <1>3, <3>1 DEF Held, Free
      <4> QED BY <1>1, <1>3, <3>1, <3>2, <4>1 DEF Held, Holding, LocksPlace, Known, Others
    <3>3. CASE q # r
      <4>1. \A s \in Others(q) : locks'[q] \cap locks'[s] = {}
        BY <1>3, <3>1, <3>3 DEF Held, Free, Others
      <4> QED BY <1>1, <1>3, <3>1, <3>3, <4>1 DEF Held, Holding, LocksPlace, Known, Others
    <3> QED BY <3>2, <3>3
  <2>3. SnapshotBehind(q)'
    BY <1>1, <1>3 DEF IInv, TypeOK, SnapshotBehind, Known, Others
  <2> QED BY <2>1, <2>2, <2>3
<1>5. DropAfter'
  BY <1>1, <1>3 DEF IInv, DropAfter, Others
<1>6. \A q, s \in Request : Overlap(q, s) => Overlap(q, s)'
  BY <1>1, <1>3, OverlapLasts DEF IInv, Others
<1>7. TwinsOverlapped' /\ FailuresOverlapped'
  BY <1>1, <1>6 DEF IInv, TwinsOverlapped, FailuresOverlapped
<1>8. Unique(places)' /\ NothingOutlivesProfile'
  BY <1>1 DEF IInv, NothingOutlivesProfile, Known
<1> QED BY <1>2, <1>4, <1>5, <1>7, <1>8 DEF IInv

\* A request that is answered, whatever it has written: a place it wrote has
\* its name on it, and what other requests hold is as they found it.
LEMMA AnswerStep ==
    ASSUME IInv, NEW r \in Request, phase[r] \in UnderWay, NEW a, Answer(r, a),
           TypeOK', IsFiniteSet(searches'), profile' => profile,
           profile' => \A p \in Place :
              \/ writer'[p] = r
              \/ writer'[p] = writer[p] /\ places'[p] = places[p],
           \A p \in Place : places'[p] # Absent =>
              \/ \A q \in Request : seen[q][p] = Absent
              \/ places[p] # Absent /\ places'[p].type = places[p].type,
           \A q \in Others(r) : Holding(q) =>
              profile' /\ (LocksPlace(q) => places'[op[q].place] # Absent),
           \/ a = "error"
           \/ a = "invalid" /\ op[r].kind = "upsert" /\ Valid(op[r].data)
           => \E s \in Request : Overlap(r, s)
    PROVE  /\ Bookkeeping' /\ DropAfter' /\ FailuresOverlapped'
           /\ \A q \in Request : OpKnown(q)' /\ Held(q)' /\ SnapshotBehind(q)'
           /\ \A q, s \in Request : Overlap(q, s) => Overlap(q, s)'
<1>1. /\ op' = op /\ seen' = seen /\ before' = before /\ hadProfile' = hadProfile
      /\ phase' = [phase EXCEPT ![r] = "done"]
      /\ result' = [result EXCEPT ![r] = a]
      /\ locks' = [locks EXCEPT ![r] = {}]
  BY DEF Answer
<1>2. /\ phase'[r] = "done" /\ result'[r] = a /\ locks'[r] = {}
      /\ \A q \in Others(r) : /\ phase'[q] = phase[q] /\ locks'[q] = locks[q]
                              /\ result'[q] = result[q]
  BY <1>1 DEF IInv, TypeOK, Bookkeeping, Others
<1>3. Bookkeeping'
  BY <1>1 DEF IInv, Bookkeeping
<1>4. \A q, s \in Request : Overlap(q, s) => Overlap(q, s)'
  BY <1>1, <1>2, OverlapLasts DEF IInv, Others
<1>5. FailuresOverlapped'
  <2> SUFFICES ASSUME NEW q \in Request,
                      \/ result'[q] = "error"
                      \/ /\ result'[q] = "invalid" /\ op[q].kind = "upsert"
                         /\ Valid(op[q].data)
               PROVE  \E s \in Request : Overlap(q, s)
    BY <1>1, <1>4 DEF FailuresOverlapped
  <2>1. CASE q = r
    BY <1>2, <2>1
  <2>2. CASE q # r
    BY <1>2, <2>2 DEF IInv, FailuresOverlapped, Others
  <2> QED BY <2>1, <2>2
<1>6. DropAfter'
  <2>1. \A q \in Request : r \notin before[q]
    BY DEF IInv, SnapshotBehind, UnderWay
  <2>2. \A q \in Request : phase'[q] # "idle" => phase[q] # "idle"
    BY <1>2 DEF Others, UnderWay
  <2>3. \A q \in Request : phase[q] = "done" => phase'[q] = "done"
    BY <1>2 DEF Others
  <2>4. CASE profile
    BY <1>1, <1>2, <2>1, <2>4 DEF DropAfter
  <2>5. CASE ~profile
    BY <1>1, <2>2, <2>3, <2>5 DEF IInv, DropAfter
  <2> QED BY <2>4, <2>5
<1>7. ASSUME NEW q \in Request
      PROVE  OpKnown(q)' /\ Held(q)' /\ SnapshotBehind(q)'
  <2>1. OpKnown(q) /\ Held(q) /\ SnapshotBehind(q) /\ (q = r \/ q \in Others(r))
    BY DEF IInv, Others
  <2>2. OpKnown(q)'
    <3>1. CASE q = r
      BY <1>1, <1>2, <2>1, <3>1 DEF OpKnown, UnderWay
    <3>2. CASE q \in Others(r)
      BY <1>1, <1>2, <2>1, <3>2 DEF OpKnown, LocksPlace, LocksProfile
    <3> QED BY <2>1, <3>1, <3>2
  <2>3. Held(q)'
    <3>1. CASE q = r
      BY <1>2, <3>1 DEF Held, Holding
    <3>2. CASE q \in Others(r)
      <4>1. \A s \in Others(q) : locks'[q] \cap locks'[s] = {}
        BY <1>2, <2>1, <3>2 DEF Held, Others
      <4>2. (Holding(q) => profile)' /\ (phase[q] = "locked" => Profile \in locks[q])'
        BY <1>2, <2>1, <3>2 DEF Held, Holding
      <4>3. (Holding(q) /\ LocksPlace(q) =>
                op[q].place \in locks[q] /\ Known(op[q].place))'
        BY <1>1, <1>2, <2>1, <3>2 DEF Held, Holding, LocksPlace, Known
      <4> QED BY <4>1, <4>2, <4>3 DEF Held, Others
    <3> QED BY <2>1, <3>1, <3>2
  <2>4. SnapshotBehind(q)'
    <3>1. /\ \A s \in Request : phase[s] = "done" => phase'[s] = "done"
          /\ phase'[q] # "idle" => phase[q] # "idle"
          /\ r \notin before[q]
      BY <1>2, <2>1 DEF Others, UnderWay, SnapshotBehind
    <3>2. before'[q] \subseteq {s \in Request : phase'[s] = "done"}
      BY <1>1, <2>1, <3>1 DEF SnapshotBehind
    <3>3. ASSUME phase'[q] # "idle", profile', NEW p \in Place, places'[p] # seen[q][p]
          PROVE  writer'[p] \in Request \ before[q] /\ phase'[writer'[p]] = "done"
      BY <1>2, <2>1, <3>1, <3>3 DEF SnapshotBehind
    <3>4. ASSUME NEW p \in Place, places'[p] # Absent, seen[q][p] # Absent
          PROVE  places'[p].type = seen[q][p].type
      BY <2>1, <3>4 DEF SnapshotBehind, Known
    <3>5. r \in Request /\ phase'[r] = "done" /\ r \notin before'[q]
      BY <1>1, <1>2, <3>1
    <3> QED BY <1>1, <3>2, <3>3, <3>4, <3>5 DEF SnapshotBehind, Known
  <2> QED BY <2>2, <2>3, <2>4
<1> QED BY <1>3, <1>4, <1>5, <1>6, <1>7

\* A request that is refused, or finds nothing to do.
LEMMA RejectStep ==
    ASSUME IInv, NEW r \in Request, phase[r] \in UnderWay,
           NEW a \in {"ok", "missing", "duplicate", "fixed", "invalid", "error"},
           Reject(r, a),
           \/ a = "error"
           \/ a = "invalid" /\ op[r].kind = "upsert" /\ Valid(op[r].data)
           => \E s \in Request : Overlap(r, s)
    PROVE  IInv'
<1>1. /\ profile' = profile /\ places' = places /\ searches' = searches
      /\ writer' = writer /\ Answer(r, a)
  BY DEF Reject, db
<1>2. TypeOK'
  BY <1>1 DEF IInv, TypeOK, Bookkeeping, Answer
<1>3. /\ Bookkeeping' /\ DropAfter' /\ FailuresOverlapped'
      /\ \A q \in Request : OpKnown(q)' /\ Held(q)' /\ SnapshotBehind(q)'
      /\ \A q, s \in Request : Overlap(q, s) => Overlap(q, s)'
  <2>1. \A q \in Others(r) : Holding(q) =>
            profile' /\ (LocksPlace(q) => places'[op[q].place] # Absent)
    BY <1>1 DEF IInv, Held, Known, Others
  <2>2. IsFiniteSet(searches')
    BY <1>1 DEF IInv, Bookkeeping
  <2> QED BY <1>1, <1>2, <2>1, <2>2, AnswerStep
<1>4. TwinsOverlapped' /\ Unique(places)' /\ NothingOutlivesProfile'
  BY <1>1, <1>3 DEF IInv, TwinsOverlapped, NothingOutlivesProfile, Known
<1> QED BY <1>2, <1>3, <1>4 DEF IInv

\* A request that writes one place: as the constraints allow, without a twin
\* in its snapshot, and a row it deletes is held by no other request.
LEMMA WriteStep ==
    ASSUME IInv, NEW r \in Request, phase[r] = "locked",
           NEW p \in Place, NEW row \in Row \cup {Absent},
           Write(r, p, row), Answer(r, "ok"),
           row # Absent =>
              /\ \/ \A q \in Request : seen[q][p] = Absent
                 \/ Known(p) /\ places[p].type = row.type
              /\ \A q \in Place \ {p} : places[q].type = row.type =>
                    /\ row.type = "FAVORITE"
                    /\ row.pid # None => places[q].pid # row.pid
                    /\ seen[r][q].type = "FAVORITE" => ~SamePlace(row, seen[r][q]),
           row = Absent => \A q \in Others(r) :
              Holding(q) /\ LocksPlace(q) => op[q].place # p
    PROVE  IInv'
<1>1. /\ profile /\ profile' = profile /\ searches' = searches
      /\ places' = [places EXCEPT ![p] = row] /\ writer' = [writer EXCEPT ![p] = r]
  BY DEF IInv, Held, Holding, Write
<1>2. places' \in Rows
  BY <1>1 DEF IInv, TypeOK, Rows, Row
<1>3. TypeOK'
  BY <1>1, <1>2 DEF IInv, TypeOK, Bookkeeping, Answer
<1>4. /\ places'[p] = row /\ writer'[p] = r
      /\ \A q \in Place \ {p} : places'[q] = places[q] /\ writer'[q] = writer[q]
  BY <1>1 DEF IInv, TypeOK, Rows
<1>5. /\ Bookkeeping' /\ DropAfter' /\ FailuresOverlapped'
      /\ \A q \in Request : OpKnown(q)' /\ Held(q)' /\ SnapshotBehind(q)'
      /\ \A q, s \in Request : Overlap(q, s) => Overlap(q, s)'
  <2>1. \A q \in Others(r) : Holding(q) =>
            profile' /\ (LocksPlace(q) => places'[op[q].place] # Absent)
    <3> SUFFICES ASSUME NEW q \in Others(r), Holding(q), LocksPlace(q)
                 PROVE  places'[op[q].place] # Absent
      BY <1>1
    <3>1. op[q].place \in Place /\ places[op[q].place] # Absent
      <4>1. OpKnown(q) /\ Held(q) /\ phase[q] # "idle"
        BY DEF IInv, Others, Holding
      <4> QED BY <4>1 DEF OpKnown, Held, Known, Kinds, SearchKinds, LocksPlace
    <3> QED BY <1>4, <3>1
  <2>2. IsFiniteSet(searches')
    BY <1>1 DEF IInv, Bookkeeping
  <2>3. \A q \in Place : \/ writer'[q] = r
                         \/ writer'[q] = writer[q] /\ places'[q] = places[q]
    BY <1>4
  <2>4. \A q \in Place : places'[q] # Absent =>
            \/ \A s \in Request : seen[s][q] = Absent
            \/ places[q] # Absent /\ places'[q].type = places[q].type
    BY <1>4 DEF Known
  <2> QED BY <1>1, <1>3, <2>1, <2>2, <2>3, <2>4, AnswerStep DEF UnderWay
<1>6. Unique(places)'
  <2> SUFFICES ASSUME NEW x \in Place, NEW y \in Place, x # y,
                      places'[x] # Absent, places'[y].type = places'[x].type
               PROVE  /\ places'[x].type = "FAVORITE"
                      /\ places'[x].pid # None => places'[y].pid # places'[x].pid
    BY DEF Unique
  <2>1. CASE x = p
    BY <1>4, <2>1
  <2>2. CASE y = p
    <3>1. places'[y] # Absent
      BY <1>2, StoredRow, <1>2 DEF Rows, Row, Absent
    <3> QED BY <1>4, <2>2, <3>1
  <2>3. CASE x # p /\ y # p
    BY <1>4, <2>3 DEF IInv, Unique
  <2> QED BY <2>1, <2>2, <2>3
<1>7. TwinsOverlapped'
  <2> DEFINE Excused(x, y) ==
               writer'[x] \in Request /\ writer'[y] \in Request /\
               (\A s, q \in Request : s = writer'[x] /\ q = writer'[y] => Overlap(s, q))
  <2>1. ASSUME NEW q \in Place \ {p}, Twins(places', p, q)
        PROVE  Excused(p, q)
    <3>1. row # Absent /\ row.type = "FAVORITE" /\ places[q].type = "FAVORITE"
      BY <1>4, <2>1, PlacesAssumption DEF Twins, Absent, Type
    <3>2. SamePlace(row, places[q])
      BY <1>4, <2>1 DEF Twins
    <3>3. places[q] # seen[r][q]
      BY <3>1, <3>2
    <3>4. writer[q] \in Request /\ Overlap(r, writer[q])
      BY <1>1, <3>3, ChangedByOther DEF IInv, UnderWay
    <3> QED BY <1>4, <3>4
  <2>2. ASSUME NEW x \in Place, NEW y \in Place, Twins(places', x, y)
        PROVE  Excused(x, y)
    <3>1. CASE x = p
      BY <2>1, <2>2, <3>1 DEF Twins
    <3>2. CASE y = p
      <4>1. Twins(places', y, x)
        BY <2>2 DEF Twins, SamePlace
      <4>2. Excused(y, x)
        BY <2>1, <3>2, <4>1 DEF Twins
      <4> QED BY <4>2 DEF Overlap
    <3>3. CASE x # p /\ y # p
      <4>1. Twins(places, x, y)
        BY <1>4, <2>2, <3>3 DEF Twins
      <4> QED BY <1>4, <3>3, <4>1 DEF IInv, TwinsOverlapped
    <3> QED BY <3>1, <3>2, <3>3
  <2>3. ASSUME NEW x \in Place, NEW y \in Place, Twins(places, x, y)'
        PROVE  (/\ writer[x] \in Request /\ writer[y] \in Request
                /\ Overlap(writer[x], writer[y]))'
    <3>1. Twins(places', x, y)
      BY <2>3 DEF Twins
    <3> QED BY <1>5, <2>2, <3>1 DEF Overlap
  <2> QED BY <2>3 DEF TwinsOverlapped
<1> QED BY <1>1, <1>3, <1>5, <1>6, <1>7 DEF IInv, NothingOutlivesProfile

LEMMA Asked ==
    ASSUME NEW r \in Request, OpKnown(r), phase[r] # "idle"
    PROVE  /\ op[r].kind = "upsert" => op[r].type \in Fixed /\ op[r].data \in Data
           /\ op[r].kind = "favorite" => op[r].data \in Data
           /\ op[r].kind = "update" => op[r].place \in Place /\ op[r].patch \in Patch
           /\ op[r].kind = "delete" => op[r].place \in Place
           /\ op[r].kind \in {"upsert", "favorite", "update", "delete", "record",
                             "forget", "drop"}
  BY DEF OpKnown, Kinds, SearchKinds

\* An INSERT: what the unique constraints refuse is not in a snapshot that has
\* no place of the type.
LEMMA InsertStep ==
    ASSUME IInv, NEW r \in Request, phase[r] = "locked",
           NEW row \in Row, NEW refused \in {"invalid", "duplicate"},
           Insert(r, row, refused),
           row.type = "FAVORITE" => \A q \in Place :
              seen[r][q].type = "FAVORITE" => ~SamePlace(row, seen[r][q]),
           refused = "duplicate" => op[r].kind # "upsert",
           refused = "invalid" => \A q \in Place : seen[r][q].type # row.type
    PROVE  IInv'
<1>1. PICK p \in Place :
        /\ ~Known(p) /\ \A s \in Request : seen[s][p] = Absent
        /\ IF MayStore(p, row) THEN Write(r, p, row) /\ Answer(r, "ok")
           ELSE Reject(r, refused)
  BY DEF Insert
<1>2. row # Absent /\ row.type \in Type
  BY PlacesAssumption DEF Row, Absent
<1>3. CASE MayStore(p, row)
  <2>1. \A q \in Place \ {p} : places[q].type = row.type =>
          /\ row.type = "FAVORITE"
          /\ row.pid # None => places[q].pid # row.pid
          /\ seen[r][q].type = "FAVORITE" => ~SamePlace(row, seen[r][q])
    BY <1>2, <1>3 DEF MayStore, Type
  <2> QED BY <1>1, <1>2, <1>3, <2>1, WriteStep
<1>4. CASE ~MayStore(p, row)
  <2>1. ASSUME refused = "invalid" PROVE \E s \in Request : Overlap(r, s)
    <3>1. PICK q \in Place : places[q].type = row.type
      BY <1>4 DEF MayStore
    <3>2. places[q] # seen[r][q]
      BY <2>1, <3>1
    <3>3. profile
      BY DEF IInv, Held, Holding
    <3> QED BY <3>2, <3>3, ChangedByOther DEF IInv, UnderWay
  <2> QED BY <1>1, <1>4, <2>1, RejectStep DEF UnderWay
<1> QED BY <1>3, <1>4

-----------------------------------------------------------------------------
(* The steps of a request.                                                 *)

LEMMA LockingStep ==
    ASSUME IInv, NEW r \in Request, LockProfile(r) \/ LockPlace(r) \/ LockJoined(r)
    PROVE  IInv'
<1>1. OpKnown(r) /\ Held(r) /\ (phase[r] \in {"idle", "begun", "done"} => locks[r] = {})
  BY DEF IInv, TypeOK
<1>2. locks \in [Request -> SUBSET (Place \cup {Profile})]
  BY DEF IInv, Bookkeeping
<1>3. CASE LockProfile(r)
  <2>1. CASE profile
    <3>1. locks' = [locks EXCEPT ![r] = @ \cup {Profile}] /\ ~LocksPlace(r)
      BY <1>1, <1>2, <1>3, <2>1 DEF LockProfile, LocksProfile, LocksPlace
    <3> QED BY <1>3, <2>1, <3>1, LockStep DEF LockProfile
  <2>2. CASE ~profile
    BY <1>3, <2>2, RejectStep DEF LockProfile, UnderWay
  <2> QED BY <2>1, <2>2
<1>4. CASE LockPlace(r)
  <2>1. op[r].place \in Place
    BY <1>1, <1>4, Asked DEF LockPlace, LocksPlace
  <2>2. CASE Known(op[r].place)
    <3>1. locks' = [locks EXCEPT ![r] = @ \cup {op[r].place}]
      BY <1>1, <1>2, <1>4, <2>2 DEF LockPlace
    <3>2. profile
      BY <2>1, <2>2 DEF IInv, NothingOutlivesProfile
    <3> QED BY <1>4, <2>1, <2>2, <3>1, <3>2, LockStep DEF LockPlace
  <2>3. CASE ~Known(op[r].place)
    BY <1>4, <2>3, RejectStep DEF LockPlace, UnderWay
  <2> QED BY <2>2, <2>3
<1>5. CASE LockJoined(r)
  <2>1. profile /\ LocksPlace(r) /\ Known(op[r].place) /\ op[r].place \in locks[r]
    BY <1>1, <1>5 DEF LockJoined, OpKnown, Held, Holding
  <2> QED BY <1>5, <2>1, LockStep DEF LockJoined
<1> QED BY <1>3, <1>4, <1>5

LEMMA UpsertNewStep ==
    ASSUME IInv, NEW r \in Request, UpsertNew(r)
    PROVE  IInv'
<1> DEFINE row == WithData([Absent EXCEPT !.type = op[r].type], op[r].data)
<1>1. /\ op[r].type \in Fixed /\ op[r].data \in Data /\ Valid(op[r].data)
      /\ phase[r] = "locked"
  BY Asked DEF IInv, OpKnown, UpsertNew, Does
<1>2. row \in Row /\ row.type = op[r].type /\ row.type # "FAVORITE"
  <2>1. op[r].type \in Type /\ op[r].type # "FAVORITE"
    BY <1>1, PlacesAssumption DEF Type
  <2>2. /\ row \in Row
        /\ row = [type |-> op[r].type, pid |-> op[r].data.pid,
                  lat |-> op[r].data.lat, lon |-> op[r].data.lon]
    BY <1>1, <2>1, SentRow
  <2> HIDE DEF row
  <2> QED BY <2>1, <2>2
<1>3. \A q \in Place : seen[r][q].type # row.type
  BY <1>2 DEF UpsertNew, OfType
<1>4. Insert(r, row, "invalid")
  BY DEF UpsertNew
<1> HIDE DEF row
<1> QED BY <1>1, <1>2, <1>3, <1>4, InsertStep

\* The place an upsert read, which the snapshot has with its type.
LEMMA ReadPlace ==
    ASSUME IInv, NEW r \in Request, Does(r, "upsert"),
           OfType(seen[r], op[r].type) # {}
    PROVE  /\ PlaceRead(r) \in Place
           /\ op[r].type \in Fixed /\ op[r].data \in Data /\ Valid(op[r].data)
           /\ seen[r][PlaceRead(r)].type = op[r].type
           /\ seen[r][PlaceRead(r)] \in Row
           /\ profile /\ phase[r] = "locked"
<1>1. PlaceRead(r) \in OfType(seen[r], op[r].type)
  BY Zenon DEF PlaceRead
<1>2. op[r].type \in Fixed /\ op[r].data \in Data /\ Valid(op[r].data)
  BY Asked DEF IInv, OpKnown, Does
<1>3. PlaceRead(r) \in Place /\ seen[r][PlaceRead(r)].type = op[r].type
  BY <1>1 DEF OfType
<1>4. seen[r] \in Rows /\ op[r].type # None
  BY <1>2, PlacesAssumption DEF IInv, TypeOK, Type
<1>5. profile /\ phase[r] = "locked"
  BY DEF IInv, Held, Holding, Does
<1> QED BY <1>2, <1>3, <1>4, <1>5, StoredRow

LEMMA UpsertExistingStep ==
    ASSUME IInv, NEW r \in Request, UpsertExisting(r)
    PROVE  IInv'
<1> DEFINE p == PlaceRead(r)
           d == op[r].data
           row == Merged(places[p], seen[r][p], d)
<1>1. Does(r, "upsert") /\ OfType(seen[r], op[r].type) # {}
  BY DEF UpsertExisting
<1>2. /\ p \in Place /\ op[r].type \in Fixed /\ d \in Data /\ Valid(d)
      /\ seen[r][p].type = op[r].type /\ seen[r][p] \in Row
      /\ profile /\ phase[r] = "locked"
  BY <1>1, ReadPlace
<1>3. \/ Reject(r, "ok")
      \/ Known(p) /\ Write(r, p, row) /\ Answer(r, "ok")
      \/ ~Known(p) /\ Reject(r, "error")
  BY DEF UpsertExisting
<1>4. seen[r][p] # Absent
  BY <1>2, PlacesAssumption DEF Row, Absent
<1> HIDE DEF p, d
<1>5. CASE Reject(r, "ok")
  BY <1>2, <1>5, RejectStep DEF UnderWay
<1>6. CASE Known(p) /\ Write(r, p, row) /\ Answer(r, "ok")
  <2>1. places[p] \in Row /\ places[p].type = op[r].type
    <3>1. places[p].type = seen[r][p].type
      BY <1>2, <1>4, <1>6 DEF IInv, SnapshotBehind
    <3>2. places[p] \in Row
      BY <1>2, <1>6, StoredRow DEF IInv, TypeOK, Known
    <3> QED BY <1>2, <3>1, <3>2
  <2>2. row \in Row /\ row.type = op[r].type
    BY <1>2, <2>1, MergedRow
  <2>3. \A q \in Place \ {p} : places[q].type # op[r].type
    BY <1>2, <1>6, <2>1, PlacesAssumption DEF IInv, Unique, Known
  <2>4. row # Absent
    BY <2>2, PlacesAssumption DEF Row, Absent
  <2> HIDE DEF row
  <2> QED BY <1>2, <1>6, <2>1, <2>2, <2>3, <2>4, WriteStep
<1>7. CASE ~Known(p) /\ Reject(r, "error")
  <2>1. \E s \in Request : Overlap(r, s)
    <3>1. places[p] # seen[r][p]
      BY <1>4, <1>7 DEF Known
    <3> QED BY <1>2, <3>1, ChangedByOther DEF IInv, UnderWay
  <2> QED BY <1>2, <1>7, <2>1, RejectStep DEF UnderWay
<1> QED BY <1>3, <1>5, <1>6, <1>7

LEMMA CreateFavoriteStep ==
    ASSUME IInv, NEW r \in Request, CreateFavorite(r)
    PROVE  IInv'
<1> DEFINE d == op[r].data
           row == WithData([Absent EXCEPT !.type = "FAVORITE"], d)
<1>1. d \in Data /\ Valid(d) /\ phase[r] = "locked" /\ op[r].kind = "favorite"
  BY Asked DEF IInv, OpKnown, CreateFavorite, Does
<1>2. row = [type |-> "FAVORITE", pid |-> d.pid, lat |-> d.lat, lon |-> d.lon]
  BY <1>1, SentRow DEF Type
<1>3. row \in Row
  BY <1>1, SentRow DEF Type
<1>4. CASE Duplicates(seen[r], d, None) # {}
  BY <1>1, <1>4, RejectStep DEF CreateFavorite, UnderWay
<1>5. CASE Duplicates(seen[r], d, None) = {}
  <2>1. Insert(r, row, "duplicate")
    BY <1>5 DEF CreateFavorite
  <2>2. \A q \in Place :
          seen[r][q].type = "FAVORITE" => ~SamePlace(row, seen[r][q])
    BY <1>2, <1>5, PlacesAssumption DEF Duplicates, SamePlace
  <2> HIDE DEF row
  <2> QED BY <1>1, <1>3, <2>1, <2>2, InsertStep
<1> QED BY <1>4, <1>5

LEMMA UpdateFavoriteStep ==
    ASSUME IInv, NEW r \in Request, UpdateFavorite(r)
    PROVE  IInv'
<1> DEFINE p == op[r].place
           row == Merged(places[p], places[p], op[r].patch)
<1>1. /\ phase[r] = "locked" /\ op[r].kind = "update" /\ LocksPlace(r)
      /\ p \in Place /\ op[r].patch \in Patch /\ Known(p)
  BY Asked DEF IInv, UpdateFavorite, Does, Held, Holding, LocksPlace
<1>2. \/ \E a \in {"fixed", "invalid", "duplicate"} : Reject(r, a)
      \/ /\ places[p].type = "FAVORITE" /\ Valid(op[r].patch)
         /\ ~WouldDuplicate(r, row) /\ Write(r, p, row) /\ Answer(r, "ok")
  BY DEF UpdateFavorite
<1>3. CASE \E a \in {"fixed", "invalid", "duplicate"} : Reject(r, a)
  BY <1>1, <1>3, RejectStep DEF UnderWay
<1>4. CASE /\ places[p].type = "FAVORITE" /\ Valid(op[r].patch)
           /\ ~WouldDuplicate(r, row) /\ Write(r, p, row) /\ Answer(r, "ok")
  <2>1. places[p] \in Row
    BY <1>1, StoredRow DEF IInv, TypeOK, Known
  <2>2. row \in Row /\ row.type = "FAVORITE" /\ row.pid = places[p].pid
    BY <1>1, <1>4, <2>1, MergedRow
  <2>3. \A q \in Place \ {p} : places[q].type = row.type =>
          /\ row.pid # None => places[q].pid # row.pid
          /\ seen[r][q].type = "FAVORITE" => ~SamePlace(row, seen[r][q])
    <3>1. \A q \in Place \ {p} :
            places[q].type = row.type /\ row.pid # None => places[q].pid # row.pid
      BY <1>1, <1>4, <2>2 DEF IInv, Unique, Known
    <3>2. \A q \in Place \ {p} :
            seen[r][q].type = "FAVORITE" => ~SamePlace(row, seen[r][q])
      BY <1>4 DEF WouldDuplicate, Duplicates
    <3> QED BY <3>1, <3>2
  <2>4. row # Absent
    BY <2>2, PlacesAssumption DEF Row, Absent
  <2> HIDE DEF p, row
  <2> QED BY <1>1, <1>4, <2>1, <2>2, <2>3, <2>4, WriteStep
<1> QED BY <1>2, <1>3, <1>4

LEMMA DeletePlaceStep ==
    ASSUME IInv, NEW r \in Request, DeletePlace(r)
    PROVE  IInv'
<1>1. /\ phase[r] = "locked" /\ LocksPlace(r) /\ op[r].place \in Place
      /\ op[r].place \in locks[r]
  BY Asked DEF IInv, DeletePlace, Does, Held, Holding, LocksPlace
<1>2. \A q \in Others(r) : Holding(q) /\ LocksPlace(q) => op[q].place # op[r].place
  BY <1>1 DEF IInv, Held, Others
<1> QED BY <1>1, <1>2, WriteStep DEF DeletePlace

LEMMA RecordSearchStep ==
    ASSUME IInv, NEW r \in Request, RecordSearch(r)
    PROVE  IInv'
<1>1. phase[r] = "begun" /\ op[r].kind = "record"
  BY DEF RecordSearch
<1>2. CASE ~hadProfile[r]
  BY <1>1, <1>2, RejectStep DEF RecordSearch, UnderWay
<1>3. CASE hadProfile[r] /\ ~profile
  <2>1. PICK s \in Request : phase[s] = "done" /\ s \notin before[r]
    BY <1>1, <1>3 DEF IInv, DropAfter
  <2>2. Overlap(r, s)
    BY <1>1, <2>1, OverlapsLater DEF IInv, UnderWay
  <2> QED BY <1>1, <1>3, <2>2, RejectStep DEF RecordSearch, ReferenceHolds, UnderWay
<1>4. CASE hadProfile[r] /\ profile
  <2>1. /\ searches' = searches \cup {r} /\ profile' = profile /\ places' = places
        /\ writer' = writer /\ op' = op /\ seen' = seen /\ before' = before
        /\ hadProfile' = hadProfile /\ locks' = locks /\ result' = result
        /\ phase' = [phase EXCEPT ![r] = "stored"]
    BY <1>4 DEF RecordSearch, ReferenceHolds
  <2>2. TypeOK' /\ Bookkeeping'
    BY <1>1, <2>1, FS_AddElement DEF IInv, TypeOK, Bookkeeping
  <2>3. /\ phase'[r] = "stored" /\ r \in searches'
        /\ \A q \in Others(r) : phase'[q] = phase[q]
    BY <2>1 DEF IInv, TypeOK, Others
  <2>4. ASSUME NEW q \in Request
        PROVE  OpKnown(q)' /\ Held(q)' /\ SnapshotBehind(q)'
    <3>1. OpKnown(q) /\ Held(q) /\ SnapshotBehind(q) /\ (q = r \/ q \in Others(r))
      BY DEF IInv, Others
    <3>2. OpKnown(q)'
      BY <1>1, <2>1, <2>3, <3>1 DEF OpKnown, LocksPlace, LocksProfile
    <3>3. Held(q)'
      BY <2>1, <2>3, <3>1 DEF Held, Holding, LocksPlace, Known, Others
    <3>4. \A s \in Request : phase[s] = "done" => phase'[s] = "done"
      BY <1>1, <2>3 DEF Others
    <3>5. SnapshotBehind(q)'
      BY <1>1, <2>1, <2>3, <3>1, <3>4 DEF SnapshotBehind, Known
    <3> QED BY <3>2, <3>3, <3>5
  <2>5. DropAfter' /\ NothingOutlivesProfile'
    BY <1>4, <2>1 DEF DropAfter, NothingOutlivesProfile
  <2>6. \A q, s \in Request : Overlap(q, s) => Overlap(q, s)'
    BY <1>1, <2>1, <2>3, OverlapLasts DEF IInv, Others
  <2>7. TwinsOverlapped' /\ FailuresOverlapped' /\ Unique(places)'
    BY <2>1, <2>6 DEF IInv, TwinsOverlapped, FailuresOverlapped
  <2> QED BY <2>2, <2>4, <2>5, <2>7 DEF IInv
<1> QED BY <1>2, <1>3, <1>4

\* The search was deleted after it was stored, by a request that was answered.
LEMMA RefreshSearchStep ==
    ASSUME IInv, NEW r \in Request, RefreshSearch(r)
    PROVE  IInv'
<1>1. phase[r] = "stored" /\ op[r].kind = "record"
  BY DEF RefreshSearch, IInv, OpKnown
<1>2. CASE r \in searches
  BY <1>1, <1>2, RejectStep DEF RefreshSearch, UnderWay
<1>3. CASE r \notin searches
  <2>1. PICK s \in Request : phase[s] = "done" /\ s \notin before[r]
    BY <1>1, <1>3 DEF IInv, SnapshotBehind
  <2>2. Overlap(r, s)
    BY <1>1, <2>1, OverlapsLater DEF IInv, UnderWay
  <2> QED BY <1>1, <1>3, <2>2, RejectStep DEF RefreshSearch, UnderWay
<1> QED BY <1>2, <1>3

LEMMA DeleteSearchesStep ==
    ASSUME IInv, NEW r \in Request, DeleteSearches(r)
    PROVE  IInv'
<1>1. /\ searches' = {} /\ profile' = profile /\ places' = places
      /\ writer' = writer /\ Answer(r, "ok") /\ phase[r] = "locked"
  BY DEF DeleteSearches, Does
<1>2. TypeOK' /\ IsFiniteSet(searches')
  BY <1>1, FS_EmptySet DEF IInv, TypeOK, Bookkeeping, Answer
<1>3. \A q \in Others(r) : Holding(q) =>
          profile' /\ (LocksPlace(q) => places'[op[q].place] # Absent)
  BY <1>1 DEF IInv, Held, Known, Others
<1>4. /\ Bookkeeping' /\ DropAfter' /\ FailuresOverlapped'
      /\ \A q \in Request : OpKnown(q)' /\ Held(q)' /\ SnapshotBehind(q)'
      /\ \A q, s \in Request : Overlap(q, s) => Overlap(q, s)'
  BY <1>1, <1>2, <1>3, AnswerStep DEF UnderWay
<1>5. TwinsOverlapped' /\ Unique(places)' /\ NothingOutlivesProfile'
  BY <1>1, <1>4 DEF IInv, TwinsOverlapped, NothingOutlivesProfile, Known
<1> QED BY <1>2, <1>4, <1>5 DEF IInv

\* The profile goes when no place is locked: a request that joins holds a
\* place that is there, and one that is past its join holds the profile.
LEMMA DropProfileStep ==
    ASSUME IInv, NEW r \in Request, DropProfile(r)
    PROVE  IInv'
<1>1. /\ profile' = FALSE /\ places' = [p \in Place |-> Absent]
      /\ searches' = {} /\ writer' = writer
      /\ Answer(r, "ok") /\ phase[r] = "locked" /\ op[r].kind = "drop"
  BY DEF DropProfile, Does
<1>2. TypeOK' /\ IsFiniteSet(searches')
  BY <1>1, FS_EmptySet DEF IInv, TypeOK, Bookkeeping, Answer, Rows
<1>3. ASSUME NEW q \in Others(r) PROVE ~Holding(q)
  <2>1. OpKnown(q) /\ Held(q) /\ Held(r) /\ locks[r] \cap locks[q] = {}
    BY DEF IInv, Held, Others
  <2>2. phase[q] # "locked"
    BY <1>1, <2>1 DEF Held
  <2>3. phase[q] # "joining"
    <3> SUFFICES ASSUME phase[q] = "joining" PROVE FALSE
      OBVIOUS
    <3>1. LocksPlace(q) /\ op[q].place \in locks[q] /\ Known(op[q].place)
      BY <2>1 DEF OpKnown, Held, Holding
    <3>2. op[q].place \in Place
      BY <2>1, <3>1 DEF OpKnown, LocksPlace, Kinds, SearchKinds
    <3> QED BY <3>1, <3>2 DEF DropProfile, Free
  <2> QED BY <2>2, <2>3 DEF Holding
<1>4. /\ Bookkeeping' /\ DropAfter' /\ FailuresOverlapped'
      /\ \A q \in Request : OpKnown(q)' /\ Held(q)' /\ SnapshotBehind(q)'
  BY <1>1, <1>2, <1>3, AnswerStep DEF UnderWay
<1>5. \A p \in Place : places'[p] = Absent
  BY <1>1
<1>6. TwinsOverlapped' /\ Unique(places)' /\ NothingOutlivesProfile'
  BY <1>1, <1>5, PlacesAssumption
     DEF TwinsOverlapped, Twins, Unique, NothingOutlivesProfile, Known, Absent, Type
<1> QED BY <1>2, <1>4, <1>6 DEF IInv

\* The request that a victim waits for is under way.
LEMMA VictimStep ==
    ASSUME IInv, NEW r \in Request, Victim(r)
    PROVE  IInv'
<1>1. PICK s \in Others(r) : Wants(r) \cap locks[s] # {} /\ Wants(s) \cap locks[r] # {}
  BY DEF Victim, Deadlocked, WaitsFor
<1>2. Holding(r) /\ Holding(s)
  <2>1. locks[r] # {} /\ locks[s] # {} /\ s \in Request
    BY <1>1 DEF Others
  <2> QED BY <2>1 DEF IInv, TypeOK, Holding
<1>3. Overlap(r, s)
  BY <1>1, <1>2 DEF IInv, SnapshotBehind, Overlap, Holding, Others
<1> QED BY <1>1, <1>2, <1>3, RejectStep DEF Victim, Holding, UnderWay, Others

LEMMA StepIInv ==
    ASSUME IInv, NEW r \in Request, Begin(r) \/ Step(r)
    PROVE  IInv'
  BY BeginStep, LockingStep, UpsertNewStep, UpsertExistingStep, CreateFavoriteStep,
     UpdateFavoriteStep, DeletePlaceStep, RecordSearchStep, RefreshSearchStep, DeleteSearchesStep,
     DropProfileStep, VictimStep DEF Step

LEMMA NextIInv == IInv /\ [Next]_vars => IInv'
<1> SUFFICES ASSUME IInv, [Next]_vars PROVE IInv'
  OBVIOUS
<1>1. CASE Next
  BY <1>1, StepIInv DEF Next
<1>2. CASE UNCHANGED vars
  <2>1. /\ profile' = profile /\ places' = places /\ searches' = searches
        /\ writer' = writer /\ phase' = phase /\ op' = op /\ seen' = seen
        /\ hadProfile' = hadProfile /\ locks' = locks /\ result' = result
        /\ before' = before
    BY <1>2 DEF vars, db
  <2>2. (TypeOK /\ Bookkeeping /\ DropAfter)'
    BY <2>1 DEF IInv, TypeOK, Bookkeeping, DropAfter
  <2>3. \A r \in Request : OpKnown(r)' /\ Held(r)' /\ SnapshotBehind(r)'
    BY <2>1 DEF IInv, OpKnown, Held, SnapshotBehind, LocksPlace, LocksProfile,
       Holding, Known
  <2>4. (Unique(places) /\ TwinsOverlapped /\ FailuresOverlapped
            /\ NothingOutlivesProfile)'
    BY <2>1 DEF IInv, TwinsOverlapped, FailuresOverlapped, Overlap,
       NothingOutlivesProfile, Known
  <2> QED BY <2>2, <2>3, <2>4 DEF IInv
<1> QED BY <1>1, <1>2

LEMMA AlwaysIInv == Spec => []IInv
  BY InitIInv, NextIInv, PTL DEF Spec

-----------------------------------------------------------------------------
(* What follows.                                                           *)

\* Whatever the requests that write places read before, the table keeps one
\* place of each fixed type, and one favourite for each place of the provider
\* (saved_places, app/models/saved_place.py).
THEOREM PlacesUnique == Spec => []UniquePlaces
<1>1. IInv => UniquePlaces
  BY DEF IInv, UniquePlaces
<1> QED BY <1>1, AlwaysIInv, PTL

\* Twins, and requests in order that fail, come only of requests that ran at
\* the same time (saved_place_service.py, search_history_service.py).
THEOREM OnlyOverlapHurts == Spec => []OnlyOverlap
<1>1. IInv => OnlyOverlap
  BY DEF IInv, OnlyOverlap
<1> QED BY <1>1, AlwaysIInv, PTL

SentIsStored(r) ==
    \E p \in Place :
        places'[p] = WithData([Absent EXCEPT !.type = op[r].type], op[r].data)

\* What is stored when an upsert alone is answered.
LEMMA StoredAlone ==
    ASSUME IInv, NEW r \in Request, UpsertNew(r) \/ UpsertExisting(r),
           result'[r] = "ok", ~\E s \in Request : Overlap(r, s)
    PROVE  SentIsStored(r)
<1> USE DEF SentIsStored
<1> DEFINE d == op[r].data
           row == WithData([Absent EXCEPT !.type = op[r].type], d)
<1>1. /\ op[r].type \in Fixed /\ d \in Data /\ Valid(d) /\ phase[r] = "locked"
      /\ profile
  BY Asked DEF IInv, OpKnown, Held, Holding, UpsertNew, UpsertExisting, Does
<1>2. row = [type |-> op[r].type, pid |-> d.pid, lat |-> d.lat, lon |-> d.lon]
  BY <1>1, SentRow DEF Type
<1>3. \A a : Reject(r, a) => result'[r] = a /\ places' = places
  BY DEF IInv, TypeOK, Reject, Answer, db
<1>4. \A p \in Place : \A x : Write(r, p, x) => places'[p] = x
  BY DEF IInv, TypeOK, Rows, Write
<1>5. \A p \in Place : places[p] = seen[r][p]
  BY <1>1, ChangedByOther DEF IInv, UnderWay
<1>6. CASE UpsertNew(r)
  BY <1>3, <1>4, <1>6 DEF UpsertNew, Insert
<1>7. CASE UpsertExisting(r)
  <2> DEFINE p == PlaceRead(r)
             old == seen[r][p]
  <2>1. /\ p \in Place /\ old \in Row /\ old.type = op[r].type /\ places[p] = old
    BY <1>5, <1>7, ReadPlace DEF UpsertExisting
  <2>2. \/ WithData(old, d) = old /\ Reject(r, "ok")
        \/ Write(r, p, Merged(places[p], old, d))
        \/ Reject(r, "error")
    BY <1>7 DEF UpsertExisting
  <2> HIDE DEF p, old, d, row
  <2>3. CASE WithData(old, d) = old /\ Reject(r, "ok")
    <3>1. DOMAIN old = {"type", "pid", "lat", "lon"}
      BY <2>1 DEF Row
    <3>2. old = [type |-> old.type, pid |-> old.pid, lat |-> old.lat, lon |-> old.lon]
      BY <2>1 DEF Row
    <3>3. old.pid = d.pid /\ old.lat = d.lat /\ old.lon = d.lon
      BY <2>3, <3>1 DEF WithData
    <3>4. places'[p] = row
      BY <1>2, <1>3, <2>1, <2>3, <3>2, <3>3
    <3> QED BY <2>1, <3>4 DEF row, d
  <2>4. CASE Write(r, p, Merged(places[p], old, d))
    <3> DEFINE new == Merged(old, old, d)
    <3>1. DOMAIN old = {"type", "pid", "lat", "lon"} /\ DOMAIN d = {"pid", "lat", "lon"}
      BY <1>1, <2>1, PlacesAssumption DEF Row
    <3>2. /\ new.type = old.type /\ new.pid = d.pid
          /\ new.lat = d.lat /\ new.lon = d.lon
      BY <3>1 DEF Merged
    <3>3. new = [type |-> new.type, pid |-> new.pid, lat |-> new.lat, lon |-> new.lon]
      BY <3>1 DEF Merged
    <3> HIDE DEF new
    <3>4. places'[p] = new
      BY <1>4, <2>1, <2>4 DEF new
    <3>5. places'[p] = row
      BY <1>2, <2>1, <3>2, <3>3, <3>4
    <3> QED BY <2>1, <3>5 DEF row, d
  <2>5. CASE Reject(r, "error")
    BY <1>3, <2>5
  <2> QED BY <2>2, <2>3, <2>4, <2>5
<1> QED BY <1>6, <1>7

Stored(r) ==
    /\ result'[r] = "ok" /\ result[r] # "ok" /\ op[r].kind = "upsert"
    /\ ~\E s \in Request : Overlap(r, s)
    => SentIsStored(r)

\* An upsert that is answered "ok" with no other request under way has stored
\* the place it was sent, whole (upsert_fixed_place).
THEOREM OkIsStored == Spec => OkMeansStored
<1>1. ASSUME IInv, [Next]_vars, NEW r \in Request PROVE Stored(r)
  <2> SUFFICES ASSUME result'[r] = "ok", result[r] # "ok", op[r].kind = "upsert",
                      ~\E s \in Request : Overlap(r, s)
               PROVE  SentIsStored(r)
    BY DEF Stored
  <2>1. PICK q \in Request : Begin(q) \/ Step(q)
    BY <1>1 DEF Next, vars
  <2>2. result \in [Request -> {"none", "ok", "missing", "duplicate", "fixed",
                               "invalid", "error"}]
    BY <1>1 DEF IInv, TypeOK
  <2>3. ~Begin(q)
    BY <2>2 DEF Begin
  <2>4. ~LockProfile(q) /\ ~LockPlace(q) /\ ~LockJoined(q) /\ ~Victim(q)
    BY <2>2 DEF LockProfile, LockPlace, LockJoined, Victim, Reject, Answer
  <2>5. ASSUME q = r PROVE UpsertNew(r) \/ UpsertExisting(r)
    <3>1. OpKnown(r)
      BY <1>1 DEF IInv
    <3> QED BY <2>1, <2>3, <2>4, <2>5, <3>1
            DEF Step, CreateFavorite, UpdateFavorite, DeletePlace, RecordSearch,
                RefreshSearch, OpKnown, DeleteSearches, DropProfile, Does
  <2>6. ASSUME q # r PROVE FALSE
    <3>1. \A a : Answer(q, a) => result'[r] = result[r]
      BY <2>2, <2>6 DEF Answer
    <3>2. result' = result \/ \E a : Answer(q, a)
      BY <2>1, <2>3, <2>4
         DEF Step, UpsertNew, UpsertExisting, CreateFavorite, UpdateFavorite,
             DeletePlace, RecordSearch, RefreshSearch, DeleteSearches,
             DropProfile, Insert, Reject
    <3> QED BY <3>1, <3>2
  <2>7. UpsertNew(r) \/ UpsertExisting(r)
    BY <2>5, <2>6
  <2> QED BY <1>1, <2>7, StoredAlone
<1>2. IInv /\ [Next]_vars =>
        [\A r \in Request :
           /\ result'[r] = "ok" /\ result[r] # "ok" /\ op[r].kind = "upsert"
           /\ ~\E s \in Request : Overlap(r, s)
           => \E p \in Place :
                 places'[p] = WithData([Absent EXCEPT !.type = op[r].type],
                                       op[r].data)]_vars
  BY <1>1 DEF Stored, SentIsStored
<1> QED BY <1>2, AlwaysIInv, PTL DEF Spec, OkMeansStored

-----------------------------------------------------------------------------
(* The pages of the search history.                                        *)

\* Quotient and remainder, and what a product with a size preserves.
LEMMA DivMod ==
    ASSUME NEW n \in Nat, NEW size \in Nat \ {0}
    PROVE  /\ n \div size \in Nat /\ n % size \in 0..size - 1
           /\ n = (n \div size) * size + (n % size)
  OBVIOUS

LEMMA Product ==
    ASSUME NEW x \in Int, NEW y \in Int, NEW size \in Nat
    PROVE  /\ x * size \in Int
           /\ (x + 1) * size = x * size + size
           /\ x <= y => x * size <= y * size
  OBVIOUS

\* So many pages that the last one begins within the items, and the next one
\* would not.
LEMMA PagesNeeded ==
    ASSUME NEW n \in Nat, NEW size \in Nat \ {0}
    PROVE  LET total == TotalPages(n, size)
           IN  total \in Nat /\ (total - 1) * size < n /\ n <= total * size
<1> DEFINE total == TotalPages(n, size)
<1>1. CASE n = 0
  <2>1. total = 0
    BY <1>1 DEF TotalPages
  <2>2. (0 - 1) * size = 0 - size /\ 0 * size = 0
    OBVIOUS
  <2> QED BY <1>1, <2>1, <2>2
<1>2. CASE n # 0
  <2> DEFINE m == n + size - 1
  <2>1. m \in Nat /\ total = m \div size
    BY <1>2 DEF TotalPages
  <2> HIDE DEF total, m
  <2>2. total \in Nat /\ m % size \in 0..size - 1 /\ m = total * size + (m % size)
    BY <2>1, DivMod
  <2>3. total * size \in Int /\ (total - 1) * size = total * size - size
    BY <2>2, Product
  <2>4. m = n + size - 1
    BY DEF m
  <2> QED BY <2>2, <2>3, <2>4 DEF total
<1> QED BY <1>1, <1>2

\* Every page that is asked for begins within the items.
LEMMA PageWithin ==
    ASSUME NEW n \in Nat, NEW size \in Nat \ {0}, NEW page \in 1..TotalPages(n, size)
    PROVE  /\ page \in Nat \ {0}
           /\ (page - 1) * size \in Nat /\ (page - 1) * size < n
           /\ page * size = (page - 1) * size + size
<1> DEFINE total == TotalPages(n, size)
<1>1. total \in Nat /\ (total - 1) * size < n
  BY PagesNeeded
<1>2. page \in Nat \ {0} /\ page <= total
  BY <1>1
<1> HIDE DEF total
<1>3. /\ page - 1 \in Int /\ total - 1 \in Int /\ page - 1 <= total - 1
      /\ 0 <= page - 1 /\ (page - 1) + 1 = page
  BY <1>1, <1>2
<1>4. (page - 1) * size \in Int /\ (total - 1) * size \in Int
      /\ (page - 1) * size <= (total - 1) * size
  BY <1>3, Product
<1>5. ((page - 1) + 1) * size = (page - 1) * size + size
  BY <1>3, Product
<1>6. 0 * size <= (page - 1) * size /\ 0 * size = 0
  BY <1>3, Product
<1> QED BY <1>1, <1>2, <1>3, <1>4, <1>5, <1>6

LEMMA PageItems ==
    ASSUME NEW n \in Nat, NEW size \in Nat \ {0}, NEW page \in 1..TotalPages(n, size)
    PROVE  LET items == [i \in 1..n |-> i]
               last == Smaller(page * size, n)
           IN  /\ (page - 1) * size + 1 \in 1..last /\ last \in 1..n
               /\ DOMAIN Page(items, page, size) = 1..(last - (page - 1) * size)
               /\ \A k \in 1..(last - (page - 1) * size) :
                     Page(items, page, size)[k] = (page - 1) * size + k
<1> DEFINE items == [i \in 1..n |-> i]
           offset == (page - 1) * size
           last == Smaller(page * size, n)
<1>1. items \in Seq(Nat) /\ Len(items) = n /\ \A i \in 1..n : items[i] = i
  BY SMT
<1>2. offset \in Nat /\ offset < n /\ page * size = offset + size
  BY PageWithin
<1>3. Page(items, page, size) = SubSeq(items, offset + 1, last)
  BY <1>1 DEF Page
<1> HIDE DEF items, offset
<1>4. offset + 1 \in 1..last /\ last \in 1..n
  BY <1>2 DEF Smaller
<1> HIDE DEF last
<1>5. last \in Nat /\ last - (offset + 1) + 1 = last - offset
  BY <1>2, <1>4
<1>6. /\ DOMAIN SubSeq(items, offset + 1, last) = 1..(last - (offset + 1) + 1)
      /\ \A k \in 1..(last - (offset + 1) + 1) :
            SubSeq(items, offset + 1, last)[k] = items[(offset + 1) + k - 1]
  <2> DEFINE first == offset + 1
  <2>1. /\ first \in Int /\ last \in Int /\ first <= last
        /\ \A i \in first..last : items[i] \in Nat
    BY <1>1, <1>2, <1>4, <1>5
  <2> HIDE DEF first
  <2>2. /\ SubSeq(items, first, last) \in Seq(Nat)
        /\ Len(SubSeq(items, first, last)) = IF first <= last THEN last - first + 1 ELSE 0
        /\ \A k \in 1..(last - first + 1) :
              SubSeq(items, first, last)[k] = items[first + k - 1]
    BY ONLY <2>1, SubSeqProperties
  <2>3. DOMAIN SubSeq(items, first, last) = 1..(last - first + 1)
    BY <2>1, <2>2, LenProperties
  <2> QED BY <2>2, <2>3 DEF first
<1>7. \A k \in 1..(last - offset) : items[(offset + 1) + k - 1] = offset + k
  BY <1>1, <1>2, <1>4, <1>5
<1> QED BY <1>3, <1>4, <1>5, <1>6, <1>7 DEF items, offset, last

\* The pages tile the items: each item is on the page that its place in the
\* order gives, and no two pages meet.
LEMMA PagesTileItems ==
    ASSUME NEW n \in Nat, NEW size \in Nat \ {0}
    PROVE  LET items == [i \in 1..n |-> i]
               total == TotalPages(n, size)
           IN /\ \A i \in 1..n : \E page \in 1..total :
                    \E k \in DOMAIN Page(items, page, size) :
                        Page(items, page, size)[k] = i
              /\ \A x, y \in 1..total :
                    \A k \in DOMAIN Page(items, x, size), l \in DOMAIN Page(items, y, size) :
                        Page(items, x, size)[k] = Page(items, y, size)[l] =>
                            x = y /\ k = l
              /\ \A page \in 1..total : Page(items, page, size) # <<>>
<1> DEFINE items == [i \in 1..n |-> i]
           total == TotalPages(n, size)
           last(page) == Smaller(page * size, n)
           offset(page) == (page - 1) * size
           Items(page) == 1..(last(page) - offset(page))
<1>1. ASSUME NEW page \in 1..total
      PROVE  /\ (page - 1) * size + 1 \in 1..last(page) /\ last(page) \in 1..n
             /\ DOMAIN Page(items, page, size) = 1..(last(page) - (page - 1) * size)
             /\ \A k \in 1..(last(page) - (page - 1) * size) :
                   Page(items, page, size)[k] = (page - 1) * size + k
  BY PageItems
<1>2. ASSUME NEW page \in 1..total
      PROVE  /\ page \in Nat \ {0} /\ offset(page) \in Nat
             /\ page * size = offset(page) + size
             /\ Items(page) \subseteq 1..size
             /\ 1 \in Items(page)
  <2>1. page \in Nat \ {0} /\ offset(page) \in Nat /\ offset(page) < n
        /\ page * size = offset(page) + size
    BY PageWithin
  <2> HIDE DEF total, offset
  <2>2. last(page) \in Nat /\ last(page) <= offset(page) + size
        /\ offset(page) + 1 <= last(page)
    BY <2>1 DEF Smaller
  <2> HIDE DEF last
  <2> QED BY <2>1, <2>2
<1>3. ASSUME NEW i \in 1..n
      PROVE  \E page \in 1..total : \E k \in Items(page) : offset(page) + k = i
  <2> DEFINE q == (i - 1) \div size
             k == ((i - 1) % size) + 1
  <2>1. i - 1 \in Nat /\ q \in Nat /\ k \in 1..size /\ i - 1 = q * size + (k - 1)
    BY DivMod
  <2>2. total \in Nat /\ n <= total * size
    BY PagesNeeded
  <2> HIDE DEF q, k, total
  <2>3. q * size \in Int /\ total * size \in Int
        /\ (total <= q => total * size <= q * size)
        /\ (q + 1) * size = q * size + size
    BY <2>1, <2>2, Product
  <2>4. q + 1 \in 1..total
    BY <2>1, <2>2, <2>3
  <2>5. (q + 1) - 1 = q
    BY <2>1
  <2>6. offset(q + 1) = q * size
    BY <2>5
  <2>7. k \in 1..(Smaller((q + 1) * size, n) - q * size)
    BY <2>1, <2>3 DEF Smaller
  <2>8. k \in Items(q + 1)
    BY <2>6, <2>7
  <2>9. offset(q + 1) + k = i
    BY <2>1, <2>3, <2>6
  <2> HIDE DEF Items, offset
  <2> QED BY <2>4, <2>8, <2>9
<1>4. ASSUME NEW x \in 1..total, NEW y \in 1..total,
             NEW k \in Items(x), NEW l \in Items(y),
             offset(x) + k = offset(y) + l
      PROVE  x = y /\ k = l
  <2>1. /\ x \in Nat \ {0} /\ y \in Nat \ {0}
        /\ offset(x) \in Nat /\ offset(y) \in Nat
        /\ x * size = offset(x) + size /\ y * size = offset(y) + size
        /\ k \in 1..size /\ l \in 1..size
    BY <1>2
  <2> HIDE DEF total, Items, last
  <2>2. x <= y - 1 => x * size <= (y - 1) * size
    BY <2>1, Product
  <2>3. y <= x - 1 => y * size <= (x - 1) * size
    BY <2>1, Product
  <2>4. (x <= y - 1 => x * size <= offset(y)) /\ (y <= x - 1 => y * size <= offset(x))
    BY <2>2, <2>3
  <2>5. x = y => offset(x) = offset(y)
    OBVIOUS
  <2> HIDE DEF offset
  <2>6. ~(x <= y - 1) /\ ~(y <= x - 1)
    BY <1>4, <2>1, <2>4
  <2> QED BY <1>4, <2>1, <2>5, <2>6
<1>5. \A page \in 1..total :
        /\ DOMAIN Page(items, page, size) = Items(page)
        /\ \A k \in Items(page) : Page(items, page, size)[k] = offset(page) + k
        /\ 1 \in Items(page)
  BY <1>1, <1>2
<1> HIDE DEF items, total, last, offset, Items
<1>6. \A i \in 1..n : \E page \in 1..total : \E k \in Items(page) : offset(page) + k = i
  BY <1>3
<1>7. \A x, y \in 1..total : \A k \in Items(x), l \in Items(y) :
        offset(x) + k = offset(y) + l => x = y /\ k = l
  BY <1>4
<1>8. \A page \in 1..total : Page(items, page, size) # <<>>
  BY <1>5
<1>9. \A i \in 1..n : \E page \in 1..total :
         \E k \in DOMAIN Page(items, page, size) : Page(items, page, size)[k] = i
  BY <1>5, <1>6
<1>10. \A x, y \in 1..total :
         \A k \in DOMAIN Page(items, x, size), l \in DOMAIN Page(items, y, size) :
            Page(items, x, size)[k] = Page(items, y, size)[l] => x = y /\ k = l
  BY <1>5, <1>7
<1> QED BY <1>8, <1>9, <1>10 DEF items, total

\* The history lists every search once, page by page, and nothing once the
\* profile is gone (SearchHistoryListResponse.from_items, delete_profile).
THEOREM HistoryAnswersAll == Spec => []HistoryIsWhatThereIs
<1>1. IInv => PagesAreTheHistory
  <2> SUFFICES ASSUME IInv PROVE PagesAreTheHistory
    OBVIOUS
  <2>1. Cardinality(searches) \in Nat
    BY FS_CardinalityType DEF IInv, Bookkeeping
  <2> DEFINE n == Cardinality(searches)
  <2>2. \A size \in 1..MaxSize : size \in Nat \ {0}
    BY PlacesAssumption
  <2> HIDE DEF n
  <2> QED BY <2>1, <2>2, PagesTileItems DEF PagesAreTheHistory, n
<1>2. IInv => HistoryIsWhatThereIs
  BY <1>1 DEF IInv, HistoryIsWhatThereIs
<1> QED BY <1>2, AlwaysIInv, PTL

-----------------------------------------------------------------------------
(* Waiting.                                                                *)

\* The profile has one holder.  Who waits for a place waits for a request that
\* joins, and that one waits for the profile.
LEMMA WaitsEndHolds == IInv => WaitsEnd
<1> SUFFICES ASSUME IInv, NEW r \in Unanswered,
                    \A q \in Unanswered : WaitsFor(q) # {} /\ ~Deadlocked(q)
             PROVE  FALSE
  BY DEF WaitsEnd
<1>1. \A q \in Request : locks[q] # {} => phase[q] \in {"joining", "locked"}
  BY DEF IInv, TypeOK
<1>2. \A q, s \in Request : q # s => locks[q] \cap locks[s] = {}
  BY DEF IInv, Held, Others
<1>3. \A q \in Request : phase[q] = "locked" => Profile \in locks[q]
  BY DEF IInv, Held
<1>4. \A q \in Request : phase[q] = "joining" => Wants(q) = {Profile}
  BY DEF Wants, Does
<1>5. \A q \in Request : phase[q] # "locked"
  <2> SUFFICES ASSUME NEW q \in Request, phase[q] = "locked" PROVE FALSE
    OBVIOUS
  <2>1. PICK s \in Request \ {q} : Wants(q) \cap locks[s] # {}
    BY DEF Unanswered, WaitsFor, Others
  <2>2. phase[s] = "joining"
    BY <1>1, <1>2, <1>3, <2>1
  <2>3. s \in WaitsFor(q) /\ q \in WaitsFor(s)
    BY <1>3, <1>4, <2>1, <2>2 DEF WaitsFor, Others
  <2> QED BY <2>3 DEF Deadlocked, Unanswered
<1>6. \A q \in Request : phase[q] # "joining"
  <2> SUFFICES ASSUME NEW q \in Request, phase[q] = "joining" PROVE FALSE
    OBVIOUS
  <2>1. PICK s \in Request \ {q} : Profile \in locks[s]
    BY <1>4 DEF Unanswered, WaitsFor, Others
  <2>2. phase[s] = "joining"
    BY <1>1, <1>5, <2>1
  <2>3. PICK t \in Request \ {s} : Profile \in locks[t]
    BY <1>4, <2>2 DEF Unanswered, WaitsFor, Others
  <2> QED BY <1>2, <2>1, <2>3
<1> QED BY <1>1, <1>5, <1>6 DEF Unanswered, WaitsFor, Others

\* However many requests wait for the places of a profile, one of them goes on,
\* or two wait for one another and the database rolls one back, although some
\* lock the place first and some the profile (get_owned_by_account_for_update).
THEOREM NoLongCycle == Spec => []WaitsEnd
  BY WaitsEndHolds, AlwaysIInv, PTL
=============================================================================
