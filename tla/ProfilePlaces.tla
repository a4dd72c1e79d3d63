---------------------------- MODULE ProfilePlaces ----------------------------
(***************************************************************************)
(* The places and searches a profile keeps: the requests of                *)
(* app/services/saved_place_service.py and search_history_service.py, and  *)
(* the deletion of the profile, which takes them along.                    *)
(*                                                                         *)
(* A request is one transaction.  Its snapshot is taken when the account   *)
(* is loaded, before any lock; a plain read returns what the snapshot      *)
(* holds, a read FOR UPDATE, an UPDATE and a DELETE what is committed.  A  *)
(* write to a place names the columns that differ from what was read.      *)
(***************************************************************************)
EXTENDS Integers, Sequences, FiniteSets

CONSTANTS Request,   \* requests, each made once
          Place,     \* ids places can get, a bound on their number
          Fixed,     \* FIXED_PLACE_TYPES
          Data,      \* places a driver can send: [pid, lat, lon]
          Patch,     \* partial updates: functions on some of lat, lon
          Existing,  \* places there are to begin with
          MaxSize,   \* MAX_SEARCH_HISTORY_SIZE
          None

Latitude == -90..90
Longitude == -180..180

Type == Fixed \cup {"FAVORITE"}

Absent == [type |-> None, pid |-> None, lat |-> 0, lon |-> 0]

Rows == [Place -> {Absent} \cup
            [type : Type, pid : {d.pid : d \in Data},
             lat : Latitude, lon : Longitude]]

ASSUME PlacesAssumption ==
    /\ "FAVORITE" \notin Fixed /\ None \notin Type /\ None \notin Place
    /\ \A d \in Data : DOMAIN d = {"pid", "lat", "lon"}
    /\ \A d \in Patch : DOMAIN d \subseteq {"lat", "lon"}
    /\ Existing \in Rows /\ MaxSize \in Nat

VARIABLES
    profile,   \* TRUE while the profile exists
    places,    \* saved_places
    searches,  \* search_histories: the requests that recorded one
    phase,     \* per request
    op,        \* per request: what it asks for
    seen,      \* per request: the places of its snapshot
    hadProfile,\* per request: the profile is in its snapshot
    locks,     \* per request: the rows it has locked
    result,    \* per request: what it answered
    before,    \* history, per request: the requests answered before it began
    writer     \* history, per place: the request that wrote it last

db == <<profile, places, searches, writer>>
vars == <<db, phase, op, seen, hadProfile, locks, result, before>>

Profile == "profile"

NoOp == [kind |-> "none"]

SearchKinds == [kind : {"record", "forget"}]

Kinds(p) ==
    [kind : {"upsert"}, type : Fixed, data : Data]
    \cup [kind : {"favorite"}, data : Data]
    \cup [kind : {"update"}, place : p, patch : Patch]
    \cup [kind : {"delete"}, place : p]
    \cup SearchKinds
    \cup [kind : {"drop"}]

Init ==
    /\ profile = TRUE /\ places = Existing /\ searches = {}
    /\ phase = [r \in Request |-> "idle"]
    /\ op = [r \in Request |-> NoOp]
    /\ seen = [r \in Request |-> Existing]
    /\ hadProfile = [r \in Request |-> TRUE]
    /\ locks = [r \in Request |-> {}]
    /\ result = [r \in Request |-> "none"]
    /\ before = [r \in Request |-> {}]
    /\ writer = [p \in Place |-> None]

Known(p) == places[p] # Absent

-----------------------------------------------------------------------------
(* The helpers of the services.                                            *)

\* normalize_saved_place_values; a null in a patch reaches it as None.
Valid(data) ==
    /\ "lat" \in DOMAIN data => data.lat # None /\ data.lat \in Latitude
    /\ "lon" \in DOMAIN data => data.lon # None /\ data.lon \in Longitude

\* Two places are the same by the provider's id, or without one by where
\* they are; the id stands for the provider and its id.
SamePlace(x, y) ==
    IF x.pid # None THEN y.pid = x.pid
    ELSE y.pid = None /\ y.lat = x.lat /\ y.lon = x.lon

\* find_duplicate_favorite among rows, but for the place except.
Duplicates(rows, data, except) ==
    {p \in Place \ {except} : rows[p].type = "FAVORITE" /\ SamePlace(data, rows[p])}

Twins(rows, p, q) ==
    /\ p # q
    /\ rows[p].type = "FAVORITE" /\ rows[q].type = "FAVORITE"
    /\ SamePlace(rows[p], rows[q])

\* One place of each fixed type, and one favourite for each place of the
\* provider.
Unique(rows) ==
    \A p, q \in Place :
        p # q /\ rows[p] # Absent /\ rows[q].type = rows[p].type =>
            /\ rows[p].type = "FAVORITE"
            /\ rows[p].pid # None => rows[q].pid # rows[p].pid

\* The places there are were stored under the constraints, by requests that
\* did not overlap.
ASSUME ExistingAssumption ==
    Unique(Existing) /\ \A p, q \in Place : ~Twins(Existing, p, q)

\* Mutant: an upsert does not find the place there is.
MutFindsNone(rows, type) == {}

OfType(rows, type) == {p \in Place : rows[p].type = type}

\* Mutant: the table has no unique constraints.
MutNoConstraint(p, row) == TRUE

\* uq_saved_places_profile_fixed_type, uq_saved_places_provider_place
MayStore(p, row) ==
    \A q \in Place \ {p} : places[q].type = row.type =>
        /\ row.type \notin Fixed
        /\ row.pid # None => places[q].pid # row.pid

WithData(row, data) ==
    [row EXCEPT !.pid = data.pid, !.lat = data.lat, !.lon = data.lon]

\* Mutant: a null does not overwrite what is stored.
MutKeepsNulls(row, read, data) ==
    [c \in DOMAIN row |->
        IF c \in DOMAIN data /\ data[c] \notin {read[c], None}
        THEN data[c] ELSE row[c]]

\* The row an UPDATE of the columns of data that differ from what was read
\* leaves behind.
Merged(row, read, data) ==
    [c \in DOMAIN row |->
        IF c \in DOMAIN data /\ data[c] # read[c] THEN data[c] ELSE row[c]]

-----------------------------------------------------------------------------
(* Requests and their locks.                                               *)

Others(r) == Request \ {r}

Free(r, row) == \A s \in Others(r) : row \notin locks[s]

\* Mutant: a request that is refused leaves its transaction open.
MutKeepsLocks(r, answer) ==
    /\ phase' = [phase EXCEPT ![r] = "done"]
    /\ result' = [result EXCEPT ![r] = answer]
    /\ locks' = [locks EXCEPT ![r] = IF answer = "ok" THEN {} ELSE @]
    /\ UNCHANGED <<op, seen, hadProfile, before>>

Answer(r, answer) ==
    /\ phase' = [phase EXCEPT ![r] = "done"]
    /\ result' = [result EXCEPT ![r] = answer]
    /\ locks' = [locks EXCEPT ![r] = {}]
    /\ UNCHANGED <<op, seen, hadProfile, before>>

Reject(r, answer) == Answer(r, answer) /\ UNCHANGED db

\* The request arrives, is validated and loads the account.
Begin(r) ==
    /\ phase[r] = "idle"
    /\ \E o \in Kinds({p \in Place : Known(p)}) :
        LET bad == \/ o.kind \in {"upsert", "favorite"} /\ ~Valid(o.data)
                   \/ o.kind = "update" /\ DOMAIN o.patch = {}
        IN /\ op' = [op EXCEPT ![r] = o]
           /\ phase' = [phase EXCEPT ![r] = IF bad THEN "done" ELSE "begun"]
           /\ result' = [result EXCEPT ![r] = IF bad THEN "invalid" ELSE "none"]
    /\ seen' = [seen EXCEPT ![r] = places]
    /\ hadProfile' = [hadProfile EXCEPT ![r] = profile]
    /\ before' = [before EXCEPT ![r] = {s \in Request : phase[s] = "done"}]
    /\ UNCHANGED <<db, locks>>

LocksProfile(r) == op[r].kind \in {"upsert", "favorite", "forget", "drop"}

\* get_owned_by_account_for_update: the place, then the profile it joins.
LocksPlace(r) == op[r].kind \in {"update", "delete"}

\* get_by_account_for_update
LockProfile(r) ==
    /\ phase[r] = "begun" /\ LocksProfile(r)
    /\ Free(r, Profile)
    /\ IF profile
       THEN /\ phase' = [phase EXCEPT ![r] = "locked"]
            /\ locks' = [locks EXCEPT ![r] = {Profile}]
            /\ UNCHANGED <<db, op, seen, hadProfile, result, before>>
       ELSE Reject(r, "missing")

LockPlace(r) ==
    /\ phase[r] = "begun" /\ LocksPlace(r)
    /\ Free(r, op[r].place)
    /\ IF Known(op[r].place)
       THEN /\ phase' = [phase EXCEPT ![r] = "joining"]
            /\ locks' = [locks EXCEPT ![r] = {op[r].place}]
            /\ UNCHANGED <<db, op, seen, hadProfile, result, before>>
       ELSE Reject(r, "missing")

LockJoined(r) ==
    /\ phase[r] = "joining" /\ Free(r, Profile)
    /\ phase' = [phase EXCEPT ![r] = "locked"]
    /\ locks' = [locks EXCEPT ![r] = @ \cup {Profile}]
    /\ UNCHANGED <<db, op, seen, hadProfile, result, before>>

Does(r, kind) == phase[r] = "locked" /\ op[r].kind = kind

Write(r, p, row) ==
    /\ places' = [places EXCEPT ![p] = row]
    /\ writer' = [writer EXCEPT ![p] = r]
    /\ UNCHANGED <<profile, searches>>

\* An INSERT of a place, and the answer when a constraint refuses it.
Insert(r, row, refused) ==
    \E p \in Place :
        /\ ~Known(p) /\ \A s \in Request : seen[s][p] = Absent
        /\ IF MayStore(p, row)
           THEN /\ Write(r, p, row)
                /\ Answer(r, "ok")
           ELSE Reject(r, refused)

\* upsert_fixed_place that read no place of the type
UpsertNew(r) ==
    /\ Does(r, "upsert")
    /\ OfType(seen[r], op[r].type) = {}
    /\ Insert(r, WithData([Absent EXCEPT !.type = op[r].type], op[r].data),
              "invalid")

\* The row of the place to be written, which other requests may have locked.
PlaceRead(r) == CHOOSE p \in OfType(seen[r], op[r].type) : TRUE

\* upsert_fixed_place that read one: with nothing to change, nothing is
\* written; a place that is gone by now matches no row.
UpsertExisting(r) ==
    /\ Does(r, "upsert")
    /\ OfType(seen[r], op[r].type) # {}
    /\ LET p == PlaceRead(r)
           d == op[r].data
       IN IF WithData(seen[r][p], d) = seen[r][p] THEN Reject(r, "ok")
          ELSE /\ Free(r, p)
               /\ IF Known(p)
                  THEN /\ Write(r, p, Merged(places[p], seen[r][p], d))
                       /\ Answer(r, "ok")
                  ELSE Reject(r, "error")

\* create_favorite
CreateFavorite(r) ==
    /\ Does(r, "favorite")
    /\ IF Duplicates(seen[r], op[r].data, None) # {}
       THEN Reject(r, "duplicate")
       ELSE Insert(r, WithData([Absent EXCEPT !.type = "FAVORITE"], op[r].data),
                   "duplicate")

WouldDuplicate(r, row) == Duplicates(seen[r], row, op[r].place) # {}

\* update_favorite: the place is read under its lock.
UpdateFavorite(r) ==
    /\ Does(r, "update")
    /\ LET p == op[r].place
           row == Merged(places[p], places[p], op[r].patch)
       IN IF places[p].type # "FAVORITE" THEN Reject(r, "fixed")
          ELSE IF ~Valid(op[r].patch) THEN Reject(r, "invalid")
          ELSE IF WouldDuplicate(r, row) THEN Reject(r, "duplicate")
          ELSE /\ Write(r, p, row)
               /\ Answer(r, "ok")

\* delete_saved_place
DeletePlace(r) ==
    /\ Does(r, "delete")
    /\ Write(r, op[r].place, Absent)
    /\ Answer(r, "ok")

\* Mutant: the table has no foreign key.
MutNoReference == TRUE

\* fk_search_histories_profile_id_driver_profiles
ReferenceHolds == profile

\* create_search_history: the profile is read in the snapshot, and the
\* foreign key is checked when the row is inserted.
RecordSearch(r) ==
    /\ phase[r] = "begun" /\ op[r].kind = "record"
    /\ IF ~hadProfile[r] THEN Reject(r, "missing")
       ELSE /\ Free(r, Profile)
            /\ IF ReferenceHolds
               THEN /\ searches' = searches \cup {r}
                    /\ phase' = [phase EXCEPT ![r] = "stored"]
                    /\ UNCHANGED <<profile, places, writer, op, seen,
                                   hadProfile, locks, result, before>>
               ELSE Reject(r, "error")

\* The refresh after the commit is a transaction of its own: a search that was
\* stored and is gone by now is answered with an error.
RefreshSearch(r) ==
    /\ phase[r] = "stored"
    /\ Reject(r, IF r \in searches THEN "ok" ELSE "error")

\* delete_search_histories
DeleteSearches(r) ==
    /\ Does(r, "forget")
    /\ searches' = {}
    /\ UNCHANGED <<profile, places, writer>>
    /\ Answer(r, "ok")

\* delete_profile of ProfileService, without a session: the cascade deletes
\* every place, and waits for those that are locked.
DropProfile(r) ==
    /\ Does(r, "drop")
    /\ \A p \in Place : Known(p) => Free(r, p)
    /\ profile' = FALSE
    /\ places' = [p \in Place |-> Absent]
    /\ searches' = {}
    /\ UNCHANGED writer
    /\ Answer(r, "ok")

-----------------------------------------------------------------------------
(* InnoDB's deadlock detection.                                            *)

\* The rows r waits for.
Wants(r) ==
    CASE phase[r] = "begun" /\ LocksPlace(r) -> {op[r].place}
      [] phase[r] = "begun" /\ ~LocksPlace(r) -> {Profile}
      [] phase[r] = "joining" -> {Profile}
      [] Does(r, "drop") -> {p \in Place : Known(p)}
      [] Does(r, "upsert") /\ OfType(seen[r], op[r].type) # {} -> {PlaceRead(r)}
      [] OTHER -> {}

WaitsFor(r) == {s \in Others(r) : Wants(r) \cap locks[s] # {}}

\* A place-first request holds its place and waits for the profile, whose
\* holder waits for that place.
Deadlocked(r) == \E s \in WaitsFor(r) : r \in WaitsFor(s)

Victim(r) == Deadlocked(r) /\ Reject(r, "error")

Step(r) ==
    \/ LockProfile(r) \/ LockPlace(r) \/ LockJoined(r)
    \/ UpsertNew(r) \/ UpsertExisting(r)
    \/ CreateFavorite(r) \/ UpdateFavorite(r) \/ DeletePlace(r)
    \/ RecordSearch(r) \/ RefreshSearch(r)
    \/ DeleteSearches(r) \/ DropProfile(r)
    \/ Victim(r)

Next == \E r \in Request : Begin(r) \/ Step(r)

Spec == Init /\ [][Next]_vars

-----------------------------------------------------------------------------
(* Pages of the search history.                                            *)

TotalPages(total, size) ==
    IF total = 0 THEN 0 ELSE (total + size - 1) \div size

Smaller(m, n) == IF m < n THEN m ELSE n

\* offset and limit
Page(items, page, size) ==
    SubSeq(items, (page - 1) * size + 1, Smaller(page * size, Len(items)))

-----------------------------------------------------------------------------
(* Properties.                                                             *)

\* A place is absent or has a type and coordinates on the map; a request
\* holds locks only while it is under way.
TypeOK ==
    /\ profile \in BOOLEAN /\ places \in Rows /\ searches \subseteq Request
    /\ phase \in [Request -> {"idle", "begun", "joining", "locked", "stored",
                              "done"}]
    /\ seen \in [Request -> Rows]
    /\ hadProfile \in [Request -> BOOLEAN]
    /\ result \in [Request -> {"none", "ok", "missing", "duplicate", "fixed",
                               "invalid", "error"}]
    /\ before \in [Request -> SUBSET Request]
    /\ writer \in [Place -> Request \cup {None}]
    /\ \A r \in Request : phase[r] \in {"idle", "begun", "stored", "done"} => locks[r] = {}

\* A profile has one place of each fixed type, and one favourite for each
\* place of the provider, whatever the requests that write them read.
UniquePlaces == TypeOK /\ Unique(places)

Overlap(r, s) ==
    /\ r # s /\ phase[r] # "idle" /\ phase[s] # "idle"
    /\ r \notin before[s] /\ s \notin before[r]

\* Two favourites without an id of the provider are in the same spot only if
\* the requests that put them there ran at the same time: no constraint covers
\* them, and each reads a snapshot without the other.
TwinsOverlapped ==
    \A p, q \in Place :
        Twins(places, p, q) =>
            /\ writer[p] \in Request /\ writer[q] \in Request
            /\ Overlap(writer[p], writer[q])

\* A request that is in order fails with an error, and an upsert with a
\* validation error, only if another request ran at the same time.
FailuresOverlapped ==
    \A r \in Request :
        \/ result[r] = "error"
        \/ result[r] = "invalid" /\ op[r].kind = "upsert" /\ Valid(op[r].data)
        => \E s \in Request : Overlap(r, s)

\* Whatever the application's own checks read, only requests that ran at the
\* same time get past them, or fall over each other.
OnlyOverlap == TwinsOverlapped /\ FailuresOverlapped

\* Nothing is left of a profile that is deleted, also of what a request that
\* read the profile before stores after.
NothingOutlivesProfile ==
    ~profile => searches = {} /\ \A p \in Place : ~Known(p)

\* After an upsert that succeeds with no other request under way the profile
\* has the place that was sent, whole.
OkMeansStored ==
    [][\A r \in Request :
         /\ result'[r] = "ok" /\ result[r] # "ok" /\ op[r].kind = "upsert"
         /\ ~\E s \in Request : Overlap(r, s)
         => \E p \in Place :
               places'[p] = WithData([Absent EXCEPT !.type = op[r].type],
                                     op[r].data)]_vars

\* The pages of a history are the history, with nothing twice and no page
\* that is empty.
PagesAreTheHistory ==
    \A size \in 1..MaxSize :
        LET n == Cardinality(searches)
            items == [i \in 1..n |-> i]
            total == TotalPages(n, size)
        IN /\ \A i \in 1..n : \E page \in 1..total :
                 \E k \in DOMAIN Page(items, page, size) :
                     Page(items, page, size)[k] = i
           /\ \A x, y \in 1..total :
                 \A k \in DOMAIN Page(items, x, size), l \in DOMAIN Page(items, y, size) :
                     Page(items, x, size)[k] = Page(items, y, size)[l] =>
                         x = y /\ k = l
           /\ \A page \in 1..total : Page(items, page, size) # <<>>

\* The history answers what there is: all of it page by page, and nothing
\* once the profile is gone.
HistoryIsWhatThereIs == NothingOutlivesProfile /\ PagesAreTheHistory

Unanswered ==
    {r \in Request : phase[r] \in {"begun", "joining", "locked", "stored"}}

\* However requests wait for one another, one of them waits for nobody, or is
\* in the one kind of cycle there is, whose victim the database rolls back.
WaitsEnd == Unanswered # {} => \E r \in Unanswered : WaitsFor(r) = {} \/ Deadlocked(r)

\* No lock is waited for for ever: while a request is under way some request
\* can take a step, and none takes more than four.
NothingStuck ==
    /\ WaitsEnd
    /\ Unanswered # {} => ENABLED (\E r \in Request : Step(r))

-----------------------------------------------------------------------------
(* The inductive invariant.                                                *)

Holding(r) == phase[r] \in {"joining", "locked"}

\* What a request asks for, and what it was found to be.
OpKnown(r) ==
    /\ phase[r] # "idle" => op[r] \in Kinds(Place)
    /\ phase[r] \in {"begun", "locked"} /\ op[r].kind \in {"upsert", "favorite"} =>
          Valid(op[r].data)
    /\ phase[r] = "joining" => LocksPlace(r)
    /\ phase[r] = "stored" => op[r].kind = "record"
    /\ phase[r] = "locked" => LocksProfile(r) \/ LocksPlace(r)

\* The rows a request holds are there, so the profile is.
Held(r) ==
    /\ Holding(r) => profile
    /\ phase[r] = "locked" => Profile \in locks[r]
    /\ Holding(r) /\ LocksPlace(r) => op[r].place \in locks[r] /\ Known(op[r].place)
    /\ \A s \in Others(r) : locks[r] \cap locks[s] = {}

\* A place that is not what a snapshot holds was written by a request that
\* was answered after the snapshot was taken, and such a one deleted a search
\* that is not there to be refreshed; an id never gets another type.
SnapshotBehind(r) ==
    /\ before[r] \subseteq {s \in Request : phase[s] = "done"}
    /\ phase[r] # "idle" /\ profile =>
          \A p \in Place : places[p] # seen[r][p] =>
              /\ writer[p] \in Request \ before[r]
              /\ phase[writer[p]] = "done"
    /\ \A p \in Place : Known(p) /\ seen[r][p] # Absent =>
          places[p].type = seen[r][p].type
    /\ phase[r] = "stored" /\ r \notin searches =>
          \E s \in Request : phase[s] = "done" /\ s \notin before[r]

\* Some request deleted the profile that is gone, after the snapshots that
\* still have it were taken.
DropAfter ==
    ~profile => \E s \in Request :
        /\ phase[s] = "done"
        /\ \A r \in Request : phase[r] # "idle" /\ hadProfile[r] => s \notin before[r]

Bookkeeping ==
    /\ op \in [Request -> {NoOp} \cup Kinds(Place)]
    /\ locks \in [Request -> SUBSET (Place \cup {Profile})]
    /\ IsFiniteSet(searches)

IInv ==
    /\ TypeOK /\ Bookkeeping /\ Unique(places)
    /\ \A r \in Request : OpKnown(r) /\ Held(r) /\ SnapshotBehind(r)
    /\ DropAfter
    /\ TwinsOverlapped /\ FailuresOverlapped
    /\ NothingOutlivesProfile

=============================================================================
