--------------------------- MODULE ImportSession ---------------------------
(* A dataset import from its creation to the registered snapshot: the rows of *)
(* dataset_upload_sessions, the import daemons that lease and inspect them,   *)
(* the API calls that stage, reconfigure, abort and register them, and the    *)
(* versions that data_assets and dataset_snapshots collect.                   *)
(*                                                                            *)
(* The daemons connect as a member of dq_worker_role.  Outside a tenant's     *)
(* context the row-level security policies let them see and change only what  *)
(* the two dispatcher policies allow, and that is part of the model.          *)
(*                                                                            *)
(* Abstractions.  A lease is its expiry relative to the clock (lapsed), the   *)
(* 24 hours of a session likewise (overdue).  Uploading in parts is module    *)
(* PartUpload; here INITIATED and UPLOADING are one status, OPEN.  What the   *)
(* inspection computes is determined by the raw object and the column-name    *)
(* mapping it was given, which therefore stand for content_sha256 and the     *)
(* canonical content_sha256.  lease_owner is left out: daemons are named      *)
(* after their process id, 1 in every container, and the generation is what   *)
(* tells leases apart.                                                        *)
EXTENDS Naturals, FiniteSets

CONSTANTS Sessions,     \* imports, numbered in the order of created_at
          Workers,      \* import daemons
          Assets,       \* data assets, by name
          Raws,         \* contents of the staged objects
          Mappings,     \* column-name mappings
          MaxAttempts,  \* the retry budget (3 in the code)
          None

ASSUME ImportAssumption ==
  /\ Sessions \subseteq Nat \ {0}
  /\ MaxAttempts \in Nat \ {0}
  /\ None \notin Mappings \union Nat /\ Mappings # {}

VARIABLES
  status, reason,       \* status and error code of each session
  target,               \* the asset it imports into, to be created or existing
  raw, mapping,         \* its staged object and column_names_mapping
  generation, attempts, \* lease_generation, attempt_count
  lapsed,               \* lease_expires_at < now()
  overdue,              \* expires_at < now()
  result,               \* what the manifest's source_descriptor was computed from
  snapshot,             \* registered_snapshot_id, as a version number
  job,                  \* the session each daemon works on
  beating,              \* its heartbeat thread runs
  versions,             \* dataset_snapshots of each asset
  count, current,       \* data_assets.version_count, current_snapshot_id
  exists,               \* assets that have been created
  assetLock,            \* the registration holding each asset's row
  register,             \* where the registration of each session is
  number                \* the version number it has computed

lease == <<generation, attempts, lapsed>>
content == <<target, raw, mapping>>
sessionVars == <<status, reason, content, lease, overdue, result, snapshot>>
daemonVars == <<job, beating>>
assetVars == <<versions, count, current, exists, assetLock, register, number>>
vars == <<sessionVars, daemonVars, assetVars>>

Status == {"ABSENT", "OPEN", "STAGED", "VERIFYING", "VERIFIED", "REJECTED", "FAILED",
           "ABORTED", "REGISTERED"}
Reason == {"COLUMN_NAMES", "INVALID", "WORKER_ERROR", "EXPIRED", "EXHAUSTED"}
Inspection == [gen : Nat, mapping : Mappings]
Job == [session : Sessions, step : {"selected", "claimed", "inspecting"},
        gen : Nat, mapping : Mappings, live : BOOLEAN]
Version == [number : Nat, raw : Raws, mapping : Mappings]

TypeOK ==
  /\ status \in [Sessions -> Status]
  /\ reason \in [Sessions -> Reason \union {None}]
  /\ target \in [Sessions -> [asset : Assets, new : BOOLEAN] \union {None}]
  /\ raw \in [Sessions -> Raws \union {None}]
  /\ mapping \in [Sessions -> Mappings]
  /\ generation \in [Sessions -> Nat]
  /\ attempts \in [Sessions -> 0 .. MaxAttempts]
  /\ lapsed \in [Sessions -> BOOLEAN]
  /\ overdue \in [Sessions -> BOOLEAN]
  /\ result \in [Sessions -> Inspection \union {None}]
  /\ snapshot \in [Sessions -> Nat]
  /\ job \in [Workers -> Job \union {None}]
  /\ beating \in [Workers -> BOOLEAN]
  /\ versions \in [Assets -> SUBSET Version]
  /\ count \in [Assets -> Nat]
  /\ current \in [Assets -> Nat]
  /\ exists \in [Assets -> BOOLEAN]
  /\ assetLock \in [Assets -> Sessions \union {None}]
  /\ register \in [Sessions -> {"no", "begun", "locked", "read"}]
  /\ number \in [Sessions -> Nat]

Init ==
  /\ status = [s \in Sessions |-> "ABSENT"]
  /\ reason = [s \in Sessions |-> None]
  /\ target = [s \in Sessions |-> None]
  /\ raw = [s \in Sessions |-> None]
  /\ mapping = [s \in Sessions |-> CHOOSE m \in Mappings : TRUE]
  /\ generation = [s \in Sessions |-> 0]
  /\ attempts = [s \in Sessions |-> 0]
  /\ lapsed = [s \in Sessions |-> FALSE]
  /\ overdue = [s \in Sessions |-> FALSE]
  /\ result = [s \in Sessions |-> None]
  /\ snapshot = [s \in Sessions |-> 0]
  /\ job = [w \in Workers |-> None]
  /\ beating = [w \in Workers |-> FALSE]
  /\ versions = [a \in Assets |-> {}]
  /\ count = [a \in Assets |-> 0]
  /\ current = [a \in Assets |-> 0]
  /\ exists = [a \in Assets |-> FALSE]
  /\ assetLock = [a \in Assets |-> None]
  /\ register = [s \in Sessions |-> "no"]
  /\ number = [s \in Sessions |-> 0]

(* The row of s is locked: by a claim, or by a registration. *)
RowLocked(s) ==
  \/ \E w \in Workers : job[w] # None /\ job[w].session = s /\ job[w].step = "selected"
  \/ register[s] # "no"

Become(s, st, why) ==
  /\ status' = [status EXCEPT ![s] = st]
  /\ reason' = [reason EXCEPT ![s] = why]

----------------------------------------------------------------------------
(* API calls on one session *)

(* create_import_session; a source that lies in the staging bucket already is *)
(* STAGED at once.                                                            *)
Create(s, a, new, object) ==
  /\ status[s] = "ABSENT"
  /\ \A q \in Sessions : q < s => status[q] # "ABSENT"
  /\ new \/ exists[a]
  /\ Become(s, IF object = None THEN "OPEN" ELSE "STAGED", None)
  /\ target' = [target EXCEPT ![s] = [asset |-> a, new |-> new]]
  /\ raw' = [raw EXCEPT ![s] = object]
  /\ UNCHANGED <<mapping, lease, overdue, result, snapshot, daemonVars, assetVars>>

(* complete_import, see PartUpload. *)
Stage(s, object) ==
  /\ status[s] = "OPEN" /\ ~overdue[s]
  /\ Become(s, "STAGED", None)
  /\ raw' = [raw EXCEPT ![s] = object]
  /\ UNCHANGED <<target, mapping, lease, overdue, result, snapshot, daemonVars, assetVars>>

Reconfigurable(s) ==
  status[s] = "VERIFIED" \/ (status[s] = "REJECTED" /\ reason[s] = "COLUMN_NAMES")

(* Mutant: the new mapping is taken without another inspection. *)
ConfigureInPlace(s, m) ==
  /\ Reconfigurable(s) /\ ~overdue[s] /\ ~RowLocked(s)
  /\ mapping' = [mapping EXCEPT ![s] = m]
  /\ UNCHANGED <<status, reason, target, raw, lease, overdue, result, snapshot, daemonVars,
                 assetVars>>

(* configure_import_session: the source_descriptor, the generation and the    *)
(* attempts stay as they are.                                                 *)
Configure(s, m) ==
  /\ Reconfigurable(s) /\ ~overdue[s] /\ ~RowLocked(s)
  /\ Become(s, "STAGED", None)
  /\ mapping' = [mapping EXCEPT ![s] = m]
  /\ UNCHANGED <<target, raw, lease, overdue, result, snapshot, daemonVars, assetVars>>

(* abort_import_session; see PartUpload for what it does in the object store. *)
Abort(s) ==
  /\ status[s] \in {"OPEN", "STAGED", "VERIFIED", "ABORTED"} /\ ~RowLocked(s)
  /\ Become(s, "ABORTED", None)
  /\ UNCHANGED <<content, lease, overdue, result, snapshot, daemonVars, assetVars>>

(* expires_at passes. *)
Overdue(s) ==
  /\ status[s] # "ABSENT" /\ ~overdue[s]
  /\ overdue' = [overdue EXCEPT ![s] = TRUE]
  /\ UNCHANGED <<status, reason, content, lease, result, snapshot, daemonVars, assetVars>>
----------------------------------------------------------------------------
(* The import daemons *)

(* The SELECT and the UPDATE policy of the dispatcher on a session's row.     *)
(* PostgreSQL holds the row an UPDATE writes against the WITH CHECK of the    *)
(* UPDATE policy and, as its WHERE reads columns, against the SELECT policy.  *)
DispatcherSees(st) == st \in {"STAGED", "VERIFYING"}
DispatcherUpdates(s) == status[s] = "STAGED" \/ (status[s] = "VERIFYING" /\ lapsed[s])
DispatcherMayWrite(st) == st \in {"VERIFYING", "FAILED"} /\ DispatcherSees(st)

(* Mutant: a lease that ran out is not taken over. *)
ClaimableStagedOnly(s) == status[s] = "STAGED" /\ ~RowLocked(s)

(* ... FOR UPDATE SKIP LOCKED *)
Claimable(s) == DispatcherUpdates(s) /\ ~RowLocked(s)

(* The SELECT of claim_next_session: the oldest session not locked. *)
Select(w) ==
  /\ job[w] = None
  /\ \E s \in Sessions :
       /\ Claimable(s)
       /\ \A q \in Sessions : Claimable(q) => s <= q
       /\ job' = [job EXCEPT ![w] =
            [session |-> s, step |-> "selected", gen |-> generation[s],
             mapping |-> mapping[s], live |-> FALSE]]
  /\ UNCHANGED <<sessionVars, beating, assetVars>>

(* An import has MaxAttempts leases and ends at its expiry. *)
Spent(s) == overdue[s] \/ attempts[s] = MaxAttempts

(* The UPDATE of claim_next_session: a new lease, or the end of the import. *)
Written(s) == IF Spent(s) THEN "FAILED" ELSE "VERIFYING"

Granted(s) ==
  /\ status' = [status EXCEPT ![s] = Written(s)]
  /\ IF Spent(s)
     THEN /\ reason' = [reason EXCEPT ![s] = IF overdue[s] THEN "EXPIRED" ELSE "EXHAUSTED"]
          /\ UNCHANGED lease
     ELSE /\ generation' = [generation EXCEPT ![s] = @ + 1]
          /\ attempts' = [attempts EXCEPT ![s] = @ + 1]
          /\ lapsed' = [lapsed EXCEPT ![s] = FALSE]
          /\ UNCHANGED reason

(* An UPDATE that the policies refuse raises an error: the transaction rolls  *)
(* back and the daemon tries again after two seconds.                         *)
Claim(w) ==
  LET s == job[w].session IN
  /\ job[w] # None /\ job[w].step = "selected"
  /\ IF DispatcherMayWrite(Written(s))
     THEN /\ Granted(s)
          /\ job' = [job EXCEPT ![w] =
               IF Spent(s) THEN None ELSE [job[w] EXCEPT !.step = "claimed", !.gen = @ + 1]]
     ELSE job' = [job EXCEPT ![w] = None] /\ UNCHANGED <<status, reason, lease>>
  /\ beating' = [beating EXCEPT ![w] = job'[w] # None]
  /\ UNCHANGED <<content, overdue, result, snapshot, assetVars>>

(* The transaction of process_session starts, and with it now() stands still. *)
Begin(w) ==
  /\ job[w] # None /\ job[w].step = "claimed"
  /\ job' = [job EXCEPT ![w].step = "inspecting", ![w].live = ~lapsed[job[w].session]]
  /\ UNCHANGED <<sessionVars, beating, assetVars>>

(* The daemon's lease is the session's current one. *)
Owns(w) ==
  LET s == job[w].session IN status[s] = "VERIFYING" /\ generation[s] = job[w].gen

(* Mutant: any attempt on a session being verified may decide it. *)
HoldsAnyGeneration(w) == status[job[w].session] = "VERIFYING" /\ job[w].live

(* Mutant: the fence does not look at lease_expires_at. *)
HoldsExpired(w) == Owns(w)

(* The fence of process_session's UPDATEs. *)
Holds(w) == Owns(w) /\ job[w].live

(* The inspection ends with VERIFIED, REJECTED or FAILED. *)
Finish(w, st, why) ==
  LET s == job[w].session IN
  /\ job[w] # None /\ job[w].step = "inspecting" /\ ~RowLocked(s)
  /\ IF Holds(w)
     THEN /\ Become(s, st, why)
          /\ result' = IF st = "VERIFIED"
               THEN [result EXCEPT ![s] = [gen |-> job[w].gen, mapping |-> job[w].mapping]]
               ELSE result
     ELSE UNCHANGED <<status, reason, result>>
  /\ job' = [job EXCEPT ![w] = None]
  /\ beating' = [beating EXCEPT ![w] = FALSE]
  /\ UNCHANGED <<content, lease, overdue, snapshot, assetVars>>

(* The daemon crashes, or an error it does not record ends the transaction. *)
Drop(w) ==
  /\ job[w] # None
  /\ job' = [job EXCEPT ![w] = None]
  /\ beating' = [beating EXCEPT ![w] = FALSE]
  /\ UNCHANGED <<sessionVars, assetVars>>

(* heartbeat sets no tenant: its UPDATE reaches what the dispatcher may       *)
(* update.  The thread ends when it reached no row.                           *)
Renews(w) ==
  Owns(w) /\ ~lapsed[job[w].session] /\ DispatcherUpdates(job[w].session)

Beat(w) ==
  /\ beating[w]
  /\ ~RowLocked(job[w].session)
  /\ beating' = [beating EXCEPT ![w] = Renews(w)]
  /\ UNCHANGED <<sessionVars, job, assetVars>>

(* lease_expires_at passes. *)
Lapse(s) ==
  /\ status[s] = "VERIFYING" /\ ~lapsed[s]
  /\ lapsed' = [lapsed EXCEPT ![s] = TRUE]
  /\ UNCHANGED <<status, reason, content, generation, attempts, overdue, result, snapshot,
                 daemonVars, assetVars>>
----------------------------------------------------------------------------
(* register_snapshot: one transaction, statement by statement *)

RegisterBegin(s) ==
  /\ status[s] = "VERIFIED" /\ ~overdue[s] /\ ~RowLocked(s)
  /\ register' = [register EXCEPT ![s] = "begun"]
  /\ UNCHANGED <<sessionVars, daemonVars, versions, count, current, exists, assetLock, number>>

(* The transaction of s ends, and its locks with it. *)
Release(s) ==
  /\ register' = [register EXCEPT ![s] = "no"]
  /\ number' = [number EXCEPT ![s] = 0]
  /\ assetLock' = [a \in Assets |-> IF assetLock[a] = s THEN None ELSE assetLock[a]]

RollBack(s) == Release(s) /\ UNCHANGED <<sessionVars, versions, count, current, exists>>

(* Mutant: the row of an existing asset is read without FOR UPDATE. *)
RegisterUnlocked(s) ==
  LET a == target[s].asset IN
  /\ register[s] = "begun"
  /\ IF target[s].new /\ exists[a]
     THEN RollBack(s)
     ELSE /\ register' = [register EXCEPT ![s] = "locked"]
          /\ UNCHANGED <<sessionVars, versions, count, current, exists, assetLock, number>>
  /\ UNCHANGED daemonVars

(* A new asset's row is inserted, unless the name is taken; an existing one's *)
(* is locked.                                                                 *)
RegisterAsset(s) ==
  LET a == target[s].asset IN
  /\ register[s] = "begun"
  /\ assetLock[a] = None
  /\ IF target[s].new /\ exists[a]
     THEN RollBack(s)
     ELSE /\ assetLock' = [assetLock EXCEPT ![a] = s]
          /\ register' = [register EXCEPT ![s] = "locked"]
          /\ UNCHANGED <<sessionVars, versions, count, current, exists, number>>
  /\ UNCHANGED daemonVars

Latest(a) == CHOOSE n \in {0} \union {v.number : v \in versions[a]} :
               \A v \in versions[a] : v.number <= n

SameRaw(s) == {v \in versions[target[s].asset] : v.raw = raw[s]}

(* Mutant: the first snapshot of the same raw content will do. *)
ReuseAnyMapping(s) == SameRaw(s)

(* Same content and same canonical form: that snapshot is returned. *)
Reusable(s) == {v \in SameRaw(s) : v.mapping = result[s].mapping}

(* The query for duplicates, and MAX(version_number) + 1. *)
RegisterRead(s) ==
  /\ register[s] = "locked"
  /\ IF SameRaw(s) = {}
     THEN /\ register' = [register EXCEPT ![s] = "read"]
          /\ number' = [number EXCEPT ![s] = Latest(target[s].asset) + 1]
          /\ UNCHANGED <<status, snapshot, exists, assetLock>>
     ELSE IF Reusable(s) = {}
     THEN Release(s) /\ UNCHANGED <<status, snapshot, exists>>
     ELSE /\ status' = [status EXCEPT ![s] = "REGISTERED"]
          /\ \E v \in Reusable(s) : snapshot' = [snapshot EXCEPT ![s] = v.number]
          /\ exists' = [exists EXCEPT ![target[s].asset] = TRUE]
          /\ Release(s)
  /\ UNCHANGED <<reason, content, lease, overdue, result, daemonVars, versions, count, current>>

(* The new version breaks a unique index of dataset_snapshots. *)
Collides(s) == \E v \in versions[target[s].asset] : v.number = number[s] \/ v.raw = raw[s]

(* Mutant: version_count and current_snapshot_id are those of another writer. *)
RegisterCountLost(s) ==
  LET a == target[s].asset IN
  /\ register[s] = "read" /\ ~Collides(s)
  /\ versions' = [versions EXCEPT ![a] =
       @ \union {[number |-> number[s], raw |-> raw[s], mapping |-> result[s].mapping]}]
  /\ current' = [current EXCEPT ![a] = number[s]]
  /\ exists' = [exists EXCEPT ![a] = TRUE]
  /\ status' = [status EXCEPT ![s] = "REGISTERED"]
  /\ snapshot' = [snapshot EXCEPT ![s] = number[s]]
  /\ Release(s)
  /\ UNCHANGED <<reason, content, lease, overdue, result, daemonVars, count>>

(* The INSERT of the snapshot, the asset's counters, the session, the commit. *)
RegisterWrite(s) ==
  LET a == target[s].asset IN
  /\ register[s] = "read" /\ ~Collides(s)
  /\ versions' = [versions EXCEPT ![a] =
       @ \union {[number |-> number[s], raw |-> raw[s], mapping |-> result[s].mapping]}]
  /\ count' = [count EXCEPT ![a] = @ + 1]
  /\ current' = [current EXCEPT ![a] = number[s]]
  /\ exists' = [exists EXCEPT ![a] = TRUE]
  /\ status' = [status EXCEPT ![s] = "REGISTERED"]
  /\ snapshot' = [snapshot EXCEPT ![s] = number[s]]
  /\ Release(s)
  /\ UNCHANGED <<reason, content, lease, overdue, result, daemonVars>>

(* An error, among them a unique index broken, or the end of the pod. *)
RegisterFails(s) ==
  /\ register[s] # "no"
  /\ RollBack(s)
  /\ UNCHANGED daemonVars

(* create_asset: an asset without versions. *)
CreateAsset(a) ==
  /\ ~exists[a] /\ assetLock[a] = None
  /\ exists' = [exists EXCEPT ![a] = TRUE]
  /\ UNCHANGED <<sessionVars, daemonVars, versions, count, current, assetLock, register, number>>

Registering(s) ==
  RegisterBegin(s) \/ RegisterAsset(s) \/ RegisterRead(s) \/ RegisterWrite(s)

Outcome == {<<"VERIFIED", None>>, <<"REJECTED", "COLUMN_NAMES">>, <<"REJECTED", "INVALID">>,
            <<"FAILED", "WORKER_ERROR">>}

Main(w) ==
  Select(w) \/ Claim(w) \/ Begin(w) \/ \E o \in Outcome : Finish(w, o[1], o[2])

Next ==
  \/ \E s \in Sessions :
       \/ \E a \in Assets, new \in BOOLEAN, object \in Raws \union {None} :
            Create(s, a, new, object)
       \/ \E object \in Raws : Stage(s, object)
       \/ \E m \in Mappings : Configure(s, m)
       \/ Abort(s) \/ Overdue(s) \/ Lapse(s) \/ Registering(s) \/ RegisterFails(s)
  \/ \E w \in Workers : Main(w) \/ Beat(w) \/ Drop(w)
  \/ \E a \in Assets : CreateAsset(a)

Spec == Init /\ [][Next]_vars

(* A daemon keeps working and does not fail in every one of its claims, and a *)
(* lease nobody renews runs out.  Clients and registrations owe nothing.      *)
Fairness ==
  /\ \A w \in Workers : WF_vars(Main(w))
  /\ \A s \in Sessions : WF_vars(Lapse(s))
  /\ \A w \in Workers : SF_vars(Claim(w))

FairSpec == Spec /\ Fairness
----------------------------------------------------------------------------
(* Properties *)

(* A verified session shows what its last lease computed from the mapping now *)
(* in force: neither a preempted daemon nor a reconfiguration leaves an older *)
(* inspection behind.                                                         *)
VerifiedIsOfLastAttempt ==
  \A s \in Sessions :
    status[s] \in {"VERIFIED", "REGISTERED"} =>
      result[s] = [gen |-> generation[s], mapping |-> mapping[s]]

(* The snapshot a session was registered as holds its content in the form its *)
(* mapping gives, also when an older snapshot was reused.                     *)
RegisteredIsVerified ==
  \A s \in Sessions :
    status[s] = "REGISTERED" =>
      [number |-> snapshot[s], raw |-> raw[s], mapping |-> mapping[s]]
        \in versions[target[s].asset]

(* An asset's versions are numbered without gaps, hold different contents,    *)
(* and the asset's counter and current snapshot agree with them.              *)
VersionsAreDense ==
  \A a \in Assets :
    /\ {v.number : v \in versions[a]} = 1 .. count[a]
    /\ Cardinality(versions[a]) = count[a]
    /\ Cardinality({v.raw : v \in versions[a]}) = count[a]
    /\ current[a] = count[a]

(* Concurrent registrations of one asset never run into its unique indexes:   *)
(* the lock on its row is taken early enough.                                 *)
RegistrationNeverCollides ==
  \A s \in Sessions : register[s] = "read" => ~Collides(s)

Import == INSTANCE ImportLifecycle WITH
  phase <- status,
  asset <- [s \in Sessions |-> IF status[s] = "ABSENT" THEN None ELSE target[s].asset],
  catalog <- [a \in Assets |-> {[raw |-> v.raw, mapping |-> v.mapping] : v \in versions[a]}]

(* Daemons, leases and registrations, however they overlap, implement the     *)
(* life cycle of an import: what a registration adds to the asset, or finds   *)
(* there, is the content under the mapping then in force, and no statement of *)
(* another transaction comes between what it has checked and what it writes.  *)
ImplementsImport == Import!Spec

(* A session leaves VERIFYING by the daemon of its latest lease only, in an   *)
(* inspection that began before that lease ran out and was given the mapping  *)
(* still in force; a preempted daemon and a late one decide nothing.          *)
DecidedByOwner ==
  [][\A s \in Sessions :
       status[s] = "VERIFYING" /\ status'[s] \in {"VERIFIED", "REJECTED", "FAILED"} =>
         \E w \in Workers :
           /\ job[w] # None /\ job[w].session = s /\ job'[w] = None
           /\ job[w].step = "inspecting" /\ job[w].live
           /\ job[w].gen = generation[s] /\ job[w].mapping = mapping[s]]_vars

Undecided(s) == status[s] \in {"STAGED", "VERIFYING"}

(* A staged import is decided, as long as no import waits that is spent.      *)
EveryImportDecided ==
  \A s \in Sessions :
    Undecided(s) ~> ~Undecided(s) \/ \E q \in Sessions : DispatcherUpdates(q) /\ Spent(q)

(* What test_worker_expired_session_marked_failed says of the worker: a       *)
(* staged session past its expiry is marked as failed.                        *)
OverdueIsMarkedFailed ==
  \A s \in Sessions : status[s] = "STAGED" /\ overdue[s] ~> status[s] # "STAGED"
=============================================================================
