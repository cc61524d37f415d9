----------------------------- MODULE Protection -----------------------------
(* What is masked: reviews of findings, declarations, and the readers that    *)
(* resolve the protection of the snapshot, a statement at a time under READ   *)
(* COMMITTED, while scans are queued and published and rules are revised.     *)
(*                                                                            *)
(* A reader resolves once and answers (previews, profiles, classifications),  *)
(* or writes a masked export and resolves again before it releases it.        *)
EXTENDS PrivacyScan

CONSTANTS Readers,
          MaxVersion   \* bound on the version that people's changes make

ASSUME ProtectionAssumption == None \notin Readers /\ MaxVersion \in Nat

VARIABLES declared,    \* asset_column_classifications: the column is declared sensitive
          dismissed,   \* history: rule revisions whose finding a reviewer has dismissed
          rpc,         \* a reader: its next statement
          got,         \* what its statements have read so far
          first,       \* an export's first view, or None
          open,        \* history: the column was unprotected at some moment of this resolve
          calm         \* history: no rule was revised since the reader began

readerVars == <<rpc, got, first>>
vars == <<scanVars, declared, dismissed, readerVars, open, calm>>

View == [version : Nat, declared : BOOLEAN, detected : BOOLEAN, protected : BOOLEAN]
Blank == [version |-> 0, declared |-> FALSE, detected |-> FALSE, protected |-> TRUE]

TypeOK ==
  /\ ScanTypeOK
  /\ declared \in BOOLEAN
  /\ dismissed \subseteq [rule : Rules, revision : Nat]
  /\ rpc \in [Readers -> {"version", "declarations", "findings", "state", "resolved"}]
  /\ got \in [Readers -> View]
  /\ first \in [Readers -> View \union {None}]
  /\ open \in [Readers -> BOOLEAN]
  /\ calm \in [Readers -> BOOLEAN]

----------------------------------------------------------------------------
(* Protection, as it is stored *)

(* ACTIVE_FINDINGS_SQL: confirmed findings of any scan, and those of the      *)
(* latest one that is COMPLETE.                                               *)
Detected ==
  \E f \in findings :
    f.status = "CONFIRMED" \/ (f.status # "DISMISSED" /\ f.scan = Latest(Published))

(* The latest scan decides, when it is COMPLETE and not stale. *)
Verified ==
  /\ Latest(Applied) # None
  /\ State(Latest(Applied)) = "COMPLETE"
  /\ job[Latest(Applied)].config = Len(config)

Protected == declared \/ Detected \/ ~Verified

----------------------------------------------------------------------------
(* resolve_snapshot_protection *)

Read(r, next, record) ==
  /\ rpc' = [rpc EXCEPT ![r] = next]
  /\ got' = [got EXCEPT ![r] = record]
  /\ UNCHANGED <<scanVars, declared, dismissed, first>>

ReadVersion(r) ==
  /\ rpc[r] = "version"
  /\ Read(r, "declarations", [Blank EXCEPT !.version = version])

ReadDeclarations(r) ==
  /\ rpc[r] = "declarations"
  /\ Read(r, "findings", [got[r] EXCEPT !.declared = declared])

ReadFindings(r) ==
  /\ rpc[r] = "findings"
  /\ Read(r, "state", [got[r] EXCEPT !.detected = Detected])

ReadScanState(r) ==
  /\ rpc[r] = "state"
  /\ Read(r, "resolved", [got[r] EXCEPT !.protected = got[r].declared \/ got[r].detected \/ ~Verified])

Resolve(r) == ReadVersion(r) \/ ReadDeclarations(r) \/ ReadFindings(r) \/ ReadScanState(r)

Leave(r) ==
  /\ rpc' = [rpc EXCEPT ![r] = "version"]
  /\ got' = [got EXCEPT ![r] = Blank]
  /\ first' = [first EXCEPT ![r] = None]

Resolved(r) == rpc[r] = "resolved"

(* The view is the answer; or an export fails while it reads the object. *)
Answer(r) ==
  /\ Resolved(r) /\ first[r] = None
  /\ Leave(r)
  /\ UNCHANGED <<scanVars, declared, dismissed>>

(* An export masks by its first view, without a transaction, and resolves     *)
(* again in a new one.                                                        *)
WriteExport(r) ==
  /\ Resolved(r) /\ first[r] = None
  /\ first' = [first EXCEPT ![r] = got[r]]
  /\ rpc' = [rpc EXCEPT ![r] = "version"]
  /\ got' = [got EXCEPT ![r] = Blank]
  /\ UNCHANGED <<scanVars, declared, dismissed>>

(* Mutant: only the columns are compared. *)
ReleasableByColumns(r) == got[r].protected = first[r].protected

Releasable(r) ==
  got[r].version = first[r].version /\ got[r].protected = first[r].protected

(* The artifact is released, or deleted: POLICY_VERSION_CONFLICT. *)
EndExport(r) ==
  /\ Resolved(r) /\ first[r] # None
  /\ Leave(r)
  /\ UNCHANGED <<scanVars, declared, dismissed>>

----------------------------------------------------------------------------
(* People's changes, under the asset's locks: the one that Publish takes too. *)

Change == assetLock = None /\ version < MaxVersion

UnchangedByPeople == <<config, job, order, request, pinned, assetLock, workerVars, results, faults>>

(* Mutant: a review does not count as a change. *)
ReviewUnversioned(f, status) ==
  /\ Change
  /\ findings' = (findings \ {f}) \union {[f EXCEPT !.status = status]}
  /\ dismissed' = IF status = "DISMISSED"
                  THEN dismissed \union {[rule |-> f.rule, revision |-> f.revision]} ELSE dismissed
  /\ UNCHANGED <<UnchangedByPeople, version, declared, readerVars>>

(* update_finding_status, for a reviewer who names the finding's present      *)
(* status; of the current scan or an older one.                               *)
Review(f, status) ==
  /\ Change
  /\ findings' = (findings \ {f}) \union {[f EXCEPT !.status = status]}
  /\ version' = version + 1
  /\ dismissed' = IF status = "DISMISSED"
                  THEN dismissed \union {[rule |-> f.rule, revision |-> f.revision]} ELSE dismissed
  /\ UNCHANGED <<UnchangedByPeople, declared, readerVars>>

(* A client decides on what it has read: it names that view's version, which  *)
(* must still be the one in force.                                            *)
Decide ==
  /\ Change
  /\ version' = version + 1
  /\ UNCHANGED <<UnchangedByPeople, findings, dismissed, readerVars>>

(* update_classifications *)
Declare(sensitive) == Decide /\ declared' = sensitive

(* update_asset_protection_policy: the categories, which no column's          *)
(* protection depends on.                                                     *)
ChangePolicy == Decide /\ UNCHANGED declared

----------------------------------------------------------------------------
Init ==
  /\ ScanInit
  /\ declared = FALSE
  /\ dismissed = {}
  /\ rpc = [r \in Readers |-> "version"]
  /\ got = [r \in Readers |-> Blank]
  /\ first = [r \in Readers |-> None]
  /\ open = [r \in Readers |-> FALSE]
  /\ calm = [r \in Readers |-> TRUE]

Next ==
  \/ ScanNext /\ UNCHANGED <<declared, dismissed, readerVars>>
  \/ \E r \in Readers :
       Resolve(r) \/ Answer(r) \/ WriteExport(r) \/ EndExport(r)
  \/ \E f \in findings, status \in {"CONFIRMED", "DISMISSED"} : Review(f, status)
  \/ \E sensitive \in BOOLEAN : Declare(sensitive)
  \/ ChangePolicy

(* A resolve lasts from its first statement to its last. *)
Observe ==
  /\ open' = [r \in Readers |->
       CASE rpc'[r] = "version" -> FALSE
         [] rpc[r] = "resolved" -> open[r]
         [] OTHER -> open[r] \/ ~Protected']
  /\ calm' = [r \in Readers |->
       \/ rpc'[r] = "version" /\ first'[r] = None
       \/ calm[r] /\ config' = config]

Spec == Init /\ [][Next /\ Observe]_vars

----------------------------------------------------------------------------
(* Safety *)

(* Fail closed: a column is open only if, for every rule in force that        *)
(* matches it, a reviewer has dismissed what that very revision found; in     *)
(* whatever order scans were queued, published and reviewed and rules were    *)
(* revised.                                                                   *)
FailClosed ==
  ~Protected =>
    \A d \in Detections(Len(config)) : d \in dismissed

(* The version covers what it stands for: a view whose version is still in    *)
(* force, and which a decision may therefore be based on, shows the findings  *)
(* and declarations of the moment, though it was read in pieces.              *)
VersionCoversView ==
  \A r \in Readers :
    Resolved(r) /\ got[r].version = version =>
      got[r].detected = Detected /\ got[r].declared = declared

(* A masked export that is released leaves a column open only if that was     *)
(* unprotected at some moment of the last check, however scans, reviews and   *)
(* declarations moved between and within its two resolves; unless a rule was  *)
(* revised meanwhile, which no version of the asset counts.                   *)
ExportCoversProtection ==
  \A r \in Readers :
    Resolved(r) /\ first[r] # None /\ Releasable(r) /\ calm[r] =>
      first[r].protected \/ open[r]

(* A view read in pieces shows a column as open only if it was unprotected at *)
(* some moment of the reading.                                                *)
ViewIsOfAMoment ==
  \A r \in Readers : Resolved(r) => got[r].protected \/ open[r]
=============================================================================
