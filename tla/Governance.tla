----------------------------- MODULE Governance -----------------------------
(* The approval workflow that rulesets and scoring policies share: API        *)
(* requests that create, submit and approve revisions, each in one READ       *)
(* COMMITTED transaction that commits after the response.                     *)
(*                                                                            *)
(* row holds what is committed.  A row that a transaction has locked (FOR     *)
(* UPDATE, or by writing it) has its owner in lock, and what it has written   *)
(* and not committed in pending.                                              *)
EXTENDS Naturals

CONSTANTS Rulesets,    \* rows of rulesets
          Policies,    \* rows of scoring_policies
          Scopes,      \* (tenant, asset) for a ruleset, (tenant) for a policy
          ScopeOf,     \* the supersede_scope of a revision
          Users,
          Approvers,   \* users whose role is in APPROVER_ROLES
          Requests,    \* requests under way
          None

Revisions == Rulesets \union Policies

ASSUME GovernanceAssumption ==
  /\ Rulesets \intersect Policies = {}
  /\ ScopeOf \in [Revisions -> Scopes]
  /\ Approvers \subseteq Users
  /\ None \notin Revisions \union Requests \union Users

VARIABLES row,       \* committed revisions
          pending,   \* a written and uncommitted version, or None
          lock,      \* the request whose transaction holds the row's lock
          pc, rev, user,   \* a request: where it is, its revision, who sent it
          seen       \* the ACTIVE revision its superseding UPDATE found

rowVars == <<row, pending, lock>>
requestVars == <<pc, rev, user, seen>>
govVars == <<rowVars, requestVars>>

Status == {"ABSENT", "DRAFT", "PENDING_APPROVAL", "ACTIVE", "DEPRECATED"}
Row == [status : Status, createdBy : Users \union {None},
        submittedBy : Users \union {None}, approvedBy : Users \union {None}]
ASSUME RowAssumption == None \notin Row

Absent == [status |-> "ABSENT", createdBy |-> None, submittedBy |-> None, approvedBy |-> None]

Step == {"idle", "submitting", "superseding", "waiting", "activating", "refused", "exit"}

GovTypeOK ==
  /\ row \in [Revisions -> Row]
  /\ pending \in [Revisions -> Row \union {None}]
  /\ lock \in [Revisions -> Requests \union {None}]
  /\ pc \in [Requests -> Step]
  /\ rev \in [Requests -> Revisions \union {None}]
  /\ user \in [Requests -> Users \union {None}]
  /\ seen \in [Requests -> Revisions \union {None}]

GovInit ==
  /\ row = [v \in Revisions |-> Absent]
  /\ pending = [v \in Revisions |-> None]
  /\ lock = [v \in Revisions |-> None]
  /\ pc = [q \in Requests |-> "idle"]
  /\ rev = [q \in Requests |-> None]
  /\ user = [q \in Requests |-> None]
  /\ seen = [q \in Requests |-> None]

(* Revisions among which at most one is ACTIVE. *)
Rivals(v) == {o \in Revisions \ {v} : ScopeOf[o] = ScopeOf[v]}

Goto(q, step) == pc' = [pc EXCEPT ![q] = step]

(* The row as q's own statements see it. *)
Visible(q, v) == IF lock[v] = q /\ pending[v] # None THEN pending[v] ELSE row[v]

Write(q, v, new) ==
  /\ pending' = [pending EXCEPT ![v] = new]
  /\ lock' = [lock EXCEPT ![v] = q]
  /\ UNCHANGED row

(* A request arrives: its locals.  One that waits for its first row holds     *)
(* nothing, and is as if it had not arrived.                                  *)
Arrive(q, v, u) ==
  /\ pc[q] = "idle"
  /\ rev' = [rev EXCEPT ![q] = v]
  /\ user' = [user EXCEPT ![q] = u]
  /\ UNCHANGED seen

(* The INSERT of a DRAFT.  Its id is new. *)
InsertDraft(q, v, u) ==
  /\ Arrive(q, v, u)
  /\ row[v].status = "ABSENT" /\ pending[v] = None
  /\ Write(q, v, [Absent EXCEPT !.status = "DRAFT", !.createdBy = u])
  /\ Goto(q, "exit")

(* A ruleset comes with its rules, which no statement ever changes: what a    *)
(* trigger reads of a ruleset after its status is what was approved.          *)
CreateRuleset(q, v, u) == v \in Rulesets /\ InsertDraft(q, v, u)

CreatePolicy(q, v, u) == v \in Policies /\ InsertDraft(q, v, u)

(* SELECT ... FOR UPDATE waits for the lock and then sees what is committed.  *)
LoadForUpdate(q, v) ==
  /\ row[v].status # "ABSENT"
  /\ lock[v] = None
  /\ lock' = [lock EXCEPT ![v] = q]
  /\ UNCHANGED <<row, pending>>

Submit(q, v, u) ==
  /\ Arrive(q, v, u)
  /\ LoadForUpdate(q, v)
  /\ Goto(q, IF row[v].status = "DRAFT" THEN "submitting" ELSE "refused")

(* UPDATE ... WHERE id AND status = expected; no row is a 409. *)
Transition(q, v, expected, new) ==
  IF Visible(q, v).status = expected
  THEN Write(q, v, new) /\ Goto(q, "exit")
  ELSE Goto(q, "refused") /\ UNCHANGED rowVars

Submitting(q) ==
  /\ pc[q] = "submitting"
  /\ Transition(q, rev[q], "DRAFT",
       [row[rev[q]] EXCEPT !.status = "PENDING_APPROVAL", !.submittedBy = user[q]])
  /\ UNCHANGED <<rev, user, seen>>

(* Mutant: the submitter may approve what somebody else created. *)
MayApproveOwnSubmission(u, record) == u # record.createdBy /\ u \in Approvers

(* Independence and role of the approver. *)
MayApprove(u, record) ==
  /\ u \notin {record.createdBy, record.submittedBy}
  /\ u \in Approvers

Approve(q, v, u) ==
  /\ Arrive(q, v, u)
  /\ LoadForUpdate(q, v)
  /\ Goto(q, IF row[v].status = "PENDING_APPROVAL" /\ MayApprove(u, row[v])
             THEN "superseding" ELSE "refused")

(* Mutant: the UPDATE also takes the proposals that compete for the scope. *)
SupersedeProposals(q) ==
  LET found == {o \in Rivals(rev[q]) : row[o].status \in {"ACTIVE", "PENDING_APPROVAL"}} IN
    /\ pc[q] = "superseding"
    /\ \E o \in IF found = {} THEN {None} ELSE found :
         /\ seen' = [seen EXCEPT ![q] = o]
         /\ Goto(q, IF o = None THEN "activating" ELSE "waiting")
    /\ UNCHANGED <<rowVars, rev, user>>

(* UPDATE ... SET status = 'DEPRECATED' WHERE status = 'ACTIVE' AND scope:    *)
(* the statement looks for rows in what is committed when it starts ...       *)
Supersede(q) ==
  /\ pc[q] = "superseding"
  /\ \E o \in Rivals(rev[q]) \union {None} :
       /\ IF o = None THEN \A x \in Rivals(rev[q]) : row[x].status # "ACTIVE"
                      ELSE row[o].status = "ACTIVE"
       /\ seen' = [seen EXCEPT ![q] = o]
       /\ Goto(q, IF o = None THEN "activating" ELSE "waiting")
  /\ UNCHANGED <<rowVars, rev, user>>

(* Mutant: the superseded revision is committed on its own. *)
SupersedeAtOnce(q) ==
  /\ pc[q] = "waiting"
  /\ lock[seen[q]] = None
  /\ row' = [row EXCEPT ![seen[q]].status = "DEPRECATED"]
  /\ Goto(q, "activating")
  /\ UNCHANGED <<pending, lock, rev, user, seen>>

(* ... waits for the row's lock, and looks at the row again: one that is no   *)
(* longer ACTIVE is passed over, and stays locked.                            *)
SupersedeFound(q) ==
  /\ pc[q] = "waiting"
  /\ lock[seen[q]] = None
  /\ IF row[seen[q]].status = "ACTIVE"
     THEN Write(q, seen[q], [row[seen[q]] EXCEPT !.status = "DEPRECATED"])
     ELSE lock' = [lock EXCEPT ![seen[q]] = q] /\ UNCHANGED <<row, pending>>
  /\ Goto(q, "activating")
  /\ UNCHANGED <<rev, user, seen>>

(* A transaction that has not ended makes o ACTIVE, or no longer ACTIVE. *)
ChangesIndex(o) ==
  pending[o] # None /\ "ACTIVE" \in {row[o].status, pending[o].status}

(* The unique index of ACTIVE revisions: an insertion into it waits for the   *)
(* transactions that change its entry ...                                     *)
IndexBusy(q, v) == \E o \in Rivals(v) : lock[o] # q /\ ChangesIndex(o)

(* Mutant: a schema without the partial unique indexes. *)
IndexTakenNever(q, v) == FALSE

(* ... and fails when a rival is ACTIVE for good. *)
IndexTaken(q, v) == \E o \in Rivals(v) : Visible(q, o).status = "ACTIVE"

(* The transition to ACTIVE; a UniqueViolation is a 409. *)
Activate(q) ==
  /\ pc[q] = "activating"
  /\ ~IndexBusy(q, rev[q])
  /\ IF IndexTaken(q, rev[q])
     THEN Goto(q, "refused") /\ UNCHANGED rowVars
     ELSE Transition(q, rev[q], "PENDING_APPROVAL",
            [row[rev[q]] EXCEPT !.status = "ACTIVE", !.approvedBy = user[q]])
  /\ UNCHANGED <<rev, user, seen>>

Leave(q) ==
  /\ lock' = [v \in Revisions |-> IF lock[v] = q THEN None ELSE lock[v]]
  /\ pending' = [v \in Revisions |-> IF lock[v] = q THEN None ELSE pending[v]]
  /\ Goto(q, "idle")
  /\ rev' = [rev EXCEPT ![q] = None]
  /\ user' = [user EXCEPT ![q] = None]
  /\ seen' = [seen EXCEPT ![q] = None]

(* get_db_connection's exit after the response: everything becomes visible.   *)
Commit(q) ==
  /\ pc[q] = "exit"
  /\ row' = [v \in Revisions |-> IF lock[v] = q /\ pending[v] # None THEN pending[v] ELSE row[v]]
  /\ Leave(q)

(* A refusal raises through get_db_connection; a pod or a connection may also *)
(* be lost at any time.  Both roll back.                                      *)
Rollback(q) ==
  /\ pc[q] # "idle"
  /\ Leave(q)
  /\ UNCHANGED row

Refuse(q) == pc[q] = "refused" /\ Rollback(q)

Operation(q) ==
  \/ Submitting(q) \/ Supersede(q) \/ SupersedeFound(q) \/ Activate(q)
  \/ Commit(q) \/ Refuse(q)

GovNext ==
  \E q \in Requests :
    \/ \E v \in Revisions, u \in Users :
         \/ CreateRuleset(q, v, u) \/ CreatePolicy(q, v, u)
         \/ Submit(q, v, u) \/ Approve(q, v, u)
    \/ Operation(q) \/ Rollback(q)

GovSpec == GovInit /\ [][GovNext]_govVars

----------------------------------------------------------------------------
(* Safety *)

(* At most one revision of a scope is ACTIVE, however approvals overlap: the  *)
(* second of two that saw the same state runs into the index.                 *)
OneActivePerScope ==
  \A v, o \in Revisions :
    v # o /\ ScopeOf[v] = ScopeOf[o] => {row[v].status, row[o].status} # {"ACTIVE"}

(* A revision that is or was in force was approved by an approver who neither *)
(* created nor submitted it, over any sequence of requests by any users.      *)
ApprovedIndependently ==
  \A v \in Revisions : row[v].status \in {"ACTIVE", "DEPRECATED"} =>
    row[v].approvedBy \in Approvers \ {row[v].createdBy, row[v].submittedBy}

(* What the workflow promises: ACTIVE and DEPRECATED are both approved, and   *)
(* what is ACTIVE is in force.                                                *)
StageOf(status) ==
  CASE status = "ABSENT" -> "none"
    [] status = "DRAFT" -> "draft"
    [] status = "PENDING_APPROVAL" -> "proposed"
    [] OTHER -> "approved"

ActiveIn(s) == {v \in Revisions : ScopeOf[v] = s /\ row[v].status = "ACTIVE"}

Configuration == INSTANCE ConfigurationLifecycle WITH
  stage <- [v \in Revisions |-> StageOf(row[v].status)],
  authors <- [v \in Revisions |-> {row[v].createdBy, row[v].submittedBy} \ {None}],
  inForce <- [s \in Scopes |-> ActiveIn(s)]

(* Requests implement the lifecycle: every change of a revision is one of its *)
(* steps, a supersession is the same step as the approval that causes it, and *)
(* a scope that has a configuration in force always has one.                  *)
ImplementsConfiguration == Configuration!Spec

----------------------------------------------------------------------------
(* Waiting *)

(* The statement that q executes next waits for p's transaction to end: for a *)
(* row's lock, or for an entry of the index.                                  *)
WaitsFor(q, p) ==
  \/ pc[q] = "waiting" /\ p = lock[seen[q]]
  \/ /\ pc[q] = "activating" /\ p # q
     /\ \E o \in Rivals(rev[q]) : p = lock[o] /\ ChangesIndex(o)

(* Approvals hold one row and wait for another, or for an entry of the index, *)
(* and yet never deadlock: who waits for a row waits at most for somebody who *)
(* waits for the index, and who changes the index does not wait.              *)
NoCircularWait ==
  \A q, p, s \in Requests :
    WaitsFor(q, p) /\ WaitsFor(p, s) => \A r \in Requests : ~WaitsFor(s, r)
=============================================================================
