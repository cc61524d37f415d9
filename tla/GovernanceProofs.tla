-------------------------- MODULE GovernanceProofs --------------------------
(* Proofs about the approval workflow and the triggers of runs, for any sets  *)
(* of revisions, users, requests, runs and keys.                              *)
EXTENDS RunSubmission, TLAPS

----------------------------------------------------------------------------
(* The invariant of the workflow *)

InForce == {"ACTIVE", "DEPRECATED"}

Independent(r) == r.approvedBy \in Approvers \ {r.createdBy, r.submittedBy}

(* What may be written and not committed: the next stage of a committed row.  *)
Drafted(v, u) ==
  /\ row[v].status = "ABSENT"
  /\ pending[v] = [Absent EXCEPT !.status = "DRAFT", !.createdBy = u]

Proposed(v, u) ==
  /\ row[v].status = "DRAFT"
  /\ pending[v] = [row[v] EXCEPT !.status = "PENDING_APPROVAL", !.submittedBy = u]

Activated(v, u) ==
  /\ row[v].status = "PENDING_APPROVAL" /\ MayApprove(u, row[v])
  /\ pending[v] = [row[v] EXCEPT !.status = "ACTIVE", !.approvedBy = u]

Superseded(v) ==
  /\ row[v].status = "ACTIVE"
  /\ pending[v] = [row[v] EXCEPT !.status = "DEPRECATED"]

(* A request writes its own revision last; before that, an approval may have  *)
(* written a rival of it.                                                     *)
WrittenBy(v, q) ==
  \/ /\ v = rev[q] /\ pc[q] = "exit"
     /\ Drafted(v, user[q]) \/ Proposed(v, user[q]) \/ Activated(v, user[q])
  \/ /\ v \in Rivals(rev[q]) /\ pc[q] \in {"activating", "refused", "exit"}
     /\ Superseded(v)
     /\ row[rev[q]].status = "PENDING_APPROVAL"

RowOK(v) ==
  /\ pending[v] # None => lock[v] # None /\ WrittenBy(v, lock[v])
  /\ lock[v] # None => pc[lock[v]] # "idle"
  /\ lock[v] # None /\ pending[v] = None => row[v].status # "ABSENT"
  /\ row[v].status = "DRAFT" => row[v].submittedBy = None
  /\ row[v].status \in InForce => Independent(row[v])

RequestOK(q) ==
  /\ pc[q] # "idle" => rev[q] \in Revisions /\ user[q] \in Users /\ lock[rev[q]] = q
  /\ pc[q] \in {"submitting", "superseding", "waiting", "activating"} => pending[rev[q]] = None
  /\ pc[q] = "submitting" => row[rev[q]].status = "DRAFT"
  /\ pc[q] \in {"superseding", "waiting", "activating"} =>
       row[rev[q]].status = "PENDING_APPROVAL" /\ MayApprove(user[q], row[rev[q]])
  /\ pc[q] = "waiting" => seen[q] \in Rivals(rev[q]) /\ row[seen[q]].status \in InForce
  /\ pc[q] \in {"superseding", "waiting"} => \A v \in Revisions : lock[v] = q => v = rev[q]
  /\ pc[q] = "exit" => pending[rev[q]] # None

(* What the partial unique index has let in: a revision that is becoming      *)
(* ACTIVE has no rival that is, or is becoming, ACTIVE, except one that the   *)
(* same transaction has superseded.                                           *)
IndexOK(v, o) ==
  pending[v] # None /\ pending[v].status = "ACTIVE" =>
    /\ row[o].status = "ACTIVE" => lock[o] = lock[v] /\ pending[o] # None
    /\ pending[o] # None => pending[o].status # "ACTIVE"

GovInv ==
  /\ GovTypeOK
  /\ \A v \in Revisions : RowOK(v)
  /\ \A q \in Requests : RequestOK(q)
  /\ \A v \in Revisions : \A o \in Rivals(v) : IndexOK(v, o)
  /\ OneActivePerScope

RequestStep(q) ==
  \/ \E v \in Revisions, u \in Users :
       \/ CreateRuleset(q, v, u) \/ CreatePolicy(q, v, u)
       \/ Submit(q, v, u) \/ Approve(q, v, u)
  \/ Operation(q) \/ Rollback(q)

(* A request touches no other request, and no row that another has locked;    *)
(* what has been in force stays a revision that was approved.                 *)
Framed(q) ==
  /\ \A p \in Requests : p # q => UNCHANGED <<pc[p], rev[p], user[p], seen[p]>>
  /\ \A v \in Revisions : lock[v] \notin {q, None} => UNCHANGED <<row[v], pending[v], lock[v]>>
  /\ \A v \in Revisions : lock'[v] \in {lock[v], q, None}
  /\ \A v \in Revisions : row[v].status \in InForce => row'[v].status \in InForce

----------------------------------------------------------------------------
(* Types and frames *)

(* A revision in the next stage is a row.                                     *)
LEMMA RowType ==
  ASSUME NEW r \in Row, NEW u \in Users
  PROVE  /\ [Absent EXCEPT !.status = "DRAFT", !.createdBy = u] \in Row
         /\ [r EXCEPT !.status = "PENDING_APPROVAL", !.submittedBy = u] \in Row
         /\ [r EXCEPT !.status = "ACTIVE", !.approvedBy = u] \in Row
  BY DEF Row, Absent, Status

(* The status that the next stage of a row has.                               *)
LEMMA RowStatus ==
  ASSUME NEW r \in Row, NEW u \in Users
  PROVE  /\ [r EXCEPT !.status = "PENDING_APPROVAL", !.submittedBy = u].status = "PENDING_APPROVAL"
         /\ [r EXCEPT !.status = "ACTIVE", !.approvedBy = u].status = "ACTIVE"
  BY DEF Row

(* A superseded revision is a row.                                            *)
LEMMA DeprecatedType ==
  ASSUME NEW r \in Row
  PROVE  /\ [r EXCEPT !.status = "DEPRECATED"] \in Row
         /\ [r EXCEPT !.status = "DEPRECATED"].status = "DEPRECATED"
  BY DEF Row, Status

(* Well-typed variables stay so when a row is written.                        *)
LEMMA WriteType ==
  ASSUME GovTypeOK, NEW q \in Requests, NEW v \in Revisions, NEW new \in Row, Write(q, v, new)
  PROVE  /\ row' \in [Revisions -> Row]
         /\ pending' \in [Revisions -> Row \union {None}]
         /\ lock' \in [Revisions -> Requests \union {None}]
  BY DEF GovTypeOK, Write

(* The steps of a request keep the variables well typed.                      *)
LEMMA GovType == ASSUME GovInv, NEW q \in Requests, RequestStep(q)
                 PROVE  GovTypeOK'
<1> DEFINE Rows == /\ row' \in [Revisions -> Row]
                   /\ pending' \in [Revisions -> Row \union {None}]
                   /\ lock' \in [Revisions -> Requests \union {None}]
<1> USE DEF GovInv
<1>0. GovTypeOK
  OBVIOUS
<1>1. ASSUME NEW v \in Revisions, NEW u \in Users, InsertDraft(q, v, u)
      PROVE  GovTypeOK'
  <2>1. Rows
    BY <1>1, <1>0, RowType, WriteType DEF InsertDraft, GovTypeOK
  <2> QED BY <1>1, <2>1 DEF InsertDraft, Arrive, Goto, Step, GovTypeOK
<1>2. ASSUME NEW v \in Revisions, NEW u \in Users, Submit(q, v, u) \/ Approve(q, v, u)
      PROVE  GovTypeOK'
  BY <1>2 DEF Submit, Approve, LoadForUpdate, Arrive, Goto, Step, GovTypeOK
<1>3. CASE Submitting(q)
  <2>1. rev[q] \in Revisions /\ user[q] \in Users
    BY <1>3 DEF Submitting, RequestOK
  <2>2. Rows
    BY <1>0, <1>3, <2>1, RowType, WriteType DEF Submitting, Transition, rowVars, GovTypeOK
  <2> QED BY <1>3, <2>2 DEF Submitting, Transition, Goto, Step, GovTypeOK
<1>4. CASE Supersede(q)
  BY <1>4 DEF Supersede, Rivals, rowVars, Goto, Step, GovTypeOK
<1>5. CASE SupersedeFound(q)
  <2>1. seen[q] \in Revisions
    BY <1>5 DEF SupersedeFound, RequestOK, Rivals
  <2>2. Rows
    <3>1. CASE lock' = [lock EXCEPT ![seen[q]] = q] /\ UNCHANGED <<row, pending>>
      BY <3>1 DEF GovTypeOK
    <3>2. CASE Write(q, seen[q], [row[seen[q]] EXCEPT !.status = "DEPRECATED"])
      <4>1. [row[seen[q]] EXCEPT !.status = "DEPRECATED"] \in Row
        BY <1>0, <2>1, DeprecatedType DEF GovTypeOK
      <4> QED BY <1>0, <2>1, <3>2, <4>1, WriteType
    <3> QED BY <1>5, <3>1, <3>2 DEF SupersedeFound
  <2> QED BY <1>5, <2>2 DEF SupersedeFound, Goto, Step, GovTypeOK
<1>6. CASE Activate(q)
  <2>1. rev[q] \in Revisions /\ user[q] \in Users
    BY <1>6 DEF Activate, RequestOK
  <2>2. Rows
    BY <1>0, <1>6, <2>1, RowType, WriteType DEF Activate, Transition, rowVars, GovTypeOK
  <2> QED BY <1>6, <2>2 DEF Activate, Transition, Goto, Step, GovTypeOK
<1>7. CASE Commit(q) \/ Rollback(q)
  BY <1>7 DEF Commit, Rollback, Leave, Goto, Step, GovTypeOK
<1> QED BY <1>1, <1>2, <1>3, <1>4, <1>5, <1>6, <1>7
        DEF RequestStep, Operation, CreateRuleset, CreatePolicy, Refuse

(* What a request may touch.                                                  *)
LEMMA GovFrame == ASSUME GovInv, NEW q \in Requests, RequestStep(q)
                  PROVE  Framed(q)
<1> USE DEF GovInv, GovTypeOK, Framed
<1>1. ASSUME NEW v \in Revisions, NEW u \in Users, InsertDraft(q, v, u)
      PROVE  Framed(q)
  BY <1>1 DEF InsertDraft, Arrive, Goto, Write, RowOK
<1>2. ASSUME NEW v \in Revisions, NEW u \in Users, Submit(q, v, u) \/ Approve(q, v, u)
      PROVE  Framed(q)
  BY <1>2 DEF Submit, Approve, LoadForUpdate, Arrive, Goto
<1>3. CASE Submitting(q)
  BY <1>3 DEF Submitting, Transition, Write, rowVars, Goto, RequestOK
<1>4. CASE Supersede(q)
  BY <1>4 DEF Supersede, rowVars, Goto
<1>5. CASE SupersedeFound(q)
  BY <1>5 DEF SupersedeFound, Write, rowVars, Goto, RequestOK, Rivals
<1>6. CASE Activate(q)
  BY <1>6 DEF Activate, Transition, Write, rowVars, Goto, RequestOK
<1>7. CASE Commit(q)
  <2>1. ASSUME NEW v \in Revisions, row[v].status \in InForce
        PROVE  row'[v].status \in InForce
    <3>1. CASE lock[v] = q /\ pending[v] # None
      <4>1. Superseded(v)
        BY <2>1, <3>1 DEF RowOK, WrittenBy, Drafted, Proposed, Activated, InForce
      <4>2. row'[v] = [row[v] EXCEPT !.status = "DEPRECATED"]
        BY <1>7, <3>1, <4>1 DEF Commit, Superseded
      <4> QED BY <4>2, DeprecatedType DEF InForce
    <3> QED BY <1>7, <2>1, <3>1 DEF Commit
  <2> QED BY <1>7, <2>1 DEF Commit, Leave, Goto
<1>8. CASE Rollback(q)
  BY <1>8 DEF Rollback, Leave, Goto
<1> QED BY <1>1, <1>2, <1>3, <1>4, <1>5, <1>6, <1>7, <1>8
        DEF RequestStep, Operation, CreateRuleset, CreatePolicy, Refuse

(* What a request relies on is not disturbed by another.                      *)
LEMMA OthersKeep == ASSUME GovInv, NEW q \in Requests, Framed(q), NEW p \in Requests, p # q
                    PROVE  RequestOK(p)'
<1>1. p # None
  BY GovernanceAssumption
<1> QED BY <1>1 DEF GovInv, GovTypeOK, Framed, RequestOK, Rivals, MayApprove

(* A row that another request holds stays in order.                           *)
LEMMA HeldRowsKeep ==
  ASSUME GovInv, NEW q \in Requests, Framed(q), NEW v \in Revisions, lock[v] \notin {q, None}
  PROVE  RowOK(v)'
<1> DEFINE p == lock[v]
<1>1. p \in Requests /\ p # q
  BY DEF GovInv, GovTypeOK
<1>2. UNCHANGED <<row[v], pending[v], lock[v], pc[p], rev[p], user[p]>>
  BY <1>1 DEF Framed
<1>3. pc[p] # "idle" => rev[p] \in Revisions /\ lock[rev[p]] = p
  BY <1>1 DEF GovInv, RequestOK
<1>4. pc[p] # "idle" => UNCHANGED row[rev[p]]
  BY <1>1, <1>3 DEF Framed, GovInv, GovernanceAssumption
<1>5. RowOK(v)
  BY DEF GovInv
<1>6. ASSUME pending[v] # None
      PROVE  WrittenBy(v, p)'
  <2>1. WrittenBy(v, p) /\ pc[p] # "idle" /\ p # None
    BY <1>1, <1>5, <1>6, GovernanceAssumption DEF RowOK
  <2>2. UNCHANGED row[rev[p]]
    BY <1>4, <2>1
  <2> HIDE DEF p
  <2> QED BY <1>2, <2>1, <2>2 DEF WrittenBy, Drafted, Proposed, Activated, Superseded, Rivals
<1> QED BY <1>2, <1>5, <1>6 DEF RowOK, Independent

----------------------------------------------------------------------------
(* Each step keeps the invariant *)

(* Arriving with a new revision keeps the invariant.                          *)
LEMMA InsertKeeps ==
  ASSUME GovInv, NEW q \in Requests, NEW v \in Revisions, NEW u \in Users, InsertDraft(q, v, u),
         RequestStep(q)
  PROVE  GovInv'
<1>0. GovTypeOK /\ GovTypeOK' /\ Framed(q) /\ None \notin Requests \union Row
  BY GovType, GovFrame, GovernanceAssumption, RowAssumption DEF GovInv
<1>1. /\ lock[v] = None /\ lock' = [lock EXCEPT ![v] = q] /\ row' = row
      /\ pending' = [pending EXCEPT ![v] = [Absent EXCEPT !.status = "DRAFT", !.createdBy = u]]
      /\ pc'[q] = "exit" /\ rev'[q] = v /\ user'[q] = u
      /\ row[v].status = "ABSENT" /\ pc[q] = "idle"
  BY <1>0 DEF InsertDraft, Arrive, Write, Goto, GovTypeOK, GovInv, RowOK
<1>2. pending'[v] # None /\ pending'[v].status = "DRAFT"
  <2>1. [Absent EXCEPT !.status = "DRAFT", !.createdBy = u] \in Row
    BY DEF Row, Absent, Status
  <2> QED BY <1>0, <1>1, <2>1 DEF Absent, GovTypeOK
<1>3. \A x \in Revisions : lock[x] # q
  BY <1>0, <1>1 DEF GovInv, RowOK
<1>4. \A x \in Revisions : RowOK(x)'
  <2>1. ASSUME NEW x \in Revisions, x # v, lock[x] = None
        PROVE  RowOK(x)'
    BY <1>0, <1>1, <2>1 DEF GovInv, GovTypeOK, RowOK
  <2>2. RowOK(v)'
    BY <1>0, <1>1, <1>2 DEF GovTypeOK, RowOK, WrittenBy, Drafted, InForce
  <2> QED BY <1>3, <2>1, <2>2, <1>0, HeldRowsKeep
<1>5. \A p \in Requests : RequestOK(p)'
  BY <1>0, <1>1, <1>2, OthersKeep DEF RequestOK, GovTypeOK
<1>6. \A x \in Revisions : \A o \in Rivals(x) : IndexOK(x, o)'
  BY <1>0, <1>1, <1>2 DEF GovInv, IndexOK, Rivals, GovTypeOK
<1>7. OneActivePerScope'
  BY <1>1 DEF GovInv, OneActivePerScope
<1> QED BY <1>0, <1>4, <1>5, <1>6, <1>7 DEF GovInv

(* SELECT ... FOR UPDATE keeps the invariant.                                 *)
LEMMA LoadKeeps ==
  ASSUME GovInv, NEW q \in Requests, NEW v \in Revisions, NEW u \in Users,
         Submit(q, v, u) \/ Approve(q, v, u), RequestStep(q)
  PROVE  GovInv'
<1>0. GovTypeOK /\ GovTypeOK' /\ Framed(q) /\ None \notin Requests \union Row
  BY GovType, GovFrame, GovernanceAssumption, RowAssumption DEF GovInv
<1>1. /\ lock[v] = None /\ lock' = [lock EXCEPT ![v] = q] /\ row' = row /\ pending' = pending
      /\ rev'[q] = v /\ user'[q] = u /\ pc[q] = "idle" /\ row[v].status # "ABSENT"
      /\ \/ pc'[q] = "refused"
         \/ pc'[q] = "submitting" /\ row[v].status = "DRAFT"
         \/ pc'[q] = "superseding" /\ row[v].status = "PENDING_APPROVAL" /\ MayApprove(u, row[v])
  BY <1>0 DEF Submit, Approve, Arrive, LoadForUpdate, Goto, GovTypeOK
<1>2. pending[v] = None
  BY <1>1 DEF GovInv, RowOK
<1>3. \A x \in Revisions : lock[x] # q
  BY <1>0, <1>1 DEF GovInv, RowOK
<1>4. \A x \in Revisions : RowOK(x)'
  <2>1. ASSUME NEW x \in Revisions, x # v, lock[x] = None
        PROVE  RowOK(x)'
    BY <1>0, <1>1, <2>1 DEF GovInv, GovTypeOK, RowOK
  <2>2. RowOK(v)'
    BY <1>0, <1>1, <1>2 DEF GovInv, GovTypeOK, RowOK
  <2> QED BY <1>3, <2>1, <2>2, <1>0, HeldRowsKeep
<1>5. \A p \in Requests : RequestOK(p)'
  <2>1. \A x \in Revisions : lock'[x] = q => x = v
    BY <1>0, <1>1, <1>3 DEF GovTypeOK
  <2>2. RequestOK(q)'
    BY <1>0, <1>1, <1>2, <2>1 DEF RequestOK, GovTypeOK, MayApprove
  <2> QED BY <1>0, <2>2, OthersKeep
<1>6. \A x \in Revisions : \A o \in Rivals(x) : IndexOK(x, o)'
  BY <1>0, <1>1, <1>2 DEF GovInv, IndexOK, Rivals, GovTypeOK, RowOK
<1>7. OneActivePerScope'
  BY <1>1 DEF GovInv, OneActivePerScope
<1> QED BY <1>0, <1>4, <1>5, <1>6, <1>7 DEF GovInv

(* A request's last write, of its own revision, keeps the invariant if the    *)
(* revision does not become ACTIVE beside another.                            *)
LEMMA WriteKeeps ==
  ASSUME GovInv, NEW q \in Requests, RequestStep(q), pc[q] \in {"submitting", "activating"},
         NEW v \in Revisions, rev[q] = v, NEW new \in Row, Write(q, v, new), Goto(q, "exit"),
         UNCHANGED <<rev, user, seen>>, (Proposed(v, user[q]) \/ Activated(v, user[q]))',
         new.status = "ACTIVE" => ~IndexBusy(q, v) /\ ~IndexTaken(q, v)
  PROVE  GovInv'
<1>0. GovTypeOK /\ GovTypeOK' /\ Framed(q) /\ None \notin Requests \union Row
  BY GovType, GovFrame, GovernanceAssumption, RowAssumption DEF GovInv
<1>1. lock[v] = q /\ pending[v] = None
  BY DEF GovInv, RequestOK
<1>2. /\ lock' = lock /\ row' = row /\ pending' = [pending EXCEPT ![v] = new]
      /\ pc'[q] = "exit" /\ rev' = rev /\ user' = user
  BY <1>0, <1>1 DEF Write, Goto, GovTypeOK
<1>4. \A x \in Revisions : RowOK(x)'
  <2>1. ASSUME NEW x \in Revisions, lock[x] = None
        PROVE  RowOK(x)'
    BY <1>0, <1>1, <1>2, <2>1 DEF GovInv, GovTypeOK, RowOK
  <2>2. ASSUME NEW x \in Revisions, x # v, lock[x] = q
        PROVE  RowOK(x)'
    <3>1. RowOK(x) /\ pending'[x] = pending[x] /\ pc[q] # "idle"
      BY <1>1, <1>2, <1>0, <2>2 DEF GovInv, GovTypeOK
    <3>2. pending[x] # None => WrittenBy(x, q)'
      BY <1>2, <2>2, <3>1 DEF RowOK, WrittenBy, Superseded
    <3> QED BY <1>0, <1>2, <2>2, <3>1, <3>2 DEF RowOK
  <2>3. RowOK(v)'
    <3>1. RowOK(v) /\ pending'[v] = new
      BY <1>1, <1>2, <1>0 DEF GovInv, GovTypeOK
    <3>2. WrittenBy(v, q)'
      BY <1>2 DEF WrittenBy
    <3> QED BY <1>0, <1>1, <1>2, <3>1, <3>2 DEF RowOK
  <2> QED BY <1>0, <2>1, <2>2, <2>3, HeldRowsKeep
<1>5. \A p \in Requests : RequestOK(p)'
  <2>1. RequestOK(q)'
    BY <1>0, <1>1, <1>2 DEF RequestOK, GovTypeOK, GovInv
  <2> QED BY <1>0, <2>1, OthersKeep
<1>6. \A x \in Revisions : \A o \in Rivals(x) : IndexOK(x, o)'
  <2> SUFFICES ASSUME NEW x \in Revisions, NEW o \in Rivals(x)
               PROVE  IndexOK(x, o)'
    OBVIOUS
  <2>0. o \in Revisions /\ x # o /\ IndexOK(x, o) /\ Rivals(v) \subseteq Revisions
    BY DEF Rivals, GovInv
  <2>1. CASE x = v
    <3>1. new.status = "ACTIVE" =>
            /\ row[o].status = "ACTIVE" => lock[o] = q /\ pending[o] # None
            /\ pending[o] # None => pending[o].status # "ACTIVE"
      BY <1>0, <2>0, <2>1 DEF IndexBusy, ChangesIndex, IndexTaken, Visible
    <3> QED BY <1>0, <1>1, <1>2, <2>0, <2>1, <3>1 DEF IndexOK, GovTypeOK
  <2>2. CASE o = v
    <3>1. x \in Rivals(v) /\ row[v].status # "ACTIVE"
      BY <2>0, <2>2, <1>2 DEF Rivals, Proposed, Activated
    <3>2. new.status = "ACTIVE" => (pending[x] # None => pending[x].status # "ACTIVE")
      BY <1>0, <2>0, <3>1 DEF IndexBusy, ChangesIndex, IndexTaken, Visible
    <3> QED BY <1>0, <1>1, <1>2, <2>0, <2>2, <3>1, <3>2 DEF IndexOK, GovTypeOK
  <2>3. CASE x # v /\ o # v
    BY <1>0, <1>2, <2>0, <2>3 DEF IndexOK, GovTypeOK
  <2> QED BY <2>1, <2>2, <2>3
<1>7. OneActivePerScope'
  BY <1>2 DEF GovInv, OneActivePerScope
<1> QED BY <1>0, <1>4, <1>5, <1>6, <1>7 DEF GovInv

(* The step of submit_for_approval keeps the invariant.                       *)
LEMMA SubmittingKeeps == ASSUME GovInv, NEW q \in Requests, Submitting(q), RequestStep(q)
                         PROVE  GovInv'
<1> DEFINE new == [row[rev[q]] EXCEPT !.status = "PENDING_APPROVAL", !.submittedBy = user[q]]
<1>0. GovTypeOK /\ RequestOK(q) /\ pc[q] = "submitting"
  BY DEF GovInv, Submitting
<1>1. /\ rev[q] \in Revisions /\ user[q] \in Users /\ lock[rev[q]] = q /\ pending[rev[q]] = None
      /\ row[rev[q]].status = "DRAFT"
  BY <1>0 DEF RequestOK
<1>2. new \in Row /\ new.status = "PENDING_APPROVAL"
  <2>1. row[rev[q]] \in Row
    BY <1>0, <1>1 DEF GovTypeOK
  <2> QED BY <1>1, <2>1, RowType, RowStatus
<1>3. Write(q, rev[q], new) /\ Goto(q, "exit") /\ UNCHANGED <<rev, user, seen>>
  BY <1>1 DEF Submitting, Transition, Visible
<1>4. Proposed(rev[q], user[q])'
  BY <1>0, <1>1, <1>3 DEF Proposed, Write, GovTypeOK
<1> HIDE DEF new
<1> QED BY <1>0, <1>1, <1>2, <1>3, <1>4, WriteKeeps

(* The search of the superseding UPDATE keeps the invariant.                  *)
LEMMA SupersedeKeeps == ASSUME GovInv, NEW q \in Requests, Supersede(q), RequestStep(q)
                        PROVE  GovInv'
<1>0. GovTypeOK /\ GovTypeOK' /\ Framed(q) /\ None \notin Requests \union Row
  BY GovType, GovFrame, GovernanceAssumption, RowAssumption DEF GovInv
<1>1. /\ UNCHANGED <<row, pending, lock, rev, user>> /\ pc[q] = "superseding"
      /\ \/ pc'[q] = "activating"
         \/ /\ pc'[q] = "waiting" /\ row[seen'[q]].status = "ACTIVE"
            /\ seen'[q] \in Rivals(rev[q]) \union {None} /\ seen'[q] # None
  BY <1>0 DEF Supersede, rowVars, Goto, GovTypeOK
<1>2. \A x \in Revisions : RowOK(x)'
  <2>1. ASSUME NEW x \in Revisions, lock[x] \in {q, None}
        PROVE  RowOK(x)'
    <3>1. RowOK(x)
      BY DEF GovInv
    <3>2. pending[x] = None
      BY <1>0, <1>1, <2>1, <3>1 DEF RowOK, WrittenBy
    <3> QED BY <1>0, <1>1, <2>1, <3>1, <3>2 DEF RowOK
  <2> QED BY <1>0, <2>1, HeldRowsKeep
<1>3. \A p \in Requests : RequestOK(p)'
  <2>1. RequestOK(q)'
    BY <1>0, <1>1 DEF GovInv, RequestOK, Rivals, InForce
  <2> QED BY <1>0, <2>1, OthersKeep
<1>4. \A x \in Revisions : \A o \in Rivals(x) : IndexOK(x, o)'
  BY <1>1 DEF GovInv, IndexOK, Rivals
<1>5. OneActivePerScope'
  BY <1>1 DEF GovInv, OneActivePerScope
<1> QED BY <1>0, <1>2, <1>3, <1>4, <1>5 DEF GovInv

(* The end of the superseding UPDATE keeps the invariant.                     *)
LEMMA SupersedeFoundKeeps == ASSUME GovInv, NEW q \in Requests, SupersedeFound(q), RequestStep(q)
                             PROVE  GovInv'
<1>0. GovTypeOK /\ GovTypeOK' /\ Framed(q) /\ None \notin Requests \union Row
  BY GovType, GovFrame, GovernanceAssumption, RowAssumption DEF GovInv
<1>1. PICK s \in Rivals(rev[q]) : s = seen[q] /\ lock[s] = None
  BY DEF SupersedeFound, GovInv, RequestOK
<1>2. /\ UNCHANGED <<row, rev, user, seen>> /\ pc[q] = "waiting" /\ pc'[q] = "activating"
      /\ s \in Revisions /\ s # rev[q] /\ pending[s] = None
      /\ RequestOK(q) /\ row[s].status # "ABSENT"
  BY <1>0, <1>1 DEF InForce, RequestOK, SupersedeFound, Write, rowVars, Goto, GovTypeOK, GovInv, RowOK, Rivals
<1>3. \/ UNCHANGED pending /\ lock' = [lock EXCEPT ![s] = q]
      \/ /\ row[s].status = "ACTIVE"
         /\ pending' = [pending EXCEPT ![s] = [row[s] EXCEPT !.status = "DEPRECATED"]]
         /\ lock' = [lock EXCEPT ![s] = q]
  BY <1>1 DEF SupersedeFound, Write, rowVars
<1>4. \A x \in Revisions : x # s => pending'[x] = pending[x] /\ lock'[x] = lock[x]
  BY <1>0, <1>3 DEF GovTypeOK
<1>5. \/ pending'[s] = None /\ lock'[s] = q
      \/ Superseded(s)' /\ pending'[s] \in Row /\ pending'[s].status = "DEPRECATED" /\ lock'[s] = q
  <2>1. CASE UNCHANGED pending /\ lock' = [lock EXCEPT ![s] = q]
    BY <1>0, <1>2, <2>1 DEF GovTypeOK
  <2>2. CASE /\ row[s].status = "ACTIVE"
             /\ pending' = [pending EXCEPT ![s] = [row[s] EXCEPT !.status = "DEPRECATED"]]
             /\ lock' = [lock EXCEPT ![s] = q]
    <3>1. row[s] \in Row
      BY <1>0, <1>2 DEF GovTypeOK
    <3>2. pending'[s] = [row[s] EXCEPT !.status = "DEPRECATED"] /\ lock'[s] = q
      BY <1>0, <1>2, <2>2 DEF GovTypeOK
    <3>3. pending'[s] \in Row /\ pending'[s].status = "DEPRECATED"
      BY <3>1, <3>2, DeprecatedType
    <3> QED BY <1>2, <2>2, <3>2, <3>3 DEF Superseded
  <2> QED BY <1>3, <2>1, <2>2
<1>6. \A x \in Revisions : RowOK(x)'
  <2>1. ASSUME NEW x \in Revisions, x # s, lock[x] \in {q, None}
        PROVE  RowOK(x)'
    <3>1. RowOK(x)
      BY DEF GovInv
    <3>2. pending[x] = None
      BY <1>0, <1>2, <2>1, <3>1 DEF RowOK, WrittenBy
    <3> QED BY <1>0, <1>2, <1>4, <2>1, <3>1, <3>2 DEF RowOK
  <2>2. RowOK(s)'
    <3>1. RowOK(s) /\ row[rev[q]].status = "PENDING_APPROVAL"
      BY <1>2 DEF GovInv, RequestOK
    <3>2. Superseded(s)' => WrittenBy(s, q)'
      BY <1>1, <1>2, <3>1 DEF WrittenBy, Rivals
    <3> QED BY <1>0, <1>2, <1>5, <3>1, <3>2 DEF RowOK
  <2> QED BY <1>0, <2>1, <2>2, HeldRowsKeep
<1>7. \A p \in Requests : RequestOK(p)'
  <2>1. RequestOK(q)'
    BY <1>0, <1>2, <1>4 DEF RequestOK, MayApprove
  <2> QED BY <1>0, <2>1, OthersKeep
<1>8. \A x \in Revisions : \A o \in Rivals(x) : IndexOK(x, o)'
  <2> SUFFICES ASSUME NEW x \in Revisions, NEW o \in Rivals(x)
               PROVE  IndexOK(x, o)'
    OBVIOUS
  <2>0. o \in Revisions /\ x # o /\ IndexOK(x, o) /\ RowOK(x)
    BY DEF Rivals, GovInv
  <2>1. CASE x = s
    BY <1>5, <2>1 DEF IndexOK
  <2>2. CASE o = s
    BY <1>0, <1>1, <1>2, <1>4, <1>5, <2>0, <2>2 DEF IndexOK, RowOK
  <2>3. CASE x # s /\ o # s
    BY <1>2, <1>4, <2>0, <2>3 DEF IndexOK
  <2> QED BY <2>1, <2>2, <2>3
<1>9. OneActivePerScope'
  BY <1>2 DEF GovInv, OneActivePerScope
<1> QED BY <1>0, <1>6, <1>7, <1>8, <1>9 DEF GovInv

(* The transition to ACTIVE keeps the invariant, refused or not.              *)
LEMMA ActivateKeeps == ASSUME GovInv, NEW q \in Requests, Activate(q), RequestStep(q)
                       PROVE  GovInv'
<1> DEFINE v == rev[q]
           new == [row[v] EXCEPT !.status = "ACTIVE", !.approvedBy = user[q]]
<1>0. GovTypeOK /\ GovTypeOK' /\ Framed(q) /\ None \notin Requests \union Row
  BY GovType, GovFrame, GovernanceAssumption, RowAssumption DEF GovInv
<1>1. /\ v \in Revisions /\ user[q] \in Users /\ lock[v] = q /\ pending[v] = None
      /\ row[v].status = "PENDING_APPROVAL" /\ MayApprove(user[q], row[v])
      /\ RequestOK(q) /\ pc[q] = "activating"
  BY DEF Activate, GovInv, RequestOK
<1>2. UNCHANGED <<rev, user, seen>> /\ ~IndexBusy(q, v)
  BY DEF Activate
<1>3. CASE IndexTaken(q, v)
  <2>1. UNCHANGED <<row, pending, lock>> /\ pc'[q] = "refused"
    BY <1>0, <1>3 DEF Activate, Goto, rowVars, GovTypeOK
  <2>2. \A x \in Revisions : RowOK(x)'
    <3>1. ASSUME NEW x \in Revisions, lock[x] \in {q, None}
          PROVE  RowOK(x)'
      <4>1. RowOK(x)
        BY DEF GovInv
      <4>2. pending[x] # None => WrittenBy(x, q)'
        BY <1>0, <1>1, <1>2, <2>1, <3>1, <4>1 DEF RowOK, WrittenBy, Superseded
      <4> QED BY <1>0, <2>1, <3>1, <4>1, <4>2 DEF RowOK
    <3> QED BY <1>0, <3>1, HeldRowsKeep
  <2>3. \A p \in Requests : RequestOK(p)'
    <3>1. RequestOK(q)'
      BY <1>1, <1>2, <2>1 DEF RequestOK
    <3> QED BY <1>0, <3>1, OthersKeep
  <2>4. (\A x \in Revisions : \A o \in Rivals(x) : IndexOK(x, o))' /\ OneActivePerScope'
    BY <2>1 DEF GovInv, IndexOK, Rivals, OneActivePerScope
  <2> QED BY <1>0, <2>2, <2>3, <2>4 DEF GovInv
<1>4. CASE ~IndexTaken(q, v)
  <2>1. Write(q, v, new) /\ Goto(q, "exit")
    BY <1>1, <1>4 DEF Activate, Transition, Visible
  <2>2. new \in Row
    <3>1. row[v] \in Row
      BY <1>0, <1>1 DEF GovTypeOK
    <3> QED BY <1>1, <3>1, RowType
  <2>3. Activated(v, user[q])'
    BY <1>0, <1>1, <1>2, <2>1 DEF Activated, MayApprove, Write, GovTypeOK
  <2> HIDE DEF new
  <2> QED BY <1>0, <1>1, <1>2, <1>4, <2>1, <2>2, <2>3, WriteKeeps
<1> QED BY <1>3, <1>4

(* The end of a transaction keeps the invariant: what it wrote comes into     *)
(* force together, or not at all.                                             *)
LEMMA LeaveKeeps ==
  ASSUME GovInv, NEW q \in Requests, Commit(q) \/ Rollback(q), RequestStep(q)
  PROVE  GovInv'
<1>0. GovTypeOK /\ GovTypeOK' /\ Framed(q) /\ None \notin Requests \union Row
  BY GovType, GovFrame, GovernanceAssumption, RowAssumption DEF GovInv
<1>1. /\ pc'[q] = "idle"
      /\ \A x \in Revisions : /\ lock'[x] = IF lock[x] = q THEN None ELSE lock[x]
                              /\ pending'[x] = IF lock[x] = q THEN None ELSE pending[x]
  BY <1>0 DEF Commit, Rollback, Leave, Goto, GovTypeOK
<1>2. \A x \in Revisions : \/ row'[x] = row[x] /\ (lock[x] # q \/ pending[x] = None \/ Rollback(q))
                           \/ lock[x] = q /\ pending[x] # None /\ row'[x] = pending[x]
  BY DEF Commit, Rollback
<1>3. \A x \in Revisions : RowOK(x)'
  <2>1. ASSUME NEW x \in Revisions, lock[x] \in {q, None}
        PROVE  RowOK(x)'
    <3>1. RowOK(x) /\ row[x] \in Row
      BY <1>0 DEF GovInv, GovTypeOK
    <3>2. lock'[x] = None /\ pending'[x] = None
      BY <1>0, <1>1, <2>1, <3>1 DEF RowOK
    <3>3. /\ row'[x].status = "DRAFT" => row'[x].submittedBy = None
          /\ row'[x].status \in InForce => Independent(row'[x])
      <4>1. CASE row'[x] = row[x]
        BY <3>1, <4>1 DEF RowOK
      <4>2. CASE lock[x] = q /\ pending[x] # None /\ row'[x] = pending[x]
        <5>1. WrittenBy(x, q)
          BY <3>1, <4>2 DEF RowOK
        <5>2. CASE Drafted(x, user[q])
          BY <4>2, <5>2 DEF Drafted, Absent, InForce
        <5>3. CASE Proposed(x, user[q])
          BY <3>1, <4>2, <5>3 DEF Proposed, Row, InForce
        <5>4. CASE Activated(x, user[q])
          BY <3>1, <4>2, <5>4 DEF Activated, Row, Independent, MayApprove
        <5>5. CASE Superseded(x)
          BY <3>1, <4>2, <5>5 DEF Superseded, Row, Independent, RowOK, InForce
        <5> QED BY <5>1, <5>2, <5>3, <5>4, <5>5 DEF WrittenBy
      <4> QED BY <1>2, <4>1, <4>2
    <3> QED BY <3>2, <3>3 DEF RowOK, Independent
  <2> QED BY <1>0, <2>1, HeldRowsKeep
<1>4. \A p \in Requests : RequestOK(p)'
  <2>1. RequestOK(q)'
    BY <1>1 DEF RequestOK
  <2> QED BY <1>0, <2>1, OthersKeep
<1>5. \A x \in Revisions : \A o \in Rivals(x) : IndexOK(x, o)'
  <2> SUFFICES ASSUME NEW x \in Revisions, NEW o \in Rivals(x),
                      pending'[x] # None, pending'[x].status = "ACTIVE"
               PROVE  /\ row'[o].status = "ACTIVE" => lock'[o] = lock'[x] /\ pending'[o] # None
                      /\ pending'[o] # None => pending'[o].status # "ACTIVE"
    BY DEF IndexOK, Rivals
  <2>1. o \in Revisions /\ IndexOK(x, o)
    BY DEF Rivals, GovInv
  <2>2. lock[x] # q /\ pending'[x] = pending[x] /\ lock'[x] = lock[x]
    BY <1>1
  <2> QED BY <1>1, <1>2, <2>1, <2>2 DEF IndexOK
<1>6. OneActivePerScope'
  <2> SUFFICES ASSUME NEW v \in Revisions, NEW o \in Revisions, v # o, ScopeOf[v] = ScopeOf[o],
                      row'[v].status = "ACTIVE", row'[o].status = "ACTIVE"
               PROVE  FALSE
    BY DEF OneActivePerScope
  <2>1. IndexOK(v, o) /\ IndexOK(o, v)
    BY DEF GovInv, Rivals
  <2>2. {row[v].status, row[o].status} # {"ACTIVE"}
    BY DEF GovInv, OneActivePerScope
  <2>3. CASE row'[v] = row[v] /\ row'[o] = row[o]
    BY <2>2, <2>3
  <2>4. CASE lock[v] = q /\ pending[v] # None /\ row'[v] = pending[v] /\ Commit(q)
    BY <1>2, <2>1, <2>4 DEF IndexOK, Commit
  <2>5. CASE lock[o] = q /\ pending[o] # None /\ row'[o] = pending[o] /\ Commit(q)
    BY <1>2, <2>1, <2>5 DEF IndexOK, Commit
  <2> QED BY <2>3, <2>4, <2>5 DEF Commit, Rollback
<1> QED BY <1>0, <1>3, <1>4, <1>5, <1>6 DEF GovInv

(* Every step of the workflow keeps its invariant.                            *)
LEMMA GovStepKeeps == GovInv /\ [GovNext]_govVars => GovInv'
<1>1. ASSUME GovInv, NEW q \in Requests, RequestStep(q)
      PROVE  GovInv'
  BY <1>1, InsertKeeps, LoadKeeps, SubmittingKeeps, SupersedeKeeps, SupersedeFoundKeeps, ActivateKeeps,
     LeaveKeeps
     DEF RequestStep, CreateRuleset, CreatePolicy, Operation, Refuse
<1>2. ASSUME GovInv, UNCHANGED govVars
      PROVE  GovInv'
  <2>1. /\ row' = row /\ pending' = pending /\ lock' = lock
        /\ pc' = pc /\ rev' = rev /\ user' = user /\ seen' = seen
    BY <1>2 DEF govVars, rowVars, requestVars
  <2>2. GovTypeOK'
    BY <1>2, <2>1 DEF GovInv, GovTypeOK
  <2>3. ASSUME NEW v \in Revisions
        PROVE  RowOK(v)'
    <3>1. RowOK(v)
      BY <1>2 DEF GovInv
    <3> QED BY <2>1, <3>1 DEF RowOK, WrittenBy, Drafted, Proposed, Activated, Superseded
  <2>4. ASSUME NEW q \in Requests
        PROVE  RequestOK(q)'
    BY <1>2, <2>1 DEF GovInv, RequestOK
  <2>5. (\A v \in Revisions : \A o \in Rivals(v) : IndexOK(v, o))' /\ OneActivePerScope'
    BY <1>2, <2>1 DEF GovInv, IndexOK, Rivals, OneActivePerScope
  <2> QED BY <2>2, <2>3, <2>4, <2>5 DEF GovInv
<1> QED BY <1>1, <1>2 DEF GovNext, RequestStep

(* Nothing is written at the start.                                           *)
LEMMA GovInitInv == GovInit => GovInv
<1> SUFFICES ASSUME GovInit
             PROVE  GovInv
  OBVIOUS
<1>1. Absent \in Row
  BY DEF Absent, Row, Status
<1>2. GovTypeOK
  BY <1>1 DEF GovInit, GovTypeOK, Step
<1>3. \A v \in Revisions : row[v].status = "ABSENT" /\ lock[v] = None /\ pending[v] = None
  BY DEF GovInit, Absent
<1>4. \A q \in Requests : pc[q] = "idle"
  BY DEF GovInit
<1> QED BY <1>2, <1>3, <1>4 DEF GovInv, RowOK, InForce, RequestOK, IndexOK, Rivals, OneActivePerScope

----------------------------------------------------------------------------
(* What a step does to the committed rows *)

(* Only a commit changes a row.                                               *)
LEMMA OnlyCommitWrites == ASSUME GovInv, NEW q \in Requests, RequestStep(q)
                          PROVE  UNCHANGED row \/ Commit(q)
  BY DEF RequestStep, Operation, CreateRuleset, CreatePolicy, InsertDraft, Submit, Approve, LoadForUpdate,
         Submitting, Supersede, SupersedeFound, Activate, Transition, Write, Refuse, Rollback, rowVars

(* A commit moves the request's own revision one stage on, and takes out of   *)
(* force what the approval of it supersedes.                                  *)
LEMMA CommitMoves ==
  ASSUME GovInv, NEW q \in Requests, Commit(q)
  PROVE  /\ rev[q] \in Revisions /\ user[q] \in Users
         /\ row'[rev[q]] = pending[rev[q]]
         /\ Drafted(rev[q], user[q]) \/ Proposed(rev[q], user[q]) \/ Activated(rev[q], user[q])
         /\ \A x \in Revisions \ {rev[q]} :
              \/ row'[x] = row[x]
              \/ /\ x \in Rivals(rev[q]) /\ Activated(rev[q], user[q])
                 /\ row[x].status = "ACTIVE"
                 /\ row'[x] = [row[x] EXCEPT !.status = "DEPRECATED"]
<1> DEFINE v == rev[q]
<1>1. /\ v \in Revisions /\ user[q] \in Users /\ lock[v] = q /\ pending[v] # None
      /\ pc[q] = "exit" /\ q # None
  BY GovernanceAssumption DEF Commit, GovInv, RequestOK
<1>2. row'[v] = pending[v]
  BY <1>1 DEF Commit
<1>3. Drafted(v, user[q]) \/ Proposed(v, user[q]) \/ Activated(v, user[q])
  BY <1>1 DEF GovInv, RowOK, WrittenBy, Rivals
<1>4. ASSUME NEW x \in Revisions \ {v}, row'[x] # row[x]
      PROVE  /\ x \in Rivals(v) /\ Activated(v, user[q])
             /\ row[x].status = "ACTIVE"
             /\ row'[x] = [row[x] EXCEPT !.status = "DEPRECATED"]
  <2>1. lock[x] = q /\ pending[x] # None /\ row'[x] = pending[x]
    BY <1>4 DEF Commit
  <2>2. x \in Rivals(v) /\ Superseded(x) /\ row[v].status = "PENDING_APPROVAL"
    BY <2>1 DEF GovInv, RowOK, WrittenBy
  <2> QED BY <1>3, <2>1, <2>2 DEF Superseded, Drafted, Proposed
<1> QED BY <1>1, <1>2, <1>3, <1>4

(* A revision that has been approved stays so.                                *)
LEMMA ApprovalIsForGood ==
  ASSUME GovInv, GovInv', [GovNext]_govVars, NEW v \in Revisions, Approved(v)
  PROVE  Approved(v)'
<1>1. CASE UNCHANGED row
  BY <1>1 DEF Approved
<1>2. ASSUME NEW q \in Requests, Commit(q)
      PROVE  Approved(v)'
  <2>1. row[v] \in Row /\ RowOK(v)'
    BY DEF GovInv, GovTypeOK
  <2>2. row'[v].status \in InForce
    <3>1. CASE v = rev[q]
      BY <1>2, <3>1, CommitMoves DEF Approved, Drafted, Proposed, Activated
    <3>2. CASE v # rev[q]
      BY <1>2, <2>1, <3>2, CommitMoves, DeprecatedType DEF Approved, InForce
    <3> QED BY <3>1, <3>2
  <2> QED BY <2>1, <2>2 DEF RowOK, Independent, Approved, InForce
<1> QED BY <1>1, <1>2, OnlyCommitWrites DEF GovNext, RequestStep, govVars, rowVars

----------------------------------------------------------------------------
(* The invariant of the triggers *)

TriggerOK(t) ==
  /\ tpc[t] # "idle" => ask[t] \in Ask /\ Approved(ask[t].ruleset)
  /\ tpc[t] \in {"lookup", "insert", "readback", "exit"} => Approved(ask[t].policy)
  /\ tpc[t] = "exit" =>
       /\ told[t] \in RunIds
       /\ \/ told[t] \in Stored(ask[t].key)
          \/ inserted[told[t]] # None /\ inserted[told[t]].by = t

(* An uncommitted run is the answer of its transaction, and the only run of   *)
(* its key.                                                                   *)
InsertedBy(i, t) ==
  /\ tpc[t] = "exit" /\ told[t] = i
  /\ inserted[i].ask = ask[t]
  /\ run[i] = None /\ Stored(ask[t].key) = {}

InsertedOK(i) == inserted[i] # None => InsertedBy(i, inserted[i].by)

Sole(i, j) ==
  inserted[i] # None /\ inserted[j] # None /\ inserted[i].ask.key = inserted[j].ask.key => i = j

TriggerInv ==
  /\ \A t \in Triggers : TriggerOK(t)
  /\ \A i \in RunIds : InsertedOK(i)
  /\ \A i, j \in RunIds : Sole(i, j)
  /\ RunsAreApproved
  /\ OneRunPerKey

Inv == TypeOK /\ GovInv /\ TriggerInv

TriggerStep(t) == (\E a \in Ask : ReadRuleset(t, a)) \/ Trigger(t) \/ TRollback(t)

(* The steps of a trigger keep its variables well typed.                      *)
LEMMA TriggerType == ASSUME TypeOK, TriggerInv, NEW t \in Triggers, TriggerStep(t), UNCHANGED govVars
                     PROVE  TypeOK'
<1>1. GovTypeOK'
  BY DEF TypeOK, GovTypeOK, govVars, rowVars, requestVars
<1>2. CASE \E a \in Ask : ReadRuleset(t, a)
  BY <1>1, <1>2 DEF ReadRuleset, TGoto, TypeOK
<1>3. CASE ReadPolicy(t) \/ PolicyNotApproved(t)
  BY <1>1, <1>3 DEF ReadPolicy, PolicyNotApproved, TLeave, TGoto, TypeOK
<1>4. CASE LookUp(t) \/ ReadBack(t)
  BY <1>1, <1>4 DEF LookUp, ReadBack, Stored, TGoto, TypeOK
<1>5. CASE Insert(t)
  <2>1. ask[t] \in Ask
    BY <1>5 DEF Insert, TriggerInv, TriggerOK
  <2>2. [by |-> t, ask |-> ask[t]] \in Insertion
    BY <2>1 DEF Insertion
  <2> QED BY <1>1, <1>5, <2>2 DEF Insert, Fresh, TGoto, TypeOK
<1>6. CASE TCommit(t)
  <2>1. ask[t].key \in Keys /\ told[t] \in RunIds
    BY <1>6 DEF TCommit, TriggerInv, TriggerOK, Ask
  <2>2. run' \in [RunIds -> Ask \union {None}]
    BY <1>6 DEF TCommit, TypeOK, Insertion
  <2> QED BY <1>1, <1>6, <2>1, <2>2 DEF TCommit, TLeave, TGoto, TypeOK
<1>7. CASE TRollback(t)
  BY <1>1, <1>7 DEF TRollback, TLeave, TGoto, TypeOK
<1> QED BY <1>2, <1>3, <1>4, <1>5, <1>6, <1>7 DEF TriggerStep, Trigger

(* Approvals and supersessions leave what the triggers rely on as it is.      *)
LEMMA GovKeepsTriggers ==
  ASSUME Inv, GovInv', [GovNext]_govVars, UNCHANGED submissionVars
  PROVE  TypeOK' /\ TriggerInv'
<1>1. /\ run' = run /\ inserted' = inserted /\ tpc' = tpc /\ ask' = ask /\ told' = told
      /\ settled' = settled
  BY DEF submissionVars
<1>2. TypeOK'
  BY <1>1 DEF Inv, TypeOK, GovInv
<1>3. \A v \in Revisions : Approved(v) => Approved(v)'
  BY ApprovalIsForGood DEF Inv
<1>4. \A a \in Ask : a.ruleset \in Revisions /\ a.policy \in Revisions
  BY DEF Ask, Revisions
<1>5. \A t \in Triggers : TriggerOK(t)'
  <2> SUFFICES ASSUME NEW t \in Triggers
               PROVE  TriggerOK(t)'
    OBVIOUS
  <2>1. TriggerOK(t) /\ tpc[t] \in {"idle", "policy", "lookup", "insert", "readback", "exit"}
    BY DEF Inv, TriggerInv, TypeOK
  <2>2. Stored(ask[t].key)' = Stored(ask[t].key)
    BY <1>1 DEF Stored
  <2> QED BY <1>1, <1>3, <1>4, <2>1, <2>2 DEF TriggerOK
<1>6. \A i \in RunIds : InsertedOK(i)'
  BY <1>1 DEF Inv, TriggerInv, InsertedOK, InsertedBy, Stored
<1>7. \A i, j \in RunIds : Sole(i, j)'
  BY <1>1 DEF Inv, TriggerInv, Sole
<1>8. RunsAreApproved'
  BY <1>1, <1>3, <1>4 DEF Inv, TriggerInv, RunsAreApproved, TypeOK
<1>9. OneRunPerKey'
  BY <1>1 DEF Inv, TriggerInv, OneRunPerKey, Stored
<1> QED BY <1>2, <1>5, <1>6, <1>7, <1>8, <1>9 DEF TriggerInv

(* A trigger's reads leave the runs alone.                                    *)
LEMMA ReadsKeep ==
  ASSUME Inv, NEW t \in Triggers, UNCHANGED <<row, run, inserted, settled>>, TypeOK',
         \A u \in Triggers \ {t} : UNCHANGED <<tpc[u], ask[u], told[u]>>,
         \A i \in RunIds : inserted[i] # None => inserted[i].by # t,
         TriggerOK(t)'
  PROVE  TriggerInv'
<1>3. \A u \in Triggers : TriggerOK(u)'
  <2> SUFFICES ASSUME NEW u \in Triggers \ {t}
               PROVE  TriggerOK(u)'
    OBVIOUS
  <2>1. TriggerOK(u)
    BY DEF Inv, TriggerInv
  <2>2. Stored(ask[u].key)' = Stored(ask[u].key)
    BY DEF Stored
  <2> QED BY <2>1, <2>2 DEF TriggerOK, Approved
<1>4. ASSUME NEW i \in RunIds
      PROVE  InsertedOK(i)'
  <2>1. InsertedOK(i)
    BY DEF Inv, TriggerInv
  <2>2. inserted[i] # None => inserted[i].by \in Triggers \ {t}
    BY DEF Inv, TypeOK, Insertion
  <2> QED BY <2>1, <2>2 DEF InsertedOK, InsertedBy, Stored
<1>5. (\A i, j \in RunIds : Sole(i, j))'
  BY DEF Inv, TriggerInv, Sole
<1>6. RunsAreApproved' /\ OneRunPerKey'
  BY DEF Inv, TriggerInv, RunsAreApproved, Approved, OneRunPerKey, Stored
<1> QED BY <1>3, <1>4, <1>5, <1>6 DEF TriggerInv

(* The INSERT adds the only run of its key.                                   *)
LEMMA InsertionKeeps ==
  ASSUME Inv, NEW t \in Triggers, Insert(t), Stored(ask[t].key) = {}, UNCHANGED govVars, TypeOK'
  PROVE  TriggerInv'
<1>1. PICK i \in Fresh : /\ inserted' = [inserted EXCEPT ![i] = [by |-> t, ask |-> ask[t]]]
                         /\ told' = [told EXCEPT ![t] = i]
                         /\ TGoto(t, "exit")
  BY DEF Insert
<1>2. /\ i \in RunIds /\ run[i] = None /\ inserted[i] = None
      /\ tpc[t] = "insert" /\ UNCHANGED <<run, ask, settled, row>>
      /\ \A j \in RunIds : inserted[j] # None => inserted[j].ask.key # ask[t].key
  BY DEF Fresh, Insert, govVars, rowVars
<1>3. /\ inserted'[i] = [by |-> t, ask |-> ask[t]] /\ told'[t] = i /\ tpc'[t] = "exit"
      /\ \A j \in RunIds \ {i} : inserted'[j] = inserted[j]
      /\ \A u \in Triggers \ {t} : UNCHANGED <<tpc[u], told[u]>>
  BY <1>1, <1>2 DEF TGoto, Inv, TypeOK
<1>4. TriggerOK(t) /\ ask[t] \in Ask
  BY <1>2 DEF Inv, TriggerInv, TriggerOK
<1>5. inserted'[i] # None /\ inserted'[i].by = t /\ inserted'[i].ask = ask[t]
  <2>1. [by |-> t, ask |-> ask[t]] \in Insertion
    BY <1>4 DEF Insertion
  <2> QED BY <1>3, <2>1, SubmissionAssumption
<1>6. \A k : Stored(k)' = Stored(k)
  BY <1>2 DEF Stored
<1>7. \A j \in RunIds : inserted[j] # None => inserted[j].by # t /\ inserted[j].by \in Triggers
  BY <1>2 DEF Inv, TypeOK, Insertion, TriggerInv, InsertedOK, InsertedBy
<1>8. \A u \in Triggers : TriggerOK(u)'
  <2>1. TriggerOK(t)'
    BY <1>2, <1>3, <1>4, <1>5 DEF TriggerOK, Approved
  <2>2. ASSUME NEW u \in Triggers \ {t}
        PROVE  TriggerOK(u)'
    <3>1. TriggerOK(u)
      BY DEF Inv, TriggerInv
    <3>2. Stored(ask[u].key)' = Stored(ask[u].key)
      BY <1>2 DEF Stored
    <3>3. tpc[u] = "exit" /\ inserted[told[u]] # None => told[u] # i
      BY <1>2
    <3> QED BY <1>2, <1>3, <3>1, <3>2, <3>3 DEF TriggerOK, Approved
  <2> QED BY <2>1, <2>2
<1>9. \A j \in RunIds : InsertedOK(j)'
  <2>1. InsertedOK(i)'
    BY <1>2, <1>3, <1>5 DEF InsertedOK, InsertedBy, Stored
  <2>2. ASSUME NEW j \in RunIds \ {i}
        PROVE  InsertedOK(j)'
    <3>1. InsertedOK(j)
      BY DEF Inv, TriggerInv
    <3> QED BY <1>2, <1>3, <1>7, <3>1 DEF InsertedOK, InsertedBy, Stored
  <2> QED BY <2>1, <2>2
<1>10. (\A j, l \in RunIds : Sole(j, l))'
  BY <1>2, <1>3, <1>5 DEF Inv, TriggerInv, Sole
<1>11. RunsAreApproved' /\ OneRunPerKey'
  BY <1>2 DEF Inv, TriggerInv, RunsAreApproved, Approved, OneRunPerKey, Stored
<1> QED BY <1>8, <1>9, <1>10, <1>11 DEF TriggerInv

(* The end of a trigger's transaction keeps the invariant.                    *)
LEMMA TriggerEnds ==
  ASSUME Inv, NEW t \in Triggers, TCommit(t) \/ TRollback(t), UNCHANGED govVars, TypeOK'
  PROVE  TriggerInv'
<1>1. /\ tpc'[t] = "idle" /\ row' = row
      /\ \A u \in Triggers \ {t} : UNCHANGED <<tpc[u], ask[u], told[u]>>
      /\ \A i \in RunIds : inserted'[i] = IF inserted[i] # None /\ inserted[i].by = t
                                          THEN None ELSE inserted[i]
  BY DEF TCommit, TRollback, TLeave, TGoto, govVars, rowVars, Inv, TypeOK
<1>2. \A i \in RunIds : /\ inserted[i] # None => inserted[i].by \in Triggers /\ inserted[i].ask \in Ask
                         /\ InsertedOK(i)
  BY DEF Inv, TriggerInv, TypeOK, Insertion
<1>3. \A i \in RunIds : \/ run'[i] = run[i]
                         \/ /\ TCommit(t) /\ inserted[i] # None /\ inserted[i].by = t
                            /\ run'[i] = inserted[i].ask /\ run'[i] = ask[t] /\ told[t] = i
                            /\ tpc[t] = "exit" /\ ask[t] \in Ask /\ Stored(ask[t].key) = {}
  BY <1>2 DEF TCommit, TRollback, InsertedOK, InsertedBy
<1>4. None \notin Ask
  BY SubmissionAssumption
<1>5. \A k \in Keys : Stored(k) \subseteq Stored(k)'
  BY <1>2, <1>3 DEF Stored, InsertedOK, InsertedBy
<1>6. \A u \in Triggers : TriggerOK(u)'
  <2>1. TriggerOK(t)'
    BY <1>1 DEF TriggerOK
  <2>2. ASSUME NEW u \in Triggers \ {t}
        PROVE  TriggerOK(u)'
    <3>1. TriggerOK(u) /\ UNCHANGED <<tpc[u], ask[u], told[u]>>
      BY <1>1 DEF Inv, TriggerInv
    <3>2. ask[u] \in Ask => ask[u].key \in Keys
      BY DEF Ask
    <3>3. (tpc[u] = "exit" /\ told[u] \in Stored(ask[u].key)) => (told[u] \in Stored(ask[u].key))'
      BY <1>5, <3>1, <3>2 DEF TriggerOK
    <3> QED BY <1>1, <3>1, <3>3 DEF TriggerOK, Approved
  <2> QED BY <2>1, <2>2
<1>7. \A i \in RunIds : InsertedOK(i)'
  <2> SUFFICES ASSUME NEW i \in RunIds, inserted'[i] # None
               PROVE  InsertedBy(i, inserted[i].by)'
    BY DEF InsertedOK
  <2>1. inserted'[i] = inserted[i] /\ inserted[i] # None /\ inserted[i].by \in Triggers \ {t}
    BY <1>1, <1>2
  <2>2. PICK u \in Triggers \ {t} : u = inserted[i].by
    BY <2>1
  <2>3. InsertedBy(i, u) /\ UNCHANGED <<tpc[u], ask[u], told[u]>>
    BY <1>1, <1>2, <2>1, <2>2 DEF InsertedOK
  <2>4. \A j \in RunIds : inserted[j] # None /\ inserted[j].by = t => inserted[j].ask.key # ask[u].key
    BY <2>1, <2>2, <2>3 DEF Inv, TriggerInv, Sole, InsertedBy
  <2>5. run'[i] = None /\ \A j \in RunIds : ~(run'[j] # None /\ run'[j].key = ask[u].key)
    BY <1>3, <2>1, <2>2, <2>3, <2>4 DEF InsertedBy, Stored
  <2> QED BY <2>1, <2>2, <2>3, <2>5 DEF InsertedBy, Stored
<1>8. (\A i, j \in RunIds : Sole(i, j))'
  BY <1>1 DEF Inv, TriggerInv, Sole
<1>9. RunsAreApproved'
  <2> SUFFICES ASSUME NEW i \in RunIds, run'[i] # None
               PROVE  Approved(run'[i].ruleset) /\ Approved(run'[i].policy)
    BY <1>1 DEF RunsAreApproved, Approved
  <2>1. CASE run'[i] = run[i]
    BY <2>1 DEF Inv, TriggerInv, RunsAreApproved
  <2>2. CASE run'[i] = ask[t] /\ tpc[t] = "exit"
    BY <2>2 DEF Inv, TriggerInv, TriggerOK
  <2> QED BY <1>3, <2>1, <2>2
<1>10. OneRunPerKey'
  <2>1. ASSUME NEW k \in Keys, NEW i \in Stored(k)', NEW j \in Stored(k)'
        PROVE  i = j
    <3>1. i \in RunIds /\ j \in RunIds /\ run'[i].key = k /\ run'[j].key = k
          /\ run'[i] # None /\ run'[j] # None
      BY DEF Stored
    <3>2. CASE run'[i] = run[i] /\ run'[j] = run[j]
      BY <3>1, <3>2 DEF Inv, TriggerInv, OneRunPerKey, Stored
    <3>3. CASE run'[i] # run[i] /\ run'[j] # run[j]
      BY <1>3, <3>1, <3>3
    <3>4. CASE run'[i] # run[i] /\ run'[j] = run[j]
      BY <1>3, <3>1, <3>4 DEF Stored
    <3>5. CASE run'[i] = run[i] /\ run'[j] # run[j]
      BY <1>3, <3>1, <3>5 DEF Stored
    <3> QED BY <3>2, <3>3, <3>4, <3>5
  <2>2. ASSUME NEW k \in Keys
        PROVE  settled'[k] \subseteq Stored(k)'
    <3>1. settled[k] \subseteq Stored(k)'
      BY <1>5 DEF Inv, TriggerInv, OneRunPerKey
    <3>2. CASE settled' = settled
      BY <3>1, <3>2
    <3>3. CASE TCommit(t)
      <4>1. TriggerOK(t) /\ ask[t] \in Ask /\ ask[t].key \in Keys /\ tpc[t] = "exit"
        BY <3>3 DEF TCommit, Inv, TriggerInv, TriggerOK, Ask
      <4>2. PICK i \in RunIds, c \in Keys : i = told[t] /\ c = ask[t].key
        BY <4>1 DEF TriggerOK
      <4>3. settled'[k] \subseteq settled[k] \union (IF k = c THEN {i} ELSE {})
        BY <3>3, <4>1, <4>2 DEF TCommit, Inv, TypeOK
      <4>4. i \in Stored(c)'
        <5>1. CASE i \in Stored(c)
          BY <1>5, <5>1
        <5>2. CASE inserted[i] # None /\ inserted[i].by = t
          <6>1. run'[i] = ask[t]
            BY <1>2, <3>3, <5>2 DEF TCommit, InsertedOK, InsertedBy
          <6> QED BY <1>4, <4>1, <4>2, <6>1 DEF Stored
        <5> QED BY <4>1, <4>2, <5>1, <5>2 DEF TriggerOK
      <4> QED BY <3>1, <4>3, <4>4
    <3> QED BY <3>2, <3>3 DEF TRollback
  <2> QED BY <2>1, <2>2 DEF OneRunPerKey
<1> QED BY <1>6, <1>7, <1>8, <1>9, <1>10 DEF TriggerInv

(* Every step of a trigger keeps the invariant.                               *)
LEMMA TriggerStepKeeps == ASSUME Inv, NEW t \in Triggers, TriggerStep(t), UNCHANGED govVars
                          PROVE  TypeOK' /\ TriggerInv'
<1>0. TypeOK' /\ TypeOK /\ TriggerInv /\ row' = row /\ TriggerOK(t)
  BY TriggerType DEF Inv, govVars, rowVars, TriggerInv
<1>1. tpc[t] # "exit" => \A i \in RunIds : inserted[i] # None => inserted[i].by # t
  BY <1>0 DEF TriggerInv, InsertedOK, InsertedBy
<1> DEFINE Read == /\ tpc[t] # "exit" /\ UNCHANGED <<run, inserted, settled>>
                   /\ \A u \in Triggers \ {t} : UNCHANGED <<tpc[u], ask[u], told[u]>>
<1>2. ASSUME NEW a \in Ask, ReadRuleset(t, a)
      PROVE  TriggerInv'
  <2>1. Read /\ tpc'[t] = "policy" /\ ask'[t] = a /\ row[a.ruleset].status = "ACTIVE"
    BY <1>0, <1>2 DEF ReadRuleset, TGoto, TypeOK
  <2>2. a.ruleset \in Revisions
    BY DEF Ask, Revisions
  <2>3. Approved(a.ruleset)
    BY <2>1, <2>2 DEF Inv, GovInv, RowOK, InForce, Independent, Approved
  <2>4. TriggerOK(t)'
    BY <1>0, <2>1, <2>3 DEF TriggerOK, Approved
  <2> QED BY <1>0, <1>1, <2>1, <2>4, ReadsKeep
<1>3. CASE ReadPolicy(t)
  <2>1. /\ Read /\ tpc[t] = "policy" /\ tpc'[t] = "lookup" /\ ask' = ask
        /\ row[ask[t].policy].status = "ACTIVE"
    BY <1>0, <1>3 DEF ReadPolicy, TGoto, TypeOK
  <2>2. ask[t].policy \in Revisions
    BY <1>0, <2>1 DEF TriggerOK, Ask, Revisions
  <2>3. Approved(ask[t].policy)
    BY <2>1, <2>2 DEF Inv, GovInv, RowOK, InForce, Independent, Approved
  <2>4. TriggerOK(t)'
    BY <1>0, <2>1, <2>3 DEF TriggerOK, Approved
  <2> QED BY <1>0, <1>1, <2>1, <2>4, ReadsKeep
<1>4. CASE PolicyNotApproved(t)
  <2>1. inserted' = inserted
    BY <1>0, <1>1, <1>4 DEF PolicyNotApproved, TLeave, TypeOK
  <2>2. Read /\ tpc'[t] = "idle"
    BY <1>0, <1>4, <2>1 DEF PolicyNotApproved, TLeave, TGoto, TypeOK
  <2>3. TriggerOK(t)'
    BY <2>2 DEF TriggerOK
  <2> QED BY <1>0, <1>1, <2>2, <2>3, ReadsKeep
<1>5. CASE LookUp(t) \/ ReadBack(t) \/ (Insert(t) /\ Stored(ask[t].key) # {})
  <2>1. /\ Read /\ ask' = ask /\ tpc[t] \in {"lookup", "insert", "readback"}
        /\ \/ tpc'[t] \in {"insert", "readback"}
           \/ tpc'[t] = "exit" /\ told'[t] \in Stored(ask[t].key)
    BY <1>0, <1>5 DEF LookUp, ReadBack, Insert, TGoto, TypeOK, Stored
  <2>2. Stored(ask[t].key) \subseteq RunIds
    BY DEF Stored
  <2>3. Stored(ask[t].key)' = Stored(ask[t].key)
    BY <2>1 DEF Stored
  <2>4. TriggerOK(t)'
    BY <1>0, <2>1, <2>2, <2>3 DEF TriggerOK, Approved
  <2> QED BY <1>0, <1>1, <2>1, <2>4, ReadsKeep
<1>6. CASE Insert(t) /\ Stored(ask[t].key) = {}
  BY <1>0, <1>6, InsertionKeeps
<1>7. CASE TCommit(t) \/ TRollback(t)
  BY <1>0, <1>7, TriggerEnds
<1> QED BY <1>0, <1>2, <1>3, <1>4, <1>5, <1>6, <1>7 DEF TriggerStep, Trigger

(* The invariant is inductive.                                                *)
LEMMA StepKeeps == Inv /\ [Next]_vars => Inv'
<1> SUFFICES ASSUME Inv, [Next]_vars
             PROVE  Inv'
  OBVIOUS
<1>1. [GovNext]_govVars
  BY DEF Next, vars
<1>2. GovInv'
  BY <1>1, GovStepKeeps DEF Inv
<1>3. CASE UNCHANGED submissionVars
  BY <1>1, <1>2, <1>3, GovKeepsTriggers DEF Inv
<1>4. ASSUME NEW t \in Triggers, TriggerStep(t), UNCHANGED govVars
      PROVE  Inv'
  BY <1>2, <1>4, TriggerStepKeeps DEF Inv
<1> QED BY <1>3, <1>4 DEF Next, vars, TriggerStep

(* No run, no trigger at the start.                                           *)
LEMMA InitInv == Init => Inv
<1> SUFFICES ASSUME Init
             PROVE  Inv
  OBVIOUS
<1>1. GovInv
  BY GovInitInv DEF Init
<1>2. TypeOK
  BY <1>1 DEF Init, TypeOK, GovInv
<1>3. TriggerInv
  BY DEF Init, TriggerInv, TriggerOK, InsertedOK, Sole, RunsAreApproved, OneRunPerKey, Stored
<1> QED BY <1>1, <1>2, <1>3 DEF Inv

(* The invariant holds in every state.                                        *)
LEMMA Invariance == Spec => []Inv
  BY InitInv, StepKeeps, PTL DEF Spec

----------------------------------------------------------------------------
(* Theorems *)

(* The tables and the requests' locals have their types.                      *)
THEOREM TypeCorrect == Spec => []TypeOK
  BY Invariance, PTL DEF Inv

(* However approvals of a scope overlap, wait for each other and fail, at     *)
(* most one of its revisions is ACTIVE.                                       *)
THEOREM OneActive == Spec => []OneActivePerScope
<1>1. Inv => OneActivePerScope
  BY DEF Inv, GovInv
<1> QED BY <1>1, Invariance, PTL

(* No sequence of requests puts a revision in force that its approver has     *)
(* created or submitted.                                                      *)
THEOREM FourEyes == Spec => []ApprovedIndependently
<1>1. Inv => ApprovedIndependently
  BY DEF Inv, GovInv, RowOK, InForce, Independent, ApprovedIndependently
<1> QED BY <1>1, Invariance, PTL

(* A queued run is pinned to approved configurations, whatever is approved    *)
(* and superseded while it is triggered.                                      *)
THEOREM RunsPinApproved == Spec => []RunsAreApproved
<1>1. Inv => RunsAreApproved
  BY DEF Inv, TriggerInv
<1> QED BY <1>1, Invariance, PTL

(* An idempotency key queues one run, whose id every committed trigger told.  *)
THEOREM KeysAreIdempotent == Spec => []OneRunPerKey
<1>1. Inv => OneRunPerKey
  BY DEF Inv, TriggerInv
<1> QED BY <1>1, Invariance, PTL

----------------------------------------------------------------------------
(* Waiting *)

Waits(q) == \E p \in Requests : WaitsFor(q, p)

(* A request waits for other transactions in front of the two actions whose   *)
(* guard is a lock or the index, and exactly while that guard is false.       *)
LEMMA WaitingIsGuarded ==
  ASSUME GovInv, NEW q \in Requests
  PROVE  /\ Waits(q) => pc[q] \in {"waiting", "activating"}
         /\ pc[q] = "waiting" => (Waits(q) <=> lock[seen[q]] # None)
         /\ pc[q] = "activating" => (Waits(q) <=> IndexBusy(q, rev[q]))
<1>0. lock \in [Revisions -> Requests \union {None}] /\ None \notin Requests
  BY GovernanceAssumption DEF GovInv, GovTypeOK
<1>1. Waits(q) => pc[q] \in {"waiting", "activating"}
  BY DEF Waits, WaitsFor
<1>2. ASSUME pc[q] = "waiting"
      PROVE  Waits(q) <=> lock[seen[q]] # None
  <2>1. lock[seen[q]] \in Requests \union {None}
    BY <1>0, <1>2 DEF GovInv, RequestOK, Rivals
  <2> QED BY <1>0, <1>2, <2>1 DEF Waits, WaitsFor
<1>3. ASSUME pc[q] = "activating"
      PROVE  Waits(q) <=> IndexBusy(q, rev[q])
  <2>1. \A o \in Rivals(rev[q]) : ChangesIndex(o) => lock[o] \in Requests
    BY <1>0 DEF GovInv, RowOK, ChangesIndex, Rivals
  <2> QED BY <1>0, <1>3, <2>1 DEF Waits, WaitsFor, IndexBusy
<1> QED BY <1>1, <1>2, <1>3

(* Who holds a row that a superseding UPDATE waits for is past its own one:   *)
(* the row was in force when it was found, so nobody is approving it.         *)
LEMMA RowHolder ==
  ASSUME GovInv, NEW q \in Requests, NEW p \in Requests, pc[q] = "waiting", WaitsFor(q, p)
  PROVE  pc[p] # "waiting"
<1> SUFFICES ASSUME pc[p] = "waiting"
             PROVE  FALSE
  OBVIOUS
<1>1. seen[q] \in Revisions /\ lock[seen[q]] = p /\ row[seen[q]].status \in InForce
  BY DEF WaitsFor, GovInv, RequestOK, Rivals
<1>2. seen[q] = rev[p]
  BY <1>1 DEF GovInv, RequestOK
<1>3. row[rev[p]].status = "PENDING_APPROVAL"
  BY DEF GovInv, RequestOK
<1> QED BY <1>1, <1>2, <1>3 DEF InForce

(* Who changes an entry of the index that another insertion waits for does    *)
(* not wait: what it has superseded was the only ACTIVE revision of the       *)
(* scope, and nobody else can have made one ACTIVE beside it.                 *)
LEMMA IndexHolder ==
  ASSUME GovInv, NEW q \in Requests, NEW p \in Requests, pc[q] = "activating", WaitsFor(q, p)
  PROVE  ~Waits(p)
<1> SUFFICES ASSUME Waits(p)
             PROVE  FALSE
  OBVIOUS
<1>1. PICK x \in Rivals(rev[q]) : lock[x] = p /\ ChangesIndex(x)
  BY DEF WaitsFor
<1>2. x \in Revisions /\ pending[x] # None /\ WrittenBy(x, p)
  BY <1>1, GovernanceAssumption DEF Rivals, ChangesIndex, GovInv, RowOK
<1>3. pc[p] = "activating" /\ x \in Rivals(rev[p]) /\ Superseded(x)
  BY <1>2, WaitingIsGuarded DEF WrittenBy
<1>4. PICK y \in Rivals(rev[p]) : lock[y] # p /\ ChangesIndex(y)
  BY <1>3, WaitingIsGuarded DEF IndexBusy
<1>5. x # y /\ x \in Rivals(y) /\ y \in Rivals(x)
  BY <1>1, <1>3, <1>4 DEF Rivals
<1>6. row[x].status = "ACTIVE"
  BY <1>3 DEF Superseded
<1>7. row[y].status # "ACTIVE"
  BY <1>5, <1>6 DEF GovInv, OneActivePerScope, Rivals
<1>8. pending[y] # None /\ pending[y].status = "ACTIVE"
  BY <1>4, <1>7 DEF ChangesIndex
<1> QED BY <1>1, <1>4, <1>5, <1>6, <1>8 DEF GovInv, IndexOK, Rivals

(* However many approvals hold rows and wait, they do not wait for each       *)
(* other: every chain of waiting requests ends after two.                     *)
THEOREM NoDeadlock == Spec => []NoCircularWait
<1>1. ASSUME GovInv, NEW q \in Requests, NEW p \in Requests, NEW s \in Requests,
             WaitsFor(q, p), WaitsFor(p, s)
      PROVE  ~Waits(s)
  <2>1. CASE pc[q] = "waiting"
    <3>1. pc[p] = "activating"
      BY <1>1, <2>1, RowHolder DEF WaitsFor
    <3> QED BY <1>1, <3>1, IndexHolder
  <2>2. CASE pc[q] = "activating"
    BY <1>1, <2>2, IndexHolder DEF Waits
  <2> QED BY <1>1, <2>1, <2>2 DEF WaitsFor
<1>2. Inv => NoCircularWait
  BY <1>1 DEF Inv, NoCircularWait, Waits
<1> QED BY <1>2, Invariance, PTL

----------------------------------------------------------------------------
(* Refinement *)

StageMap == [v \in Revisions |-> StageOf(row[v].status)]
AuthorsMap == [v \in Revisions |-> {row[v].createdBy, row[v].submittedBy} \ {None}]
InForceMap == [s \in Scopes |-> ActiveIn(s)]

(* The commit of a request is the step of the life cycle that it stands for.  *)
LEMMA CommitIsOneStep ==
  ASSUME GovInv, GovInv', NEW q \in Requests, Commit(q),
         NEW v \in Revisions, v = rev[q], NEW u \in Users, u = user[q]
  PROVE  Configuration!Next
<1>1. /\ row'[v] = pending[v] /\ u # None
      /\ row \in [Revisions -> Row] /\ row' \in [Revisions -> Row] /\ ScopeOf[v] \in Scopes
  BY CommitMoves, GovernanceAssumption DEF GovInv, GovTypeOK
<1>2. ASSUME ~Activated(v, u), NEW x \in Revisions \ {v}
      PROVE  row'[x] = row[x]
  BY <1>2, CommitMoves
<1>3. ASSUME NEW old, NEW new, row[v].status = old, row'[v].status = new, ~Activated(v, u),
             old \notin InForce, new \notin InForce
      PROVE  /\ StageMap' = [StageMap EXCEPT ![v] = StageOf(new)]
             /\ AuthorsMap' = [AuthorsMap EXCEPT ![v] = {row'[v].createdBy, row'[v].submittedBy} \ {None}]
             /\ InForceMap' = InForceMap
  <2>1. \A x \in Revisions : x # v => row'[x] = row[x]
    BY <1>2, <1>3
  <2>2. StageMap' = [StageMap EXCEPT ![v] = StageOf(new)]
    BY <1>1, <1>3, <2>1 DEF StageMap
  <2>3. AuthorsMap' = [AuthorsMap EXCEPT ![v] = {row'[v].createdBy, row'[v].submittedBy} \ {None}]
    BY <1>1, <2>1 DEF AuthorsMap
  <2>4. \A s \in Scopes : ActiveIn(s)' = ActiveIn(s)
    BY <1>1, <1>3, <2>1 DEF ActiveIn, InForce
  <2> QED BY <2>2, <2>3, <2>4 DEF InForceMap
<1>4. CASE Drafted(v, u)
  <2>1. row'[v] = [Absent EXCEPT !.status = "DRAFT", !.createdBy = u] /\ row[v].status = "ABSENT"
    BY <1>1, <1>4 DEF Drafted
  <2>2. row'[v].status = "DRAFT" /\ row'[v].createdBy = u /\ row'[v].submittedBy = None
    BY <2>1 DEF Absent
  <2>3. {row'[v].createdBy, row'[v].submittedBy} \ {None} = {u}
    BY <1>1, <2>2
  <2>4. ~Activated(v, u)
    BY <2>1 DEF Activated
  <2>5. /\ StageMap' = [StageMap EXCEPT ![v] = StageOf("DRAFT")]
        /\ AuthorsMap' = [AuthorsMap EXCEPT ![v] = {u}]
        /\ InForceMap' = InForceMap
    BY <1>3, <2>1, <2>2, <2>3, <2>4 DEF InForce
  <2>6. StageMap[v] = "none" /\ StageOf("DRAFT") = "draft"
    BY <1>1, <2>1 DEF StageMap, StageOf
  <2>7. Configuration!Draft(v, u)
    BY <2>5, <2>6 DEF Configuration!Draft, StageMap, AuthorsMap, InForceMap
  <2> QED BY <1>1, <2>7 DEF Configuration!Next
<1>5. CASE Proposed(v, u)
  <2>1. /\ row'[v] = [row[v] EXCEPT !.status = "PENDING_APPROVAL", !.submittedBy = u]
        /\ row[v].status = "DRAFT" /\ row[v].submittedBy = None
    BY <1>1, <1>5 DEF Proposed, GovInv, RowOK
  <2>2. /\ row'[v].status = "PENDING_APPROVAL" /\ row'[v].createdBy = row[v].createdBy
        /\ row'[v].submittedBy = u
    BY <1>1, <2>1 DEF Row
  <2>3. {row'[v].createdBy, row'[v].submittedBy} \ {None} = AuthorsMap[v] \union {u}
    BY <1>1, <2>1, <2>2 DEF AuthorsMap
  <2>4. ~Activated(v, u)
    BY <2>1 DEF Activated
  <2>5. /\ StageMap' = [StageMap EXCEPT ![v] = StageOf("PENDING_APPROVAL")]
        /\ AuthorsMap' = [AuthorsMap EXCEPT ![v] = AuthorsMap[v] \union {u}]
        /\ InForceMap' = InForceMap
    BY <1>3, <2>1, <2>2, <2>3, <2>4 DEF InForce
  <2>6. StageMap[v] = "draft" /\ StageOf("PENDING_APPROVAL") = "proposed"
    BY <1>1, <2>1 DEF StageMap, StageOf
  <2>7. Configuration!Propose(v, u)
    BY <1>1, <2>5, <2>6 DEF Configuration!Propose, StageMap, AuthorsMap, InForceMap
  <2> QED BY <1>1, <2>7 DEF Configuration!Next
<1>6. CASE Activated(v, u)
  <2>1. /\ row'[v] = [row[v] EXCEPT !.status = "ACTIVE", !.approvedBy = u]
        /\ row[v].status = "PENDING_APPROVAL" /\ MayApprove(u, row[v])
    BY <1>1, <1>6 DEF Activated
  <2>2. /\ row'[v].status = "ACTIVE" /\ row'[v].createdBy = row[v].createdBy
        /\ row'[v].submittedBy = row[v].submittedBy
    BY <1>1, <2>1 DEF Row
  <2>3. ASSUME NEW x \in Revisions \ {v}
        PROVE  /\ StageOf(row'[x].status) = StageOf(row[x].status)
               /\ row'[x].createdBy = row[x].createdBy /\ row'[x].submittedBy = row[x].submittedBy
               /\ ScopeOf[x] # ScopeOf[v] => row'[x] = row[x]
    <3>1. CASE row'[x] = row[x]
      BY <3>1
    <3>2. CASE /\ x \in Rivals(v) /\ row[x].status = "ACTIVE"
               /\ row'[x] = [row[x] EXCEPT !.status = "DEPRECATED"]
      <4>1. /\ row'[x].status = "DEPRECATED" /\ row'[x].createdBy = row[x].createdBy
            /\ row'[x].submittedBy = row[x].submittedBy
        BY <1>1, <3>2 DEF Row
      <4> QED BY <3>2, <4>1 DEF StageOf, Rivals
    <3> QED BY <3>1, <3>2, CommitMoves
  <2>4. StageMap' = [StageMap EXCEPT ![v] = "approved"]
    BY <1>1, <2>2, <2>3 DEF StageMap, StageOf
  <2>5. AuthorsMap' = AuthorsMap
    BY <1>1, <2>2, <2>3 DEF AuthorsMap
  <2>6. InForceMap' = [InForceMap EXCEPT ![ScopeOf[v]] = {v}]
    <3>1. ActiveIn(ScopeOf[v])' = {v}
      BY <1>1, <2>2 DEF GovInv, OneActivePerScope, ActiveIn
    <3>2. ASSUME NEW s \in Scopes, s # ScopeOf[v]
          PROVE  ActiveIn(s)' = ActiveIn(s)
      BY <1>1, <2>3, <3>2 DEF ActiveIn
    <3> QED BY <1>1, <3>1, <3>2 DEF InForceMap
  <2>7. StageMap[v] = "proposed" /\ u \notin AuthorsMap[v]
    BY <1>1, <2>1 DEF StageMap, StageOf, AuthorsMap, MayApprove
  <2>8. Configuration!Approve(v, u)
    BY <2>4, <2>5, <2>6, <2>7 DEF Configuration!Approve, StageMap, AuthorsMap, InForceMap
  <2> QED BY <1>1, <2>8 DEF Configuration!Next
<1> QED BY <1>4, <1>5, <1>6, CommitMoves

(* Requests implement the life cycle of configurations: only commits are      *)
(* visible, and each is one step of it.                                       *)
THEOREM Refinement == Spec => ImplementsConfiguration
<1>1. Init => Configuration!Init
  <2> SUFFICES ASSUME Init
               PROVE  Configuration!Init
    OBVIOUS
  <2>1. \A v \in Revisions : row[v] = Absent
    BY DEF Init, GovInit
  <2>2. \A v \in Revisions : StageOf(row[v].status) = "none"
    BY <2>1 DEF Absent, StageOf
  <2>3. \A v \in Revisions : {row[v].createdBy, row[v].submittedBy} \ {None} = {}
    BY <2>1 DEF Absent
  <2>4. \A s \in Scopes : ActiveIn(s) = {}
    BY <2>1 DEF ActiveIn, Absent
  <2> QED BY <2>2, <2>3, <2>4 DEF Configuration!Init
<1>2. ASSUME Inv, Inv', [Next]_vars
      PROVE  [Configuration!Next]_(Configuration!configurationVars)
  <2>1. CASE UNCHANGED row
    BY <2>1 DEF Configuration!configurationVars, ActiveIn
  <2>2. ASSUME NEW q \in Requests, Commit(q)
        PROVE  Configuration!Next
    <3>1. rev[q] \in Revisions /\ user[q] \in Users
      BY <1>2, <2>2, CommitMoves DEF Inv
    <3> QED BY <1>2, <2>2, <3>1, CommitIsOneStep DEF Inv
  <2>3. UNCHANGED row \/ \E q \in Requests : Commit(q)
    BY <1>2, OnlyCommitWrites
       DEF Next, vars, GovNext, RequestStep, govVars, rowVars, Inv
  <2> QED BY <2>1, <2>2, <2>3
<1> QED BY <1>1, <1>2, Invariance, PTL DEF Spec, ImplementsConfiguration, Configuration!Spec
=============================================================================
