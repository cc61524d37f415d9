--------------------------- MODULE RunSubmission ----------------------------
(* Triggering a run while revisions are approved: trigger_run reads the       *)
(* ruleset and the policy in a statement each and enqueues the run under an   *)
(* idempotency key, in a transaction that commits after the response.         *)
(* A run is what trigger_run pins: the ruleset and the policy it has read.    *)
(* What becomes of it in the queue is the subject of EvaluationWorker.        *)
EXTENDS Governance

CONSTANTS Triggers,             \* trigger requests under way
          RunIds,               \* the uuids that trigger_run draws (bounds the runs)
          Keys                  \* idempotency keys

Ask == [key : Keys, ruleset : Rulesets, policy : Policies]
Insertion == [by : Triggers, ask : Ask]

ASSUME SubmissionAssumption == None \notin Triggers \union RunIds \union Ask \union Insertion

VARIABLES run,        \* committed rows of evaluation_runs: what the run pins, or None
          inserted,   \* rows inserted and not committed: their transaction, or None
          tpc, ask,   \* a trigger request: where it is, what it asks for
          told,       \* the run id of its response
          settled     \* history: what committed triggers had answered, per key

submissionVars == <<run, inserted, tpc, ask, told, settled>>
vars == <<govVars, submissionVars>>

TypeOK ==
  /\ GovTypeOK
  /\ run \in [RunIds -> Ask \union {None}]
  /\ inserted \in [RunIds -> Insertion \union {None}]
  /\ tpc \in [Triggers -> {"idle", "policy", "lookup", "insert", "readback", "exit"}]
  /\ ask \in [Triggers -> Ask \union {None}]
  /\ told \in [Triggers -> RunIds \union {None}]
  /\ settled \in [Keys -> SUBSET RunIds]

Init ==
  /\ GovInit
  /\ run = [i \in RunIds |-> None]
  /\ inserted = [i \in RunIds |-> None]
  /\ tpc = [t \in Triggers |-> "idle"]
  /\ ask = [t \in Triggers |-> None]
  /\ told = [t \in Triggers |-> None]
  /\ settled = [k \in Keys |-> {}]

TGoto(t, step) == tpc' = [tpc EXCEPT ![t] = step]

(* Runs of a key in the table. *)
Stored(k) == {i \in RunIds : run[i] # None /\ run[i].key = k}

(* The request's transaction is over: what it inserted goes, or has been kept. *)
TLeave(t) ==
  /\ inserted' = [i \in RunIds |->
       IF inserted[i] # None /\ inserted[i].by = t THEN None ELSE inserted[i]]
  /\ TGoto(t, "idle")
  /\ ask' = [ask EXCEPT ![t] = None]
  /\ told' = [told EXCEPT ![t] = None]

(* The request's first statements; a ruleset that is not ACTIVE is refused    *)
(* (422), and so is, next, a policy that is not.                              *)
ReadRuleset(t, a) ==
  /\ tpc[t] = "idle"
  /\ row[a.ruleset].status = "ACTIVE"
  /\ TGoto(t, "policy")
  /\ ask' = [ask EXCEPT ![t] = a]
  /\ UNCHANGED <<run, inserted, told, settled>>

(* Mutant: the policy is taken whatever its status. *)
ReadPolicyUnchecked(t) ==
  /\ tpc[t] = "policy"
  /\ TGoto(t, "lookup")
  /\ UNCHANGED <<run, inserted, ask, told, settled>>

ReadPolicy(t) ==
  /\ tpc[t] = "policy"
  /\ row[ask[t].policy].status = "ACTIVE"
  /\ TGoto(t, "lookup")
  /\ UNCHANGED <<run, inserted, ask, told, settled>>

PolicyNotApproved(t) ==
  /\ tpc[t] = "policy"
  /\ row[ask[t].policy].status # "ACTIVE"
  /\ TLeave(t)
  /\ UNCHANGED <<run, settled>>

(* enqueue_run: a run of the key that is there already is the answer ... *)
LookUp(t) ==
  /\ tpc[t] = "lookup"
  /\ LET there == Stored(ask[t].key) IN
       \/ there = {} /\ TGoto(t, "insert") /\ UNCHANGED told
       \/ \E i \in there : told' = [told EXCEPT ![t] = i] /\ TGoto(t, "exit")
  /\ UNCHANGED <<run, inserted, ask, settled>>

Fresh == {i \in RunIds : run[i] = None /\ inserted[i] = None}

(* Mutant: an INSERT without the unique constraint on the key. *)
InsertAnyway(t) ==
  /\ tpc[t] = "insert"
  /\ \E i \in Fresh :
       /\ inserted' = [inserted EXCEPT ![i] = [by |-> t, ask |-> ask[t]]]
       /\ told' = [told EXCEPT ![t] = i]
       /\ TGoto(t, "exit")
  /\ UNCHANGED <<run, ask, settled>>

(* ... ON CONFLICT DO NOTHING waits for an uncommitted row of the key and     *)
(* inserts nothing if it is committed ...                                     *)
Insert(t) ==
  /\ tpc[t] = "insert"
  /\ \A i \in RunIds : inserted[i] # None => inserted[i].ask.key # ask[t].key
  /\ IF Stored(ask[t].key) = {}
     THEN \E i \in Fresh :
            /\ inserted' = [inserted EXCEPT ![i] = [by |-> t, ask |-> ask[t]]]
            /\ told' = [told EXCEPT ![t] = i]
            /\ TGoto(t, "exit")
     ELSE TGoto(t, "readback") /\ UNCHANGED <<inserted, told>>
  /\ UNCHANGED <<run, ask, settled>>

(* ... and the loser reads back the winner. *)
ReadBack(t) ==
  /\ tpc[t] = "readback"
  /\ \E i \in Stored(ask[t].key) : told' = [told EXCEPT ![t] = i]
  /\ TGoto(t, "exit")
  /\ UNCHANGED <<run, inserted, ask, settled>>

TCommit(t) ==
  /\ tpc[t] = "exit"
  /\ run' = [i \in RunIds |->
       IF inserted[i] # None /\ inserted[i].by = t THEN inserted[i].ask ELSE run[i]]
  /\ settled' = [settled EXCEPT ![ask[t].key] = @ \union {told[t]}]
  /\ TLeave(t)

(* The pod or the connection is lost, after the response at the latest. *)
TRollback(t) ==
  /\ tpc[t] # "idle"
  /\ TLeave(t)
  /\ UNCHANGED <<run, settled>>

Trigger(t) ==
  \/ ReadPolicy(t) \/ PolicyNotApproved(t)
  \/ LookUp(t) \/ Insert(t) \/ ReadBack(t) \/ TCommit(t)

Next ==
  \/ GovNext /\ UNCHANGED submissionVars
  \/ /\ \E t \in Triggers :
          (\E a \in Ask : ReadRuleset(t, a)) \/ Trigger(t) \/ TRollback(t)
     /\ UNCHANGED govVars

Spec == Init /\ [][Next]_vars

----------------------------------------------------------------------------
(* Safety *)

(* Whatever is approved or superseded between the statements of a trigger, a  *)
(* queued run names a ruleset and a policy that an independent approver has   *)
(* approved, and for good: a revision never leaves that state.                *)
Approved(v) ==
  /\ row[v].status \in {"ACTIVE", "DEPRECATED"}
  /\ row[v].approvedBy \in Approvers \ {row[v].createdBy, row[v].submittedBy}

RunsAreApproved ==
  \A i \in RunIds : run[i] # None => Approved(run[i].ruleset) /\ Approved(run[i].policy)

(* Retries and concurrent triggers of one key queue one run, and every client *)
(* whose request went through was told its id.                                *)
OneRunPerKey ==
  \A k \in Keys :
    /\ \A i, j \in Stored(k) : i = j
    /\ settled[k] \subseteq Stored(k)
=============================================================================
