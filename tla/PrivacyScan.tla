---------------------------- MODULE PrivacyScan ----------------------------
(* Privacy scans of one snapshot: requests that queue a scan under the locks  *)
(* of the asset, the rules that editors revise meanwhile, and the workers of  *)
(* the import daemons that claim, scan and publish under a lease.             *)
(*                                                                            *)
(* The snapshot has one column; what a scan finds in it is decided by the     *)
(* rules it has pinned.                                                       *)
EXTENDS Integers, Sequences

CONSTANTS Scans,       \* scan ids that requests draw (bounds the scans)
          Previews,    \* those of purpose PREVIEW; the others are APPLY
          Import,      \* the scan recorded by the registration of the snapshot
          Rules,       \* detector rules of the tenant
          Workers,
          MaxAttempts, \* MAX_ATTEMPTS
          MaxConfig,   \* bound on the configuration's version
          MaxFaults,   \* bound on crashes, early lapses and rejected publications
          None

ASSUME PrivacyScanAssumption ==
  /\ Previews \subseteq Scans
  /\ Import \notin Scans
  /\ None \notin Scans \union {Import} \union Workers
  /\ MaxAttempts \in Nat \ {0} /\ MaxConfig \in Nat \ {0} /\ MaxFaults \in Nat

VARIABLES config,     \* privacy_detector_configs: the rules of every version so far
          job,        \* privacy_scan_jobs, or None
          order,      \* scans by created_at, the start of the request's transaction
          request,    \* requests that queue a scan: where they are
          pinned,     \* the configuration's version that the request has read
          assetLock,  \* the request that holds the asset's and the revision's locks
          version,    \* asset_protection_revisions
          findings,   \* sensitive_data_findings of the snapshot
          pc, leased, token, live,  \* a worker: its job, and the lease when it publishes
          results,    \* history: who has settled a scan, in which lease, and how
          faults

storeVars == <<config, job, order, request, pinned, assetLock, version, findings>>
workerVars == <<pc, leased, token, live>>
scanVars == <<storeVars, workerVars, results, faults>>

Known == Scans \union {Import}

(* A rule's latest revision, 0 before it is created, and whether that is      *)
(* enabled and matches the column.                                            *)
Definition == [revision : Nat, hit : BOOLEAN]
Job == [state : {"QUEUED", "RUNNING", "COMPLETE", "FAILED"}, config : Nat,
        generation : Nat, owner : Workers \union {None}, lapsed : BOOLEAN]
ASSUME JobAssumption == None \notin Job
Finding == [scan : Known, rule : Rules, revision : Nat,
            status : {"DETECTED", "CONFIRMED", "DISMISSED"}]

ScanTypeOK ==
  /\ config \in Seq([Rules -> Definition]) /\ Len(config) \in 1 .. MaxConfig
  /\ job \in [Known -> Job \union {None}]
  /\ order \in Seq(Known)
  /\ request \in [Scans -> {"none", "begun", "pinned", "over"}]
  /\ pinned \in [Scans -> 0 .. MaxConfig]
  /\ assetLock \in Scans \union {None}
  /\ version \in Nat
  /\ findings \subseteq Finding
  /\ pc \in [Workers -> {"polling", "scan", "requeue", "fail", "publish"}]
  /\ leased \in [Workers -> Scans \union {None}]
  /\ token \in [Workers -> Nat]
  /\ live \in [Workers -> BOOLEAN]
  /\ results \in [Scans -> SUBSET [epoch : Nat, outcome : {"published", "failed"}]]
  /\ faults \in 0 .. MaxFaults

(* The rules in force that match the column, and what a scan finds with them. *)
InForce(c) == {u \in Rules : config[c][u].hit}
Detections(c) == {[rule |-> u, revision |-> config[c][u].revision] : u \in InForce(c)}

(* The configurations a tenant starts with: the built-in rules, all in        *)
(* revision 1, and none of its own yet.                                       *)
Seeded == [Rules -> {d \in [revision : {0, 1}, hit : BOOLEAN] : d.hit => d.revision = 1}]

(* The registration records its scan as COMPLETE, with what it found.  A      *)
(* snapshot without one has no job and no findings.                           *)
ScanInit ==
  /\ \E definition \in Seeded : config = <<definition>>
  /\ \E scanned \in BOOLEAN :
       /\ job = [s \in Known |-> IF s = Import /\ scanned
                  THEN [state |-> "COMPLETE", config |-> 1, generation |-> 0,
                        owner |-> None, lapsed |-> FALSE]
                  ELSE None]
       /\ order = IF scanned THEN <<Import>> ELSE << >>
       /\ findings = {[scan |-> Import, rule |-> d.rule, revision |-> d.revision,
                       status |-> "DETECTED"] : d \in IF scanned THEN Detections(1) ELSE {}}
  /\ request = [s \in Scans |-> "none"]
  /\ pinned = [s \in Scans |-> 0]
  /\ assetLock = None
  /\ version = 0
  /\ pc = [w \in Workers |-> "polling"]
  /\ leased = [w \in Workers |-> None]
  /\ token = [w \in Workers |-> 0]
  /\ live = [w \in Workers |-> FALSE]
  /\ results = [s \in Scans |-> {}]
  /\ faults = 0

Fault == faults < MaxFaults /\ faults' = faults + 1

----------------------------------------------------------------------------
(* The jobs *)

State(s) == IF job[s] = None THEN "NONE" ELSE job[s].state
Active(s) == State(s) \in {"QUEUED", "RUNNING"}
Purpose(s) == IF s \in Previews THEN "PREVIEW" ELSE "APPLY"

Place(s) == CHOOSE i \in 1 .. Len(order) : order[i] = s
(* ORDER BY created_at: the first and the last of a set of scans. *)
Oldest(S) == CHOOSE s \in S : \A o \in S : Place(s) <= Place(o)
Latest(S) == IF S = {} THEN None ELSE CHOOSE s \in S : \A o \in S : Place(o) <= Place(s)

Applied == {s \in Known : Purpose(s) = "APPLY" /\ job[s] # None}
Published == {s \in Applied : State(s) = "COMPLETE"}

----------------------------------------------------------------------------
(* Requests that queue a scan *)

RequestAt(s, step) == request' = [request EXCEPT ![s] = step]

RequestBegin(s) ==
  /\ request[s] = "none"
  /\ RequestAt(s, "begun")
  /\ order' = Append(order, s)
  /\ UNCHANGED <<config, job, pinned, assetLock, version, findings>>

Existing(s) == {o \in Scans : Purpose(o) = Purpose(s) /\ Active(o)}

(* Mutant: the asset is not locked. *)
RequestPinUnlocked(s) ==
  /\ request[s] = "begun"
  /\ Existing(s) = {}
  /\ pinned' = [pinned EXCEPT ![s] = Len(config)]
  /\ RequestAt(s, "pinned")
  /\ UNCHANGED <<config, job, order, assetLock, version, findings>>

(* Under the locks: an active scan of the purpose is the answer (409 for      *)
(* another preview); else the rules in force are pinned.                      *)
RequestPin(s) ==
  /\ request[s] = "begun"
  /\ assetLock = None
  /\ IF Existing(s) = {}
     THEN /\ assetLock' = s
          /\ pinned' = [pinned EXCEPT ![s] = Len(config)]
          /\ RequestAt(s, "pinned")
     ELSE RequestAt(s, "over") /\ UNCHANGED <<assetLock, pinned>>
  /\ UNCHANGED <<config, job, order, version, findings>>

(* The INSERT and the new version of the protection, committed. *)
RequestCommit(s) ==
  /\ request[s] = "pinned"
  /\ job' = [job EXCEPT ![s] = [state |-> "QUEUED", config |-> pinned[s], generation |-> 0,
                                owner |-> None, lapsed |-> FALSE]]
  /\ version' = IF Purpose(s) = "APPLY" THEN version + 1 ELSE version
  /\ assetLock' = None
  /\ RequestAt(s, "over")
  /\ UNCHANGED <<config, order, pinned, findings>>

(* The request's transaction is rolled back. *)
RequestAbort(s) ==
  /\ request[s] \in {"begun", "pinned"}
  /\ assetLock' = IF assetLock = s THEN None ELSE assetLock
  /\ RequestAt(s, "over")
  /\ UNCHANGED <<config, job, order, pinned, version, findings>>

Request(s) ==
  /\ RequestBegin(s) \/ RequestPin(s) \/ RequestCommit(s) \/ RequestAbort(s)
  /\ UNCHANGED <<workerVars, results, faults>>

----------------------------------------------------------------------------
(* Editors of the rules *)

Configure(u, definition) ==
  /\ Len(config) < MaxConfig
  /\ config' = Append(config, [config[Len(config)] EXCEPT ![u] = definition])
  /\ UNCHANGED <<job, order, request, pinned, assetLock, version, findings>>
  /\ UNCHANGED <<workerVars, results, faults>>

Current(u) == config[Len(config)][u]

(* Under the configuration's row lock, each makes the next version. *)
CreateRule(u, hit) ==
  /\ Current(u).revision = 0
  /\ Configure(u, [revision |-> 1, hit |-> hit])

UpdateRule(u, hit) ==
  /\ Current(u).revision # 0
  /\ Configure(u, [revision |-> Current(u).revision + 1, hit |-> hit])

----------------------------------------------------------------------------
(* Workers *)

WorkerAt(w, step) == pc' = [pc EXCEPT ![w] = step]

Done(w) ==
  /\ WorkerAt(w, "polling")
  /\ leased' = [leased EXCEPT ![w] = None]
  /\ token' = [token EXCEPT ![w] = 0]
  /\ live' = [live EXCEPT ![w] = FALSE]

(* Mutant: a scan whose worker is gone is not offered again. *)
ClaimableQueuedOnly == {s \in Scans : State(s) = "QUEUED"}

Claimable == {s \in Scans : State(s) = "QUEUED" \/ (State(s) = "RUNNING" /\ job[s].lapsed)}

(* attempt_count and lease_generation are set by this statement only, and are *)
(* equal.  A job with too many attempts is failed without a scan.             *)
ClaimNextJob(w) ==
  /\ pc[w] = "polling"
  /\ Claimable # {}
  /\ LET s == Oldest(Claimable) IN
       /\ job' = [job EXCEPT ![s].state = "RUNNING", ![s].owner = w, ![s].lapsed = FALSE,
                             ![s].generation = @ + 1]
       /\ leased' = [leased EXCEPT ![w] = s]
       /\ token' = [token EXCEPT ![w] = job[s].generation + 1]
       /\ WorkerAt(w, IF job[s].generation + 1 > MaxAttempts THEN "fail" ELSE "scan")
  /\ UNCHANGED <<config, order, request, pinned, assetLock, version, findings, live, results, faults>>

(* Mutant: the fence does not look at the generation or the owner. *)
HoldsAnyGeneration(w) == job[leased[w]].state = "RUNNING"

(* The fence of every write, but for the expiry. *)
Holds(w) ==
  LET j == job[leased[w]] IN j.state = "RUNNING" /\ j.owner = w /\ j.generation = token[w]

(* The scan ends: its publication begins, with the now() its fence will use,  *)
(* or it has failed, for good or with a code that may be tried again.         *)
Scanned(w) ==
  /\ pc[w] = "scan"
  /\ live' = [live EXCEPT ![w] = ~job[leased[w]].lapsed]
  /\ WorkerAt(w, "publish")
  /\ UNCHANGED <<storeVars, leased, token, results, faults>>

Requeues(w) == token[w] < MaxAttempts

ScanFails(w) ==
  /\ pc[w] = "scan"
  /\ \E transient \in BOOLEAN :
       WorkerAt(w, IF transient /\ Requeues(w) THEN "requeue" ELSE "fail")
  /\ UNCHANGED <<storeVars, leased, token, live, results, faults>>

(* Mutant: decisions are carried over to any revision of the rule. *)
DecisionOnAnyRevision(s, d) ==
  {f.status : f \in {g \in findings : g.scan = Latest(Published \ {s}) /\ g.rule = d.rule
                                        /\ g.status # "DETECTED"}}

(* What reviewers have decided on the same detection in the scan before. *)
Decision(s, d) ==
  {f.status : f \in {g \in findings : g.scan = Latest(Published \ {s}) /\ g.rule = d.rule
                                        /\ g.revision = d.revision /\ g.status # "DETECTED"}}

(* Mutant: the rules in force when the scan ends. *)
NewFindingsOfCurrent(s) ==
  {[scan |-> s, rule |-> d.rule, revision |-> d.revision, status |-> "DETECTED"]
     : d \in Detections(Len(config))}

NewFindings(s) ==
  {[scan |-> s, rule |-> d.rule, revision |-> d.revision,
    status |-> IF Decision(s, d) = {} THEN "DETECTED" ELSE CHOOSE x \in Decision(s, d) : TRUE]
     : d \in Detections(job[s].config)}

Settle(w, state, outcome) ==
  /\ job' = [job EXCEPT ![leased[w]].state = state, ![leased[w]].owner = None,
                        ![leased[w]].lapsed = FALSE]
  /\ results' = [results EXCEPT ![leased[w]] = @ \union {[epoch |-> token[w], outcome |-> outcome]}]

(* Under the asset's locks, fenced by the lease: findings, version and state  *)
(* in one transaction, or nothing.                                            *)
Publish(w) ==
  /\ pc[w] = "publish"
  /\ assetLock = None
  /\ IF live[w] /\ Holds(w)
     THEN /\ Settle(w, "COMPLETE", "published")
          /\ IF Purpose(leased[w]) = "APPLY"
             THEN findings' = findings \union NewFindings(leased[w]) /\ version' = version + 1
             ELSE UNCHANGED <<findings, version>>
     ELSE UNCHANGED <<job, results, findings, version>>
  /\ Done(w)
  /\ UNCHANGED <<config, order, request, pinned, assetLock, faults>>

(* The database rejects the rows: recorded as a failed scan. *)
PublishRejected(w) ==
  /\ pc[w] = "publish"
  /\ Fault
  /\ WorkerAt(w, IF Requeues(w) THEN "requeue" ELSE "fail")
  /\ UNCHANGED <<storeVars, leased, token, live, results>>

Requeue(w) ==
  /\ pc[w] = "requeue"
  /\ job' = IF Holds(w) /\ ~job[leased[w]].lapsed
            THEN [job EXCEPT ![leased[w]].state = "QUEUED", ![leased[w]].owner = None]
            ELSE job
  /\ Done(w)
  /\ UNCHANGED <<config, order, request, pinned, assetLock, version, findings, results, faults>>

Fail(w) ==
  /\ pc[w] = "fail"
  /\ IF Holds(w) /\ ~job[leased[w]].lapsed
     THEN Settle(w, "FAILED", "failed")
     ELSE UNCHANGED <<job, results>>
  /\ Done(w)
  /\ UNCHANGED <<config, order, request, pinned, assetLock, version, findings, faults>>

(* The daemon dies, or an error of the database goes up to its loop. *)
Crash(w) ==
  /\ pc[w] # "polling"
  /\ Fault
  /\ Done(w)
  /\ UNCHANGED <<storeVars, results>>

(* A lease runs out when nobody renews it.  A heartbeat that has stopped, or  *)
(* a stalled daemon, lets it run out under a worker.                          *)
Lapsing(s) == State(s) = "RUNNING" /\ ~job[s].lapsed
Attended(s) == \E w \in Workers : leased[w] = s /\ token[w] = job[s].generation

Lapse(s) ==
  /\ Lapsing(s)
  /\ IF Attended(s) THEN Fault ELSE UNCHANGED faults
  /\ job' = [job EXCEPT ![s].lapsed = TRUE]
  /\ UNCHANGED <<config, order, request, pinned, assetLock, version, findings, workerVars, results>>

Work(w) ==
  \/ ClaimNextJob(w) \/ Scanned(w) \/ ScanFails(w)
  \/ Publish(w) \/ Requeue(w) \/ Fail(w)

ScanNext ==
  \/ \E s \in Scans : Request(s) \/ Lapse(s)
  \/ \E u \in Rules, hit \in BOOLEAN : CreateRule(u, hit) \/ UpdateRule(u, hit)
  \/ \E w \in Workers : Work(w) \/ PublishRejected(w) \/ Crash(w)

ScanSpec == ScanInit /\ [][ScanNext]_scanVars

(* Daemons poll and a Deployment restarts them; time passes for a lease that  *)
(* nobody renews; a request ends.                                             *)
Fairness ==
  /\ \A w \in Workers : WF_scanVars(Work(w))
  /\ \A s \in Scans : /\ WF_scanVars(~Attended(s) /\ Lapse(s))
                      /\ WF_scanVars((RequestCommit(s) \/ RequestAbort(s))
                                       /\ UNCHANGED <<workerVars, results, faults>>)

FairScanSpec == ScanSpec /\ Fairness

----------------------------------------------------------------------------
(* Safety *)

(* However requests overlap, one scan of a purpose is queued or running. *)
OneActiveScan ==
  \A s, o \in Scans : Active(s) /\ Active(o) /\ Purpose(s) = Purpose(o) => s = o

(* The findings of a scan are all there when it is COMPLETE and none is there *)
(* before, whatever crashed, was preempted or tried again; they are those of  *)
(* the rules that were in force when the scan was queued, however the rules   *)
(* have been revised since; previews and failed scans leave none.             *)
FindingsOfPinnedRules ==
  \A s \in Scans :
    {[rule |-> f.rule, revision |-> f.revision] : f \in {g \in findings : g.scan = s}} =
      IF s \in Published THEN Detections(pinned[s]) ELSE {}

(* A scan implements the life cycle of an evaluation run: it is granted to    *)
(* one worker after another and settled once, by the last.  One that is       *)
(* requeued still counts as granted.                                          *)
Lifecycle == INSTANCE RunLifecycle WITH
  Runs <- Scans,
  phase <- [s \in Scans |->
    CASE job[s] = None -> "new"
      [] State(s) = "QUEUED" /\ job[s].generation = 0 -> "waiting"
      [] Active(s) /\ job[s].generation # 0 -> "granted"
      [] OTHER -> "settled"],
  epoch <- [s \in Scans |-> IF job[s] = None THEN 0 ELSE job[s].generation],
  result <- results

ImplementsLifecycle == Lifecycle!Spec

----------------------------------------------------------------------------
(* Liveness *)

(* Every queued scan is published or failed after finitely many faults: the   *)
(* next request is not answered with a scan that never ends.                  *)
ScanSettles == \A s \in Scans : Active(s) ~> ~Active(s)
=============================================================================
