------------------------------ MODULE RunQueue ------------------------------
(* The evaluation queue: the table evaluation_runs with its run_events and    *)
(* assessments, and the statements the queue adapter and the assessment store *)
(* run on them.  Every operator below is one SQL transaction (or one half of  *)
(* the long one, save_assessment_atomic, whose fenced UPDATE holds the row    *)
(* lock until the commit).                                                    *)
(*                                                                            *)
(* Abstractions.  A lease is its expiry relative to the clock: expired[r] is  *)
(* "lease_expires_at < now()", and its negation "lease_expires_at > now()"    *)
(* (at the instant of equality neither predicate holds and nothing happens).  *)
(* attempt_count is left out: the only statement that changes it increments   *)
(* lease_generation with it, from the same initial 0.  A member of            *)
(* assessments[r] stands for the assessment row with the dimension results,   *)
(* quality results and outbox event the same transaction inserts.             *)
EXTENDS Naturals, Sequences

CONSTANTS Runs,      \* run identifiers, one per idempotency key
          Workers,   \* evaluation worker daemons
          None       \* no run / no worker

ASSUME NoneAssumption == None \notin Runs /\ None \notin Workers

VARIABLES status,       \* evaluation_runs.run_status
          generation,   \* evaluation_runs.lease_generation
          created,      \* the rows in the order of created_at (all have priority 5)
          expired,      \* lease_expires_at < now()
          locked,       \* the worker whose open transaction holds the row's lock
          events,       \* run_events, in commit order
          assessments   \* committed assessments of the run

queueVars == <<status, generation, created, expired, locked, events, assessments>>

Terminal == {"SUCCEEDED", "FAILED"}
Status == {"ABSENT", "QUEUED", "LEASED"} \union Terminal
EventType == {"RUN_QUEUED", "RUN_CLAIMED", "RUN_SUCCEEDED", "RUN_FAILED"}
Event(type, g) == [type |-> type, gen |-> g]

QueueTypeOK ==
  /\ status \in [Runs -> Status]
  /\ generation \in [Runs -> Nat]
  /\ created \in Seq(Runs)
  /\ expired \in [Runs -> BOOLEAN]
  /\ locked \in [Runs -> Workers \union {None}]
  /\ events \in [Runs -> Seq([type : EventType, gen : Nat])]
  /\ assessments \in [Runs -> SUBSET [gen : Nat, pinned : BOOLEAN]]

QueueInit ==
  /\ status = [r \in Runs |-> "ABSENT"]
  /\ generation = [r \in Runs |-> 0]
  /\ created = <<>>
  /\ expired = [r \in Runs |-> FALSE]
  /\ locked = [r \in Runs |-> None]
  /\ events = [r \in Runs |-> <<>>]
  /\ assessments = [r \in Runs |-> {}]

(* enqueue_run, after the idempotency check found no row for the key. *)
EnqueueRun(r) ==
  /\ status[r] = "ABSENT"
  /\ status' = [status EXCEPT ![r] = "QUEUED"]
  /\ created' = Append(created, r)
  /\ events' = [events EXCEPT ![r] = Append(@, Event("RUN_QUEUED", 0))]
  /\ UNCHANGED <<generation, expired, locked, assessments>>

(* Mutant: an expired lease is not offered again. *)
ClaimableQueuedOnly(r) == status[r] = "QUEUED" /\ locked[r] = None

(* The predicate of claim_next_run's inner SELECT, with SKIP LOCKED. *)
Claimable(r) ==
  /\ status[r] = "QUEUED" \/ (status[r] = "LEASED" /\ expired[r])
  /\ locked[r] = None

(* ORDER BY priority, created_at LIMIT 1. *)
FirstClaimable(i) ==
  /\ Claimable(created[i])
  /\ \A j \in 1 .. i - 1 : ~Claimable(created[j])

NothingClaimable == \A i \in DOMAIN created : ~Claimable(created[i])

(* Mutant: a claimed run is RUNNING, as in the in-memory adapter. *)
ClaimAsRunning(r) ==
  /\ \E i \in DOMAIN created : created[i] = r /\ FirstClaimable(i)
  /\ status' = [status EXCEPT ![r] = "RUNNING"]
  /\ generation' = [generation EXCEPT ![r] = @ + 1]
  /\ expired' = [expired EXCEPT ![r] = FALSE]
  /\ events' = [events EXCEPT ![r] = Append(@, Event("RUN_CLAIMED", generation[r] + 1))]
  /\ UNCHANGED <<created, locked, assessments>>

(* claim_next_run returning run r; the caller's token is generation'[r]. *)
ClaimNextRun(r) ==
  /\ \E i \in DOMAIN created : created[i] = r /\ FirstClaimable(i)
  /\ status' = [status EXCEPT ![r] = "LEASED"]
  /\ generation' = [generation EXCEPT ![r] = @ + 1]
  /\ expired' = [expired EXCEPT ![r] = FALSE]
  /\ events' = [events EXCEPT ![r] = Append(@, Event("RUN_CLAIMED", generation[r] + 1))]
  /\ UNCHANGED <<created, locked, assessments>>

(* Mutants: the fence forgets the generation, or the status. *)
HoldsAnyGeneration(r, g) == status[r] = "LEASED"
HoldsAnyStatus(r, g) == generation[r] = g

(* The lease is g's and the run unfinished. *)
Holds(r, g) == generation[r] = g /\ status[r] = "LEASED"

(* The WHERE clause shared by heartbeat, complete_run and save. *)
Fenced(r, g) == Holds(r, g) /\ ~expired[r]

(* heartbeat.  Its now() is the start of its transaction: live says whether   *)
(* the lease was unexpired then, which is what the UPDATE compares even when  *)
(* it waited for the row lock in between.                                     *)
Renewable(r, g, live) == Holds(r, g) /\ (live \/ ~expired[r])

Heartbeat(r, g, live) ==
  /\ locked[r] = None
  /\ expired' = [expired EXCEPT ![r] = IF Renewable(r, g, live) THEN FALSE ELSE @]
  /\ UNCHANGED <<status, generation, created, locked, events, assessments>>

(* Mutant: the event is written even when the UPDATE matched no row. *)
CompleteRunLogsAlways(r, g, outcome) ==
  /\ locked[r] = None
  /\ status' = IF Fenced(r, g) THEN [status EXCEPT ![r] = outcome] ELSE status
  /\ events' = [events EXCEPT ![r] = Append(@,
       Event(IF outcome = "SUCCEEDED" THEN "RUN_SUCCEEDED" ELSE "RUN_FAILED", g))]
  /\ UNCHANGED <<generation, created, expired, locked, assessments>>

(* complete_run: a fenced UPDATE and its event, else nothing. *)
CompleteRun(r, g, outcome) ==
  /\ locked[r] = None
  /\ IF Fenced(r, g)
     THEN /\ status' = [status EXCEPT ![r] = outcome]
          /\ events' = [events EXCEPT ![r] = Append(@,
               Event(IF outcome = "SUCCEEDED" THEN "RUN_SUCCEEDED" ELSE "RUN_FAILED", g))]
     ELSE UNCHANGED <<status, events>>
  /\ UNCHANGED <<generation, created, expired, locked, assessments>>

(* What complete_run answers: it changed the row, or the row already says so. *)
CompleteAnswer(r, g, outcome) ==
  Fenced(r, g) \/ (status[r] = outcome /\ generation[r] = g)

(* Mutant: the fence is a SELECT, which leaves the row unlocked. *)
SaveFenceWithoutLock(w, r, g) ==
  /\ locked[r] = None
  /\ Fenced(r, g)
  /\ UNCHANGED queueVars

(* save_assessment_atomic, first half: the fenced UPDATE.  It takes the row   *)
(* lock and its new status stays invisible until the commit.                  *)
SaveFence(w, r, g) ==
  /\ locked[r] = None
  /\ Fenced(r, g)
  /\ locked' = [locked EXCEPT ![r] = w]
  /\ UNCHANGED <<status, generation, created, expired, events, assessments>>

(* Second half: the INSERTs (assessments.run_id is UNIQUE), event and commit. *)
SaveCommit(r, g, pinned) ==
  /\ assessments[r] = {}
  /\ status' = [status EXCEPT ![r] = "SUCCEEDED"]
  /\ assessments' = [assessments EXCEPT ![r] = @ \union {[gen |-> g, pinned |-> pinned]}]
  /\ events' = [events EXCEPT ![r] = Append(@, Event("RUN_SUCCEEDED", g))]
  /\ locked' = [locked EXCEPT ![r] = None]
  /\ UNCHANGED <<generation, created, expired>>

(* A transaction of w that did not commit: the lock goes, nothing else shows. *)
Rollback(w) ==
  /\ locked' = [r \in Runs |-> IF locked[r] = w THEN None ELSE locked[r]]
  /\ UNCHANGED <<status, generation, created, expired, events, assessments>>

(* The clock passes lease_expires_at. *)
LeaseRunsOut(r) ==
  /\ status[r] = "LEASED" /\ ~expired[r]
  /\ expired' = [expired EXCEPT ![r] = TRUE]
  /\ UNCHANGED <<status, generation, created, locked, events, assessments>>
=============================================================================
