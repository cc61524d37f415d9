-------------------------- MODULE EvaluationWorker --------------------------
(* Evaluation worker daemons over the run queue: the poll loop, the           *)
(* orchestrator's execute_leased_run, the background heartbeat thread, and    *)
(* what can go wrong around them: a killed process, a lost connection, a      *)
(* lease that runs out, a snapshot object that changes under the evaluation.  *)
EXTENDS RunQueue

CONSTANT MaxFaults     \* bound on the disturbances of a behaviour

ASSUME FaultsAssumption == MaxFaults \in Nat

VARIABLES pc,       \* where the daemon's main thread is
          job,      \* the leased run it executes
          token,    \* the lease_generation it was given
          beating,  \* its heartbeat thread is running
          beats,    \* heartbeat transactions begun and not finished
          object,   \* does the run's snapshot object still have its pinned version?
          pinned,   \* did the worker's evaluation read the pinned version only?
          faults    \* disturbances so far

workerVars == <<pc, job, token, beating, pinned>>
vars == <<queueVars, workerVars, beats, object, faults>>

Step == {"down", "polling", "idle", "claimed", "verify", "evaluate", "reverify",
         "save", "insert", "complete", "fail", "ok", "raised"}

(* The main thread is inside execute_leased_run. *)
Executing == {"claimed", "verify", "evaluate", "reverify", "save", "insert",
              "complete", "fail"}

Beat == [worker : Workers, run : Runs, gen : Nat, live : BOOLEAN]

TypeOK ==
  /\ QueueTypeOK
  /\ pc \in [Workers -> Step]
  /\ job \in [Workers -> Runs \union {None}]
  /\ token \in [Workers -> Nat]
  /\ beating \in [Workers -> BOOLEAN]
  /\ beats \in SUBSET Beat
  /\ object \in [Runs -> {"pinned", "changed"}]
  /\ pinned \in [Workers -> BOOLEAN]
  /\ faults \in 0 .. MaxFaults

Init ==
  /\ QueueInit
  /\ pc = [w \in Workers |-> "down"]
  /\ job = [w \in Workers |-> None]
  /\ token = [w \in Workers |-> 0]
  /\ beating = [w \in Workers |-> FALSE]
  /\ beats = {}
  /\ object = [r \in Runs |-> "pinned"]
  /\ pinned = [w \in Workers |-> TRUE]
  /\ faults = 0

(* A disturbance, within the bound. *)
Fault == faults < MaxFaults /\ faults' = faults + 1

Goto(w, step) == pc' = [pc EXCEPT ![w] = step]

(* The main thread moves on and nothing else of the worker changes. *)
Continue(w, step) ==
  /\ Goto(w, step)
  /\ UNCHANGED <<job, token, beating, pinned, beats, object>>

(* The execution's locals and its heartbeat thread go. *)
Forget(w) ==
  /\ job' = [job EXCEPT ![w] = None]
  /\ token' = [token EXCEPT ![w] = 0]
  /\ beating' = [beating EXCEPT ![w] = FALSE]
  /\ pinned' = [pinned EXCEPT ![w] = TRUE]

----------------------------------------------------------------------------
(* The poll loop *)

Submit(r) ==
  /\ EnqueueRun(r)
  /\ UNCHANGED <<workerVars, beats, object, faults>>

Start(w) ==
  /\ pc[w] = "down"
  /\ Continue(w, "polling")
  /\ UNCHANGED <<queueVars, faults>>

(* run_once finds nothing: the daemon sleeps, then looks at its stop event. *)
PollNothing(w) ==
  /\ pc[w] = "polling"
  /\ NothingClaimable
  /\ Continue(w, "idle")
  /\ UNCHANGED <<queueVars, faults>>

Wake(w) ==
  /\ pc[w] = "idle"
  /\ Continue(w, "polling")
  /\ UNCHANGED <<queueVars, faults>>

(* SIGTERM only sets the stop event, read between two polls. *)
Stop(w) ==
  /\ pc[w] = "idle"
  /\ Continue(w, "down")
  /\ UNCHANGED <<queueVars, faults>>

(* run_once claims a run and starts the heartbeat thread for it. *)
Claim(w, r) ==
  /\ pc[w] = "polling"
  /\ ClaimNextRun(r)
  /\ Goto(w, "claimed")
  /\ job' = [job EXCEPT ![w] = r]
  /\ token' = [token EXCEPT ![w] = generation'[r]]
  /\ beating' = [beating EXCEPT ![w] = TRUE]
  /\ pinned' = [pinned EXCEPT ![w] = TRUE]
  /\ UNCHANGED <<beats, object, faults>>

(* The claim commits and its answer is lost: nobody executes the lease. *)
ClaimUnanswered(w, r) ==
  /\ pc[w] = "polling"
  /\ ClaimNextRun(r)
  /\ Fault
  /\ UNCHANGED <<workerVars, beats, object>>

----------------------------------------------------------------------------
(* execute_leased_run *)

(* The heartbeat that opens it; a refusal is a PermissionError. *)
FirstHeartbeat(w) ==
  /\ pc[w] = "claimed"
  /\ Heartbeat(job[w], token[w], FALSE)
  /\ Continue(w, IF Fenced(job[w], token[w]) THEN "verify" ELSE "raised")
  /\ UNCHANGED faults

(* It raises instead: outside the try, so nobody fails the run. *)
FirstHeartbeatUnanswered(w) ==
  /\ pc[w] = "claimed"
  /\ Fault
  /\ Continue(w, "raised")
  /\ UNCHANGED queueVars

(* verify_snapshot: a changed object aborts the run. *)
Verify(w) ==
  /\ pc[w] = "verify"
  /\ Continue(w, IF object[job[w]] = "pinned" THEN "evaluate" ELSE "fail")
  /\ UNCHANGED <<queueVars, faults>>

(* The rules read the object; any error fails the run. *)
Evaluate(w) ==
  /\ pc[w] = "evaluate"
  /\ \E next \in {"reverify", "fail"} : Goto(w, next)
  /\ pinned' = [pinned EXCEPT ![w] = (object[job[w]] = "pinned")]
  /\ UNCHANGED <<queueVars, job, token, beating, beats, object, faults>>

(* Mutant: the second verify_snapshot is left out. *)
ReverifySkipped(w) ==
  /\ pc[w] = "reverify"
  /\ Continue(w, "save")
  /\ UNCHANGED <<queueVars, faults>>

(* verify_snapshot again, after aggregation and before the save. *)
Reverify(w) ==
  /\ pc[w] = "reverify"
  /\ Continue(w, IF object[job[w]] = "pinned" THEN "save" ELSE "fail")
  /\ UNCHANGED <<queueVars, faults>>

SaveBegin(w) ==
  /\ pc[w] = "save"
  /\ SaveFence(w, job[w], token[w])
  /\ Continue(w, "insert")
  /\ UNCHANGED faults

(* Mutant: the refusal is ignored and complete_run called all the same. *)
SaveRefusalIgnored(w) ==
  /\ pc[w] = "save"
  /\ locked[job[w]] = None
  /\ ~Fenced(job[w], token[w])
  /\ Continue(w, "complete")
  /\ UNCHANGED <<queueVars, faults>>

(* The fenced UPDATE matched no row: PermissionError, and the run is left. *)
SaveRefused(w) ==
  /\ pc[w] = "save"
  /\ locked[job[w]] = None
  /\ ~Fenced(job[w], token[w])
  /\ Continue(w, "raised")
  /\ UNCHANGED <<queueVars, faults>>

SaveEnd(w) ==
  /\ pc[w] = "insert"
  /\ SaveCommit(job[w], token[w], pinned[w])
  /\ Continue(w, "complete")
  /\ UNCHANGED faults

(* The commit happens and its answer is lost: an error like any other. *)
SaveUnanswered(w) ==
  /\ pc[w] = "insert"
  /\ SaveCommit(job[w], token[w], pinned[w])
  /\ Fault
  /\ Continue(w, "fail")

(* Mutant: a failed save is swallowed. *)
SaveFailureIgnored(w) ==
  /\ pc[w] \in {"save", "insert"}
  /\ Rollback(w)
  /\ Continue(w, "complete")
  /\ UNCHANGED faults

(* The connection, an INSERT or the commit fails: the transaction rolls back. *)
SaveFails(w) ==
  /\ pc[w] \in {"save", "insert"}
  /\ Rollback(w)
  /\ Continue(w, "fail")
  /\ UNCHANGED faults

(* complete_run(SUCCEEDED); a refusal is a PermissionError. *)
CompleteSucceeded(w) ==
  /\ pc[w] = "complete"
  /\ CompleteRun(job[w], token[w], "SUCCEEDED")
  /\ Continue(w, IF CompleteAnswer(job[w], token[w], "SUCCEEDED") THEN "ok" ELSE "raised")
  /\ UNCHANGED faults

(* The call itself raises: the error goes the way of a failed evaluation. *)
CompleteUnanswered(w) ==
  /\ pc[w] = "complete"
  /\ Fault
  /\ Continue(w, "fail")
  /\ UNCHANGED queueVars

(* complete_run(FAILED) and re-raise; its answer is not looked at. *)
Fail(w) ==
  /\ pc[w] = "fail"
  /\ CompleteRun(job[w], token[w], "FAILED")
  /\ Continue(w, "raised")
  /\ UNCHANGED faults

(* complete_run(FAILED) raises and never reached the database. *)
FailUnsent(w) ==
  /\ pc[w] = "fail"
  /\ Fault
  /\ Continue(w, "raised")
  /\ UNCHANGED queueVars

(* Return or exception: the heartbeat thread is stopped, the daemon's loop    *)
(* catches the exception, and either polls again or has been told to stop.    *)
Finish(w) ==
  /\ pc[w] \in {"ok", "raised"}
  /\ \E next \in {"polling", "down"} : Goto(w, next)
  /\ Forget(w)
  /\ UNCHANGED <<queueVars, beats, object, faults>>

----------------------------------------------------------------------------
(* The heartbeat thread.  stop() waits for it two seconds at most, so a       *)
(* transaction may still be under way when its execution has ended.           *)

BeatOf(w, b) == b.worker = w /\ b.run = job[w] /\ b.gen = token[w]

BeatBegin(w) ==
  /\ beating[w]
  /\ ~\E b \in beats : BeatOf(w, b)
  /\ beats' = beats \union
       {[worker |-> w, run |-> job[w], gen |-> token[w], live |-> ~expired[job[w]]]}
  /\ UNCHANGED <<queueVars, workerVars, object, faults>>

(* A thread whose transaction b ended with the answer FALSE, or raised, ends. *)
ThreadEnds(b) ==
  beating' = [w \in Workers |-> beating[w] /\ ~BeatOf(w, b)]

BeatEnd(b) ==
  /\ Heartbeat(b.run, b.gen, b.live)
  /\ beats' = beats \ {b}
  /\ IF Renewable(b.run, b.gen, b.live) THEN UNCHANGED beating ELSE ThreadEnds(b)
  /\ UNCHANGED <<pc, job, token, pinned, object, faults>>

(* The call raises, whether or not the database executed it. *)
BeatLost(b) ==
  /\ Fault
  /\ Heartbeat(b.run, b.gen, b.live) \/ UNCHANGED queueVars
  /\ beats' = beats \ {b}
  /\ ThreadEnds(b)
  /\ UNCHANGED <<pc, job, token, pinned, object>>

----------------------------------------------------------------------------
(* The environment *)

(* Somebody executes r's current lease and its heartbeat thread renews it. *)
Renewed(r) == \E w \in Workers : beating[w] /\ job[w] = r /\ token[w] = generation[r]

(* A lease nobody renews runs out. *)
Lapse(r) ==
  /\ ~Renewed(r)
  /\ LeaseRunsOut(r)
  /\ UNCHANGED <<workerVars, beats, object, faults>>

(* 300 s pass between two beats 5 s apart: a stalled process or database. *)
LapseEarly(r) ==
  /\ Renewed(r)
  /\ LeaseRunsOut(r)
  /\ Fault
  /\ UNCHANGED <<workerVars, beats, object>>

(* SIGKILL, or the pod is lost.  A transaction in the database rolls back; a  *)
(* heartbeat already sent may still be executed.                              *)
Crash(w) ==
  /\ pc[w] # "down"
  /\ Fault
  /\ Rollback(w)
  /\ Goto(w, "down")
  /\ Forget(w)
  /\ UNCHANGED <<beats, object>>

(* The snapshot's object is overwritten or removed in the bucket. *)
ObjectChanges(r) ==
  /\ object[r] = "pinned"
  /\ object' = [object EXCEPT ![r] = "changed"]
  /\ UNCHANGED <<queueVars, workerVars, beats, faults>>

Main(w) ==
  \/ Start(w) \/ PollNothing(w) \/ Wake(w)
  \/ \E r \in Runs : Claim(w, r)
  \/ FirstHeartbeat(w) \/ Verify(w) \/ Evaluate(w) \/ Reverify(w)
  \/ SaveBegin(w) \/ SaveRefused(w) \/ SaveEnd(w) \/ SaveFails(w)
  \/ CompleteSucceeded(w) \/ Fail(w) \/ Finish(w)

Disturbance(w) ==
  \/ \E r \in Runs : ClaimUnanswered(w, r)
  \/ FirstHeartbeatUnanswered(w) \/ SaveUnanswered(w) \/ CompleteUnanswered(w) \/ FailUnsent(w) \/ Crash(w)

Next ==
  \/ \E r \in Runs : Submit(r) \/ Lapse(r) \/ LapseEarly(r) \/ ObjectChanges(r)
  \/ \E w \in Workers : Main(w) \/ Disturbance(w) \/ Stop(w) \/ BeatBegin(w)
  \/ \E b \in beats : BeatEnd(b) \/ BeatLost(b)

Spec == Init /\ [][Next]_vars

(* A daemon's main thread does not stall for ever and a pod that went down is *)
(* started again (Deployment); time passes for a lease nobody renews.         *)
(* Nothing is assumed of the heartbeat threads, the clients or the faults.    *)
Fairness ==
  /\ \A w \in Workers : WF_vars(Main(w))
  /\ \A r \in Runs : WF_vars(Lapse(r))

FairSpec == Spec /\ Fairness

----------------------------------------------------------------------------
(* Safety *)

(* A run is SUCCEEDED exactly when its assessment is in the store: complete_run *)
(* alone never makes it so, and no failure or crash separates the two.          *)
SucceededIffPublished ==
  \A r \in Runs : status[r] = "SUCCEEDED" <=> assessments[r] # {}

(* The assessment is the one of the run's last claim, whoever else was still  *)
(* evaluating the run under an earlier lease.                                 *)
PublishedByLastClaim ==
  \A r \in Runs : \A a \in assessments[r] : a.gen = generation[r]

(* An assessment was computed from the snapshot's pinned version only: a      *)
(* change of the object during the evaluation is caught before the save.      *)
PublishedFromPinnedObject ==
  \A r \in Runs : \A a \in assessments[r] : a.pinned

(* An execution that returns an assessment to the daemon is the one whose     *)
(* assessment is stored.                                                      *)
ReportedSuccessIsPublished ==
  \A w \in Workers : pc[w] = "ok" =>
    \E a \in assessments[job[w]] : a.gen = token[w]

(* While the save inserts, its lease is still the run's: the row cannot be    *)
(* claimed between the fence and the commit, even when the lease runs out.    *)
SaveIsCurrent ==
  \A w \in Workers : pc[w] = "insert" => Holds(job[w], token[w])

(* No two executions of a run ever hold the same lease generation. *)
TokensAreUnique ==
  \A v, w \in Workers :
    v # w /\ {pc[v], pc[w]} \subseteq Executing /\ job[v] = job[w]
      => token[v] # token[w]

(* The event log a run in the given state must have: queued, claimed once per *)
(* generation in order, and one terminal event naming the last generation.    *)
LogLength(state, g) ==
  CASE state = "ABSENT" -> 0
    [] state \in Terminal -> g + 2
    [] OTHER -> g + 1

LogOf(state, g) ==
  [i \in 1 .. LogLength(state, g) |->
     IF i = 1 THEN Event("RUN_QUEUED", 0)
     ELSE IF i <= g + 1 THEN Event("RUN_CLAIMED", i - 1)
     ELSE Event(IF state = "SUCCEEDED" THEN "RUN_SUCCEEDED" ELSE "RUN_FAILED", g)]

(* run_events alone tells the whole history of every run, whatever was        *)
(* retried, refused or lost on the way.                                       *)
EventsExplainRow == \A r \in Runs : events[r] = LogOf(status[r], generation[r])

----------------------------------------------------------------------------
(* Action properties *)

(* A finished run is never touched again: not by a late heartbeat, a failing  *)
(* execution whose save had committed, or a new claim.                        *)
TerminalIsFinal ==
  [][\A r \in Runs : status[r] \in Terminal =>
       UNCHANGED <<status[r], generation[r], events[r], assessments[r]>>]_vars

----------------------------------------------------------------------------
(* What the clients are promised *)

PhaseOf(state) ==
  CASE state = "ABSENT" -> "new"
    [] state = "QUEUED" -> "waiting"
    [] state = "LEASED" -> "granted"
    [] OTHER -> "settled"

ResultOf(r) ==
  {[epoch |-> a.gen, outcome |-> "published"] : a \in assessments[r]} \union
  (IF status[r] = "FAILED" THEN {[epoch |-> generation[r], outcome |-> "failed"]} ELSE {})

Lifecycle == INSTANCE RunLifecycle WITH
  phase <- [r \in Runs |-> PhaseOf(status[r])],
  epoch <- [r \in Runs |-> generation[r]],
  result <- [r \in Runs |-> ResultOf(r)]

(* The queue and its daemons implement the run lifecycle: a run is settled    *)
(* once, in one step, by the evaluation it was granted to last.               *)
ImplementsLifecycle == Lifecycle!Spec

----------------------------------------------------------------------------
(* Liveness *)

(* After finitely many disturbances every queued run is published or failed. *)
EveryRunSettles ==
  \A r \in Runs : status[r] = "QUEUED" ~> status[r] \in Terminal
=============================================================================
