----------------------- MODULE EvaluationWorkerProofs -----------------------
(* Proofs about the run queue and the evaluation workers, for any sets of     *)
(* runs and workers and any number of disturbances.                           *)
EXTENDS EvaluationWorker, TLAPS

----------------------------------------------------------------------------
(* Type correctness *)

(* Appending an element of S to a sequence over S gives a sequence over S.    *)
LEMMA AppendType == ASSUME NEW S, NEW s \in Seq(S), NEW e \in S
                    PROVE  Append(s, e) \in Seq(S)
  OBVIOUS

(* Logging one well-typed event keeps the logs well typed. *)
LEMMA LogType ==
  ASSUME events \in [Runs -> Seq([type : EventType, gen : Nat])], NEW r \in Runs,
         NEW type \in EventType, NEW g \in Nat
  PROVE  [events EXCEPT ![r] = Append(@, Event(type, g))]
           \in [Runs -> Seq([type : EventType, gen : Nat])]
<1>1. Event(type, g) \in [type : EventType, gen : Nat]
  BY DEF Event
<1>2. events[r] \in Seq([type : EventType, gen : Nat])
  OBVIOUS
<1>3. Append(events[r], Event(type, g)) \in Seq([type : EventType, gen : Nat])
  BY <1>1, <1>2, AppendType
<1> QED BY <1>3

(* enqueue_run keeps the tables well typed.                                   *)
LEMMA EnqueueType == ASSUME QueueTypeOK, NEW r \in Runs, EnqueueRun(r)
                     PROVE  QueueTypeOK'
<1>1. events' \in [Runs -> Seq([type : EventType, gen : Nat])]
  BY LogType DEF QueueTypeOK, EnqueueRun, EventType
<1>2. created' \in Seq(Runs)
  BY AppendType DEF QueueTypeOK, EnqueueRun
<1>3. status' \in [Runs -> Status]
  BY DEF QueueTypeOK, EnqueueRun, Status
<1> QED BY <1>1, <1>2, <1>3 DEF QueueTypeOK, EnqueueRun

(* claim_next_run keeps the tables well typed.                                *)
LEMMA ClaimType == ASSUME QueueTypeOK, NEW r \in Runs, ClaimNextRun(r)
                   PROVE  QueueTypeOK'
<1>1. generation[r] + 1 \in Nat
  BY DEF QueueTypeOK
<1>2. events' \in [Runs -> Seq([type : EventType, gen : Nat])]
  BY <1>1, LogType DEF QueueTypeOK, ClaimNextRun, EventType
<1>3. /\ status' \in [Runs -> Status]
      /\ generation' \in [Runs -> Nat]
      /\ expired' \in [Runs -> BOOLEAN]
  BY <1>1 DEF QueueTypeOK, ClaimNextRun, Status
<1> QED BY <1>2, <1>3 DEF QueueTypeOK, ClaimNextRun

(* heartbeat keeps the tables well typed.                                     *)
LEMMA HeartbeatType == ASSUME QueueTypeOK, NEW r, NEW g, NEW live, Heartbeat(r, g, live)
                       PROVE  QueueTypeOK'
<1>1. expired' \in [Runs -> BOOLEAN]
  BY DEF QueueTypeOK, Heartbeat
<1> QED BY <1>1 DEF QueueTypeOK, Heartbeat

(* complete_run keeps the tables well typed, whatever it answers.             *)
LEMMA CompleteType == ASSUME QueueTypeOK, NEW r \in Runs, NEW g \in Nat, NEW outcome \in Terminal,
                             CompleteRun(r, g, outcome)
                      PROVE  QueueTypeOK'
<1> DEFINE type == IF outcome = "SUCCEEDED" THEN "RUN_SUCCEEDED" ELSE "RUN_FAILED"
<1>1. type \in EventType
  BY DEF EventType
<1>2. events' \in [Runs -> Seq([type : EventType, gen : Nat])]
  <2> HIDE DEF type
  <2>1. events \in [Runs -> Seq([type : EventType, gen : Nat])]
    BY DEF QueueTypeOK
  <2>2. CASE events' = [events EXCEPT ![r] = Append(@, Event(type, g))]
    BY <1>1, <2>1, <2>2, LogType
  <2>3. CASE events' = events
    BY <2>1, <2>3
  <2> QED BY <2>2, <2>3 DEF CompleteRun, type
<1>3. status' \in [Runs -> Status]
  BY DEF QueueTypeOK, CompleteRun, Status
<1> QED BY <1>2, <1>3 DEF QueueTypeOK, CompleteRun

(* The fenced UPDATE of a save keeps the tables well typed.                   *)
LEMMA FenceType == ASSUME QueueTypeOK, NEW w \in Workers, NEW r, NEW g, SaveFence(w, r, g)
                   PROVE  QueueTypeOK'
  BY DEF QueueTypeOK, SaveFence

(* The commit of a save keeps the tables well typed.                          *)
LEMMA CommitType == ASSUME QueueTypeOK, NEW r \in Runs, NEW g \in Nat, NEW p \in BOOLEAN,
                           SaveCommit(r, g, p)
                    PROVE  QueueTypeOK'
<1>1. events' \in [Runs -> Seq([type : EventType, gen : Nat])]
  BY LogType DEF QueueTypeOK, SaveCommit, EventType
<1>2. status' \in [Runs -> Status]
  BY DEF QueueTypeOK, SaveCommit, Status, Terminal
<1>3. assessments' \in [Runs -> SUBSET [gen : Nat, pinned : BOOLEAN]]
  BY DEF QueueTypeOK, SaveCommit
<1>4. locked' \in [Runs -> Workers \union {None}]
  BY DEF QueueTypeOK, SaveCommit
<1> QED BY <1>1, <1>2, <1>3, <1>4 DEF QueueTypeOK, SaveCommit

(* A rollback keeps the tables well typed.                                    *)
LEMMA RollbackType == ASSUME QueueTypeOK, NEW w, Rollback(w)
                      PROVE  QueueTypeOK'
<1>1. locked' \in [Runs -> Workers \union {None}]
  BY DEF QueueTypeOK, Rollback
<1> QED BY <1>1 DEF QueueTypeOK, Rollback

(* The clock keeps the tables well typed.                                     *)
LEMMA RunsOutType == ASSUME QueueTypeOK, NEW r, LeaseRunsOut(r)
                     PROVE  QueueTypeOK'
  BY DEF QueueTypeOK, LeaseRunsOut

(* A step that leaves the tables alone keeps them well typed.                 *)
LEMMA UnchangedType == ASSUME QueueTypeOK, UNCHANGED queueVars
                       PROVE  QueueTypeOK'
  BY DEF QueueTypeOK, queueVars

(* The transaction a step runs on the tables, if any: a run is saved, or      *)
(* completed as SUCCEEDED, only by a worker that has come that far.           *)
QueueStep ==
  \/ UNCHANGED queueVars
  \/ \E r \in Runs :
       \/ EnqueueRun(r) \/ ClaimNextRun(r) \/ LeaseRunsOut(r)
       \/ \E g \in Nat, live \in BOOLEAN : Heartbeat(r, g, live)
       \/ \E g \in Nat : CompleteRun(r, g, "FAILED")
  \/ \E w \in Workers :
       \/ pc[w] = "save" /\ SaveFence(w, job[w], token[w])
       \/ pc[w] = "insert" /\ SaveCommit(job[w], token[w], pinned[w])
       \/ pc[w] = "complete" /\ CompleteRun(job[w], token[w], "SUCCEEDED")
       \/ Rollback(w)

(* A thread that executes a run, or has just done so, knows which. *)
Engaged == Executing \union {"ok", "raised"}

JobOK == \A w \in Workers : pc[w] \in Engaged \/ beating[w] => job[w] \in Runs

(* Inside an execution the worker has a run and a token.                      *)
LEMMA JobKnown == ASSUME TypeOK, JobOK, NEW w \in Workers, pc[w] \in Engaged
                  PROVE  job[w] \in Runs /\ token[w] \in Nat /\ pinned[w] \in BOOLEAN
  BY DEF JobOK, TypeOK

(* Every step does to the tables one of the things QueueStep lists.           *)
LEMMA StepOnTables == ASSUME TypeOK, JobOK, [Next]_vars PROVE QueueStep
<1> USE DEF Engaged, Executing
<1>1. ASSUME NEW r \in Runs, Submit(r) \/ Lapse(r) \/ LapseEarly(r) \/ ObjectChanges(r)
      PROVE  QueueStep
  BY <1>1 DEF Submit, Lapse, LapseEarly, ObjectChanges, QueueStep
<1>2. ASSUME NEW w \in Workers,
             \/ Start(w) \/ PollNothing(w) \/ Wake(w) \/ Stop(w) \/ Verify(w) \/ Evaluate(w)
             \/ Reverify(w) \/ SaveRefused(w) \/ FirstHeartbeatUnanswered(w)
             \/ CompleteUnanswered(w) \/ FailUnsent(w) \/ Finish(w) \/ BeatBegin(w)
      PROVE  QueueStep
  BY <1>2 DEF QueueStep, Start, PollNothing, Wake, Stop, Verify, Evaluate, Reverify, SaveRefused,
     FirstHeartbeatUnanswered, CompleteUnanswered, FailUnsent, Finish, BeatBegin
<1>3. ASSUME NEW w \in Workers, NEW r \in Runs, Claim(w, r) \/ ClaimUnanswered(w, r)
      PROVE  QueueStep
  BY <1>3 DEF Claim, ClaimUnanswered, QueueStep
<1>4. ASSUME NEW w \in Workers, FirstHeartbeat(w) PROVE QueueStep
  BY <1>4, JobKnown DEF FirstHeartbeat, QueueStep
<1>5. ASSUME NEW w \in Workers, SaveBegin(w) \/ SaveEnd(w) \/ SaveUnanswered(w) PROVE QueueStep
  BY <1>5 DEF SaveBegin, SaveEnd, SaveUnanswered, QueueStep
<1>6. ASSUME NEW w \in Workers, SaveFails(w) \/ Crash(w) PROVE QueueStep
  BY <1>6 DEF SaveFails, Crash, QueueStep
<1>7. ASSUME NEW w \in Workers, CompleteSucceeded(w) PROVE QueueStep
  BY <1>7 DEF CompleteSucceeded, QueueStep
<1>8. ASSUME NEW w \in Workers, Fail(w) PROVE QueueStep
  BY <1>8, JobKnown DEF Fail, QueueStep
<1>9. ASSUME NEW b \in beats, BeatEnd(b) \/ BeatLost(b) PROVE QueueStep
  <2>1. b.run \in Runs /\ b.gen \in Nat /\ b.live \in BOOLEAN
    BY DEF TypeOK, Beat
  <2> QED BY <1>9, <2>1 DEF BeatEnd, BeatLost, QueueStep
<1>10. CASE UNCHANGED vars
  BY <1>10 DEF vars, QueueStep
<1> QED
  BY <1>1, <1>2, <1>3, <1>4, <1>5, <1>6, <1>7, <1>8, <1>9, <1>10 DEF Next, Main, Disturbance

(* Whatever a step does to the tables, they stay well typed.                  *)
LEMMA TablesStayTyped == ASSUME TypeOK, JobOK, QueueStep PROVE QueueTypeOK'
<1>1. QueueTypeOK
  BY DEF TypeOK
<1>2. ASSUME NEW w \in Workers, pc[w] = "save", SaveFence(w, job[w], token[w]) PROVE QueueTypeOK'
  BY <1>1, <1>2, FenceType
<1>3. ASSUME NEW w \in Workers, pc[w] = "insert", SaveCommit(job[w], token[w], pinned[w])
      PROVE  QueueTypeOK'
  <2>1. job[w] \in Runs /\ token[w] \in Nat /\ pinned[w] \in BOOLEAN
    BY <1>3, JobKnown DEF Engaged, Executing
  <2> QED BY <1>1, <1>3, <2>1, CommitType
<1>4. ASSUME NEW w \in Workers, pc[w] = "complete", CompleteRun(job[w], token[w], "SUCCEEDED")
      PROVE  QueueTypeOK'
  <2>1. job[w] \in Runs /\ token[w] \in Nat
    BY <1>4, JobKnown DEF Engaged, Executing
  <2> QED BY <1>1, <1>4, <2>1, CompleteType DEF Terminal
<1>5. ASSUME NEW r \in Runs, NEW g \in Nat, CompleteRun(r, g, "FAILED") PROVE QueueTypeOK'
  BY <1>1, <1>5, CompleteType DEF Terminal
<1> QED
  BY <1>1, <1>2, <1>3, <1>4, <1>5, EnqueueType, ClaimType, RunsOutType, HeartbeatType,
     RollbackType, UnchangedType DEF QueueStep

WorkerTypeOK ==
  /\ pc \in [Workers -> Step]
  /\ job \in [Workers -> Runs \union {None}]
  /\ token \in [Workers -> Nat]
  /\ beating \in [Workers -> BOOLEAN]
  /\ beats \in SUBSET Beat
  /\ object \in [Runs -> {"pinned", "changed"}]
  /\ pinned \in [Workers -> BOOLEAN]
  /\ faults \in 0 .. MaxFaults

(* A step of the main thread within one execution, or outside any. *)
LEMMA ContinueType ==
  ASSUME WorkerTypeOK, JobOK, NEW w \in Workers, NEW step \in Step, Continue(w, step),
         pc[w] \in Engaged \/ step \notin Engaged, faults' \in 0 .. MaxFaults
  PROVE  (WorkerTypeOK /\ JobOK)'
<1> USE DEF WorkerTypeOK, Continue, Goto
<1>1. WorkerTypeOK'
  OBVIOUS
<1>2. ASSUME NEW v \in Workers, pc'[v] \in Engaged \/ beating'[v] PROVE job'[v] \in Runs
  BY <1>2 DEF JobOK
<1> QED BY <1>1, <1>2 DEF JobOK

(* A disturbance stays within its bound.                                      *)
LEMMA FaultType == ASSUME WorkerTypeOK, Fault PROVE faults' \in 0 .. MaxFaults
  BY FaultsAssumption DEF WorkerTypeOK, Fault

(* Every step keeps the daemons and the beats in flight well typed.           *)
LEMMA WorkersStayTyped ==
  ASSUME TypeOK, JobOK, QueueTypeOK', [Next]_vars
  PROVE  (WorkerTypeOK /\ JobOK)'
<1>0. WorkerTypeOK
  BY DEF TypeOK, WorkerTypeOK
<1>1. ASSUME NEW r \in Runs, Submit(r) \/ Lapse(r) PROVE (WorkerTypeOK /\ JobOK)'
  BY <1>0, <1>1 DEF Submit, Lapse, workerVars, WorkerTypeOK, JobOK
<1>2. ASSUME NEW r \in Runs, LapseEarly(r) PROVE (WorkerTypeOK /\ JobOK)'
  BY <1>0, <1>2, FaultType DEF LapseEarly, workerVars, WorkerTypeOK, JobOK
<1>3. ASSUME NEW r \in Runs, ObjectChanges(r) PROVE (WorkerTypeOK /\ JobOK)'
  BY <1>0, <1>3 DEF ObjectChanges, workerVars, WorkerTypeOK, JobOK
<1>4. ASSUME NEW w \in Workers, Start(w) \/ PollNothing(w) \/ Wake(w) \/ Stop(w)
      PROVE  (WorkerTypeOK /\ JobOK)'
  <2>1. faults' \in 0 .. MaxFaults
    BY <1>0, <1>4 DEF Start, PollNothing, Wake, Stop, WorkerTypeOK
  <2>2. PICK step \in {"polling", "idle", "down"} : Continue(w, step)
    BY <1>4 DEF Start, PollNothing, Wake, Stop
  <2> QED BY <1>0, <2>1, <2>2, ContinueType DEF Step, Engaged, Executing
<1>5. ASSUME NEW w \in Workers,
             \/ FirstHeartbeat(w) \/ Verify(w) \/ Reverify(w) \/ SaveBegin(w) \/ SaveRefused(w)
             \/ SaveEnd(w) \/ SaveFails(w) \/ CompleteSucceeded(w) \/ Fail(w)
      PROVE  (WorkerTypeOK /\ JobOK)'
  <2>1. faults' \in 0 .. MaxFaults
    BY <1>0, <1>5 DEF FirstHeartbeat, Verify, Reverify, SaveBegin, SaveRefused, SaveEnd, SaveFails,
       CompleteSucceeded, Fail, WorkerTypeOK
  <2>2. PICK step \in Engaged : Continue(w, step)
    BY <1>5 DEF FirstHeartbeat, Verify, Reverify, SaveBegin, SaveRefused, SaveEnd, SaveFails,
       CompleteSucceeded, Fail, Engaged, Executing
  <2>3. pc[w] \in Engaged
    BY <1>5 DEF FirstHeartbeat, Verify, Reverify, SaveBegin, SaveRefused, SaveEnd, SaveFails,
       CompleteSucceeded, Fail, Engaged, Executing
  <2>4. step \in Step
    BY DEF Step, Engaged, Executing
  <2> QED BY <1>0, <2>1, <2>2, <2>3, <2>4, ContinueType
<1>6. ASSUME NEW w \in Workers,
             \/ FirstHeartbeatUnanswered(w) \/ SaveUnanswered(w) \/ CompleteUnanswered(w)
             \/ FailUnsent(w)
      PROVE  (WorkerTypeOK /\ JobOK)'
  <2>1. faults' \in 0 .. MaxFaults
    BY <1>0, <1>6, FaultType DEF FirstHeartbeatUnanswered, SaveUnanswered, CompleteUnanswered, FailUnsent
  <2>2. PICK step \in {"raised", "fail"} : Continue(w, step)
    BY <1>6 DEF FirstHeartbeatUnanswered, SaveUnanswered, CompleteUnanswered, FailUnsent
  <2>3. pc[w] \in Engaged
    BY <1>6 DEF FirstHeartbeatUnanswered, SaveUnanswered, CompleteUnanswered, FailUnsent,
       Engaged, Executing
  <2> QED BY <1>0, <2>1, <2>2, <2>3, ContinueType DEF Step
<1>7. ASSUME NEW w \in Workers, Evaluate(w) PROVE (WorkerTypeOK /\ JobOK)'
  BY <1>0, <1>7 DEF Evaluate, Goto, WorkerTypeOK, JobOK, Step, Engaged, Executing
<1>8. ASSUME NEW w \in Workers, Finish(w) \/ Crash(w) PROVE (WorkerTypeOK /\ JobOK)'
  <2>1. faults' \in 0 .. MaxFaults
    BY <1>0, <1>8, FaultType DEF Finish, Crash, WorkerTypeOK
  <2>2. PICK step \in {"polling", "down"} : Goto(w, step)
    BY <1>8 DEF Finish, Crash
  <2>3. Forget(w) /\ UNCHANGED <<beats, object>>
    BY <1>8 DEF Finish, Crash
  <2> QED BY <1>0, <2>1, <2>2, <2>3 DEF Goto, Forget, WorkerTypeOK, JobOK, Step, Engaged, Executing
<1>9. ASSUME NEW w \in Workers, NEW r \in Runs, Claim(w, r) PROVE (WorkerTypeOK /\ JobOK)'
  <2>1. generation'[r] \in Nat
    BY DEF QueueTypeOK
  <2> QED BY <1>0, <1>9, <2>1 DEF Claim, Goto, WorkerTypeOK, JobOK, Step, Engaged, Executing
<1>10. ASSUME NEW w \in Workers, NEW r \in Runs, ClaimUnanswered(w, r)
       PROVE  (WorkerTypeOK /\ JobOK)'
  BY <1>0, <1>10, FaultType DEF ClaimUnanswered, workerVars, WorkerTypeOK, JobOK
<1>11. ASSUME NEW w \in Workers, BeatBegin(w) PROVE (WorkerTypeOK /\ JobOK)'
  <2> DEFINE b == [worker |-> w, run |-> job[w], gen |-> token[w], live |-> ~expired[job[w]]]
  <2>1. job[w] \in Runs
    BY <1>11 DEF BeatBegin, JobOK
  <2>2. b \in Beat
    BY <1>0, <2>1 DEF Beat, WorkerTypeOK
  <2> QED BY <1>0, <1>11, <2>2 DEF BeatBegin, workerVars, WorkerTypeOK, JobOK
<1>12. ASSUME NEW b \in beats, BeatEnd(b) PROVE (WorkerTypeOK /\ JobOK)'
  BY <1>0, <1>12 DEF BeatEnd, ThreadEnds, WorkerTypeOK, JobOK
<1>13. ASSUME NEW b \in beats, BeatLost(b) PROVE (WorkerTypeOK /\ JobOK)'
  BY <1>0, <1>13, FaultType DEF BeatLost, ThreadEnds, WorkerTypeOK, JobOK
<1>14. CASE UNCHANGED vars
  BY <1>0, <1>14 DEF vars, workerVars, WorkerTypeOK, JobOK
<1> QED
  BY <1>1, <1>2, <1>3, <1>4, <1>5, <1>6, <1>7, <1>8, <1>9, <1>10, <1>11, <1>12, <1>13, <1>14
  DEF Next, Main, Disturbance

TypeInv == TypeOK /\ JobOK

(* The initial state is well typed.                                           *)
LEMMA TypeInit == Init => TypeInv
  BY FaultsAssumption DEF Init, QueueInit, TypeInv, TypeOK, QueueTypeOK, JobOK, Status, Step, Engaged,
     Executing

(* Every step preserves well-typedness.                                       *)
LEMMA TypeStep == TypeInv /\ [Next]_vars => TypeInv'
<1> SUFFICES ASSUME TypeOK, JobOK, [Next]_vars PROVE TypeInv'
  BY DEF TypeInv
<1>1. QueueTypeOK'
  BY StepOnTables, TablesStayTyped
<1>2. (WorkerTypeOK /\ JobOK)'
  BY <1>1, WorkersStayTyped
<1> QED BY <1>1, <1>2 DEF WorkerTypeOK, TypeInv, TypeOK

(* The tables, the daemons and the heartbeats in flight only take the values  *)
(* the code can give them.                                                    *)
THEOREM TypeCorrect == Spec => []TypeOK
<1>1. TypeInv => TypeOK
  BY DEF TypeInv
<1> QED BY <1>1, TypeInit, TypeStep, PTL DEF Spec

----------------------------------------------------------------------------
(* Row locks *)

(* A row is locked exactly by the worker that is inserting its assessment,    *)
(* and that worker's lease is the run's.                                      *)
LockOK ==
  /\ \A r \in Runs : locked[r] # None => pc[locked[r]] = "insert" /\ job[locked[r]] = r
  /\ \A w \in Workers : pc[w] = "insert" => locked[job[w]] = w /\ Holds(job[w], token[w])

(* Nobody enters or leaves the save, and no locked row changes. *)
LEMMA LockKept ==
  ASSUME TypeInv, LockOK,
         \A w \in Workers : /\ pc'[w] = "insert" <=> pc[w] = "insert"
                            /\ pc[w] = "insert" => job'[w] = job[w] /\ token'[w] = token[w],
         locked' = locked,
         \A r \in Runs : locked[r] # None => status'[r] = status[r] /\ generation'[r] = generation[r]
  PROVE  LockOK'
<1>1. ASSUME NEW r \in Runs, locked'[r] # None
      PROVE  pc'[locked'[r]] = "insert" /\ job'[locked'[r]] = r
  BY <1>1 DEF LockOK, TypeInv, TypeOK, QueueTypeOK
<1>2. ASSUME NEW w \in Workers, pc'[w] = "insert"
      PROVE  /\ locked'[job'[w]] = w
             /\ status'[job'[w]] = "LEASED" /\ generation'[job'[w]] = token'[w]
  <2>1. pc[w] = "insert" /\ job'[w] = job[w] /\ token'[w] = token[w] /\ job[w] \in Runs
    BY <1>2, JobKnown DEF TypeInv, Engaged, Executing
  <2>2. locked[job[w]] = w /\ status[job[w]] = "LEASED" /\ generation[job[w]] = token[w]
    BY <2>1 DEF LockOK, Holds
  <2> QED BY <2>1, <2>2, NoneAssumption
<1> QED BY <1>1, <1>2 DEF LockOK, Holds

(* Every step keeps the row locks with the saves that took them.              *)
LEMMA LockStep == ASSUME TypeInv, LockOK, [Next]_vars PROVE LockOK'
<1>0. /\ TypeOK /\ JobOK /\ QueueTypeOK /\ pc \in [Workers -> Step]
      /\ job \in [Workers -> Runs \union {None}] /\ token \in [Workers -> Nat]
  BY DEF TypeInv, TypeOK
<1>1. ASSUME NEW r \in Runs, Submit(r) \/ Lapse(r) \/ LapseEarly(r) \/ ObjectChanges(r)
      PROVE  LockOK'
  <2>1. UNCHANGED <<pc, job, token, locked, generation>>
    BY <1>1 DEF Submit, Lapse, LapseEarly, ObjectChanges, workerVars, queueVars, EnqueueRun,
       LeaseRunsOut
  <2>2. \A q \in Runs : locked[q] # None => status'[q] = status[q]
    <3>1. CASE Submit(r)
      <4>1. locked[r] = None
        BY <3>1, NoneAssumption, <1>0 DEF Submit, EnqueueRun, LockOK, Holds, QueueTypeOK
      <4> QED BY <1>0, <3>1, <4>1 DEF Submit, EnqueueRun, QueueTypeOK
    <3>2. CASE UNCHANGED status
      BY <3>2
    <3> QED BY <1>1, <3>1, <3>2 DEF Lapse, LapseEarly, ObjectChanges, queueVars, LeaseRunsOut
  <2> QED BY <2>1, <2>2, LockKept
<1>2. ASSUME NEW w \in Workers,
             \/ Start(w) \/ PollNothing(w) \/ Wake(w) \/ Stop(w) \/ Verify(w) \/ Evaluate(w)
             \/ Reverify(w) \/ SaveRefused(w) \/ FirstHeartbeatUnanswered(w)
             \/ CompleteUnanswered(w) \/ FailUnsent(w) \/ Finish(w) \/ BeatBegin(w)
      PROVE  LockOK'
  <2>1. UNCHANGED <<locked, status, generation>>
    BY <1>2 DEF Start, PollNothing, Wake, Stop, Verify, Evaluate, Reverify, SaveRefused,
       FirstHeartbeatUnanswered, CompleteUnanswered, FailUnsent, Finish, BeatBegin, queueVars
  <2>2. \A v \in Workers : /\ pc'[v] = "insert" <=> pc[v] = "insert"
                           /\ pc[v] = "insert" => job'[v] = job[v] /\ token'[v] = token[v]
    BY <1>0, <1>2 DEF Start, PollNothing, Wake, Stop, Verify, Evaluate, Reverify, SaveRefused,
       FirstHeartbeatUnanswered, CompleteUnanswered, FailUnsent, Finish, BeatBegin, Continue, Goto,
       Forget, workerVars
  <2> QED BY <2>1, <2>2, LockKept
<1>3. ASSUME NEW w \in Workers, NEW r \in Runs, Claim(w, r) \/ ClaimUnanswered(w, r)
      PROVE  LockOK'
  <2>1. locked' = locked /\ locked[r] = None
    BY <1>3 DEF Claim, ClaimUnanswered, ClaimNextRun, FirstClaimable, Claimable
  <2>2. \A q \in Runs : locked[q] # None => status'[q] = status[q] /\ generation'[q] = generation[q]
    BY <1>0, <1>3, <2>1 DEF Claim, ClaimUnanswered, ClaimNextRun, QueueTypeOK
  <2>3. \A v \in Workers : /\ pc'[v] = "insert" <=> pc[v] = "insert"
                           /\ pc[v] = "insert" => job'[v] = job[v] /\ token'[v] = token[v]
    BY <1>0, <1>3 DEF Claim, ClaimUnanswered, Goto, workerVars
  <2> QED BY <2>1, <2>2, <2>3, LockKept
<1>4. ASSUME NEW w \in Workers, FirstHeartbeat(w) \/ CompleteSucceeded(w) \/ Fail(w)
      PROVE  LockOK'
  <2>1. job[w] \in Runs /\ locked' = locked /\ locked[job[w]] = None /\ generation' = generation
    BY <1>0, <1>4, JobKnown DEF FirstHeartbeat, CompleteSucceeded, Fail, Heartbeat, CompleteRun,
       Engaged, Executing
  <2>2. \A q \in Runs : locked[q] # None => status'[q] = status[q]
    BY <1>0, <1>4, <2>1 DEF FirstHeartbeat, CompleteSucceeded, Fail, Heartbeat, CompleteRun,
       QueueTypeOK
  <2>3. \A v \in Workers : /\ pc'[v] = "insert" <=> pc[v] = "insert"
                           /\ pc[v] = "insert" => job'[v] = job[v] /\ token'[v] = token[v]
    BY <1>0, <1>4 DEF FirstHeartbeat, CompleteSucceeded, Fail, Continue, Goto
  <2> QED BY <2>1, <2>2, <2>3, LockKept
<1>5. ASSUME NEW w \in Workers, SaveBegin(w) PROVE LockOK'
  <2>1. job[w] \in Runs
    BY <1>0, <1>5, JobKnown DEF SaveBegin, Engaged, Executing
  <2>2. /\ locked[job[w]] = None /\ Holds(job[w], token[w])
        /\ locked' = [locked EXCEPT ![job[w]] = w] /\ pc' = [pc EXCEPT ![w] = "insert"]
        /\ pc[w] = "save"
        /\ UNCHANGED <<status, generation, job, token>>
    BY <1>5 DEF SaveBegin, SaveFence, Fenced, Continue, Goto
  <2>3. ASSUME NEW r \in Runs, locked'[r] # None
        PROVE  pc'[locked'[r]] = "insert" /\ job'[locked'[r]] = r
    BY <1>0, <2>1, <2>2, <2>3 DEF LockOK, QueueTypeOK
  <2>4. ASSUME NEW v \in Workers, pc'[v] = "insert"
        PROVE  locked'[job'[v]] = v /\ status'[job'[v]] = "LEASED" /\ generation'[job'[v]] = token'[v]
    <3>1. CASE v = w
      BY <1>0, <2>1, <2>2, <3>1 DEF QueueTypeOK, Holds
    <3>2. CASE v # w
      <4>1. pc[v] = "insert" /\ job[v] \in Runs
        BY <1>0, <2>2, <2>4, <3>2, JobKnown DEF Engaged, Executing
      <4>2. locked[job[v]] = v /\ Holds(job[v], token[v])
        BY <4>1 DEF LockOK
      <4> QED BY <1>0, <2>1, <2>2, <4>1, <4>2, NoneAssumption DEF QueueTypeOK, Holds
    <3> QED BY <3>1, <3>2
  <2> QED BY <2>3, <2>4 DEF LockOK, Holds
<1>6. ASSUME NEW w \in Workers, SaveEnd(w) \/ SaveUnanswered(w) \/ SaveFails(w) \/ Crash(w)
      PROVE  LockOK'
  <2>1. /\ pc'[w] # "insert"
        /\ \A v \in Workers \ {w} : pc'[v] = pc[v] /\ job'[v] = job[v] /\ token'[v] = token[v]
    BY <1>0, <1>6 DEF SaveEnd, SaveUnanswered, SaveFails, Crash, Continue, Goto, Forget
  <2>2. /\ locked' \in [Runs -> Workers \union {None}]
        /\ \A r \in Runs : /\ locked'[r] = IF locked[r] = w THEN None ELSE locked[r]
                           /\ locked[r] # w => /\ status'[r] = status[r]
                                               /\ generation'[r] = generation[r]
    <3>1. CASE SaveFails(w) \/ Crash(w)
      BY <1>0, <3>1, NoneAssumption DEF SaveFails, Crash, Rollback, QueueTypeOK
    <3>2. CASE SaveEnd(w) \/ SaveUnanswered(w)
      <4>1. pc[w] = "insert" /\ job[w] \in Runs
        BY <1>0, <3>2, JobKnown DEF SaveEnd, SaveUnanswered, Engaged, Executing
      <4>2. locked[job[w]] = w
        BY <4>1 DEF LockOK
      <4>3. \A r \in Runs : locked[r] = w => r = job[w]
        BY NoneAssumption DEF LockOK
      <4>4. SaveCommit(job[w], token[w], pinned[w])
        BY <3>2 DEF SaveEnd, SaveUnanswered
      <4> QED BY <1>0, <4>1, <4>2, <4>3, <4>4, NoneAssumption DEF SaveCommit, QueueTypeOK
    <3> QED BY <1>6, <3>1, <3>2
  <2>3. ASSUME NEW r \in Runs, locked'[r] # None
        PROVE  pc'[locked'[r]] = "insert" /\ job'[locked'[r]] = r
    BY <1>0, <2>1, <2>2, <2>3 DEF LockOK, QueueTypeOK
  <2>4. ASSUME NEW v \in Workers, pc'[v] = "insert"
        PROVE  locked'[job'[v]] = v /\ status'[job'[v]] = "LEASED" /\ generation'[job'[v]] = token'[v]
    <3>1. v # w /\ pc[v] = "insert" /\ job[v] \in Runs
      BY <1>0, <2>1, <2>4, JobKnown DEF Engaged, Executing
    <3>2. locked[job[v]] = v /\ Holds(job[v], token[v])
      BY <3>1 DEF LockOK
    <3> QED BY <2>1, <2>2, <3>1, <3>2 DEF Holds
  <2> QED BY <2>3, <2>4 DEF LockOK, Holds
<1>7. ASSUME NEW b \in beats, BeatEnd(b) \/ BeatLost(b) PROVE LockOK'
  <2>1. UNCHANGED <<pc, job, token, locked, status, generation>>
    BY <1>7 DEF BeatEnd, BeatLost, Heartbeat, queueVars
  <2> QED BY <2>1, LockKept
<1>8. CASE UNCHANGED vars
  BY <1>8, LockKept DEF vars, workerVars, queueVars
<1> QED
  BY <1>1, <1>2, <1>3, <1>4, <1>5, <1>6, <1>7, <1>8 DEF Next, Main, Disturbance

----------------------------------------------------------------------------
(* What one step may do to one run *)

(* A worker that may still save has read the pinned version only. *)
PinOK ==
  \A w \in Workers : /\ pc[w] \in {"save", "insert"} => pinned[w]
                     /\ pc[w] = "reverify" /\ object[job[w]] = "pinned" => pinned[w]

(* A worker past its save knows its run SUCCEEDED under its own lease. *)
DoneOK ==
  \A w \in Workers : pc[w] \in {"complete", "ok"} =>
    status[job[w]] = "SUCCEEDED" /\ generation[job[w]] = token[w]

Logged(r, type, g) == events'[r] = Append(events[r], Event(type, g))

RowStep(r) ==
  \/ UNCHANGED <<status[r], generation[r], events[r], assessments[r]>>
  \/ /\ status[r] = "ABSENT" /\ status'[r] = "QUEUED"
     /\ Logged(r, "RUN_QUEUED", 0)
     /\ UNCHANGED <<generation[r], assessments[r]>>
  \/ /\ status[r] \in {"QUEUED", "LEASED"} /\ status'[r] = "LEASED"
     /\ generation'[r] = generation[r] + 1
     /\ Logged(r, "RUN_CLAIMED", generation[r] + 1)
     /\ UNCHANGED assessments[r]
  \/ /\ status[r] = "LEASED" /\ status'[r] = "FAILED"
     /\ Logged(r, "RUN_FAILED", generation[r])
     /\ UNCHANGED <<generation[r], assessments[r]>>
  \/ /\ status[r] = "LEASED" /\ status'[r] = "SUCCEEDED"
     /\ Logged(r, "RUN_SUCCEEDED", generation[r])
     /\ assessments'[r] = {[gen |-> generation[r], pinned |-> TRUE]}
     /\ UNCHANGED generation[r]

(* Every step takes every run through its life cycle. *)
LEMMA StepOnRow ==
  ASSUME TypeInv, LockOK, PinOK, DoneOK, [Next]_vars, NEW r \in Runs
  PROVE  RowStep(r)
<1>0. QueueTypeOK /\ TypeOK /\ JobOK
  BY DEF TypeInv, TypeOK
<1>1. QueueStep
  BY StepOnTables DEF TypeInv
<1>2. CASE UNCHANGED <<status, generation, events, assessments>>
  BY <1>2 DEF RowStep
<1>3. ASSUME NEW q \in Runs, EnqueueRun(q) PROVE RowStep(r)
  BY <1>0, <1>3 DEF EnqueueRun, RowStep, Logged, QueueTypeOK
<1>4. ASSUME NEW q \in Runs, ClaimNextRun(q) PROVE RowStep(r)
  <2>1. status[q] \in {"QUEUED", "LEASED"}
    BY <1>4 DEF ClaimNextRun, FirstClaimable, Claimable
  <2> QED BY <1>0, <1>4, <2>1 DEF ClaimNextRun, RowStep, Logged, QueueTypeOK
<1>5. ASSUME NEW q \in Runs, NEW g \in Nat, CompleteRun(q, g, "FAILED") PROVE RowStep(r)
  <2>1. CASE Fenced(q, g)
    BY <1>0, <1>5, <2>1 DEF CompleteRun, Fenced, Holds, RowStep, Logged, QueueTypeOK
  <2>2. CASE ~Fenced(q, g)
    BY <1>5, <2>2 DEF CompleteRun, RowStep
  <2> QED BY <2>1, <2>2
<1>6. ASSUME NEW w \in Workers, pc[w] = "complete", CompleteRun(job[w], token[w], "SUCCEEDED")
      PROVE  RowStep(r)
  <2>1. ~Fenced(job[w], token[w])
    BY <1>6 DEF DoneOK, Fenced, Holds
  <2> QED BY <1>6, <2>1 DEF CompleteRun, RowStep
<1>7. ASSUME NEW w \in Workers, pc[w] = "insert", SaveCommit(job[w], token[w], pinned[w])
      PROVE  RowStep(r)
  <2>1. job[w] \in Runs
    BY <1>0, <1>7, JobKnown DEF Engaged, Executing
  <2>2. Holds(job[w], token[w]) /\ pinned[w] = TRUE
    BY <1>0, <1>7 DEF LockOK, PinOK, TypeOK
  <2> QED BY <1>0, <1>7, <2>1, <2>2 DEF SaveCommit, Holds, RowStep, Logged, QueueTypeOK
<1> QED
  BY <1>1, <1>2, <1>3, <1>4, <1>5, <1>6, <1>7
  DEF QueueStep, queueVars, LeaseRunsOut, Heartbeat, SaveFence, Rollback

(* What holds of every run between two steps. *)
RowOK(r) ==
  /\ status[r] = "ABSENT" => generation[r] = 0
  /\ status[r] = "SUCCEEDED" <=> assessments[r] # {}
  /\ \A a \in assessments[r] : a.gen = generation[r] /\ a.pinned
  /\ events[r] = LogOf(status[r], generation[r])

(* The log the row asks for grows by the event the step appends. *)
LEMMA LogGrows ==
  ASSUME NEW state \in Status, NEW state2 \in Status, NEW g \in Nat, NEW g2 \in Nat,
         NEW type, NEW n,
         \/ state = "ABSENT" /\ state2 = "QUEUED" /\ g = 0 /\ g2 = 0 /\ type = "RUN_QUEUED" /\ n = 0
         \/ state \in {"QUEUED", "LEASED"} /\ state2 = "LEASED" /\ g2 = g + 1
              /\ type = "RUN_CLAIMED" /\ n = g + 1
         \/ state = "LEASED" /\ state2 = "FAILED" /\ g2 = g /\ type = "RUN_FAILED" /\ n = g
         \/ state = "LEASED" /\ state2 = "SUCCEEDED" /\ g2 = g /\ type = "RUN_SUCCEEDED" /\ n = g
  PROVE  Append(LogOf(state, g), Event(type, n)) = LogOf(state2, g2)
<1>1. LogLength(state, g) \in Nat /\ LogLength(state2, g2) = LogLength(state, g) + 1
  BY DEF LogLength, Terminal
<1> DEFINE len == LogLength(state, g)
           entry(i) == IF i = 1 THEN Event("RUN_QUEUED", 0)
                       ELSE IF i <= g + 1 THEN Event("RUN_CLAIMED", i - 1)
                       ELSE Event(IF state = "SUCCEEDED" THEN "RUN_SUCCEEDED" ELSE "RUN_FAILED", g)
           entry2(i) == IF i = 1 THEN Event("RUN_QUEUED", 0)
                        ELSE IF i <= g2 + 1 THEN Event("RUN_CLAIMED", i - 1)
                        ELSE Event(IF state2 = "SUCCEEDED" THEN "RUN_SUCCEEDED" ELSE "RUN_FAILED", g2)
<1>2. \A i \in 1 .. len : entry(i) = entry2(i)
  BY DEF LogLength, Terminal
<1>3. Event(type, n) = entry2(len + 1)
  BY DEF LogLength, Terminal
<1>4. LogOf(state, g) = [i \in 1 .. len |-> entry(i)]
  BY DEF LogOf
<1>5. LogOf(state2, g2) = [i \in 1 .. len + 1 |-> entry2(i)]
  BY <1>1 DEF LogOf
<1> HIDE DEF len, entry, entry2
<1>6. Append([i \in 1 .. len |-> entry(i)], entry2(len + 1)) = [i \in 1 .. len + 1 |-> entry2(i)]
  BY <1>1, <1>2 DEF len
<1> QED BY <1>3, <1>4, <1>5, <1>6

(* A run that takes a RowStep keeps its row, log and assessment in agreement. *)
LEMMA RowKept ==
  ASSUME TypeInv, TypeInv', NEW r \in Runs, RowOK(r), RowStep(r)
  PROVE  RowOK(r)'
<1>1. /\ status[r] \in Status /\ status'[r] \in Status
      /\ generation[r] \in Nat /\ generation'[r] \in Nat
  BY DEF TypeInv, TypeOK, QueueTypeOK
<1>2. CASE UNCHANGED <<status[r], generation[r], events[r], assessments[r]>>
  BY <1>2 DEF RowOK
<1>3. CASE /\ status[r] = "ABSENT" /\ status'[r] = "QUEUED"
           /\ Logged(r, "RUN_QUEUED", 0)
           /\ UNCHANGED <<generation[r], assessments[r]>>
  <2>1. events'[r] = LogOf(status'[r], generation'[r])
    BY <1>1, <1>3, LogGrows DEF RowOK, Logged
  <2> QED BY <1>3, <2>1 DEF RowOK
<1>4. CASE /\ status[r] \in {"QUEUED", "LEASED"} /\ status'[r] = "LEASED"
           /\ generation'[r] = generation[r] + 1
           /\ Logged(r, "RUN_CLAIMED", generation[r] + 1)
           /\ UNCHANGED assessments[r]
  <2>1. events'[r] = LogOf(status'[r], generation'[r])
    BY <1>1, <1>4, LogGrows DEF RowOK, Logged
  <2>2. assessments'[r] = {}
    BY <1>4 DEF RowOK
  <2> QED BY <1>4, <2>1, <2>2 DEF RowOK
<1>5. CASE /\ status[r] = "LEASED" /\ status'[r] = "FAILED"
           /\ Logged(r, "RUN_FAILED", generation[r])
           /\ UNCHANGED <<generation[r], assessments[r]>>
  <2>1. events'[r] = LogOf(status'[r], generation'[r])
    BY <1>1, <1>5, LogGrows DEF RowOK, Logged
  <2> QED BY <1>5, <2>1 DEF RowOK
<1>6. CASE /\ status[r] = "LEASED" /\ status'[r] = "SUCCEEDED"
           /\ Logged(r, "RUN_SUCCEEDED", generation[r])
           /\ assessments'[r] = {[gen |-> generation[r], pinned |-> TRUE]}
           /\ UNCHANGED generation[r]
  <2>1. events'[r] = LogOf(status'[r], generation'[r])
    BY <1>1, <1>6, LogGrows DEF RowOK, Logged
  <2> QED BY <1>6, <2>1 DEF RowOK
<1> QED BY <1>2, <1>3, <1>4, <1>5, <1>6 DEF RowStep

----------------------------------------------------------------------------
(* What the workers know *)

(* Between reverify and the commit the evaluation has read the pinned object only. *)
LEMMA PinStep == ASSUME TypeInv, PinOK, [Next]_vars PROVE PinOK'
<1>0. /\ pc \in [Workers -> Step] /\ job \in [Workers -> Runs \union {None}]
      /\ pinned \in [Workers -> BOOLEAN]
      /\ object \in [Runs -> {"pinned", "changed"}]
      /\ \A w \in Workers : pc[w] \in Engaged => job[w] \in Runs
  BY DEF TypeInv, TypeOK, JobOK
<1>1. ASSUME NEW r \in Runs, ObjectChanges(r) PROVE PinOK'
  BY <1>0, <1>1 DEF ObjectChanges, workerVars, PinOK, Engaged, Executing
<1>2. ASSUME UNCHANGED <<pc, job, pinned, object>> PROVE PinOK'
  BY <1>2 DEF PinOK
<1>3. ASSUME NEW w \in Workers, NEW step \in Step, Continue(w, step),
             step \notin {"save", "insert", "reverify"}
      PROVE  PinOK'
  BY <1>0, <1>3 DEF Continue, Goto, PinOK
<1>4. ASSUME NEW w \in Workers, Reverify(w) \/ SaveBegin(w) PROVE PinOK'
  BY <1>0, <1>4 DEF Reverify, SaveBegin, Continue, Goto, PinOK
<1>5. ASSUME NEW w \in Workers, Evaluate(w) PROVE PinOK'
  BY <1>0, <1>5 DEF Evaluate, Goto, PinOK
<1>6. ASSUME NEW w \in Workers, Finish(w) \/ Crash(w) PROVE PinOK'
  <2>1. PICK step \in {"polling", "down"} : Goto(w, step)
    BY <1>6 DEF Finish, Crash
  <2>2. /\ object' = object
        /\ \A v \in Workers : v # w => job'[v] = job[v] /\ pinned'[v] = pinned[v]
    BY <1>0, <1>6 DEF Finish, Crash, Forget
  <2> QED BY <1>0, <2>1, <2>2 DEF Goto, PinOK
<1>7. ASSUME NEW w \in Workers, NEW r \in Runs, Claim(w, r) PROVE PinOK'
  BY <1>0, <1>7 DEF Claim, Goto, PinOK
<1>8. ASSUME NEW w \in Workers,
             \/ Start(w) \/ PollNothing(w) \/ Wake(w) \/ Stop(w) \/ FirstHeartbeat(w)
             \/ FirstHeartbeatUnanswered(w) \/ Verify(w) \/ SaveRefused(w) \/ SaveEnd(w)
             \/ SaveUnanswered(w) \/ SaveFails(w) \/ CompleteSucceeded(w) \/ CompleteUnanswered(w)
             \/ Fail(w) \/ FailUnsent(w)
      PROVE  PinOK'
  <2>1. PICK step \in Step \ {"save", "insert", "reverify"} : Continue(w, step)
    BY <1>8 DEF Start, PollNothing, Wake, Stop, FirstHeartbeat, FirstHeartbeatUnanswered, Verify,
       SaveRefused, SaveEnd, SaveUnanswered, SaveFails, CompleteSucceeded, CompleteUnanswered, Fail,
       FailUnsent, Step
  <2> QED BY <1>3, <2>1
<1>9. ASSUME \/ \E r \in Runs : Submit(r) \/ Lapse(r) \/ LapseEarly(r)
             \/ \E w \in Workers : BeatBegin(w) \/ \E r \in Runs : ClaimUnanswered(w, r)
             \/ \E b \in beats : BeatEnd(b) \/ BeatLost(b)
             \/ UNCHANGED vars
      PROVE  PinOK'
  BY <1>2, <1>9 DEF Submit, Lapse, LapseEarly, BeatBegin, ClaimUnanswered, BeatEnd, BeatLost, vars,
     workerVars
<1> QED BY <1>1, <1>4, <1>5, <1>6, <1>7, <1>8, <1>9 DEF Next, Main, Disturbance

(* A worker reaches "complete" or "ok" only by its own save. *)
LEMMA DoneStep ==
  ASSUME TypeInv, DoneOK, LockOK, \A r \in Runs : RowStep(r), [Next]_vars
  PROVE  DoneOK'
<1>0. /\ pc \in [Workers -> Step] /\ job \in [Workers -> Runs \union {None}]
      /\ token \in [Workers -> Nat] /\ QueueTypeOK
      /\ \A w \in Workers : pc[w] \in Engaged => job[w] \in Runs
  BY DEF TypeInv, TypeOK, JobOK
<1>1. \A r \in Runs : status[r] = "SUCCEEDED" => status'[r] = "SUCCEEDED" /\ generation'[r] = generation[r]
  BY DEF RowStep
<1> DEFINE Knows(v) == status'[job'[v]] = "SUCCEEDED" /\ generation'[job'[v]] = token'[v]
<1>2. ASSUME NEW v \in Workers, pc[v] \in {"complete", "ok"}, UNCHANGED <<job[v], token[v]>>
      PROVE  Knows(v)
  BY <1>0, <1>1, <1>2 DEF DoneOK, Engaged, Executing
<1>3. ASSUME NEW w \in Workers, SaveEnd(w) \/ SaveUnanswered(w) PROVE DoneOK'
  <2>1. pc[w] = "insert" /\ job[w] \in Runs
    BY <1>0, <1>3 DEF SaveEnd, SaveUnanswered, Engaged, Executing
  <2>2. Holds(job[w], token[w])
    BY <2>1 DEF LockOK
  <2>3. UNCHANGED <<job, token>> /\ status'[job[w]] = "SUCCEEDED" /\ generation' = generation
    BY <1>0, <1>3, <2>1 DEF SaveEnd, SaveUnanswered, SaveCommit, Continue, QueueTypeOK
  <2>4. Knows(w)
    BY <2>2, <2>3 DEF Holds
  <2>5. \A v \in Workers : v # w => pc'[v] = pc[v]
    BY <1>0, <1>3 DEF SaveEnd, SaveUnanswered, Continue, Goto
  <2> QED BY <1>2, <2>3, <2>4, <2>5 DEF DoneOK
<1>4. ASSUME NEW w \in Workers, CompleteSucceeded(w) PROVE DoneOK'
  <2>1. pc[w] = "complete" /\ UNCHANGED <<job, token>> /\ \A v \in Workers : v # w => pc'[v] = pc[v]
    BY <1>0, <1>4 DEF CompleteSucceeded, Continue, Goto
  <2> QED BY <1>2, <2>1 DEF DoneOK
<1>5. ASSUME NEW w \in Workers, NEW step \in Step, Goto(w, step), step \notin {"complete", "ok"},
             \A v \in Workers : v # w => UNCHANGED <<job[v], token[v]>>
      PROVE  DoneOK'
  BY <1>0, <1>2, <1>5 DEF Goto, DoneOK
<1>6. ASSUME NEW w \in Workers,
             \/ Start(w) \/ PollNothing(w) \/ Wake(w) \/ Stop(w) \/ FirstHeartbeat(w)
             \/ FirstHeartbeatUnanswered(w) \/ Verify(w) \/ Reverify(w) \/ SaveBegin(w)
             \/ SaveRefused(w) \/ SaveFails(w) \/ CompleteUnanswered(w) \/ Fail(w) \/ FailUnsent(w)
      PROVE  DoneOK'
  <2>1. PICK step \in Step \ {"complete", "ok"} : Continue(w, step)
    BY <1>6 DEF Start, PollNothing, Wake, Stop, FirstHeartbeat, FirstHeartbeatUnanswered, Verify,
       Reverify, SaveBegin, SaveRefused, SaveFails, CompleteUnanswered, Fail, FailUnsent, Step
  <2> QED BY <1>5, <2>1 DEF Continue
<1>7. ASSUME NEW w \in Workers, Evaluate(w) \/ Finish(w) \/ Crash(w) \/ \E r \in Runs : Claim(w, r)
      PROVE  DoneOK'
  <2>1. PICK step \in Step \ {"complete", "ok"} : Goto(w, step)
    BY <1>7 DEF Evaluate, Finish, Crash, Claim, Step
  <2>2. \A v \in Workers : v # w => UNCHANGED <<job[v], token[v]>>
    BY <1>0, <1>7 DEF Evaluate, Finish, Crash, Claim, Forget
  <2> QED BY <1>5, <2>1, <2>2
<1>8. ASSUME UNCHANGED <<pc, job, token>> PROVE DoneOK'
  BY <1>2, <1>8 DEF DoneOK
<1>9. ASSUME \/ \E r \in Runs : Submit(r) \/ Lapse(r) \/ LapseEarly(r) \/ ObjectChanges(r)
             \/ \E w \in Workers : BeatBegin(w) \/ \E r \in Runs : ClaimUnanswered(w, r)
             \/ \E b \in beats : BeatEnd(b) \/ BeatLost(b)
             \/ UNCHANGED vars
      PROVE  DoneOK'
  BY <1>8, <1>9 DEF Submit, Lapse, LapseEarly, ObjectChanges, BeatBegin, ClaimUnanswered, BeatEnd,
     BeatLost, vars, workerVars
<1> QED BY <1>3, <1>4, <1>6, <1>7, <1>9 DEF Next, Main, Disturbance

(* No worker has a token the queue has not given out yet. *)
TokenOK ==
  /\ \A w \in Workers : pc[w] \in Executing => token[w] <= generation[job[w]]
  /\ TokensAreUnique

(* Every step keeps the generations of a run's executions distinct.           *)
LEMMA TokenStep ==
  ASSUME TypeInv, TypeInv', TokenOK, \A r \in Runs : RowStep(r), [Next]_vars
  PROVE  TokenOK'
<1>0. /\ pc \in [Workers -> Step] /\ job \in [Workers -> Runs \union {None}]
      /\ token \in [Workers -> Nat] /\ generation \in [Runs -> Nat] /\ generation' \in [Runs -> Nat]
      /\ \A w \in Workers : pc[w] \in Engaged => job[w] \in Runs
  BY DEF TypeInv, TypeOK, QueueTypeOK, JobOK
<1>1. \A r \in Runs : generation[r] <= generation'[r]
  BY <1>0 DEF RowStep
<1>2. ASSUME \A v \in Workers : pc'[v] \in Executing =>
               pc[v] \in Executing /\ job'[v] = job[v] /\ token'[v] = token[v]
      PROVE  TokenOK'
  <2>1. ASSUME NEW v \in Workers, pc'[v] \in Executing PROVE token'[v] <= generation'[job'[v]]
    <3>1. job[v] \in Runs /\ job'[v] = job[v] /\ token'[v] = token[v] /\ token[v] <= generation[job[v]]
      BY <1>0, <1>2, <2>1 DEF TokenOK, Engaged
    <3> QED BY <1>0, <1>1, <3>1
  <2>2. TokensAreUnique'
    BY <1>2 DEF TokenOK, TokensAreUnique
  <2> QED BY <2>1, <2>2 DEF TokenOK
<1>3. ASSUME NEW w \in Workers, NEW step \in Step, Goto(w, step), pc[w] \in Executing \/ step \notin Executing,
             \A v \in Workers : v # w \/ step \in Executing => job'[v] = job[v] /\ token'[v] = token[v]
      PROVE  TokenOK'
  BY <1>0, <1>2, <1>3 DEF Goto
<1>4. ASSUME NEW w \in Workers, NEW r \in Runs, Claim(w, r) PROVE TokenOK'
  <2>1. /\ pc' = [pc EXCEPT ![w] = "claimed"] /\ job' = [job EXCEPT ![w] = r]
        /\ token' = [token EXCEPT ![w] = generation'[r]] /\ generation'[r] = generation[r] + 1
        /\ pc[w] = "polling"
    BY <1>0, <1>4 DEF Claim, ClaimNextRun, Goto
  <2>2. ASSUME NEW v \in Workers, pc'[v] \in Executing PROVE token'[v] <= generation'[job'[v]]
    <3>1. CASE v = w
      BY <1>0, <2>1, <3>1
    <3>2. CASE v # w
      <4>1. job[v] \in Runs /\ token[v] <= generation[job[v]] /\ job'[v] = job[v] /\ token'[v] = token[v]
        BY <1>0, <2>1, <2>2, <3>2 DEF TokenOK, Engaged
      <4> QED BY <1>0, <1>1, <4>1
    <3> QED BY <3>1, <3>2
  <2>3. ASSUME NEW v \in Workers, v # w, pc'[v] \in Executing, job'[v] = r
        PROVE  token'[v] < generation'[r]
    <3>1. token[v] <= generation[r] /\ token'[v] = token[v]
      BY <1>0, <2>1, <2>3 DEF TokenOK, Engaged
    <3> QED BY <1>0, <2>1, <3>1
  <2>4. ASSUME NEW u \in Workers, NEW v \in Workers, u # v, pc'[u] \in Executing,
               pc'[v] \in Executing, job'[u] = job'[v]
        PROVE  token'[u] # token'[v]
    <3>1. CASE u = w
      BY <1>0, <2>1, <2>3, <2>4, <3>1
    <3>2. CASE v = w
      BY <1>0, <2>1, <2>3, <2>4, <3>2
    <3>3. CASE u # w /\ v # w
      BY <1>0, <2>1, <2>4, <3>3 DEF TokenOK, TokensAreUnique
    <3> QED BY <3>1, <3>2, <3>3
  <2> QED BY <2>2, <2>4 DEF TokenOK, TokensAreUnique
<1>5. ASSUME NEW w \in Workers,
             \/ Start(w) \/ PollNothing(w) \/ Wake(w) \/ Stop(w) \/ FirstHeartbeat(w)
             \/ FirstHeartbeatUnanswered(w) \/ Verify(w) \/ Reverify(w) \/ SaveBegin(w)
             \/ SaveRefused(w) \/ SaveEnd(w) \/ SaveUnanswered(w) \/ SaveFails(w)
             \/ CompleteSucceeded(w) \/ CompleteUnanswered(w) \/ Fail(w) \/ FailUnsent(w)
      PROVE  TokenOK'
  <2>1. PICK step \in Step : Continue(w, step) /\ (pc[w] \in Executing \/ step \notin Executing)
    BY <1>5 DEF Start, PollNothing, Wake, Stop, FirstHeartbeat, FirstHeartbeatUnanswered, Verify,
       Reverify, SaveBegin, SaveRefused, SaveEnd, SaveUnanswered, SaveFails, CompleteSucceeded,
       CompleteUnanswered, Fail, FailUnsent, Step, Executing
  <2> QED BY <1>3, <2>1 DEF Continue
<1>6. ASSUME NEW w \in Workers, Evaluate(w) PROVE TokenOK'
  <2>1. PICK step \in Executing : Goto(w, step)
    BY <1>6 DEF Evaluate, Executing
  <2>2. pc[w] \in Executing /\ step \in Step
    BY <1>6 DEF Evaluate, Executing, Step
  <2> QED BY <1>3, <1>6, <2>1, <2>2 DEF Evaluate
<1>7. ASSUME NEW w \in Workers, Finish(w) \/ Crash(w) PROVE TokenOK'
  <2>1. PICK step \in {"polling", "down"} : Goto(w, step)
    BY <1>7 DEF Finish, Crash
  <2>2. step \in Step /\ step \notin Executing
    BY DEF Step, Executing
  <2>3. \A v \in Workers : v # w => job'[v] = job[v] /\ token'[v] = token[v]
    BY <1>0, <1>7 DEF Finish, Crash, Forget
  <2> QED BY <1>3, <2>1, <2>2, <2>3
<1>8. ASSUME UNCHANGED <<pc, job, token>> PROVE TokenOK'
  BY <1>2, <1>8
<1>9. ASSUME \/ \E r \in Runs : Submit(r) \/ Lapse(r) \/ LapseEarly(r) \/ ObjectChanges(r)
             \/ \E w \in Workers : BeatBegin(w) \/ \E r \in Runs : ClaimUnanswered(w, r)
             \/ \E b \in beats : BeatEnd(b) \/ BeatLost(b)
             \/ UNCHANGED vars
      PROVE  TokenOK'
  BY <1>8, <1>9 DEF Submit, Lapse, LapseEarly, ObjectChanges, BeatBegin, ClaimUnanswered, BeatEnd,
     BeatLost, vars, workerVars
<1> QED BY <1>4, <1>5, <1>6, <1>7, <1>9 DEF Next, Main, Disturbance

----------------------------------------------------------------------------
(* The inductive invariant *)

Inv ==
  /\ TypeInv
  /\ LockOK
  /\ PinOK
  /\ DoneOK
  /\ TokenOK
  /\ \A r \in Runs : RowOK(r)

(* The inductive invariant holds initially.                                   *)
LEMMA InvInit == Init => Inv
<1> SUFFICES ASSUME Init PROVE Inv
  OBVIOUS
<1>1. TypeInv
  BY TypeInit
<1>2. LockOK /\ PinOK /\ DoneOK /\ TokenOK
  BY DEF Init, QueueInit, LockOK, PinOK, DoneOK, TokenOK, TokensAreUnique, Executing
<1>3. ASSUME NEW r \in Runs PROVE RowOK(r)
  <2>1. LogOf("ABSENT", 0) = <<>>
    <3>1. LogLength("ABSENT", 0) = 0
      BY DEF LogLength, Terminal
    <3> QED BY <3>1 DEF LogOf
  <2> QED BY <2>1 DEF Init, QueueInit, RowOK
<1> QED BY <1>1, <1>2, <1>3 DEF Inv

(* Every step preserves the inductive invariant.                              *)
LEMMA InvStep == Inv /\ [Next]_vars => Inv'
<1> SUFFICES ASSUME Inv, [Next]_vars PROVE Inv'
  OBVIOUS
<1>1. TypeInv'
  BY TypeStep DEF Inv
<1>2. \A r \in Runs : RowStep(r)
  BY StepOnRow DEF Inv
<1>3. LockOK' /\ PinOK' /\ DoneOK' /\ TokenOK'
  BY <1>1, <1>2, LockStep, PinStep, DoneStep, TokenStep DEF Inv
<1>4. \A r \in Runs : RowOK(r)'
  BY <1>1, <1>2, RowKept DEF Inv
<1> QED BY <1>1, <1>3, <1>4 DEF Inv

(* The inductive invariant holds throughout.                                  *)
LEMMA Invariance == Spec => []Inv
  BY InvInit, InvStep, PTL DEF Spec

----------------------------------------------------------------------------
(* Theorems *)

(* A run is SUCCEEDED exactly when its assessment is stored. *)
THEOREM OutcomeIsAtomic == Spec => []SucceededIffPublished
<1>1. Inv => SucceededIffPublished
  BY DEF Inv, RowOK, SucceededIffPublished
<1> QED BY <1>1, Invariance, PTL

(* Only the run's last claim publishes: lease_generation fences every other   *)
(* worker off, however many there are and whatever fails.                     *)
THEOREM FencingHolds == Spec => []PublishedByLastClaim
<1>1. Inv => PublishedByLastClaim
  BY DEF Inv, RowOK, PublishedByLastClaim
<1> QED BY <1>1, Invariance, PTL

(* The second verify_snapshot is enough: what is published was read from the  *)
(* pinned object version.                                                     *)
THEOREM PinningHolds == Spec => []PublishedFromPinnedObject
<1>1. Inv => PublishedFromPinnedObject
  BY DEF Inv, RowOK, PublishedFromPinnedObject
<1> QED BY <1>1, Invariance, PTL

(* The fenced UPDATE's row lock keeps the lease through the whole save. *)
THEOREM SaveKeepsLease == Spec => []SaveIsCurrent
<1>1. Inv => SaveIsCurrent
  BY DEF Inv, LockOK, SaveIsCurrent
<1> QED BY <1>1, Invariance, PTL

(* A generation belongs to one execution only. *)
THEOREM TokensStayUnique == Spec => []TokensAreUnique
<1>1. Inv => TokensAreUnique
  BY DEF Inv, TokenOK
<1> QED BY <1>1, Invariance, PTL

(* An execution that returns an assessment is the one that published it. *)
THEOREM ReportsAreTrue == Spec => []ReportedSuccessIsPublished
<1>1. ASSUME Inv, NEW w \in Workers, pc[w] = "ok"
      PROVE  \E a \in assessments[job[w]] : a.gen = token[w]
  <2>1. job[w] \in Runs /\ status[job[w]] = "SUCCEEDED" /\ generation[job[w]] = token[w]
    BY <1>1 DEF Inv, TypeInv, JobOK, DoneOK, Engaged
  <2> QED BY <1>1, <2>1 DEF Inv, RowOK
<1>2. Inv => ReportedSuccessIsPublished
  BY <1>1 DEF ReportedSuccessIsPublished
<1> QED BY <1>2, Invariance, PTL

(* run_events is a complete and exact history of every run. *)
THEOREM LogIsExact == Spec => []EventsExplainRow
<1>1. Inv => EventsExplainRow
  BY DEF Inv, RowOK, EventsExplainRow
<1> QED BY <1>1, Invariance, PTL

(* Nothing touches a finished run. *)
THEOREM FinishedRunsStay == Spec => TerminalIsFinal
<1>1. ASSUME Inv, [Next]_vars, NEW r \in Runs, status[r] \in Terminal
      PROVE  UNCHANGED <<status[r], generation[r], events[r], assessments[r]>>
  BY <1>1, StepOnRow DEF Inv, RowStep, Terminal
<1>2. Inv /\ [Next]_vars =>
        [\A r \in Runs : status[r] \in Terminal =>
           UNCHANGED <<status[r], generation[r], events[r], assessments[r]>>]_vars
  BY <1>1
<1> QED BY <1>2, Invariance, PTL DEF Spec, TerminalIsFinal

----------------------------------------------------------------------------
(* Refinement *)

PhaseMap == [r \in Runs |-> PhaseOf(status[r])]
EpochMap == [r \in Runs |-> generation[r]]
ResultMap == [r \in Runs |-> ResultOf(r)]

(* Only one run changes in a step. *)
LEMMA OneRowPerStep ==
  ASSUME TypeInv, [Next]_vars
  PROVE  \E q \in Runs \union {None} : \A r \in Runs : r # q =>
           UNCHANGED <<status[r], generation[r], assessments[r]>>
<1>0. QueueTypeOK /\ TypeOK /\ JobOK
  BY DEF TypeInv, TypeOK
<1> DEFINE Only(q) == \A r \in Runs : r # q => UNCHANGED <<status[r], generation[r], assessments[r]>>
<1>1. QueueStep
  BY StepOnTables DEF TypeInv
<1>2. CASE UNCHANGED <<status, generation, assessments>>
  <2>1. Only(None)
    BY <1>2
  <2> QED BY <2>1
<1>3. ASSUME NEW q \in Runs, EnqueueRun(q) \/ ClaimNextRun(q) \/ \E g \in Nat : CompleteRun(q, g, "FAILED")
      PROVE  Only(q)
  BY <1>0, <1>3 DEF EnqueueRun, ClaimNextRun, CompleteRun, QueueTypeOK
<1>4. ASSUME NEW w \in Workers,
             \/ pc[w] = "insert" /\ SaveCommit(job[w], token[w], pinned[w])
             \/ pc[w] = "complete" /\ CompleteRun(job[w], token[w], "SUCCEEDED")
      PROVE  job[w] \in Runs /\ Only(job[w])
  <2>1. job[w] \in Runs
    BY <1>0, <1>4, JobKnown DEF Engaged, Executing
  <2> QED BY <1>0, <1>4, <2>1 DEF SaveCommit, CompleteRun, QueueTypeOK
<1> QED
  BY <1>1, <1>2, <1>3, <1>4 DEF QueueStep, queueVars, LeaseRunsOut, Heartbeat, SaveFence, Rollback

(* Every step of the workers is a step of the run life cycle or leaves it be.  *)
LEMMA LifecycleStep ==
  ASSUME Inv, Inv', [Next]_vars
  PROVE  \/ UNCHANGED <<PhaseMap, EpochMap, ResultMap>>
         \/ \E q \in Runs : \/ Lifecycle!Submit(q) \/ Lifecycle!Grant(q)
                            \/ \E outcome \in Lifecycle!Outcome : Lifecycle!Settle(q, outcome)
<1>1. PICK q \in Runs \union {None} : \A r \in Runs : r # q =>
        UNCHANGED <<status[r], generation[r], assessments[r]>>
  BY OneRowPerStep DEF Inv
<1>2. CASE q \notin Runs
  <2>1. \A r \in Runs : UNCHANGED <<status[r], generation[r], assessments[r]>>
    BY <1>1, <1>2
  <2>2. \A r \in Runs : PhaseOf(status'[r]) = PhaseOf(status[r]) /\ ResultOf(r)' = ResultOf(r)
    BY <2>1 DEF ResultOf
  <2> QED BY <2>1, <2>2 DEF PhaseMap, EpochMap, ResultMap
<1>3. CASE q \in Runs
  <2>1. \A r \in Runs : r # q => /\ PhaseOf(status'[r]) = PhaseOf(status[r])
                                 /\ generation'[r] = generation[r]
                                 /\ ResultOf(r)' = ResultOf(r)
    BY <1>1 DEF ResultOf
  <2>2. RowStep(q) /\ RowOK(q) /\ RowOK(q)'
    BY <1>3, StepOnRow DEF Inv
  <2>3. CASE UNCHANGED <<status[q], generation[q], events[q], assessments[q]>>
    <3>1. \A r \in Runs : /\ PhaseOf(status'[r]) = PhaseOf(status[r])
                          /\ generation'[r] = generation[r]
                          /\ ResultOf(r)' = ResultOf(r)
      BY <2>1, <2>3 DEF ResultOf
    <3> QED BY <3>1 DEF PhaseMap, EpochMap, ResultMap
  <2>4. CASE status[q] = "ABSENT" /\ status'[q] = "QUEUED" /\ UNCHANGED <<generation[q], assessments[q]>>
    <3>1. /\ PhaseOf(status[q]) = "new" /\ PhaseOf(status'[q]) = "waiting"
          /\ ResultOf(q)' = ResultOf(q)
      BY <2>4 DEF PhaseOf, ResultOf, Terminal
    <3>2. PhaseMap' = [PhaseMap EXCEPT ![q] = "waiting"] /\ EpochMap' = EpochMap /\ ResultMap' = ResultMap
      BY <2>1, <2>4, <3>1 DEF PhaseMap, EpochMap, ResultMap
    <3> QED BY <1>3, <3>1, <3>2 DEF Lifecycle!Submit, PhaseMap, EpochMap, ResultMap
  <2>5. CASE /\ status[q] \in {"QUEUED", "LEASED"} /\ status'[q] = "LEASED"
             /\ generation'[q] = generation[q] + 1 /\ UNCHANGED assessments[q]
    <3>1. /\ PhaseOf(status[q]) \in {"waiting", "granted"} /\ PhaseOf(status'[q]) = "granted"
          /\ ResultOf(q)' = ResultOf(q)
      BY <2>2, <2>5 DEF PhaseOf, ResultOf, RowOK
    <3>2. /\ PhaseMap' = [PhaseMap EXCEPT ![q] = "granted"]
          /\ EpochMap' = [EpochMap EXCEPT ![q] = @ + 1] /\ ResultMap' = ResultMap
      BY <1>3, <2>1, <2>5, <3>1 DEF PhaseMap, EpochMap, ResultMap
    <3> QED BY <1>3, <3>1, <3>2 DEF Lifecycle!Grant, PhaseMap, EpochMap, ResultMap
  <2>6. ASSUME status[q] = "LEASED", status'[q] \in Terminal, UNCHANGED generation[q],
               NEW outcome \in {"published", "failed"},
               ResultOf(q)' = {[epoch |-> generation[q], outcome |-> outcome]}
        PROVE  Lifecycle!Settle(q, outcome)
    <3>1. PhaseOf(status[q]) = "granted" /\ PhaseOf(status'[q]) = "settled"
      BY <2>6 DEF PhaseOf, Terminal
    <3>2. /\ PhaseMap' = [PhaseMap EXCEPT ![q] = "settled"] /\ EpochMap' = EpochMap
          /\ ResultMap' = [ResultMap EXCEPT ![q] = {[epoch |-> EpochMap[q], outcome |-> outcome]}]
      BY <1>3, <2>1, <2>6, <3>1 DEF PhaseMap, EpochMap, ResultMap
    <3> QED BY <1>3, <3>1, <3>2 DEF Lifecycle!Settle, PhaseMap, EpochMap, ResultMap
  <2>7. CASE status[q] = "LEASED" /\ status'[q] = "FAILED" /\ UNCHANGED <<generation[q], assessments[q]>>
    <3>1. assessments'[q] = {}
      BY <2>2, <2>7 DEF RowOK
    <3>2. ResultOf(q)' = {[epoch |-> generation[q], outcome |-> "failed"]}
      BY <2>7, <3>1 DEF ResultOf
    <3> QED BY <1>3, <2>6, <2>7, <3>2 DEF Lifecycle!Outcome, Terminal
  <2>8. CASE /\ status[q] = "LEASED" /\ status'[q] = "SUCCEEDED" /\ UNCHANGED generation[q]
             /\ assessments'[q] = {[gen |-> generation[q], pinned |-> TRUE]}
    <3>1. ResultOf(q)' = {[epoch |-> generation[q], outcome |-> "published"]}
      BY <2>8 DEF ResultOf
    <3> QED BY <1>3, <2>6, <2>8, <3>1 DEF Lifecycle!Outcome, Terminal
  <2> QED BY <2>2, <2>3, <2>4, <2>5, <2>7, <2>8 DEF RowStep
<1> QED BY <1>2, <1>3

(* The queue and its workers implement the run lifecycle. *)
THEOREM Refinement == Spec => ImplementsLifecycle
<1>1. Init => Lifecycle!Init
  BY DEF Init, QueueInit, Lifecycle!Init, PhaseOf, ResultOf
<1>2. Inv /\ Inv' /\ [Next]_vars => [Lifecycle!Next]_(Lifecycle!lifecycleVars)
  BY LifecycleStep DEF Lifecycle!Next, Lifecycle!lifecycleVars, PhaseMap, EpochMap, ResultMap
<1> QED BY <1>1, <1>2, Invariance, PTL DEF Spec, ImplementsLifecycle, Lifecycle!Spec
=============================================================================
