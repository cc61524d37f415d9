------------------------- MODULE PrivacyScanProofs --------------------------
(* Proofs about privacy scans, for any numbers of scans, workers, rules,      *)
(* attempts and faults.                                                       *)
EXTENDS PrivacyScan, WellFoundedInduction, TLAPS

----------------------------------------------------------------------------
(* The invariant *)

Recorded(s) == \E i \in 1 .. Len(order) : order[i] = s

(* A request that has pinned the rules still holds the asset's lock, so that  *)
(* no other request has queued a scan since it found none.                    *)
RequestOK(s) ==
  /\ request[s] # "none" => Recorded(s)
  /\ request[s] = "pinned" =>
       assetLock = s /\ Existing(s) = {} /\ pinned[s] \in 1 .. Len(config)
  /\ job[s] # None =>
       request[s] = "over" /\ job[s].config = pinned[s] /\ pinned[s] \in 1 .. Len(config)

(* A scan that may still be settled has not been, and one that runs has been  *)
(* granted.                                                                   *)
JobOK(s) ==
  /\ job[s] = None \/ Active(s) => results[s] = {}
  /\ State(s) = "RUNNING" => job[s].generation # 0

WorkerOK(w) == pc[w] # "polling" => leased[w] \in Scans /\ job[leased[w]] # None

Inv ==
  /\ ScanTypeOK
  /\ \A s \in Scans : RequestOK(s) /\ JobOK(s)
  /\ \A w \in Workers : WorkerOK(w)
  /\ OneActiveScan
  /\ FindingsOfPinnedRules

----------------------------------------------------------------------------
(* Jobs *)

(* A claim takes a scan that is there: among scans that are recorded one is   *)
(* the oldest.                                                                *)
LEMMA OldestIsOne ==
  ASSUME ScanTypeOK, NEW S \in SUBSET Known, S # {}, \A s \in S : Recorded(s)
  PROVE  Oldest(S) \in S
<1>1. \A s \in S : Place(s) \in 1 .. Len(order)
  BY DEF Recorded, Place
<1>2. Len(order) \in Nat
  BY DEF ScanTypeOK
<1> DEFINE T == {Place(s) : s \in S}
<1>3. T \subseteq Nat /\ T # {}
  BY <1>1, <1>2
<1>4. PICK x \in T : \A y \in T : ~(<<y, x>> \in OpToRel(<, Nat))
  <2> HIDE DEF T
  <2> QED BY <1>3, WFMin, NatLessThanWellFounded
<1>5. PICK s \in S : x = Place(s)
  BY <1>4
<1>6. \A o \in S : Place(s) <= Place(o)
  <2> SUFFICES ASSUME NEW o \in S
               PROVE  Place(s) <= Place(o)
    OBVIOUS
  <2>1. Place(o) \in T /\ Place(o) \in Nat /\ Place(s) \in Nat
    BY <1>1, <1>2
  <2>2. ~(<<Place(o), Place(s)>> \in OpToRel(<, Nat))
    BY <1>4, <1>5, <2>1
  <2>3. ~(Place(o) < Place(s))
    BY <2>1, <2>2 DEF OpToRel
  <2> QED BY <2>1, <2>3
<1> QED BY <1>6 DEF Oldest

(* A job with its state changed is a job, and the other columns stay.       *)
LEMMA StateWrite ==
  ASSUME NEW j \in Job, NEW state \in {"QUEUED", "RUNNING", "COMPLETE", "FAILED"}
  PROVE  LET k == [j EXCEPT !.state = state]
         IN  /\ k \in Job /\ k.config = j.config
             /\ k.state = state /\ k.generation = j.generation
  BY DEF Job

(* A job with its owner changed is a job, and the other columns stay.       *)
LEMMA OwnerWrite ==
  ASSUME NEW j \in Job, NEW owner \in Workers \union {None}
  PROVE  LET k == [j EXCEPT !.owner = owner]
         IN  /\ k \in Job /\ k.config = j.config
             /\ k.state = j.state /\ k.generation = j.generation
  BY DEF Job

(* A job with its lapsed changed is a job, and the other columns stay.      *)
LEMMA LapsedWrite ==
  ASSUME NEW j \in Job, NEW lapsed \in BOOLEAN
  PROVE  LET k == [j EXCEPT !.lapsed = lapsed]
         IN  /\ k \in Job /\ k.config = j.config
             /\ k.state = j.state /\ k.generation = j.generation
  BY DEF Job

(* A job with its generation changed is a job, and the other columns stay.  *)
LEMMA GenerationWrite ==
  ASSUME NEW j \in Job, NEW generation \in Nat
  PROVE  LET k == [j EXCEPT !.generation = generation]
         IN  /\ k \in Job /\ k.config = j.config
             /\ k.state = j.state /\ k.generation = generation
  BY DEF Job

(* Job s becomes j and the others stay. *)
Becomes(s, j) == job' = [job EXCEPT ![s] = j]

(* What a step does to one job: nothing to its configuration. *)
Moves(s, state, generation) ==
  \E j \in Job :
    /\ Becomes(s, j)
    /\ j.state = state /\ j.generation = generation /\ j.config = job[s].config

(* A claim sets state, owner, lease and generation, and no other column.      *)
LEMMA ClaimMoves ==
  ASSUME ScanTypeOK, NEW s \in Known, job[s] # None, NEW w \in Workers,
         job' = [job EXCEPT ![s].state = "RUNNING", ![s].owner = w, ![s].lapsed = FALSE,
                            ![s].generation = @ + 1]
  PROVE  Moves(s, "RUNNING", job[s].generation + 1)
<1> DEFINE a == [job[s] EXCEPT !.state = "RUNNING"]
           b == [a EXCEPT !.owner = w]
           c == [b EXCEPT !.lapsed = FALSE]
           d == [c EXCEPT !.generation = @ + 1]
<1>1. job[s] \in Job /\ job[s].generation \in Nat
  BY DEF ScanTypeOK, Job
<1>2. a \in Job /\ a.state = "RUNNING" /\ a.config = job[s].config /\ a.generation = job[s].generation
  BY <1>1, StateWrite
<1>3. b \in Job /\ b.state = "RUNNING" /\ b.config = job[s].config /\ b.generation = job[s].generation
  <2> HIDE DEF a
  <2> QED BY <1>2, OwnerWrite
<1>4. c \in Job /\ c.state = "RUNNING" /\ c.config = job[s].config /\ c.generation = job[s].generation
  <2> HIDE DEF b
  <2> QED BY <1>3, LapsedWrite
<1>5. d \in Job /\ d.state = "RUNNING" /\ d.config = job[s].config /\ d.generation = job[s].generation + 1
  <2> HIDE DEF c
  <2>1. c.generation + 1 \in Nat
    BY <1>1, <1>4
  <2> QED BY <1>4, <2>1, GenerationWrite
<1>6. Becomes(s, d)
  BY DEF Becomes, ScanTypeOK
<1> HIDE DEF d
<1> QED BY <1>5, <1>6 DEF Moves

(* A settlement sets state, owner and lease, and no other column.             *)
LEMMA SettleMoves ==
  ASSUME ScanTypeOK, NEW w \in Workers, leased[w] \in Known, job[leased[w]] # None,
         NEW state \in {"COMPLETE", "FAILED"}, NEW outcome, Settle(w, state, outcome)
  PROVE  Moves(leased[w], state, job[leased[w]].generation)
<1> DEFINE s == leased[w]
           a == [job[s] EXCEPT !.state = state]
           b == [a EXCEPT !.owner = None]
           c == [b EXCEPT !.lapsed = FALSE]
<1>1. job[s] \in Job /\ state \in {"QUEUED", "RUNNING", "COMPLETE", "FAILED"}
  BY DEF ScanTypeOK
<1>2. a \in Job /\ a.state = state /\ a.config = job[s].config /\ a.generation = job[s].generation
  BY <1>1, StateWrite
<1>3. b \in Job /\ b.state = state /\ b.config = job[s].config /\ b.generation = job[s].generation
  <2> HIDE DEF a
  <2> QED BY <1>2, OwnerWrite
<1>4. c \in Job /\ c.state = state /\ c.config = job[s].config /\ c.generation = job[s].generation
  <2> HIDE DEF b
  <2> QED BY <1>3, LapsedWrite
<1>5. Becomes(s, c)
  BY DEF Becomes, ScanTypeOK, Settle
<1> HIDE DEF c
<1> QED BY <1>4, <1>5 DEF Moves

(* A requeue sets state and owner, and no other column.                       *)
LEMMA RequeueMoves ==
  ASSUME ScanTypeOK, NEW s \in Known, job[s] # None,
         job' = [job EXCEPT ![s].state = "QUEUED", ![s].owner = None]
  PROVE  Moves(s, "QUEUED", job[s].generation)
<1> DEFINE a == [job[s] EXCEPT !.state = "QUEUED"]
           b == [a EXCEPT !.owner = None]
<1>1. job[s] \in Job
  BY DEF ScanTypeOK
<1>2. a \in Job /\ a.state = "QUEUED" /\ a.config = job[s].config /\ a.generation = job[s].generation
  BY <1>1, StateWrite
<1>3. b \in Job /\ b.state = "QUEUED" /\ b.config = job[s].config /\ b.generation = job[s].generation
  <2> HIDE DEF a
  <2> QED BY <1>2, OwnerWrite
<1>4. Becomes(s, b)
  BY DEF Becomes, ScanTypeOK
<1> HIDE DEF b
<1> QED BY <1>3, <1>4 DEF Moves

(* A lapse changes the lease only.                                            *)
LEMMA LapseMoves ==
  ASSUME ScanTypeOK, NEW s \in Known, job[s] # None,
         job' = [job EXCEPT ![s].lapsed = TRUE]
  PROVE  Moves(s, job[s].state, job[s].generation)
<1> DEFINE a == [job[s] EXCEPT !.lapsed = TRUE]
<1>1. job[s] \in Job
  BY DEF ScanTypeOK
<1>2. a \in Job /\ a.state = job[s].state /\ a.config = job[s].config
      /\ a.generation = job[s].generation
  BY <1>1, LapsedWrite
<1>3. Becomes(s, a)
  BY DEF Becomes, ScanTypeOK
<1> HIDE DEF a
<1> QED BY <1>2, <1>3 DEF Moves

(* One job moves, the others stay. *)
LEMMA MoveFacts ==
  ASSUME ScanTypeOK, NEW s \in Known, NEW state, NEW generation, Moves(s, state, generation)
  PROVE  /\ job' \in [Known -> Job \union {None}]
         /\ job'[s] # None /\ State(s)' = state
         /\ job'[s].generation = generation /\ job'[s].config = job[s].config
         /\ \A o \in Known \ {s} : job'[o] = job[o] /\ State(o)' = State(o)
  BY JobAssumption DEF Moves, Becomes, ScanTypeOK, State

----------------------------------------------------------------------------
(* What keeps the parts of the invariant *)

(* Nobody but a request that commits makes a scan active.                     *)
LEMMA NoneAdded ==
  ASSUME Inv, UNCHANGED <<config, order, request, pinned, assetLock>>,
         \A o \in Scans : /\ job'[o] = None <=> job[o] = None
                          /\ job'[o] # None => job'[o].config = job[o].config
                          /\ Active(o)' => Active(o)
  PROVE  OneActiveScan' /\ \A s \in Scans : RequestOK(s)'
<1>1. OneActiveScan'
  BY DEF Inv, OneActiveScan, Purpose
<1>2. ASSUME NEW s \in Scans, Existing(s) = {}
      PROVE  Existing(s)' = {}
  BY <1>2 DEF Existing, Purpose
<1>3. ASSUME NEW s \in Scans
      PROVE  RequestOK(s)'
  BY <1>2 DEF Inv, RequestOK, Recorded
<1> QED BY <1>1, <1>3

(* A version of the rules, once made, finds what it has always found.         *)
LEMMA DetectionsStay ==
  ASSUME ScanTypeOK, NEW c \in 1 .. Len(config),
         config' = config \/ \E definition \in [Rules -> Definition] : config' = Append(config, definition)
  PROVE  Detections(c)' = Detections(c)
<1>1. config'[c] = config[c]
  BY DEF ScanTypeOK
<1> QED BY <1>1 DEF Detections, InForce

(* Steps that complete no scan leave every scan the findings it had.          *)
LEMMA FindingsStay ==
  ASSUME Inv, UNCHANGED findings,
         config' = config \/ \E definition \in [Rules -> Definition] : config' = Append(config, definition),
         \A o \in Scans : /\ State(o)' = "COMPLETE" <=> State(o) = "COMPLETE"
                          /\ State(o) = "COMPLETE" => pinned'[o] = pinned[o]
  PROVE  FindingsOfPinnedRules'
<1> SUFFICES ASSUME NEW s \in Scans
             PROVE  {[rule |-> f.rule, revision |-> f.revision] : f \in {g \in findings : g.scan = s}} =
                      IF s \in Published' THEN Detections(pinned[s])' ELSE {}
  BY DEF FindingsOfPinnedRules
<1>1. s \in Published <=> Purpose(s) = "APPLY" /\ State(s) = "COMPLETE"
  BY DEF Published, Applied, State, Known
<1>2. s \in Published' <=> Purpose(s) = "APPLY" /\ State(s)' = "COMPLETE"
  BY DEF Published, Applied, State, Known, Purpose
<1>3. ASSUME State(s) = "COMPLETE"
      PROVE  Detections(pinned[s])' = Detections(pinned[s])
  <2>1. pinned[s] \in 1 .. Len(config) /\ pinned'[s] = pinned[s]
    BY <1>3 DEF Inv, RequestOK, State
  <2> QED BY <2>1, DetectionsStay DEF Inv, Detections, InForce
<1> QED BY <1>1, <1>2, <1>3 DEF Inv, FindingsOfPinnedRules

----------------------------------------------------------------------------
(* Steps that leave the jobs and the findings alone *)

(* An editor's new version is read by no scan that has pinned another.        *)
LEMMA RulesRevised ==
  ASSUME Inv, NEW u \in Rules, NEW definition \in Definition, Configure(u, definition)
  PROVE  Inv'
<1>1. [config[Len(config)] EXCEPT ![u] = definition] \in [Rules -> Definition]
  BY DEF Inv, ScanTypeOK
<1>2. /\ config' = Append(config, [config[Len(config)] EXCEPT ![u] = definition])
      /\ config' \in Seq([Rules -> Definition]) /\ Len(config') = Len(config) + 1
      /\ Len(config) < MaxConfig
  BY <1>1 DEF Inv, ScanTypeOK, Configure
<1>3. ScanTypeOK'
  BY <1>2, PrivacyScanAssumption DEF Inv, ScanTypeOK, Configure, workerVars
<1>4. FindingsOfPinnedRules'
  BY <1>1, <1>2, FindingsStay DEF Configure, State
<1>5. OneActiveScan' /\ \A s \in Scans : JobOK(s)'
  BY DEF Inv, OneActiveScan, JobOK, Active, State, Purpose, Configure
<1>6. ASSUME NEW s \in Scans
      PROVE  RequestOK(s)'
  <2>1. Existing(s)' = Existing(s)
    BY DEF Existing, Active, State, Purpose, Configure
  <2>2. 1 .. Len(config) \subseteq 1 .. Len(config')
    BY <1>2 DEF Inv, ScanTypeOK
  <2> QED BY <2>1, <2>2 DEF Inv, RequestOK, Recorded, Configure
<1>7. \A w \in Workers : WorkerOK(w)'
  BY DEF Inv, WorkerOK, Configure, workerVars
<1> QED BY <1>3, <1>4, <1>5, <1>6, <1>7 DEF Inv

(* Between two statements that write, a worker moves on by itself.            *)
LEMMA WorkersMove ==
  ASSUME Inv, ScanTypeOK', UNCHANGED <<storeVars, results>>, \A w \in Workers : WorkerOK(w)'
  PROVE  Inv'
<1>1. FindingsOfPinnedRules'
  BY FindingsStay DEF storeVars, State
<1>2. OneActiveScan' /\ \A s \in Scans : RequestOK(s)'
  BY NoneAdded DEF storeVars, Active, State
<1>3. \A s \in Scans : JobOK(s)'
  BY DEF Inv, JobOK, Active, State, storeVars
<1> QED BY <1>1, <1>2, <1>3 DEF Inv

(* A scan that ends, a rejected publication and a crash write nothing.        *)
LEMMA WorkerAlone ==
  ASSUME Inv, NEW w \in Workers,
         Scanned(w) \/ ScanFails(w) \/ PublishRejected(w) \/ Crash(w)
  PROVE  Inv'
<1>1. /\ UNCHANGED <<storeVars, results>>
      /\ pc' \in [Workers -> {"polling", "scan", "requeue", "fail", "publish"}]
      /\ leased' \in [Workers -> Scans \union {None}] /\ token' \in [Workers -> Nat]
      /\ live' \in [Workers -> BOOLEAN] /\ faults' \in 0 .. MaxFaults
  <2>1. CASE Scanned(w)
    BY <2>1 DEF Inv, ScanTypeOK, Scanned, WorkerAt
  <2>2. CASE ScanFails(w)
    BY <2>2 DEF Inv, ScanTypeOK, ScanFails, WorkerAt
  <2>3. CASE PublishRejected(w)
    BY <2>3, PrivacyScanAssumption DEF Inv, ScanTypeOK, PublishRejected, WorkerAt, Fault
  <2>4. CASE Crash(w)
    BY <2>4, PrivacyScanAssumption DEF Inv, ScanTypeOK, Crash, WorkerAt, Done, Fault
  <2> QED BY <2>1, <2>2, <2>3, <2>4
<1>2. ScanTypeOK'
  BY <1>1 DEF Inv, ScanTypeOK, storeVars
<1>3. \A x \in Workers : WorkerOK(x)'
  BY <1>1 DEF Inv, ScanTypeOK, WorkerOK, Scanned, ScanFails, PublishRejected, Crash, WorkerAt,
              Done, storeVars
<1> QED BY <1>1, <1>2, <1>3, WorkersMove

----------------------------------------------------------------------------
(* Requests *)

(* A request that begins has its place in the order of the scans.             *)
LEMMA RequestBegins ==
  ASSUME Inv, NEW s \in Scans, RequestBegin(s), UNCHANGED <<workerVars, results, faults>>
  PROVE  Inv'
<1>1. order' \in Seq(Known) /\ \A o \in Scans : Recorded(o) \/ o = s => Recorded(o)'
  <2>1. order \in Seq(Known) /\ s \in Known /\ order' = Append(order, s)
    BY DEF Inv, ScanTypeOK, RequestBegin, Known
  <2>2. /\ order' \in Seq(Known) /\ Len(order') = Len(order) + 1 /\ Len(order) \in Nat
        /\ order'[Len(order) + 1] = s
        /\ \A i \in 1 .. Len(order) : order'[i] = order[i]
    BY <2>1
  <2>3. Recorded(s)'
    <3>1. Len(order) + 1 \in 1 .. Len(order')
      BY <2>2
    <3> QED BY <2>2, <3>1 DEF Recorded
  <2>4. ASSUME NEW o \in Scans, Recorded(o)
        PROVE  Recorded(o)'
    <3>1. PICK i \in 1 .. Len(order) : order[i] = o
      BY <2>4 DEF Recorded
    <3>2. i \in 1 .. Len(order') /\ order'[i] = o
      BY <2>2, <3>1
    <3> QED BY <3>2 DEF Recorded
  <2> QED BY <2>2, <2>3, <2>4
<1>2. ScanTypeOK'
  BY <1>1 DEF Inv, ScanTypeOK, RequestBegin, RequestAt, workerVars
<1>3. FindingsOfPinnedRules'
  BY FindingsStay DEF RequestBegin, State
<1>4. OneActiveScan' /\ (\A o \in Scans : JobOK(o)') /\ \A w \in Workers : WorkerOK(w)'
  BY DEF Inv, OneActiveScan, JobOK, WorkerOK, Active, State, Purpose, RequestBegin, workerVars
<1>5. ASSUME NEW o \in Scans
      PROVE  RequestOK(o)'
  <2>1. Existing(o)' = Existing(o)
    BY DEF Existing, Active, State, Purpose, RequestBegin
  <2> QED BY <1>1, <2>1 DEF Inv, ScanTypeOK, RequestOK, RequestBegin, RequestAt
<1> QED BY <1>2, <1>3, <1>4, <1>5 DEF Inv

(* The rules are pinned under the lock, and before there is a job.            *)
LEMMA RequestPins ==
  ASSUME Inv, NEW s \in Scans, RequestPin(s) \/ RequestAbort(s),
         UNCHANGED <<workerVars, results, faults>>
  PROVE  Inv'
<1>1. /\ UNCHANGED <<config, job, order, version, findings, workerVars, results, faults>>
      /\ job[s] = None
      /\ \A o \in Scans \ {s} : request'[o] = request[o] /\ pinned'[o] = pinned[o]
  BY DEF Inv, ScanTypeOK, RequestOK, RequestPin, RequestAbort, RequestAt
<1>2. ScanTypeOK'
  <2>1. Len(config) \in Nat /\ Len(config) \in 0 .. MaxConfig
    BY PrivacyScanAssumption DEF Inv, ScanTypeOK
  <2> QED BY <1>1, <2>1 DEF Inv, ScanTypeOK, RequestPin, RequestAbort, RequestAt, workerVars
<1>3. FindingsOfPinnedRules'
  <2>1. \A o \in Scans : State(o)' = State(o) /\ (State(o) = "COMPLETE" => pinned'[o] = pinned[o])
    BY <1>1 DEF State
  <2> QED BY <1>1, <2>1, FindingsStay
<1>4. OneActiveScan' /\ (\A o \in Scans : JobOK(o)') /\ \A w \in Workers : WorkerOK(w)'
  BY <1>1 DEF Inv, OneActiveScan, JobOK, WorkerOK, Active, State, Purpose, workerVars
<1>5. ASSUME NEW o \in Scans
      PROVE  RequestOK(o)'
  <2>1. Existing(o)' = Existing(o)
    BY <1>1 DEF Existing, Active, State, Purpose
  <2>2. Recorded(o)' <=> Recorded(o)
    BY <1>1 DEF Recorded
  <2>3. CASE o = s
    <3>1. Len(config) \in 1 .. Len(config)
      BY DEF Inv, ScanTypeOK
    <3> QED BY <1>1, <2>1, <2>2, <2>3, <3>1
            DEF Inv, ScanTypeOK, RequestOK, RequestPin, RequestAbort, RequestAt
  <2>4. CASE o # s
    <3>1. request[o] = "pinned" => assetLock = o /\ assetLock' = o
      BY <2>4, PrivacyScanAssumption DEF Inv, RequestOK, RequestPin, RequestAbort
    <3> QED BY <1>1, <2>1, <2>2, <2>4, <3>1 DEF Inv, RequestOK
  <2> QED BY <2>3, <2>4
<1> QED BY <1>2, <1>3, <1>4, <1>5 DEF Inv

(* The job that a request inserts. *)
Queued(s) == [state |-> "QUEUED", config |-> pinned[s], generation |-> 0,
              owner |-> None, lapsed |-> FALSE]

(* The commit of a request inserts its job, which was not there before.       *)
LEMMA CommitQueues ==
  ASSUME Inv, NEW s \in Scans, RequestCommit(s)
  PROVE  /\ job[s] = None /\ Queued(s) \in Job /\ Becomes(s, Queued(s))
         /\ job' \in [Known -> Job \union {None}]
         /\ job'[s] # None /\ State(s)' = "QUEUED"
         /\ job'[s].generation = 0 /\ job'[s].config = pinned[s]
         /\ \A o \in Known \ {s} : job'[o] = job[o] /\ State(o)' = State(o)
<1>1. job[s] = None /\ pinned[s] \in Nat
  BY DEF Inv, ScanTypeOK, RequestOK, RequestCommit
<1>2. Queued(s) \in Job
  BY <1>1 DEF Queued, Job
<1>3. Becomes(s, Queued(s))
  BY DEF RequestCommit, Becomes, Queued
<1>4. job'[s] = Queued(s) /\ job' \in [Known -> Job \union {None}]
      /\ \A o \in Known \ {s} : job'[o] = job[o]
  BY <1>2, <1>3 DEF Becomes, Inv, ScanTypeOK, Known
<1>5. job'[s] # None
  <2> HIDE DEF Queued
  <2> QED BY <1>2, <1>4, JobAssumption
<1>6. Queued(s).state = "QUEUED" /\ Queued(s).generation = 0 /\ Queued(s).config = pinned[s]
  BY DEF Queued
<1> QED BY <1>1, <1>2, <1>3, <1>4, <1>5, <1>6 DEF State

(* The scan queued is the only one of its purpose, by the lock held.          *)
LEMMA RequestCommits ==
  ASSUME Inv, NEW s \in Scans, RequestCommit(s), UNCHANGED <<workerVars, results, faults>>
  PROVE  Inv'
<1>1. request[s] = "pinned" /\ UNCHANGED <<config, order, pinned, findings>>
  BY DEF RequestCommit
<1>2. assetLock = s /\ Existing(s) = {} /\ pinned[s] \in 1 .. Len(config) /\ Recorded(s)
  BY <1>1 DEF Inv, RequestOK
<1>3. ScanTypeOK'
  <2>1. /\ version' \in Nat /\ assetLock' \in Scans \union {None}
        /\ request' \in [Scans -> {"none", "begun", "pinned", "over"}]
    BY DEF Inv, ScanTypeOK, RequestCommit, RequestAt
  <2>2. job' \in [Known -> Job \union {None}]
    BY CommitQueues
  <2> QED BY <1>1, <2>1, <2>2 DEF Inv, ScanTypeOK, workerVars
<1>4. FindingsOfPinnedRules'
  <2>1. State(s) = "NONE" /\ State(s)' = "QUEUED"
    BY CommitQueues DEF State
  <2>2. \A o \in Scans : State(o)' = "COMPLETE" <=> State(o) = "COMPLETE"
    BY <2>1, CommitQueues DEF Known
  <2> QED BY <1>1, <2>2, FindingsStay
<1>5. OneActiveScan'
  <2>1. ASSUME NEW o \in Scans \ {s}
        PROVE  Active(o)' <=> Active(o)
    BY CommitQueues DEF Active, Known
  <2>2. ASSUME NEW o \in Scans \ {s}, Active(o)
        PROVE  Purpose(o) # Purpose(s)
    BY <1>2, <2>2 DEF Existing
  <2> QED BY <2>1, <2>2 DEF Inv, OneActiveScan, Purpose
<1>6. ASSUME NEW o \in Scans
      PROVE  RequestOK(o)'
  <2>1. CASE o = s
    BY <1>1, <1>2, <2>1, CommitQueues
       DEF Inv, ScanTypeOK, RequestOK, RequestCommit, RequestAt, Recorded
  <2>2. CASE o # s
    <3>1. request[o] # "pinned"
      BY <1>2, <2>2 DEF Inv, RequestOK
    <3>2. request'[o] = request[o] /\ job'[o] = job[o]
      BY <2>2, CommitQueues DEF Inv, ScanTypeOK, RequestCommit, RequestAt, Known
    <3> QED BY <1>1, <3>1, <3>2 DEF Inv, RequestOK, Recorded
  <2> QED BY <2>1, <2>2
<1>7. ASSUME NEW o \in Scans
      PROVE  JobOK(o)'
  BY CommitQueues DEF Inv, JobOK, Active, State, Known
<1>8. \A w \in Workers : WorkerOK(w)'
  BY CommitQueues DEF Inv, WorkerOK, workerVars, Known
<1> QED BY <1>3, <1>4, <1>5, <1>6, <1>7, <1>8 DEF Inv

----------------------------------------------------------------------------
(* Steps that move one scan *)

(* An active scan that moves makes no other scan active, and nobody loses the *)
(* job that he works on.                                                      *)
LEMMA OneMoves ==
  ASSUME Inv, NEW s \in Scans, Active(s), NEW state, NEW generation, Moves(s, state, generation),
         UNCHANGED <<config, order, request, pinned, assetLock>>
  PROVE  /\ job[s] # None /\ State(s)' = state /\ job'[s].generation = generation
         /\ job' \in [Known -> Job \union {None}]
         /\ \A o \in Scans : job'[o] = None <=> job[o] = None
         /\ \A o \in Scans \ {s} : job'[o] = job[o] /\ State(o)' = State(o)
         /\ OneActiveScan' /\ \A o \in Scans : RequestOK(o)'
<1>1. job[s] # None /\ s \in Known
  BY DEF Active, State, Known
<1>2. /\ job' \in [Known -> Job \union {None}]
      /\ job'[s] # None /\ State(s)' = state
      /\ job'[s].generation = generation /\ job'[s].config = job[s].config
      /\ \A o \in Known \ {s} : job'[o] = job[o] /\ State(o)' = State(o)
  BY <1>1, MoveFacts DEF Inv
<1>3. \A o \in Scans : /\ job'[o] = None <=> job[o] = None
                       /\ job'[o] # None => job'[o].config = job[o].config
                       /\ Active(o)' => Active(o)
  <2> SUFFICES ASSUME NEW o \in Scans
               PROVE  /\ job'[o] = None <=> job[o] = None
                      /\ job'[o] # None => job'[o].config = job[o].config
                      /\ Active(o)' => Active(o)
    OBVIOUS
  <2>1. CASE o = s
    BY <1>1, <1>2, <2>1
  <2>2. CASE o # s
    BY <1>2, <2>2 DEF Known, Active
  <2> QED BY <2>1, <2>2
<1>4. OneActiveScan' /\ \A o \in Scans : RequestOK(o)'
  BY <1>3, NoneAdded
<1> QED BY <1>1, <1>2, <1>3, <1>4 DEF Known

(* A scan that is granted, lapses or is requeued has still no result.         *)
LEMMA StaysActive ==
  ASSUME Inv, NEW s \in Scans, Active(s), NEW state \in {"QUEUED", "RUNNING"},
         NEW generation, generation # 0 \/ state = "QUEUED", Moves(s, state, generation),
         UNCHANGED <<config, order, request, pinned, assetLock, findings, results>>
  PROVE  /\ OneActiveScan' /\ FindingsOfPinnedRules'
         /\ \A o \in Scans : RequestOK(o)' /\ JobOK(o)'
<1>1. State(s)' = state /\ job'[s].generation = generation
      /\ \A o \in Scans \ {s} : job'[o] = job[o] /\ State(o)' = State(o)
  BY OneMoves
<1>2. \A o \in Scans : State(o)' = "COMPLETE" <=> State(o) = "COMPLETE"
  BY <1>1 DEF Active
<1>3. FindingsOfPinnedRules'
  BY <1>2, FindingsStay
<1>4. ASSUME NEW o \in Scans
      PROVE  JobOK(o)'
  <2>1. CASE o = s
    BY <1>1, <2>1 DEF Inv, JobOK
  <2>2. CASE o # s
    BY <1>1, <2>2 DEF Inv, JobOK, Active
  <2> QED BY <2>1, <2>2
<1> QED BY <1>3, <1>4, OneMoves

(* What a claim does.                                                         *)
LEMMA ClaimFacts ==
  ASSUME Inv, NEW w \in Workers, ClaimNextJob(w)
  PROVE  LET s == Oldest(Claimable)
         IN  /\ s \in Scans /\ Active(s) /\ job[s].generation \in Nat
             /\ Moves(s, "RUNNING", job[s].generation + 1)
<1> DEFINE s == Oldest(Claimable)
<1>1. Claimable \in SUBSET Known /\ Claimable # {}
  BY DEF ClaimNextJob, Claimable, Known
<1>2. \A o \in Claimable : o \in Scans /\ Active(o) /\ job[o] # None
  BY DEF Claimable, Active, State
<1>3. \A o \in Claimable : Recorded(o)
  BY <1>2 DEF Inv, RequestOK
<1>4. s \in Claimable
  BY <1>1, <1>3, OldestIsOne DEF Inv
<1>5. s \in Known /\ job[s] # None /\ s \in Scans /\ Active(s)
  BY <1>1, <1>2, <1>4
<1>6. job[s].generation \in Nat
  BY <1>5 DEF Inv, ScanTypeOK, Job
<1>7. job' = [job EXCEPT ![s].state = "RUNNING", ![s].owner = w, ![s].lapsed = FALSE,
                         ![s].generation = @ + 1]
  BY DEF ClaimNextJob
<1>8. Moves(s, "RUNNING", job[s].generation + 1)
  <2> HIDE DEF s
  <2> QED BY <1>5, <1>7, ClaimMoves DEF Inv
<1> QED BY <1>5, <1>6, <1>8

(* A claim keeps the invariant: the new lease is on the oldest scan.          *)
LEMMA Claims ==
  ASSUME Inv, NEW w \in Workers, ClaimNextJob(w)
  PROVE  Inv'
<1> DEFINE s == Oldest(Claimable)
<1>1. s \in Scans /\ Active(s) /\ job[s].generation + 1 \in Nat \ {0}
      /\ Moves(s, "RUNNING", job[s].generation + 1)
  BY ClaimFacts
<1>2. /\ leased' = [leased EXCEPT ![w] = s]
      /\ token' = [token EXCEPT ![w] = job[s].generation + 1]
      /\ WorkerAt(w, IF job[s].generation + 1 > MaxAttempts THEN "fail" ELSE "scan")
      /\ UNCHANGED <<config, order, request, pinned, assetLock, version, findings, live, results, faults>>
  BY DEF ClaimNextJob
<1> HIDE DEF s
<1>3. /\ job[s] # None /\ job' \in [Known -> Job \union {None}]
      /\ \A o \in Scans : job'[o] = None <=> job[o] = None
  BY <1>1, <1>2, OneMoves
<1>4. ScanTypeOK'
  BY <1>1, <1>2, <1>3 DEF Inv, ScanTypeOK, WorkerAt
<1>5. ASSUME NEW x \in Workers
      PROVE  WorkerOK(x)'
  <2>1. CASE x = w
    BY <1>1, <1>2, <1>3, <2>1 DEF Inv, ScanTypeOK, WorkerOK
  <2>2. CASE x # w
    BY <1>2, <1>3, <2>2 DEF Inv, ScanTypeOK, WorkerOK, WorkerAt
  <2> QED BY <2>1, <2>2
<1>6. /\ OneActiveScan' /\ FindingsOfPinnedRules'
      /\ \A o \in Scans : RequestOK(o)' /\ JobOK(o)'
  BY <1>1, <1>2, StaysActive
<1> QED BY <1>4, <1>5, <1>6 DEF Inv

(* The end of a lease keeps the invariant: the row stays RUNNING.             *)
LEMMA Lapses ==
  ASSUME Inv, NEW s \in Scans, Lapse(s)
  PROVE  Inv'
<1>1. /\ Active(s) /\ job[s].generation # 0 /\ State(s) = "RUNNING"
      /\ job[s] # None /\ job[s].state = "RUNNING" /\ s \in Known
  BY DEF Inv, JobOK, Lapse, Lapsing, Active, State, Known
<1>2. Moves(s, "RUNNING", job[s].generation)
  BY <1>1, LapseMoves DEF Inv, Lapse
<1>3. /\ UNCHANGED <<config, order, request, pinned, assetLock, version, findings, workerVars, results>>
      /\ faults' \in 0 .. MaxFaults
  BY PrivacyScanAssumption DEF Inv, ScanTypeOK, Lapse, Fault
<1>4. /\ job' \in [Known -> Job \union {None}]
      /\ \A o \in Scans : job'[o] = None <=> job[o] = None
  BY <1>1, <1>2, <1>3, OneMoves
<1>5. ScanTypeOK'
  BY <1>3, <1>4 DEF Inv, ScanTypeOK, workerVars
<1>6. \A x \in Workers : WorkerOK(x)'
  BY <1>3, <1>4 DEF Inv, WorkerOK, workerVars
<1>7. /\ OneActiveScan' /\ FindingsOfPinnedRules'
      /\ \A o \in Scans : RequestOK(o)' /\ JobOK(o)'
  BY <1>1, <1>2, <1>3, StaysActive
<1> QED BY <1>5, <1>6, <1>7 DEF Inv

----------------------------------------------------------------------------
(* The last step of a worker with a scan *)

(* A worker that passes the fence holds a running scan, in its latest lease.  *)
LEMMA HoldsRunning ==
  ASSUME Inv, NEW w \in Workers, pc[w] # "polling", Holds(w)
  PROVE  /\ leased[w] \in Scans /\ leased[w] \in Known
         /\ job[leased[w]] # None /\ State(leased[w]) = "RUNNING" /\ Active(leased[w])
         /\ token[w] = job[leased[w]].generation /\ token[w] \in Nat
         /\ results[leased[w]] = {}
<1>1. leased[w] \in Scans /\ job[leased[w]] # None
  BY DEF Inv, WorkerOK
<1>2. State(leased[w]) = "RUNNING" /\ token[w] = job[leased[w]].generation
  BY <1>1 DEF Holds, State
<1>3. results[leased[w]] = {}
  BY <1>1, <1>2 DEF Inv, JobOK, Active
<1> QED BY <1>1, <1>2, <1>3 DEF Active, Known, Inv, ScanTypeOK

(* Afterwards the worker polls again.                                         *)
LEMMA DoneFacts ==
  ASSUME Inv, NEW w \in Workers, Done(w),
         \A o \in Scans : job'[o] = None <=> job[o] = None
  PROVE  /\ pc' \in [Workers -> {"polling", "scan", "requeue", "fail", "publish"}]
         /\ leased' \in [Workers -> Scans \union {None}] /\ token' \in [Workers -> Nat]
         /\ live' \in [Workers -> BOOLEAN]
         /\ \A x \in Workers : WorkerOK(x)'
  BY DEF Inv, ScanTypeOK, WorkerOK, Done, WorkerAt

(* A worker that has lost its lease writes nothing.                           *)
LEMMA GivesUp ==
  ASSUME Inv, NEW w \in Workers, Done(w), UNCHANGED <<storeVars, results, faults>>
  PROVE  Inv'
<1>1. ScanTypeOK' /\ \A x \in Workers : WorkerOK(x)'
  BY DoneFacts DEF Inv, ScanTypeOK, storeVars
<1> QED BY <1>1, WorkersMove

(* A requeued scan is active still and has no result and no finding.          *)
LEMMA Requeued ==
  ASSUME Inv, NEW w \in Workers, Requeue(w)
  PROVE  Inv'
<1>1. /\ pc[w] # "polling" /\ Done(w)
      /\ UNCHANGED <<config, order, request, pinned, assetLock, version, findings, results, faults>>
  BY DEF Requeue
<1>2. CASE ~(Holds(w) /\ ~job[leased[w]].lapsed)
  BY <1>1, <1>2, GivesUp DEF Requeue, storeVars
<1>3. CASE Holds(w) /\ ~job[leased[w]].lapsed
  <2>1. leased[w] \in Scans /\ leased[w] \in Known /\ job[leased[w]] # None /\ Active(leased[w])
    BY <1>1, <1>3, HoldsRunning
  <2>2. Moves(leased[w], "QUEUED", job[leased[w]].generation)
    BY <1>3, <2>1, RequeueMoves DEF Inv, Requeue
  <2>3. /\ job' \in [Known -> Job \union {None}]
        /\ \A o \in Scans : job'[o] = None <=> job[o] = None
    BY <1>1, <2>1, <2>2, OneMoves
  <2>4. ScanTypeOK' /\ \A x \in Workers : WorkerOK(x)'
    BY <1>1, <2>3, DoneFacts DEF Inv, ScanTypeOK
  <2>5. /\ OneActiveScan' /\ FindingsOfPinnedRules'
        /\ \A o \in Scans : RequestOK(o)' /\ JobOK(o)'
    BY <1>1, <2>1, <2>2, StaysActive
  <2> QED BY <2>4, <2>5 DEF Inv
<1> QED BY <1>2, <1>3

(* A scan is settled once, in the lease of the worker that does it.           *)
LEMMA SettleFacts ==
  ASSUME Inv, NEW w \in Workers, NEW s \in Scans, pc[w] # "polling", Holds(w), s = leased[w],
         NEW state \in {"COMPLETE", "FAILED"}, NEW outcome \in {"published", "failed"},
         Settle(w, state, outcome), UNCHANGED <<config, order, request, pinned, assetLock>>
  PROVE  /\ State(s)' = state /\ job'[s].generation = job[s].generation
         /\ job' \in [Known -> Job \union {None}]
         /\ \A o \in Scans : job'[o] = None <=> job[o] = None
         /\ \A o \in Scans \ {s} : /\ job'[o] = job[o] /\ State(o)' = State(o)
                                    /\ results'[o] = results[o]
         /\ results' \in [Scans -> SUBSET [epoch : Nat, outcome : {"published", "failed"}]]
         /\ results'[s] = {[epoch |-> job[s].generation, outcome |-> outcome]}
         /\ OneActiveScan' /\ \A o \in Scans : RequestOK(o)' /\ JobOK(o)'
<1>1. /\ s \in Scans /\ s \in Known /\ job[s] # None /\ State(s) = "RUNNING" /\ Active(s)
      /\ token[w] = job[s].generation /\ token[w] \in Nat /\ results[s] = {}
  BY HoldsRunning
<1>2. Moves(s, state, job[s].generation)
  BY <1>1, SettleMoves DEF Inv
<1>3. /\ State(s)' = state /\ job'[s].generation = job[s].generation
      /\ job' \in [Known -> Job \union {None}]
      /\ \A o \in Scans : job'[o] = None <=> job[o] = None
      /\ \A o \in Scans \ {s} : job'[o] = job[o] /\ State(o)' = State(o)
      /\ OneActiveScan' /\ \A o \in Scans : RequestOK(o)'
  BY <1>1, <1>2, OneMoves
<1>4. /\ results' = [results EXCEPT ![s] = {[epoch |-> job[s].generation, outcome |-> outcome]}]
      /\ results' \in [Scans -> SUBSET [epoch : Nat, outcome : {"published", "failed"}]]
      /\ \A o \in Scans \ {s} : results'[o] = results[o]
      /\ results'[s] = {[epoch |-> job[s].generation, outcome |-> outcome]}
  <2>1. results' = [results EXCEPT ![s] = {[epoch |-> job[s].generation, outcome |-> outcome]}]
    BY <1>1 DEF Settle
  <2>2. {[epoch |-> job[s].generation, outcome |-> outcome]}
          \in SUBSET [epoch : Nat, outcome : {"published", "failed"}]
    BY <1>1
  <2> QED BY <1>1, <2>1, <2>2 DEF Inv, ScanTypeOK
<1>5. ASSUME NEW o \in Scans
      PROVE  JobOK(o)'
  <2>1. CASE o = s
    <3>1. State(o)' \in {"COMPLETE", "FAILED"} /\ job'[o] # None
      BY <1>1, <1>3, <2>1
    <3> QED BY <3>1 DEF JobOK, Active
  <2>2. CASE o # s
    BY <1>3, <1>4, <2>2 DEF Inv, JobOK, Active
  <2> QED BY <2>1, <2>2
<1> QED BY <1>3, <1>4, <1>5

(* A failed scan has its result and leaves no finding.                        *)
LEMMA Fails ==
  ASSUME Inv, NEW w \in Workers, Fail(w)
  PROVE  Inv'
<1>1. /\ pc[w] # "polling" /\ Done(w)
      /\ UNCHANGED <<config, order, request, pinned, assetLock, version, findings, faults>>
  BY DEF Fail
<1>2. CASE ~(Holds(w) /\ ~job[leased[w]].lapsed)
  BY <1>1, <1>2, GivesUp DEF Fail, storeVars
<1>3. CASE Holds(w) /\ ~job[leased[w]].lapsed
  <2>1. PICK s \in Scans : s = leased[w]
    BY <1>1, <1>3, HoldsRunning
  <2>2. Settle(w, "FAILED", "failed") /\ State(s) = "RUNNING"
    BY <1>1, <1>3, <2>1, HoldsRunning DEF Fail
  <2>3. /\ State(s)' = "FAILED" /\ job' \in [Known -> Job \union {None}]
        /\ \A o \in Scans : job'[o] = None <=> job[o] = None
        /\ \A o \in Scans \ {s} : State(o)' = State(o)
        /\ results' \in [Scans -> SUBSET [epoch : Nat, outcome : {"published", "failed"}]]
        /\ OneActiveScan' /\ \A o \in Scans : RequestOK(o)' /\ JobOK(o)'
    BY <1>1, <1>3, <2>1, <2>2, SettleFacts
  <2>4. ScanTypeOK' /\ \A x \in Workers : WorkerOK(x)'
    BY <1>1, <2>3, DoneFacts DEF Inv, ScanTypeOK
  <2>5. \A o \in Scans : State(o)' = "COMPLETE" <=> State(o) = "COMPLETE"
    BY <2>2, <2>3
  <2>6. FindingsOfPinnedRules'
    BY <1>1, <2>5, FindingsStay
  <2> QED BY <2>3, <2>4, <2>6 DEF Inv
<1> QED BY <1>2, <1>3

----------------------------------------------------------------------------
(* Publication *)

(* A decision that is carried over is the status of some finding.             *)
LEMMA DecisionTyped ==
  ASSUME Inv, NEW s \in Scans, NEW d, Decision(s, d) # {}
  PROVE  (CHOOSE x \in Decision(s, d) : TRUE) \in {"DETECTED", "CONFIRMED", "DISMISSED"}
<1>1. \A f \in findings : f.status \in {"DETECTED", "CONFIRMED", "DISMISSED"}
  BY DEF Inv, ScanTypeOK, Finding
<1>2. \A x \in Decision(s, d) : x \in {"DETECTED", "CONFIRMED", "DISMISSED"}
  BY <1>1 DEF Decision
<1>3. (CHOOSE x \in Decision(s, d) : TRUE) \in Decision(s, d)
  <2> HIDE DEF Decision
  <2> QED OBVIOUS
<1> QED BY <1>2, <1>3

(* The findings that a scan publishes are its own, and are what the rules     *)
(* that it has pinned detect.                                                 *)
LEMMA PublishedFindings ==
  ASSUME Inv, NEW s \in Scans, job[s] # None
  PROVE  /\ NewFindings(s) \subseteq Finding
         /\ \A f \in NewFindings(s) : f.scan = s
         /\ {[rule |-> f.rule, revision |-> f.revision] : f \in NewFindings(s)}
              = Detections(pinned[s])
<1> DEFINE D == Detections(pinned[s])
           StatusOf(d) == IF Decision(s, d) = {} THEN "DETECTED"
                                                 ELSE CHOOSE x \in Decision(s, d) : TRUE
           Row(d) == [scan |-> s, rule |-> d.rule, revision |-> d.revision, status |-> StatusOf(d)]
<1>1. job[s].config = pinned[s] /\ pinned[s] \in 1 .. Len(config)
  BY DEF Inv, RequestOK
<1>2. NewFindings(s) = {Row(d) : d \in D}
  BY <1>1 DEF NewFindings
<1>3. \A d \in D : d \in [rule : Rules, revision : Nat]
  <2>1. config[pinned[s]] \in [Rules -> Definition]
    BY <1>1 DEF Inv, ScanTypeOK
  <2>2. \A u \in Rules : config[pinned[s]][u].revision \in Nat
    BY <2>1 DEF Definition
  <2> QED BY <2>2 DEF Detections, InForce
<1>4. \A d \in D : StatusOf(d) \in {"DETECTED", "CONFIRMED", "DISMISSED"}
  BY DecisionTyped
<1> HIDE DEF StatusOf, D
<1>5. \A d \in D : Row(d) \in Finding /\ Row(d).scan = s
  BY <1>3, <1>4 DEF Finding, Known
<1>6. \A d \in D : [rule |-> Row(d).rule, revision |-> Row(d).revision] = d
  BY <1>3
<1> HIDE DEF Row
<1>7. {[rule |-> f.rule, revision |-> f.revision] : f \in NewFindings(s)} = D
  BY <1>2, <1>6
<1>8. NewFindings(s) \subseteq Finding /\ \A f \in NewFindings(s) : f.scan = s
  BY <1>2, <1>5
<1> QED BY <1>7, <1>8 DEF D

(* The scan that completes leaves what its pinned rules detect.               *)
LEMMA PublicationOfPinnedRules ==
  ASSUME Inv, NEW s \in Scans, State(s) = "RUNNING", State(s)' = "COMPLETE",
         \A o \in Scans \ {s} : State(o)' = State(o),
         UNCHANGED <<config, pinned>>,
         findings' = IF Purpose(s) = "APPLY" THEN findings \union NewFindings(s) ELSE findings
  PROVE  FindingsOfPinnedRules'
<1> DEFINE Of(o, F) == {[rule |-> f.rule, revision |-> f.revision] : f \in {g \in F : g.scan = o}}
<1>1. job[s] # None
  BY DEF State
<1>2. \A o \in Scans : /\ o \in Published <=> Purpose(o) = "APPLY" /\ State(o) = "COMPLETE"
                       /\ o \in Published' <=> Purpose(o) = "APPLY" /\ State(o)' = "COMPLETE"
                       /\ Detections(pinned[o])' = Detections(pinned[o])
  BY DEF Published, Applied, State, Known, Purpose, Detections, InForce
<1>3. \A o \in Scans : Of(o, findings) = IF o \in Published THEN Detections(pinned[o]) ELSE {}
  BY DEF Inv, FindingsOfPinnedRules
<1>4. \A f \in NewFindings(s) : f.scan = s
  BY <1>1, PublishedFindings
<1>5. ASSUME NEW o \in Scans
      PROVE  Of(o, findings') = IF o \in Published' THEN Detections(pinned[o]) ELSE {}
  <2>1. CASE o # s
    <3>1. {g \in findings' : g.scan = o} = {g \in findings : g.scan = o}
      BY <1>4, <2>1
    <3>2. Of(o, findings') = Of(o, findings)
      BY <3>1
    <3>3. o \in Published' <=> o \in Published
      BY <1>2, <2>1
    <3> HIDE DEF Of
    <3> QED BY <1>3, <3>2, <3>3
  <2>2. CASE o = s /\ Purpose(s) = "APPLY"
    <3>1. {g \in findings : g.scan = s} = {}
      <4>1. Of(s, findings) = {}
        <5> HIDE DEF Of
        <5> QED BY <1>2, <1>3
      <4>2. ASSUME NEW g \in findings, g.scan = s
            PROVE  [rule |-> g.rule, revision |-> g.revision] \in Of(s, findings)
        BY <4>2
      <4> QED BY <4>1, <4>2
    <3>2. {g \in findings' : g.scan = s} = NewFindings(s)
      BY <1>4, <2>2, <3>1
    <3>3. Of(s, findings') = Detections(pinned[s])
      <4>1. {[rule |-> f.rule, revision |-> f.revision] : f \in NewFindings(s)}
              = Detections(pinned[s])
        BY <1>1, PublishedFindings
      <4> QED BY <3>2, <4>1
    <3> HIDE DEF Of
    <3> QED BY <1>2, <2>2, <3>3
  <2>3. CASE o = s /\ Purpose(s) # "APPLY"
    <3>1. findings' = findings
      BY <2>3
    <3>2. o \notin Published /\ o \notin Published'
      BY <1>2, <2>3
    <3> HIDE DEF Of
    <3> QED BY <1>3, <3>1, <3>2
  <2> QED BY <2>1, <2>2, <2>3
<1> QED BY <1>2, <1>5 DEF FindingsOfPinnedRules

(* A publication is all of it, by the holder of the lease, or nothing.        *)
LEMMA Publishes ==
  ASSUME Inv, NEW w \in Workers, Publish(w)
  PROVE  Inv'
<1>1. /\ pc[w] # "polling" /\ Done(w)
      /\ UNCHANGED <<config, order, request, pinned, assetLock, faults>>
  BY DEF Publish
<1>2. CASE ~(live[w] /\ Holds(w))
  BY <1>1, <1>2, GivesUp DEF Publish, storeVars
<1>3. CASE live[w] /\ Holds(w)
  <2>1. PICK s \in Scans : s = leased[w]
    BY <1>1, <1>3, HoldsRunning
  <2>2. /\ Settle(w, "COMPLETE", "published") /\ State(s) = "RUNNING" /\ job[s] # None
        /\ IF Purpose(s) = "APPLY"
           THEN findings' = findings \union NewFindings(s) /\ version' = version + 1
           ELSE UNCHANGED <<findings, version>>
    BY <1>1, <1>3, <2>1, HoldsRunning DEF Publish
  <2>3. /\ State(s)' = "COMPLETE" /\ job' \in [Known -> Job \union {None}]
        /\ \A o \in Scans : job'[o] = None <=> job[o] = None
        /\ \A o \in Scans \ {s} : State(o)' = State(o)
        /\ results' \in [Scans -> SUBSET [epoch : Nat, outcome : {"published", "failed"}]]
        /\ OneActiveScan' /\ \A o \in Scans : RequestOK(o)' /\ JobOK(o)'
    BY <1>1, <1>3, <2>1, <2>2, SettleFacts
  <2>4. findings' \subseteq Finding /\ version' \in Nat
    BY <2>2, PublishedFindings DEF Inv, ScanTypeOK
  <2>5. ScanTypeOK' /\ \A x \in Workers : WorkerOK(x)'
    BY <1>1, <2>3, <2>4, DoneFacts DEF Inv, ScanTypeOK
  <2>6. FindingsOfPinnedRules'
    BY <1>1, <2>2, <2>3, PublicationOfPinnedRules
  <2> QED BY <2>3, <2>5, <2>6 DEF Inv
<1> QED BY <1>2, <1>3

----------------------------------------------------------------------------
(* Every behaviour *)

(* A snapshot without scans, or with that of its registration, satisfies the  *)
(* invariant.                                                                 *)
LEMMA Initially ==
  ASSUME ScanInit
  PROVE  Inv
<1>1. PICK definition \in Seeded : config = <<definition>>
  BY DEF ScanInit
<1>2. definition \in [Rules -> Definition]
  BY DEF Seeded, Definition
<1>3. config \in Seq([Rules -> Definition]) /\ Len(config) = 1 /\ config[1] = definition
  BY <1>1, <1>2
<1>4. PICK scanned \in BOOLEAN :
        /\ job = [s \in Known |-> IF s = Import /\ scanned
                   THEN [state |-> "COMPLETE", config |-> 1, generation |-> 0,
                         owner |-> None, lapsed |-> FALSE]
                   ELSE None]
        /\ order = IF scanned THEN <<Import>> ELSE << >>
        /\ findings = {[scan |-> Import, rule |-> d.rule, revision |-> d.revision,
                        status |-> "DETECTED"] : d \in IF scanned THEN Detections(1) ELSE {}}
  BY DEF ScanInit
<1>5. job \in [Known -> Job \union {None}] /\ order \in Seq(Known)
  <2>1. [state |-> "COMPLETE", config |-> 1, generation |-> 0,
         owner |-> None, lapsed |-> FALSE] \in Job
    BY DEF Job
  <2>2. job \in [Known -> Job \union {None}]
    BY <1>4, <2>1
  <2>3. << >> \in Seq(Known) /\ <<Import>> \in Seq(Known)
    BY DEF Known
  <2> QED BY <1>4, <2>2, <2>3
<1>6. findings \subseteq Finding
  <2>1. \A d \in Detections(1) : d.rule \in Rules /\ d.revision \in Nat
    BY <1>2, <1>3 DEF Detections, InForce, Definition
  <2> QED BY <1>4, <2>1 DEF Finding, Known
<1>7. ScanTypeOK
  <2>1. 1 \in 1 .. MaxConfig /\ 0 \in 0 .. MaxConfig /\ 0 \in 0 .. MaxFaults /\ 0 \in Nat
    BY PrivacyScanAssumption
  <2>2. request \in [Scans -> {"none", "begun", "pinned", "over"}]
        /\ pinned \in [Scans -> 0 .. MaxConfig] /\ assetLock \in Scans \union {None}
        /\ version \in Nat /\ faults \in 0 .. MaxFaults
    BY <2>1 DEF ScanInit
  <2>3. /\ pc \in [Workers -> {"polling", "scan", "requeue", "fail", "publish"}]
        /\ leased \in [Workers -> Scans \union {None}] /\ token \in [Workers -> Nat]
        /\ live \in [Workers -> BOOLEAN]
        /\ results \in [Scans -> SUBSET [epoch : Nat, outcome : {"published", "failed"}]]
    BY DEF ScanInit
  <2> QED BY <1>3, <1>5, <1>6, <2>1, <2>2, <2>3 DEF ScanTypeOK
<1>8. \A s \in Scans : job[s] = None /\ State(s) = "NONE"
  BY <1>4, PrivacyScanAssumption DEF Known, State
<1>9. \A s \in Scans : RequestOK(s) /\ JobOK(s)
  BY <1>8 DEF ScanInit, RequestOK, JobOK
<1>10. \A w \in Workers : WorkerOK(w)
  BY DEF ScanInit, WorkerOK
<1>11. OneActiveScan
  BY <1>8 DEF OneActiveScan, Active
<1>12. FindingsOfPinnedRules
  <2>1. \A f \in findings : f.scan = Import
    BY <1>4
  <2>2. \A s \in Scans : {g \in findings : g.scan = s} = {}
    BY <2>1, PrivacyScanAssumption
  <2>3. \A s \in Scans : s \notin Published
    BY <1>8 DEF Published
  <2> QED BY <2>2, <2>3 DEF FindingsOfPinnedRules
<1> QED BY <1>7, <1>9, <1>10, <1>11, <1>12 DEF Inv

(* Every step keeps the invariant.                                            *)
LEMMA Inductive ==
  ASSUME Inv, [ScanNext]_scanVars
  PROVE  Inv'
<1>1. ASSUME NEW s \in Scans, Request(s)
      PROVE  Inv'
  BY <1>1, RequestBegins, RequestPins, RequestCommits DEF Request
<1>2. ASSUME NEW u \in Rules, NEW hit \in BOOLEAN, CreateRule(u, hit) \/ UpdateRule(u, hit)
      PROVE  Inv'
  <2>1. CASE CreateRule(u, hit)
    <3>1. [revision |-> 1, hit |-> hit] \in Definition
      BY DEF Definition
    <3> QED BY <2>1, <3>1, RulesRevised DEF CreateRule
  <2>2. CASE UpdateRule(u, hit)
    <3>1. Current(u).revision \in Nat
      <4>1. Len(config) \in 1 .. Len(config)
        BY DEF Inv, ScanTypeOK
      <4>2. config[Len(config)] \in [Rules -> Definition]
        BY <4>1 DEF Inv, ScanTypeOK
      <4> QED BY <4>2 DEF Current, Definition
    <3>2. [revision |-> Current(u).revision + 1, hit |-> hit] \in Definition
      BY <3>1 DEF Definition
    <3> QED BY <2>2, <3>2, RulesRevised DEF UpdateRule
  <2> QED BY <1>2, <2>1, <2>2
<1>3. ASSUME NEW w \in Workers, Work(w) \/ PublishRejected(w) \/ Crash(w)
      PROVE  Inv'
  BY <1>3, Claims, WorkerAlone, Publishes, Requeued, Fails DEF Work
<1>4. ASSUME NEW s \in Scans, Lapse(s)
      PROVE  Inv'
  BY <1>4, Lapses
<1>5. CASE UNCHANGED scanVars
  <2>1. UNCHANGED <<storeVars, workerVars, results, faults>>
    BY <1>5 DEF scanVars
  <2>2. ScanTypeOK' /\ \A w \in Workers : WorkerOK(w)'
    BY <2>1 DEF Inv, ScanTypeOK, WorkerOK, storeVars, workerVars
  <2> QED BY <2>1, <2>2, WorkersMove
<1> QED BY <1>1, <1>2, <1>3, <1>4, <1>5 DEF ScanNext

(* The invariant holds in every state.                                        *)
THEOREM Invariance == ScanSpec => []Inv
<1>1. ScanInit => Inv
  BY Initially
<1>2. Inv /\ [ScanNext]_scanVars => Inv'
  BY Inductive
<1> QED BY <1>1, <1>2, PTL DEF ScanSpec

(* Scans, requests and leases keep to their types.                            *)
THEOREM TypeCorrect == ScanSpec => []ScanTypeOK
<1>1. Inv => ScanTypeOK
  BY DEF Inv
<1> QED BY <1>1, Invariance, PTL

(* However requests overlap, with however many workers, one scan of a purpose *)
(* is queued or running.                                                      *)
THEOREM OneActive == ScanSpec => []OneActiveScan
<1>1. Inv => OneActiveScan
  BY DEF Inv
<1> QED BY <1>1, Invariance, PTL

(* A completed scan has left the findings of the rules it has pinned, all of  *)
(* them, and no other scan has left any.                                      *)
THEOREM FindingsAreOfPinnedRules == ScanSpec => []FindingsOfPinnedRules
<1>1. Inv => FindingsOfPinnedRules
  BY DEF Inv
<1> QED BY <1>1, Invariance, PTL

----------------------------------------------------------------------------
(* Refinement *)

PhaseOf(s) ==
  CASE job[s] = None -> "new"
    [] State(s) = "QUEUED" /\ job[s].generation = 0 -> "waiting"
    [] Active(s) /\ job[s].generation # 0 -> "granted"
    [] OTHER -> "settled"
EpochOf(s) == IF job[s] = None THEN 0 ELSE job[s].generation

PhaseMap == [s \in Scans |-> PhaseOf(s)]
EpochMap == [s \in Scans |-> EpochOf(s)]

(* What the life cycle sees of a scan whose row stays.                        *)
LEMMA RowStays ==
  ASSUME NEW s \in Scans, job'[s] = job[s]
  PROVE  PhaseOf(s)' = PhaseOf(s) /\ EpochOf(s)' = EpochOf(s)
  BY DEF PhaseOf, EpochOf, State, Active

(* A scan that is granted, lapses or is requeued counts as granted.           *)
LEMMA ActivePhase ==
  ASSUME Inv, NEW s \in Scans, Active(s), NEW state \in {"QUEUED", "RUNNING"},
         NEW generation \in Nat \ {0}, Moves(s, state, generation),
         UNCHANGED <<config, order, request, pinned, assetLock>>
  PROVE  /\ PhaseOf(s) \in {"waiting", "granted"} /\ EpochOf(s) = job[s].generation
         /\ job[s].generation # 0 => PhaseOf(s) = "granted"
         /\ PhaseMap' = [PhaseMap EXCEPT ![s] = "granted"]
         /\ EpochMap' = [EpochMap EXCEPT ![s] = generation]
<1>1. /\ job[s] # None /\ State(s)' = state /\ job'[s].generation = generation /\ job'[s] # None
      /\ \A o \in Scans \ {s} : job'[o] = job[o]
  BY OneMoves
<1>2. PhaseOf(s)' = "granted" /\ EpochOf(s)' = generation
  BY <1>1 DEF PhaseOf, EpochOf, Active
<1>3. \A o \in Scans \ {s} : PhaseOf(o)' = PhaseOf(o) /\ EpochOf(o)' = EpochOf(o)
  BY <1>1, RowStays
<1>4. State(s) = "QUEUED" \/ job[s].generation # 0
  BY DEF Inv, JobOK, Active
<1>5. PhaseOf(s) \in {"waiting", "granted"} /\ EpochOf(s) = job[s].generation
      /\ (job[s].generation # 0 => PhaseOf(s) = "granted")
  BY <1>1, <1>4 DEF PhaseOf, EpochOf
<1>6. PhaseMap' = [PhaseMap EXCEPT ![s] = "granted"] /\ EpochMap' = [EpochMap EXCEPT ![s] = generation]
  <2> HIDE DEF PhaseOf, EpochOf
  <2> QED BY <1>2, <1>3 DEF PhaseMap, EpochMap
<1> QED BY <1>5, <1>6

(* The commit of a request is the submission of its scan.                     *)
LEMMA CommitSubmits ==
  ASSUME Inv, NEW s \in Scans, RequestCommit(s), UNCHANGED results
  PROVE  Lifecycle!Submit(s)
<1>1. PhaseOf(s) = "new" /\ EpochOf(s) = 0
  <2>1. job[s] = None
    BY CommitQueues
  <2> QED BY <2>1 DEF PhaseOf, EpochOf, State, Active
<1>2. PhaseOf(s)' = "waiting" /\ EpochOf(s)' = 0
  BY CommitQueues DEF PhaseOf, EpochOf
<1>3. \A o \in Scans \ {s} : PhaseOf(o)' = PhaseOf(o) /\ EpochOf(o)' = EpochOf(o)
  BY CommitQueues, RowStays DEF Known
<1>4. PhaseMap[s] = "new" /\ PhaseMap' = [PhaseMap EXCEPT ![s] = "waiting"] /\ EpochMap' = EpochMap
  <2> HIDE DEF PhaseOf, EpochOf
  <2> QED BY <1>1, <1>2, <1>3 DEF PhaseMap, EpochMap
<1> QED BY <1>4 DEF Lifecycle!Submit, PhaseMap, EpochMap, PhaseOf, EpochOf

(* A claim grants the scan in the next epoch.                                 *)
LEMMA ClaimGrants ==
  ASSUME Inv, NEW w \in Workers, ClaimNextJob(w)
  PROVE  \E s \in Scans : Lifecycle!Grant(s)
<1>1. PICK s \in Scans : /\ Active(s) /\ job[s].generation \in Nat
                        /\ Moves(s, "RUNNING", job[s].generation + 1)
  BY ClaimFacts
<1>2. UNCHANGED <<config, order, request, pinned, assetLock, results>>
  BY DEF ClaimNextJob
<1>3. /\ PhaseOf(s) \in {"waiting", "granted"} /\ EpochOf(s) = job[s].generation
      /\ PhaseMap' = [PhaseMap EXCEPT ![s] = "granted"]
      /\ EpochMap' = [EpochMap EXCEPT ![s] = job[s].generation + 1]
  <2>1. job[s].generation + 1 \in Nat \ {0}
    BY <1>1
  <2> QED BY <1>1, <1>2, <2>1, ActivePhase
<1>4. PhaseMap[s] \in {"waiting", "granted"} /\ EpochMap' = [EpochMap EXCEPT ![s] = @ + 1]
  BY <1>3 DEF PhaseMap, EpochMap
<1>5. Lifecycle!Grant(s)
  BY <1>2, <1>3, <1>4 DEF Lifecycle!Grant, PhaseMap, EpochMap, PhaseOf, EpochOf
<1> QED BY <1>5

(* A worker that settles a scan does so in the epoch of its lease.            *)
LEMMA SettlesInEpoch ==
  ASSUME Inv, NEW w \in Workers, pc[w] # "polling", Holds(w),
         NEW state \in {"COMPLETE", "FAILED"}, NEW outcome \in {"published", "failed"},
         Settle(w, state, outcome), UNCHANGED <<config, order, request, pinned, assetLock>>
  PROVE  \E s \in Scans : Lifecycle!Settle(s, outcome)
<1>1. PICK s \in Scans : /\ s = leased[w] /\ State(s) = "RUNNING" /\ Active(s)
                        /\ job[s] # None /\ job[s].generation # 0
  BY HoldsRunning DEF Inv, JobOK
<1>2. /\ State(s)' = state /\ job'[s].generation = job[s].generation /\ job'[s] # None
      /\ \A o \in Scans \ {s} : job'[o] = job[o] /\ results'[o] = results[o]
      /\ results'[s] = {[epoch |-> job[s].generation, outcome |-> outcome]}
      /\ results' \in [Scans -> SUBSET [epoch : Nat, outcome : {"published", "failed"}]]
  BY <1>1, SettleFacts
<1>3. PhaseOf(s) = "granted" /\ EpochOf(s) = job[s].generation
  BY <1>1 DEF PhaseOf, EpochOf
<1>4. PhaseOf(s)' = "settled" /\ EpochOf(s)' = job[s].generation
  BY <1>2 DEF PhaseOf, EpochOf, Active
<1>5. \A o \in Scans \ {s} : PhaseOf(o)' = PhaseOf(o) /\ EpochOf(o)' = EpochOf(o)
  BY <1>2, RowStays
<1>6. /\ PhaseMap[s] = "granted" /\ PhaseMap' = [PhaseMap EXCEPT ![s] = "settled"]
      /\ EpochMap' = EpochMap /\ EpochMap[s] = job[s].generation
  <2> HIDE DEF PhaseOf, EpochOf
  <2> QED BY <1>3, <1>4, <1>5 DEF PhaseMap, EpochMap
<1>7. results' = [results EXCEPT ![s] = {[epoch |-> EpochMap[s], outcome |-> outcome]}]
  BY <1>2, <1>6 DEF Inv, ScanTypeOK
<1>8. Lifecycle!Settle(s, outcome)
  BY <1>6, <1>7 DEF Lifecycle!Settle, PhaseMap, EpochMap, PhaseOf, EpochOf
<1> QED BY <1>8

(* Every other step is invisible.                                             *)
LEMMA JobsStay ==
  ASSUME UNCHANGED <<job, results>>
  PROVE  UNCHANGED <<PhaseMap, EpochMap, results>>
  BY DEF PhaseMap, EpochMap, PhaseOf, EpochOf, State, Active

(* Requeueing and the end of a lease are invisible: the scan counts as        *)
(* granted.                                                                   *)
LEMMA StaysGranted ==
  ASSUME Inv, NEW s \in Scans, Active(s), NEW state \in {"QUEUED", "RUNNING"},
         job[s].generation \in Nat \ {0}, Moves(s, state, job[s].generation),
         UNCHANGED <<config, order, request, pinned, assetLock>>
  PROVE  PhaseMap' = PhaseMap /\ EpochMap' = EpochMap
<1>1. /\ PhaseOf(s) = "granted" /\ EpochOf(s) = job[s].generation
      /\ PhaseMap' = [PhaseMap EXCEPT ![s] = "granted"]
      /\ EpochMap' = [EpochMap EXCEPT ![s] = job[s].generation]
  BY ActivePhase
<1> HIDE DEF PhaseOf, EpochOf
<1> QED BY <1>1 DEF PhaseMap, EpochMap

(* Every step is a submission, a grant, a settlement or invisible.            *)
LEMMA LifecycleStep ==
  ASSUME Inv, [ScanNext]_scanVars
  PROVE  \/ UNCHANGED <<PhaseMap, EpochMap, results>>
         \/ \E s \in Scans : \/ Lifecycle!Submit(s) \/ Lifecycle!Grant(s)
                             \/ \E outcome \in Lifecycle!Outcome : Lifecycle!Settle(s, outcome)
<1>1. ASSUME NEW s \in Scans, Request(s)
      PROVE  UNCHANGED <<job, results>> \/ Lifecycle!Submit(s)
  BY <1>1, CommitSubmits DEF Request, RequestBegin, RequestPin, RequestAbort
<1>2. ASSUME NEW s \in Scans, Lapse(s)
      PROVE  UNCHANGED <<PhaseMap, EpochMap, results>>
  <2>1. /\ Active(s) /\ job[s].generation # 0 /\ s \in Known
        /\ job[s] # None /\ job[s].state = "RUNNING"
    BY <1>2 DEF Inv, JobOK, Lapse, Lapsing, Active, State, Known
  <2>2. job[s].generation \in Nat
    BY <2>1 DEF Inv, ScanTypeOK, Job
  <2>3. Moves(s, "RUNNING", job[s].generation)
    BY <1>2, <2>1, LapseMoves DEF Inv, Lapse
  <2>4. UNCHANGED <<config, order, request, pinned, assetLock, results>>
    BY <1>2 DEF Lapse
  <2> QED BY <2>1, <2>2, <2>3, <2>4, StaysGranted
<1>3. ASSUME NEW w \in Workers, Requeue(w)
      PROVE  UNCHANGED <<PhaseMap, EpochMap, results>>
  <2>1. /\ pc[w] # "polling"
        /\ UNCHANGED <<config, order, request, pinned, assetLock, results>>
    BY <1>3 DEF Requeue
  <2>2. CASE UNCHANGED job
    BY <2>1, <2>2, JobsStay
  <2>3. CASE Holds(w) /\ ~job[leased[w]].lapsed
    <3>1. PICK s \in Scans : s = leased[w]
      BY <2>1, <2>3, HoldsRunning
    <3>2. /\ s \in Known /\ job[s] # None /\ Active(s) /\ State(s) = "RUNNING"
          /\ job[s].generation \in Nat \ {0}
      BY <2>1, <2>3, <3>1, HoldsRunning DEF Inv, JobOK
    <3>3. Moves(s, "QUEUED", job[s].generation)
      BY <1>3, <2>3, <3>1, <3>2, RequeueMoves DEF Inv, Requeue
    <3> QED BY <2>1, <3>2, <3>3, StaysGranted
  <2> QED BY <1>3, <2>2, <2>3 DEF Requeue
<1>4. ASSUME NEW w \in Workers, Publish(w) \/ Fail(w)
      PROVE  \/ UNCHANGED <<job, results>>
             \/ \E s \in Scans : \E outcome \in {"published", "failed"} : Lifecycle!Settle(s, outcome)
  <2>1. pc[w] # "polling" /\ UNCHANGED <<config, order, request, pinned, assetLock>>
    BY <1>4 DEF Publish, Fail
  <2>2. CASE Holds(w) /\ Settle(w, "COMPLETE", "published")
    BY <2>1, <2>2, SettlesInEpoch
  <2>3. CASE Holds(w) /\ Settle(w, "FAILED", "failed")
    BY <2>1, <2>3, SettlesInEpoch
  <2>4. \/ UNCHANGED <<job, results>>
        \/ Holds(w) /\ Settle(w, "COMPLETE", "published")
        \/ Holds(w) /\ Settle(w, "FAILED", "failed")
    BY <1>4 DEF Publish, Fail
  <2> QED BY <2>2, <2>3, <2>4
<1>5. ASSUME NEW w \in Workers, Work(w) \/ PublishRejected(w) \/ Crash(w)
      PROVE  \/ UNCHANGED <<job, results>> \/ ClaimNextJob(w)
             \/ Publish(w) \/ Requeue(w) \/ Fail(w)
  BY <1>5 DEF Work, Scanned, ScanFails, PublishRejected, Crash, storeVars
<1>6. ASSUME NEW u \in Rules, NEW hit \in BOOLEAN, CreateRule(u, hit) \/ UpdateRule(u, hit)
      PROVE  UNCHANGED <<job, results>>
  BY <1>6 DEF CreateRule, UpdateRule, Configure
<1>7. CASE UNCHANGED scanVars
  BY <1>7, JobsStay DEF scanVars, storeVars
<1>8. CASE ScanNext
  BY <1>8, <1>1, <1>2, <1>3, <1>4, <1>5, <1>6, JobsStay, ClaimGrants DEF ScanNext, Lifecycle!Outcome
<1> QED BY <1>7, <1>8

(* Scans implement the life cycle that the queue promises for evaluation      *)
(* runs: each is granted to one worker after another and settled once, by the *)
(* last, however leases lapse and workers die.                                *)
THEOREM Refinement == ScanSpec => ImplementsLifecycle
<1>1. ScanInit => Lifecycle!Init
  <2> SUFFICES ASSUME ScanInit
               PROVE  Lifecycle!Init
    OBVIOUS
  <2>1. \A s \in Scans : job[s] = None
    BY PrivacyScanAssumption DEF ScanInit, Known
  <2> QED BY <2>1 DEF ScanInit, Lifecycle!Init, State, Active
<1>2. Inv /\ [ScanNext]_scanVars => [Lifecycle!Next]_(Lifecycle!lifecycleVars)
  BY LifecycleStep DEF Lifecycle!Next, Lifecycle!lifecycleVars, PhaseMap, EpochMap, PhaseOf, EpochOf
<1> QED BY <1>1, <1>2, Invariance, PTL DEF ScanSpec, ImplementsLifecycle, Lifecycle!Spec
=============================================================================
