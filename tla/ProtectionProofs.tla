-------------------------- MODULE ProtectionProofs --------------------------
(* Proofs about what is masked, for any numbers of scans, rules, workers,     *)
(* readers and changes.                                                       *)
EXTENDS Protection, PrivacyScanProofs

----------------------------------------------------------------------------
(* The last scan of a set *)

PlaceIn(ord, s) == CHOOSE i \in 1 .. Len(ord) : ord[i] = s
LatestIn(ord, S) ==
  IF S = {} THEN None ELSE CHOOSE s \in S : \A o \in S : PlaceIn(ord, o) <= PlaceIn(ord, s)
RecordedIn(ord, s) == \E i \in 1 .. Len(ord) : ord[i] = s
Once(ord) == \A i, j \in 1 .. Len(ord) : ord[i] = ord[j] => i = j

(* The order by created_at, as an argument.                                   *)
LEMMA Orders ==
  ASSUME NEW CONSTANT S
  PROVE  /\ Latest(S) = LatestIn(order, S)
         /\ Latest(S)' = LatestIn(order', S)
         /\ \A s : Recorded(s) <=> RecordedIn(order, s)
         /\ \A s : Recorded(s)' <=> RecordedIn(order', s)
  BY DEF Latest, LatestIn, Place, PlaceIn, Recorded, RecordedIn

(* A scan that is recorded stands in its place.                               *)
LEMMA PlaceIsThere ==
  ASSUME NEW CONSTANT ord \in Seq(Known), NEW CONSTANT s, RecordedIn(ord, s)
  PROVE  PlaceIn(ord, s) \in 1 .. Len(ord) /\ ord[PlaceIn(ord, s)] = s
  BY DEF RecordedIn, PlaceIn

(* Some recorded scan of a set is the last one.                               *)
LEMMA LatestIsOne ==
  ASSUME NEW CONSTANT ord \in Seq(Known), NEW CONSTANT S \in SUBSET Known, S # {},
         \A s \in S : RecordedIn(ord, s)
  PROVE  LatestIn(ord, S) \in S /\ \A o \in S : PlaceIn(ord, o) <= PlaceIn(ord, LatestIn(ord, S))
<1> DEFINE Left(s) == Len(ord) - PlaceIn(ord, s)
           T == {Left(s) : s \in S}
<1>1. \A s \in S : PlaceIn(ord, s) \in 1 .. Len(ord)
  BY PlaceIsThere
<1>2. Len(ord) \in Nat
  OBVIOUS
<1>3. T \subseteq Nat /\ T # {}
  BY <1>1, <1>2
<1>4. PICK x \in T : \A y \in T : ~(<<y, x>> \in OpToRel(<, Nat))
  <2> HIDE DEF T
  <2> QED BY <1>3, WFMin, NatLessThanWellFounded
<1>5. PICK s \in S : x = Left(s)
  BY <1>4
<1>6. \A o \in S : PlaceIn(ord, o) <= PlaceIn(ord, s)
  <2> SUFFICES ASSUME NEW o \in S
               PROVE  PlaceIn(ord, o) <= PlaceIn(ord, s)
    OBVIOUS
  <2>1. Left(o) \in T /\ Left(o) \in Nat /\ Left(s) \in Nat
    BY <1>1, <1>2
  <2>2. ~(<<Left(o), Left(s)>> \in OpToRel(<, Nat))
    BY <1>4, <1>5, <2>1
  <2>3. ~(Left(o) < Left(s))
    BY <2>1, <2>2 DEF OpToRel
  <2> QED BY <1>1, <1>2, <2>3
<1> QED BY <1>6 DEF LatestIn

(* No other scan of the set is.                                               *)
LEMMA LatestIsUnique ==
  ASSUME NEW CONSTANT ord \in Seq(Known), NEW CONSTANT S \in SUBSET Known,
         \A s \in S : RecordedIn(ord, s),
         NEW CONSTANT x \in S, \A o \in S : PlaceIn(ord, o) <= PlaceIn(ord, x)
  PROVE  LatestIn(ord, S) = x
<1>1. PICK y \in S : y = LatestIn(ord, S) /\ PlaceIn(ord, x) <= PlaceIn(ord, y)
  BY LatestIsOne
<1>2. PlaceIn(ord, y) <= PlaceIn(ord, x)
  OBVIOUS
<1>3. /\ PlaceIn(ord, x) \in 1 .. Len(ord) /\ ord[PlaceIn(ord, x)] = x
      /\ PlaceIn(ord, y) \in 1 .. Len(ord) /\ ord[PlaceIn(ord, y)] = y
  BY PlaceIsThere
<1>4. PlaceIn(ord, x) = PlaceIn(ord, y)
  BY <1>1, <1>2, <1>3
<1> QED BY <1>1, <1>3, <1>4

(* A new request is the last and moves nobody.                                *)
LEMMA LatestStays ==
  ASSUME NEW CONSTANT ord \in Seq(Known), Once(ord), NEW CONSTANT s \in Known, ~RecordedIn(ord, s)
  PROVE  LET new == Append(ord, s)
         IN  /\ Once(new)
             /\ \A o \in Known : RecordedIn(new, o) <=> o = s \/ RecordedIn(ord, o)
             /\ \A S \in SUBSET Known :
                  (\A o \in S : RecordedIn(ord, o)) => LatestIn(new, S) = LatestIn(ord, S)
<1> DEFINE new == Append(ord, s)
<1>1. /\ new \in Seq(Known) /\ Len(new) = Len(ord) + 1 /\ Len(ord) \in Nat
      /\ new[Len(ord) + 1] = s /\ \A i \in 1 .. Len(ord) : new[i] = ord[i]
  OBVIOUS
<1> HIDE DEF new
<1>2. Once(new)
  BY <1>1 DEF Once, RecordedIn
<1>3. \A o \in Known : RecordedIn(new, o) <=> o = s \/ RecordedIn(ord, o)
  BY <1>1 DEF RecordedIn
<1>4. ASSUME NEW o \in Known, RecordedIn(ord, o)
      PROVE  PlaceIn(new, o) = PlaceIn(ord, o)
  <2>1. PlaceIn(ord, o) \in 1 .. Len(ord) /\ ord[PlaceIn(ord, o)] = o
    BY <1>4, PlaceIsThere
  <2>2. PlaceIn(new, o) \in 1 .. Len(new) /\ new[PlaceIn(new, o)] = o
    BY <1>1, <1>3, <1>4, PlaceIsThere
  <2>3. new[PlaceIn(ord, o)] = o /\ PlaceIn(ord, o) \in 1 .. Len(new)
    BY <1>1, <2>1
  <2> QED BY <1>2, <2>2, <2>3 DEF Once
<1>5. ASSUME NEW S \in SUBSET Known, \A o \in S : RecordedIn(ord, o), S # {}
      PROVE  LatestIn(new, S) = LatestIn(ord, S)
  <2>1. PICK x \in S : x = LatestIn(ord, S) /\ \A o \in S : PlaceIn(ord, o) <= PlaceIn(ord, x)
    BY <1>5, LatestIsOne
  <2>2. \A o \in S : PlaceIn(new, o) <= PlaceIn(new, x)
    BY <1>4, <1>5, <2>1
  <2>3. \A o \in S : RecordedIn(new, o)
    BY <1>3, <1>5
  <2> QED BY <1>1, <2>1, <2>2, <2>3, LatestIsUnique
<1>6. LatestIn(new, {}) = LatestIn(ord, {})
  BY DEF LatestIn
<1> QED BY <1>2, <1>3, <1>5, <1>6 DEF new

----------------------------------------------------------------------------
(* What scans leave behind *)

(* Scans are recorded once, when their request begins. *)
OrderOK ==
  /\ Once(order)
  /\ \A s \in Known : job[s] # None => Recorded(s)
  /\ \A s \in Scans : Recorded(s) => request[s] # "none"

(* The registration has found what the first version of the rules detects.    *)
ImportOK ==
  job[Import] # None =>
    /\ job[Import].config = 1
    /\ {[rule |-> f.rule, revision |-> f.revision] : f \in {g \in findings : g.scan = Import}} =
         Detections(1)

(* A finding is dismissed because a reviewer has dismissed it, or a finding   *)
(* of the same rule and revision before it.                                   *)
DismissedOK ==
  \A f \in findings :
    f.status = "DISMISSED" => [rule |-> f.rule, revision |-> f.revision] \in dismissed

(* A step moves one scan that is not complete; if it completes the scan, the  *)
(* scan is a preview.                                                         *)
Advances(s, state, generation) ==
  /\ job[s] # None /\ State(s) # "COMPLETE" /\ Moves(s, state, generation)
  /\ state = "COMPLETE" => s \in Previews
  /\ UNCHANGED <<config, order, findings, version>>

Completes(s, generation) ==
  /\ job[s] # None /\ s \notin Previews /\ Moves(s, "COMPLETE", generation)
  /\ findings' = findings \union NewFindings(s) /\ version' = version + 1
  /\ UNCHANGED <<config, order>>

(* What the worker's last step does to the scan it holds.                     *)
LEMMA LastSteps ==
  ASSUME Inv, NEW w \in Workers, Publish(w) \/ Requeue(w) \/ Fail(w)
  PROVE  /\ UNCHANGED <<config, order, request>>
         /\ \/ UNCHANGED <<job, findings, version>>
            \/ \E s \in Scans : \E state, generation : Advances(s, state, generation)
            \/ \E s \in Scans : \E generation : Completes(s, generation)
<1>1. pc[w] # "polling" /\ UNCHANGED <<config, order, request>>
  BY DEF Publish, Requeue, Fail
<1>2. ASSUME Holds(w)
      PROVE  /\ leased[w] \in Scans /\ leased[w] \in Known
             /\ job[leased[w]] # None /\ State(leased[w]) = "RUNNING"
  BY <1>1, <1>2, HoldsRunning
<1>3. CASE Publish(w)
  <2>1. CASE ~(live[w] /\ Holds(w))
    BY <1>1, <1>3, <2>1 DEF Publish
  <2>2. CASE live[w] /\ Holds(w)
    <3>1. PICK s \in Scans : s = leased[w]
      BY <1>2, <2>2
    <3>2. Moves(s, "COMPLETE", job[s].generation)
      BY <1>2, <1>3, <2>2, <3>1, SettleMoves DEF Inv, Publish
    <3>3. CASE s \in Previews
      <4>1. Advances(s, "COMPLETE", job[s].generation)
        BY <1>1, <1>2, <1>3, <2>2, <3>1, <3>2, <3>3 DEF Publish, Purpose, Advances
      <4> QED BY <1>1, <4>1
    <3>4. CASE s \notin Previews
      <4>1. Completes(s, job[s].generation)
        BY <1>1, <1>2, <1>3, <2>2, <3>1, <3>2, <3>4 DEF Publish, Purpose, Completes
      <4> QED BY <1>1, <4>1
    <3> QED BY <3>3, <3>4
  <2> QED BY <2>1, <2>2
<1>4. CASE Requeue(w)
  <2>1. CASE ~(Holds(w) /\ ~job[leased[w]].lapsed)
    BY <1>1, <1>4, <2>1 DEF Requeue
  <2>2. CASE Holds(w) /\ ~job[leased[w]].lapsed
    <3>1. PICK s \in Scans : s = leased[w]
      BY <1>2, <2>2
    <3>2. Moves(s, "QUEUED", job[s].generation)
      BY <1>2, <1>4, <2>2, <3>1, RequeueMoves DEF Inv, Requeue
    <3>3. Advances(s, "QUEUED", job[s].generation)
      BY <1>1, <1>2, <1>4, <2>2, <3>1, <3>2 DEF Requeue, Advances
    <3> QED BY <1>1, <3>3
  <2> QED BY <2>1, <2>2
<1>5. CASE Fail(w)
  <2>1. CASE ~(Holds(w) /\ ~job[leased[w]].lapsed)
    BY <1>1, <1>5, <2>1 DEF Fail
  <2>2. CASE Holds(w) /\ ~job[leased[w]].lapsed
    <3>1. PICK s \in Scans : s = leased[w]
      BY <1>2, <2>2
    <3>2. Moves(s, "FAILED", job[s].generation)
      BY <1>2, <1>5, <2>2, <3>1, SettleMoves DEF Inv, Fail
    <3>3. Advances(s, "FAILED", job[s].generation)
      BY <1>1, <1>2, <1>5, <2>2, <3>1, <3>2 DEF Fail, Advances
    <3> QED BY <1>1, <3>3
  <2> QED BY <2>1, <2>2
<1> QED BY <1>3, <1>4, <1>5

(* What any step of requests, editors, workers and time does.                 *)
LEMMA ScanSteps ==
  ASSUME Inv, ScanNext
  PROVE  /\ \A s \in Scans : request[s] # "none" => request'[s] # "none"
         /\ \/ /\ UNCHANGED <<job, order, findings, version>>
               /\ config' = config \/ \E definition \in [Rules -> Definition] :
                                        config' = Append(config, definition)
            \/ \E s \in Scans : /\ request[s] = "none" /\ request'[s] # "none"
                               /\ order' = Append(order, s)
                               /\ UNCHANGED <<config, job, findings, version>>
            \/ \E s \in Scans : RequestCommit(s)
            \/ \E s \in Scans : \E state, generation : Advances(s, state, generation)
            \/ \E s \in Scans : \E generation : Completes(s, generation)
<1>1. ASSUME NEW s \in Scans, RequestBegin(s)
      PROVE  /\ request[s] = "none" /\ request'[s] # "none" /\ order' = Append(order, s)
             /\ UNCHANGED <<config, job, findings, version>>
             /\ \A o \in Scans : request[o] # "none" => request'[o] # "none"
  BY <1>1 DEF RequestBegin, RequestAt, Inv, ScanTypeOK
<1>2. ASSUME NEW s \in Scans, RequestPin(s) \/ RequestAbort(s)
      PROVE  /\ UNCHANGED <<config, job, order, findings, version>>
             /\ \A o \in Scans : request[o] # "none" => request'[o] # "none"
  BY <1>2 DEF RequestPin, RequestAbort, RequestAt, Inv, ScanTypeOK
<1>3. ASSUME NEW s \in Scans, RequestCommit(s)
      PROVE  \A o \in Scans : request[o] # "none" => request'[o] # "none"
  BY <1>3 DEF RequestCommit, RequestAt, Inv, ScanTypeOK
<1>4. ASSUME NEW s \in Scans, Lapse(s)
      PROVE  UNCHANGED request /\ Advances(s, "RUNNING", job[s].generation)
  <2>1. job[s] # None /\ State(s) = "RUNNING" /\ job[s].state = "RUNNING" /\ s \in Known
    BY <1>4 DEF Lapse, Lapsing, State, Known
  <2>2. Moves(s, "RUNNING", job[s].generation)
    BY <1>4, <2>1, LapseMoves DEF Inv, Lapse
  <2> QED BY <1>4, <2>1, <2>2 DEF Lapse, Advances
<1>5. ASSUME NEW u \in Rules, NEW hit \in BOOLEAN, CreateRule(u, hit) \/ UpdateRule(u, hit)
      PROVE  /\ UNCHANGED <<job, order, request, findings, version>>
             /\ \E definition \in [Rules -> Definition] : config' = Append(config, definition)
  <2>1. config[Len(config)] \in [Rules -> Definition]
    BY DEF Inv, ScanTypeOK
  <2>2. PICK definition \in Definition : Configure(u, definition)
    <3>1. Current(u).revision \in Nat
      BY <2>1 DEF Current, Definition
    <3> QED BY <1>5, <3>1 DEF CreateRule, UpdateRule, Definition
  <2>3. [config[Len(config)] EXCEPT ![u] = definition] \in [Rules -> Definition]
    BY <2>1
  <2> QED BY <2>2, <2>3 DEF Configure
<1>6. ASSUME NEW w \in Workers, Scanned(w) \/ ScanFails(w) \/ PublishRejected(w) \/ Crash(w)
      PROVE  UNCHANGED <<config, job, order, request, findings, version>>
  BY <1>6 DEF Scanned, ScanFails, PublishRejected, Crash, storeVars
<1>7. ASSUME NEW w \in Workers, ClaimNextJob(w)
      PROVE  UNCHANGED request /\ \E s \in Scans : \E state, generation : Advances(s, state, generation)
  <2>1. PICK s \in Scans : Active(s) /\ Moves(s, "RUNNING", job[s].generation + 1)
    BY <1>7, ClaimFacts
  <2>2. Advances(s, "RUNNING", job[s].generation + 1)
    BY <1>7, <2>1 DEF ClaimNextJob, Advances, Active, State
  <2> QED BY <1>7, <2>2 DEF ClaimNextJob
<1> QED BY <1>1, <1>2, <1>3, <1>4, <1>5, <1>6, <1>7, LastSteps DEF ScanNext, Request, Work

----------------------------------------------------------------------------
(* What the version counts *)

(* The order grows by scans that were not recorded, if it changes.            *)
OrderGrows == order' = order \/ \E s \in Scans : ~Recorded(s) /\ order' = Append(order, s)

(* A recorded scan that is the latest of a set stays the latest of it.        *)
LEMMA LatestKept ==
  ASSUME Inv, OrderOK, OrderGrows, NEW CONSTANT S \in SUBSET Known, \A s \in S : Recorded(s)
  PROVE  Latest(S)' = Latest(S)
<1>1. order \in Seq(Known) /\ \A s \in S : RecordedIn(order, s)
  BY Orders DEF Inv, ScanTypeOK
<1>2. CASE order' = order
  BY <1>2, Orders
<1>3. ASSUME NEW s \in Scans, ~Recorded(s), order' = Append(order, s)
      PROVE  Latest(S)' = Latest(S)
  <2>1. PICK ord : ord = order
    OBVIOUS
  <2>2. ord \in Seq(Known) /\ Once(ord) /\ s \in Known /\ ~RecordedIn(ord, s)
    BY <1>1, <1>3, <2>1, Orders DEF OrderOK, Known
  <2>3. LatestIn(Append(ord, s), S) = LatestIn(ord, S)
    BY <1>1, <2>1, <2>2, LatestStays
  <2> QED BY <1>3, <2>1, <2>3, Orders
<1> QED BY <1>2, <1>3 DEF OrderGrows

(* The latest applied scan is one that was applied.                           *)
LEMMA LatestApplied ==
  ASSUME Inv, OrderOK
  PROVE  /\ Latest(Applied) = None \/ Latest(Applied) \in Applied
         /\ Latest(Applied) \in Published => Latest(Published) = Latest(Applied)
<1>1. PICK A \in SUBSET Known : A = Applied
  BY DEF Applied
<1>2. PICK P \in SUBSET A : P = Published
  BY <1>1 DEF Published
<1>3. PICK ord \in Seq(Known) : ord = order
  BY DEF Inv, ScanTypeOK
<1>4. \A s \in A : RecordedIn(ord, s)
  BY <1>1, <1>3, Orders DEF Applied, OrderOK
<1>5. Latest(A) = LatestIn(ord, A) /\ Latest(P) = LatestIn(ord, P)
  BY <1>3, Orders
<1>6. CASE A = {}
  BY <1>1, <1>2, <1>6 DEF Latest
<1>7. CASE A # {}
  <2>1. PICK x \in A : x = LatestIn(ord, A) /\ \A o \in A : PlaceIn(ord, o) <= PlaceIn(ord, x)
    BY <1>4, <1>7, LatestIsOne
  <2>2. x \in P => LatestIn(ord, P) = x
    BY <1>2, <1>4, <2>1, LatestIsUnique
  <2> QED BY <1>1, <1>2, <1>5, <2>1, <2>2
<1> QED BY <1>6, <1>7

(* Steps that complete and queue nothing but previews change neither what is  *)
(* detected nor, under the same rules, whether it is verified.                *)
LEMMA Unmoved ==
  ASSUME Inv, OrderOK, OrderGrows, UNCHANGED findings,
         \A s \in Known \ Previews :
           /\ job'[s] = None <=> job[s] = None
           /\ State(s)' = "COMPLETE" <=> State(s) = "COMPLETE"
           /\ job[s] # None => job'[s].config = job[s].config
  PROVE  Detected' = Detected /\ (config' = config => Verified' = Verified)
<1>1. PICK A \in SUBSET Known : A = Applied
  BY DEF Applied
<1>2. PICK P \in SUBSET A : P = Published
  BY <1>1 DEF Published
<1>3. \A s : s \in Applied <=> s \in Known \ Previews /\ job[s] # None
  BY DEF Applied, Purpose
<1>4. \A s : s \in Applied' <=> s \in Known \ Previews /\ job'[s] # None
  BY DEF Applied, Purpose, Known
<1>5. Applied' = A
  BY <1>1, <1>3, <1>4
<1>6. \A s : s \in Published <=> s \in A /\ State(s) = "COMPLETE"
  BY <1>1 DEF Published
<1>7. \A s : s \in Published' <=> s \in A /\ State(s)' = "COMPLETE"
  BY <1>5 DEF Published
<1>8. Published' = P
  BY <1>1, <1>2, <1>3, <1>6, <1>7
<1>9. \A s \in A : Recorded(s)
  BY <1>1, <1>3 DEF OrderOK
<1>10. PICK L : L = Latest(Applied)
  OBVIOUS
<1>11. Latest(Applied)' = L /\ Latest(Published)' = Latest(Published)
  <2>1. Latest(A)' = Latest(A) /\ Latest(P)' = Latest(P)
    BY <1>9, LatestKept
  <2> QED BY <1>1, <1>2, <1>5, <1>8, <1>10, <2>1
<1>12. Detected' = Detected
  BY <1>11 DEF Detected
<1>13. ASSUME config' = config
       PROVE  Verified' = Verified
  <2>1. Verified <=> L # None /\ State(L) = "COMPLETE" /\ job[L].config = Len(config)
    BY <1>10 DEF Verified
  <2>2. Verified' <=> L # None /\ State(L)' = "COMPLETE" /\ job'[L].config = Len(config)
    BY <1>11, <1>13 DEF Verified, State
  <2>3. L = None \/ L \in A
    BY <1>1, <1>10, LatestApplied
  <2> QED BY <1>1, <1>3, <2>1, <2>2, <2>3 DEF Verified
<1> QED BY <1>12, <1>13

(* The version moves with every change of what is detected or verified, but   *)
(* for the revision of a rule.                                                *)
LEMMA VersionCounts ==
  ASSUME Inv, OrderOK, ScanNext
  PROVE  \/ version' = version + 1
         \/ /\ version' = version /\ Detected' = Detected
            /\ config' = config => Verified' = Verified
<1>1. CASE UNCHANGED <<job, order, findings, version>>
  <2>1. \A s \in Known \ Previews : State(s)' = State(s)
    BY <1>1 DEF State
  <2> QED BY <1>1, <2>1, Unmoved DEF OrderGrows
<1>2. ASSUME NEW s \in Scans, request[s] = "none", order' = Append(order, s),
             UNCHANGED <<config, job, findings, version>>
      PROVE  version' = version /\ Detected' = Detected /\ Verified' = Verified
  <2>1. \A o \in Known \ Previews : State(o)' = State(o)
    BY <1>2 DEF State
  <2>2. OrderGrows
    BY <1>2 DEF OrderGrows, OrderOK
  <2> QED BY <1>2, <2>1, <2>2, Unmoved
<1>3. ASSUME NEW s \in Scans, RequestCommit(s)
      PROVE  \/ version' = version + 1
             \/ version' = version /\ Detected' = Detected /\ Verified' = Verified
  <2>1. UNCHANGED <<config, order, findings>>
    BY <1>3 DEF RequestCommit
  <2>2. CASE s \in Previews
    <3>1. \A o \in Known \ {s} : job'[o] = job[o] /\ State(o)' = State(o)
      BY <1>3, CommitQueues
    <3>2. version' = version
      BY <1>3, <2>2 DEF RequestCommit, Purpose
    <3> QED BY <2>1, <2>2, <3>1, <3>2, Unmoved DEF OrderGrows
  <2>3. CASE s \notin Previews
    BY <1>3, <2>3 DEF RequestCommit, Purpose
  <2> QED BY <2>2, <2>3
<1>4. ASSUME NEW s \in Scans, NEW state, NEW generation, Advances(s, state, generation)
      PROVE  version' = version /\ Detected' = Detected /\ Verified' = Verified
  <2>1. s \in Known /\ UNCHANGED <<config, order, findings, version>>
    BY <1>4 DEF Advances, Known
  <2>2. /\ job'[s] # None /\ State(s)' = state /\ job'[s].config = job[s].config
        /\ \A o \in Known \ {s} : job'[o] = job[o] /\ State(o)' = State(o)
    BY <1>4, <2>1, MoveFacts DEF Inv, Advances
  <2>3. \A o \in Known \ Previews :
          /\ job'[o] = None <=> job[o] = None
          /\ State(o)' = "COMPLETE" <=> State(o) = "COMPLETE"
          /\ job[o] # None => job'[o].config = job[o].config
    BY <1>4, <2>2 DEF Advances
  <2> QED BY <2>1, <2>3, Unmoved DEF OrderGrows
<1>5. ASSUME NEW s \in Scans, NEW generation, Completes(s, generation)
      PROVE  version' = version + 1
  BY <1>5 DEF Completes
<1> QED BY <1>1, <1>2, <1>3, <1>4, <1>5, ScanSteps

----------------------------------------------------------------------------
(* What is recorded of scans and decisions *)

(* A decision that a scan carries over has been taken by a reviewer.          *)
LEMMA DecisionsCarried ==
  ASSUME Inv, DismissedOK, NEW s \in Scans, NEW f \in NewFindings(s), f.status = "DISMISSED"
  PROVE  [rule |-> f.rule, revision |-> f.revision] \in dismissed
<1>1. PICK d \in Detections(job[s].config) :
        f = [scan |-> s, rule |-> d.rule, revision |-> d.revision,
             status |-> IF Decision(s, d) = {} THEN "DETECTED"
                                               ELSE CHOOSE x \in Decision(s, d) : TRUE]
  BY DEF NewFindings
<1>2. f.rule = d.rule /\ f.revision = d.revision /\ Decision(s, d) # {}
      /\ (CHOOSE x \in Decision(s, d) : TRUE) = "DISMISSED"
  <2> HIDE DEF Decision
  <2> QED BY <1>1
<1>3. "DISMISSED" \in Decision(s, d)
  <2> HIDE DEF Decision
  <2> QED BY <1>2
<1>4. PICK g \in findings : g.rule = d.rule /\ g.revision = d.revision /\ g.status = "DISMISSED"
  BY <1>3 DEF Decision
<1> QED BY <1>2, <1>4 DEF DismissedOK

(* Scans and their requests keep the record of their order, of the            *)
(* registration's findings and of decisions.                                  *)
LEMMA RecordsKept ==
  ASSUME Inv, OrderOK, ImportOK, DismissedOK, ScanNext, UNCHANGED dismissed
  PROVE  OrderOK' /\ ImportOK' /\ DismissedOK'
<1>0. /\ Import \in Known /\ Import \notin Scans
      /\ \A s \in Scans : s \in Known /\ s # Import
  BY PrivacyScanAssumption DEF Known
<1>1. ASSUME UNCHANGED order, job'[Import] = job[Import], UNCHANGED findings,
             \A s \in Known : job'[s] # None => Recorded(s),
             config' = config \/ \E definition \in [Rules -> Definition] :
                                   config' = Append(config, definition)
      PROVE  OrderOK' /\ ImportOK' /\ DismissedOK'
  <2>1. OrderOK'
    BY <1>1, ScanSteps DEF OrderOK, Recorded, Once
  <2>2. 1 \in 1 .. Len(config)
    BY DEF Inv, ScanTypeOK
  <2>3. Detections(1)' = Detections(1)
    BY <1>1, <2>2, DetectionsStay DEF Inv
  <2>4. ImportOK'
    BY <1>1, <2>3 DEF ImportOK
  <2> QED BY <1>1, <2>1, <2>4 DEF DismissedOK
<1>2. CASE /\ UNCHANGED <<job, order, findings, version>>
           /\ config' = config \/ \E definition \in [Rules -> Definition] :
                                    config' = Append(config, definition)
  BY <1>1, <1>2 DEF OrderOK
<1>3. ASSUME NEW s \in Scans, request[s] = "none", request'[s] # "none",
             order' = Append(order, s), UNCHANGED <<config, job, findings, version>>
      PROVE  OrderOK' /\ ImportOK' /\ DismissedOK'
  <2>1. PICK ord \in Seq(Known) : ord = order
    BY DEF Inv, ScanTypeOK
  <2>2. Once(ord) /\ ~RecordedIn(ord, s)
    BY <1>3, <2>1, Orders DEF OrderOK
  <2>3. /\ Once(Append(ord, s))
        /\ \A o \in Known : RecordedIn(Append(ord, s), o) <=> o = s \/ RecordedIn(ord, o)
    BY <1>0, <2>2, LatestStays
  <2>4. Once(order') /\ \A o \in Known : Recorded(o)' <=> o = s \/ Recorded(o)
    BY <1>3, <2>1, <2>3, Orders
  <2>5. OrderOK'
    BY <1>0, <1>3, <2>4, ScanSteps DEF OrderOK
  <2>6. ImportOK' /\ DismissedOK'
    BY <1>3 DEF ImportOK, DismissedOK, Detections, InForce
  <2> QED BY <2>5, <2>6
<1>4. ASSUME NEW s \in Scans, RequestCommit(s)
      PROVE  OrderOK' /\ ImportOK' /\ DismissedOK'
  <2>1. \A o \in Known \ {s} : job'[o] = job[o]
    BY <1>4, CommitQueues
  <2>2. Recorded(s) /\ UNCHANGED <<config, order, findings>>
    BY <1>4 DEF RequestCommit, Inv, RequestOK
  <2> QED BY <1>0, <1>1, <2>1, <2>2 DEF OrderOK
<1>5. ASSUME NEW s \in Scans, NEW state, NEW generation, job[s] # None, Moves(s, state, generation)
      PROVE  \A o \in Known : (o # s => job'[o] = job[o]) /\ (job'[o] # None => Recorded(o))
  <2>1. \A o \in Known \ {s} : job'[o] = job[o]
    BY <1>0, <1>5, MoveFacts DEF Inv
  <2> QED BY <1>0, <1>5, <2>1 DEF OrderOK
<1>6. ASSUME NEW s \in Scans, NEW state, NEW generation, Advances(s, state, generation)
      PROVE  OrderOK' /\ ImportOK' /\ DismissedOK'
  BY <1>0, <1>1, <1>5, <1>6 DEF Advances
<1>7. ASSUME NEW s \in Scans, NEW generation, Completes(s, generation)
      PROVE  OrderOK' /\ ImportOK' /\ DismissedOK'
  <2>1. job[s] # None /\ UNCHANGED <<config, order>> /\ findings' = findings \union NewFindings(s)
    BY <1>7 DEF Completes
  <2>2. \A o \in Known : (o # s => job'[o] = job[o]) /\ (job'[o] # None => Recorded(o))
    BY <1>5, <1>7 DEF Completes
  <2>3. OrderOK'
    BY <2>1, <2>2, ScanSteps DEF OrderOK, Recorded, Once
  <2>4. {g \in findings' : g.scan = Import} = {g \in findings : g.scan = Import}
    <3>1. \A f \in NewFindings(s) : f.scan = s
      BY <2>1, PublishedFindings
    <3> HIDE DEF NewFindings
    <3> QED BY <1>0, <2>1, <3>1
  <2>5. ImportOK'
    BY <1>0, <2>1, <2>2, <2>4 DEF ImportOK, Detections, InForce
  <2>6. DismissedOK'
    BY <2>1, DecisionsCarried DEF DismissedOK
  <2> QED BY <2>3, <2>5, <2>6
<1> QED BY <1>2, <1>3, <1>4, <1>6, <1>7, ScanSteps

(* People's changes leave the scans and what each of them has found.          *)
LEMMA ScansStay ==
  ASSUME Inv, OrderOK, ImportOK, UNCHANGED UnchangedByPeople, findings' \subseteq Finding, version' \in Nat,
         \A s \in Known :
           {[rule |-> f.rule, revision |-> f.revision] : f \in {g \in findings' : g.scan = s}} =
             {[rule |-> f.rule, revision |-> f.revision] : f \in {g \in findings : g.scan = s}}
  PROVE  Inv' /\ OrderOK' /\ ImportOK'
<1>1. UNCHANGED <<config, job, order, request, pinned, assetLock, pc, leased, token, live, results, faults>>
  BY DEF UnchangedByPeople, workerVars
<1>2. \A s : State(s)' = State(s) /\ (Active(s)' <=> Active(s))
  BY <1>1 DEF State, Active
<1>3. OneActiveScan' /\ \A s \in Scans : RequestOK(s)'
  BY <1>1, <1>2, NoneAdded
<1>4. \A s \in Scans : JobOK(s)'
  BY <1>1, <1>2 DEF Inv, JobOK
<1>5. ScanTypeOK' /\ \A w \in Workers : WorkerOK(w)'
  BY <1>1 DEF Inv, ScanTypeOK, WorkerOK
<1>6. ASSUME NEW s \in Scans
      PROVE  {[rule |-> f.rule, revision |-> f.revision] : f \in {g \in findings' : g.scan = s}} =
               IF s \in Published' THEN Detections(pinned[s])' ELSE {}
  <2>1. s \in Published' <=> s \in Published
    BY <1>1, <1>2 DEF Published, Applied, Purpose
  <2>2. Detections(pinned[s])' = Detections(pinned[s])
    BY <1>1 DEF Detections, InForce
  <2>3. s \in Known
    BY DEF Known
  <2> QED BY <2>1, <2>2, <2>3 DEF Inv, FindingsOfPinnedRules
<1>7. FindingsOfPinnedRules'
  BY <1>6 DEF FindingsOfPinnedRules
<1>8. OrderOK'
  BY <1>1 DEF OrderOK, Recorded
<1>9. ImportOK'
  BY <1>1 DEF ImportOK, Detections, InForce, Known
<1> QED BY <1>3, <1>4, <1>5, <1>7, <1>8, <1>9 DEF Inv

(* A review changes the status of a finding and records a dismissal.          *)
LEMMA Reviews ==
  ASSUME Inv, OrderOK, ImportOK, DismissedOK, dismissed \subseteq [rule : Rules, revision : Nat],
         NEW f \in findings, NEW status \in {"CONFIRMED", "DISMISSED"}, Review(f, status)
  PROVE  /\ Inv' /\ OrderOK' /\ ImportOK' /\ DismissedOK'
         /\ dismissed' \subseteq [rule : Rules, revision : Nat] /\ version' = version + 1
<1> DEFINE h == [f EXCEPT !.status = status]
<1>1. f \in Finding /\ version \in Nat /\ findings \subseteq Finding
  BY DEF Inv, ScanTypeOK
<1>2. /\ h \in Finding /\ h.scan = f.scan /\ h.rule = f.rule /\ h.revision = f.revision
      /\ h.status = status
  BY <1>1 DEF Finding
<1>3. /\ findings' = (findings \ {f}) \union {h} /\ version' = version + 1
      /\ UNCHANGED UnchangedByPeople
      /\ dismissed' = IF status = "DISMISSED"
                      THEN dismissed \union {[rule |-> f.rule, revision |-> f.revision]} ELSE dismissed
  BY DEF Review
<1> HIDE DEF h
<1>4. ASSUME NEW s \in Known
      PROVE  {[rule |-> g.rule, revision |-> g.revision] : g \in {k \in findings' : k.scan = s}} =
               {[rule |-> g.rule, revision |-> g.revision] : g \in {k \in findings : k.scan = s}}
  <2>1. \A g \in findings' : \E k \in findings :
          g.scan = k.scan /\ g.rule = k.rule /\ g.revision = k.revision
    BY <1>2, <1>3
  <2>2. \A g \in findings : \E k \in findings' :
          g.scan = k.scan /\ g.rule = k.rule /\ g.revision = k.revision
    BY <1>2, <1>3
  <2> QED BY <2>1, <2>2
<1>5. findings' \subseteq Finding /\ version' \in Nat
  BY <1>1, <1>2, <1>3
<1>6. Inv' /\ OrderOK' /\ ImportOK'
  BY <1>3, <1>4, <1>5, ScansStay
<1>7. DismissedOK'
  BY <1>2, <1>3 DEF DismissedOK
<1>8. dismissed' \subseteq [rule : Rules, revision : Nat]
  BY <1>1, <1>3 DEF Finding
<1> QED BY <1>3, <1>6, <1>7, <1>8

----------------------------------------------------------------------------
(* The whole invariant *)

Stored == Inv /\ OrderOK /\ ImportOK /\ DismissedOK

(* A view whose version is still in force is true. *)
ViewOK(r) ==
  /\ rpc[r] # "version" => got[r].version <= version
  /\ rpc[r] \in {"findings", "state", "resolved"} /\ got[r].version = version =>
       (got[r].declared <=> declared)
  /\ rpc[r] \in {"state", "resolved"} /\ got[r].version = version =>
       (got[r].detected <=> Detected)
  /\ rpc[r] = "resolved" /\ got[r].version = version /\ calm[r] /\ ~got[r].protected =>
       ~Protected

(* As long as the version of an export's first view is in force, the column   *)
(* is as it was then; the second view that names it too began at such a time. *)
ExportOK(r) ==
  first[r] # None =>
    /\ first[r].version <= version
    /\ rpc[r] # "version" => first[r].version <= got[r].version
    /\ calm[r] /\ ~first[r].protected =>
         /\ rpc[r] = "version" /\ first[r].version = version => ~Protected
         /\ rpc[r] # "version" /\ got[r].version = first[r].version => open[r]

ProtectionInv == TypeOK /\ Stored /\ \A r \in Readers : ViewOK(r) /\ ExportOK(r)

(* What a step of Next does to the protection.                                *)
Counted ==
  \/ version' = version + 1
  \/ /\ version' = version /\ declared' = declared /\ Detected' = Detected
     /\ config' = config => Verified' = Verified

(* Readers write nothing that another one or a scan reads.                    *)
LEMMA ReadersWriteNothing ==
  ASSUME NEW r \in Readers, Resolve(r) \/ Answer(r) \/ WriteExport(r) \/ EndExport(r)
  PROVE  /\ UNCHANGED <<scanVars, declared, dismissed>>
         /\ UNCHANGED <<config, job, order, version, findings>>
  BY DEF Resolve, ReadVersion, ReadDeclarations, ReadFindings, ReadScanState, Read, Answer,
         WriteExport, EndExport, scanVars, storeVars

(* Every step keeps what is stored, and the version counts it.                *)
LEMMA StoredSteps ==
  ASSUME TypeOK, Stored, Next
  PROVE  /\ Stored' /\ Counted
         /\ dismissed' \subseteq [rule : Rules, revision : Nat] /\ declared' \in BOOLEAN
<1>1. dismissed \subseteq [rule : Rules, revision : Nat] /\ declared \in BOOLEAN /\ version \in Nat
  BY DEF TypeOK, Stored, Inv, ScanTypeOK
<1>2. CASE ScanNext /\ UNCHANGED <<declared, dismissed, readerVars>>
  <2>1. Inv'
    BY <1>2, Inductive DEF Stored
  <2>2. OrderOK' /\ ImportOK' /\ DismissedOK'
    BY <1>2, RecordsKept DEF Stored
  <2>3. Counted
    BY <1>2, VersionCounts DEF Stored, Counted
  <2> QED BY <1>1, <1>2, <2>1, <2>2, <2>3 DEF Stored
<1>3. ASSUME NEW r \in Readers, Resolve(r) \/ Answer(r) \/ WriteExport(r) \/ EndExport(r)
      PROVE  /\ Stored' /\ Counted
             /\ dismissed' \subseteq [rule : Rules, revision : Nat] /\ declared' \in BOOLEAN
  <2>1. /\ UNCHANGED <<scanVars, declared, dismissed>>
        /\ UNCHANGED <<config, job, order, version, findings>>
        /\ request' = request
    BY <1>3, ReadersWriteNothing DEF scanVars, storeVars
  <2>2. Inv'
    BY <2>1, Inductive DEF Stored
  <2>3. OrderOK' /\ ImportOK' /\ DismissedOK'
    BY <2>1 DEF Stored, OrderOK, ImportOK, DismissedOK, Recorded, Detections, InForce
  <2>4. \A s \in Known \ Previews : State(s)' = State(s)
    BY <2>1 DEF State
  <2>5. Detected' = Detected /\ Verified' = Verified
    BY <2>1, <2>4, Unmoved DEF Stored, OrderGrows
  <2> QED BY <1>1, <2>1, <2>2, <2>3, <2>5 DEF Stored, Counted
<1>4. ASSUME NEW f \in findings, NEW status \in {"CONFIRMED", "DISMISSED"}, Review(f, status)
      PROVE  /\ Stored' /\ Counted
             /\ dismissed' \subseteq [rule : Rules, revision : Nat] /\ declared' \in BOOLEAN
  <2>1. declared' = declared
    BY <1>4 DEF Review
  <2> QED BY <1>1, <1>4, <2>1, Reviews DEF Stored, Counted
<1>5. ASSUME Decide, declared' \in BOOLEAN
      PROVE  /\ Stored' /\ Counted
             /\ dismissed' \subseteq [rule : Rules, revision : Nat]
  <2>1. UNCHANGED <<UnchangedByPeople, findings, dismissed>> /\ version' = version + 1
    BY <1>5 DEF Decide
  <2>2. version' \in Nat /\ findings' \subseteq Finding
    BY <1>1, <2>1 DEF Stored, Inv, ScanTypeOK
  <2>3. Inv' /\ OrderOK' /\ ImportOK'
    BY <2>1, <2>2, ScansStay DEF Stored
  <2>4. DismissedOK'
    BY <2>1 DEF Stored, DismissedOK
  <2> QED BY <1>1, <2>1, <2>3, <2>4 DEF Stored, Counted
<1> QED BY <1>1, <1>2, <1>3, <1>4, <1>5 DEF Next, Declare, ChangePolicy

(* What an observer of reader r sees in a step.                               *)
LEMMA Observed ==
  ASSUME NEW r \in Readers, Observe
  PROVE  /\ calm'[r] => (rpc'[r] = "version" /\ first'[r] = None) \/ (calm[r] /\ config' = config)
         /\ rpc'[r] # "version" /\ open[r] => open'[r]
         /\ rpc'[r] # "version" /\ rpc[r] # "resolved" /\ ~Protected' => open'[r]
<1>1. calm'[r] = ((rpc'[r] = "version" /\ first'[r] = None) \/ (calm[r] /\ config' = config))
  BY DEF Observe
<1>2. open'[r] = CASE rpc'[r] = "version" -> FALSE
                   [] rpc[r] = "resolved" -> open[r]
                   [] OTHER -> open[r] \/ ~Protected'
  BY DEF Observe
<1>3. rpc'[r] # "version" /\ rpc[r] = "resolved" => open'[r] = open[r]
  BY <1>2
<1>4. rpc'[r] # "version" /\ rpc[r] # "resolved" => open'[r] = (open[r] \/ ~Protected')
  BY <1>2
<1> QED BY <1>1, <1>3, <1>4

(* A reader that does not move: a change it has not seen has another version. *)
LEMMA ReaderStays ==
  ASSUME TypeOK, Counted, Observe, NEW r \in Readers, ViewOK(r), ExportOK(r),
         rpc'[r] = rpc[r], got'[r] = got[r], first'[r] = first[r]
  PROVE  ViewOK(r)' /\ ExportOK(r)'
<1>1. version \in Nat /\ got[r].version \in Nat /\ (first[r] = None \/ first[r].version \in Nat)
  BY DEF TypeOK, ScanTypeOK, View
<1>2. version' \in {version, version + 1}
  BY DEF Counted
<1>3. version' = version => declared' = declared /\ Detected' = Detected
  BY <1>1 DEF Counted
<1>4. version' = version /\ config' = config => (Protected' <=> Protected)
  BY <1>1 DEF Counted, Protected
<1>5. calm'[r] /\ (rpc[r] # "version" \/ first[r] # None) => calm[r] /\ config' = config
  BY Observed
<1>6. ViewOK(r)'
  <2>1. rpc'[r] # "version" => got'[r].version <= version'
    BY <1>1, <1>2 DEF ViewOK
  <2>2. got'[r].version = version' /\ rpc[r] # "version" =>
          version' = version /\ got[r].version = version
    BY <1>1, <1>2 DEF ViewOK
  <2>3. rpc'[r] = "resolved" /\ got'[r].version = version' /\ calm'[r] /\ ~got'[r].protected =>
          ~Protected'
    BY <1>4, <1>5, <2>2 DEF ViewOK
  <2>4. /\ rpc'[r] \in {"findings", "state", "resolved"} /\ got'[r].version = version' =>
             (got'[r].declared <=> declared')
        /\ rpc'[r] \in {"state", "resolved"} /\ got'[r].version = version' =>
             (got'[r].detected <=> Detected')
    BY <1>3, <2>2 DEF ViewOK
  <2> QED BY <2>1, <2>3, <2>4 DEF ViewOK
<1>7. ExportOK(r)'
  <2> SUFFICES ASSUME first[r] # None
               PROVE  ExportOK(r)'
    BY DEF ExportOK
  <2>1. first'[r].version <= version' /\ (rpc'[r] # "version" => first'[r].version <= got'[r].version)
    BY <1>1, <1>2 DEF ExportOK
  <2>2. first'[r].version = version' => version' = version
    BY <1>1, <1>2 DEF ExportOK
  <2>3. calm'[r] /\ ~first'[r].protected /\ rpc'[r] = "version" /\ first'[r].version = version' =>
          ~Protected'
    BY <1>4, <1>5, <2>2 DEF ExportOK
  <2>4. calm'[r] /\ ~first'[r].protected /\ rpc'[r] # "version"
          /\ got'[r].version = first'[r].version => open'[r]
    BY <1>5, Observed DEF ExportOK
  <2> QED BY <2>1, <2>3, <2>4 DEF ExportOK
<1> QED BY <1>6, <1>7

(* A reader that moves: what it reads is what there is.                       *)
LEMMA ReaderMoves ==
  ASSUME TypeOK, Stored, Observe, NEW r \in Readers, ViewOK(r), ExportOK(r),
         Resolve(r) \/ Answer(r) \/ WriteExport(r) \/ EndExport(r)
  PROVE  /\ ViewOK(r)' /\ ExportOK(r)'
         /\ rpc' \in [Readers -> {"version", "declarations", "findings", "state", "resolved"}]
         /\ got' \in [Readers -> View] /\ first' \in [Readers -> View \union {None}]
         /\ \A q \in Readers \ {r} : rpc'[q] = rpc[q] /\ got'[q] = got[q] /\ first'[q] = first[q]
<1>1. /\ UNCHANGED <<config, job, order, version, findings, declared, dismissed>>
  BY ReadersWriteNothing
<1>2. \A s \in Known \ Previews : State(s)' = State(s)
  BY <1>1 DEF State
<1>3. Detected' = Detected /\ Verified' = Verified
  BY <1>1, <1>2, Unmoved DEF Stored, OrderGrows
<1>4. Protected' <=> Protected
  BY <1>1, <1>3 DEF Protected
<1>5. /\ version \in Nat /\ declared \in BOOLEAN /\ got[r] \in View
      /\ first[r] = None \/ first[r] \in View
      /\ rpc \in [Readers -> {"version", "declarations", "findings", "state", "resolved"}]
      /\ got \in [Readers -> View] /\ first \in [Readers -> View \union {None}]
  BY DEF TypeOK, ScanTypeOK
<1>6. Blank \in View
  BY DEF Blank, View
<1>7. calm'[r] /\ (rpc'[r] # "version" \/ first'[r] # None) => calm[r]
  BY Observed
<1>8. ASSUME NEW next \in {"declarations", "findings", "state", "resolved"}, NEW v \in View,
             Read(r, next, v)
      PROVE  /\ rpc'[r] = next /\ got'[r] = v /\ first'[r] = first[r]
             /\ rpc' \in [Readers -> {"version", "declarations", "findings", "state", "resolved"}]
             /\ got' \in [Readers -> View] /\ first' \in [Readers -> View \union {None}]
             /\ \A q \in Readers \ {r} : rpc'[q] = rpc[q] /\ got'[q] = got[q] /\ first'[q] = first[q]
  BY <1>5, <1>8 DEF Read
<1>9. ASSUME NEW v \in View, rpc[r] # "resolved", rpc'[r] # "version", got'[r] = v, first'[r] = first[r],
             rpc[r] # "version" => v.version = got[r].version,
             rpc[r] = "version" => v.version = version
      PROVE  ExportOK(r)'
  <2> SUFFICES ASSUME first[r] # None
               PROVE  ExportOK(r)'
    BY <1>9 DEF ExportOK
  <2>1. first'[r].version <= version' /\ first'[r].version <= got'[r].version
    BY <1>1, <1>9 DEF ExportOK
  <2>2. calm'[r] /\ ~first'[r].protected /\ got'[r].version = first'[r].version => open'[r]
    BY <1>1, <1>4, <1>7, <1>9, Observed DEF ExportOK
  <2> QED BY <1>9, <2>1, <2>2 DEF ExportOK
<1>10. CASE ReadVersion(r)
  <2> DEFINE v == [Blank EXCEPT !.version = version]
  <2>1. v \in View /\ v.version = version
    BY <1>5 DEF Blank, View
  <2>2. rpc[r] = "version" /\ Read(r, "declarations", v)
    BY <1>10 DEF ReadVersion
  <2> HIDE DEF v
  <2>3. ExportOK(r)'
    BY <1>8, <1>9, <2>1, <2>2
  <2>4. ViewOK(r)'
    BY <1>1, <1>5, <1>8, <2>1, <2>2 DEF ViewOK
  <2> QED BY <1>8, <2>1, <2>2, <2>3, <2>4
<1>11. CASE ReadDeclarations(r)
  <2> DEFINE v == [got[r] EXCEPT !.declared = declared]
  <2>1. v \in View /\ v.version = got[r].version /\ v.declared = declared
    BY <1>5 DEF View
  <2>2. rpc[r] = "declarations" /\ Read(r, "findings", v)
    BY <1>11 DEF ReadDeclarations
  <2> HIDE DEF v
  <2>3. ExportOK(r)'
    BY <1>8, <1>9, <2>1, <2>2
  <2>4. ViewOK(r)'
    BY <1>1, <1>5, <1>8, <2>1, <2>2 DEF ViewOK
  <2> QED BY <1>8, <2>1, <2>2, <2>3, <2>4
<1>12. CASE ReadFindings(r)
  <2> DEFINE v == [got[r] EXCEPT !.detected = Detected]
  <2>0. Detected \in BOOLEAN
    BY DEF Detected
  <2>1. v \in View /\ v.version = got[r].version /\ v.declared = got[r].declared /\ v.detected = Detected
    BY <1>5, <2>0 DEF View
  <2>2. rpc[r] = "findings" /\ Read(r, "state", v)
    BY <1>12 DEF ReadFindings
  <2> HIDE DEF v
  <2>3. ExportOK(r)'
    BY <1>8, <1>9, <2>1, <2>2
  <2>4. ViewOK(r)'
    BY <1>1, <1>3, <1>5, <1>8, <2>1, <2>2 DEF ViewOK
  <2> QED BY <1>8, <2>1, <2>2, <2>3, <2>4
<1>13. CASE ReadScanState(r)
  <2> DEFINE p == got[r].declared \/ got[r].detected \/ ~Verified
             v == [got[r] EXCEPT !.protected = p]
  <2>1. /\ v \in View /\ v.version = got[r].version /\ v.declared = got[r].declared
        /\ v.detected = got[r].detected /\ v.protected = p
    BY <1>5 DEF View
  <2>2. rpc[r] = "state" /\ Read(r, "resolved", v)
    BY <1>13 DEF ReadScanState
  <2> HIDE DEF v
  <2>3. ExportOK(r)'
    BY <1>8, <1>9, <2>1, <2>2
  <2>4. rpc'[r] = "resolved" /\ got'[r] = v
    BY <1>8, <2>1, <2>2
  <2>5. v.version = version => (v.declared <=> declared) /\ (v.detected <=> Detected)
    BY <2>1, <2>2 DEF ViewOK
  <2>6. v.version = version /\ ~v.protected => ~Protected
    BY <2>1, <2>5 DEF Protected
  <2>7. v.version <= version
    BY <2>1, <2>2 DEF ViewOK
  <2>8. ViewOK(r)'
    BY <1>1, <1>3, <1>4, <2>4, <2>5, <2>6, <2>7 DEF ViewOK
  <2> QED BY <1>8, <2>1, <2>2, <2>3, <2>8
<1>14. CASE Answer(r) \/ EndExport(r)
  <2>1. Leave(r)
    BY <1>14 DEF Answer, EndExport
  <2>2. rpc'[r] = "version" /\ first'[r] = None
    BY <1>5, <2>1 DEF Leave
  <2>3. ViewOK(r)' /\ ExportOK(r)'
    BY <2>2 DEF ViewOK, ExportOK
  <2> QED BY <1>5, <1>6, <2>1, <2>3 DEF Leave
<1>15. CASE WriteExport(r)
  <2>1. /\ rpc[r] = "resolved" /\ rpc' = [rpc EXCEPT ![r] = "version"]
        /\ got' = [got EXCEPT ![r] = Blank] /\ first' = [first EXCEPT ![r] = got[r]]
    BY <1>15 DEF WriteExport, Resolved
  <2>2. rpc'[r] = "version" /\ first'[r] = got[r]
    BY <1>5, <2>1
  <2>3. ViewOK(r)'
    BY <2>2 DEF ViewOK
  <2>4. ExportOK(r)'
    <3> SUFFICES ASSUME first'[r] # None
                 PROVE  ExportOK(r)'
      BY DEF ExportOK
    <3>1. first'[r].version <= version'
      BY <1>1, <2>1, <2>2 DEF ViewOK
    <3>2. calm'[r] /\ ~first'[r].protected /\ first'[r].version = version' => ~Protected'
      BY <1>1, <1>4, <1>7, <2>1, <2>2 DEF ViewOK
    <3> QED BY <2>2, <3>1, <3>2 DEF ExportOK
  <2> QED BY <1>5, <1>6, <2>1, <2>3, <2>4
<1> QED BY <1>10, <1>11, <1>12, <1>13, <1>14, <1>15 DEF Resolve

----------------------------------------------------------------------------
(* The invariant holds *)

(* At first there is the scan of the registration, or none.                   *)
LEMMA StoredInitially ==
  ASSUME ScanInit, dismissed = {}
  PROVE  Stored
<1>1. PICK scanned \in BOOLEAN :
        /\ job = [s \in Known |-> IF s = Import /\ scanned
                   THEN [state |-> "COMPLETE", config |-> 1, generation |-> 0,
                         owner |-> None, lapsed |-> FALSE]
                   ELSE None]
        /\ order = IF scanned THEN <<Import>> ELSE << >>
        /\ findings = {[scan |-> Import, rule |-> d.rule, revision |-> d.revision,
                        status |-> "DETECTED"] : d \in IF scanned THEN Detections(1) ELSE {}}
  BY DEF ScanInit
<1>2. Inv
  BY Initially
<1>3. Import \in Known /\ \A s \in Scans : s # Import /\ s \in Known
  BY PrivacyScanAssumption DEF Known
<1>4. OrderOK
  <2>1. CASE scanned
    <3>1. order = <<Import>> /\ Len(order) = 1 /\ order[1] = Import
      BY <1>1, <2>1
    <3>2. \A s \in Known : job[s] # None => s = Import
      BY <1>1
    <3> QED BY <1>3, <3>1, <3>2 DEF OrderOK, Recorded, Once
  <2>2. CASE ~scanned
    <3>1. Len(order) = 0
      BY <1>1, <2>2
    <3>2. \A s \in Known : job[s] = None
      BY <1>1, <2>2
    <3> QED BY <3>1, <3>2 DEF OrderOK, Recorded, Once
  <2> QED BY <2>1, <2>2
<1>5. ImportOK
  <2> SUFFICES ASSUME scanned
               PROVE  ImportOK
    BY <1>1, <1>3 DEF ImportOK
  <2>1. job[Import].config = 1
    BY <1>1, <1>3
  <2>2. \A d \in Detections(1) : d = [rule |-> d.rule, revision |-> d.revision]
    BY DEF Detections, InForce
  <2> DEFINE Row(d) == [scan |-> Import, rule |-> d.rule, revision |-> d.revision,
                        status |-> "DETECTED"]
  <2>3. findings = {Row(d) : d \in Detections(1)}
    BY <1>1
  <2>4. \A d \in Detections(1) :
          Row(d).scan = Import /\ [rule |-> Row(d).rule, revision |-> Row(d).revision] = d
    BY <2>2
  <2> HIDE DEF Row
  <2>5. {[rule |-> f.rule, revision |-> f.revision] : f \in {g \in findings : g.scan = Import}} =
          Detections(1)
    BY <2>3, <2>4
  <2> QED BY <2>1, <2>5 DEF ImportOK
<1>6. DismissedOK
  BY <1>1 DEF DismissedOK
<1> QED BY <1>2, <1>4, <1>5, <1>6 DEF Stored

(* What is masked, and the views and exports under way, are right for any     *)
(* order of scans, reviews, declarations, revisions of rules and readings.    *)
THEOREM ProtectionInvariance == Spec => []ProtectionInv
<1>1. Init => ProtectionInv
  <2> SUFFICES ASSUME Init
               PROVE  ProtectionInv
    OBVIOUS
  <2>1. Stored
    BY StoredInitially DEF Init
  <2>2. TypeOK
    BY <2>1 DEF Init, TypeOK, Stored, Inv, Blank, View
  <2>3. \A r \in Readers : ViewOK(r) /\ ExportOK(r)
    BY DEF Init, ViewOK, ExportOK
  <2> QED BY <2>1, <2>2, <2>3 DEF ProtectionInv
<1>2. ProtectionInv /\ [Next /\ Observe]_vars => ProtectionInv'
  <2> SUFFICES ASSUME ProtectionInv, [Next /\ Observe]_vars
               PROVE  ProtectionInv'
    OBVIOUS
  <2>1. TypeOK /\ Stored /\ \A r \in Readers : ViewOK(r) /\ ExportOK(r)
    BY DEF ProtectionInv
  <2>2. CASE Next /\ Observe
    <3>1. /\ Stored' /\ Counted
          /\ dismissed' \subseteq [rule : Rules, revision : Nat] /\ declared' \in BOOLEAN
      BY <2>1, <2>2, StoredSteps
    <3>2. open' \in [Readers -> BOOLEAN] /\ calm' \in [Readers -> BOOLEAN]
      <4>1. \A r \in Readers : open[r] \in BOOLEAN /\ calm[r] \in BOOLEAN
        BY <2>1 DEF TypeOK
      <4>2. Protected' \in BOOLEAN
        BY DEF Protected
      <4> QED BY <2>2, <4>1, <4>2 DEF Observe
    <3>3. CASE UNCHANGED readerVars
      <4>1. UNCHANGED <<rpc, got, first>>
        BY <3>3 DEF readerVars
      <4>2. \A r \in Readers : ViewOK(r)' /\ ExportOK(r)'
        BY <2>1, <2>2, <3>1, <4>1, ReaderStays
      <4>3. TypeOK'
        BY <2>1, <3>1, <3>2, <4>1 DEF TypeOK, Stored, Inv
      <4> QED BY <3>1, <4>2, <4>3 DEF ProtectionInv
    <3>4. ASSUME NEW r \in Readers, Resolve(r) \/ Answer(r) \/ WriteExport(r) \/ EndExport(r)
          PROVE  ProtectionInv'
      <4>1. /\ ViewOK(r)' /\ ExportOK(r)'
            /\ rpc' \in [Readers -> {"version", "declarations", "findings", "state", "resolved"}]
            /\ got' \in [Readers -> View] /\ first' \in [Readers -> View \union {None}]
            /\ \A q \in Readers \ {r} : /\ rpc'[q] = rpc[q] /\ got'[q] = got[q]
                                        /\ first'[q] = first[q]
        BY <2>1, <2>2, <3>4, ReaderMoves
      <4>2. \A q \in Readers \ {r} : ViewOK(q)' /\ ExportOK(q)'
        BY <2>1, <2>2, <3>1, <4>1, ReaderStays
      <4>3. TypeOK'
        BY <3>1, <3>2, <4>1 DEF TypeOK, Stored, Inv
      <4> QED BY <3>1, <4>1, <4>2, <4>3 DEF ProtectionInv
    <3>5. (\E r \in Readers : Resolve(r) \/ Answer(r) \/ WriteExport(r) \/ EndExport(r))
            \/ UNCHANGED readerVars
      BY <2>2 DEF Next, Review, Declare, ChangePolicy, Decide
    <3> QED BY <3>3, <3>4, <3>5
  <2>3. CASE UNCHANGED vars
    <3>1. /\ UNCHANGED <<scanVars, declared, dismissed, rpc, got, first, open, calm>>
          /\ UNCHANGED <<config, job, order, request, version, findings>>
      BY <2>3 DEF vars, readerVars, scanVars, storeVars
    <3>2. Inv'
      BY <2>1, <3>1, Inductive DEF Stored
    <3>3. Stored'
      BY <2>1, <3>1, <3>2 DEF Stored, OrderOK, ImportOK, DismissedOK, Recorded, Detections, InForce
    <3>4. \A s \in Known \ Previews : State(s)' = State(s)
      BY <3>1 DEF State
    <3>5. Detected' = Detected /\ Verified' = Verified
      BY <2>1, <3>1, <3>4, Unmoved DEF Stored, OrderGrows
    <3>6. Protected' <=> Protected
      BY <3>1, <3>5 DEF Protected
    <3>7. TypeOK'
      BY <2>1, <3>1, <3>3 DEF TypeOK, Stored, Inv
    <3>8. \A r \in Readers : ViewOK(r)' /\ ExportOK(r)'
      BY <2>1, <3>1, <3>5, <3>6 DEF ViewOK, ExportOK
    <3> QED BY <3>3, <3>7, <3>8 DEF ProtectionInv
  <2> QED BY <2>2, <2>3
<1> QED BY <1>1, <1>2, PTL DEF Spec

(* Columns, decisions and views keep to their types.                          *)
THEOREM ProtectionTyped == Spec => []TypeOK
<1>1. ProtectionInv => TypeOK
  BY DEF ProtectionInv
<1> QED BY <1>1, ProtectionInvariance, PTL

(* A column is open only if a reviewer has dismissed what every rule in force *)
(* finds there, in the revision in force (resolve_snapshot_protection).       *)
THEOREM FailsClosed == Spec => []FailClosed
<1>1. ASSUME Stored
      PROVE  FailClosed
  <2> SUFFICES ASSUME ~Protected, NEW d \in Detections(Len(config))
               PROVE  d \in dismissed
    BY DEF FailClosed
  <2>1. PICK L : L = Latest(Applied)
    OBVIOUS
  <2>2. ~Detected /\ L # None /\ State(L) = "COMPLETE" /\ job[L].config = Len(config)
    BY <2>1 DEF Protected, Verified
  <2>3. L \in Applied /\ L \in Published /\ L = Latest(Published)
    BY <1>1, <2>1, <2>2, LatestApplied DEF Stored, Published
  <2>4. {[rule |-> f.rule, revision |-> f.revision] : f \in {g \in findings : g.scan = L}} =
          Detections(Len(config))
    <3>1. CASE L \in Scans
      <4>1. pinned[L] = Len(config)
        BY <1>1, <2>2, <2>3, <3>1 DEF Stored, Inv, RequestOK, Applied
      <4> QED BY <1>1, <2>3, <3>1, <4>1 DEF Stored, Inv, FindingsOfPinnedRules
    <3>2. CASE L = Import
      BY <1>1, <2>2, <2>3, <3>2 DEF Stored, ImportOK, Applied
    <3> QED BY <2>3, <3>1, <3>2 DEF Applied, Known
  <2>5. PICK f \in findings : f.scan = L /\ d = [rule |-> f.rule, revision |-> f.revision]
    BY <2>4
  <2>6. f.status = "DISMISSED"
    BY <2>2, <2>3, <2>5 DEF Detected
  <2> QED BY <1>1, <2>5, <2>6 DEF Stored, DismissedOK
<1>2. ProtectionInv => FailClosed
  BY <1>1 DEF ProtectionInv
<1> QED BY <1>2, ProtectionInvariance, PTL

(* A view whose version is still in force shows the findings and declarations *)
(* of the moment, although it was read in pieces.                             *)
THEOREM ViewsAreCovered == Spec => []VersionCoversView
<1>1. ASSUME ProtectionInv
      PROVE  VersionCoversView
  <2> SUFFICES ASSUME NEW r \in Readers, Resolved(r), got[r].version = version
               PROVE  got[r].detected = Detected /\ got[r].declared = declared
    BY DEF VersionCoversView
  <2>1. (got[r].detected <=> Detected) /\ (got[r].declared <=> declared)
    BY <1>1 DEF ProtectionInv, ViewOK, Resolved
  <2>2. got[r].detected \in BOOLEAN /\ got[r].declared \in BOOLEAN /\ declared \in BOOLEAN
    BY <1>1 DEF ProtectionInv, TypeOK, View
  <2>3. Detected \in BOOLEAN
    BY DEF Detected
  <2> QED BY <2>1, <2>2, <2>3
<1> QED BY <1>1, ProtectionInvariance, PTL

(* An export that is released leaves a column open only if that was           *)
(* unprotected at some moment of its last check.                              *)
THEOREM ExportsAreCovered == Spec => []ExportCoversProtection
<1>1. ProtectionInv => ExportCoversProtection
  BY DEF ProtectionInv, ExportOK, ExportCoversProtection, Resolved, Releasable
<1> QED BY <1>1, ProtectionInvariance, PTL
=============================================================================
