------------------------- MODULE ImportSessionProofs -------------------------
(* Proofs about imports, for any numbers of sessions, daemons, assets,        *)
(* contents, mappings and attempts.                                           *)
EXTENDS ImportSession, FiniteSetTheorems, TLAPS

----------------------------------------------------------------------------
(* The invariant *)

Selected(w, s) == job[w] # None /\ job[w].session = s /\ job[w].step = "selected"

(* A session that has been staged keeps its target and its object, and one    *)
(* that is verified shows its last lease and the mapping in force.            *)
SessionOK(s) ==
  /\ status[s] # "ABSENT" => target[s] \in [asset : Assets, new : BOOLEAN]
  /\ status[s] \in {"STAGED", "VERIFYING", "VERIFIED", "REJECTED", "REGISTERED"} =>
       raw[s] \in Raws
  /\ status[s] \in {"VERIFIED", "REGISTERED"} =>
       result[s] = [gen |-> generation[s], mapping |-> mapping[s]]

(* The selected row is locked, so it is as the SELECT has read it.  A daemon  *)
(* with an older lease no longer owns the session; one that owns it inspects  *)
(* under the mapping in force.                                                *)
JobOK(w) ==
  LET s == job[w].session IN
  job[w] # None =>
    /\ job[w].gen <= generation[s]
    /\ job[w].step = "selected" =>
         /\ DispatcherUpdates(s) /\ job[w].gen = generation[s] /\ job[w].mapping = mapping[s]
         /\ \A x \in Workers : Selected(x, s) => x = w
    /\ job[w].step # "selected" /\ Owns(w) => job[w].mapping = mapping[s]

(* A registration is of a verified session; it holds its asset's row, so that *)
(* what it has read of the asset's versions is what there is.                 *)
RegisterOK(s) ==
  /\ register[s] # "no" => status[s] = "VERIFIED"
  /\ register[s] \in {"locked", "read"} => assetLock[target[s].asset] = s
  /\ register[s] = "read" => SameRaw(s) = {} /\ number[s] = count[target[s].asset] + 1

AssetOK(a) ==
  /\ IsFiniteSet(versions[a]) /\ IsFiniteSet({v.raw : v \in versions[a]})
  /\ {v.number : v \in versions[a]} = 1 .. count[a]
  /\ Cardinality(versions[a]) = count[a]
  /\ Cardinality({v.raw : v \in versions[a]}) = count[a]
  /\ current[a] = count[a]

Inv ==
  /\ TypeOK
  /\ \A s \in Sessions : SessionOK(s) /\ RegisterOK(s)
  /\ \A w \in Workers : JobOK(w)
  /\ \A a \in Assets : AssetOK(a)
  /\ RegisteredIsVerified

----------------------------------------------------------------------------
(* What steps leave alone *)

(* Steps of clients and daemons leave a registration, its session and the     *)
(* assets alone, and registered sessions for good.                            *)
LEMMA AssetsStay ==
  ASSUME Inv, UNCHANGED <<assetVars, snapshot>>,
         \A s \in Sessions : /\ register[s] # "no" \/ status[s] = "REGISTERED" =>
                                  /\ status'[s] = status[s] /\ target'[s] = target[s]
                                  /\ raw'[s] = raw[s] /\ mapping'[s] = mapping[s]
                             /\ status'[s] = "REGISTERED" => status[s] = "REGISTERED"
  PROVE  /\ \A s \in Sessions : RegisterOK(s)'
         /\ \A a \in Assets : AssetOK(a)'
         /\ RegisteredIsVerified'
<1>1. UNCHANGED <<versions, count, current, exists, assetLock, register, number>>
  BY DEF assetVars
<1>2. \A a \in Assets : AssetOK(a)'
  BY <1>1 DEF Inv, AssetOK
<1>3. ASSUME NEW s \in Sessions
      PROVE  RegisterOK(s)'
  BY <1>1 DEF Inv, RegisterOK, SameRaw
<1>4. RegisteredIsVerified'
  BY <1>1 DEF Inv, RegisteredIsVerified, TypeOK
<1> QED BY <1>2, <1>3, <1>4

(* Registrations leave daemons and imports alone, but for those they register. *)
LEMMA ImportsStay ==
  ASSUME Inv, UNCHANGED <<job, target, raw, mapping, generation, lapsed, result>>,
         \A s \in Sessions :
           status'[s] # status[s] => status[s] = "VERIFIED" /\ status'[s] = "REGISTERED"
  PROVE  /\ \A s \in Sessions : SessionOK(s)'
         /\ \A w \in Workers : JobOK(w)'
<1>1. ASSUME NEW s \in Sessions
      PROVE  SessionOK(s)'
  BY DEF Inv, SessionOK
<1>2. ASSUME NEW w \in Workers, job[w] # None
      PROVE  job[w].session \in Sessions
  BY <1>2 DEF Inv, TypeOK, Job
<1>3. ASSUME NEW w \in Workers
      PROVE  JobOK(w)'
  BY <1>2 DEF Inv, JobOK, Owns, Selected, DispatcherUpdates
<1> QED BY <1>1, <1>3

(* A client's call changes one session, whose row nobody has selected, and    *)
(* takes it out of every daemon's hands.                                      *)
LEMMA CallsSpareDaemons ==
  ASSUME Inv, NEW s \in Sessions, UNCHANGED <<job, generation, lapsed>>,
         \A q \in Sessions \ {s} : status'[q] = status[q] /\ mapping'[q] = mapping[q],
         \A w \in Workers : ~Selected(w, s), status'[s] # "VERIFYING"
  PROVE  \A w \in Workers : JobOK(w)'
<1> SUFFICES ASSUME NEW w \in Workers, job[w] # None
             PROVE  JobOK(w)'
  BY DEF JobOK
<1>1. job[w].session \in Sessions
  BY DEF Inv, TypeOK, Job
<1> QED BY <1>1 DEF Inv, JobOK, Owns, Selected, DispatcherUpdates

(* A row that nobody has locked is neither being registered nor selected.     *)
LEMMA Unlocked ==
  ASSUME NEW s \in Sessions, ~RowLocked(s)
  PROVE  register[s] = "no" /\ \A w \in Workers : ~Selected(w, s)
  BY DEF RowLocked, Selected

(* Only a session that waits for its inspection is selected.                  *)
LEMMA SelectedWaits ==
  ASSUME Inv, NEW s \in Sessions, status[s] \notin {"STAGED", "VERIFYING"}
  PROVE  \A w \in Workers : ~Selected(w, s)
  BY DEF Inv, JobOK, Selected, DispatcherUpdates

----------------------------------------------------------------------------
(* Calls of clients, and time *)

(* A new session has a target, and no daemon works on it.                     *)
LEMMA Creates ==
  ASSUME Inv, NEW s \in Sessions, NEW a \in Assets, NEW new \in BOOLEAN,
         NEW object \in Raws \union {None}, Create(s, a, new, object)
  PROVE  Inv'
<1>1. TypeOK'
  BY DEF Inv, TypeOK, Create, Become, Status, lease, daemonVars, assetVars
<1>2. /\ status[s] = "ABSENT" /\ status'[s] \in {"OPEN", "STAGED"}
      /\ status'[s] = "STAGED" => raw'[s] \in Raws
      /\ target'[s] \in [asset : Assets, new : BOOLEAN]
      /\ \A q \in Sessions \ {s} : status'[q] = status[q] /\ target'[q] = target[q] /\ raw'[q] = raw[q]
      /\ UNCHANGED <<mapping, generation, lapsed, result, snapshot, job, assetVars>>
  BY DEF Inv, TypeOK, Create, Become, lease, daemonVars
<1>3. \A q \in Sessions : SessionOK(q)'
  BY <1>2 DEF Inv, SessionOK
<1>4. \A w \in Workers : JobOK(w)'
  BY <1>2, CallsSpareDaemons, SelectedWaits
<1>5. /\ \A q \in Sessions : RegisterOK(q)'
      /\ \A b \in Assets : AssetOK(b)'
      /\ RegisteredIsVerified'
  <2>1. register[s] = "no"
    BY <1>2 DEF Inv, TypeOK, RegisterOK
  <2> QED BY <1>2, <2>1, AssetsStay
<1> QED BY <1>1, <1>3, <1>4, <1>5 DEF Inv

(* Only an open session is staged, which no daemon works on.                  *)
LEMMA Stages ==
  ASSUME Inv, NEW s \in Sessions, NEW object \in Raws, Stage(s, object)
  PROVE  Inv'
<1>1. TypeOK'
  BY DEF Inv, TypeOK, Stage, Become, Status, lease, daemonVars, assetVars
<1>2. /\ status[s] = "OPEN" /\ status'[s] = "STAGED" /\ raw'[s] \in Raws
      /\ \A q \in Sessions \ {s} : status'[q] = status[q] /\ raw'[q] = raw[q]
      /\ UNCHANGED <<target, mapping, generation, lapsed, result, snapshot, job, assetVars>>
  BY DEF Inv, TypeOK, Stage, Become, lease, daemonVars
<1>3. \A q \in Sessions : SessionOK(q)'
  BY <1>2 DEF Inv, SessionOK
<1>4. \A w \in Workers : JobOK(w)'
  BY <1>2, CallsSpareDaemons, SelectedWaits
<1>5. /\ \A q \in Sessions : RegisterOK(q)'
      /\ \A b \in Assets : AssetOK(b)'
      /\ RegisteredIsVerified'
  <2>1. register[s] = "no"
    BY <1>2 DEF Inv, TypeOK, RegisterOK
  <2> QED BY <1>2, <2>1, AssetsStay
<1> QED BY <1>1, <1>3, <1>4, <1>5 DEF Inv

(* A new mapping takes the session out of the daemons' hands: their leases    *)
(* are older than the one that will inspect it.                               *)
LEMMA Configures ==
  ASSUME Inv, NEW s \in Sessions, NEW m \in Mappings, Configure(s, m)
  PROVE  Inv'
<1>1. TypeOK'
  BY DEF Inv, TypeOK, Configure, Become, Status, lease, daemonVars, assetVars
<1>2. /\ status[s] \in {"VERIFIED", "REJECTED"} /\ status'[s] = "STAGED" /\ ~RowLocked(s)
      /\ \A q \in Sessions \ {s} : status'[q] = status[q] /\ mapping'[q] = mapping[q]
      /\ UNCHANGED <<target, raw, generation, lapsed, result, snapshot, job, assetVars>>
  BY DEF Inv, TypeOK, Configure, Reconfigurable, Become, lease, daemonVars
<1>3. \A q \in Sessions : SessionOK(q)'
  BY <1>2 DEF Inv, SessionOK
<1>4. \A w \in Workers : JobOK(w)'
  BY <1>2, CallsSpareDaemons, SelectedWaits
<1>5. /\ \A q \in Sessions : RegisterOK(q)'
      /\ \A b \in Assets : AssetOK(b)'
      /\ RegisteredIsVerified'
  <2>1. register[s] = "no"
    BY <1>2, Unlocked
  <2> QED BY <1>2, <2>1, AssetsStay
<1> QED BY <1>1, <1>3, <1>4, <1>5 DEF Inv

(* An abort waits for the row's lock and takes the session from its daemon.   *)
LEMMA Aborts ==
  ASSUME Inv, NEW s \in Sessions, Abort(s)
  PROVE  Inv'
<1>1. TypeOK'
  BY DEF Inv, TypeOK, Abort, Become, Status, content, lease, daemonVars, assetVars
<1>2. /\ status[s] \in {"OPEN", "STAGED", "VERIFIED", "ABORTED"} /\ status'[s] = "ABORTED"
      /\ ~RowLocked(s)
      /\ \A q \in Sessions \ {s} : status'[q] = status[q]
      /\ UNCHANGED <<target, raw, mapping, generation, lapsed, result, snapshot, job, assetVars>>
  BY DEF Inv, TypeOK, Abort, Become, content, lease, daemonVars
<1>3. \A q \in Sessions : SessionOK(q)'
  BY <1>2 DEF Inv, SessionOK
<1>4. \A w \in Workers : JobOK(w)'
  BY <1>2, CallsSpareDaemons, Unlocked
<1>5. /\ \A q \in Sessions : RegisterOK(q)'
      /\ \A b \in Assets : AssetOK(b)'
      /\ RegisteredIsVerified'
  <2>1. register[s] = "no"
    BY <1>2, Unlocked
  <2> QED BY <1>2, <2>1, AssetsStay
<1> QED BY <1>1, <1>3, <1>4, <1>5 DEF Inv

(* Time takes a lease or a session's day away, and nothing else.              *)
LEMMA TimePasses ==
  ASSUME Inv, NEW s \in Sessions, Overdue(s) \/ Lapse(s)
  PROVE  Inv'
<1>1. TypeOK'
  BY DEF Inv, TypeOK, Overdue, Lapse, content, lease, daemonVars, assetVars
<1>2. /\ UNCHANGED <<status, target, raw, mapping, generation, result, snapshot, job, assetVars>>
      /\ \A q \in Sessions : lapsed[q] => lapsed'[q]
  BY DEF Inv, TypeOK, Overdue, Lapse, content, lease, daemonVars
<1>3. \A q \in Sessions : SessionOK(q)'
  BY <1>2 DEF Inv, SessionOK
<1>4. \A w \in Workers : JobOK(w)'
  <2> SUFFICES ASSUME NEW w \in Workers, job[w] # None
               PROVE  JobOK(w)'
    BY <1>2 DEF JobOK
  <2>1. job[w].session \in Sessions
    BY DEF Inv, TypeOK, Job
  <2> QED BY <1>2, <2>1 DEF Inv, JobOK, Owns, Selected, DispatcherUpdates
<1>5. /\ \A q \in Sessions : RegisterOK(q)'
      /\ \A b \in Assets : AssetOK(b)'
      /\ RegisteredIsVerified'
  BY <1>2, AssetsStay
<1> QED BY <1>1, <1>3, <1>4, <1>5 DEF Inv

----------------------------------------------------------------------------
(* Daemons *)

(* A job of no session, of no daemon: what one that is dropped leaves.        *)
LEMMA JobsDropped ==
  ASSUME Inv, NEW w \in Workers, UNCHANGED sessionVars, job' = [job EXCEPT ![w] = None]
  PROVE  \A x \in Workers : JobOK(x)'
<1> SUFFICES ASSUME NEW x \in Workers, x # w, job[x] # None
             PROVE  JobOK(x)'
  BY DEF JobOK, Inv, TypeOK
<1>1. job'[x] = job[x] /\ job[x].session \in Sessions /\ job'[w] = None
      /\ UNCHANGED <<status, mapping, generation, lapsed>>
  BY DEF Inv, TypeOK, Job, sessionVars, content, lease
<1>2. \A y \in Workers : \A q \in Sessions : Selected(y, q)' => Selected(y, q)
  BY <1>1 DEF Inv, TypeOK, Selected
<1> QED BY <1>1, <1>2 DEF Inv, JobOK, Owns, DispatcherUpdates

(* What the session of a job is to the other parts of the invariant when      *)
(* only jobs change.                                                          *)
LEMMA OnlyJobs ==
  ASSUME Inv, UNCHANGED <<sessionVars, assetVars>>, TypeOK', \A w \in Workers : JobOK(w)'
  PROVE  Inv'
<1>1. UNCHANGED <<status, target, raw, mapping, generation, lapsed, result, snapshot>>
  BY DEF sessionVars, content, lease
<1>2. \A q \in Sessions : SessionOK(q)'
  BY <1>1 DEF Inv, SessionOK
<1>3. /\ \A q \in Sessions : RegisterOK(q)'
      /\ \A b \in Assets : AssetOK(b)'
      /\ RegisteredIsVerified'
  BY <1>1, AssetsStay
<1> QED BY <1>2, <1>3 DEF Inv

(* A daemon that gives up, fails or crashes leaves sessions alone.            *)
LEMMA Drops ==
  ASSUME Inv, NEW w \in Workers, Drop(w)
  PROVE  Inv'
<1>1. TypeOK'
  BY DEF Inv, TypeOK, Drop, sessionVars, content, lease, assetVars
<1> QED BY <1>1, JobsDropped, OnlyJobs DEF Drop

(* A heartbeat renews a lease at most, under the same generation.             *)
LEMMA Beats ==
  ASSUME Inv, NEW w \in Workers, Beat(w)
  PROVE  Inv'
<1>1. UNCHANGED <<sessionVars, job, assetVars>>
  BY DEF Beat
<1>2. TypeOK'
  BY DEF Inv, TypeOK, Beat, Renews, Owns, DispatcherUpdates, sessionVars, content, lease, assetVars
<1>3. \A x \in Workers : JobOK(x)'
  BY <1>1 DEF Inv, JobOK, Owns, Selected, DispatcherUpdates, sessionVars, content, lease
<1> QED BY <1>1, <1>2, <1>3, OnlyJobs

(* The SELECT of a claim locks a row that nobody has locked.                  *)
LEMMA Selects ==
  ASSUME Inv, NEW w \in Workers, Select(w)
  PROVE  Inv'
<1>1. PICK s \in Sessions :
        /\ Claimable(s)
        /\ job' = [job EXCEPT ![w] = [session |-> s, step |-> "selected", gen |-> generation[s],
                                      mapping |-> mapping[s], live |-> FALSE]]
  BY DEF Select
<1>2. job[w] = None /\ UNCHANGED <<sessionVars, beating, assetVars>>
  BY DEF Select
<1> DEFINE j == [session |-> s, step |-> "selected", gen |-> generation[s],
                 mapping |-> mapping[s], live |-> FALSE]
<1>3. /\ j \in Job /\ j.session = s /\ j.step = "selected" /\ j.gen = generation[s]
      /\ j.mapping = mapping[s] /\ generation[s] \in Nat
  BY DEF Inv, TypeOK, Job
<1>4. job'[w] = j /\ \A x \in Workers \ {w} : job'[x] = job[x]
  BY <1>1 DEF Inv, TypeOK
<1>5. TypeOK'
  <2>1. job' \in [Workers -> Job \union {None}]
    <3>1. job' = [job EXCEPT ![w] = j]
      BY <1>1
    <3> HIDE DEF j
    <3> QED BY <1>3, <3>1 DEF Inv, TypeOK
  <2> QED BY <1>2, <2>1 DEF Inv, TypeOK, sessionVars, content, lease, assetVars
<1>6. UNCHANGED <<status, mapping, generation, lapsed>>
  BY <1>2 DEF sessionVars, content, lease
<1>7. \A x \in Workers : ~Selected(x, s)
  BY <1>1, Unlocked DEF Claimable
<1> HIDE DEF j
<1>8. ASSUME NEW x \in Workers, job'[x] # None
      PROVE  JobOK(x)'
  <2>1. CASE x = w
    <3>1. \A y \in Workers : Selected(y, s)' => y = w
      BY <1>4, <1>7 DEF Selected
    <3> QED BY <1>1, <1>3, <1>4, <1>6, <2>1, <3>1 DEF JobOK, Claimable, DispatcherUpdates
  <2>2. CASE x # w
    <3>1. job'[x] = job[x] /\ job[x].session \in Sessions
      BY <1>4, <1>8, <2>2 DEF Inv, TypeOK, Job
    <3>2. ASSUME job[x].step = "selected", NEW y \in Workers, Selected(y, job[x].session)'
          PROVE  y = x
      <4>1. job[x].session # s
        BY <1>7, <1>8, <3>1, <3>2 DEF Selected
      <4>2. y # w
        BY <1>3, <1>4, <3>1, <3>2, <4>1 DEF Selected
      <4>3. Selected(y, job[x].session)
        BY <1>4, <3>1, <3>2, <4>2 DEF Selected
      <4> QED BY <1>8, <3>1, <3>2, <4>3 DEF Inv, JobOK
    <3> QED BY <1>6, <1>8, <3>1, <3>2 DEF Inv, JobOK, Owns, DispatcherUpdates
  <2> QED BY <2>1, <2>2
<1>9. \A x \in Workers : JobOK(x)'
  BY <1>8 DEF JobOK
<1> QED BY <1>2, <1>5, <1>9, OnlyJobs

(* The transaction of an inspection starts.                                   *)
LEMMA Begins ==
  ASSUME Inv, NEW w \in Workers, Begin(w)
  PROVE  Inv'
<1> DEFINE a == [job[w] EXCEPT !.step = "inspecting"]
           j == [a EXCEPT !.live = ~lapsed[job[w].session]]
<1>1. job[w] \in Job /\ job[w] # None /\ job[w].step = "claimed" /\ lapsed[job[w].session] \in BOOLEAN
  BY DEF Inv, TypeOK, Begin, Job
<1>2. /\ a \in Job /\ a.step = "inspecting" /\ a.session = job[w].session
      /\ a.gen = job[w].gen /\ a.mapping = job[w].mapping
  BY <1>1 DEF Job
<1>3. /\ j \in Job /\ j.step = "inspecting" /\ j.session = job[w].session
      /\ j.gen = job[w].gen /\ j.mapping = job[w].mapping
  <2> DEFINE v == ~lapsed[job[w].session]
  <2>1. v \in BOOLEAN
    OBVIOUS
  <2> HIDE DEF a, v
  <2>2. LET k == [a EXCEPT !.live = v]
        IN  /\ k \in Job /\ k.step = a.step /\ k.session = a.session
            /\ k.gen = a.gen /\ k.mapping = a.mapping
    BY <1>2, <2>1 DEF Job
  <2> QED BY <1>2, <2>2 DEF v
<1>4. job' = [job EXCEPT ![w] = j] /\ UNCHANGED <<sessionVars, beating, assetVars>>
  BY DEF Begin, Inv, TypeOK
<1> HIDE DEF a, j
<1>5. job'[w] = j /\ \A x \in Workers \ {w} : job'[x] = job[x]
  BY <1>4 DEF Inv, TypeOK
<1>6. TypeOK'
  <2>1. job' \in [Workers -> Job \union {None}]
    BY <1>3, <1>4 DEF Inv, TypeOK
  <2> QED BY <1>4, <2>1 DEF Inv, TypeOK, sessionVars, content, lease, assetVars
<1>7. UNCHANGED <<status, mapping, generation, lapsed>>
  BY <1>4 DEF sessionVars, content, lease
<1>8. \A x \in Workers, q \in Sessions : Selected(x, q)' => Selected(x, q)
  BY <1>3, <1>5 DEF Selected
<1>9. ASSUME NEW x \in Workers, job'[x] # None
      PROVE  JobOK(x)'
  <2>1. CASE x = w
    BY <1>1, <1>3, <1>5, <1>7, <2>1 DEF Inv, JobOK, Owns
  <2>2. CASE x # w
    <3>1. job'[x] = job[x] /\ job[x].session \in Sessions
      BY <1>5, <1>9, <2>2 DEF Inv, TypeOK, Job
    <3> QED BY <1>7, <1>8, <1>9, <3>1 DEF Inv, JobOK, Owns, DispatcherUpdates
  <2> QED BY <2>1, <2>2
<1>10. \A x \in Workers : JobOK(x)'
  BY <1>9 DEF JobOK
<1> QED BY <1>4, <1>6, <1>10, OnlyJobs

(* A claim grants a lease newer than all before it, or is refused: it never   *)
(* writes FAILED, since the policies let the daemon see no such row.          *)
LEMMA ClaimGranted ==
  ASSUME Inv, NEW w \in Workers, Claim(w), DispatcherMayWrite(Written(job[w].session))
  PROVE  LET s == job[w].session
         IN  /\ s \in Sessions /\ Selected(w, s) /\ ~Spent(s)
             /\ status' = [status EXCEPT ![s] = "VERIFYING"]
             /\ generation' = [generation EXCEPT ![s] = @ + 1]
             /\ attempts' = [attempts EXCEPT ![s] = @ + 1]
             /\ lapsed' = [lapsed EXCEPT ![s] = FALSE]
             /\ job' = [job EXCEPT ![w] = [job[w] EXCEPT !.step = "claimed", !.gen = @ + 1]]
             /\ UNCHANGED <<reason, content, overdue, result, snapshot, assetVars>>
<1>1. job[w] # None /\ job[w].step = "selected" /\ job[w].session \in Sessions
  BY DEF Inv, TypeOK, Claim, Job
<1>2. ~Spent(job[w].session)
  BY DEF DispatcherMayWrite, DispatcherSees, Written
<1>3. /\ Granted(job[w].session)
      /\ job' = [job EXCEPT ![w] = IF Spent(job[w].session) THEN None
                                    ELSE [job[w] EXCEPT !.step = "claimed", !.gen = @ + 1]]
      /\ UNCHANGED <<content, overdue, result, snapshot, assetVars>>
  BY DEF Claim
<1>4. /\ status' = [status EXCEPT ![job[w].session] = "VERIFYING"]
      /\ generation' = [generation EXCEPT ![job[w].session] = @ + 1]
      /\ attempts' = [attempts EXCEPT ![job[w].session] = @ + 1]
      /\ lapsed' = [lapsed EXCEPT ![job[w].session] = FALSE]
      /\ UNCHANGED reason
  BY <1>2, <1>3 DEF Granted, Written
<1>5. job' = [job EXCEPT ![w] = [job[w] EXCEPT !.step = "claimed", !.gen = @ + 1]]
  BY <1>2, <1>3
<1>6. Selected(w, job[w].session)
  BY <1>1 DEF Selected
<1> QED BY <1>1, <1>2, <1>3, <1>4, <1>5, <1>6

(* The job of a daemon with a new lease.                                      *)
LEMMA ClaimedJob ==
  ASSUME NEW j \in Job
  PROVE  LET k == [j EXCEPT !.step = "claimed", !.gen = @ + 1]
         IN  /\ k \in Job /\ k.step = "claimed" /\ k.gen = j.gen + 1
             /\ k.session = j.session /\ k.mapping = j.mapping
<1> DEFINE a == [j EXCEPT !.step = "claimed"]
           g == j.gen + 1
<1>1. a \in Job /\ a.step = "claimed" /\ a.gen = j.gen /\ a.session = j.session /\ a.mapping = j.mapping
  BY DEF Job
<1>2. g \in Nat
  BY DEF Job
<1> HIDE DEF a, g
<1>3. LET k == [a EXCEPT !.gen = g]
      IN  /\ k \in Job /\ k.step = a.step /\ k.gen = g
          /\ k.session = a.session /\ k.mapping = a.mapping
  BY <1>1, <1>2 DEF Job
<1> QED BY <1>1, <1>3 DEF a, g

(* A claim writes under the lock of its SELECT: its daemon is the only one with*)
(* the new generation, and the policies refuse it to write a FAILED.          *)
LEMMA Claims ==
  ASSUME Inv, NEW w \in Workers, Claim(w)
  PROVE  Inv'
<1>1. CASE ~DispatcherMayWrite(Written(job[w].session))
  <2>1. UNCHANGED <<sessionVars, assetVars>> /\ job' = [job EXCEPT ![w] = None]
    BY <1>1 DEF Claim, sessionVars
  <2>2. TypeOK'
    BY <1>1, <2>1 DEF Inv, TypeOK, Claim, sessionVars, content, lease, assetVars
  <2> QED BY <2>1, <2>2, JobsDropped, OnlyJobs
<1>2. CASE DispatcherMayWrite(Written(job[w].session))
  <2>1. PICK s \in Sessions : s = job[w].session
    BY <1>2, ClaimGranted
  <2> DEFINE j == [job[w] EXCEPT !.step = "claimed", !.gen = @ + 1]
  <2>2. /\ Selected(w, s) /\ ~Spent(s)
        /\ status' = [status EXCEPT ![s] = "VERIFYING"]
        /\ generation' = [generation EXCEPT ![s] = @ + 1]
        /\ attempts' = [attempts EXCEPT ![s] = @ + 1]
        /\ lapsed' = [lapsed EXCEPT ![s] = FALSE]
        /\ job' = [job EXCEPT ![w] = j]
        /\ UNCHANGED <<reason, content, overdue, result, snapshot, assetVars>>
    <3>1. LET q == job[w].session
          IN  /\ q \in Sessions /\ Selected(w, q) /\ ~Spent(q)
              /\ status' = [status EXCEPT ![q] = "VERIFYING"]
              /\ generation' = [generation EXCEPT ![q] = @ + 1]
              /\ attempts' = [attempts EXCEPT ![q] = @ + 1]
              /\ lapsed' = [lapsed EXCEPT ![q] = FALSE]
              /\ job' = [job EXCEPT ![w] = [job[w] EXCEPT !.step = "claimed", !.gen = @ + 1]]
              /\ UNCHANGED <<reason, content, overdue, result, snapshot, assetVars>>
      BY <1>2, ClaimGranted
    <3>2. job' = [job EXCEPT ![w] = j]
      BY <3>1 DEF Inv, TypeOK
    <3> HIDE DEF j
    <3> QED BY <2>1, <3>1, <3>2
  <2>3. /\ job[w] \in Job /\ job[w] # None /\ job[w].step = "selected" /\ DispatcherUpdates(s)
        /\ job[w].gen = generation[s] /\ job[w].mapping = mapping[s]
        /\ \A x \in Workers : Selected(x, s) => x = w
    BY <2>1, <2>2 DEF Selected, Inv, JobOK, TypeOK
  <2>4. /\ j \in Job /\ j.step = "claimed" /\ j.gen = generation[s] + 1
        /\ j.session = s /\ j.mapping = mapping[s]
    BY <2>1, <2>3, ClaimedJob
  <2> HIDE DEF j
  <2>5. job'[w] = j /\ \A x \in Workers \ {w} : job'[x] = job[x]
    BY <2>2 DEF Inv, TypeOK
  <2>6. /\ status'[s] = "VERIFYING" /\ generation'[s] = generation[s] + 1 /\ generation[s] \in Nat
        /\ \A q \in Sessions \ {s} : /\ status'[q] = status[q] /\ generation'[q] = generation[q]
                                      /\ lapsed'[q] = lapsed[q]
        /\ UNCHANGED <<target, raw, mapping>>
    BY <2>2 DEF Inv, TypeOK, content
  <2>7. TypeOK'
    <3>1. job' \in [Workers -> Job \union {None}]
      BY <2>2, <2>4 DEF Inv, TypeOK
    <3>2. status' \in [Sessions -> Status]
      BY <2>2 DEF Inv, TypeOK, Status
    <3>3. /\ generation' \in [Sessions -> Nat] /\ lapsed' \in [Sessions -> BOOLEAN]
          /\ beating' \in [Workers -> BOOLEAN]
      BY <2>2 DEF Inv, TypeOK, Claim
    <3>4. attempts' \in [Sessions -> 0 .. MaxAttempts]
      <4>1. attempts[s] \in 0 .. MaxAttempts /\ attempts[s] # MaxAttempts /\ MaxAttempts \in Nat
        BY <2>2, ImportAssumption DEF Inv, TypeOK, Spent
      <4>2. attempts[s] + 1 \in 0 .. MaxAttempts
        BY <4>1
      <4> QED BY <2>2, <4>2 DEF Inv, TypeOK
    <3> QED BY <2>2, <3>1, <3>2, <3>3, <3>4 DEF Inv, TypeOK, content, assetVars
  <2>8. ASSUME NEW q \in Sessions
        PROVE  SessionOK(q)'
    <3>1. SessionOK(q)
      BY DEF Inv
    <3>2. result' = result
      BY <2>2
    <3>3. CASE q = s
      <4>1. status[q] \in {"STAGED", "VERIFYING"}
        BY <2>3, <3>3 DEF DispatcherUpdates
      <4> QED BY <2>6, <3>1, <3>3, <4>1 DEF SessionOK
    <3>4. CASE q # s
      BY <2>6, <3>1, <3>2, <3>4 DEF SessionOK
    <3> QED BY <3>3, <3>4
  <2>9. /\ \A q \in Sessions : RegisterOK(q)'
        /\ \A b \in Assets : AssetOK(b)'
        /\ RegisteredIsVerified'
    <3>1. register[s] = "no" /\ status[s] \in {"STAGED", "VERIFYING"}
      BY <2>3 DEF Inv, RegisterOK, DispatcherUpdates
    <3> QED BY <2>2, <2>6, <3>1, AssetsStay
  <2>10. ASSUME NEW x \in Workers, job'[x] # None
         PROVE  JobOK(x)'
    <3>1. CASE x = w
      BY <2>4, <2>5, <2>6, <3>1 DEF JobOK
    <3>2. CASE x # w
      <4>1. job'[x] = job[x] /\ job[x].session \in Sessions /\ job[x].gen \in Nat
        BY <2>5, <2>10, <3>2 DEF Inv, TypeOK, Job
      <4>2. \A y \in Workers, q \in Sessions : Selected(y, q)' => Selected(y, q)
        BY <2>4, <2>5 DEF Selected
      <4>3. CASE job[x].session = s
        <5>1. job[x].step # "selected"
          BY <2>3, <2>10, <3>2, <4>1, <4>3 DEF Selected
        <5>2. job[x].gen <= generation[s]
          BY <2>10, <4>1, <4>3 DEF Inv, JobOK
        <5> QED BY <2>6, <4>1, <4>3, <5>1, <5>2 DEF JobOK, Owns
      <4>4. CASE job[x].session # s
        BY <2>6, <2>10, <4>1, <4>2, <4>4 DEF Inv, JobOK, Owns, DispatcherUpdates
      <4> QED BY <4>3, <4>4
    <3> QED BY <3>1, <3>2
  <2>11. \A x \in Workers : JobOK(x)'
    BY <2>10 DEF JobOK
  <2> QED BY <2>7, <2>8, <2>9, <2>11 DEF Inv
<1> QED BY <1>1, <1>2

(* What an inspection decides is of the session's last lease.                 *)
LEMMA Finishes ==
  ASSUME Inv, NEW w \in Workers, NEW o \in Outcome, Finish(w, o[1], o[2])
  PROVE  Inv'
<1>1. PICK s \in Sessions : s = job[w].session
  BY DEF Inv, TypeOK, Finish, Job
<1>2. /\ job[w] \in Job /\ job[w] # None /\ job[w].step = "inspecting" /\ ~RowLocked(s)
      /\ job' = [job EXCEPT ![w] = None] /\ beating' = [beating EXCEPT ![w] = FALSE]
      /\ UNCHANGED <<content, lease, overdue, snapshot, assetVars>>
  BY <1>1 DEF Inv, TypeOK, Finish
<1>3. CASE ~Holds(w)
  <2>1. UNCHANGED sessionVars
    BY <1>2, <1>3 DEF Finish, sessionVars
  <2>2. TypeOK'
    BY <1>2, <2>1 DEF Inv, TypeOK, sessionVars, content, lease, assetVars
  <2> QED BY <1>2, <2>1, <2>2, JobsDropped, OnlyJobs
<1>4. CASE Holds(w)
  <2>1. /\ status[s] = "VERIFYING" /\ generation[s] = job[w].gen /\ job[w].mapping = mapping[s]
    BY <1>1, <1>2, <1>4 DEF Holds, Owns, Inv, JobOK
  <2>2. /\ status' = [status EXCEPT ![s] = o[1]] /\ reason' = [reason EXCEPT ![s] = o[2]]
        /\ o[1] \in {"VERIFIED", "REJECTED", "FAILED"} /\ o[2] \in Reason \union {None}
        /\ IF o[1] = "VERIFIED"
           THEN result' = [result EXCEPT ![s] = [gen |-> generation[s], mapping |-> mapping[s]]]
           ELSE result' = result
    BY <1>1, <1>4, <2>1 DEF Finish, Become, Outcome, Reason
  <2>3. [gen |-> generation[s], mapping |-> mapping[s]] \in Inspection
    BY DEF Inv, TypeOK, Inspection
  <2>4. TypeOK'
    <3>1. status' \in [Sessions -> Status] /\ reason' \in [Sessions -> Reason \union {None}]
      BY <2>2 DEF Inv, TypeOK, Status
    <3>2. result' \in [Sessions -> Inspection \union {None}]
      BY <2>2, <2>3 DEF Inv, TypeOK
    <3> QED BY <1>2, <3>1, <3>2 DEF Inv, TypeOK, content, lease, assetVars
  <2>5. /\ status'[s] = o[1] /\ (o[1] = "VERIFIED" =>
             result'[s] = [gen |-> generation[s], mapping |-> mapping[s]])
        /\ \A q \in Sessions \ {s} : status'[q] = status[q] /\ result'[q] = result[q]
        /\ UNCHANGED <<target, raw, mapping, generation, lapsed>>
    BY <1>2, <2>2 DEF Inv, TypeOK, content, lease
  <2>6. \A q \in Sessions : SessionOK(q)'
    BY <2>1, <2>2, <2>5 DEF Inv, SessionOK
  <2>7. /\ \A q \in Sessions : RegisterOK(q)'
        /\ \A b \in Assets : AssetOK(b)'
        /\ RegisteredIsVerified'
    <3>1. register[s] = "no"
      BY <1>2, Unlocked
    <3> QED BY <1>2, <2>1, <2>2, <2>5, <3>1, AssetsStay
  <2>8. ASSUME NEW x \in Workers, x # w, job[x] # None
        PROVE  JobOK(x)'
    <3>1. job'[x] = job[x] /\ job'[w] = None /\ job[x].session \in Sessions
      BY <1>2, <2>8 DEF Inv, TypeOK, Job
    <3>2. \A y \in Workers, q \in Sessions : Selected(y, q)' => Selected(y, q)
      BY <1>2, <3>1 DEF Inv, TypeOK, Selected
    <3>3. job[x].session = s => job[x].step # "selected"
      BY <1>2, <2>8, Unlocked DEF Selected
    <3>4. status'[s] # "VERIFYING"
      BY <2>2, <2>5
    <3> QED BY <2>5, <2>8, <3>1, <3>2, <3>3, <3>4 DEF Inv, JobOK, Owns, DispatcherUpdates
  <2>9. \A x \in Workers : JobOK(x)'
    <3>1. \A x \in Workers : job'[x] # None => x # w /\ job[x] # None
      BY <1>2 DEF Inv, TypeOK
    <3> QED BY <2>8, <3>1 DEF JobOK
  <2> QED BY <2>4, <2>6, <2>7, <2>9 DEF Inv
<1> QED BY <1>3, <1>4

----------------------------------------------------------------------------
(* Registrations *)

(* A row that is locked by nobody is locked by no session.                    *)
LEMMA NoneIsNoSession == \A s \in Sessions : s # None
  BY ImportAssumption

(* MAX(version_number) of versions without gaps is their number.              *)
LEMMA LatestIsCount ==
  ASSUME Inv, NEW a \in Assets
  PROVE  Latest(a) = count[a]
<1> DEFINE N == {v.number : v \in versions[a]}
<1>1. N = 1 .. count[a] /\ count[a] \in Nat
  BY DEF Inv, AssetOK, TypeOK
<1>2. Latest(a) = CHOOSE n \in {0} \union N : \A m \in N : m <= n
  <2>1. \A n : (\A v \in versions[a] : v.number <= n) <=> (\A m \in N : m <= n)
    OBVIOUS
  <2> QED BY <2>1 DEF Latest
<1> HIDE DEF N
<1>3. count[a] \in {0} \union N /\ \A m \in N : m <= count[a]
  BY <1>1
<1>4. \A n \in {0} \union N : (\A m \in N : m <= n) => n = count[a]
  BY <1>1
<1> QED BY <1>2, <1>3, <1>4

(* A transaction that ends leaves the others theirs.                          *)
LEMMA ReleaseFacts ==
  ASSUME Inv, NEW s \in Sessions, Release(s)
  PROVE  /\ register' \in [Sessions -> {"no", "begun", "locked", "read"}]
         /\ number' \in [Sessions -> Nat] /\ assetLock' \in [Assets -> Sessions \union {None}]
         /\ register'[s] = "no"
         /\ \A o \in Sessions \ {s} : /\ register'[o] = register[o] /\ number'[o] = number[o]
                                       /\ \A a \in Assets : assetLock[a] = o => assetLock'[a] = o
  BY DEF Inv, TypeOK, Release

(* Where only registrations move, the rest of the invariant stays.            *)
LEMMA OnlyRegistrations ==
  ASSUME Inv, UNCHANGED <<sessionVars, daemonVars, versions, count, current>>,
         exists' \in [Assets -> BOOLEAN], assetLock' \in [Assets -> Sessions \union {None}],
         register' \in [Sessions -> {"no", "begun", "locked", "read"}],
         number' \in [Sessions -> Nat], \A o \in Sessions : RegisterOK(o)'
  PROVE  Inv'
<1>1. UNCHANGED <<status, target, raw, mapping, generation, lapsed, result, snapshot, job>>
  BY DEF sessionVars, daemonVars, content, lease
<1>2. TypeOK'
  BY DEF Inv, TypeOK, sessionVars, daemonVars, content, lease
<1>3. (\A o \in Sessions : SessionOK(o)') /\ \A w \in Workers : JobOK(w)'
  BY <1>1, ImportsStay
<1>4. \A a \in Assets : AssetOK(a)'
  BY DEF Inv, AssetOK
<1>5. RegisteredIsVerified'
  BY <1>1 DEF Inv, RegisteredIsVerified
<1> QED BY <1>2, <1>3, <1>4, <1>5 DEF Inv

(* The registrations of other sessions than s, with what they have read of    *)
(* their assets, when s lets go of its own.                                   *)
LEMMA OthersRegister ==
  ASSUME Inv, NEW s \in Sessions, Release(s), UNCHANGED <<target, raw>>,
         NEW o \in Sessions \ {s}, status'[o] = status[o],
         register[o] = "read" =>
           versions'[target[o].asset] = versions[target[o].asset]
           /\ count'[target[o].asset] = count[target[o].asset]
  PROVE  RegisterOK(o)'
<1>1. register'[o] = register[o] /\ number'[o] = number[o]
      /\ \A a \in Assets : assetLock[a] = o => assetLock'[a] = o
  BY ReleaseFacts
<1>2. register[o] # "no" => target[o].asset \in Assets
  BY DEF Inv, RegisterOK, SessionOK
<1>3. register[o] \in {"locked", "read"} => assetLock'[target[o].asset] = o
  BY <1>1, <1>2 DEF Inv, RegisterOK
<1>4. register[o] = "read" => SameRaw(o)' = {} /\ number'[o] = count'[target[o].asset] + 1
  BY <1>1 DEF Inv, RegisterOK, SameRaw
<1>5. register[o] # "no" => status'[o] = "VERIFIED"
  BY DEF Inv, RegisterOK
<1> QED BY <1>1, <1>3, <1>4, <1>5 DEF RegisterOK

(* A registration that rolls back gives its locks back and wrote nothing.     *)
LEMMA RollsBack ==
  ASSUME Inv, NEW s \in Sessions, RollBack(s), UNCHANGED daemonVars
  PROVE  Inv'
<1>1. Release(s) /\ UNCHANGED <<sessionVars, versions, count, current, exists>>
  BY DEF RollBack
<1>2. UNCHANGED <<status, target, raw>>
  BY <1>1 DEF sessionVars, content
<1>3. ASSUME NEW o \in Sessions
      PROVE  RegisterOK(o)'
  <2>1. CASE o = s
    BY <1>1, <2>1, ReleaseFacts DEF RegisterOK
  <2>2. CASE o # s
    BY <1>1, <1>2, <2>2, OthersRegister
  <2> QED BY <2>1, <2>2
<1>4. exists' \in [Assets -> BOOLEAN]
  BY <1>1 DEF Inv, TypeOK
<1> QED BY <1>1, <1>3, <1>4, ReleaseFacts, OnlyRegistrations

(* A registration begins with a session that is verified, and locks its row.  *)
LEMMA RegistersBegin ==
  ASSUME Inv, NEW s \in Sessions, RegisterBegin(s)
  PROVE  Inv'
<1>1. /\ status[s] = "VERIFIED" /\ register' = [register EXCEPT ![s] = "begun"]
      /\ UNCHANGED <<sessionVars, daemonVars, versions, count, current, exists, assetLock, number>>
      /\ UNCHANGED <<status, target, raw>>
  BY DEF RegisterBegin, sessionVars, content
<1>2. \A o \in Sessions : RegisterOK(o)'
  BY <1>1 DEF Inv, TypeOK, RegisterOK, SameRaw
<1>3. /\ exists' \in [Assets -> BOOLEAN] /\ assetLock' \in [Assets -> Sessions \union {None}]
      /\ register' \in [Sessions -> {"no", "begun", "locked", "read"}]
      /\ number' \in [Sessions -> Nat]
  BY <1>1 DEF Inv, TypeOK
<1> QED BY <1>1, <1>2, <1>3, OnlyRegistrations

(* An asset is created without versions.                                      *)
LEMMA CreatesAsset ==
  ASSUME Inv, NEW a \in Assets, CreateAsset(a)
  PROVE  Inv'
<1>1. /\ exists' = [exists EXCEPT ![a] = TRUE]
      /\ UNCHANGED <<sessionVars, daemonVars, versions, count, current, assetLock, register, number>>
      /\ UNCHANGED <<status, target, raw>>
  BY DEF CreateAsset, sessionVars, content
<1>2. \A o \in Sessions : RegisterOK(o)'
  BY <1>1 DEF Inv, RegisterOK, SameRaw
<1>3. /\ exists' \in [Assets -> BOOLEAN] /\ assetLock' \in [Assets -> Sessions \union {None}]
      /\ register' \in [Sessions -> {"no", "begun", "locked", "read"}]
      /\ number' \in [Sessions -> Nat]
  BY <1>1 DEF Inv, TypeOK
<1> QED BY <1>1, <1>2, <1>3, OnlyRegistrations

(* The row of the asset is taken by one registration at a time.               *)
LEMMA RegistersAsset ==
  ASSUME Inv, NEW s \in Sessions, RegisterAsset(s)
  PROVE  Inv'
<1> DEFINE a == target[s].asset
<1>1. register[s] = "begun" /\ assetLock[a] = None /\ UNCHANGED daemonVars
  BY DEF RegisterAsset
<1>2. CASE target[s].new /\ exists[a]
  BY <1>1, <1>2, RollsBack DEF RegisterAsset
<1>3. CASE ~(target[s].new /\ exists[a])
  <2>1. /\ assetLock' = [assetLock EXCEPT ![a] = s]
        /\ register' = [register EXCEPT ![s] = "locked"]
        /\ UNCHANGED <<sessionVars, versions, count, current, exists, number>>
        /\ UNCHANGED <<status, target, raw>>
    BY <1>3 DEF RegisterAsset, sessionVars, content
  <2>2. status[s] = "VERIFIED" /\ a \in Assets
    BY <1>1 DEF Inv, RegisterOK, SessionOK
  <2>3. ASSUME NEW o \in Sessions
        PROVE  RegisterOK(o)'
    <3>1. CASE o = s
      BY <2>1, <2>2, <3>1 DEF Inv, TypeOK, RegisterOK
    <3>2. CASE o # s
      <4>1. register'[o] = register[o] /\ status'[o] = status[o] /\ number'[o] = number[o]
        BY <2>1, <3>2 DEF Inv, TypeOK
      <4>2. register[o] \in {"locked", "read"} => assetLock'[target[o].asset] = o
        BY <1>1, <2>1, NoneIsNoSession DEF Inv, TypeOK, RegisterOK
      <4> QED BY <2>1, <4>1, <4>2 DEF Inv, RegisterOK, SameRaw
    <3> QED BY <3>1, <3>2
  <2>4. /\ exists' \in [Assets -> BOOLEAN] /\ assetLock' \in [Assets -> Sessions \union {None}]
        /\ register' \in [Sessions -> {"no", "begun", "locked", "read"}]
        /\ number' \in [Sessions -> Nat]
    BY <2>1 DEF Inv, TypeOK
  <2> QED BY <1>1, <2>1, <2>3, <2>4, OnlyRegistrations
<1> QED BY <1>2, <1>3

(* A registration commits: the session is REGISTERED, as a version that the   *)
(* asset has from now on, and nothing else in the imports changes.            *)
LEMMA Registered ==
  ASSUME Inv, NEW s \in Sessions, status[s] = "VERIFIED", Release(s),
         status' = [status EXCEPT ![s] = "REGISTERED"],
         NEW n \in Nat, snapshot' = [snapshot EXCEPT ![s] = n],
         UNCHANGED <<reason, content, lease, overdue, result, daemonVars>>,
         \A a \in Assets : /\ versions[a] \subseteq versions'[a]
                           /\ a # target[s].asset =>
                                versions'[a] = versions[a] /\ count'[a] = count[a],
         \/ UNCHANGED <<versions, count>> \/ assetLock[target[s].asset] = s,
         [number |-> n, raw |-> raw[s], mapping |-> mapping[s]] \in versions'[target[s].asset]
  PROVE  /\ \A o \in Sessions : SessionOK(o)' /\ RegisterOK(o)'
         /\ \A w \in Workers : JobOK(w)'
         /\ RegisteredIsVerified'
         /\ status' \in [Sessions -> Status] /\ snapshot' \in [Sessions -> Nat]
<1>1. /\ UNCHANGED <<job, target, raw, mapping, generation, lapsed, result>>
      /\ status'[s] = "REGISTERED" /\ snapshot'[s] = n
      /\ \A o \in Sessions \ {s} : status'[o] = status[o] /\ snapshot'[o] = snapshot[o]
  BY DEF Inv, TypeOK, content, lease, daemonVars
<1>2. (\A o \in Sessions : SessionOK(o)') /\ \A w \in Workers : JobOK(w)'
  BY <1>1, ImportsStay
<1>3. ASSUME NEW o \in Sessions
      PROVE  RegisterOK(o)'
  <2>1. CASE o = s
    BY <2>1, ReleaseFacts DEF RegisterOK
  <2>2. CASE o # s
    <3>1. register[o] = "read" =>
            versions'[target[o].asset] = versions[target[o].asset]
            /\ count'[target[o].asset] = count[target[o].asset]
      <4>1. SUFFICES ASSUME register[o] = "read"
                     PROVE  versions'[target[o].asset] = versions[target[o].asset]
                            /\ count'[target[o].asset] = count[target[o].asset]
        OBVIOUS
      <4>2. target[o].asset \in Assets /\ assetLock[target[o].asset] = o
        BY <4>1 DEF Inv, RegisterOK, SessionOK
      <4> QED BY <2>2, <4>2
    <3> QED BY <1>1, <2>2, <3>1, OthersRegister
  <2> QED BY <2>1, <2>2
<1>4. RegisteredIsVerified'
  <2> SUFFICES ASSUME NEW o \in Sessions, status'[o] = "REGISTERED"
               PROVE  [number |-> snapshot'[o], raw |-> raw[o], mapping |-> mapping[o]]
                        \in versions'[target[o].asset]
    BY <1>1 DEF RegisteredIsVerified
  <2>1. CASE o = s
    BY <1>1, <2>1
  <2>2. CASE o # s
    <3>1. status[o] = "REGISTERED" /\ snapshot'[o] = snapshot[o] /\ target[o].asset \in Assets
      BY <1>1, <2>2 DEF Inv, SessionOK
    <3> QED BY <3>1 DEF Inv, RegisteredIsVerified
  <2> QED BY <2>1, <2>2
<1>5. status' \in [Sessions -> Status] /\ snapshot' \in [Sessions -> Nat]
  BY DEF Inv, TypeOK, Status
<1> QED BY <1>2, <1>3, <1>4, <1>5

(* What a registration reads stays true until it writes: a new number, an     *)
(* older snapshot of the same content and form, or neither.                   *)
LEMMA RegistersRead ==
  ASSUME Inv, NEW s \in Sessions, RegisterRead(s)
  PROVE  Inv'
<1> DEFINE a == target[s].asset
<1>1. /\ register[s] = "locked" /\ status[s] = "VERIFIED" /\ a \in Assets
      /\ result[s] = [gen |-> generation[s], mapping |-> mapping[s]] /\ assetLock[a] = s
      /\ UNCHANGED <<reason, content, lease, overdue, result, daemonVars, versions, count, current>>
      /\ UNCHANGED <<target, raw, mapping>>
  BY DEF Inv, RegisterRead, RegisterOK, SessionOK, content
<1>2. CASE SameRaw(s) = {}
  <2>1. /\ register' = [register EXCEPT ![s] = "read"]
        /\ number' = [number EXCEPT ![s] = count[a] + 1] /\ count[a] \in Nat
        /\ UNCHANGED <<status, snapshot, exists, assetLock>>
    BY <1>1, <1>2, LatestIsCount DEF RegisterRead, Inv, TypeOK
  <2>2. ASSUME NEW o \in Sessions
        PROVE  RegisterOK(o)'
    <3>1. SameRaw(o)' = SameRaw(o)
      BY <1>1 DEF SameRaw
    <3> QED BY <1>1, <1>2, <2>1, <3>1 DEF Inv, TypeOK, RegisterOK
  <2>3. /\ exists' \in [Assets -> BOOLEAN] /\ assetLock' \in [Assets -> Sessions \union {None}]
        /\ register' \in [Sessions -> {"no", "begun", "locked", "read"}]
        /\ number' \in [Sessions -> Nat]
    BY <2>1 DEF Inv, TypeOK
  <2>4. UNCHANGED <<sessionVars, daemonVars, versions, count, current>>
    BY <1>1, <2>1 DEF sessionVars
  <2> QED BY <2>2, <2>3, <2>4, OnlyRegistrations
<1>3. CASE SameRaw(s) # {} /\ Reusable(s) = {}
  <2>1. Release(s) /\ UNCHANGED <<status, snapshot, exists>>
    BY <1>3 DEF RegisterRead
  <2> QED BY <1>1, <2>1, RollsBack DEF RollBack, sessionVars
<1>4. CASE SameRaw(s) # {} /\ Reusable(s) # {}
  <2>1. PICK v \in Reusable(s) : snapshot' = [snapshot EXCEPT ![s] = v.number]
    BY <1>4 DEF RegisterRead
  <2>2. /\ Release(s) /\ status' = [status EXCEPT ![s] = "REGISTERED"]
        /\ exists' = [exists EXCEPT ![a] = TRUE]
    BY <1>4 DEF RegisterRead
  <2>3. v \in versions[a] /\ v \in Version /\ v.raw = raw[s] /\ v.mapping = mapping[s]
    BY <1>1 DEF Reusable, SameRaw, Inv, TypeOK
  <2>4. v.number \in Nat /\ [number |-> v.number, raw |-> raw[s], mapping |-> mapping[s]] = v
    BY <2>3 DEF Version
  <2>5. /\ \A o \in Sessions : SessionOK(o)' /\ RegisterOK(o)'
        /\ \A w \in Workers : JobOK(w)'
        /\ RegisteredIsVerified'
        /\ status' \in [Sessions -> Status] /\ snapshot' \in [Sessions -> Nat]
    <3> DEFINE n == v.number
    <3>1. /\ n \in Nat /\ snapshot' = [snapshot EXCEPT ![s] = n]
          /\ [number |-> n, raw |-> raw[s], mapping |-> mapping[s]] \in versions'[a]
      BY <1>1, <2>1, <2>3, <2>4
    <3> HIDE DEF n
    <3> QED BY <1>1, <2>2, <3>1, Registered
  <2>6. \A b \in Assets : AssetOK(b)'
    BY <1>1 DEF Inv, AssetOK
  <2>7. exists' \in [Assets -> BOOLEAN]
    BY <2>2 DEF Inv, TypeOK
  <2>8. TypeOK'
    BY <1>1, <2>2, <2>5, <2>7, ReleaseFacts DEF Inv, TypeOK, content, lease, daemonVars
  <2> QED BY <2>5, <2>6, <2>8 DEF Inv
<1> QED BY <1>2, <1>3, <1>4

(* The version that is inserted has the next number and a new content, so     *)
(* that the asset's versions stay without gaps and its counter exact.         *)
LEMMA RegistersWrite ==
  ASSUME Inv, NEW s \in Sessions, RegisterWrite(s)
  PROVE  Inv'
<1> DEFINE a == target[s].asset
           v == [number |-> number[s], raw |-> raw[s], mapping |-> mapping[s]]
<1>1. /\ register[s] = "read" /\ status[s] = "VERIFIED" /\ a \in Assets /\ raw[s] \in Raws
      /\ result[s] = [gen |-> generation[s], mapping |-> mapping[s]] /\ assetLock[a] = s
      /\ SameRaw(s) = {} /\ number[s] = count[a] + 1 /\ count[a] \in Nat
      /\ UNCHANGED <<reason, content, lease, overdue, result, daemonVars>>
      /\ UNCHANGED <<target, raw, mapping>>
  BY DEF Inv, TypeOK, RegisterWrite, RegisterOK, SessionOK, content
<1>2. /\ versions' = [versions EXCEPT ![a] = @ \union {v}]
      /\ count' = [count EXCEPT ![a] = @ + 1] /\ current' = [current EXCEPT ![a] = number[s]]
      /\ exists' = [exists EXCEPT ![a] = TRUE]
      /\ status' = [status EXCEPT ![s] = "REGISTERED"]
      /\ snapshot' = [snapshot EXCEPT ![s] = number[s]] /\ Release(s)
  BY <1>1 DEF RegisterWrite
<1>3. v \in Version /\ v.number = count[a] + 1 /\ v.raw = raw[s]
  BY <1>1 DEF Version, Inv, TypeOK
<1>4. \A u \in versions[a] : u.raw # raw[s]
  BY <1>1 DEF SameRaw
<1>5. /\ \A o \in Sessions : SessionOK(o)' /\ RegisterOK(o)'
      /\ \A w \in Workers : JobOK(w)'
      /\ RegisteredIsVerified'
      /\ status' \in [Sessions -> Status] /\ snapshot' \in [Sessions -> Nat]
  <2>1. PICK n \in Nat : n = number[s]
    BY DEF Inv, TypeOK
  <2>2. /\ snapshot' = [snapshot EXCEPT ![s] = n]
        /\ [number |-> n, raw |-> raw[s], mapping |-> mapping[s]] \in versions'[a]
    BY <1>1, <1>2, <2>1 DEF Inv, TypeOK
  <2>3. \A b \in Assets : /\ versions[b] \subseteq versions'[b]
                          /\ b # a => versions'[b] = versions[b] /\ count'[b] = count[b]
    BY <1>1, <1>2 DEF Inv, TypeOK
  <2> HIDE DEF v
  <2> QED BY <1>1, <1>2, <2>2, <2>3, Registered
<1> HIDE DEF v
<1>6. TypeOK'
  <2>1. versions' \in [Assets -> SUBSET Version]
    BY <1>1, <1>2, <1>3 DEF Inv, TypeOK
  <2>2. count' \in [Assets -> Nat] /\ current' \in [Assets -> Nat] /\ exists' \in [Assets -> BOOLEAN]
    BY <1>1, <1>2 DEF Inv, TypeOK
  <2> QED BY <1>1, <1>2, <1>5, <2>1, <2>2, ReleaseFacts DEF Inv, TypeOK, content, lease, daemonVars
<1>7. AssetOK(a)'
  <2> DEFINE V == versions[a]
             R == {u.raw : u \in V}
             N == {u.number : u \in V}
  <2>1. /\ IsFiniteSet(V) /\ Cardinality(V) = count[a] /\ IsFiniteSet(R) /\ Cardinality(R) = count[a]
        /\ N = 1 .. count[a]
    BY <1>1 DEF Inv, AssetOK
  <2>2. versions'[a] = V \union {v} /\ count'[a] = count[a] + 1 /\ current'[a] = count[a] + 1
    BY <1>1, <1>2 DEF Inv, TypeOK
  <2>3. v \notin V /\ raw[s] \notin R
    BY <1>3, <1>4
  <2>4. {u.raw : u \in V \union {v}} = R \union {raw[s]}
    BY <1>3
  <2>5. {u.number : u \in V \union {v}} = 1 .. (count[a] + 1)
    <3>1. {u.number : u \in V \union {v}} = N \union {count[a] + 1}
      BY <1>3
    <3> HIDE DEF N
    <3> QED BY <1>1, <2>1, <3>1
  <2> HIDE DEF V, R
  <2>6. IsFiniteSet(V \union {v}) /\ Cardinality(V \union {v}) = count[a] + 1
    BY <2>1, <2>3, FS_AddElement
  <2>7. IsFiniteSet(R \union {raw[s]}) /\ Cardinality(R \union {raw[s]}) = count[a] + 1
    BY <2>1, <2>3, FS_AddElement
  <2>8. a' = a
    BY <1>1
  <2> QED BY <2>2, <2>4, <2>5, <2>6, <2>7, <2>8 DEF AssetOK
<1>8. \A b \in Assets \ {a} : AssetOK(b)'
  BY <1>2 DEF Inv, TypeOK, AssetOK
<1>9. \A b \in Assets : AssetOK(b)'
  <2>1. a' = a
    BY <1>1
  <2> QED BY <1>7, <1>8, <2>1
<1> QED BY <1>5, <1>6, <1>9 DEF Inv

----------------------------------------------------------------------------
(* Every behaviour *)

(* There are no sessions, versions or locks at first.                         *)
LEMMA Initially ==
  ASSUME Init
  PROVE  Inv
<1>1. TypeOK
  <2>1. (CHOOSE m \in Mappings : TRUE) \in Mappings /\ 0 \in 0 .. MaxAttempts
    BY ImportAssumption
  <2> QED BY <2>1 DEF Init, TypeOK, Status
<1>2. \A s \in Sessions : SessionOK(s) /\ RegisterOK(s)
  BY DEF Init, SessionOK, RegisterOK
<1>3. \A w \in Workers : JobOK(w)
  BY DEF Init, JobOK
<1>4. ASSUME NEW a \in Assets
      PROVE  AssetOK(a)
  <2>1. /\ versions[a] = {} /\ count[a] = 0 /\ current[a] = 0
        /\ {v.raw : v \in versions[a]} = {} /\ {v.number : v \in versions[a]} = {}
    BY DEF Init
  <2> QED BY <2>1, FS_EmptySet DEF AssetOK
<1>5. RegisteredIsVerified
  BY DEF Init, RegisteredIsVerified
<1> QED BY <1>1, <1>2, <1>3, <1>4, <1>5 DEF Inv

(* Every step keeps the invariant.                                            *)
LEMMA Inductive ==
  ASSUME Inv, [Next]_vars
  PROVE  Inv'
<1>1. ASSUME NEW s \in Sessions, NEW a \in Assets, NEW new \in BOOLEAN,
             NEW object \in Raws \union {None}, Create(s, a, new, object)
      PROVE  Inv'
  BY <1>1, Creates
<1>2. ASSUME NEW s \in Sessions, NEW object \in Raws, Stage(s, object)
      PROVE  Inv'
  BY <1>2, Stages
<1>3. ASSUME NEW s \in Sessions, NEW m \in Mappings, Configure(s, m)
      PROVE  Inv'
  BY <1>3, Configures
<1>4. ASSUME NEW s \in Sessions,
             Abort(s) \/ Overdue(s) \/ Lapse(s) \/ Registering(s) \/ RegisterFails(s)
      PROVE  Inv'
  BY <1>4, Aborts, TimePasses, RegistersBegin, RegistersAsset, RegistersRead, RegistersWrite,
     RollsBack DEF Registering, RegisterFails
<1>5. ASSUME NEW w \in Workers, Main(w) \/ Beat(w) \/ Drop(w)
      PROVE  Inv'
  BY <1>5, Selects, Claims, Begins, Finishes, Beats, Drops DEF Main
<1>6. ASSUME NEW a \in Assets, CreateAsset(a)
      PROVE  Inv'
  BY <1>6, CreatesAsset
<1>7. CASE UNCHANGED vars
  <2>1. UNCHANGED <<sessionVars, job, beating, assetVars>>
    BY <1>7 DEF vars, daemonVars
  <2>2. TypeOK'
    BY <2>1 DEF Inv, TypeOK, sessionVars, content, lease, assetVars
  <2>3. \A x \in Workers : JobOK(x)'
    BY <2>1 DEF Inv, JobOK, Owns, Selected, DispatcherUpdates, sessionVars, content, lease
  <2> QED BY <2>1, <2>2, <2>3, OnlyJobs
<1>8. CASE Next
  BY <1>8, <1>1, <1>2, <1>3, <1>4, <1>5, <1>6 DEF Next
<1> QED BY <1>7, <1>8

(* The invariant holds in every state.                                        *)
THEOREM Invariance == Spec => []Inv
<1>1. Init => Inv
  BY Initially
<1>2. Inv /\ [Next]_vars => Inv'
  BY Inductive
<1> QED BY <1>1, <1>2, PTL DEF Spec

(* Sessions, jobs, assets and their locks keep to their types.                *)
THEOREM TypeCorrect == Spec => []TypeOK
<1>1. Inv => TypeOK
  BY DEF Inv
<1> QED BY <1>1, Invariance, PTL

(* A verified import shows what its last lease computed from the mapping now  *)
(* in force, for any number of daemons, leases and reconfigurations.          *)
THEOREM LastAttemptShows == Spec => []VerifiedIsOfLastAttempt
<1>1. Inv => VerifiedIsOfLastAttempt
  BY DEF Inv, SessionOK, VerifiedIsOfLastAttempt
<1> QED BY <1>1, Invariance, PTL

(* A registered import has the snapshot that holds its content in its form.   *)
THEOREM SnapshotHoldsImport == Spec => []RegisteredIsVerified
<1>1. Inv => RegisteredIsVerified
  BY DEF Inv
<1> QED BY <1>1, Invariance, PTL

(* However many registrations of an asset race, its versions have no gap and  *)
(* no duplicate, and its counter and current snapshot are exact.              *)
THEOREM VersionsStayDense == Spec => []VersionsAreDense
<1>1. Inv => VersionsAreDense
  BY DEF Inv, AssetOK, VersionsAreDense
<1> QED BY <1>1, Invariance, PTL

(* The row lock of the asset keeps registrations from its unique indexes.     *)
THEOREM NoCollision == Spec => []RegistrationNeverCollides
<1>1. ASSUME Inv
      PROVE  RegistrationNeverCollides
  <2> SUFFICES ASSUME NEW s \in Sessions, register[s] = "read", NEW v \in versions[target[s].asset]
               PROVE  v.number # number[s] /\ v.raw # raw[s]
    BY DEF RegistrationNeverCollides, Collides
  <2>1. /\ target[s].asset \in Assets /\ SameRaw(s) = {}
        /\ number[s] = count[target[s].asset] + 1 /\ count[target[s].asset] \in Nat
    BY <1>1 DEF Inv, TypeOK, RegisterOK, SessionOK
  <2>2. v.number \in 1 .. count[target[s].asset]
    BY <1>1, <2>1 DEF Inv, AssetOK
  <2>3. v.raw # raw[s]
    BY <2>1 DEF SameRaw
  <2> QED BY <2>1, <2>2, <2>3
<1> QED BY <1>1, Invariance, PTL

----------------------------------------------------------------------------
(* Decisions *)

(* Whether s is taken from VERIFYING to an end.                               *)
Decided(s) == status[s] = "VERIFYING" /\ status'[s] \in {"VERIFIED", "REJECTED", "FAILED"}

(* The daemon w ends an inspection of s in its latest lease, begun in time    *)
(* and given the mapping in force.                                            *)
Decides(w, s) ==
  /\ job[w] # None /\ job[w].session = s /\ job'[w] = None
  /\ job[w].step = "inspecting" /\ job[w].live
  /\ job[w].gen = generation[s] /\ job[w].mapping = mapping[s]

(* Neither a client nor a claim decides an import; an inspection does, and    *)
(* only in the latest lease, before it ran out.                               *)
LEMMA FinishDecides ==
  ASSUME Inv, [Next]_vars, NEW s \in Sessions, Decided(s)
  PROVE  \E w \in Workers : Decides(w, s)
<1>1. ASSUME NEW q \in Sessions, Registering(q) \/ RegisterFails(q)
      PROVE  status'[s] \in {status[s], "REGISTERED"}
  BY <1>1 DEF Inv, TypeOK, Registering, RegisterFails, RegisterBegin, RegisterAsset, RegisterRead,
              RegisterWrite, RollBack, sessionVars
<1>2. ASSUME NEW q \in Sessions,
             \/ \E a \in Assets, new \in BOOLEAN, object \in Raws \union {None} :
                  Create(q, a, new, object)
             \/ \E object \in Raws : Stage(q, object)
             \/ \E m \in Mappings : Configure(q, m)
             \/ Abort(q) \/ Overdue(q) \/ Lapse(q)
      PROVE  status'[s] \in {status[s], "OPEN", "STAGED", "ABORTED"}
  BY <1>2 DEF Inv, TypeOK, Create, Stage, Configure, Abort, Overdue, Lapse, Become
<1>3. ASSUME NEW w \in Workers, Claim(w)
      PROVE  status'[s] \in {status[s], "VERIFYING"}
  <2>1. CASE ~DispatcherMayWrite(Written(job[w].session))
    BY <1>3, <2>1 DEF Claim
  <2>2. CASE DispatcherMayWrite(Written(job[w].session))
    BY <1>3, <2>2, ClaimGranted DEF Inv, TypeOK
  <2> QED BY <2>1, <2>2
<1>4. ASSUME NEW w \in Workers, NEW o \in Outcome, Finish(w, o[1], o[2])
      PROVE  Decides(w, s)
  <2>1. job[w] # None /\ job'[w] = None /\ job[w].step = "inspecting"
    BY <1>4 DEF Finish, Inv, TypeOK
  <2>2. Holds(w)
    BY <1>4 DEF Finish, Decided
  <2>3. job[w].session = s
    BY <1>4, <2>2 DEF Finish, Become, Decided, Inv, TypeOK
  <2>4. Owns(w) /\ job[w].live
    BY <2>2 DEF Holds
  <2>5. job[w].mapping = mapping[s]
    BY <2>1, <2>3, <2>4 DEF Inv, JobOK
  <2> QED BY <2>1, <2>3, <2>4, <2>5 DEF Owns, Decides
<1>5. ASSUME NEW w \in Workers, Select(w) \/ Begin(w) \/ Beat(w) \/ Drop(w)
      PROVE  status' = status
  BY <1>5 DEF Select, Begin, Beat, Drop, sessionVars
<1>6. ASSUME NEW a \in Assets, CreateAsset(a)
      PROVE  status' = status
  BY <1>6 DEF CreateAsset, sessionVars
<1>7. status'[s] \notin {status[s], "OPEN", "STAGED", "ABORTED", "VERIFYING", "REGISTERED"}
  BY DEF Decided
<1>8. Next
  BY <1>7 DEF vars, sessionVars
<1>9. \E w \in Workers : \E o \in Outcome : Finish(w, o[1], o[2])
  BY <1>1, <1>2, <1>3, <1>5, <1>6, <1>7, <1>8 DEF Next, Main
<1> QED BY <1>4, <1>9

(* DecidedByOwner: a session leaves VERIFYING by its latest lease only, and   *)
(* only while that lease had not run out when the inspection began.           *)
THEOREM LeaseDecides == Spec => DecidedByOwner
<1>1. Inv /\ [Next]_vars =>
        [\A s \in Sessions :
           status[s] = "VERIFYING" /\ status'[s] \in {"VERIFIED", "REJECTED", "FAILED"} =>
             \E w \in Workers :
               /\ job[w] # None /\ job[w].session = s /\ job'[w] = None
               /\ job[w].step = "inspecting" /\ job[w].live
               /\ job[w].gen = generation[s] /\ job[w].mapping = mapping[s]]_vars
  BY FinishDecides DEF Decided, Decides
<1> QED BY <1>1, Invariance, PTL DEF Spec, DecidedByOwner

----------------------------------------------------------------------------
(* The life cycle of an import *)

AssetOf == [s \in Sessions |-> IF status[s] = "ABSENT" THEN None ELSE target[s].asset]
Catalog == [a \in Assets |-> {[raw |-> v.raw, mapping |-> v.mapping] : v \in versions[a]}]

(* Versions of an asset that hold the same content are the same version.      *)
LEMMA OneVersionPerContent ==
  ASSUME Inv, NEW a \in Assets, NEW u \in versions[a], NEW v \in versions[a], u.raw = v.raw
  PROVE  u = v
<1> DEFINE V == versions[a]
           R == {x.raw : x \in V}
           f == [x \in V |-> x.raw]
<1>1. IsFiniteSet(V) /\ Cardinality(V) = Cardinality(R)
  BY DEF Inv, AssetOK
<1>2. f \in Surjection(V, R)
  BY DEF Surjection
<1>3. f[u] = f[v] /\ u \in V /\ v \in V
  OBVIOUS
<1> HIDE DEF V, R, f
<1>4. f \in Injection(V, R)
  BY <1>1, <1>2, FS_SurjSameCardinalityImpliesInj
<1> QED BY <1>3, <1>4 DEF Injection, IsInjective

(* What does not concern the client, the content or the asset is no step.     *)
LEMMA Hidden ==
  ASSUME UNCHANGED <<status, target, raw, mapping, attempts, versions>>
  PROVE  UNCHANGED Import!importVars
  BY DEF Import!importVars

(* A step of one import that exists keeps its asset.                          *)
LEMMA AssetsKept ==
  ASSUME Inv, NEW s \in Sessions, status[s] # "ABSENT", target' = target,
         NEW st, st # "ABSENT", status' = [status EXCEPT ![s] = st]
  PROVE  AssetOf' = AssetOf
<1>1. \A q \in Sessions : status'[q] = "ABSENT" <=> status[q] = "ABSENT"
  BY DEF Inv, TypeOK
<1> QED BY <1>1 DEF AssetOf

(* Calls of clients are steps of the life cycle, or leave it alone.           *)
LEMMA CallsAreSteps ==
  ASSUME Inv, NEW s \in Sessions,
         \/ \E a \in Assets, new \in BOOLEAN, object \in Raws \union {None} :
              Create(s, a, new, object)
         \/ \E object \in Raws : Stage(s, object)
         \/ \E m \in Mappings : Configure(s, m)
         \/ Abort(s) \/ Overdue(s) \/ Lapse(s)
  PROVE  [Import!Next]_(Import!importVars)
<1>1. ASSUME NEW a \in Assets, NEW new \in BOOLEAN, NEW object \in Raws \union {None},
             Create(s, a, new, object)
      PROVE  Import!Next
  <2>1. /\ status[s] = "ABSENT"
        /\ status' = [status EXCEPT ![s] = IF object = None THEN "OPEN" ELSE "STAGED"]
        /\ target' = [target EXCEPT ![s] = [asset |-> a, new |-> new]]
        /\ raw' = [raw EXCEPT ![s] = object] /\ UNCHANGED <<mapping, attempts, versions>>
    BY <1>1 DEF Create, Become, lease, assetVars
  <2>2. /\ status'[s] # "ABSENT" /\ target'[s].asset = a
        /\ \A q \in Sessions \ {s} : status'[q] = status[q] /\ target'[q] = target[q]
    BY <2>1 DEF Inv, TypeOK
  <2>3. AssetOf' = [AssetOf EXCEPT ![s] = a]
    BY <2>2 DEF AssetOf
  <2>4. Catalog' = Catalog
    BY <2>1 DEF Catalog
  <2>5. Import!Create(s, a, object)
    BY <2>1, <2>3, <2>4 DEF Import!Create, Import!Become, AssetOf, Catalog
  <2> QED BY <2>5 DEF Import!Next
<1>2. ASSUME NEW object \in Raws, Stage(s, object)
      PROVE  Import!Next
  <2>1. /\ status[s] = "OPEN" /\ status' = [status EXCEPT ![s] = "STAGED"]
        /\ raw' = [raw EXCEPT ![s] = object] /\ UNCHANGED <<target, mapping, attempts, versions>>
    BY <1>2 DEF Stage, Become, lease, assetVars
  <2>2. AssetOf' = AssetOf /\ Catalog' = Catalog
    BY <2>1, AssetsKept DEF Catalog
  <2>3. Import!Stage(s, object)
    BY <2>1, <2>2 DEF Import!Stage, Import!Become, AssetOf, Catalog
  <2> QED BY <2>3 DEF Import!Next
<1>3. ASSUME NEW m \in Mappings, Configure(s, m)
      PROVE  Import!Next
  <2>1. /\ status[s] \in {"VERIFIED", "REJECTED"} /\ status' = [status EXCEPT ![s] = "STAGED"]
        /\ mapping' = [mapping EXCEPT ![s] = m] /\ UNCHANGED <<target, raw, attempts, versions>>
    BY <1>3 DEF Configure, Reconfigurable, Become, lease, assetVars
  <2>2. AssetOf' = AssetOf /\ Catalog' = Catalog
    BY <2>1, AssetsKept DEF Catalog
  <2>3. Import!Reconfigure(s, m)
    BY <2>1, <2>2 DEF Import!Reconfigure, Import!Become, AssetOf, Catalog
  <2> QED BY <2>3 DEF Import!Next
<1>4. ASSUME Abort(s)
      PROVE  [Import!Next]_(Import!importVars)
  <2>1. /\ status[s] \in {"OPEN", "STAGED", "VERIFIED", "ABORTED"}
        /\ status' = [status EXCEPT ![s] = "ABORTED"]
        /\ UNCHANGED <<target, raw, mapping, attempts, versions>>
    BY <1>4 DEF Abort, Become, content, lease, assetVars
  <2>2. CASE status[s] = "ABORTED"
    <3>1. status' = status
      BY <2>1, <2>2 DEF Inv, TypeOK
    <3> QED BY <2>1, <3>1, Hidden
  <2>3. CASE status[s] # "ABORTED"
    <3>1. AssetOf' = AssetOf /\ Catalog' = Catalog
      BY <2>1, AssetsKept DEF Catalog
    <3>2. Import!Abort(s)
      BY <2>1, <2>3, <3>1 DEF Import!Abort, Import!Become, AssetOf, Catalog
    <3> QED BY <3>2 DEF Import!Next
  <2> QED BY <2>2, <2>3
<1>5. ASSUME Overdue(s) \/ Lapse(s)
      PROVE  UNCHANGED Import!importVars
  BY <1>5, Hidden DEF Overdue, Lapse, content, lease, assetVars
<1> QED BY <1>1, <1>2, <1>3, <1>4, <1>5

(* A claim is an attempt or is refused, and an inspection whose lease still   *)
(* holds decides; the rest of a daemon's work shows nowhere.                  *)
LEMMA DaemonsAreSteps ==
  ASSUME Inv, NEW w \in Workers, Main(w) \/ Beat(w) \/ Drop(w)
  PROVE  [Import!Next]_(Import!importVars)
<1>1. ASSUME Claim(w), DispatcherMayWrite(Written(job[w].session))
      PROVE  Import!Next
  <2>1. PICK s \in Sessions : s = job[w].session
    BY <1>1, ClaimGranted
  <2>2. /\ Selected(w, s) /\ ~Spent(s)
        /\ status' = [status EXCEPT ![s] = "VERIFYING"]
        /\ attempts' = [attempts EXCEPT ![s] = @ + 1]
        /\ UNCHANGED <<content, assetVars>>
    BY <1>1, <2>1, ClaimGranted
  <2>3. status[s] \in {"STAGED", "VERIFYING"}
    BY <2>1, <2>2, SelectedWaits
  <2>4. attempts[s] < MaxAttempts
    BY <2>2, ImportAssumption DEF Spent, Inv, TypeOK
  <2>5. UNCHANGED <<target, raw, mapping, versions>>
    BY <2>2 DEF content, assetVars
  <2>6. AssetOf' = AssetOf /\ Catalog' = Catalog
    BY <2>2, <2>3, <2>5, AssetsKept DEF Catalog
  <2>7. Import!Attempt(s)
    BY <2>2, <2>3, <2>4, <2>5, <2>6 DEF Import!Attempt, Import!Become, AssetOf, Catalog
  <2> QED BY <2>7 DEF Import!Next
<1>2. ASSUME Claim(w), ~DispatcherMayWrite(Written(job[w].session))
      PROVE  UNCHANGED Import!importVars
  BY <1>2, Hidden DEF Claim, content, lease, assetVars
<1>3. ASSUME NEW o \in Outcome, Finish(w, o[1], o[2])
      PROVE  [Import!Next]_(Import!importVars)
  <2>1. job[w].session \in Sessions /\ o[1] \in {"VERIFIED", "REJECTED", "FAILED"}
    BY <1>3 DEF Inv, TypeOK, Finish, Job, Outcome
  <2>2. PICK s \in Sessions : s = job[w].session
    BY <2>1
  <2>3. UNCHANGED <<target, raw, mapping, attempts, versions>>
    BY <1>3 DEF Finish, content, lease, assetVars
  <2>4. CASE Holds(w)
    <3>1. status[s] = "VERIFYING" /\ status' = [status EXCEPT ![s] = o[1]]
      BY <1>3, <2>2, <2>4 DEF Finish, Holds, Owns, Become
    <3>2. AssetOf' = AssetOf /\ Catalog' = Catalog
      BY <2>1, <2>3, <3>1, AssetsKept DEF Catalog
    <3>3. Import!Decide(s)
      BY <2>1, <2>3, <3>1, <3>2 DEF Import!Decide, Import!Become, AssetOf, Catalog
    <3> QED BY <3>3 DEF Import!Next
  <2>5. CASE ~Holds(w)
    BY <1>3, <2>3, <2>5, Hidden DEF Finish
  <2> QED BY <2>4, <2>5
<1>4. ASSUME Select(w) \/ Begin(w) \/ Beat(w) \/ Drop(w)
      PROVE  UNCHANGED Import!importVars
  BY <1>4, Hidden DEF Select, Begin, Beat, Drop, sessionVars, content, lease, assetVars
<1> QED BY <1>1, <1>2, <1>3, <1>4 DEF Main

(* A registration that commits puts the content of its session, under the     *)
(* mapping in force, into the catalog of the asset, or has found it there.    *)
LEMMA RegistrationsAreSteps ==
  ASSUME Inv, NEW s \in Sessions, Registering(s) \/ RegisterFails(s)
  PROVE  [Import!Next]_(Import!importVars)
<1> DEFINE a == target[s].asset
           c == [raw |-> raw[s], mapping |-> mapping[s]]
<1>1. ASSUME \/ RegisterBegin(s) \/ RegisterAsset(s) \/ RegisterFails(s)
             \/ RegisterRead(s) /\ UNCHANGED status
      PROVE  UNCHANGED Import!importVars
  BY <1>1, Hidden DEF RegisterBegin, RegisterAsset, RegisterFails, RollBack, RegisterRead, sessionVars,
                      content, lease
<1>2. ASSUME status[s] = "VERIFIED", a \in Assets, status' = [status EXCEPT ![s] = "REGISTERED"],
             UNCHANGED <<content, lease>>,
             \A v \in versions[a] : v.raw = raw[s] => v.mapping = mapping[s],
             Catalog' = [Catalog EXCEPT ![a] = @ \union {c}]
      PROVE  Import!Next
  <2>1. UNCHANGED <<target, raw, mapping, attempts>>
    BY <1>2 DEF content, lease
  <2>2. AssetOf' = AssetOf /\ AssetOf[s] = a
    BY <1>2, <2>1, AssetsKept DEF AssetOf
  <2>3. \A d \in Catalog[a] : d.raw = raw[s] => d = c
    BY <1>2 DEF Catalog
  <2>4. Import!Register(s)
    BY <1>2, <2>1, <2>2, <2>3 DEF Import!Register, Import!Become, AssetOf, Catalog
  <2> QED BY <2>4 DEF Import!Next
<1>3. ASSUME RegisterRead(s), ~UNCHANGED status
      PROVE  Import!Next
  <2>1. /\ status[s] = "VERIFIED" /\ a \in Assets
        /\ result[s] = [gen |-> generation[s], mapping |-> mapping[s]]
        /\ UNCHANGED <<content, lease, versions>>
    BY <1>3 DEF RegisterRead, Inv, RegisterOK, SessionOK
  <2>2. SameRaw(s) # {} /\ Reusable(s) # {} /\ status' = [status EXCEPT ![s] = "REGISTERED"]
    BY <1>3 DEF RegisterRead
  <2>3. PICK v \in versions[a] : v.raw = raw[s] /\ v.mapping = mapping[s]
    BY <2>1, <2>2 DEF Reusable, SameRaw
  <2>4. \A u \in versions[a] : u.raw = raw[s] => u.mapping = mapping[s]
    BY <2>1, <2>3, OneVersionPerContent
  <2>5. c \in Catalog[a]
    BY <2>1, <2>3 DEF Catalog
  <2>6. Catalog' = [Catalog EXCEPT ![a] = @ \union {c}]
    BY <2>1, <2>5 DEF Catalog
  <2> QED BY <1>2, <2>1, <2>2, <2>4, <2>6
<1>4. ASSUME RegisterWrite(s)
      PROVE  Import!Next
  <2> DEFINE new == [number |-> number[s], raw |-> raw[s], mapping |-> mapping[s]]
  <2>1. /\ status[s] = "VERIFIED" /\ a \in Assets /\ SameRaw(s) = {}
        /\ result[s] = [gen |-> generation[s], mapping |-> mapping[s]]
        /\ status' = [status EXCEPT ![s] = "REGISTERED"]
        /\ UNCHANGED <<content, lease>>
    BY <1>4 DEF RegisterWrite, Inv, RegisterOK, SessionOK
  <2>2. versions' = [versions EXCEPT ![a] = @ \union {new}]
    BY <1>4, <2>1 DEF RegisterWrite
  <2>3. \A u \in versions[a] : u.raw # raw[s]
    BY <2>1 DEF SameRaw
  <2>4. /\ versions'[a] = versions[a] \union {new}
        /\ \A b \in Assets \ {a} : versions'[b] = versions[b]
    BY <2>1, <2>2 DEF Inv, TypeOK
  <2>5. Catalog'[a] = Catalog[a] \union {[raw |-> new.raw, mapping |-> new.mapping]}
    <3> HIDE DEF new
    <3> QED BY <2>1, <2>4 DEF Catalog
  <2>6. Catalog' = [Catalog EXCEPT ![a] = @ \union {c}]
    BY <2>1, <2>4, <2>5 DEF Catalog
  <2> QED BY <1>2, <2>1, <2>3, <2>6
<1> QED BY <1>1, <1>3, <1>4 DEF Registering

(* Daemons, leases and registrations implement the life cycle of an import:   *)
(* what is registered is the content under the mapping in force, once.        *)
THEOREM Refinement == Spec => ImplementsImport
<1>1. Init => Import!Init
  BY DEF Init, Import!Init
<1>2. Inv /\ [Next]_vars => [Import!Next]_(Import!importVars)
  <2> SUFFICES ASSUME Inv, [Next]_vars
               PROVE  [Import!Next]_(Import!importVars)
    OBVIOUS
  <2>1. CASE UNCHANGED vars
    BY <2>1, Hidden DEF vars, sessionVars, assetVars, content, lease
  <2>2. ASSUME NEW a \in Assets, CreateAsset(a)
        PROVE  UNCHANGED Import!importVars
    BY <2>2, Hidden DEF CreateAsset, sessionVars, content, lease
  <2> QED BY <2>1, <2>2, CallsAreSteps, DaemonsAreSteps, RegistrationsAreSteps DEF Next
<1> QED BY <1>1, <1>2, Invariance, PTL DEF Spec, ImplementsImport, Import!Spec
==============================================================================
