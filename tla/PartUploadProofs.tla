-------------------------- MODULE PartUploadProofs --------------------------
(* Proofs about uploads in parts, for any parts, contents, requests, pods and *)
(* faults.                                                                    *)
EXTENDS PartUpload, TLAPS

----------------------------------------------------------------------------
(* The invariant *)

(* What a request has read under a lock is still so: a part's record while it *)
(* holds the part's advisory lock, the status and every record while it holds *)
(* the session's row.                                                         *)
RequestOK(r) ==
  /\ at[r] # "free" => job[r] \in Job
  /\ at[r] \notin {"reply", "exit"} => write[r] = None
  /\ at[r] \in {"stream", "put", "record"} => job[r].kind = "part"
  /\ at[r] \in {"stream", "put", "record", "reply", "exit"} /\ job[r].kind = "part" =>
       partLock[job[r].part] = r /\ known[r] = recorded[job[r].part]
  /\ at[r] \in {"put", "record"} => known[r] = None
  /\ at[r] = "call" \/ write[r] # None => rowLock = r
  /\ at[r] = "call" /\ job[r].kind = "complete" => status \in Open /\ AllRecorded
  /\ write[r] = "part" => job[r].kind = "part" /\ known[r] = None
  /\ write[r] = "complete" => status \in Open /\ object # None

(* The store has one completion, of what was recorded.                        *)
ObjectOK ==
  /\ multipart = "open" => object = None
  /\ object # None => object = recorded /\ AllRecorded
  /\ status = "STAGED" => object # None

Inv == TypeOK /\ (\A r \in Requests : RequestOK(r)) /\ ObjectOK

----------------------------------------------------------------------------
(* Requests that stay where they are *)

(* A request keeps its part of the invariant as long as nobody takes its      *)
(* locks or changes what they guard.                                          *)
LEMMA OthersStay ==
  ASSUME Inv, NEW o \in Requests,
         at'[o] = at[o], job'[o] = job[o], known'[o] = known[o], write'[o] = write[o],
         \A p \in Parts : partLock[p] = o => partLock'[p] = o /\ recorded'[p] = recorded[p],
         rowLock = o => /\ rowLock' = o /\ status' = status /\ recorded' = recorded
                        /\ object # None => object' # None
  PROVE  RequestOK(o)'
<1>1. at[o] # "free" => job[o].part \in Parts
  BY DEF Inv, RequestOK, Job
<1>2. at[o] \in Step
  BY DEF Inv, TypeOK
<1>3. at[o] \in {"stream", "put", "record", "reply", "exit"} /\ job[o].kind = "part" =>
        partLock'[job[o].part] = o /\ known[o] = recorded'[job[o].part]
  BY <1>1 DEF Inv, RequestOK
<1>4. rowLock = o => (AllRecorded => AllRecorded')
  BY DEF AllRecorded
<1>5. rowLock # o => at[o] # "call" /\ write[o] \notin Kind
  BY KindAssumption DEF Inv, RequestOK
<1>6. CASE rowLock = o
  BY <1>3, <1>4, <1>6 DEF Inv, RequestOK
<1>7. CASE rowLock # o
  BY <1>3, <1>5, <1>7 DEF Inv, RequestOK, Kind
<1> QED BY <1>6, <1>7

(* Steps of one request that change neither the session nor the object leave  *)
(* the others theirs.                                                         *)
LEMMA OneRequest ==
  ASSUME Inv, NEW r \in Requests, UNCHANGED session, object # None => object' # None,
         \A o \in Requests \ {r} : /\ at'[o] = at[o] /\ job'[o] = job[o]
                                   /\ known'[o] = known[o] /\ write'[o] = write[o],
         \A p \in Parts : partLock[p] \notin {r, None} => partLock'[p] = partLock[p],
         rowLock \notin {r, None} => rowLock' = rowLock
  PROVE  \A o \in Requests \ {r} : RequestOK(o)'
<1> SUFFICES ASSUME NEW o \in Requests \ {r}
             PROVE  RequestOK(o)'
  OBVIOUS
<1>1. o # None
  BY UploadAssumption
<1>2. \A p \in Parts : partLock[p] = o => partLock'[p] = o /\ recorded'[p] = recorded[p]
  BY <1>1 DEF session
<1>3. rowLock = o => rowLock' = o
  BY <1>1
<1> QED BY <1>2, <1>3, OthersStay DEF session

(* Requests come, wait, and stream their bodies.                              *)
LEMMA Moves ==
  ASSUME Inv, NEW r \in Requests,
         (\E j \in Job : Arrive(r, j)) \/ LoopWaits(r) \/ Stream(r) \/ Reply(r)
  PROVE  Inv'
<1>1. UNCHANGED <<session, store, locks, known, write, faults>>
  BY DEF Arrive, LoopWaits, Stream, Reply, request
<1>2. UNCHANGED <<status, recorded, multipart, stored, object, late, partLock, rowLock, known, write,
                  faults>>
  BY <1>1 DEF session, store, locks
<1>3. TypeOK'
  <2>1. /\ at' \in [Requests -> Step] /\ job' \in [Requests -> Job \union {None}]
        /\ loop' \in [Pods -> Requests \union {None}]
    BY DEF Inv, TypeOK, Step, Arrive, LoopWaits, Stream, Reply, Goto, request
  <2> QED BY <1>2, <2>1 DEF Inv, TypeOK
<1>4. ObjectOK'
  BY <1>2 DEF Inv, ObjectOK, AllRecorded
<1>5. \A o \in Requests \ {r} : RequestOK(o)'
  <2>1. \A o \in Requests \ {r} : at'[o] = at[o] /\ job'[o] = job[o]
    BY DEF Inv, TypeOK, Arrive, LoopWaits, Stream, Reply, Goto, request
  <2> QED BY <1>1, <1>2, <2>1, OneRequest
<1>6. AllRecorded' = AllRecorded
  BY <1>2 DEF AllRecorded
<1>7. RequestOK(r)'
  <2>1. CASE \E j \in Job : Arrive(r, j)
    <3>1. PICK j \in Job : Arrive(r, j)
      BY <2>1
    <3>2. at[r] = "free" /\ at'[r] = "lock" /\ job'[r] = j
      BY <3>1 DEF Inv, TypeOK, Arrive, Goto
    <3>3. write'[r] = None /\ None \notin Kind
      BY <1>2, <3>2, KindAssumption DEF Inv, RequestOK
    <3> QED BY <3>2, <3>3 DEF RequestOK, Kind
  <2>2. CASE LoopWaits(r)
    BY <1>2, <1>6, <2>2 DEF Inv, TypeOK, RequestOK, LoopWaits, request
  <2>3. CASE Stream(r)
    BY <1>2, <1>6, <2>3 DEF Inv, TypeOK, RequestOK, Stream, Goto, Replayed
  <2>4. CASE Reply(r)
    <3>1. at[r] = "reply" /\ at'[r] = "exit" /\ job'[r] = job[r]
      BY <2>4 DEF Inv, TypeOK, Reply, Goto
    <3>2. /\ known'[r] = known[r] /\ write'[r] = write[r] /\ partLock' = partLock
          /\ rowLock' = rowLock /\ status' = status /\ recorded' = recorded /\ object' = object
      BY <1>2
    <3>3. RequestOK(r)
      BY DEF Inv
    <3> QED BY <3>1, <3>2, <3>3 DEF RequestOK
  <2> QED BY <2>1, <2>2, <2>3, <2>4
<1> QED BY <1>3, <1>4, <1>5, <1>7 DEF Inv

----------------------------------------------------------------------------
(* Uploading a part *)

(* The advisory lock makes the digest that is read the one recorded until the *)
(* transaction ends.                                                          *)
LEMMA Locks ==
  ASSUME Inv, NEW r \in Requests, LockPart(r)
  PROVE  Inv'
<1>0. at[r] = "lock" /\ job[r] \in Job /\ job[r].kind = "part" /\ job[r].part \in Parts
      /\ write[r] = None /\ partLock[job[r].part] = None
  BY DEF Inv, RequestOK, LockPart, Job
<1>1. UNCHANGED <<status, recorded, multipart, stored, object, late, rowLock, job, write, faults>>
  BY DEF LockPart, session, store
<1>2. /\ at' = [at EXCEPT ![r] = IF status \in Open THEN "stream" ELSE "reply"]
      /\ partLock' = [partLock EXCEPT ![job[r].part] = r]
      /\ known' = [known EXCEPT ![r] = recorded[job[r].part]]
      /\ loop' = [loop EXCEPT ![job[r].pod] = None]
  BY DEF LockPart, Goto, LeaveLoop
<1>3. TypeOK'
  BY <1>0, <1>1, <1>2 DEF Inv, TypeOK, Step
<1>4. ObjectOK'
  BY <1>1 DEF Inv, ObjectOK, AllRecorded
<1>5. \A o \in Requests \ {r} : RequestOK(o)'
  <2>1. \A o \in Requests \ {r} : at'[o] = at[o] /\ job'[o] = job[o]
                                  /\ known'[o] = known[o] /\ write'[o] = write[o]
    BY <1>1, <1>2 DEF Inv, TypeOK
  <2>2. \A p \in Parts : partLock[p] \notin {r, None} => partLock'[p] = partLock[p]
    BY <1>0, <1>2 DEF Inv, TypeOK
  <2> QED BY <1>1, <2>1, <2>2, OneRequest DEF session
<1>6. RequestOK(r)'
  <2>1. at'[r] \in {"stream", "reply"} /\ partLock'[job[r].part] = r
        /\ known'[r] = recorded[job[r].part]
    BY <1>0, <1>2 DEF Inv, TypeOK
  <2>2. job'[r] = job[r] /\ write'[r] = None /\ recorded' = recorded
    BY <1>0, <1>1
  <2> QED BY <1>0, <2>1, <2>2, KindAssumption DEF RequestOK, Kind
<1> QED BY <1>3, <1>4, <1>5, <1>6 DEF Inv

(* A part that is sent to the store changes nothing but the store's parts.    *)
LEMMA Puts ==
  ASSUME Inv, NEW r \in Requests, Put(r) \/ PutUnanswered(r)
  PROVE  Inv'
<1>0. at[r] = "put" /\ job[r] \in Job /\ job[r].part \in Parts /\ job[r].bytes \in Contents
      /\ write[r] = None
  BY DEF Inv, RequestOK, Put, PutUnanswered, Job
<1>1. UNCHANGED <<status, recorded, multipart, object, late, partLock, rowLock, job, known, write,
                  loop>>
  BY DEF Put, PutUnanswered, session, locks
<1>2. \E next \in {"record", "reply"} : at' = [at EXCEPT ![r] = next]
  BY DEF Put, PutUnanswered, Goto
<1>3. TypeOK'
  <2>1. stored' \in [Parts -> Contents \union {None}]
    BY <1>0 DEF Inv, TypeOK, Put, PutUnanswered, StorePart
  <2>2. faults' \in 0 .. MaxFaults
    BY UploadAssumption DEF Inv, TypeOK, Put, PutUnanswered, Fault
  <2>3. at' \in [Requests -> Step]
    BY <1>2 DEF Inv, TypeOK, Step
  <2> QED BY <1>1, <2>1, <2>2, <2>3 DEF Inv, TypeOK
<1>4. ObjectOK'
  BY <1>1 DEF Inv, ObjectOK, AllRecorded
<1>5. \A o \in Requests \ {r} : RequestOK(o)'
  <2>1. \A o \in Requests \ {r} : at'[o] = at[o]
    BY <1>2 DEF Inv, TypeOK
  <2> QED BY <1>1, <2>1, OneRequest DEF session
<1>6. RequestOK(r)'
  <2>1. at'[r] \in {"record", "reply"}
    BY <1>2 DEF Inv, TypeOK
  <2>2. RequestOK(r)
    BY DEF Inv
  <2> QED BY <1>0, <1>1, <2>1, <2>2, KindAssumption DEF RequestOK, Kind
<1> QED BY <1>3, <1>4, <1>5, <1>6 DEF Inv

(* A part is recorded by the one that holds the session's row.                *)
LEMMA Records ==
  ASSUME Inv, NEW r \in Requests, Record(r)
  PROVE  Inv'
<1>0. at[r] = "record" /\ job[r] \in Job /\ job[r].kind = "part" /\ job[r].pod \in Pods
      /\ known[r] = None /\ partLock[job[r].part] = r /\ known[r] = recorded[job[r].part]
      /\ rowLock = None
  BY DEF Inv, RequestOK, Record, Job
<1>1. UNCHANGED <<status, recorded, multipart, stored, object, late, partLock, job, known, faults>>
  BY DEF Record, session, store
<1>2. /\ at' = [at EXCEPT ![r] = "reply"] /\ rowLock' = r
      /\ write' = [write EXCEPT ![r] = "part"]
      /\ loop' = [loop EXCEPT ![job[r].pod] = None]
  BY DEF Record, Goto, LeaveLoop
<1>3. TypeOK'
  BY <1>0, <1>1, <1>2 DEF Inv, TypeOK, Step, Kind
<1>4. ObjectOK'
  BY <1>1 DEF Inv, ObjectOK, AllRecorded
<1>5. \A o \in Requests \ {r} : RequestOK(o)'
  <2>1. \A o \in Requests \ {r} : at'[o] = at[o] /\ write'[o] = write[o]
    BY <1>2 DEF Inv, TypeOK
  <2> QED BY <1>0, <1>1, <2>1, OneRequest DEF session
<1>6. RequestOK(r)'
  <2>1. at'[r] = "reply" /\ write'[r] = "part"
    BY <1>2 DEF Inv, TypeOK
  <2> QED BY <1>0, <1>1, <1>2, <2>1 DEF RequestOK
<1> QED BY <1>3, <1>4, <1>5, <1>6 DEF Inv

----------------------------------------------------------------------------
(* Completing and aborting *)

(* What the session's row shows stays so while it is locked.                  *)
LEMMA LocksRow ==
  ASSUME Inv, NEW r \in Requests, LockToComplete(r) \/ LockToAbort(r)
  PROVE  Inv'
<1>0. at[r] = "lock" /\ job[r] \in Job /\ job[r].kind \in {"complete", "abort"}
      /\ write[r] = None /\ rowLock = None
  BY DEF Inv, RequestOK, LockToComplete, LockToAbort, Job
<1>1. UNCHANGED <<status, recorded, multipart, stored, object, late, partLock, job, known, loop, faults>>
      /\ rowLock' = r
  BY DEF LockToComplete, LockToAbort, session, store
<1>2. PICK next \in {"call", "reply"}, w \in {None, "abort"} :
        /\ at' = [at EXCEPT ![r] = next] /\ write' = [write EXCEPT ![r] = w]
        /\ next = "call" => w = None
        /\ next = "call" /\ job[r].kind = "complete" => status \in Open /\ AllRecorded
  <2>1. CASE LockToComplete(r)
    <3>1. PICK next \in {"reply", IF status \in Open /\ AllRecorded THEN "call" ELSE "reply"} :
            at' = [at EXCEPT ![r] = next]
      BY <2>1 DEF LockToComplete, Goto
    <3>2. write' = [write EXCEPT ![r] = None]
      BY <1>0, <2>1 DEF Inv, TypeOK, LockToComplete
    <3> QED BY <3>1, <3>2
  <2>2. CASE LockToAbort(r)
    <3>1. job[r].kind = "abort"
      BY <2>2 DEF LockToAbort
    <3>2. CASE status \in Open
      <4>1. at' = [at EXCEPT ![r] = "call"] /\ write' = [write EXCEPT ![r] = None]
        BY <1>0, <2>2, <3>2 DEF Inv, TypeOK, LockToAbort, Goto
      <4> QED BY <3>1, <4>1
    <3>3. CASE status \notin Open
      BY <2>2, <3>3 DEF LockToAbort, Goto
    <3> QED BY <3>2, <3>3
  <2> QED BY <2>1, <2>2
<1>3. TypeOK'
  BY <1>1, <1>2 DEF Inv, TypeOK, Step, Kind
<1>4. ObjectOK'
  BY <1>1 DEF Inv, ObjectOK, AllRecorded
<1>5. \A o \in Requests \ {r} : RequestOK(o)'
  <2>1. \A o \in Requests \ {r} : at'[o] = at[o] /\ write'[o] = write[o]
    BY <1>2 DEF Inv, TypeOK
  <2> QED BY <1>0, <1>1, <2>1, OneRequest DEF session
<1>6. RequestOK(r)'
  <2>1. at'[r] = next /\ write'[r] = w
    BY <1>2 DEF Inv, TypeOK
  <2>2. AllRecorded' = AllRecorded
    BY <1>1 DEF AllRecorded
  <2> QED BY <1>0, <1>1, <1>2, <2>1, <2>2, KindAssumption DEF RequestOK, Kind
<1> QED BY <1>3, <1>4, <1>5, <1>6 DEF Inv

(* The store completes the upload only from the parts that were recorded, and *)
(* nobody records another one meanwhile.                                      *)
LEMMA Completes ==
  ASSUME Inv, NEW r \in Requests, CallComplete(r) \/ CompleteUnanswered(r)
  PROVE  Inv'
<1>0. at[r] = "call" /\ job[r] \in Job /\ job[r].kind = "complete" /\ write[r] = None
      /\ rowLock = r /\ status \in Open /\ AllRecorded
  BY DEF Inv, RequestOK, CallComplete, CompleteUnanswered
<1>1. UNCHANGED <<status, recorded, stored, late, partLock, rowLock, job, known, loop>>
  BY DEF CallComplete, CompleteUnanswered, session, locks
<1>2. /\ multipart' = IF Assembles THEN "completed" ELSE multipart
      /\ object' = IF Assembles THEN stored ELSE object
      /\ at' = [at EXCEPT ![r] = "reply"]
  BY DEF CallComplete, CompleteUnanswered, Goto
<1>3. PICK w \in {None, "complete"} :
        write' = [write EXCEPT ![r] = w] /\ (w = "complete" => object' # None)
  <2>1. CASE CallComplete(r)
    <3>1. write' = [write EXCEPT ![r] = IF object' # None THEN "complete" ELSE None]
      BY <2>1 DEF CallComplete
    <3>2. CASE object' # None
      BY <3>1, <3>2
    <3>3. CASE object' = None
      <4>1. write' = [write EXCEPT ![r] = None] /\ None # "complete"
        BY <3>1, <3>3, KindAssumption DEF Kind
      <4> QED BY <4>1
    <3> QED BY <3>2, <3>3
  <2>2. CASE CompleteUnanswered(r)
    <3>1. write' = [write EXCEPT ![r] = None]
      BY <1>0, <2>2 DEF Inv, TypeOK, CompleteUnanswered
    <3> QED BY <3>1, KindAssumption DEF Kind
  <2> QED BY <2>1, <2>2
<1>4. object' # None => object' = recorded \/ object' = object
  BY <1>2 DEF Assembles
<1>5. object # None => object' = object
  BY <1>2 DEF Inv, ObjectOK, Assembles
<1>6. AllRecorded' = AllRecorded
  BY <1>1 DEF AllRecorded
<1>7. TypeOK'
  <2>1. object' \in [Parts -> Contents] \union {None}
    <3>1. Assembles => stored \in [Parts -> Contents]
      BY <1>0 DEF Inv, TypeOK, Assembles, AllRecorded
    <3> QED BY <1>2, <3>1 DEF Inv, TypeOK
  <2>2. faults' \in 0 .. MaxFaults
    BY UploadAssumption DEF Inv, TypeOK, CallComplete, CompleteUnanswered, Fault
  <2>3. multipart' \in {"open", "completed", "aborted"}
    BY <1>2 DEF Inv, TypeOK
  <2>4. at' \in [Requests -> Step] /\ write' \in [Requests -> Kind \union {None}]
    BY <1>2, <1>3 DEF Inv, TypeOK, Step, Kind
  <2> QED BY <1>1, <2>1, <2>2, <2>3, <2>4 DEF Inv, TypeOK
<1>8. ObjectOK'
  <2>1. multipart' = "open" => object' = None
    BY <1>2 DEF Inv, ObjectOK, Assembles
  <2>2. object' # None => object' = recorded' /\ AllRecorded'
    BY <1>0, <1>1, <1>4, <1>6 DEF Inv, ObjectOK
  <2>3. status' # "STAGED"
    BY <1>0, <1>1 DEF Open
  <2> QED BY <2>1, <2>2, <2>3 DEF ObjectOK
<1>9. \A o \in Requests \ {r} : RequestOK(o)'
  <2>1. \A o \in Requests \ {r} : at'[o] = at[o] /\ write'[o] = write[o]
    BY <1>2, <1>3 DEF Inv, TypeOK
  <2> QED BY <1>1, <1>5, <2>1, OneRequest DEF session
<1>10. RequestOK(r)'
  <2>1. at'[r] = "reply" /\ write'[r] = w
    BY <1>2, <1>3 DEF Inv, TypeOK
  <2> QED BY <1>0, <1>1, <1>3, <2>1, KindAssumption DEF RequestOK, Kind
<1> QED BY <1>7, <1>8, <1>9, <1>10 DEF Inv

(* The multipart upload is dropped, an object that was assembled stays.       *)
LEMMA Aborts ==
  ASSUME Inv, NEW r \in Requests, CallAbort(r) \/ AbortUnanswered(r)
  PROVE  Inv'
<1>0. at[r] = "call" /\ job[r] \in Job /\ job[r].kind = "abort" /\ write[r] = None /\ rowLock = r
  BY DEF Inv, RequestOK, CallAbort, AbortUnanswered
<1>1. UNCHANGED <<status, recorded, stored, object, late, partLock, rowLock, job, known, loop>>
  BY DEF CallAbort, AbortUnanswered, session, locks
<1>2. at' = [at EXCEPT ![r] = "reply"] /\ multipart' \in {multipart, "aborted"}
  BY DEF CallAbort, AbortUnanswered, Goto
<1>3. PICK w \in {None, "abort"} : write' = [write EXCEPT ![r] = w]
  <2>1. CASE CallAbort(r)
    BY <2>1 DEF CallAbort
  <2>2. CASE AbortUnanswered(r)
    BY <1>0, <2>2 DEF Inv, TypeOK, AbortUnanswered
  <2> QED BY <2>1, <2>2
<1>4. TypeOK'
  <2>1. faults' \in 0 .. MaxFaults
    BY UploadAssumption DEF Inv, TypeOK, CallAbort, AbortUnanswered, Fault
  <2>2. at' \in [Requests -> Step] /\ write' \in [Requests -> Kind \union {None}]
        /\ multipart' \in {"open", "completed", "aborted"}
    BY <1>2, <1>3 DEF Inv, TypeOK, Step, Kind
  <2> QED BY <1>1, <2>1, <2>2 DEF Inv, TypeOK
<1>5. ObjectOK'
  BY <1>1, <1>2 DEF Inv, ObjectOK, AllRecorded
<1>6. \A o \in Requests \ {r} : RequestOK(o)'
  <2>1. \A o \in Requests \ {r} : at'[o] = at[o] /\ write'[o] = write[o]
    BY <1>2, <1>3 DEF Inv, TypeOK
  <2> QED BY <1>1, <2>1, OneRequest DEF session
<1>7. RequestOK(r)'
  <2>1. at'[r] = "reply" /\ write'[r] = w
    BY <1>2, <1>3 DEF Inv, TypeOK
  <2> QED BY <1>0, <1>1, <2>1, KindAssumption DEF RequestOK, Kind
<1> QED BY <1>4, <1>5, <1>6, <1>7 DEF Inv

----------------------------------------------------------------------------
(* The ends of requests *)

(* Requests that end release their locks; what the others hold and have read  *)
(* under it is untouched.                                                     *)
LEMMA Over ==
  ASSUME Inv, NEW R \in SUBSET Requests, Release(R), Forget(R), UNCHANGED object,
         \A o \in Requests \ R :
           /\ \A p \in Parts : partLock[p] = o => recorded'[p] = recorded[p]
           /\ rowLock = o => status' = status /\ recorded' = recorded
  PROVE  \A r \in Requests : RequestOK(r)'
<1> SUFFICES ASSUME NEW r \in Requests
             PROVE  RequestOK(r)'
  OBVIOUS
<1>1. CASE r \in R
  <2>1. at'[r] = "free" /\ write'[r] = None
    BY <1>1 DEF Forget
  <2> QED BY <2>1, KindAssumption DEF RequestOK, Kind
<1>2. CASE r \notin R
  <2>1. at'[r] = at[r] /\ job'[r] = job[r] /\ known'[r] = known[r] /\ write'[r] = write[r]
    BY <1>2 DEF Forget
  <2>2. \A p \in Parts : partLock[p] = r => partLock'[p] = r
    BY <1>2 DEF Release
  <2>3. rowLock = r => rowLock' = r
    BY <1>2 DEF Release
  <2> QED BY <1>2, <2>1, <2>2, <2>3, OthersStay
<1> QED BY <1>1, <1>2

(* The state of the requests and of the locks keeps its type.                 *)
LEMMA OverType ==
  ASSUME TypeOK, NEW R \in SUBSET Requests, Release(R), Forget(R)
  PROVE  /\ partLock' \in [Parts -> Requests \union {None}]
         /\ rowLock' \in Requests \union {None}
         /\ at' \in [Requests -> Step]
         /\ job' \in [Requests -> Job \union {None}]
         /\ known' \in [Requests -> Contents \union {None}]
         /\ write' \in [Requests -> Kind \union {None}]
<1>1. partLock' \in [Parts -> Requests \union {None}] /\ rowLock' \in Requests \union {None}
  BY DEF TypeOK, Release
<1>2. at' \in [Requests -> Step] /\ job' \in [Requests -> Job \union {None}]
  BY DEF TypeOK, Forget, Step
<1>3. known' \in [Requests -> Contents \union {None}]
      /\ write' \in [Requests -> Kind \union {None}]
  BY DEF TypeOK, Forget
<1> QED BY <1>1, <1>2, <1>3

(* A commit writes for a part that was not recorded, of a session that has no *)
(* object yet, or settles a session whose row it holds.                       *)
LEMMA Commits ==
  ASSUME Inv, NEW r \in Requests, Commit(r)
  PROVE  Inv'
<1>1. at[r] = "exit" /\ job[r] \in Job
  BY DEF Inv, RequestOK, Commit
<1>2. Release({r}) /\ Forget({r}) /\ UNCHANGED <<multipart, stored, object, late, loop, faults>>
  BY DEF Commit, store
<1>3. write[r] \in Kind \union {None}
  BY DEF Inv, TypeOK
<1>4. write[r] \in Kind => rowLock = r
  BY KindAssumption DEF Inv, RequestOK
<1>5. write[r] = "part" => /\ job[r].part \in Parts /\ partLock[job[r].part] = r
                           /\ recorded[job[r].part] = None /\ ~ AllRecorded
  BY <1>1 DEF Inv, RequestOK, Job, AllRecorded
<1>6. /\ write[r] = "part" => /\ recorded' = [recorded EXCEPT ![job[r].part] = job[r].bytes]
                              /\ status' = StatusAfterPart(status)
      /\ write[r] # "part" => recorded' = recorded
      /\ write[r] = "complete" => status' = "STAGED"
      /\ write[r] = "abort" => status' = "ABORTED"
      /\ write[r] \notin Kind => status' = status
  BY DEF Commit, StatusAfter, Kind
<1>7. write[r] = "complete" => status \in Open /\ object # None
  BY DEF Inv, RequestOK
<1>8. TypeOK'
  <2>1. recorded' \in [Parts -> Contents \union {None}]
    BY <1>1, <1>6 DEF Inv, TypeOK, Job
  <2>2. status' \in Open \union {"STAGED", "ABORTED"}
    BY <1>3, <1>6, KindAssumption DEF Inv, TypeOK, StatusAfterPart, Open, Kind
  <2>3. TypeOK /\ {r} \in SUBSET Requests
    BY DEF Inv
  <2>4. /\ partLock' \in [Parts -> Requests \union {None}]
        /\ rowLock' \in Requests \union {None}
        /\ at' \in [Requests -> Step]
        /\ job' \in [Requests -> Job \union {None}]
        /\ known' \in [Requests -> Contents \union {None}]
        /\ write' \in [Requests -> Kind \union {None}]
    BY <1>2, <2>3, OverType
  <2> QED BY <1>2, <2>1, <2>2, <2>4 DEF Inv, TypeOK
<1>9. ObjectOK'
  <2>1. multipart' = "open" => object' = None
    BY <1>2 DEF Inv, ObjectOK
  <2>2. object # None => write[r] # "part"
    BY <1>5 DEF Inv, ObjectOK
  <2>3. object' # None => object' = recorded' /\ AllRecorded'
    BY <1>2, <1>6, <2>2 DEF Inv, ObjectOK, AllRecorded
  <2>4. status' = "STAGED" => object' # None
    <3>1. CASE write[r] = "part"
      BY <1>2, <1>6, <3>1 DEF Inv, ObjectOK, StatusAfterPart
    <3>2. CASE write[r] # "part"
      BY <1>2, <1>3, <1>6, <1>7, <3>2 DEF Inv, ObjectOK, Kind
    <3> QED BY <3>1, <3>2
  <2> QED BY <2>1, <2>3, <2>4 DEF ObjectOK
<1>10. \A q \in Requests : RequestOK(q)'
  <2>1. \A o \in Requests \ {r} : \A p \in Parts : partLock[p] = o => recorded'[p] = recorded[p]
    BY <1>5, <1>6 DEF Inv, TypeOK
  <2>2. \A o \in Requests \ {r} : rowLock = o => status' = status /\ recorded' = recorded
    BY <1>3, <1>4, <1>6 DEF Kind
  <2>3. {r} \in SUBSET Requests
    OBVIOUS
  <2> QED BY <1>2, <2>1, <2>2, <2>3, Over
<1> QED BY <1>8, <1>9, <1>10 DEF Inv

(* Failed commits and crashes only release what was held; a part that lands   *)
(* late touches no record and no object.                                      *)
LEMMA Loses ==
  ASSUME Inv,
         \/ \E r \in Requests : CommitFails(r)
         \/ \E p \in Pods : Crash(p)
         \/ \E part \in Parts, bytes \in Contents : Land(part, bytes)
  PROVE  Inv'
<1>1. ASSUME NEW r \in Requests, CommitFails(r)
      PROVE  Inv'
  <2>1. /\ Release({r}) /\ Forget({r}) /\ {r} \in SUBSET Requests
        /\ UNCHANGED <<status, recorded, multipart, stored, object, late, loop>>
    BY <1>1 DEF CommitFails, session, store
  <2>2. faults' \in 0 .. MaxFaults
    BY <1>1, UploadAssumption DEF Inv, TypeOK, CommitFails, Fault
  <2>3. \A q \in Requests : RequestOK(q)'
    BY <2>1, Over
  <2>4. TypeOK'
    BY <2>1, <2>2, OverType DEF Inv, TypeOK
  <2>5. ObjectOK'
    BY <2>1 DEF Inv, ObjectOK, AllRecorded
  <2> QED BY <2>1, <2>3, <2>4, <2>5 DEF Inv
<1>2. ASSUME NEW p \in Pods, Crash(p)
      PROVE  Inv'
  <2> DEFINE R == {r \in Requests : at[r] # "free" /\ job[r].pod = p}
             sent == {<<job[r].part, job[r].bytes>> : r \in {q \in R : at[q] = "put"}}
  <2>1. /\ Release(R) /\ Forget(R) /\ R \in SUBSET Requests
        /\ UNCHANGED <<status, recorded, multipart, stored, object>>
        /\ late' = late \union sent /\ loop' = [loop EXCEPT ![p] = None]
    BY <1>2 DEF Crash, session
  <2>2. faults' \in 0 .. MaxFaults
    BY <1>2, UploadAssumption DEF Inv, TypeOK, Crash, Fault
  <2>3. sent \subseteq Parts \X Contents
    <3>1. \A q \in Requests : at[q] = "put" => job[q].part \in Parts /\ job[q].bytes \in Contents
      BY DEF Inv, RequestOK, Job
    <3> QED BY <3>1
  <2> HIDE DEF R, sent
  <2>4. \A q \in Requests : RequestOK(q)'
    BY <2>1, Over
  <2>5. TypeOK'
    <3>1. late' \subseteq Parts \X Contents /\ loop' \in [Pods -> Requests \union {None}]
      BY <2>1, <2>3 DEF Inv, TypeOK
    <3> QED BY <2>1, <2>2, <3>1, OverType DEF Inv, TypeOK
  <2>6. ObjectOK'
    BY <2>1 DEF Inv, ObjectOK, AllRecorded
  <2> QED BY <2>1, <2>4, <2>5, <2>6 DEF Inv
<1>3. ASSUME NEW part \in Parts, NEW bytes \in Contents, Land(part, bytes)
      PROVE  Inv'
  <2>1. UNCHANGED <<status, recorded, multipart, object, partLock, rowLock, at, job, known, write,
                    loop, faults>>
    BY <1>3 DEF Land, session, locks, request
  <2>2. TypeOK'
    <3>1. stored' \in [Parts -> Contents \union {None}] /\ late' \subseteq Parts \X Contents
      BY <1>3 DEF Inv, TypeOK, Land, StorePart
    <3> QED BY <2>1, <3>1 DEF Inv, TypeOK
  <2>3. ObjectOK'
    BY <2>1 DEF Inv, ObjectOK, AllRecorded
  <2>4. \A q \in Requests : RequestOK(q)'
    BY <2>1 DEF Inv, RequestOK, AllRecorded
  <2> QED BY <2>1, <2>2, <2>3, <2>4 DEF Inv
<1> QED BY <1>1, <1>2, <1>3

----------------------------------------------------------------------------
(* The invariant holds, and no step breaks what was promised *)

(* Nothing is recorded, locked or under way at first.                         *)
LEMMA Initially ==
  ASSUME Init
  PROVE  Inv
<1>1. TypeOK
  BY UploadAssumption DEF Init, TypeOK, Open, Step, Nothing
<1>2. \A r \in Requests : RequestOK(r)
  BY KindAssumption DEF Init, RequestOK, Kind
<1>3. ObjectOK
  BY DEF Init, ObjectOK
<1> QED BY <1>1, <1>2, <1>3 DEF Inv

(* Every step keeps the invariant.                                            *)
LEMMA Steps ==
  ASSUME Inv, [Next]_vars
  PROVE  Inv'
<1>1. CASE UNCHANGED vars
  <2>1. UNCHANGED <<status, recorded, multipart, stored, object, late, partLock, rowLock, at, job,
                    known, write, loop, faults>>
    BY <1>1 DEF vars, session, store, locks, request
  <2>2. TypeOK' /\ ObjectOK'
    BY <2>1 DEF Inv, TypeOK, ObjectOK, AllRecorded
  <2>3. \A q \in Requests : RequestOK(q)'
    BY <2>1 DEF Inv, RequestOK, AllRecorded
  <2> QED BY <2>1, <2>2, <2>3 DEF Inv
<1>2. ASSUME NEW r \in Requests,
             (\E j \in Job : Arrive(r, j)) \/ LoopWaits(r) \/ Stream(r) \/ Reply(r)
      PROVE  Inv'
  BY <1>2, Moves DEF Arrive, LoopWaits, Stream, Reply
<1>3. ASSUME NEW r \in Requests, Grant(r)
      PROVE  Inv'
  BY <1>3, Locks, Records, LocksRow DEF Grant, LockPart, Record, LockToComplete, LockToAbort
<1>4. ASSUME NEW r \in Requests,
             \/ Put(r) \/ PutUnanswered(r) \/ CallComplete(r) \/ CompleteUnanswered(r)
             \/ CallAbort(r) \/ AbortUnanswered(r)
      PROVE  Inv'
  BY <1>4, Puts, Completes, Aborts
     DEF Put, PutUnanswered, CallComplete, CompleteUnanswered, CallAbort, AbortUnanswered
<1>5. ASSUME NEW r \in Requests, Commit(r)
      PROVE  Inv'
  BY <1>5, Commits
<1> QED BY <1>1, <1>2, <1>3, <1>4, <1>5, Loses DEF Next, Proceed

(* The invariant of uploads in parts: what a request read under a lock is     *)
(* still so, and the object is what was recorded.                             *)
THEOREM Invariance == Spec => []Inv
<1>1. Init => Inv
  BY Initially
<1>2. Inv /\ [Next]_vars => Inv'
  BY Steps
<1> QED BY <1>1, <1>2, PTL DEF Spec

(* Every variable of module PartUpload has its type in every state.           *)
THEOREM TypeCorrect == Spec => []TypeOK
<1>1. Inv => TypeOK
  BY DEF Inv
<1> QED BY <1>1, Invariance, PTL

(* The object of a staged session is what the session recorded part by part,  *)
(* whatever crashes, lost answers and late parts there were (complete_import  *)
(* and its recovery by a HEAD request).                                       *)
THEOREM StagedHoldsRecord == Spec => []StagedIsRecorded
<1>1. Inv => StagedIsRecorded
  BY DEF Inv, ObjectOK, StagedIsRecorded
<1> QED BY <1>1, Invariance, PTL

----------------------------------------------------------------------------
(* The life cycle of an upload *)

Phase == IF status \in Open THEN "open" ELSE status

(* A commit records a part that was not recorded, or settles a session whose  *)
(* row it holds: one step of the life cycle.                                  *)
LEMMA CommitIsOneStep ==
  ASSUME Inv, NEW r \in Requests, Commit(r)
  PROVE  [Upload!Next]_(Upload!uploadVars)
<1>1. job[r] \in Job /\ write[r] \in Kind \union {None}
  BY DEF Inv, TypeOK, RequestOK, Commit
<1>2. object' = object
  BY DEF Commit, store
<1>3. CASE write[r] = "part"
  <2>1. /\ job[r].part \in Parts /\ job[r].bytes \in Contents
        /\ known[r] = None /\ partLock[job[r].part] = r /\ known[r] = recorded[job[r].part]
    BY <1>1, <1>3 DEF Inv, RequestOK, Job, Commit
  <2>2. /\ recorded' = [recorded EXCEPT ![job[r].part] = job[r].bytes]
        /\ status' = StatusAfterPart(status)
    BY <1>3 DEF Commit, StatusAfter
  <2>3. Phase' = Phase
    BY <2>2 DEF Phase, StatusAfterPart, Open
  <2>4. Upload!Record(job[r].part, job[r].bytes)
    BY <1>2, <2>1, <2>2, <2>3 DEF Upload!Record, Phase
  <2> QED BY <2>1, <2>4 DEF Upload!Next
<1>4. CASE write[r] = "complete"
  <2>1. status \in Open /\ object # None
    BY <1>4 DEF Inv, RequestOK
  <2>2. status' = "STAGED" /\ recorded' = recorded
    BY <1>4 DEF Commit, StatusAfter
  <2>3. Phase = "open" /\ Phase' = "STAGED"
    BY <2>1, <2>2 DEF Phase, Open
  <2>4. Upload!Stage
    BY <1>2, <2>1, <2>2, <2>3 DEF Upload!Stage, Phase
  <2> QED BY <2>4 DEF Upload!Next
<1>5. CASE write[r] = "abort"
  <2>1. status' = "ABORTED" /\ recorded' = recorded
    BY <1>5 DEF Commit, StatusAfter
  <2>2. Phase' = "ABORTED"
    BY <2>1 DEF Phase, Open
  <2>3. Upload!Abort
    BY <1>2, <2>1, <2>2 DEF Upload!Abort, Phase
  <2> QED BY <2>3 DEF Upload!Next
<1>6. CASE write[r] = None
  <2>1. status' = status /\ recorded' = recorded
    BY <1>6, KindAssumption DEF Commit, StatusAfter, Kind
  <2> QED BY <1>2, <2>1 DEF Upload!uploadVars
<1> QED BY <1>1, <1>3, <1>4, <1>5, <1>6 DEF Kind

(* The store makes an object only in a completion that holds the row of an    *)
(* open session, from all its recorded parts, and only the first one.         *)
LEMMA CompletionIsOneStep ==
  ASSUME Inv, NEW r \in Requests, CallComplete(r) \/ CompleteUnanswered(r)
  PROVE  [Upload!Next]_(Upload!uploadVars)
<1>1. status \in Open /\ AllRecorded
  BY DEF Inv, RequestOK, CallComplete, CompleteUnanswered
<1>2. /\ UNCHANGED <<status, recorded>>
      /\ object' = IF Assembles THEN stored ELSE object
  BY DEF CallComplete, CompleteUnanswered, session
<1>3. CASE Assembles
  <2>1. object = None /\ object' = recorded
    BY <1>2, <1>3 DEF Assembles, Inv, ObjectOK
  <2>2. Upload!Assemble
    BY <1>1, <1>2, <2>1 DEF Upload!Assemble, AllRecorded
  <2> QED BY <2>2 DEF Upload!Next
<1>4. CASE ~Assembles
  BY <1>2, <1>4 DEF Upload!uploadVars
<1> QED BY <1>3, <1>4

(* All other steps change neither the session nor the object.                 *)
LEMMA OthersStutter ==
  ASSUME Inv, [Next]_vars
  PROVE  \/ UNCHANGED <<status, recorded, object>>
         \/ \E r \in Requests : Commit(r) \/ CallComplete(r) \/ CompleteUnanswered(r)
  BY DEF Next, vars, session, store, request, Arrive, LoopWaits, Grant, LockPart, Record,
         LockToComplete, LockToAbort, Proceed, Stream, Put, CallAbort, Reply, PutUnanswered,
         AbortUnanswered, CommitFails, Crash, Land

(* However requests, pods and retries overlap, and whatever is lost, they     *)
(* implement the life cycle of an upload: only commits and completions are    *)
(* steps of it (upload_part, complete_import, abort_import_session).          *)
THEOREM Refinement == Spec => ImplementsUpload
<1>1. Init => Upload!Init
  BY DEF Init, Upload!Init, Nothing, Open
<1>2. Inv /\ [Next]_vars => [Upload!Next]_(Upload!uploadVars)
  <2> SUFFICES ASSUME Inv, [Next]_vars
               PROVE  [Upload!Next]_(Upload!uploadVars)
    OBVIOUS
  <2>1. CASE UNCHANGED <<status, recorded, object>>
    BY <2>1 DEF Upload!uploadVars
  <2> QED BY <2>1, OthersStutter, CommitIsOneStep, CompletionIsOneStep
<1> QED BY <1>1, <1>2, Invariance, PTL DEF Spec, ImplementsUpload, Upload!Spec
=============================================================================
