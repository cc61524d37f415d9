----------------------------- MODULE PartUpload -----------------------------
(* Uploading one dataset in parts: the handlers upload_part, complete_import  *)
(* and abort_import_session of the API pods, the locks they take in           *)
(* PostgreSQL, and the multipart upload they drive in the object store.       *)
(*                                                                            *)
(* complete_import and abort_import_session are plain functions and run in    *)
(* the pod's thread pool; upload_part is a coroutine, so its SQL statements   *)
(* run on the pod's event loop and, when they wait for a lock, the loop       *)
(* waits with them.  Every request holds one transaction, which the           *)
(* dependency get_db_connection commits after the response has been sent.     *)
(*                                                                            *)
(* Abstractions.  A part's digest, ETag and bytes are one value: equal bytes  *)
(* have equal digests.  All parts have their declared length, as the handler  *)
(* checks.  Expiry of the session is left to module ImportSession.            *)
EXTENDS Naturals, FiniteSets

CONSTANTS Parts,       \* 1 .. part_count
          Contents,    \* what a client may send as a part
          Requests,    \* requests that can be under way at a time
          Pods,        \* API pods, one event loop each
          InFlight,    \* requests under way in one pod, at most
          MaxFaults,   \* crashes and lost answers in a behaviour
          None

ASSUME UploadAssumption ==
  /\ InFlight \in Nat \ {0} /\ MaxFaults \in Nat
  /\ None \notin Contents /\ None \notin Requests /\ Parts # {}

VARIABLES
  status,      \* dataset_upload_sessions.status
  recorded,    \* manifest.parts: the digest recorded for each part
  multipart,   \* the multipart upload in the object store
  stored,      \* the parts it holds
  object,      \* the object under the staging key
  late,        \* part uploads of crashed pods the store has not seen yet
  partLock,    \* holder of each part's advisory lock
  rowLock,     \* holder of the session's row lock
  at,          \* where each request is
  job,         \* what each request asks for
  known,       \* the digest upload_part read for its part
  write,       \* what the request's transaction will change when it commits
  loop,        \* the request whose statement keeps a pod's event loop waiting
  faults

session == <<status, recorded>>
store == <<multipart, stored, object, late>>
locks == <<partLock, rowLock>>
request == <<at, job, known, write>>
vars == <<session, store, locks, request, loop, faults>>

Open == {"INITIATED", "UPLOADING"}
Kind == {"part", "complete", "abort"}
ASSUME KindAssumption == None \notin Kind
Job == [kind : Kind, pod : Pods, part : Parts, bytes : Contents]
Step == {"free", "lock", "stream", "put", "record", "call", "reply", "exit"}
Nothing == [p \in Parts |-> None]

TypeOK ==
  /\ status \in Open \union {"STAGED", "ABORTED"}
  /\ recorded \in [Parts -> Contents \union {None}]
  /\ multipart \in {"open", "completed", "aborted"}
  /\ stored \in [Parts -> Contents \union {None}]
  /\ object \in [Parts -> Contents] \union {None}
  /\ late \subseteq Parts \X Contents
  /\ partLock \in [Parts -> Requests \union {None}]
  /\ rowLock \in Requests \union {None}
  /\ at \in [Requests -> Step]
  /\ job \in [Requests -> Job \union {None}]
  /\ known \in [Requests -> Contents \union {None}]
  /\ write \in [Requests -> Kind \union {None}]
  /\ loop \in [Pods -> Requests \union {None}]
  /\ faults \in 0 .. MaxFaults

Init ==
  /\ status = "INITIATED" /\ recorded = Nothing
  /\ multipart = "open" /\ stored = Nothing /\ object = None /\ late = {}
  /\ partLock = Nothing /\ rowLock = None
  /\ at = [r \in Requests |-> "free"]
  /\ job = [r \in Requests |-> None]
  /\ known = [r \in Requests |-> None]
  /\ write = [r \in Requests |-> None]
  /\ loop = [p \in Pods |-> None]
  /\ faults = 0

Fault == faults < MaxFaults /\ faults' = faults + 1

Goto(r, step) == at' = [at EXCEPT ![r] = step]

(* Code of r that runs on the event loop: it has the loop, or the loop is free. *)
OnLoop(r) == loop[job[r].pod] \in {None, r}
LeaveLoop(r) == loop' = [loop EXCEPT ![job[r].pod] = None]

Arrive(r, j) ==
  /\ at[r] = "free"
  /\ loop[j.pod] = None
  /\ Cardinality({q \in Requests : at[q] # "free" /\ job[q].pod = j.pod}) < InFlight
  /\ job' = [job EXCEPT ![r] = j]
  /\ Goto(r, "lock")
  /\ UNCHANGED <<session, store, locks, known, write, loop, faults>>

(* The statement r has to execute next waits for a lock that is taken. *)
Waits(r) ==
  \/ at[r] = "lock" /\ job[r].kind = "part" /\ partLock[job[r].part] # None
  \/ at[r] = "record" /\ rowLock # None

LoopWaits(r) ==
  /\ Waits(r)
  /\ loop[job[r].pod] = None
  /\ loop' = [loop EXCEPT ![job[r].pod] = r]
  /\ UNCHANGED <<session, store, locks, request, faults>>

----------------------------------------------------------------------------
(* upload_part *)

(* pg_advisory_xact_lock, then get_by_id and the checks on the status. *)
LockPart(r) ==
  /\ at[r] = "lock" /\ job[r].kind = "part"
  /\ OnLoop(r)
  /\ partLock[job[r].part] = None
  /\ partLock' = [partLock EXCEPT ![job[r].part] = r]
  /\ known' = [known EXCEPT ![r] = recorded[job[r].part]]
  /\ Goto(r, IF status \in Open THEN "stream" ELSE "reply")
  /\ LeaveLoop(r)
  /\ UNCHANGED <<session, store, rowLock, job, write, faults>>

(* The part was recorded before: the old ETag, or PART_CHECKSUM_MISMATCH. *)
Replayed(r) == known[r] # None

(* The body is spooled to a file; it may be short or break off.  What to do   *)
(* with it is decided by the digest read before the wait.                     *)
Stream(r) ==
  /\ at[r] = "stream"
  /\ loop[job[r].pod] = None
  /\ \E next \in {"reply", IF Replayed(r) THEN "reply" ELSE "put"} : Goto(r, next)
  /\ UNCHANGED <<session, store, locks, job, known, write, loop, faults>>

(* The object store takes a part as long as the multipart upload is open. *)
StorePart(part, bytes) ==
  stored' = IF multipart = "open" THEN [stored EXCEPT ![part] = bytes] ELSE stored

(* store.upload_part, in the thread pool; an error is a 500 and a rollback,   *)
(* and the store may have taken the part all the same.                        *)
Put(r) ==
  /\ at[r] = "put"
  /\ StorePart(job[r].part, job[r].bytes)
  /\ Goto(r, IF multipart = "open" THEN "record" ELSE "reply")
  /\ UNCHANGED <<session, multipart, object, late, locks, job, known, write, loop, faults>>

PutUnanswered(r) ==
  /\ at[r] = "put"
  /\ Fault
  /\ StorePart(job[r].part, job[r].bytes)
  /\ Goto(r, "reply")
  /\ UNCHANGED <<session, multipart, object, late, locks, job, known, write, loop>>

(* record_part: its UPDATE takes the row lock, its effect shows at the commit. *)
Record(r) ==
  /\ at[r] = "record"
  /\ OnLoop(r)
  /\ rowLock = None
  /\ rowLock' = r
  /\ write' = [write EXCEPT ![r] = "part"]
  /\ Goto(r, "reply")
  /\ LeaveLoop(r)
  /\ UNCHANGED <<session, store, partLock, job, known, faults>>

----------------------------------------------------------------------------
(* complete_import and abort_import_session *)

AllRecorded == \A p \in Parts : recorded[p] # None

(* complete_import's SELECT ... FOR UPDATE and its checks.  The client may    *)
(* also have supplied other ETags than the recorded ones.                     *)
LockToComplete(r) ==
  /\ at[r] = "lock" /\ job[r].kind = "complete"
  /\ rowLock = None
  /\ rowLock' = r
  /\ \E next \in {"reply", IF status \in Open /\ AllRecorded THEN "call" ELSE "reply"} :
       Goto(r, next)
  /\ UNCHANGED <<session, store, partLock, job, known, write, loop, faults>>

(* abort_import_session's; nothing is left to abort in the store once the     *)
(* session is STAGED or ABORTED.                                              *)
LockToAbort(r) ==
  /\ at[r] = "lock" /\ job[r].kind = "abort"
  /\ rowLock = None
  /\ rowLock' = r
  /\ IF status \in Open
     THEN Goto(r, "call") /\ UNCHANGED write
     ELSE Goto(r, "reply") /\ write' = [write EXCEPT ![r] = "abort"]
  /\ UNCHANGED <<session, store, partLock, job, known, loop, faults>>

(* The store assembles the object if every ETag is that of the part it holds. *)
Assembles == multipart = "open" /\ stored = recorded

(* Mutant: a completion that failed is taken for one that succeeded earlier. *)
CompleteAnyway(r) ==
  /\ at[r] = "call" /\ job[r].kind = "complete"
  /\ multipart' = IF Assembles THEN "completed" ELSE multipart
  /\ object' = IF Assembles THEN stored ELSE object
  /\ write' = [write EXCEPT ![r] = "complete"]
  /\ Goto(r, "reply")
  /\ UNCHANGED <<session, stored, late, locks, job, known, loop, faults>>

(* complete_multipart; when it fails, a HEAD of the staging key tells whether *)
(* an earlier attempt had succeeded.                                          *)
CallComplete(r) ==
  /\ at[r] = "call" /\ job[r].kind = "complete"
  /\ multipart' = IF Assembles THEN "completed" ELSE multipart
  /\ object' = IF Assembles THEN stored ELSE object
  /\ write' = [write EXCEPT ![r] = IF object' # None THEN "complete" ELSE None]
  /\ Goto(r, "reply")
  /\ UNCHANGED <<session, stored, late, locks, job, known, loop, faults>>

(* Neither call was answered, and the first may have had its effect. *)
CompleteUnanswered(r) ==
  /\ at[r] = "call" /\ job[r].kind = "complete"
  /\ Fault
  /\ multipart' = IF Assembles THEN "completed" ELSE multipart
  /\ object' = IF Assembles THEN stored ELSE object
  /\ Goto(r, "reply")
  /\ UNCHANGED <<session, stored, late, locks, job, known, write, loop>>

(* abort_multipart; the store's "no such upload" counts as done. *)
CallAbort(r) ==
  /\ at[r] = "call" /\ job[r].kind = "abort"
  /\ multipart' = IF multipart = "open" THEN "aborted" ELSE multipart
  /\ write' = [write EXCEPT ![r] = "abort"]
  /\ Goto(r, "reply")
  /\ UNCHANGED <<session, stored, object, late, locks, job, known, loop, faults>>

(* STORAGE_UNAVAILABLE: the session is left as it is. *)
AbortUnanswered(r) ==
  /\ at[r] = "call" /\ job[r].kind = "abort"
  /\ Fault
  /\ multipart' \in {multipart, IF multipart = "open" THEN "aborted" ELSE multipart}
  /\ Goto(r, "reply")
  /\ UNCHANGED <<session, stored, object, late, locks, job, known, write, loop>>

----------------------------------------------------------------------------
(* The end of a request *)

(* The event loop sends the response and hands the commit to a thread. *)
Reply(r) ==
  /\ at[r] = "reply"
  /\ loop[job[r].pod] = None
  /\ Goto(r, "exit")
  /\ UNCHANGED <<session, store, locks, job, known, write, loop, faults>>

(* Mutant: a recorded part always means UPLOADING. *)
UploadingAgain(s) == "UPLOADING"

(* record_part's CASE. *)
StatusAfterPart(s) == IF s = "INITIATED" THEN "UPLOADING" ELSE s

StatusAfter(r) ==
  CASE write[r] = "part" -> StatusAfterPart(status)
    [] write[r] = "complete" -> "STAGED"
    [] write[r] = "abort" -> "ABORTED"
    [] OTHER -> status

(* The transactions of the requests R end, and their locks with them. *)
Release(R) ==
  /\ partLock' = [p \in Parts |-> IF partLock[p] \in R THEN None ELSE partLock[p]]
  /\ rowLock' = IF rowLock \in R THEN None ELSE rowLock

(* The requests R are over. *)
Forget(R) ==
  /\ at' = [r \in Requests |-> IF r \in R THEN "free" ELSE at[r]]
  /\ job' = [r \in Requests |-> IF r \in R THEN None ELSE job[r]]
  /\ known' = [r \in Requests |-> IF r \in R THEN None ELSE known[r]]
  /\ write' = [r \in Requests |-> IF r \in R THEN None ELSE write[r]]

(* get_db_connection commits; record_part and transition_staged show. *)
Commit(r) ==
  /\ at[r] = "exit"
  /\ status' = StatusAfter(r)
  /\ recorded' = IF write[r] = "part"
                 THEN [recorded EXCEPT ![job[r].part] = job[r].bytes] ELSE recorded
  /\ Release({r})
  /\ Forget({r})
  /\ UNCHANGED <<store, loop, faults>>

(* The commit fails after the client has been told otherwise. *)
CommitFails(r) ==
  /\ at[r] = "exit"
  /\ Fault
  /\ Release({r})
  /\ Forget({r})
  /\ UNCHANGED <<session, store, loop>>

(* A pod dies: its transactions roll back, its part uploads may still land. *)
Crash(p) ==
  LET R == {r \in Requests : at[r] # "free" /\ job[r].pod = p} IN
  /\ R # {}
  /\ Fault
  /\ late' = late \union {<<job[r].part, job[r].bytes>> : r \in {q \in R : at[q] = "put"}}
  /\ Release(R)
  /\ Forget(R)
  /\ loop' = [loop EXCEPT ![p] = None]
  /\ UNCHANGED <<session, multipart, stored, object>>

Land(part, bytes) ==
  /\ <<part, bytes>> \in late
  /\ late' = late \ {<<part, bytes>>}
  /\ StorePart(part, bytes)
  /\ UNCHANGED <<session, multipart, object, locks, request, loop, faults>>

Grant(r) == LockPart(r) \/ Record(r) \/ LockToComplete(r) \/ LockToAbort(r)

Proceed(r) ==
  Stream(r) \/ Put(r) \/ CallComplete(r) \/ CallAbort(r) \/ Reply(r) \/ Commit(r)

Next ==
  \/ \E r \in Requests :
       \/ \E j \in Job : Arrive(r, j)
       \/ LoopWaits(r) \/ Grant(r) \/ Proceed(r)
       \/ PutUnanswered(r) \/ CompleteUnanswered(r) \/ AbortUnanswered(r) \/ CommitFails(r)
  \/ \E p \in Pods : Crash(p)
  \/ \E part \in Parts, bytes \in Contents : Land(part, bytes)

Spec == Init /\ [][Next]_vars

(* PostgreSQL grants a lock in the order of the requests for it, an event     *)
(* loop and a thread pool serve what is ready in order, and a client sends    *)
(* its body or goes away.  Clients and faults owe nothing.                    *)
Fairness == \A r \in Requests : SF_vars(Grant(r)) /\ SF_vars(Proceed(r))

FairSpec == Spec /\ Fairness

----------------------------------------------------------------------------
(* Properties *)

(* The object the import goes on with is what the session recorded part by    *)
(* part, also when it was found by a HEAD after a lost answer: the recovery   *)
(* compares sizes only.                                                       *)
StagedIsRecorded ==
  /\ status = "STAGED" => object # None
  /\ object # None => object = recorded

Upload == INSTANCE UploadLifecycle WITH
  phase <- IF status \in Open THEN "open" ELSE status

(* However requests, pods and retries overlap, and whatever is lost, they     *)
(* implement the life cycle: a recorded digest is never replaced, the object  *)
(* is put together once, while the session is open, and a part or completion  *)
(* still under way does not bring a staged or aborted session back.           *)
ImplementsUpload == Upload!Spec

(* Every request is answered and its transaction ends. *)
EveryRequestEnds == \A r \in Requests : at[r] = "lock" ~> at[r] = "free"
=============================================================================
