-------------------------- MODULE UploadLifecycle ---------------------------
(* What uploading a dataset in parts promises, without requests, pods, locks  *)
(* or late answers: a part is recorded once, the object is put together once  *)
(* and from all the recorded parts, the upload is staged only then, and what  *)
(* is aborted is not staged any more.                                         *)
CONSTANTS Parts, Contents, None

VARIABLES phase,     \* "open", "STAGED" or "ABORTED"
          recorded,  \* the content recorded for each part
          object     \* what the staging key holds

uploadVars == <<phase, recorded, object>>

Init ==
  /\ phase = "open"
  /\ recorded = [p \in Parts |-> None]
  /\ object = None

Record(p, c) ==
  /\ recorded[p] = None
  /\ recorded' = [recorded EXCEPT ![p] = c]
  /\ UNCHANGED <<phase, object>>

Assemble ==
  /\ phase = "open" /\ object = None
  /\ \A p \in Parts : recorded[p] # None
  /\ object' = recorded
  /\ UNCHANGED <<phase, recorded>>

Stage ==
  /\ phase = "open" /\ object # None
  /\ phase' = "STAGED"
  /\ UNCHANGED <<recorded, object>>

Abort ==
  /\ phase' = "ABORTED"
  /\ UNCHANGED <<recorded, object>>

Next ==
  \/ \E p \in Parts, c \in Contents : Record(p, c)
  \/ Assemble \/ Stage \/ Abort

Spec == Init /\ [][Next]_uploadVars
=============================================================================
