---------------------------- MODULE RunLifecycle ----------------------------
(* What the evaluation queue promises its clients about a run, without        *)
(* leases, locks, daemons or events: a submitted run is granted to one        *)
(* evaluation after another, each in an epoch of its own, and the evaluation  *)
(* of the latest epoch, and no other, settles it, once and in one step.       *)
EXTENDS Naturals

CONSTANT Runs

VARIABLES phase,    \* how far the run is
          epoch,    \* evaluations granted so far
          result    \* what the clients see: published assessments and failures

lifecycleVars == <<phase, epoch, result>>

Outcome == {"published", "failed"}

Init ==
  /\ phase = [r \in Runs |-> "new"]
  /\ epoch = [r \in Runs |-> 0]
  /\ result = [r \in Runs |-> {}]

Submit(r) ==
  /\ phase[r] = "new"
  /\ phase' = [phase EXCEPT ![r] = "waiting"]
  /\ UNCHANGED <<epoch, result>>

Grant(r) ==
  /\ phase[r] \in {"waiting", "granted"}
  /\ phase' = [phase EXCEPT ![r] = "granted"]
  /\ epoch' = [epoch EXCEPT ![r] = @ + 1]
  /\ UNCHANGED result

Settle(r, outcome) ==
  /\ phase[r] = "granted"
  /\ phase' = [phase EXCEPT ![r] = "settled"]
  /\ result' = [result EXCEPT ![r] = {[epoch |-> epoch[r], outcome |-> outcome]}]
  /\ UNCHANGED epoch

Next ==
  \E r \in Runs : Submit(r) \/ Grant(r) \/ \E outcome \in Outcome : Settle(r, outcome)

Spec == Init /\ [][Next]_lifecycleVars
=============================================================================
