----------------------- MODULE ConfigurationLifecycle -----------------------
(* What the approval workflow promises, without rows, locks or transactions:  *)
(* a revision is drafted, proposed and approved, by somebody who neither      *)
(* drafted nor proposed it; approving it puts it in force in its scope, in    *)
(* the place of the one before, and a scope never loses its configuration.    *)
CONSTANTS Revisions, Scopes, ScopeOf, Users

VARIABLES stage,     \* how far the revision is
          authors,   \* who drafted and proposed it
          inForce    \* the revisions in force in each scope

configurationVars == <<stage, authors, inForce>>

Init ==
  /\ stage = [v \in Revisions |-> "none"]
  /\ authors = [v \in Revisions |-> {}]
  /\ inForce = [s \in Scopes |-> {}]

Draft(v, u) ==
  /\ stage[v] = "none"
  /\ stage' = [stage EXCEPT ![v] = "draft"]
  /\ authors' = [authors EXCEPT ![v] = {u}]
  /\ UNCHANGED inForce

Propose(v, u) ==
  /\ stage[v] = "draft"
  /\ stage' = [stage EXCEPT ![v] = "proposed"]
  /\ authors' = [authors EXCEPT ![v] = @ \union {u}]
  /\ UNCHANGED inForce

Approve(v, u) ==
  /\ stage[v] = "proposed"
  /\ u \notin authors[v]
  /\ stage' = [stage EXCEPT ![v] = "approved"]
  /\ inForce' = [inForce EXCEPT ![ScopeOf[v]] = {v}]
  /\ UNCHANGED authors

Next ==
  \E v \in Revisions, u \in Users : Draft(v, u) \/ Propose(v, u) \/ Approve(v, u)

Spec == Init /\ [][Next]_configurationVars
=============================================================================
