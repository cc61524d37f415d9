SPECIFICATION Spec
CONSTANTS
 Rulesets={r1,r2,r3}
 Policies={p}
 Triggers={t1,t2}
 RunIds={i1,i2}
 Keys={k}
 Scopes={"asset","tenant"}
 ScopeOf <- MCScopeOf
 Users={u1,u2}
 Approvers={u1}
 Requests={q1,q2}
 None=None
SYMMETRY Symmetry
INVARIANTS
  OneActivePerScope
  ApprovedIndependently
  NoCircularWait
  RunsAreApproved
  OneRunPerKey
PROPERTIES ImplementsConfiguration
