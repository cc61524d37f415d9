---- MODULE MCScorecard ----
(* Rulesets and policies for TLC.  A rule is named by what makes it different  *)
(* from an ordinary rule of weight 1 that counts missing values as failures.   *)
EXTENDS Scorecard, SequencesExt

MCDims == {"ACCURACY", "VALIDITY"}

Rule(d) == [dim |-> d, nulls |-> "fail", required |-> FALSE, critical |-> FALSE, gate |-> TRUE,
            scored |-> TRUE, weight |-> 1, threshold |-> None, advisory |-> FALSE]
Ordinary == Rule("VALIDITY")
Heavy == [Rule("ACCURACY") EXCEPT !.weight = 3, !.nulls = "ignore"]
Needed == [Rule("VALIDITY") EXCEPT !.required = TRUE, !.nulls = "ignore"]
Critical == [Rule("VALIDITY") EXCEPT !.critical = TRUE]
Tolerant == [Rule("ACCURACY") EXCEPT !.critical = TRUE, !.threshold = <<50, 1>>]
Lenient == [Rule("ACCURACY") EXCEPT !.critical = TRUE, !.nulls = "ignore", !.required = TRUE]
GateOnly == [Rule("ACCURACY") EXCEPT !.critical = TRUE, !.scored = FALSE]
Weightless == [Rule("VALIDITY") EXCEPT !.weight = 0]
Advisory == [Rule("VALIDITY") EXCEPT !.critical = TRUE, !.scored = FALSE, !.weight = 0, !.advisory = TRUE]

Shapes == {Ordinary, Heavy, Needed, Critical, Tolerant, Lenient, GateOnly, Weightless, Advisory}

MCRulesets == {SetToSeq(s) : s \in kSubset(1, Shapes) \union kSubset(2, Shapes)}

Policy(coverage, critical, weights) ==
    [coverage |-> coverage, warn |-> <<60, 1>>, pass |-> <<80, 1>>, critical |-> critical, weights |-> weights]
Equal == [d \in MCDims |-> 1]
MCPolicies == {Policy(<<4, 5>>, None, Equal), Policy(<<1, 4>>, None, [Equal EXCEPT !["ACCURACY"] = 3]),
               Policy(<<1, 2>>, <<50, 1>>, Equal), Policy(<<0, 1>>, None, [Equal EXCEPT !["VALIDITY"] = 0])}
================================================================================
