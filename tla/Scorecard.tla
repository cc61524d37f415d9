------------------------------- MODULE Scorecard -------------------------------
(***************************************************************************)
(* From the record counts of the compute engine to the scorecard a run      *)
(* publishes: rule scores (core/rule_scoring.py), dimension and dataset     *)
(* scores with their coverage, the six-tier quality gate, the decision to   *)
(* publish, and the outlier signals a run adds (core/outlier_advisory.py).  *)
(*                                                                          *)
(* The state is the history of one asset: a ruleset and a policy, and the   *)
(* card of the last run.  A step is the next run, on a snapshot that        *)
(* differs from the last one in a single respect, so that properties can    *)
(* compare the cards of two runs.                                           *)
(*                                                                          *)
(* Scores are exact fractions <<numerator, denominator>>; the code's floats *)
(* round.  A record that fails a rule and one that cannot be cast to the    *)
(* rule's type enter every sum together and are one class here.             *)
(***************************************************************************)
EXTENDS Integers, FiniteSets, Sequences, Functions

CONSTANTS
    Dims,           \* the quality dimensions in use
    OutlierDim,     \* the dimension outlier signals carry: ACCURACY
    Rulesets,       \* the rulesets that may be active, each a tuple of rules
    Policies,       \* the scoring policies that may be active
    Rows,           \* the records of a snapshot
    MinOutlierSample \* MIN_OUTLIER_SAMPLE, the numbers a column must have for a signal

ASSUME DimsAssumption == IsFiniteSet(Dims) /\ OutlierDim \in Dims
ASSUME RowsAssumption == Rows \in Nat \ {0} /\ MinOutlierSample \in Nat \ {0}

--------------------------------------------------------------------------------
(* Fractions *)

None == <<>>
Plus(a, b) == <<a[1] * b[2] + b[1] * a[2], a[2] * b[2]>>
Scale(k, a) == <<k * a[1], a[2]>>
AtLeast(a, b) == a[1] * b[2] >= b[1] * a[2]

UpTo(top) == {a \in Int \X Int : a[2] > 0 /\ AtLeast(a, <<0, 1>>) /\ AtLeast(<<top, 1>>, a)}

Quotient(a, b) == <<a[1] * b[2], a[2] * b[1]>>

Total(f, S) == FoldFunctionOnSet(Plus, <<0, 1>>, f, S)
WeightOf(weight, S) == Total([x \in S |-> <<weight[x], 1>>], S)

Weighted(value, weight, S) ==
    Quotient(Total([x \in S |-> Scale(weight[x], value[x])], S), WeightOf(weight, S))

--------------------------------------------------------------------------------
(* What the API accepts: ruleset_schemas.py, policy_schemas.py *)

Optional(S) == S \union {None}

Rules == [dim : Dims, nulls : {"fail", "ignore", "separate", "not_applicable"}, required : BOOLEAN,
          critical : BOOLEAN, gate : BOOLEAN, scored : BOOLEAN, weight : Nat,
          threshold : Optional(UpTo(100)), advisory : BOOLEAN]

AnyPolicy == [coverage : UpTo(1), warn : UpTo(100), pass : UpTo(100), critical : Optional(UpTo(100)),
              weights : [Dims -> Nat]]

ASSUME RulesetsAssumption == Rulesets \subseteq Seq(Rules)
ASSUME PoliciesAssumption == Policies \subseteq {p \in AnyPolicy : AtLeast(p.pass, p.warn)}

VARIABLES
    rules,          \* the active ruleset
    policy,         \* the active scoring policy
    outs,           \* what the engine returned for each rule in the last run
    signals,        \* the outlier results of the last run, each by its status
    card            \* the scorecard of the last run

vars == <<rules, policy, outs, signals, card>>

--------------------------------------------------------------------------------
(* One rule *)

Records == {"passed", "failed", "missing", "outside"}
Measurements ==
    {m \in [Records -> 0..Rows] : m["passed"] + m["failed"] + m["missing"] + m["outside"] = Rows}
NoRecords == [c \in Records |-> 0]

Counted(counts) == [status |-> "MEASURED", counts |-> counts]
NotCounted(status) == [status |-> status, counts |-> NoRecords]
Unmeasured == {"NOT_MEASURABLE", "NOT_APPLICABLE", "FAILED_TO_MEASURE"}
Outputs == {Counted(m) : m \in Measurements} \union {NotCounted(s) : s \in Unmeasured}

Denominator(rule, counts) ==
    counts["passed"] + counts["failed"] + (IF rule.nulls = "fail" THEN counts["missing"] ELSE 0)

\* A mutant: missing values are never violations.
MissingIsNoViolation(rule, counts) == counts["failed"]

Violations(rule, counts) ==
    counts["failed"] + (IF rule.nulls = "fail" THEN counts["missing"] ELSE 0)

\* A rule with no record in its denominator has no score.
RuleScore(rule, counts) ==
    LET n == Denominator(rule, counts)
    IN  IF n = 0 THEN None ELSE <<100 * counts["passed"], n>>

\* Every attribute of the rule except is_advisory is copied to its result.
Result(i, rule, out) ==
    LET score == IF out.status = "MEASURED" THEN RuleScore(rule, out.counts) ELSE None
    IN  [id |-> i, dim |-> rule.dim, required |-> rule.required, critical |-> rule.critical,
         gate |-> rule.gate, scored |-> rule.scored, weight |-> rule.weight,
         threshold |-> rule.threshold, advisory |-> FALSE,
         status |-> IF out.status = "MEASURED" /\ score = None THEN "NOT_MEASURABLE" ELSE out.status,
         score |-> score,
         violations |-> IF score # None THEN Violations(rule, out.counts) ELSE 0]

--------------------------------------------------------------------------------
(* Outlier signals *)

\* A column of the snapshot: whether it is there, how many of its values are numbers,
\* and whether their quartiles differ.
Columns == [there : BOOLEAN, numbers : 0..Rows, spread : BOOLEAN]

\* The interquartile range is 0 without enough numbers.
DetectOutliers(column) ==
    LET evaluated == IF column.there THEN column.numbers ELSE 0
    IN  [evaluated |-> evaluated, range |-> evaluated >= MinOutlierSample /\ column.spread]

SignalOf(column) ==
    LET out == DetectOutliers(column)
    IN  IF out.evaluated >= MinOutlierSample /\ out.range THEN "MEASURED" ELSE "NOT_MEASURABLE"

Outlier(status) ==
    [id |-> 0, dim |-> OutlierDim, required |-> FALSE, critical |-> FALSE, gate |-> FALSE,
     scored |-> FALSE, weight |-> 0, threshold |-> None, advisory |-> TRUE,
     status |-> status, score |-> None, violations |-> 1]

Results(rs, os, sigs) ==
    {Result(i, rs[i], os[i]) : i \in DOMAIN rs} \union {Outlier(s) : s \in sigs}

--------------------------------------------------------------------------------
(* Dimensions and the dataset *)

MeasuredRule(r) ==
    r.status = "MEASURED" /\ r.scored /\ ~r.advisory /\ r.score # None /\ r.weight > 0

ExpectedRule(r) ==
    r.status # "NOT_APPLICABLE" /\ r.scored /\ ~r.advisory /\ r.weight > 0

Required(R) == {r.dim : r \in {x \in R : ExpectedRule(x)}}

MeasuredIn(R, d) == {r \in R : r.dim = d /\ MeasuredRule(r)}
ExpectedIn(R, d) == {r \in R : r.dim = d /\ ExpectedRule(r)}
Weights(S) == [r \in S |-> r.weight]

\* A mutant: a rule that was not measured counts as a score of 0.
UnmeasuredScoresZero(R, d) ==
    IF MeasuredIn(R, d) = {} THEN None
    ELSE Weighted([r \in R |-> IF r.score = None THEN <<0, 1>> ELSE r.score], Weights(R), ExpectedIn(R, d))

DimScore(R, d) ==
    IF MeasuredIn(R, d) = {} THEN None
    ELSE Weighted([r \in R |-> r.score], Weights(R), MeasuredIn(R, d))

DimCoverage(R, d) ==
    IF ExpectedIn(R, d) = {} THEN None
    ELSE Quotient(WeightOf(Weights(R), MeasuredIn(R, d)), WeightOf(Weights(R), ExpectedIn(R, d)))

Score(R, p) ==
    LET D == {d \in Dims : DimScore(R, d) # None /\ p.weights[d] > 0}
    IN  IF D = {} THEN None
        ELSE Weighted([d \in Dims |-> DimScore(R, d)], p.weights, D)

Coverage(R, p) ==
    LET D == {d \in Dims : DimCoverage(R, d) # None /\ p.weights[d] > 0}
    IN  IF D = {} THEN None
        ELSE Weighted([d \in Dims |-> DimCoverage(R, d)], p.weights, D)

--------------------------------------------------------------------------------
(* The gate and publication *)

TechnicalFailure(R) == \E r \in R : r.required /\ r.status = "FAILED_TO_MEASURE"

UnmeasuredRequired(R) == \E r \in R : r.required /\ r.status = "NOT_MEASURABLE"

\* A mutant: the comparison with the acceptance threshold the wrong way round.
BelowThreshold(r, threshold) == AtLeast(threshold, r.score)

MeetsThreshold(r, threshold) == AtLeast(r.score, threshold)

CriticalViolated(r, p) ==
    LET threshold == IF r.threshold # None THEN r.threshold ELSE p.critical
    IN  /\ r.critical /\ r.gate /\ ~r.advisory /\ r.status = "MEASURED"
        /\ IF threshold # None THEN ~MeetsThreshold(r, threshold) ELSE r.violations > 0

\* The dimensions the gate takes for measured; a rule of weight 0 is enough.
GateDims(R) ==
    {r.dim : r \in {x \in R : x.status = "MEASURED" /\ x.scored /\ ~x.advisory /\ x.score # None}}

Covers(coverage, p) == coverage # None /\ AtLeast(coverage, p.coverage)

Insufficient(R, p, score, coverage) ==
    \/ ~Covers(coverage, p)
    \/ score = None
    \/ UnmeasuredRequired(R)
    \/ ~(Required(R) \subseteq GateDims(R))

Gate(R, p, score, coverage) ==
    IF TechnicalFailure(R) THEN "ERROR"
    ELSE IF \E r \in R : CriticalViolated(r, p) THEN "FAIL"
    ELSE IF Insufficient(R, p, score, coverage) THEN "INSUFFICIENT_EVIDENCE"
    ELSE IF ~AtLeast(score, p.warn) THEN "FAIL"
    ELSE IF ~AtLeast(score, p.pass) THEN "WARN"
    ELSE "PASS"

\* A mutant: publication asks for more than the threshold the gate asks for.
PublishedAbove(R, p, gate, score, coverage) ==
    /\ gate \notin {"ERROR", "INSUFFICIENT_EVIDENCE"}
    /\ Covers(coverage, p) /\ ~AtLeast(p.coverage, coverage)
    /\ \A d \in Required(R) : DimScore(R, d) # None
    /\ ~TechnicalFailure(R)
    /\ ~UnmeasuredRequired(R)
    /\ score # None

Published(R, p, gate, score, coverage) ==
    /\ gate \notin {"ERROR", "INSUFFICIENT_EVIDENCE"}
    /\ Covers(coverage, p)
    /\ \A d \in Required(R) : DimScore(R, d) # None
    /\ ~TechnicalFailure(R)
    /\ ~UnmeasuredRequired(R)
    /\ score # None

Card(R, p) ==
    LET score == Score(R, p)
        coverage == Coverage(R, p)
        gate == Gate(R, p, score, coverage)
        published == Published(R, p, gate, score, coverage)
    IN  [gate |-> gate, published |-> published, coverage |-> coverage,
         score |-> IF published THEN score ELSE None]

--------------------------------------------------------------------------------
(* The runs of one asset *)

Init ==
    /\ rules \in Rulesets
    /\ policy \in Policies
    /\ outs = [i \in DOMAIN rules |-> NotCounted("NOT_MEASURABLE")]
    /\ signals = {}
    /\ card = Card(Results(rules, outs, signals), policy)

\* A run whose engine returned these outputs and outlier results.
Run(os, sigs) ==
    /\ outs' = os
    /\ signals' = sigs
    /\ card' = Card(Results(rules, os, sigs), policy)
    /\ UNCHANGED <<rules, policy>>

\* An empty snapshot: every rule is NOT_MEASURABLE, or NOT_APPLICABLE when the
\* snapshot's metadata says that it has rows.
RunOnEmpty == \E s \in {"NOT_MEASURABLE", "NOT_APPLICABLE"} :
    Run([i \in DOMAIN rules |-> NotCounted(s)],
        IF signals = {} THEN {} ELSE {"NOT_MEASURABLE"})

\* A snapshot with rows, on which every record passes every rule.
RunOnClean ==
    Run([i \in DOMAIN rules |-> Counted([NoRecords EXCEPT !["passed"] = Rows])], signals)

Moved(counts, a, b) == [counts EXCEPT ![a] = @ - 1, ![b] = @ + 1]

\* One record that passed, failed, was missing or out of scope is now another.
RunOnChanged == \E i \in DOMAIN rules, a, b \in Records :
    /\ outs[i].status = "MEASURED"
    /\ a # b
    /\ outs[i].counts[a] > 0
    /\ Run([outs EXCEPT ![i] = Counted(Moved(outs[i].counts, a, b))], signals)

\* The rule cannot be compiled against the snapshot's columns.
RunWithFailure == \E i \in DOMAIN rules :
    /\ outs[i].status = "MEASURED"
    /\ Run([outs EXCEPT ![i] = NotCounted("FAILED_TO_MEASURE")], signals)

\* Other columns are checked for outliers, some with too few numbers or no spread.
RunWithSignals == \E sigs \in SUBSET {SignalOf(column) : column \in Columns} :
    /\ \E i \in DOMAIN rules : outs[i].status = "MEASURED"
    /\ sigs # signals
    /\ Run(outs, sigs)

Next == RunOnEmpty \/ RunOnClean \/ RunOnChanged \/ RunWithFailure \/ RunWithSignals

Spec == Init /\ [][Next]_vars

--------------------------------------------------------------------------------
(* Properties *)

\* Every count, score and coverage the cards are made of has its type and range.
TypeOK ==
    /\ rules \in Rulesets /\ policy \in Policies /\ signals \subseteq {"MEASURED", "NOT_MEASURABLE"}
    /\ outs \in [DOMAIN rules -> Outputs]
    /\ card.gate \in {"ERROR", "FAIL", "INSUFFICIENT_EVIDENCE", "WARN", "PASS"}
    /\ card.published \in BOOLEAN
    /\ card.score \in Optional(UpTo(100)) /\ card.coverage \in Optional(UpTo(1))

\* A published score is a mean of the scores of the rules that count: it is no
\* lower than the worst and no higher than the best of them.  A rule that could
\* not be measured costs coverage and no score (dimension_scoring.py, R_d^m).
ScoreIsMean ==
    LET counting == {r \in Results(rules, outs, signals) :
                        MeasuredRule(r) /\ policy.weights[r.dim] > 0}
    IN  card.published =>
            /\ \E r \in counting : AtLeast(card.score, r.score)
            /\ \E r \in counting : AtLeast(r.score, card.score)

\* What a gate of PASS or WARN says of the rules (README.md:39: of those that are not
\* advisory).  A required rule does not apply, or was measured on records that count.
\* Zero tolerance: where a critical gate rule was measured and neither it nor the
\* policy has a threshold, no record failed it, and none was missing where the rule
\* counts the missing (quality_gate.py, _is_critical_violated).  Of a critical rule
\* that is not required and could not be measured the gate says nothing.
PassMeansClean ==
    card.gate \in {"PASS", "WARN"} =>
        \A i \in {j \in DOMAIN rules : ~rules[j].advisory} :
            /\ rules[i].required =>
                  \/ outs[i].status = "NOT_APPLICABLE"
                  \/ outs[i].status = "MEASURED" /\ Denominator(rules[i], outs[i].counts) > 0
            /\ (/\ rules[i].critical /\ rules[i].gate /\ outs[i].status = "MEASURED"
                /\ rules[i].threshold = None /\ policy.critical = None) =>
                  /\ outs[i].counts["failed"] = 0
                  /\ rules[i].nulls = "fail" => outs[i].counts["missing"] = 0

\* The counts n are those of m with some records repaired: fewer fail or are missing, and
\* no other has come into the rule's scope.
Repairs(m, n) ==
    /\ n["outside"] = m["outside"]
    /\ \A c \in {"failed", "missing"} : n[c] <= m[c]

\* The run differs from the last one in repaired records only, of one rule or of many.
Repaired ==
    /\ outs' # outs
    /\ \A i \in DOMAIN rules :
        outs'[i] # outs[i] =>
            /\ outs[i].status = "MEASURED" /\ outs'[i].status = "MEASURED"
            /\ Repairs(outs[i].counts, outs'[i].counts)

NoWorse(new, old) ==
    /\ old.gate = "PASS" => new.gate = "PASS"
    /\ old.gate = "WARN" => new.gate \in {"WARN", "PASS"}
    /\ old.published => new.published /\ AtLeast(new.score, old.score)

\* A run on a snapshot in which records were repaired, however many and under whichever
\* rules, is never judged worse: a PASS stays a PASS, a WARN does not become a FAIL, and a
\* published score stays published and does not fall.
RepairNeverHurts == [][Repaired => NoWorse(card', card)]_vars

\* Where every scoring rule has weight, the gate and the publication check agree
\* on the evidence: a card that passes or warns is published.
PassIsPublished ==
    (card.gate \in {"PASS", "WARN"} /\ \A i \in DOMAIN rules : rules[i].scored => rules[i].weight > 0)
        => card.published

================================================================================
