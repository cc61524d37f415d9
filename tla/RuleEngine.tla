------------------------------- MODULE RuleEngine -------------------------------
(***************************************************************************)
(* The compute engine of a daemon: execute_rules of spark_compute.py runs a *)
(* ruleset over the records of a snapshot in one pass and returns, for each *)
(* rule, how many records passed, failed, were missing, miscast or out of   *)
(* scope, and a sample of the records that broke it.                        *)
(*                                                                          *)
(* Spelling rules make it stateful: a ruleset pins the digests of the       *)
(* dictionary installed when it was written, the operator may install       *)
(* another one, and the Python worker of Spark keeps evaluators from run to *)
(* run under a digest of their own.                                         *)
(***************************************************************************)
EXTENDS RuleCompiler, Functions

CONSTANTS
    Dictionaries,   \* what may be installed: [revision, digest]
    Rulesets,       \* rulesets as their authors send them, sequences of rules
    Snapshots,      \* [columns, structured, rows]
    SampleLimit,    \* records of evidence kept for a rule
    CacheSize       \* evaluators a Python worker keeps

Types == {"NON_NULL", "TYPE_PARSE", "UNIQUENESS", "VALUES", "PATTERN", "YEAR", "RANGE", "CROSS_FIELD",
          "TEXT_QUALITY", "JSON_FIELD", "JSON_ARRAY", "SPELLING"}
Checks == {"NON_NULL", "TYPE", "RANGE", "REGEX", "ALLOWED_VALUES"}

\* What the request and parameter models let through.
Readable(rule) ==
    /\ "type" \in DOMAIN rule /\ rule.type \in Types
    /\ rule.type = "YEAR" => rule.year # None
    /\ rule.type = "JSON_FIELD" => rule.check \in Checks
    /\ rule.type \in {"JSON_FIELD", "JSON_ARRAY"} => rule.path \in Seq(Range(rule.path))

ASSUME LimitsAssumption == CacheSize \in Nat \ {0} /\ SampleLimit \in Nat
ASSUME RulesetsAssumption ==
    \A rs \in Rulesets : rs \in Seq(Range(rs)) /\ \A i \in DOMAIN rs : Readable(rs[i])
ASSUME SnapshotsAssumption == \A s \in Snapshots : s.rows \in Seq(Range(s.rows))

VARIABLES
    installed,      \* the dictionary the manifest describes, None if it is unusable
    rules,          \* the active ruleset
    data,           \* the current snapshot
    outs,           \* the outputs of the last run on it, None if it has none
    cache           \* the Python worker's evaluators, the oldest first

vars == <<installed, rules, data, outs, cache>>

--------------------------------------------------------------------------------
(* Writing a ruleset *)

JsonTypes == {"JSON_FIELD", "JSON_ARRAY"}
PlainTypes == {"TYPE_PARSE", "VALUES", "PATTERN", "YEAR", "RANGE", "CROSS_FIELD", "TEXT_QUALITY", "SPELLING"}

Referenced(rule) == {rule.col} \union (IF rule.type = "CROSS_FIELD" THEN {rule.other} ELSE {})

\* The columns create_ruleset looks at: it knows a second column as comparison_column
\* only, and the compiler reads one that is called compare_to as well.
Inspected(rule) ==
    {rule.col} \union (IF rule.type = "CROSS_FIELD" /\ rule.key = "comparison_column" THEN {rule.other} ELSE {})

\* The type of the rule and the encoding of these columns do not go together.
WrongEncoding(rule, columns, structured) ==
    \/ rule.type \in JsonTypes /\ rule.col \notin structured
    \/ rule.type \in PlainTypes /\ columns \intersect structured # {}

Available(rule) == installed # None /\ installed.revision = rule.revision

Bounded(rule) == rule.min # None \/ rule.max # None
Ordered(rule) == rule.min # None /\ rule.max # None => rule.min <= rule.max

\* Only JSON and text rules have a schema; TEXT_QUALITY's is part of its cells.
WellFormed(rule) ==
    /\ rule.type = "JSON_FIELD" =>
          /\ rule.check = "RANGE" => Bounded(rule) /\ Ordered(rule)
          /\ rule.check = "ALLOWED_VALUES" => rule.texts # {}
    /\ rule.type = "JSON_ARRAY" => (rule.unique \/ Bounded(rule)) /\ Ordered(rule)

Accepted(rule) ==
    /\ WellFormed(rule)
    /\ rule.type \in JsonTypes => data # None
    /\ data # None => ~WrongEncoding(rule, Inspected(rule), data.structured)
    /\ rule.type = "SPELLING" => Available(rule)

Pinned(rule) ==
    IF rule.type # "SPELLING" THEN rule
    ELSE [field \in DOMAIN rule \union {"digest"} |->
              IF field = "digest" THEN installed.digest ELSE rule[field]]

--------------------------------------------------------------------------------
(* Compiling: a rule that cannot be compiled fails alone. *)

\* Mutant: a dictionary of the pinned revision will do.
SameRevision(rule) == Available(rule)

DictionaryAsPinned(rule) == Available(rule) /\ installed.digest = rule.digest

Comparators == {"<", ">", "<=", ">=", "==", "!="}

Compiles(rule) ==
    /\ WellFormed(rule)
    /\ rule.type = "SPELLING" => DictionaryAsPinned(rule)
    /\ rule.type = "CROSS_FIELD" => rule.op \in Comparators
    /\ Referenced(rule) \subseteq data.columns
    /\ ~WrongEncoding(rule, Referenced(rule), data.structured)
    /\ ~(rule.type = "JSON_FIELD" /\ rule.check = "REGEX" /\ rule.texts = None)

\* The pattern of a DOMAIN_RANGE rule is not tried out: Spark meets it in the pass.
Raises == \E i \in DOMAIN rules :
    rules[i].type = "PATTERN" /\ Compiles(rules[i]) /\ rules[i].cells = None

--------------------------------------------------------------------------------
(* The Python worker's evaluators *)

\* Mutant: the key of an evaluator leaves its accepted terms out.
DictionaryOnly(rule) == <<rule.digest, {}>>

Key(rule) == <<rule.digest, rule.terms>>

MakeRoom(c) == IF Len(c) >= CacheSize THEN Tail(c) ELSE c

Cached(c, rule) == \E n \in DOMAIN c : c[n].key = Key(rule)
Entry(c, rule) == c[CHOOSE n \in DOMAIN c : c[n].key = Key(rule)].evaluator

Use(c, rule) ==
    IF Cached(c, rule) THEN c
    ELSE Append(MakeRoom(c), [key |-> Key(rule), evaluator |-> Evaluator(installed.digest, rule.terms)])

\* The spelling rules of a run take their evaluators one after the other.
UseNext(at, i) ==
    IF rules[i].type = "SPELLING" /\ Compiles(rules[i])
    THEN LET c == Use(at.cache, rules[i]) IN
         [cache |-> c, used |-> [at.used EXCEPT ![i] = Entry(c, rules[i])]]
    ELSE at

UseAll ==
    LET after[n \in 0..Len(rules)] ==
            IF n = 0 THEN [cache |-> cache, used |-> [i \in DOMAIN rules |-> None]]
            ELSE UseNext(after[n - 1], n)
    IN  after[Len(rules)]

--------------------------------------------------------------------------------
(* The pass over the records *)

Row(n) == data.rows[n]

Conditions(rule, row, evaluator) ==
    LET cell == row[rule.col] IN
    CASE rule.type = "NON_NULL" -> CompileNonNull(cell)
      [] rule.type = "TYPE_PARSE" -> CompileTypeParse(cell)
      [] rule.type = "VALUES" -> CompileValues(cell, rule.list)
      [] rule.type = "PATTERN" -> CompilePattern(cell, rule.cells)
      [] rule.type = "YEAR" -> CompileYear(cell, rule.year)
      [] rule.type = "RANGE" -> CompileRange(cell, rule)
      [] rule.type = "CROSS_FIELD" -> CompileCrossField(cell, row[rule.other], rule.op)
      [] rule.type = "TEXT_QUALITY" -> CompileTextQuality(cell, rule.cells)
      [] rule.type = "JSON_FIELD" -> CompileJsonField(cell, rule)
      [] rule.type = "JSON_ARRAY" -> CompileJsonArray(cell, rule)
      [] rule.type = "SPELLING" -> CompileSpelling(cell, evaluator)

\* row_number over the records of one value; the order among them is arbitrary.
Rank(col, n) == Cardinality({m \in 1..n : Row(m)[col] = Row(n)[col]})

UniquenessConditions(col, n) ==
    LET missing == Missing(Row(n)[col]) IN
    Compiled(missing, "false", And(Not(missing), Lift(Rank(col, n) > 1)))

\* The first of the five conditions, in this order, takes the record.
Classes(c) ==
    LET inScope == Not(c.scope)
        there == And(inScope, Not(c.missing))
        cast == And(there, Not(c.miscast))
    IN  [not_applicable |-> c.scope, missing |-> And(inScope, c.missing),
         miscast |-> And(there, c.miscast), failed |-> And(cast, c.failed),
         passed |-> And(cast, Not(c.failed))]

ClassNames == {"not_applicable", "missing", "miscast", "failed", "passed"}
NoCounts == [k \in ClassNames |-> 0]
TotalOf(counts) ==
    counts["not_applicable"] + counts["missing"] + counts["miscast"] + counts["failed"] + counts["passed"]

Unmeasured(status) == [status |-> status, counts |-> NoCounts, evidence |-> 0]

\* The sample is a query of its own, for a rule whose counts blame records: if it fails,
\* its error is caught and the sample is empty.
Measured(rule, evaluator, sampled) ==
    LET N == DOMAIN data.rows
        conditions == [n \in N |-> IF rule.type = "UNIQUENESS" THEN UniquenessConditions(rule.col, n)
                                   ELSE Conditions(rule, Row(n), evaluator)]
        counts == [k \in ClassNames |-> Cardinality({n \in N : Holds(Classes(conditions[n])[k])})]
        broken == {n \in N : Holds(Or(conditions[n].miscast, conditions[n].failed))}
    IN  [status |-> IF TotalOf(counts) = 0 THEN "NOT_APPLICABLE" ELSE "MEASURED",
         counts |-> counts,
         evidence |-> IF counts["failed"] + counts["miscast"] = 0 \/ ~sampled THEN 0
                      ELSE IF Cardinality(broken) > SampleLimit THEN SampleLimit ELSE Cardinality(broken)]

--------------------------------------------------------------------------------
(* Actions *)

Init ==
    /\ installed \in Dictionaries \union {None}
    /\ rules = <<>> /\ data = None /\ outs = None /\ cache = <<>>

\* create_ruleset, and its way to ACTIVE.
Author(rs) ==
    /\ \A i \in DOMAIN rs : Accepted(rs[i])
    /\ rules' = [i \in DOMAIN rs |-> Pinned(rs[i])]
    /\ outs' = None
    /\ UNCHANGED <<installed, data, cache>>

\* An import registers the next version of the asset.
Register(snapshot) ==
    /\ data' = snapshot
    /\ outs' = None
    /\ UNCHANGED <<installed, rules, cache>>

\* The operator replaces the dictionary, or leaves files that fail their checksums.
Install(d) ==
    /\ d # installed
    /\ installed' = d
    /\ UNCHANGED <<rules, data, outs, cache>>

Execute ==
    /\ data # None /\ rules # <<>>
    /\ IF data.rows = <<>>
       THEN /\ outs' = [i \in DOMAIN rules |-> Unmeasured("NOT_MEASURABLE")]
            /\ UNCHANGED cache
       ELSE IF Raises
       THEN /\ outs' = None
            /\ UNCHANGED cache
       ELSE /\ \E unsampled \in SUBSET DOMAIN rules :
                  outs' = [i \in DOMAIN rules |->
                               IF Compiles(rules[i])
                               THEN Measured(rules[i], UseAll.used[i], i \notin unsampled)
                               ELSE Unmeasured("FAILED_TO_MEASURE")]
            /\ cache' = UseAll.cache
    /\ UNCHANGED <<installed, rules, data>>

\* The Python worker of Spark ends, and its evaluators with it.
WorkerEnds ==
    /\ cache # <<>>
    /\ cache' = <<>>
    /\ UNCHANGED <<installed, rules, data, outs>>

Next ==
    \/ \E rs \in Rulesets : Author(rs)
    \/ \E s \in Snapshots : Register(s)
    \/ \E d \in Dictionaries \union {None} : Install(d)
    \/ Execute
    \/ WorkerEnds

Spec == Init /\ [][Next]_vars

--------------------------------------------------------------------------------
(* Properties *)

\* Every variable has its type, and the evaluators stay within their bound.
TypeOK ==
    /\ installed \in Dictionaries \union {None}
    /\ data \in Snapshots \union {None}
    /\ outs # None => \A i \in DOMAIN rules :
          outs[i] \in [status : {"MEASURED", "NOT_MEASURABLE", "NOT_APPLICABLE", "FAILED_TO_MEASURE"},
                       counts : [ClassNames -> Nat], evidence : 0..SampleLimit]
    /\ Len(cache) <= CacheSize
    /\ Cardinality({cache[n].key : n \in DOMAIN cache}) = Len(cache)

IsMeasured(i) == outs # None /\ outs[i].status \in {"MEASURED", "NOT_APPLICABLE"}

NullInList(rule) == rule.type = "VALUES" /\ rule.list.null

\* No record is lost or counted twice (README.md:36): the five classes of a
\* measured rule partition the snapshot's records although SQL's NULL is neither
\* true nor false.  A list of allowed values that holds a null is the exception:
\* the records outside the list are counted nowhere.
RecordsConserved ==
    \A i \in DOMAIN rules :
        (IsMeasured(i) /\ ~NullInList(rules[i])) => TotalOf(outs[i].counts) = Len(data.rows)

\* What a rule means for a record, said without NULL: the class the record is in.
Meaning(rule, row) ==
    LET cell == row[rule.col]
        gone == cell.null \/ cell.blank
        Judge(fits, good) ==
            IF gone THEN "missing" ELSE IF ~fits THEN "miscast" ELSE IF good THEN "passed" ELSE "failed"
    IN  CASE rule.type = "NON_NULL" -> Judge(TRUE, TRUE)
          [] rule.type = "TYPE_PARSE" -> Judge(cell.number # None, TRUE)
          [] rule.type = "VALUES" -> Judge(TRUE, cell \in rule.list.cells)
          [] rule.type = "PATTERN" -> Judge(TRUE, cell \in rule.cells)
          [] rule.type = "TEXT_QUALITY" -> Judge(TRUE, cell \notin rule.cells)
          [] rule.type = "RANGE" -> Judge(cell.number # None, ~Outside(cell.number, rule))
          [] rule.type = "YEAR" -> Judge(cell.number # None, cell.number = rule.year)
          [] rule.type = "CROSS_FIELD" ->
               LET other == row[rule.other] IN
               IF gone \/ other.null \/ other.blank THEN "missing"
               ELSE IF None \in {cell.number, other.number} THEN "miscast"
               ELSE IF Holds(Compare(cell.number, rule.op, other.number)) THEN "passed" ELSE "failed"
          [] rule.type = "JSON_FIELD" -> FieldLabel(Extract(cell, rule.path), rule)
          [] rule.type = "JSON_ARRAY" -> ArrayLabel(Extract(cell, rule.path), rule)
          [] rule.type = "SPELLING" -> SpellLabel(Evaluator(rule.digest, rule.terms), cell)

\* The counts of a rule are those of what it means, one record at a time: the
\* pass in three-valued logic, the two implementations of the JSON checks, and a
\* spelling rule's own terms and the very dictionary it pinned, whatever other
\* rules and runs left in the worker.  Of equal values all but one are failures.
CountsAreMeant ==
    \A i \in DOMAIN rules :
        (IsMeasured(i) /\ ~NullInList(rules[i])) =>
            IF rules[i].type = "UNIQUENESS"
            THEN LET cells == {n \in DOMAIN data.rows :
                                  ~Row(n)[rules[i].col].null /\ ~Row(n)[rules[i].col].blank}
                 IN  outs[i].counts["passed"] = Cardinality({Row(n)[rules[i].col] : n \in cells})
            ELSE \A k \in ClassNames :
                    outs[i].counts[k] = Cardinality({n \in DOMAIN data.rows : Meaning(rules[i], Row(n)) = k})

\* The evidence kept for a rule is drawn from the records its counts blame, as
\* many of them as the limit lets through, or is lost altogether with its query: the
\* filter of the sample and the conditions of the counts are written twice
\* (spark_compute.py:254 and :312), and the sample never shows another record.
EvidenceIsCounted ==
    \A i \in DOMAIN rules :
        IsMeasured(i) =>
            LET blamed == outs[i].counts["failed"] + outs[i].counts["miscast"]
            IN  outs[i].evidence \in {0, IF blamed > SampleLimit THEN SampleLimit ELSE blamed}

\* Two outputs of a rule differ at most in a sample that was lost.
SameMeasurement(a, b) ==
    /\ a.status = b.status /\ a.counts = b.counts
    /\ a.evidence = b.evidence \/ 0 \in {a.evidence, b.evidence}

\* Running a ruleset again on its snapshot gives every rule the same status and
\* counts, and the same evidence unless a sample was lost; only the dictionary a rule
\* needs may have gone away or come back in between: another dictionary is never used
\* in its place.
RerunAgrees ==
    [][(outs # None /\ outs' # None /\ UNCHANGED <<rules, data>>) =>
          \A i \in DOMAIN rules :
             \/ SameMeasurement(outs[i], outs'[i])
             \/ "FAILED_TO_MEASURE" \in {outs[i].status, outs'[i].status}]_vars
================================================================================
