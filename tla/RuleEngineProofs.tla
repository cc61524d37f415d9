-------------------------- MODULE RuleEngineProofs --------------------------
(* Proofs about the compute engine, for any rulesets, snapshots, dictionaries *)
(* and bounds.                                                                *)
EXTENDS RuleEngine, FiniteSetTheorems, WellFoundedInduction, TLAPS

----------------------------------------------------------------------------
(* Three-valued logic *)

Definite == {"true", "false"}

\* The conditions c put a record into the class k and into no other.
Sorts(c, k) == k \in ClassNames /\ \A j \in ClassNames : Holds(Classes(c)[j]) <=> j = k

\* What is blamed is neither out of scope nor missing: no record fails for two reasons.
Guarded(c) ==
  /\ c.scope \in Definite /\ c.missing \in Definite /\ c.miscast \in Definite /\ c.failed \in Definite \union {"null"}
  /\ c.miscast = "true" => c.scope = "false" /\ c.missing = "false"
  /\ c.failed = "true" => c.scope = "false" /\ c.missing = "false" /\ c.miscast = "false"

ClassOf(missing, miscast, failed) ==
  IF missing = "true" THEN "missing" ELSE IF miscast = "true" THEN "miscast"
  ELSE IF failed = "true" THEN "failed" ELSE "passed"

\* Without NULL a negation is the Boolean one.
LEMMA Negation ==
  ASSUME NEW a \in Definite
  PROVE  Not(a) \in Definite /\ (Not(a) = "true" <=> a = "false")
BY DEF Not, Definite

\* Without NULL a conjunction is the Boolean one.
LEMMA Conjunction ==
  ASSUME NEW a \in Definite, NEW b \in Definite
  PROVE  And(a, b) \in Definite /\ (And(a, b) = "true" <=> a = "true" /\ b = "true")
BY DEF And, Definite

\* Without NULL a disjunction is the Boolean one.
LEMMA Disjunction ==
  ASSUME NEW a \in Definite, NEW b \in Definite
  PROVE  Or(a, b) \in Definite /\ (Or(a, b) = "true" <=> a = "true" \/ b = "true")
<1>1. Not(a) \in Definite /\ Not(b) \in Definite
  BY Negation
<1>2. And(Not(a), Not(b)) \in Definite /\ (And(Not(a), Not(b)) = "true" <=> Not(a) = "true" /\ Not(b) = "true")
  BY <1>1, Conjunction
<1>3. Not(And(Not(a), Not(b))) \in Definite /\ (Not(And(Not(a), Not(b))) = "true" <=> And(Not(a), Not(b)) = "false")
  BY <1>2, Negation
<1>4. (Not(a) = "true" <=> a = "false") /\ (Not(b) = "true" <=> b = "false")
  BY Negation
<1> QED BY <1>2, <1>3, <1>4 DEF Or, Definite

\* A Boolean lifted to a condition is never NULL.
LEMMA Lifted ==
  ASSUME NEW b
  PROVE  Lift(b) \in Definite /\ (Lift(b) = "true" <=> b)
BY DEF Lift, Definite

\* Without NULL, the first of the five conditions that is true takes the record.
LEMMA ClassesOf ==
  ASSUME NEW c, c.scope \in Definite, c.missing \in Definite, c.miscast \in Definite, c.failed \in Definite
  PROVE  /\ Holds(Classes(c)["not_applicable"]) <=> c.scope = "true"
         /\ Holds(Classes(c)["missing"]) <=> c.scope = "false" /\ c.missing = "true"
         /\ Holds(Classes(c)["miscast"]) <=> c.scope = "false" /\ c.missing = "false" /\ c.miscast = "true"
         /\ Holds(Classes(c)["failed"]) <=>
              c.scope = "false" /\ c.missing = "false" /\ c.miscast = "false" /\ c.failed = "true"
         /\ Holds(Classes(c)["passed"]) <=>
              c.scope = "false" /\ c.missing = "false" /\ c.miscast = "false" /\ c.failed = "false"
<1> DEFINE inScope == Not(c.scope)
           there == And(inScope, Not(c.missing))
           cast == And(there, Not(c.miscast))
<1>1. /\ inScope \in Definite /\ (inScope = "true" <=> c.scope = "false")
      /\ Not(c.missing) \in Definite /\ (Not(c.missing) = "true" <=> c.missing = "false")
      /\ Not(c.miscast) \in Definite /\ (Not(c.miscast) = "true" <=> c.miscast = "false")
      /\ Not(c.failed) \in Definite /\ (Not(c.failed) = "true" <=> c.failed = "false")
  BY Negation
<1>2. there \in Definite /\ (there = "true" <=> c.scope = "false" /\ c.missing = "false")
  <2> HIDE DEF inScope
  <2> QED BY <1>1, Conjunction
<1>3. cast \in Definite /\ (cast = "true" <=> c.scope = "false" /\ c.missing = "false" /\ c.miscast = "false")
  <2> HIDE DEF there
  <2> QED BY <1>1, <1>2, Conjunction
<1>4. /\ Classes(c)["not_applicable"] = c.scope /\ Classes(c)["missing"] = And(inScope, c.missing)
      /\ Classes(c)["miscast"] = And(there, c.miscast) /\ Classes(c)["failed"] = And(cast, c.failed)
      /\ Classes(c)["passed"] = And(cast, Not(c.failed))
  BY DEF Classes
<1> HIDE DEF inScope, there, cast
<1>5. /\ And(inScope, c.missing) = "true" <=> inScope = "true" /\ c.missing = "true"
      /\ And(there, c.miscast) = "true" <=> there = "true" /\ c.miscast = "true"
      /\ And(cast, c.failed) = "true" <=> cast = "true" /\ c.failed = "true"
      /\ And(cast, Not(c.failed)) = "true" <=> cast = "true" /\ Not(c.failed) = "true"
  BY <1>1, <1>2, <1>3, Conjunction
<1> QED BY <1>1, <1>2, <1>3, <1>4, <1>5 DEF Holds

\* A compiled rule without NULL puts a record into the class of its first true condition.
LEMMA CompiledSorts ==
  ASSUME NEW missing \in Definite, NEW miscast \in Definite, NEW failed \in Definite
  PROVE  Sorts(Compiled(missing, miscast, failed), ClassOf(missing, miscast, failed))
<1> DEFINE c == Compiled(missing, miscast, failed)
           k == ClassOf(missing, miscast, failed)
<1>1. c.scope = "false" /\ c.missing = missing /\ c.miscast = miscast /\ c.failed = failed
  BY DEF Compiled
<1>2. /\ Holds(Classes(c)["not_applicable"]) <=> c.scope = "true"
      /\ Holds(Classes(c)["missing"]) <=> c.scope = "false" /\ c.missing = "true"
      /\ Holds(Classes(c)["miscast"]) <=> c.scope = "false" /\ c.missing = "false" /\ c.miscast = "true"
      /\ Holds(Classes(c)["failed"]) <=>
           c.scope = "false" /\ c.missing = "false" /\ c.miscast = "false" /\ c.failed = "true"
      /\ Holds(Classes(c)["passed"]) <=>
           c.scope = "false" /\ c.missing = "false" /\ c.miscast = "false" /\ c.failed = "false"
  <2> HIDE DEF c
  <2> QED BY <1>1, ClassesOf DEF Definite
<1>3. k \in ClassNames
  BY DEF ClassOf, ClassNames
<1> HIDE DEF c
<1>4. \A j \in ClassNames : Holds(Classes(c)[j]) <=> j = k
  BY <1>1, <1>2 DEF ClassNames, ClassOf, Definite
<1> QED BY <1>3, <1>4 DEF Sorts, c

\* A rule compiled from a label puts a record into the class the label names.
LEMMA LabelSorts ==
  ASSUME NEW label \in ClassNames
  PROVE  Sorts(Labelled(label), label) /\ Guarded(Labelled(label))
<1> DEFINE c == Labelled(label)
<1>1. /\ c.scope = Lift(label = "not_applicable") /\ c.missing = Lift(label = "missing")
      /\ c.miscast = Lift(label = "miscast") /\ c.failed = Lift(label = "failed")
  BY DEF Labelled, Compiled
<1>2. /\ c.scope \in Definite /\ c.missing \in Definite /\ c.miscast \in Definite /\ c.failed \in Definite
      /\ c.scope = "true" <=> label = "not_applicable"
      /\ c.missing = "true" <=> label = "missing"
      /\ c.miscast = "true" <=> label = "miscast"
      /\ c.failed = "true" <=> label = "failed"
  <2> HIDE DEF c
  <2> QED BY <1>1, Lifted
<1> HIDE DEF c
<1>3. /\ Holds(Classes(c)["not_applicable"]) <=> c.scope = "true"
      /\ Holds(Classes(c)["missing"]) <=> c.scope = "false" /\ c.missing = "true"
      /\ Holds(Classes(c)["miscast"]) <=> c.scope = "false" /\ c.missing = "false" /\ c.miscast = "true"
      /\ Holds(Classes(c)["failed"]) <=>
           c.scope = "false" /\ c.missing = "false" /\ c.miscast = "false" /\ c.failed = "true"
      /\ Holds(Classes(c)["passed"]) <=>
           c.scope = "false" /\ c.missing = "false" /\ c.miscast = "false" /\ c.failed = "false"
  BY <1>2, ClassesOf
<1>4. \A j \in ClassNames : Holds(Classes(c)[j]) <=> j = label
  BY <1>2, <1>3 DEF ClassNames, Definite
<1>5. Guarded(c)
  BY <1>2 DEF Guarded, Definite, ClassNames
<1> QED BY <1>4, <1>5 DEF Sorts, c

----------------------------------------------------------------------------
(* What each compiler means *)

\* A conjunction whose second part is only looked at when the first is true.
LEMMA Shielded ==
  ASSUME NEW a \in Definite, NEW b, a = "true" => b \in Definite
  PROVE  And(a, b) \in Definite /\ (And(a, b) = "true" <=> a = "true" /\ b = "true")
BY DEF And, Definite

\* A conjunction with NULL in its second part.
LEMMA HalfShielded ==
  ASSUME NEW a \in Definite, NEW b \in Definite \union {"null"}
  PROVE  And(a, b) \in Definite \union {"null"} /\ (And(a, b) = "true" <=> a = "true" /\ b = "true")
BY DEF And, Definite

\* The test for a missing cell is never NULL.
LEMMA MissingIs ==
  ASSUME NEW cell
  PROVE  Missing(cell) \in Definite /\ (Missing(cell) = "true" <=> cell.null \/ cell.blank)
<1>1. CASE cell.null
  <2>1. Lift(cell.null) = "true" /\ Trimmed(cell) = "null"
    BY <1>1 DEF Lift, Trimmed
  <2>2. Or("true", "null") = "true"
    <3>1. Not("true") = "false" /\ Not("null") = "null" /\ Not("false") = "true"
      BY DEF Not
    <3>2. And("false", "null") = "false"
      BY DEF And
    <3> QED BY <3>1, <3>2 DEF Or
  <2> QED BY <1>1, <2>1, <2>2 DEF Missing, Definite
<1>2. CASE ~cell.null
  <2>1. Trimmed(cell) = Lift(cell.blank)
    BY <1>2 DEF Trimmed
  <2>2. /\ Lift(cell.null) \in Definite /\ (Lift(cell.null) = "true" <=> cell.null)
        /\ Lift(cell.blank) \in Definite /\ (Lift(cell.blank) = "true" <=> cell.blank)
    BY Lifted
  <2> QED BY <1>2, <2>1, <2>2, Disjunction DEF Missing
<1> QED BY <1>1, <1>2

\* A comparison of two numbers is not NULL.
LEMMA ComparisonIs ==
  ASSUME NEW m, NEW op, NEW n, m # None, n # None
  PROVE  Compare(m, op, n) \in Definite
BY Lifted DEF Compare

\* A record is blamed when its class is "miscast" or "failed", and not for both.
LEMMA BlamedOnce ==
  ASSUME NEW c, Guarded(c)
  PROVE  /\ Holds(Or(c.miscast, c.failed)) <=> Holds(Classes(c)["miscast"]) \/ Holds(Classes(c)["failed"])
         /\ ~(Holds(Classes(c)["miscast"]) /\ Holds(Classes(c)["failed"]))
<1> DEFINE inScope == Not(c.scope)
           there == And(inScope, Not(c.missing))
           cast == And(there, Not(c.miscast))
<1>1. /\ inScope \in Definite /\ (inScope = "true" <=> c.scope = "false")
      /\ Not(c.missing) \in Definite /\ (Not(c.missing) = "true" <=> c.missing = "false")
      /\ Not(c.miscast) \in Definite /\ (Not(c.miscast) = "true" <=> c.miscast = "false")
  BY Negation DEF Guarded
<1>2. there \in Definite /\ (there = "true" <=> c.scope = "false" /\ c.missing = "false")
  <2> HIDE DEF inScope
  <2> QED BY <1>1, Conjunction
<1>3. cast \in Definite /\ (cast = "true" <=> c.scope = "false" /\ c.missing = "false" /\ c.miscast = "false")
  <2> HIDE DEF there
  <2> QED BY <1>1, <1>2, Conjunction
<1>4. Classes(c)["miscast"] = And(there, c.miscast) /\ Classes(c)["failed"] = And(cast, c.failed)
  BY DEF Classes
<1> HIDE DEF inScope, there, cast
<1>5. /\ And(there, c.miscast) = "true" <=> there = "true" /\ c.miscast = "true"
      /\ And(cast, c.failed) = "true" <=> cast = "true" /\ c.failed = "true"
  BY <1>2, <1>3, HalfShielded DEF Guarded
<1>6. Or(c.miscast, c.failed) = "true" <=> c.miscast = "true" \/ c.failed = "true"
  <2>1. c.miscast \in Definite /\ c.failed \in Definite \union {"null"}
    BY DEF Guarded
  <2>2. /\ Not(c.miscast) \in Definite /\ (Not(c.miscast) = "false" <=> c.miscast = "true")
        /\ Not(c.failed) \in Definite \union {"null"} /\ (Not(c.failed) = "false" <=> c.failed = "true")
    BY <2>1 DEF Not, Definite
  <2>3. ASSUME NEW a \in Definite, NEW b \in Definite \union {"null"}
        PROVE  And(a, b) \in Definite \union {"null"} /\ (And(a, b) = "false" <=> a = "false" \/ b = "false")
    BY DEF And, Definite
  <2>4. ASSUME NEW a
        PROVE  Not(a) = "true" <=> a = "false"
    BY DEF Not
  <2> QED BY <2>2, <2>3, <2>4 DEF Or
<1> QED BY <1>2, <1>3, <1>4, <1>5, <1>6 DEF Guarded, Holds

\* A compiled rule without NULL is guarded if its conditions exclude each other.
LEMMA CompiledGuarded ==
  ASSUME NEW missing \in Definite, NEW miscast \in Definite, NEW failed \in Definite \union {"null"},
         miscast = "true" => missing = "false",
         failed = "true" => missing = "false" /\ miscast = "false"
  PROVE  Guarded(Compiled(missing, miscast, failed))
<1> DEFINE c == Compiled(missing, miscast, failed)
<1>1. c.scope = "false" /\ c.missing = missing /\ c.miscast = miscast /\ c.failed = failed
  BY DEF Compiled
<1> HIDE DEF c
<1>2. Guarded(c)
  BY <1>1 DEF Guarded, Definite
<1> QED BY <1>2 DEF c

\* The evaluator a spelling rule is due: its terms and the dictionary it pinned.
Own(rule) == IF rule.type = "SPELLING" THEN Evaluator(rule.digest, rule.terms) ELSE None

\* The conditions c of a rule are guarded, and put the record where the rule means it to be.
Faithful(c, rule, row) ==
  Guarded(c) /\ (~NullInList(rule) => Sorts(c, Meaning(rule, row)))

\* A compiled rule that excludes NULL and means the class of its conditions.
LEMMA CompiledFaithful ==
  ASSUME NEW rule, NEW row, NEW missing \in Definite, NEW miscast \in Definite, NEW failed \in Definite,
         miscast = "true" => missing = "false",
         failed = "true" => missing = "false" /\ miscast = "false",
         Meaning(rule, row) = ClassOf(missing, miscast, failed)
  PROVE  Faithful(Compiled(missing, miscast, failed), rule, row)
BY CompiledSorts, CompiledGuarded DEF Faithful

\* The conditions of NON_NULL mean what the rule means, record by record.
LEMMA NonNullFaithful ==
  ASSUME NEW rule, NEW row, rule.type = "NON_NULL"
  PROVE  Faithful(Conditions(rule, row, Own(rule)), rule, row)
<1> DEFINE cell == row[rule.col]
           missing == Missing(cell)
<1>1. Conditions(rule, row, Own(rule)) = Compiled(missing, "false", "false")
  BY DEF Conditions, CompileNonNull
<1>2. missing \in Definite /\ (missing = "true" <=> cell.null \/ cell.blank) /\ "false" \in Definite
  BY MissingIs DEF Definite
<1>3. Meaning(rule, row) = ClassOf(missing, "false", "false")
  BY <1>2 DEF Meaning, ClassOf
<1> HIDE DEF missing
<1> QED BY <1>1, <1>2, <1>3, CompiledFaithful

\* The test for a cell that does not parse is never NULL.
LEMMA UnparsedIs ==
  ASSUME NEW cell
  PROVE  IsNull(Parsed(cell)) \in Definite /\ (IsNull(Parsed(cell)) = "true" <=> cell.number = None)
BY Lifted DEF IsNull, Parsed

\* A cell that is there and does not parse is miscast.
LEMMA MiscastIs ==
  ASSUME NEW cell
  PROVE  LET missing == Missing(cell)
             miscast == And(Not(missing), IsNull(Parsed(cell)))
         IN  /\ miscast \in Definite
             /\ miscast = "true" <=> missing = "false" /\ cell.number = None
             /\ And(Not(missing), Not(miscast)) \in Definite
             /\ And(Not(missing), Not(miscast)) = "true" <=> missing = "false" /\ cell.number # None
<1> DEFINE missing == Missing(cell)
           miscast == And(Not(missing), IsNull(Parsed(cell)))
<1>1. missing \in Definite /\ Not(missing) \in Definite /\ (Not(missing) = "true" <=> missing = "false")
  BY MissingIs, Negation
<1> HIDE DEF missing
<1>2. miscast \in Definite /\ (miscast = "true" <=> missing = "false" /\ cell.number = None)
  BY <1>1, UnparsedIs, Conjunction
<1> HIDE DEF miscast
<1>3. Not(miscast) \in Definite /\ (Not(miscast) = "true" <=> miscast = "false")
  BY <1>2, Negation
<1>4. /\ And(Not(missing), Not(miscast)) \in Definite
      /\ And(Not(missing), Not(miscast)) = "true" <=> Not(missing) = "true" /\ Not(miscast) = "true"
  BY <1>1, <1>3, Conjunction
<1>5. /\ And(Not(missing), Not(miscast)) \in Definite
      /\ And(Not(missing), Not(miscast)) = "true" <=> missing = "false" /\ cell.number # None
  BY <1>1, <1>2, <1>3, <1>4 DEF Definite
<1> QED BY <1>2, <1>5 DEF missing, miscast

\* The conditions of TYPE_PARSE mean what the rule means, record by record.
LEMMA TypeParseFaithful ==
  ASSUME NEW rule, NEW row, rule.type = "TYPE_PARSE"
  PROVE  Faithful(Conditions(rule, row, Own(rule)), rule, row)
<1> DEFINE cell == row[rule.col]
           missing == Missing(cell)
           miscast == And(Not(missing), IsNull(Parsed(cell)))
<1>1. Conditions(rule, row, Own(rule)) = Compiled(missing, miscast, "false")
  BY DEF Conditions, CompileTypeParse
<1>2. missing \in Definite /\ (missing = "true" <=> cell.null \/ cell.blank) /\ "false" \in Definite
  BY MissingIs DEF Definite
<1>3. miscast \in Definite /\ (miscast = "true" <=> missing = "false" /\ cell.number = None)
  BY MiscastIs
<1> HIDE DEF missing, miscast
<1>4. Meaning(rule, row) = ClassOf(missing, miscast, "false")
  BY <1>2, <1>3 DEF Meaning, ClassOf, Definite
<1> HIDE DEF cell
<1> QED BY <1>1, <1>2, <1>3, <1>4, CompiledFaithful

\* VALUES: guarded even where the list holds a null.
LEMMA ValuesFaithful ==
  ASSUME NEW rule, NEW row, rule.type = "VALUES"
  PROVE  Faithful(Conditions(rule, row, Own(rule)), rule, row)
<1> DEFINE cell == row[rule.col]
           missing == Missing(cell)
           outside == Not(IsIn(cell, rule.list))
           failed == And(Not(missing), outside)
<1>1. Conditions(rule, row, Own(rule)) = Compiled(missing, "false", failed)
  BY DEF Conditions, CompileValues
<1>2. missing \in Definite /\ (missing = "true" <=> cell.null \/ cell.blank) /\ "false" \in Definite
  BY MissingIs DEF Definite
<1>3. Not(missing) \in Definite /\ (Not(missing) = "true" <=> missing = "false")
  BY <1>2, Negation
<1>4. outside \in Definite \union {"null"}
  BY DEF Not, Definite
<1>5. failed \in Definite \union {"null"} /\ (failed = "true" => missing = "false")
  <2> HIDE DEF missing, outside
  <2> QED BY <1>3, <1>4, HalfShielded
<1>6. ASSUME ~rule.list.null
      PROVE  failed \in Definite /\ Meaning(rule, row) = ClassOf(missing, "false", failed)
  <2>1. missing = "false" => outside \in Definite /\ (outside = "true" <=> cell \notin rule.list.cells)
    BY <1>2, <1>6 DEF IsIn, Not, Definite
  <2>2. failed \in Definite /\ (failed = "true" <=> missing = "false" /\ cell \notin rule.list.cells)
    <3> HIDE DEF missing, outside, cell
    <3> QED BY <1>3, <2>1, Shielded
  <2> HIDE DEF missing, failed
  <2> QED BY <1>2, <2>2 DEF Meaning, ClassOf, Definite
<1>7. NullInList(rule) <=> rule.list.null
  BY DEF NullInList
<1> HIDE DEF missing, outside, failed, cell
<1>8. CASE rule.list.null
  BY <1>1, <1>2, <1>5, <1>7, <1>8, CompiledGuarded DEF Faithful, Definite
<1>9. CASE ~rule.list.null
  BY <1>1, <1>2, <1>5, <1>6, <1>9, CompiledFaithful
<1> QED BY <1>8, <1>9

\* PATTERN and TEXT_QUALITY: a set of cells, to be in or not to be in.
LEMMA LikeFaithful ==
  ASSUME NEW rule, NEW row, rule.type \in {"PATTERN", "TEXT_QUALITY"}
  PROVE  Faithful(Conditions(rule, row, Own(rule)), rule, row)
<1> DEFINE cell == row[rule.col]
           missing == Missing(cell)
           bad == IF rule.type = "PATTERN" THEN Not(Like(cell, rule.cells)) ELSE Like(cell, rule.cells)
           isBad == IF rule.type = "PATTERN" THEN cell \notin rule.cells ELSE cell \in rule.cells
           failed == And(Not(missing), bad)
<1>1. Conditions(rule, row, Own(rule)) = Compiled(missing, "false", failed)
  BY DEF Conditions, CompilePattern, CompileTextQuality
<1>2. missing \in Definite /\ (missing = "true" <=> cell.null \/ cell.blank) /\ "false" \in Definite
  BY MissingIs DEF Definite
<1>3. Not(missing) \in Definite /\ (Not(missing) = "true" <=> missing = "false")
  BY <1>2, Negation
<1>4. missing = "false" => bad \in Definite /\ (bad = "true" <=> isBad)
  <2>1. ~cell.null => Like(cell, rule.cells) \in Definite /\ (Like(cell, rule.cells) = "true" <=> cell \in rule.cells)
    BY DEF Like, Lift, Definite
  <2>2. ASSUME Like(cell, rule.cells) \in Definite
        PROVE  Not(Like(cell, rule.cells)) \in Definite
               /\ (Not(Like(cell, rule.cells)) = "true" <=> Like(cell, rule.cells) = "false")
    BY <2>2, Negation
  <2> QED BY <1>2, <2>1, <2>2 DEF Definite
<1>5. failed \in Definite /\ (failed = "true" <=> missing = "false" /\ isBad)
  <2> HIDE DEF missing, bad, isBad
  <2> QED BY <1>3, <1>4, Shielded
<1> HIDE DEF missing, failed
<1>6. Meaning(rule, row) = ClassOf(missing, "false", failed)
  BY <1>2, <1>5 DEF Meaning, ClassOf, Definite
<1> HIDE DEF cell
<1> QED BY <1>1, <1>2, <1>5, <1>6, CompiledFaithful

\* The conditions of RANGE mean what the rule means, record by record.
LEMMA RangeFaithful ==
  ASSUME NEW rule, NEW row, rule.type = "RANGE"
  PROVE  Faithful(Conditions(rule, row, Own(rule)), rule, row)
<1> DEFINE cell == row[rule.col]
           number == cell.number
           missing == Missing(cell)
           miscast == And(Not(missing), IsNull(Parsed(cell)))
           shield == And(Not(missing), Not(miscast))
           below == IF rule.min = None THEN "false" ELSE Compare(number, "<", rule.min)
           above == IF rule.max = None THEN "false" ELSE Compare(number, ">", rule.max)
           failed == And(shield, Or(below, above))
<1>1. Conditions(rule, row, Own(rule)) = Compiled(missing, miscast, failed)
  BY DEF Conditions, CompileRange, Parsed
<1>2. missing \in Definite /\ (missing = "true" <=> cell.null \/ cell.blank)
  BY MissingIs
<1>3. /\ miscast \in Definite /\ (miscast = "true" <=> missing = "false" /\ number = None)
      /\ shield \in Definite /\ (shield = "true" <=> missing = "false" /\ number # None)
  BY MiscastIs
<1>4. ASSUME number # None
      PROVE  Or(below, above) \in Definite /\ (Or(below, above) = "true" <=> Outside(number, rule))
  <2>1. below \in Definite /\ (below = "true" <=> rule.min # None /\ number < rule.min)
    BY <1>4, Lifted DEF Compare, Definite
  <2>2. above \in Definite /\ (above = "true" <=> rule.max # None /\ number > rule.max)
    BY <1>4, Lifted DEF Compare, Definite
  <2> HIDE DEF below, above, number
  <2> QED BY <2>1, <2>2, Disjunction DEF Outside
<1>5. failed \in Definite /\ (failed = "true" <=> missing = "false" /\ number # None /\ Outside(number, rule))
  <2> HIDE DEF missing, shield, below, above, number
  <2> QED BY <1>3, <1>4, Shielded
<1> HIDE DEF missing, miscast, failed
<1>6. Meaning(rule, row) = ClassOf(missing, miscast, failed)
  BY <1>2, <1>3, <1>5 DEF Meaning, ClassOf, Definite
<1> HIDE DEF cell
<1>7. (miscast = "true" => missing = "false") /\ (failed = "true" => missing = "false" /\ miscast = "false")
  BY <1>3, <1>5 DEF Definite
<1> QED BY <1>1, <1>2, <1>3, <1>5, <1>6, <1>7, CompiledFaithful

\* The conditions of YEAR mean what the rule means, record by record.
LEMMA YearFaithful ==
  ASSUME NEW rule, NEW row, rule.type = "YEAR", rule.year # None
  PROVE  Faithful(Conditions(rule, row, Own(rule)), rule, row)
<1> DEFINE cell == row[rule.col]
           number == cell.number
           missing == Missing(cell)
           miscast == And(Not(missing), IsNull(Parsed(cell)))
           shield == And(Not(missing), Not(miscast))
           differs == Compare(number, "!=", rule.year)
           failed == And(shield, differs)
<1>1. Conditions(rule, row, Own(rule)) = Compiled(missing, miscast, failed)
  BY DEF Conditions, CompileYear, Parsed
<1>2. missing \in Definite /\ (missing = "true" <=> cell.null \/ cell.blank)
  BY MissingIs
<1>3. /\ miscast \in Definite /\ (miscast = "true" <=> missing = "false" /\ number = None)
      /\ shield \in Definite /\ (shield = "true" <=> missing = "false" /\ number # None)
  BY MiscastIs
<1>4. number # None => differs \in Definite /\ (differs = "true" <=> number # rule.year)
  BY Lifted DEF Compare
<1>5. failed \in Definite /\ (failed = "true" <=> missing = "false" /\ number # None /\ number # rule.year)
  <2> HIDE DEF missing, shield, differs, number
  <2> QED BY <1>3, <1>4, Shielded
<1> HIDE DEF missing, miscast, failed
<1>6. Meaning(rule, row) = ClassOf(missing, miscast, failed)
  BY <1>2, <1>3, <1>5 DEF Meaning, ClassOf, Definite
<1> HIDE DEF cell
<1>7. (miscast = "true" => missing = "false") /\ (failed = "true" => missing = "false" /\ miscast = "false")
  BY <1>3, <1>5 DEF Definite
<1> QED BY <1>1, <1>2, <1>3, <1>5, <1>6, <1>7, CompiledFaithful

\* The conditions of CROSS_FIELD mean what the rule means, record by record.
LEMMA CrossFieldFaithful ==
  ASSUME NEW rule, NEW row, rule.type = "CROSS_FIELD"
  PROVE  Faithful(Conditions(rule, row, Own(rule)), rule, row)
<1> DEFINE cell == row[rule.col]
           other == row[rule.other]
           missing == Or(Missing(cell), Missing(other))
           unparsed == Or(IsNull(Parsed(cell)), IsNull(Parsed(other)))
           miscast == And(Not(missing), unparsed)
           shield == And(Not(missing), Not(miscast))
           passes == Compare(Parsed(cell), rule.op, Parsed(other))
           failed == And(shield, Not(passes))
           isMissing == cell.null \/ cell.blank \/ other.null \/ other.blank
           isUnparsed == cell.number = None \/ other.number = None
<1>1. Conditions(rule, row, Own(rule)) = Compiled(missing, miscast, failed)
  BY DEF Conditions, CompileCrossField
<1>2. missing \in Definite /\ (missing = "true" <=> isMissing)
  BY MissingIs, Disjunction
<1>3. unparsed \in Definite /\ (unparsed = "true" <=> isUnparsed)
  BY UnparsedIs, Disjunction
<1>4. ~isUnparsed => Not(passes) \in Definite /\ (Not(passes) = "true" <=> ~Holds(passes))
  <2>1. ~isUnparsed => passes \in Definite
    BY ComparisonIs DEF Parsed
  <2> QED BY <2>1 DEF Not, Definite, Holds
<1>5. Meaning(rule, row) = IF isMissing THEN "missing" ELSE IF isUnparsed THEN "miscast"
                           ELSE IF Holds(passes) THEN "passed" ELSE "failed"
  BY DEF Meaning, Parsed
<1> HIDE DEF missing, unparsed, passes, isMissing, isUnparsed
<1>6. Not(missing) \in Definite /\ (Not(missing) = "true" <=> missing = "false")
  BY <1>2, Negation
<1>7. miscast \in Definite /\ (miscast = "true" <=> missing = "false" /\ isUnparsed)
  BY <1>3, <1>6, Conjunction
<1> HIDE DEF miscast
<1>8. shield \in Definite /\ (shield = "true" <=> missing = "false" /\ miscast = "false")
  BY <1>6, <1>7, Conjunction, Negation
<1> HIDE DEF shield
<1>9. ~isUnparsed \/ shield = "false"
  BY <1>7, <1>8 DEF Definite
<1>10. failed \in Definite /\ (failed = "true" <=> shield = "true" /\ Not(passes) = "true")
  BY <1>4, <1>8, <1>9, Shielded
<1> HIDE DEF failed
<1>11. Meaning(rule, row) = ClassOf(missing, miscast, failed)
  BY <1>2, <1>4, <1>5, <1>7, <1>8, <1>9, <1>10 DEF ClassOf, Definite
<1>12. (miscast = "true" => missing = "false") /\ (failed = "true" => missing = "false" /\ miscast = "false")
  BY <1>7, <1>8, <1>10
<1> QED BY <1>1, <1>2, <1>7, <1>10, <1>11, <1>12, CompiledFaithful

\* The conditions of SPELLING mean what the rule means, record by record.
LEMMA SpellingFaithful ==
  ASSUME NEW rule, NEW row, rule.type = "SPELLING"
  PROVE  Faithful(Conditions(rule, row, Own(rule)), rule, row)
<1> DEFINE cell == row[rule.col]
           label == SpellLabel(Evaluator(rule.digest, rule.terms), cell)
<1>1. Conditions(rule, row, Own(rule)) = Labelled(label)
  BY DEF Conditions, CompileSpelling, Own
<1>2. Meaning(rule, row) = label
  BY DEF Meaning
<1>3. label \in ClassNames
  BY DEF SpellLabel, ClassNames
<1> QED BY <1>1, <1>2, <1>3, LabelSorts DEF Faithful

----------------------------------------------------------------------------
(* JSON cells *)

\* A set with 0 and with the successor of each of its naturals has every natural.
LEMMA Counting ==
  ASSUME NEW K, 0 \in K, \A n \in Nat : n \in K => n + 1 \in K
  PROVE  Nat \subseteq K
<1> DEFINE Gaps == {n \in Nat : n \notin K}
<1> SUFFICES ASSUME Gaps # {} PROVE FALSE
  OBVIOUS
<1>1. PICK n \in Gaps : \A m \in Gaps : ~(<<m, n>> \in OpToRel(<, Nat))
  <2>1. Gaps \subseteq Nat
    OBVIOUS
  <2> HIDE DEF Gaps
  <2> QED BY <2>1, WFMin, NatLessThanWellFounded
<1>2. n - 1 \in Nat /\ n - 1 \in K
  <2>1. n \in Nat /\ n # 0
    BY <1>1
  <2>2. <<n - 1, n>> \in OpToRel(<, Nat)
    BY <2>1 DEF OpToRel
  <2>3. n - 1 \notin Gaps
    BY <1>1, <2>2
  <2> QED BY <2>1, <2>3
<1>3. PICK m \in Nat : m \in K /\ n = m + 1
  <2>1. n \in Nat /\ n = (n - 1) + 1
    OBVIOUS
  <2> WITNESS n - 1 \in Nat
  <2> QED BY <1>2, <2>1
<1>4. m + 1 \in K
  BY <1>3
<1> QED BY <1>1, <1>3, <1>4

States == {"present", "missing", "miscast"}

\* The path of a rule leads somewhere: the descent has a solution, and ends in a field.
LEMMA ReachedState ==
  ASSUME NEW doc, NEW path, Len(path) \in Nat
  PROVE  Reached(doc, path).state \in States
<1> DEFINE Following(F, n) == IF n = 0 THEN Field("present", doc) ELSE Descend(F[n - 1], path[n])
           Good(F, n) == F = [k \in 0..n |-> Following(F, k)]
           K == {n \in Nat : \E F : Good(F, n)}
<1>1. 0 \in K
  <2> DEFINE F == [k \in 0..0 |-> Field("present", doc)]
  <2>1. Good(F, 0)
    OBVIOUS
  <2> QED BY <2>1
<1>2. ASSUME NEW n \in Nat, n \in K
      PROVE  n + 1 \in K
  <2>1. PICK F : Good(F, n)
    BY <1>2
  <2> DEFINE G == [k \in 0..(n + 1) |-> IF k = n + 1 THEN Descend(F[n], path[n + 1]) ELSE F[k]]
  <2>2. ASSUME NEW k \in 0..(n + 1)
        PROVE  G[k] = Following(G, k)
    <3>1. CASE k = n + 1
      <4>1. G[k] = Descend(F[n], path[n + 1])
        BY <3>1
      <4>2. G[k - 1] = F[n] /\ k # 0 /\ n = k - 1
        BY <3>1
      <4> QED BY <3>1, <4>1, <4>2
    <3>2. CASE k = 0
      <4>1. G[k] = F[k] /\ F[k] = Following(F, k)
        BY <2>1, <3>2
      <4> QED BY <3>2, <4>1
    <3>3. CASE k \in 1..n
      <4>1. G[k] = F[k] /\ k \in 0..n
        BY <3>3
      <4>2. F[k] = Following(F, k)
        BY <2>1, <4>1
      <4>3. G[k - 1] = F[k - 1] /\ k # 0
        BY <3>3
      <4> QED BY <4>1, <4>2, <4>3
    <3> QED BY <3>1, <3>2, <3>3
  <2>3. Good(G, n + 1)
    <3> HIDE DEF Following
    <3>1. G = [k \in 0..(n + 1) |-> G[k]]
      OBVIOUS
    <3> HIDE DEF G
    <3> QED BY <2>2, <3>1
  <2> HIDE DEF Good
  <2> QED BY <2>3
<1>3. Len(path) \in K
  <2> HIDE DEF K
  <2> QED BY <1>1, <1>2, Counting
<1> DEFINE at == CHOOSE F : F = [n \in 0..Len(path) |->
                   IF n = 0 THEN Field("present", doc) ELSE Descend(F[n - 1], path[n])]
<1>4. at = [n \in 0..Len(path) |->
              IF n = 0 THEN Field("present", doc) ELSE Descend(at[n - 1], path[n])]
  BY <1>3
<1>5. Reached(doc, path) = at[Len(path)]
  BY DEF Reached
<1> HIDE DEF at
<1>6. at[0].state \in States
  BY <1>4 DEF Field, States
<1>7. ASSUME NEW n \in Nat, n + 1 \in 0..Len(path), at[n].state \in States
      PROVE  at[n + 1].state \in States
  <2>1. at[n + 1] = Descend(at[n], path[n + 1])
    BY <1>4, <1>7
  <2>2. Field("present", at[n].value.members[path[n + 1]]).state \in States
    BY DEF Field, States
  <2>3. Field("present", at[n].value.items[Index[path[n + 1]]]).state \in States
    BY DEF Field, States
  <2>4. \A s \in States : Field(s, None).state \in States
    BY DEF Field
  <2> QED BY <1>7, <2>1, <2>2, <2>3, <2>4 DEF Descend, States
<1> DEFINE J == {n \in Nat : n \in 0..Len(path) => at[n].state \in States}
<1>8. Len(path) \in J
  <2>1. 0 \in J
    BY <1>6
  <2>2. ASSUME NEW n \in Nat, n \in J
        PROVE  n + 1 \in J
    BY <1>7, <2>2
  <2> HIDE DEF J
  <2> QED BY <2>1, <2>2, Counting
<1> QED BY <1>5, <1>8

\* What extract_json_field returns.
LEMMA ExtractState ==
  ASSUME NEW cell, NEW path, Len(path) \in Nat
  PROVE  Extract(cell, path).state \in States
<1>1. Field("missing", None).state \in States /\ Field("miscast", None).state \in States
  BY DEF Field, States
<1> QED BY <1>1, ReachedState DEF Extract

\* JSON_FIELD: the checks Spark computes with columns agree with those of Python.
LEMMA JsonFieldFaithful ==
  ASSUME NEW rule, NEW row, rule.type = "JSON_FIELD", rule.check \in Checks, Len(rule.path) \in Nat
  PROVE  Faithful(Conditions(rule, row, Own(rule)), rule, row)
<1> DEFINE field == Extract(row[rule.col], rule.path)
           present == field.state = "present"
           string == present /\ field.value.kind = "STRING"
           label == FieldLabel(field, rule)
<1>1. field.state \in States
  BY ExtractState
<1>2. Conditions(rule, row, Own(rule)) = CompileJsonField(row[rule.col], rule)
  BY DEF Conditions
<1>3. Meaning(rule, row) = label
  BY DEF Meaning
<1>4. CASE rule.check = "RANGE"
  <2>1. Conditions(rule, row, Own(rule)) = Labelled(label)
    BY <1>2, <1>4 DEF CompileJsonField
  <2>2. label \in ClassNames
    <3> HIDE DEF field
    <3> QED BY <1>1, <1>4 DEF FieldLabel, States, ClassNames
  <2> QED BY <1>3, <2>1, <2>2, LabelSorts DEF Faithful
<1>5. CASE rule.check \in {"NON_NULL", "TYPE"}
  <2> DEFINE wrong == rule.check = "TYPE" /\ present /\ field.value.kind # rule.kind
             missing == Lift(field.state = "missing")
             miscast == IF rule.check = "TYPE"
                        THEN Or(Lift(field.state = "miscast"), Lift(present /\ field.value.kind # rule.kind))
                        ELSE Lift(field.state = "miscast")
  <2>1. Conditions(rule, row, Own(rule)) = Compiled(missing, miscast, "false")
    BY <1>2, <1>5 DEF CompileJsonField
  <2> HIDE DEF field
  <2>2. missing \in Definite /\ (missing = "true" <=> field.state = "missing")
    BY DEF Lift, Definite
  <2>3. miscast \in Definite /\ (miscast = "true" <=> field.state = "miscast" \/ wrong)
    <3>1. /\ Lift(field.state = "miscast") \in Definite
          /\ Lift(field.state = "miscast") = "true" <=> field.state = "miscast"
          /\ Lift(present /\ field.value.kind # rule.kind) \in Definite
          /\ Lift(present /\ field.value.kind # rule.kind) = "true" <=> present /\ field.value.kind # rule.kind
      BY DEF Lift, Definite
    <3> QED BY <3>1, Disjunction
  <2>4. label = IF field.state = "missing" THEN "missing"
                ELSE IF field.state = "miscast" \/ wrong THEN "miscast" ELSE "passed"
    BY <1>1, <1>5 DEF FieldLabel, States
  <2>5. (missing = "true" => miscast = "false") /\ "false" \in Definite
    BY <2>2, <2>3 DEF Definite
  <2> HIDE DEF missing, miscast, wrong, label
  <2>6. Meaning(rule, row) = ClassOf(missing, miscast, "false")
    BY <1>3, <2>2, <2>3, <2>4, <2>5 DEF ClassOf, Definite
  <2> QED BY <2>1, <2>2, <2>3, <2>5, <2>6, CompiledFaithful DEF Definite
<1>6. CASE rule.check \in {"ALLOWED_VALUES", "REGEX"}
  <2> DEFINE missing == Lift(field.state = "missing")
             miscast == Or(Lift(field.state = "miscast"), Lift(present /\ ~string))
             failed == Lift(string /\ field.value.text \notin rule.texts)
  <2>1. Conditions(rule, row, Own(rule)) = Compiled(missing, miscast, failed)
    BY <1>2, <1>6 DEF CompileJsonField
  <2> HIDE DEF field
  <2>2. missing \in Definite /\ (missing = "true" <=> field.state = "missing")
    BY DEF Lift, Definite
  <2>3. miscast \in Definite /\ (miscast = "true" <=> field.state = "miscast" \/ (present /\ ~string))
    <3>1. /\ Lift(field.state = "miscast") \in Definite
          /\ Lift(field.state = "miscast") = "true" <=> field.state = "miscast"
          /\ Lift(present /\ ~string) \in Definite
          /\ Lift(present /\ ~string) = "true" <=> present /\ ~string
      BY DEF Lift, Definite
    <3> QED BY <3>1, Disjunction
  <2>4. failed \in Definite /\ (failed = "true" <=> string /\ field.value.text \notin rule.texts)
    BY DEF Lift, Definite
  <2>5. label = IF field.state = "missing" THEN "missing"
                ELSE IF field.state = "miscast" \/ (present /\ ~string) THEN "miscast"
                ELSE IF string /\ field.value.text \notin rule.texts THEN "failed" ELSE "passed"
    BY <1>1, <1>6 DEF FieldLabel, States
  <2>6. /\ miscast = "true" => missing = "false"
        /\ failed = "true" => missing = "false" /\ miscast = "false"
    BY <2>2, <2>3, <2>4 DEF Definite
  <2> HIDE DEF missing, miscast, failed, label
  <2>7. Meaning(rule, row) = ClassOf(missing, miscast, failed)
    BY <1>3, <2>2, <2>3, <2>4, <2>5, <2>6 DEF ClassOf, Definite
  <2> QED BY <2>1, <2>2, <2>3, <2>4, <2>6, <2>7, CompiledFaithful
<1> QED BY <1>4, <1>5, <1>6 DEF Checks

\* The conditions of JSON_ARRAY mean what the rule means, record by record.
LEMMA JsonArrayFaithful ==
  ASSUME NEW rule, NEW row, rule.type = "JSON_ARRAY", Len(rule.path) \in Nat
  PROVE  Faithful(Conditions(rule, row, Own(rule)), rule, row)
<1> DEFINE field == Extract(row[rule.col], rule.path)
           label == ArrayLabel(field, rule)
<1>1. Conditions(rule, row, Own(rule)) = Labelled(label)
  BY DEF Conditions, CompileJsonArray
<1>2. Meaning(rule, row) = label
  BY DEF Meaning
<1>3. field.state \in States
  BY ExtractState
<1>4. label \in ClassNames
  <2> HIDE DEF field
  <2> QED BY <1>3 DEF ArrayLabel, States, ClassNames
<1> QED BY <1>1, <1>2, <1>4, LabelSorts DEF Faithful

\* Every rule the API lets through, but UNIQUENESS, whose conditions look at other records.
LEMMA RuleFaithful ==
  ASSUME NEW rule, NEW row, Readable(rule), rule.type # "UNIQUENESS"
  PROVE  Faithful(Conditions(rule, row, Own(rule)), rule, row)
<1>1. rule.type \in {"JSON_FIELD", "JSON_ARRAY"} => Len(rule.path) \in Nat
  BY DEF Readable
<1> QED BY <1>1, NonNullFaithful, TypeParseFaithful, ValuesFaithful, LikeFaithful, YearFaithful, RangeFaithful,
           CrossFieldFaithful, JsonFieldFaithful, JsonArrayFaithful, SpellingFaithful DEF Readable, Types

----------------------------------------------------------------------------
(* The records of a snapshot *)

\* The conditions of the n-th record, as the pass computes them.
ConditionsOf(rule, n, evaluator) ==
  IF rule.type = "UNIQUENESS" THEN UniquenessConditions(rule.col, n)
  ELSE Conditions(rule, Row(n), evaluator)

\* The class the n-th record belongs in.
ClassAt(rule, n) ==
  IF rule.type = "UNIQUENESS"
  THEN IF Row(n)[rule.col].null \/ Row(n)[rule.col].blank THEN "missing"
       ELSE IF \E m \in 1..(n - 1) : Row(m)[rule.col] = Row(n)[rule.col] THEN "failed" ELSE "passed"
  ELSE Meaning(rule, Row(n))

\* A record's rank is above 1 when an earlier record holds the same value.
LEMMA RankIs ==
  ASSUME NEW col, NEW n \in Nat \ {0}
  PROVE  Rank(col, n) > 1 <=> \E m \in 1..(n - 1) : Row(m)[col] = Row(n)[col]
<1> DEFINE same == {m \in 1..n : Row(m)[col] = Row(n)[col]}
<1>1. IsFiniteSet(1..n)
  BY FS_Interval
<1>2. IsFiniteSet(same) /\ Cardinality(same) \in Nat
  <2>1. same \in SUBSET (1..n)
    OBVIOUS
  <2> HIDE DEF same
  <2> QED BY <1>1, <2>1, FS_Subset, FS_CardinalityType
<1>3. n \in same
  OBVIOUS
<1>4. Cardinality(same) # 0
  <2> HIDE DEF same
  <2> QED BY <1>2, <1>3, FS_EmptySet
<1>5. Cardinality(same) = 1 <=> \E x : same = {x}
  BY <1>2, FS_Singleton
<1>6. (\E x : same = {x}) <=> ~(\E m \in 1..(n - 1) : m \in same)
  <2>1. ASSUME NEW x, same = {x}
        PROVE  ~(\E m \in 1..(n - 1) : m \in same)
    BY <1>3, <2>1
  <2>2. ASSUME ~(\E m \in 1..(n - 1) : m \in same)
        PROVE  same = {n}
    <3>1. \A m \in same : m \in 1..n
      OBVIOUS
    <3>2. \A m \in 1..n : m = n \/ m \in 1..(n - 1)
      OBVIOUS
    <3> HIDE DEF same
    <3> QED BY <1>3, <2>2, <3>1, <3>2
  <2> HIDE DEF same
  <2> QED BY <2>1, <2>2
<1>7. (\E m \in 1..(n - 1) : m \in same) <=> \E m \in 1..(n - 1) : Row(m)[col] = Row(n)[col]
  OBVIOUS
<1>8. Rank(col, n) = Cardinality(same)
  BY DEF Rank
<1> DEFINE earlier == \E m \in 1..(n - 1) : Row(m)[col] = Row(n)[col]
<1>9. Cardinality(same) = 1 <=> ~earlier
  <2> HIDE DEF same
  <2> QED BY <1>5, <1>6, <1>7
<1> HIDE DEF same, earlier
<1>10. Rank(col, n) > 1 <=> earlier
  BY <1>2, <1>4, <1>8, <1>9
<1> QED BY <1>10 DEF earlier

\* Every record's conditions are guarded, and put it where it belongs.
LEMMA RecordFaithful ==
  ASSUME NEW rule, Readable(rule), NEW n \in Nat \ {0}
  PROVE  /\ Guarded(ConditionsOf(rule, n, Own(rule)))
         /\ ~NullInList(rule) => Sorts(ConditionsOf(rule, n, Own(rule)), ClassAt(rule, n))
<1>1. CASE rule.type # "UNIQUENESS"
  BY <1>1, RuleFaithful DEF ConditionsOf, ClassAt, Faithful
<1>2. CASE rule.type = "UNIQUENESS"
  <2> DEFINE cell == Row(n)[rule.col]
             missing == Missing(cell)
             again == Lift(Rank(rule.col, n) > 1)
             repeated == \E m \in 1..(n - 1) : Row(m)[rule.col] = Row(n)[rule.col]
             failed == And(Not(missing), again)
  <2>1. ConditionsOf(rule, n, Own(rule)) = Compiled(missing, "false", failed)
    BY <1>2 DEF ConditionsOf, UniquenessConditions
  <2>2. missing \in Definite /\ (missing = "true" <=> cell.null \/ cell.blank)
    BY MissingIs
  <2>3. again \in Definite /\ (again = "true" <=> repeated)
    <3>1. Rank(rule.col, n) > 1 <=> repeated
      BY RankIs
    <3> HIDE DEF repeated
    <3> QED BY <3>1 DEF Lift, Definite
  <2>4. ClassAt(rule, n) = IF cell.null \/ cell.blank THEN "missing" ELSE IF repeated THEN "failed" ELSE "passed"
    BY <1>2 DEF ClassAt
  <2> HIDE DEF cell, missing, again, repeated
  <2>5. failed \in Definite /\ (failed = "true" <=> missing = "false" /\ again = "true")
    BY <2>2, <2>3, Conjunction, Negation
  <2> HIDE DEF failed
  <2>6. ClassAt(rule, n) = ClassOf(missing, "false", failed)
    BY <2>2, <2>3, <2>4, <2>5 DEF ClassOf, Definite
  <2>7. "false" \in Definite
    BY DEF Definite
  <2> QED BY <2>1, <2>2, <2>5, <2>6, <2>7, CompiledSorts, CompiledGuarded
<1> QED BY <1>1, <1>2

\* The sizes of two disjoint finite sets add up.
LEMMA DisjointSizes ==
  ASSUME NEW S, NEW T, IsFiniteSet(S), IsFiniteSet(T), S \cap T = {}
  PROVE  IsFiniteSet(S \union T) /\ Cardinality(S \union T) = Cardinality(S) + Cardinality(T)
<1>1. /\ IsFiniteSet(S \union T)
      /\ Cardinality(S \union T) = Cardinality(S) + Cardinality(T) - Cardinality(S \cap T)
  BY FS_Union
<1>2. Cardinality(S \cap T) = 0
  BY FS_EmptySet
<1>3. Cardinality(S) \in Nat /\ Cardinality(T) \in Nat
  BY FS_CardinalityType
<1> QED BY <1>1, <1>2, <1>3

\* A finite set whose elements are each in one of the five classes.
LEMMA Partition ==
  ASSUME NEW N, IsFiniteSet(N), NEW f, \A n \in N : f[n] \in ClassNames
  PROVE  TotalOf([k \in ClassNames |-> Cardinality({n \in N : f[n] = k})]) = Cardinality(N)
<1> DEFINE Of(k) == {n \in N : f[n] = k}
           A == Of("not_applicable")
           B == Of("missing")
           C == Of("miscast")
           D == Of("failed")
           E == Of("passed")
<1>1. A \in SUBSET N /\ B \in SUBSET N /\ C \in SUBSET N /\ D \in SUBSET N /\ E \in SUBSET N
  OBVIOUS
<1>2. /\ A \cap B = {} /\ (A \union B) \cap C = {} /\ (A \union B \union C) \cap D = {}
      /\ (A \union B \union C \union D) \cap E = {}
  OBVIOUS
<1>3. A \union B \union C \union D \union E = N
  BY DEF ClassNames
<1>4. TotalOf([k \in ClassNames |-> Cardinality({n \in N : f[n] = k})]) =
        Cardinality(A) + Cardinality(B) + Cardinality(C) + Cardinality(D) + Cardinality(E)
  BY DEF TotalOf, ClassNames
<1> HIDE DEF A, B, C, D, E
<1>5. /\ IsFiniteSet(A) /\ IsFiniteSet(B) /\ IsFiniteSet(C) /\ IsFiniteSet(D) /\ IsFiniteSet(E)
      /\ Cardinality(A) \in Nat /\ Cardinality(B) \in Nat /\ Cardinality(C) \in Nat
      /\ Cardinality(D) \in Nat /\ Cardinality(E) \in Nat /\ Cardinality({}) = 0
  BY <1>1, FS_Subset, FS_CardinalityType, FS_EmptySet
<1>6. IsFiniteSet(A \union B) /\ Cardinality(A \union B) = Cardinality(A) + Cardinality(B)
  BY <1>2, <1>5, DisjointSizes
<1>7. /\ IsFiniteSet(A \union B \union C)
      /\ Cardinality(A \union B \union C) = Cardinality(A) + Cardinality(B) + Cardinality(C)
  BY <1>2, <1>5, <1>6, DisjointSizes
<1>8. /\ IsFiniteSet(A \union B \union C \union D)
      /\ Cardinality(A \union B \union C \union D) =
           Cardinality(A) + Cardinality(B) + Cardinality(C) + Cardinality(D)
  BY <1>2, <1>5, <1>7, DisjointSizes
<1>9. Cardinality(A \union B \union C \union D \union E) =
        Cardinality(A) + Cardinality(B) + Cardinality(C) + Cardinality(D) + Cardinality(E)
  BY <1>2, <1>5, <1>8, DisjointSizes
<1> QED BY <1>3, <1>4, <1>9

\* The records of a snapshot are the numbers from 1 to their count.
LEMMA RowsAre ==
  ASSUME data \in Snapshots
  PROVE  /\ Len(data.rows) \in Nat /\ DOMAIN data.rows = 1..Len(data.rows) /\ DOMAIN data.rows \subseteq Nat \ {0}
         /\ IsFiniteSet(DOMAIN data.rows) /\ Cardinality(DOMAIN data.rows) = Len(data.rows)
<1>1. data.rows \in Seq(Range(data.rows))
  BY SnapshotsAssumption
<1>2. Len(data.rows) \in Nat /\ DOMAIN data.rows = 1..Len(data.rows)
  BY <1>1
<1>3. IsFiniteSet(1..Len(data.rows)) /\ Cardinality(1..Len(data.rows)) = Len(data.rows)
  BY <1>2, FS_Interval
<1> QED BY <1>2, <1>3

\* The counts of a rule are the numbers of records in the classes they belong in.
LEMMA CountsOfClasses ==
  ASSUME data \in Snapshots, NEW rule, Readable(rule), ~NullInList(rule), NEW sampled
  PROVE  /\ \A n \in DOMAIN data.rows : ClassAt(rule, n) \in ClassNames
         /\ Measured(rule, Own(rule), sampled).counts =
              [k \in ClassNames |-> Cardinality({n \in DOMAIN data.rows : ClassAt(rule, n) = k})]
<1> DEFINE N == DOMAIN data.rows
           conditions == [n \in N |-> IF rule.type = "UNIQUENESS" THEN UniquenessConditions(rule.col, n)
                                      ELSE Conditions(rule, Row(n), Own(rule))]
<1>1. Measured(rule, Own(rule), sampled).counts =
        [k \in ClassNames |-> Cardinality({n \in N : Holds(Classes(conditions[n])[k])})]
  BY DEF Measured
<1>2. ASSUME NEW n \in N
      PROVE  Sorts(conditions[n], ClassAt(rule, n))
  <2>1. n \in Nat \ {0}
    BY RowsAre
  <2>2. conditions[n] = ConditionsOf(rule, n, Own(rule))
    BY DEF ConditionsOf
  <2> QED BY <2>1, <2>2, RecordFaithful
<1> HIDE DEF conditions
<1>3. ASSUME NEW k \in ClassNames
      PROVE  {n \in N : Holds(Classes(conditions[n])[k])} = {n \in N : ClassAt(rule, n) = k}
  <2>1. \A n \in N : Holds(Classes(conditions[n])[k]) <=> ClassAt(rule, n) = k
    BY <1>2 DEF Sorts
  <2> QED BY <2>1
<1>4. \A n \in N : ClassAt(rule, n) \in ClassNames
  BY <1>2 DEF Sorts
<1> QED BY <1>1, <1>3, <1>4

\* The five classes of a rule partition the records.
LEMMA MeasuredConserves ==
  ASSUME data \in Snapshots, NEW rule, Readable(rule), ~NullInList(rule), NEW sampled
  PROVE  TotalOf(Measured(rule, Own(rule), sampled).counts) = Len(data.rows)
<1> DEFINE f == [n \in DOMAIN data.rows |-> ClassAt(rule, n)]
<1>1. \A n \in DOMAIN data.rows : f[n] = ClassAt(rule, n) /\ f[n] \in ClassNames
  BY CountsOfClasses
<1> HIDE DEF f
<1>2. TotalOf([k \in ClassNames |-> Cardinality({n \in DOMAIN data.rows : f[n] = k})]) = Len(data.rows)
  BY <1>1, RowsAre, Partition
<1>3. \A k \in ClassNames : {n \in DOMAIN data.rows : f[n] = k} = {n \in DOMAIN data.rows : ClassAt(rule, n) = k}
  BY <1>1
<1>4. Measured(rule, Own(rule), sampled).counts =
        [k \in ClassNames |-> Cardinality({n \in DOMAIN data.rows : f[n] = k})]
  BY <1>3, CountsOfClasses
<1> QED BY <1>2, <1>4

\* A set of naturals that is not empty has a least element.
LEMMA Least ==
  ASSUME NEW S, S \subseteq Nat, S # {}
  PROVE  \E n \in S : \A m \in S : n <= m
<1>1. PICK n \in S : \A m \in S : ~(<<m, n>> \in OpToRel(<, Nat))
  BY WFMin, NatLessThanWellFounded
<1>2. ASSUME NEW m \in S, m < n
      PROVE  FALSE
  <2>1. <<m, n>> \in OpToRel(<, Nat)
    BY <1>2 DEF OpToRel
  <2> QED BY <1>1, <2>1
<1> QED BY <1>2

\* Of a UNIQUENESS rule, one record of each value passes.
LEMMA OnePassesPerValue ==
  ASSUME data \in Snapshots, NEW rule, rule.type = "UNIQUENESS"
  PROVE  LET cells == {n \in DOMAIN data.rows : ~Row(n)[rule.col].null /\ ~Row(n)[rule.col].blank}
         IN  Cardinality({n \in DOMAIN data.rows : ClassAt(rule, n) = "passed"}) =
               Cardinality({Row(n)[rule.col] : n \in cells})
<1> DEFINE N == DOMAIN data.rows
           v == [n \in N |-> Row(n)[rule.col]]
           Gone(x) == x.null \/ x.blank
           cells == {n \in N : ~v[n].null /\ ~v[n].blank}
           firsts == {n \in N : ClassAt(rule, n) = "passed"}
           values == {v[n] : n \in cells}
           f == [n \in firsts |-> v[n]]
<1>1. N = 1..Len(data.rows) /\ Len(data.rows) \in Nat /\ IsFiniteSet(N)
  BY RowsAre
<1>2. ASSUME NEW n \in N
      PROVE  n \in firsts <=> n \in cells /\ ~\E m \in 1..(n - 1) : v[m] = v[n]
  <2>1. ClassAt(rule, n) = IF v[n].null \/ v[n].blank THEN "missing"
                           ELSE IF \E m \in 1..(n - 1) : Row(m)[rule.col] = v[n] THEN "failed" ELSE "passed"
    BY DEF ClassAt
  <2>2. \A m \in 1..(n - 1) : m \in N /\ v[m] = Row(m)[rule.col]
    BY <1>1
  <2> DEFINE earlier == \E m \in 1..(n - 1) : v[m] = v[n]
  <2>3. ClassAt(rule, n) = IF v[n].null \/ v[n].blank THEN "missing" ELSE IF earlier THEN "failed" ELSE "passed"
    BY <2>1, <2>2
  <2> HIDE DEF earlier, v
  <2>4. n \in firsts <=> n \in cells /\ ~earlier
    BY <2>3
  <2> QED BY <2>4 DEF earlier
<1> HIDE DEF v
<1>3. firsts \in SUBSET N /\ firsts \subseteq cells /\ IsFiniteSet(firsts)
  <2>1. firsts \in SUBSET N
    OBVIOUS
  <2>2. firsts \subseteq cells
    BY <1>2
  <2> HIDE DEF firsts
  <2> QED BY <1>1, <2>1, <2>2, FS_Subset
<1>4. ASSUME NEW a \in firsts, NEW b \in firsts, v[a] = v[b]
      PROVE  a = b
  <2>1. a \in Nat \ {0} /\ b \in Nat \ {0}
    BY <1>1
  <2>2. ~(a < b) /\ ~(b < a)
    <3>1. ~\E m \in 1..(a - 1) : v[m] = v[a]
      BY <1>2
    <3>2. ~\E m \in 1..(b - 1) : v[m] = v[b]
      BY <1>2
    <3>3. a < b => a \in 1..(b - 1)
      BY <2>1
    <3>4. b < a => b \in 1..(a - 1)
      BY <2>1
    <3> QED BY <1>4, <3>1, <3>2, <3>3, <3>4
  <2> QED BY <2>1, <2>2
<1>5. ASSUME NEW x \in values
      PROVE  \E n \in firsts : v[n] = x
  <2> DEFINE holders == {n \in N : v[n] = x}
  <2>1. PICK k \in cells : x = v[k]
    OBVIOUS
  <2>2. holders \subseteq Nat /\ holders # {}
    BY <1>1, <2>1
  <2>3. PICK n \in holders : \A m \in holders : n <= m
    <3> HIDE DEF holders
    <3> QED BY <2>2, Least
  <2>4. n \in cells
    BY <2>1, <2>3
  <2>5. ~\E m \in 1..(n - 1) : v[m] = v[n]
    <3>1. ASSUME NEW m \in 1..(n - 1), v[m] = v[n]
          PROVE  FALSE
      <4>1. m \in holders /\ n \in Nat /\ m \in Nat /\ m < n
        BY <1>1, <3>1
      <4> QED BY <2>3, <4>1
    <3> QED BY <3>1
  <2>6. n \in N /\ v[n] = x
    OBVIOUS
  <2>7. n \in firsts
    BY <1>2, <2>4, <2>5, <2>6
  <2> QED BY <2>6, <2>7
<1>6. f \in Injection(firsts, values)
  <2>1. f \in [firsts -> values]
    BY <1>3
  <2>2. \A a, b \in firsts : f[a] = f[b] => a = b
    <3> HIDE DEF firsts
    <3> QED BY <1>4
  <2> HIDE DEF f, firsts, values
  <2>3. DOMAIN f = firsts
    BY <2>1
  <2> QED BY <2>1, <2>2, <2>3 DEF Injection, IsInjective
<1>7. f \in Surjection(firsts, values)
  <2>1. f \in [firsts -> values]
    BY <1>3
  <2>2. \A x \in values : \E n \in firsts : f[n] = x
    <3> HIDE DEF firsts, values
    <3> QED BY <1>5
  <2> HIDE DEF f, firsts, values
  <2> QED BY <2>1, <2>2 DEF Surjection
<1>8. Cardinality(values) = Cardinality(firsts)
  <2> HIDE DEF f, firsts, values
  <2> QED BY <1>3, <1>6, <1>7, FS_Surjection
<1>9. values = {Row(n)[rule.col] : n \in {m \in N : ~Row(m)[rule.col].null /\ ~Row(m)[rule.col].blank}}
  <2>1. \A n \in N : v[n] = Row(n)[rule.col]
    BY DEF v
  <2> HIDE DEF N
  <2> QED BY <2>1
<1> HIDE DEF values
<1> QED BY <1>8, <1>9

\* The counts of a rule are those of what it means.
LEMMA MeasuredIsMeant ==
  ASSUME data \in Snapshots, NEW rule, Readable(rule), ~NullInList(rule), NEW sampled, NEW counts,
         counts = Measured(rule, Own(rule), sampled).counts
  PROVE  IF rule.type = "UNIQUENESS"
         THEN LET cells == {n \in DOMAIN data.rows : ~Row(n)[rule.col].null /\ ~Row(n)[rule.col].blank}
              IN  counts["passed"] = Cardinality({Row(n)[rule.col] : n \in cells})
         ELSE \A k \in ClassNames :
                 counts[k] = Cardinality({n \in DOMAIN data.rows : Meaning(rule, Row(n)) = k})
<1>1. counts = [k \in ClassNames |-> Cardinality({n \in DOMAIN data.rows : ClassAt(rule, n) = k})]
  BY CountsOfClasses
<1>2. CASE rule.type = "UNIQUENESS"
  <2>1. counts["passed"] = Cardinality({n \in DOMAIN data.rows : ClassAt(rule, n) = "passed"})
    BY <1>1 DEF ClassNames
  <2> QED BY <1>2, <2>1, OnePassesPerValue
<1>3. CASE rule.type # "UNIQUENESS"
  <2>1. \A n \in DOMAIN data.rows : ClassAt(rule, n) = Meaning(rule, Row(n))
    BY <1>3 DEF ClassAt
  <2>2. ASSUME NEW k \in ClassNames
        PROVE  counts[k] = Cardinality({n \in DOMAIN data.rows : Meaning(rule, Row(n)) = k})
    <3>1. {n \in DOMAIN data.rows : ClassAt(rule, n) = k} = {n \in DOMAIN data.rows : Meaning(rule, Row(n)) = k}
      BY <2>1
    <3> QED BY <1>1, <3>1
  <2> QED BY <1>3, <2>2
<1> QED BY <1>2, <1>3

\* The evidence of a rule is drawn from the records its counts blame, or lost.
LEMMA MeasuredEvidence ==
  ASSUME data \in Snapshots, NEW rule, Readable(rule), NEW sampled, NEW out,
         out = Measured(rule, Own(rule), sampled)
  PROVE  LET blamed == out.counts["failed"] + out.counts["miscast"]
         IN  out.evidence \in {0, IF blamed > SampleLimit THEN SampleLimit ELSE blamed}
<1> DEFINE N == DOMAIN data.rows
           conditions == [n \in N |-> IF rule.type = "UNIQUENESS" THEN UniquenessConditions(rule.col, n)
                                      ELSE Conditions(rule, Row(n), Own(rule))]
           In(k) == {n \in N : Holds(Classes(conditions[n])[k])}
           broken == {n \in N : Holds(Or(conditions[n].miscast, conditions[n].failed))}
           failed == In("failed")
           miscast == In("miscast")
<1>1. /\ out.counts["failed"] = Cardinality(failed)
      /\ out.counts["miscast"] = Cardinality(miscast)
      /\ out.evidence = IF out.counts["failed"] + out.counts["miscast"] = 0 \/ ~sampled THEN 0
                        ELSE IF Cardinality(broken) > SampleLimit THEN SampleLimit ELSE Cardinality(broken)
  BY DEF Measured, ClassNames
<1>2. ASSUME NEW n \in N
      PROVE  Guarded(conditions[n])
  <2>1. n \in Nat \ {0}
    BY RowsAre
  <2>2. conditions[n] = ConditionsOf(rule, n, Own(rule))
    BY DEF ConditionsOf
  <2> QED BY <2>1, <2>2, RecordFaithful
<1> HIDE DEF conditions
<1>3. \A n \in N : /\ Holds(Or(conditions[n].miscast, conditions[n].failed)) <=>
                        Holds(Classes(conditions[n])["miscast"]) \/ Holds(Classes(conditions[n])["failed"])
                   /\ ~(Holds(Classes(conditions[n])["miscast"]) /\ Holds(Classes(conditions[n])["failed"]))
  BY <1>2, BlamedOnce
<1>4. broken = failed \union miscast /\ failed \cap miscast = {} /\ failed \in SUBSET N /\ miscast \in SUBSET N
  BY <1>3
<1> HIDE DEF broken, failed, miscast
<1>5. IsFiniteSet(failed) /\ IsFiniteSet(miscast) /\ Cardinality(failed) \in Nat /\ Cardinality(miscast) \in Nat
  BY <1>4, RowsAre, FS_Subset, FS_CardinalityType
<1>6. Cardinality(broken) = Cardinality(failed) + Cardinality(miscast)
  BY <1>4, <1>5, DisjointSizes
<1> QED BY <1>1, <1>5, <1>6, LimitsAssumption

----------------------------------------------------------------------------
(* The Python worker's evaluators *)

\* An entry of the cache whose evaluator is the one its key names.
Honest(e) == e.evaluator = Evaluator(e.key[1], e.key[2])

\* A cache of honest entries, one to a key, within its bound.
Kept(c) ==
  /\ \E S : c \in Seq(S) /\ \A e \in S : Honest(e)
  /\ Len(c) <= CacheSize
  /\ \A m, n \in DOMAIN c : c[m].key = c[n].key => m = n

\* A rule takes the evaluator it is due, and leaves an honest cache behind.
LEMMA UseKeeps ==
  ASSUME NEW c, Kept(c), NEW rule, installed.digest = rule.digest
  PROVE  Kept(Use(c, rule)) /\ Entry(Use(c, rule), rule) = Evaluator(rule.digest, rule.terms)
<1> DEFINE d == Use(c, rule)
           new == [key |-> Key(rule), evaluator |-> Evaluator(installed.digest, rule.terms)]
           room == MakeRoom(c)
<1>1. PICK S : c \in Seq(S) /\ \A e \in S : Honest(e)
  BY DEF Kept
<1>2. DOMAIN c = 1..Len(c) /\ Len(c) \in Nat /\ \A n \in DOMAIN c : c[n] \in S
  BY <1>1
<1>3. Key(rule) = <<rule.digest, rule.terms>>
  BY DEF Key
<1>4. ASSUME NEW e, Honest(e), e.key = Key(rule)
      PROVE  e.evaluator = Evaluator(rule.digest, rule.terms)
  BY <1>3, <1>4 DEF Honest
<1>5. CASE Cached(c, rule)
  <2>1. d = c
    BY <1>5 DEF Use
  <2>2. PICK n \in DOMAIN c : c[n].key = Key(rule)
    BY <1>5 DEF Cached
  <2> DEFINE found == CHOOSE m \in DOMAIN c : c[m].key = Key(rule)
  <2>3. found \in DOMAIN c /\ c[found].key = Key(rule)
    BY <2>2
  <2>4. Entry(c, rule) = c[found].evaluator
    BY DEF Entry
  <2> HIDE DEF found
  <2>5. Honest(c[found])
    BY <1>1, <1>2, <2>3
  <2> QED BY <1>4, <2>1, <2>3, <2>4, <2>5
<1>6. CASE ~Cached(c, rule)
  <2>1. d = Append(room, new)
    BY <1>6 DEF Use
  <2>2. /\ room \in Seq(S) /\ Len(room) < CacheSize
        /\ \A m, n \in DOMAIN room : room[m].key = room[n].key => m = n
        /\ \A m \in DOMAIN room : room[m].key # Key(rule)
    <3>1. CASE Len(c) >= CacheSize
      <4>1. room = Tail(c) /\ c # <<>>
        BY <1>2, <3>1, LimitsAssumption DEF MakeRoom
      <4>2. /\ room \in Seq(S) /\ Len(room) = Len(c) - 1
            /\ \A m \in 1..(Len(c) - 1) : room[m] = c[m + 1]
        BY <1>1, <4>1
      <4>3. DOMAIN room = 1..(Len(c) - 1)
        BY <4>2
      <4>4. Len(room) < CacheSize
        BY <1>2, <4>2, LimitsAssumption DEF Kept
      <4>5. ASSUME NEW m \in DOMAIN room
            PROVE  m \in Nat /\ m + 1 \in DOMAIN c /\ room[m] = c[m + 1]
        BY <1>2, <4>2, <4>3
      <4>6. ASSUME NEW m \in DOMAIN room, NEW n \in DOMAIN room, room[m].key = room[n].key
            PROVE  m = n
        <5>1. m \in Nat /\ n \in Nat /\ m + 1 \in DOMAIN c /\ n + 1 \in DOMAIN c /\ c[m + 1].key = c[n + 1].key
          BY <4>5, <4>6
        <5>2. m + 1 = n + 1
          BY <5>1 DEF Kept
        <5> QED BY <5>1, <5>2
      <4>7. \A m \in DOMAIN room : room[m].key # Key(rule)
        BY <1>6, <4>5 DEF Cached
      <4> QED BY <4>2, <4>4, <4>6, <4>7
    <3>2. CASE ~(Len(c) >= CacheSize)
      <4>1. room = c
        BY <3>2 DEF MakeRoom
      <4>2. Len(room) < CacheSize
        BY <1>2, <3>2, <4>1, LimitsAssumption
      <4> QED BY <1>1, <1>6, <4>1, <4>2 DEF Kept, Cached
    <3> QED BY <3>1, <3>2
  <2> HIDE DEF room
  <2>3. Honest(new) /\ new.key = Key(rule)
    BY <1>3 DEF Honest
  <2> HIDE DEF new
  <2> DEFINE T == S \union {new}
  <2>4. \A e \in T : Honest(e)
    BY <1>1, <2>3
  <2>5. room \in Seq(T) /\ new \in T
    <3>1. DOMAIN room = 1..Len(room) /\ Len(room) \in Nat /\ \A n \in 1..Len(room) : room[n] \in T
      BY <2>2
    <3>2. room = [n \in 1..Len(room) |-> room[n]]
      BY <2>2
    <3> QED BY <3>1, <3>2
  <2> HIDE DEF T
  <2>6. /\ d \in Seq(T) /\ Len(d) = Len(room) + 1 /\ Len(room) \in Nat /\ d[Len(d)] = new
        /\ \A m \in 1..Len(room) : d[m] = room[m]
    BY <2>1, <2>5
  <2>7. DOMAIN d = 1..(Len(room) + 1) /\ DOMAIN room = 1..Len(room)
    BY <2>2, <2>6
  <2> HIDE DEF d
  <2>8. ASSUME NEW m \in DOMAIN d
        PROVE  (m \in DOMAIN room /\ d[m] = room[m]) \/ (m = Len(d) /\ d[m] = new)
    BY <2>6, <2>7
  <2>9. ASSUME NEW m \in DOMAIN d, NEW n \in DOMAIN d, d[m].key = d[n].key
        PROVE  m = n
    BY <2>2, <2>3, <2>8, <2>9
  <2>10. Len(d) <= CacheSize
    BY <2>2, <2>6, LimitsAssumption
  <2>11. Kept(d)
    BY <2>4, <2>6, <2>9, <2>10 DEF Kept
  <2> DEFINE found == CHOOSE m \in DOMAIN d : d[m].key = Key(rule)
  <2>12. Len(d) \in DOMAIN d /\ d[Len(d)].key = Key(rule)
    BY <2>3, <2>6, <2>7
  <2>13. found \in DOMAIN d /\ d[found].key = Key(rule)
    BY <2>12
  <2>14. Entry(d, rule) = d[found].evaluator
    BY DEF Entry
  <2> HIDE DEF found
  <2>15. Honest(d[found])
    BY <2>4, <2>6, <2>13
  <2> QED BY <1>4, <2>11, <2>13, <2>14, <2>15 DEF d
<1> QED BY <1>5, <1>6

\* What the spelling rules of a run leave behind and take: every rule that
\* compiles is due its own evaluator, and a rule of another type takes none.
LEMMA UseAllKeeps ==
  ASSUME Kept(cache), Len(rules) \in Nat, DOMAIN rules = 1..Len(rules)
  PROVE  /\ Kept(UseAll.cache)
         /\ \A i \in DOMAIN rules : Compiles(rules[i]) => UseAll.used[i] = Own(rules[i])
<1> DEFINE start == [cache |-> cache, used |-> [i \in DOMAIN rules |-> None]]
           Following(F, n) == IF n = 0 THEN start ELSE UseNext(F[n - 1], n)
           Good(F, n) == F = [k \in 0..n |-> Following(F, k)]
           K == {n \in Nat : \E F : Good(F, n)}
<1>1. 0 \in K
  <2> DEFINE F == [k \in 0..0 |-> start]
  <2> HIDE DEF start
  <2>1. Good(F, 0)
    OBVIOUS
  <2> QED BY <2>1
<1>2. ASSUME NEW n \in Nat, n \in K
      PROVE  n + 1 \in K
  <2>1. PICK F : Good(F, n)
    BY <1>2
  <2> HIDE DEF start
  <2> DEFINE G == [k \in 0..(n + 1) |-> IF k = n + 1 THEN UseNext(F[n], n + 1) ELSE F[k]]
  <2>2. ASSUME NEW k \in 0..(n + 1)
        PROVE  G[k] = Following(G, k)
    <3>1. CASE k = n + 1
      <4>1. G[k] = UseNext(F[n], n + 1)
        BY <3>1
      <4>2. G[k - 1] = F[n] /\ k # 0 /\ n = k - 1
        BY <3>1
      <4> QED BY <3>1, <4>1, <4>2
    <3>2. CASE k = 0
      <4>1. G[k] = F[k] /\ F[k] = Following(F, k)
        BY <2>1, <3>2
      <4> QED BY <3>2, <4>1
    <3>3. CASE k \in 1..n
      <4>1. G[k] = F[k] /\ k \in 0..n
        BY <3>3
      <4>2. F[k] = Following(F, k)
        BY <2>1, <4>1
      <4>3. G[k - 1] = F[k - 1] /\ k # 0
        BY <3>3
      <4> QED BY <4>1, <4>2, <4>3
    <3> QED BY <3>1, <3>2, <3>3
  <2>3. Good(G, n + 1)
    <3> HIDE DEF Following
    <3>1. G = [k \in 0..(n + 1) |-> G[k]]
      OBVIOUS
    <3> HIDE DEF G
    <3> QED BY <2>2, <3>1
  <2> HIDE DEF Good
  <2> QED BY <2>3
<1>3. Len(rules) \in K
  <2> HIDE DEF K
  <2> QED BY <1>1, <1>2, Counting
<1> DEFINE after == CHOOSE F : F = [n \in 0..Len(rules) |-> IF n = 0 THEN start ELSE UseNext(F[n - 1], n)]
<1>4. after = [n \in 0..Len(rules) |-> IF n = 0 THEN start ELSE UseNext(after[n - 1], n)]
  <2> HIDE DEF start
  <2> QED BY <1>3
<1>5. UseAll = after[Len(rules)]
  BY DEF UseAll
<1> HIDE DEF after
<1> DEFINE Served(i) == rules[i].type = "SPELLING" /\ Compiles(rules[i])
           Done(n) == /\ Kept(after[n].cache)
                      /\ after[n].used \in [DOMAIN rules -> {after[n].used[i] : i \in DOMAIN rules}]
                      /\ \A i \in DOMAIN rules : (i <= n /\ Served(i)) => after[n].used[i] = Own(rules[i])
                      /\ \A i \in DOMAIN rules : ~Served(i) => after[n].used[i] = None
           J == {n \in Nat : n <= Len(rules) => Done(n)}
<1>6. 0 \in J
  <2>1. after[0] = start
    BY <1>4
  <2> QED BY <2>1
<1>7. ASSUME NEW n \in Nat, n \in J
      PROVE  n + 1 \in J
  <2> SUFFICES ASSUME n + 1 <= Len(rules)
               PROVE  Done(n + 1)
    OBVIOUS
  <2>1. Done(n) /\ n + 1 \in DOMAIN rules
    BY <1>7
  <2>2. after[n + 1] = UseNext(after[n], n + 1)
    <3>1. n + 1 \in 0..Len(rules) /\ n + 1 # 0 /\ (n + 1) - 1 = n
      OBVIOUS
    <3> DEFINE m == n + 1
    <3>2. after[m] = UseNext(after[m - 1], m)
      <4>1. m \in 0..Len(rules) /\ m # 0
        BY <3>1
      <4> HIDE DEF m, start, Done
      <4> QED BY <1>4, <4>1
    <3> HIDE DEF Done
    <3> QED BY <3>1, <3>2
  <2>3. CASE Served(n + 1)
    <3> DEFINE c == Use(after[n].cache, rules[n + 1])
    <3>1. installed.digest = rules[n + 1].digest
      BY <2>3 DEF Compiles, DictionaryAsPinned
    <3>2. Kept(c) /\ Entry(c, rules[n + 1]) = Evaluator(rules[n + 1].digest, rules[n + 1].terms)
      BY <2>1, <3>1, UseKeeps
    <3>3. /\ after[n + 1].cache = c
          /\ after[n + 1].used = [after[n].used EXCEPT ![n + 1] = Entry(c, rules[n + 1])]
      BY <2>2, <2>3 DEF UseNext
    <3>4. Own(rules[n + 1]) = Entry(c, rules[n + 1])
      BY <2>3, <3>2 DEF Own
    <3> HIDE DEF c
    <3>5. /\ DOMAIN after[n + 1].used = DOMAIN rules
          /\ after[n + 1].used[n + 1] = Own(rules[n + 1])
          /\ \A i \in DOMAIN rules : i # n + 1 => after[n + 1].used[i] = after[n].used[i]
      BY <2>1, <3>3, <3>4
    <3>6. \A i \in DOMAIN rules : i <= n + 1 => i <= n \/ i = n + 1
      OBVIOUS
    <3>7. after[n + 1].used \in [DOMAIN rules -> {after[n + 1].used[i] : i \in DOMAIN rules}]
      BY <2>1, <3>3
    <3> QED BY <2>1, <2>3, <3>2, <3>3, <3>5, <3>6, <3>7
  <2>4. CASE ~Served(n + 1)
    <3>1. after[n + 1] = after[n]
      BY <2>2, <2>4 DEF UseNext
    <3>2. \A i \in DOMAIN rules : i <= n + 1 /\ Served(i) => i <= n
      BY <2>4
    <3> QED BY <2>1, <3>1, <3>2
  <2> QED BY <2>3, <2>4
<1>8. Done(Len(rules))
  <2> HIDE DEF Done
  <2>1. Len(rules) \in J
    <3> HIDE DEF J
    <3> QED BY <1>6, <1>7, Counting
  <2> QED BY <2>1
<1>9. ASSUME NEW i \in DOMAIN rules, Compiles(rules[i])
      PROVE  UseAll.used[i] = Own(rules[i])
  <2>1. CASE Served(i)
    BY <1>5, <1>8, <2>1
  <2>2. CASE rules[i].type # "SPELLING"
    BY <1>5, <1>8, <2>2 DEF Own
  <2> QED BY <1>9, <2>1, <2>2
<1> QED BY <1>5, <1>8, <1>9

----------------------------------------------------------------------------
(* The invariant *)

\* What a run on the current snapshot may say of a rule.
Earned(rule, out) ==
  IF data.rows = <<>> THEN out = Unmeasured("NOT_MEASURABLE")
  ELSE \/ out = Unmeasured("FAILED_TO_MEASURE")
       \/ \E sampled \in BOOLEAN : out = Measured(rule, Own(rule), sampled)

\* Every rule was let through by the API, every evaluator kept is the one its key
\* names, and every output is earned from the rule, the dictionary it pinned and
\* the current snapshot alone.
Inv ==
  /\ installed \in Dictionaries \union {None}
  /\ data \in Snapshots \union {None}
  /\ rules \in Seq(Range(rules)) /\ \A i \in DOMAIN rules : Readable(rules[i])
  /\ Kept(cache)
  /\ outs # None => data \in Snapshots /\ \A i \in DOMAIN rules : Earned(rules[i], outs[i])

\* Pinning a rule to the installed dictionary leaves the rest of it alone.
LEMMA PinnedReadable ==
  ASSUME NEW rule, Readable(rule)
  PROVE  Readable(Pinned(rule))
<1>1. CASE rule.type = "SPELLING"
  <2> DEFINE pinned == [field \in DOMAIN rule \union {"digest"} |->
                       IF field = "digest" THEN installed.digest ELSE rule[field]]
  <2>1. "type" \in DOMAIN pinned /\ pinned.type = rule.type
    BY DEF Readable
  <2>2. Pinned(rule) = pinned
    BY <1>1 DEF Pinned
  <2> HIDE DEF pinned
  <2> QED BY <1>1, <2>1, <2>2 DEF Readable
<1>2. CASE rule.type # "SPELLING"
  BY <1>2 DEF Pinned
<1> QED BY <1>1, <1>2

\* A worker starts with no evaluator.
LEMMA NoneKept == Kept(<<>>)
<1>1. <<>> \in Seq({}) /\ DOMAIN <<>> = {} /\ Len(<<>>) = 0
  OBVIOUS
<1>2. \E S : <<>> \in Seq(S) /\ \A e \in S : Honest(e)
  <2> DEFINE c == <<>>
             S == {}
  <2>1. c \in Seq(S) /\ \A e \in S : Honest(e)
    OBVIOUS
  <2> HIDE DEF c, S
  <2>2. \E R : c \in Seq(R) /\ \A e \in R : Honest(e)
    BY <2>1
  <2> QED BY <2>2 DEF c
<1> QED BY <1>1, <1>2, LimitsAssumption DEF Kept

\* The engine starts with no ruleset, no snapshot and no evaluator.
LEMMA InitInv == Init => Inv
<1> SUFFICES ASSUME Init PROVE Inv
  OBVIOUS
<1>1. DOMAIN <<>> = {}
  OBVIOUS
<1>2. rules \in Seq(Range(rules))
  BY DEF Init
<1> QED BY <1>1, <1>2, NoneKept DEF Init, Inv

\* Every step keeps the invariant.
LEMMA NextInv ==
  ASSUME Inv, [Next]_vars
  PROVE  Inv'
<1>1. ASSUME NEW rs \in Rulesets, Author(rs)
      PROVE  Inv'
  <2>1. rs \in Seq(Range(rs)) /\ \A i \in DOMAIN rs : Readable(rs[i])
    BY RulesetsAssumption
  <2>2. DOMAIN rs = 1..Len(rs) /\ Len(rs) \in Nat
    BY <2>1
  <2>3. rules' = [i \in 1..Len(rs) |-> Pinned(rs[i])]
    BY <1>1, <2>2 DEF Author
  <2>4. DOMAIN rules' = 1..Len(rs) /\ \A i \in 1..Len(rs) : rules'[i] = Pinned(rs[i]) /\ rules'[i] \in Range(rules')
    BY <2>3 DEF Range
  <2>5. rules' \in Seq(Range(rules'))
    BY <2>2, <2>3, <2>4
  <2>6. \A i \in DOMAIN rules' : Readable(rules'[i])
    BY <2>1, <2>2, <2>4, PinnedReadable
  <2> QED BY <1>1, <2>5, <2>6 DEF Author, Inv
<1>2. ASSUME NEW s \in Snapshots, Register(s)
      PROVE  Inv'
  BY <1>2 DEF Register, Inv
<1>3. ASSUME NEW d \in Dictionaries \union {None}, Install(d)
      PROVE  Inv'
  <2>1. UNCHANGED <<rules, data, outs, cache>> /\ installed' = d
    BY <1>3 DEF Install
  <2>2. \A i \in DOMAIN rules : Earned(rules[i], outs[i])' <=> Earned(rules[i], outs[i])
    BY <2>1 DEF Earned, Measured, UniquenessConditions, Rank, Row
  <2> QED BY <2>1, <2>2 DEF Inv
<1>4. ASSUME Execute
      PROVE  Inv'
  <2>1. UNCHANGED <<installed, rules, data>> /\ data # None /\ data \in Snapshots
    BY <1>4 DEF Execute, Inv
  <2>2. ASSUME \A i \in DOMAIN rules : Earned(rules[i], outs'[i])
        PROVE  (\A i \in DOMAIN rules : Earned(rules[i], outs[i]))'
    <3>1. DOMAIN rules' = DOMAIN rules
      BY <2>1
    <3>2. ASSUME NEW i \in DOMAIN rules, NEW sampled \in BOOLEAN
          PROVE  Measured(rules[i], Own(rules[i]), sampled)' = Measured(rules[i], Own(rules[i]), sampled)
      BY <2>1 DEF Measured, UniquenessConditions, Rank, Row
    <3>3. ASSUME NEW i \in DOMAIN rules
          PROVE  Earned(rules[i], outs[i])'
      <4>1. Earned(rules[i], outs'[i])
        BY <2>2
      <4> QED BY <2>1, <3>2, <4>1 DEF Earned
    <3> QED BY <3>1, <3>3
  <2>3. CASE data.rows = <<>>
    <3>1. outs' = [i \in DOMAIN rules |-> Unmeasured("NOT_MEASURABLE")] /\ UNCHANGED cache
      BY <1>4, <2>3 DEF Execute
    <3>2. \A i \in DOMAIN rules : Earned(rules[i], outs'[i])
      BY <2>3, <3>1 DEF Earned
    <3> QED BY <2>1, <2>2, <3>1, <3>2 DEF Inv
  <2>4. CASE data.rows # <<>> /\ Raises
    <3>1. outs' = None /\ UNCHANGED cache
      BY <1>4, <2>4 DEF Execute
    <3> QED BY <2>1, <3>1 DEF Inv
  <2>5. CASE data.rows # <<>> /\ ~Raises
    <3>1. PICK unsampled \in SUBSET DOMAIN rules :
             /\ outs' = [i \in DOMAIN rules |->
                            IF Compiles(rules[i])
                            THEN Measured(rules[i], UseAll.used[i], i \notin unsampled)
                            ELSE Unmeasured("FAILED_TO_MEASURE")]
             /\ cache' = UseAll.cache
      BY <1>4, <2>5 DEF Execute
    <3>2. Len(rules) \in Nat /\ DOMAIN rules = 1..Len(rules) /\ Kept(cache)
      BY DEF Inv
    <3>3. Kept(cache') /\ \A i \in DOMAIN rules : Compiles(rules[i]) => UseAll.used[i] = Own(rules[i])
      BY <3>1, <3>2, UseAllKeeps
    <3>4. \A i \in DOMAIN rules : Earned(rules[i], outs'[i])
      BY <2>5, <3>1, <3>3 DEF Earned
    <3> QED BY <2>1, <2>2, <3>3, <3>4 DEF Inv
  <2> QED BY <2>3, <2>4, <2>5
<1>5. ASSUME WorkerEnds
      PROVE  Inv'
  <2>1. UNCHANGED <<installed, rules, data, outs>> /\ cache' = <<>>
    BY <1>5 DEF WorkerEnds
  <2>2. \A i \in DOMAIN rules : Earned(rules[i], outs[i])' <=> Earned(rules[i], outs[i])
    BY <2>1 DEF Earned, Measured, UniquenessConditions, Rank, Row
  <2> QED BY <2>1, <2>2, NoneKept DEF Inv
<1>6. ASSUME UNCHANGED vars
      PROVE  Inv'
  <2>1. UNCHANGED <<installed, rules, data, outs, cache>>
    BY <1>6 DEF vars
  <2>2. \A i \in DOMAIN rules : Earned(rules[i], outs[i])' <=> Earned(rules[i], outs[i])
    BY <2>1 DEF Earned, Measured, UniquenessConditions, Rank, Row
  <2> QED BY <2>1, <2>2 DEF Inv
<1> QED BY <1>1, <1>2, <1>3, <1>4, <1>5, <1>6 DEF Next

\* Outputs are earned in every reachable state.
THEOREM Invariance == Spec => []Inv
<1> QED BY InitInv, NextInv, PTL DEF Spec

----------------------------------------------------------------------------
(* What the runs check *)

\* What a rule measures does not depend on its sample.
LEMMA SamplesAside ==
  ASSUME NEW rule, NEW evaluator, NEW s \in BOOLEAN, NEW t \in BOOLEAN
  PROVE  SameMeasurement(Measured(rule, evaluator, s), Measured(rule, evaluator, t))
BY DEF Measured, SameMeasurement

\* A measured rule was let through by the API, and its output is earned.
LEMMA MeasuredEarned ==
  ASSUME Inv, NEW i \in DOMAIN rules, IsMeasured(i)
  PROVE  /\ data \in Snapshots /\ Readable(rules[i])
         /\ \E sampled \in BOOLEAN : outs[i] = Measured(rules[i], Own(rules[i]), sampled)
<1>1. outs # None /\ outs[i].status \in {"MEASURED", "NOT_APPLICABLE"}
  BY DEF IsMeasured
<1>2. data \in Snapshots /\ Readable(rules[i]) /\ Earned(rules[i], outs[i])
  BY <1>1 DEF Inv
<1>3. \A status : Unmeasured(status).status = status
  BY DEF Unmeasured
<1> QED BY <1>1, <1>2, <1>3 DEF Earned

\* RecordsConserved: the five classes of a measured rule partition the snapshot's
\* records (spark_compute.py: the five conditions and the counts over them), for
\* every rule the API lets through but a list of allowed values with a null.
THEOREM NoRecordIsLost == Spec => []RecordsConserved
<1>1. ASSUME Inv
      PROVE  RecordsConserved
  <2>1. ASSUME NEW i \in DOMAIN rules, IsMeasured(i), ~NullInList(rules[i])
        PROVE  TotalOf(outs[i].counts) = Len(data.rows)
    BY <1>1, <2>1, MeasuredEarned, MeasuredConserves
  <2> QED BY <2>1 DEF RecordsConserved
<1> QED BY <1>1, Invariance, PTL

\* CountsAreMeant: what the pass counts in three-valued logic is what the rule
\* means record by record, with the dictionary the rule pinned.
THEOREM CountsAreFaithful == Spec => []CountsAreMeant
<1>1. ASSUME Inv
      PROVE  CountsAreMeant
  <2> SUFFICES ASSUME NEW i \in DOMAIN rules, IsMeasured(i), ~NullInList(rules[i])
               PROVE  IF rules[i].type = "UNIQUENESS"
                      THEN LET cells == {n \in DOMAIN data.rows :
                                            ~Row(n)[rules[i].col].null /\ ~Row(n)[rules[i].col].blank}
                           IN  outs[i].counts["passed"] = Cardinality({Row(n)[rules[i].col] : n \in cells})
                      ELSE \A k \in ClassNames :
                              outs[i].counts[k] =
                                Cardinality({n \in DOMAIN data.rows : Meaning(rules[i], Row(n)) = k})
    BY DEF CountsAreMeant
  <2>1. /\ data \in Snapshots /\ Readable(rules[i])
        /\ \E sampled \in BOOLEAN : outs[i].counts = Measured(rules[i], Own(rules[i]), sampled).counts
    BY <1>1, MeasuredEarned
  <2> QED BY <2>1, MeasuredIsMeant
<1> QED BY <1>1, Invariance, PTL

\* EvidenceIsCounted: the sample's own filter (spark_compute.py:312) finds exactly
\* the records the counts blame, whatever the rule, up to its limit; a query that
\* fails (:332) leaves no sample and no part of one.
THEOREM EvidenceIsBlamed == Spec => []EvidenceIsCounted
<1>1. ASSUME Inv
      PROVE  EvidenceIsCounted
  <2> SUFFICES ASSUME NEW i \in DOMAIN rules, IsMeasured(i)
               PROVE  LET blamed == outs[i].counts["failed"] + outs[i].counts["miscast"]
                      IN  outs[i].evidence \in {0, IF blamed > SampleLimit THEN SampleLimit ELSE blamed}
    BY DEF EvidenceIsCounted
  <2>1. /\ data \in Snapshots /\ Readable(rules[i])
        /\ \E sampled \in BOOLEAN : outs[i] = Measured(rules[i], Own(rules[i]), sampled)
    BY <1>1, MeasuredEarned
  <2> QED BY <2>1, MeasuredEvidence
<1> QED BY <1>1, Invariance, PTL

\* RerunAgrees: two runs of a ruleset on its snapshot differ for a rule only where
\* one of them could not be measured at all or lost its sample, whatever dictionary
\* was installed and whatever other runs left in the Python worker.
THEOREM RerunsAgree == Spec => RerunAgrees
<1> DEFINE Agree == (outs # None /\ outs' # None /\ UNCHANGED <<rules, data>>) =>
                      \A i \in DOMAIN rules :
                         \/ SameMeasurement(outs[i], outs'[i])
                         \/ "FAILED_TO_MEASURE" \in {outs[i].status, outs'[i].status}
<1>1. ASSUME Inv, Inv', [Next]_vars
      PROVE  Agree
  <2> SUFFICES ASSUME outs # None, outs' # None, UNCHANGED <<rules, data>>, NEW i \in DOMAIN rules,
                      "FAILED_TO_MEASURE" \notin {outs[i].status, outs'[i].status}
               PROVE  SameMeasurement(outs[i], outs'[i])
    OBVIOUS
  <2>1. Earned(rules[i], outs[i])
    BY <1>1 DEF Inv
  <2>2. Earned(rules[i], outs[i])'
    BY <1>1 DEF Inv
  <2>3. \A sampled \in BOOLEAN :
          Measured(rules[i], Own(rules[i]), sampled)' = Measured(rules[i], Own(rules[i]), sampled)
    BY DEF Measured, UniquenessConditions, Rank, Row
  <2>4. Earned(rules[i], outs'[i])
    BY <2>2, <2>3 DEF Earned
  <2>5. \A status : Unmeasured(status).status = status
    BY DEF Unmeasured
  <2>6. CASE data.rows = <<>>
    BY <2>1, <2>4, <2>6 DEF Earned, SameMeasurement
  <2>7. CASE data.rows # <<>>
    <3>1. PICK s \in BOOLEAN, t \in BOOLEAN :
            /\ outs[i] = Measured(rules[i], Own(rules[i]), s)
            /\ outs'[i] = Measured(rules[i], Own(rules[i]), t)
      BY <2>1, <2>4, <2>5, <2>7 DEF Earned
    <3> QED BY <3>1, SamplesAside
  <2> QED BY <2>6, <2>7
<1> QED BY <1>1, Invariance, PTL DEF Spec, RerunAgrees

\* TypeOK: outputs are counts of records and the evaluators kept stay within
\* MAX_CACHED_EVALUATORS, one to a key.
THEOREM TypeCorrect == Spec => []TypeOK
<1>1. ASSUME Inv
      PROVE  TypeOK
  <2>1. ASSUME outs # None, NEW i \in DOMAIN rules
        PROVE  outs[i] \in [status : {"MEASURED", "NOT_MEASURABLE", "NOT_APPLICABLE", "FAILED_TO_MEASURE"},
                            counts : [ClassNames -> Nat], evidence : 0..SampleLimit]
    <3>1. data \in Snapshots /\ Readable(rules[i]) /\ Earned(rules[i], outs[i])
      BY <1>1, <2>1 DEF Inv
    <3>2. CASE outs[i] \in {Unmeasured("NOT_MEASURABLE"), Unmeasured("FAILED_TO_MEASURE")}
      <4>1. NoCounts \in [ClassNames -> Nat] /\ 0 \in 0..SampleLimit
        BY LimitsAssumption DEF NoCounts
      <4> QED BY <3>2, <4>1 DEF Unmeasured
    <3>3. ASSUME NEW sampled \in BOOLEAN, outs[i] = Measured(rules[i], Own(rules[i]), sampled)
          PROVE  outs[i] \in [status : {"MEASURED", "NOT_MEASURABLE", "NOT_APPLICABLE", "FAILED_TO_MEASURE"},
                              counts : [ClassNames -> Nat], evidence : 0..SampleLimit]
      <4> DEFINE N == DOMAIN data.rows
                 conditions == [n \in N |-> IF rules[i].type = "UNIQUENESS"
                                            THEN UniquenessConditions(rules[i].col, n)
                                            ELSE Conditions(rules[i], Row(n), Own(rules[i]))]
                 counts == [k \in ClassNames |-> Cardinality({n \in N : Holds(Classes(conditions[n])[k])})]
                 broken == {n \in N : Holds(Or(conditions[n].miscast, conditions[n].failed))}
                 status == IF TotalOf(counts) = 0 THEN "NOT_APPLICABLE" ELSE "MEASURED"
                 evidence == IF counts["failed"] + counts["miscast"] = 0 \/ ~sampled THEN 0
                             ELSE IF Cardinality(broken) > SampleLimit THEN SampleLimit ELSE Cardinality(broken)
      <4>1. outs[i] = [status |-> status, counts |-> counts, evidence |-> evidence]
        BY <3>3 DEF Measured
      <4>2. ASSUME NEW S \in SUBSET N
            PROVE  Cardinality(S) \in Nat
        BY <3>1, RowsAre, FS_Subset, FS_CardinalityType
      <4>3. counts \in [ClassNames -> Nat]
        <5> HIDE DEF conditions
        <5>1. ASSUME NEW k \in ClassNames
              PROVE  Cardinality({n \in N : Holds(Classes(conditions[n])[k])}) \in Nat
          BY <4>2
        <5> QED BY <5>1
      <4>4. evidence \in 0..SampleLimit
        <5>1. Cardinality(broken) \in Nat
          <6>1. broken \in SUBSET N
            OBVIOUS
          <6> HIDE DEF broken
          <6> QED BY <4>2, <6>1
        <5> HIDE DEF broken, counts
        <5> QED BY <5>1, LimitsAssumption
      <4>5. status \in {"MEASURED", "NOT_APPLICABLE"}
        <5> HIDE DEF counts
        <5> QED OBVIOUS
      <4> HIDE DEF counts, evidence, status
      <4> QED BY <4>1, <4>3, <4>4, <4>5
    <3> QED BY <3>1, <3>2, <3>3 DEF Earned
  <2>2. Len(cache) <= CacheSize /\ Cardinality({cache[n].key : n \in DOMAIN cache}) = Len(cache)
    <3> DEFINE keys == {cache[n].key : n \in DOMAIN cache}
               f == [n \in DOMAIN cache |-> cache[n].key]
    <3>1. Kept(cache)
      BY <1>1 DEF Inv
    <3>2. DOMAIN cache = 1..Len(cache) /\ Len(cache) \in Nat
      BY <3>1 DEF Kept
    <3>3. IsFiniteSet(DOMAIN cache) /\ Cardinality(DOMAIN cache) = Len(cache)
      <4>1. \A n \in Nat : IsFiniteSet(1..n) /\ Cardinality(1..n) = n
        BY FS_Interval
      <4> HIDE DEF f, keys
      <4> QED BY <3>2, <4>1
    <3>4. f \in Surjection(DOMAIN cache, keys)
      BY Zenon DEF Surjection
    <3>5. f \in Injection(DOMAIN cache, keys)
      <4>1. f \in [DOMAIN cache -> keys] /\ DOMAIN f = DOMAIN cache
        OBVIOUS
      <4>2. \A m, n \in DOMAIN cache : f[m] = f[n] => m = n
        BY <3>1 DEF Kept
      <4> HIDE DEF f, keys
      <4> QED BY <4>1, <4>2 DEF Injection, IsInjective
    <3>6. Cardinality(keys) = Cardinality(DOMAIN cache)
      <4> HIDE DEF f, keys
      <4> QED BY <3>3, <3>4, <3>5, FS_Surjection
    <3> QED BY <3>1, <3>3, <3>6 DEF Kept
  <2> QED BY <1>1, <2>1, <2>2 DEF Inv, TypeOK
<1> QED BY <1>1, Invariance, PTL
=============================================================================
