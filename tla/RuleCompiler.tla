------------------------------ MODULE RuleCompiler ------------------------------
(***************************************************************************)
(* What a quality rule says of one record: the column expressions that      *)
(* adapters/compute/sql_rule_compiler.py and text_rule_compiler.py build    *)
(* and common/structured_values.py, which evaluates JSON cells.             *)
(*                                                                          *)
(* A column expression is three-valued, as in SQL: an operator that meets a *)
(* NULL gives NULL, and a record counts where a condition is true, which is *)
(* not where its negation is not.                                           *)
(*                                                                          *)
(* A cell is kept as what rules tell apart: whether it is NULL or blank,    *)
(* the number it parses to, the words it holds and the JSON document it     *)
(* contains.  Formats, patterns and lengths come down to sets of cells.     *)
(***************************************************************************)
EXTENDS Integers, FiniteSets, Sequences, TLC

CONSTANTS
    None,           \* no number, no document, no bound
    WordsOf         \* the words each installed dictionary knows, by its digest

--------------------------------------------------------------------------------
(* Three-valued logic *)

Lift(b) == IF b THEN "true" ELSE "false"
Not(a) == CASE a = "true" -> "false" [] a = "false" -> "true" [] OTHER -> "null"
And(a, b) == IF "false" \in {a, b} THEN "false" ELSE IF "null" \in {a, b} THEN "null" ELSE "true"
Or(a, b) == Not(And(Not(a), Not(b)))
Holds(a) == a = "true"

--------------------------------------------------------------------------------
(* Column expressions over one cell *)

Trimmed(cell) == IF cell.null THEN "null" ELSE Lift(cell.blank)

\* Mutant: the test for NULL is left to trim.
BlankOnly(cell) == Trimmed(cell)

Missing(cell) == Or(Lift(cell.null), Trimmed(cell))

\* Spark orders NaN above every other number; a cell "NaN" parses to the largest.
Parsed(cell) == cell.number
IsNull(n) == Lift(n = None)

Compare(m, op, n) ==
    IF m = None \/ n = None THEN "null"
    ELSE Lift(CASE op = "<" -> m < n [] op = ">" -> m > n [] op = "<=" -> m <= n
                [] op = ">=" -> m >= n [] op = "==" -> m = n [] op = "!=" -> m # n)

\* IN with a NULL in the list is never false.
IsIn(cell, list) ==
    IF cell.null THEN "null"
    ELSE IF cell \in list.cells THEN "true"
    ELSE IF list.null THEN "null" ELSE "false"

Like(cell, cells) == IF cell.null THEN "null" ELSE Lift(cell \in cells)

--------------------------------------------------------------------------------
(* JSON cells.  A document is a value: a scalar, an object with its members,  *)
(* or an array with its items.                                                *)

Index == ("0" :> 1) @@ ("1" :> 2)

Field(state, value) == [state |-> state, value |-> value]

Descend(at, token) ==
    IF at.state # "present" THEN at
    ELSE IF at.value.kind = "OBJECT" /\ token \in DOMAIN at.value.members
         THEN Field("present", at.value.members[token])
    ELSE IF at.value.kind = "ARRAY" /\ token \in DOMAIN Index /\ Index[token] <= Len(at.value.items)
         THEN Field("present", at.value.items[Index[token]])
    ELSE Field(IF at.value.kind \in {"OBJECT", "ARRAY"} THEN "missing" ELSE "miscast", None)

\* Where a path leads in a document, token by token.
Reached(doc, path) ==
    LET at[n \in 0..Len(path)] ==
            IF n = 0 THEN Field("present", doc) ELSE Descend(at[n - 1], path[n])
    IN  at[Len(path)]

\* extract_json_field: a blank cell is no JSON, so miscast and not missing.
Extract(cell, path) ==
    IF cell.null THEN Field("missing", None)
    ELSE IF cell.doc = None THEN Field("miscast", None)
    ELSE LET at == Reached(cell.doc, path)
         IN  IF at.state = "present" /\ at.value.kind = "NULL" THEN Field("missing", None) ELSE at

Outside(n, rule) == (rule.min # None /\ n < rule.min) \/ (rule.max # None /\ n > rule.max)

\* evaluate_json_field: Spark calls it for RANGE only and has column expressions
\* for the other checks.  A pattern and a list of values are sets of texts.
FieldLabel(field, rule) ==
    IF field.state # "present" THEN field.state
    ELSE CASE rule.check = "NON_NULL" -> "passed"
           [] rule.check = "TYPE" -> IF field.value.kind = rule.kind THEN "passed" ELSE "miscast"
           [] rule.check = "RANGE" ->
                IF field.value.kind # "NUMBER" THEN "miscast"
                ELSE IF Outside(field.value.number, rule) THEN "failed" ELSE "passed"
           [] rule.check \in {"ALLOWED_VALUES", "REGEX"} ->
                IF field.value.kind # "STRING" THEN "miscast"
                ELSE IF field.value.text \in rule.texts THEN "passed" ELSE "failed"

\* evaluate_json_array: sizes, then whether two items are the same value.
ArrayLabel(field, rule) ==
    IF field.state # "present" THEN field.state
    ELSE IF field.value.kind # "ARRAY" THEN "miscast"
    ELSE LET items == field.value.items
             repeats == Cardinality({items[i] : i \in DOMAIN items}) < Len(items)
         IN  IF Outside(Len(items), rule) \/ (rule.unique /\ repeats) THEN "failed" ELSE "passed"

--------------------------------------------------------------------------------
(* Spelling: an evaluator holds the words of its dictionaries and its terms.  *)

Evaluator(digest, terms) == [words |-> WordsOf[digest], terms |-> terms]

SpellLabel(evaluator, cell) ==
    IF cell.null \/ cell.blank THEN "missing"
    ELSE IF cell.words = {} THEN "not_applicable"
    ELSE IF cell.words \subseteq evaluator.terms \union evaluator.words THEN "passed" ELSE "failed"

--------------------------------------------------------------------------------
(* The four conditions of a compiled rule *)

Compiled(missing, miscast, failed) ==
    [scope |-> "false", missing |-> missing, miscast |-> miscast, failed |-> failed]

Labelled(label) ==
    [Compiled(Lift(label = "missing"), Lift(label = "miscast"), Lift(label = "failed"))
        EXCEPT !.scope = Lift(label = "not_applicable")]

CompileNonNull(cell) == Compiled(Missing(cell), "false", "false")

CompileTypeParse(cell) ==
    Compiled(Missing(cell), And(Not(Missing(cell)), IsNull(Parsed(cell))), "false")

\* Mutant: a cell that is missing is looked up in the list all the same.
ValuesUnguarded(cell, list) == Compiled(Missing(cell), "false", Not(IsIn(cell, list)))

CompileValues(cell, list) ==
    Compiled(Missing(cell), "false", And(Not(Missing(cell)), Not(IsIn(cell, list))))

\* A pattern is the set of cells it matches, or None if Java cannot compile it.
CompilePattern(cell, cells) ==
    Compiled(Missing(cell), "false", And(Not(Missing(cell)), Not(Like(cell, cells))))

CompileRange(cell, rule) ==
    LET number == Parsed(cell)
        miscast == And(Not(Missing(cell)), IsNull(number))
        below == IF rule.min = None THEN "false" ELSE Compare(number, "<", rule.min)
        above == IF rule.max = None THEN "false" ELSE Compare(number, ">", rule.max)
    IN  Compiled(Missing(cell), miscast, And(And(Not(Missing(cell)), Not(miscast)), Or(below, above)))

\* A cell that parses to a timestamp has its year for a number.
CompileYear(cell, year) ==
    LET miscast == And(Not(Missing(cell)), IsNull(Parsed(cell)))
    IN  Compiled(Missing(cell), miscast,
                 And(And(Not(Missing(cell)), Not(miscast)), Compare(Parsed(cell), "!=", year)))

CompileCrossField(cell, other, op) ==
    LET missing == Or(Missing(cell), Missing(other))
        miscast == And(Not(missing), Or(IsNull(Parsed(cell)), IsNull(Parsed(other))))
        passes == Compare(Parsed(cell), op, Parsed(other))
    IN  Compiled(missing, miscast, And(And(Not(missing), Not(miscast)), Not(passes)))

\* TEXT_QUALITY: the cells that hold a bad character or are too short or long.
CompileTextQuality(cell, bad) ==
    Compiled(Missing(cell), "false", And(Not(Missing(cell)), Like(cell, bad)))

\* RANGE runs in Python; the other checks combine the columns of the field.
CompileJsonField(cell, rule) ==
    LET field == Extract(cell, rule.path)
        present == field.state = "present"
        string == present /\ field.value.kind = "STRING"
    IN  CASE rule.check = "RANGE" -> Labelled(FieldLabel(field, rule))
          [] rule.check = "TYPE" ->
               Compiled(Lift(field.state = "missing"),
                        Or(Lift(field.state = "miscast"), Lift(present /\ field.value.kind # rule.kind)),
                        "false")
          [] rule.check \in {"ALLOWED_VALUES", "REGEX"} ->
               Compiled(Lift(field.state = "missing"),
                        Or(Lift(field.state = "miscast"), Lift(present /\ ~string)),
                        Lift(string /\ field.value.text \notin rule.texts))
          [] rule.check = "NON_NULL" ->
               Compiled(Lift(field.state = "missing"), Lift(field.state = "miscast"), "false")

CompileJsonArray(cell, rule) == Labelled(ArrayLabel(Extract(cell, rule.path), rule))
CompileSpelling(cell, evaluator) == Labelled(SpellLabel(evaluator, cell))
================================================================================
