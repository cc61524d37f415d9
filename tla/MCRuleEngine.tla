------------------------------ MODULE MCRuleEngine ------------------------------
(* Cells, rules and snapshots for TLC.  A cell is named by what it is to rules. *)
EXTENDS RuleEngine

CONSTANTS d1, d2

MCWordsOf == (d1 :> {"word"}) @@ (d2 :> {"word", "typo"})
MCDictionaries == {[revision |-> "v1", digest |-> d1], [revision |-> "v1", digest |-> d2]}

Cell(number, words, doc) ==
    [null |-> FALSE, blank |-> FALSE, number |-> number, words |-> words, doc |-> doc]
Absent == [Cell(None, {}, None) EXCEPT !.null = TRUE]
Blank == [Cell(None, {}, None) EXCEPT !.blank = TRUE]
One == Cell(1, {}, None)
Two == Cell(2, {}, None)
NaN == Cell(9, {}, None)
Word == Cell(None, {"word"}, None)
Typo == Cell(None, {"word", "typo"}, None)

Num(n) == [kind |-> "NUMBER", number |-> n]
Str(s) == [kind |-> "STRING", text |-> s]
Arr(items) == [kind |-> "ARRAY", items |-> items]
Obj(v) == [kind |-> "OBJECT", members |-> ("a" :> v)]
NullDoc == [kind |-> "NULL"]
Documents == {Num(1), NullDoc, Obj(Num(1)), Obj(Num(5)), Obj(Str("x")), Obj(Str("y")), Obj(NullDoc),
              Obj(Arr(<<Num(1), Num(1)>>)), Obj(Arr(<<Num(1), Str("x")>>)), Obj(Arr(<<>>)), Arr(<<NullDoc>>)}

TextRow(n, o) == [n |-> n, o |-> o, j |-> Absent]
JsonRow(j) == [n |-> Word, o |-> One, j |-> j]
TextRows == {TextRow(n, o) : n \in {Absent, Blank, One, Two, NaN, Word, Typo}, o \in {Absent, One, Word}}
JsonRows == {JsonRow(j) : j \in {Absent, Blank} \union {Cell(None, {}, d) : d \in Documents}}

Snapshot(rows) == [columns |-> {"n", "o", "j"}, structured |-> {"j"}, rows |-> rows]
MCSnapshots ==
    {Snapshot(<<>>), [Snapshot(<<TextRow(Word, One)>>) EXCEPT !.structured = {}],
     [Snapshot(<<TextRow(Typo, One)>>) EXCEPT !.columns = {"n"}]}
    \union {Snapshot(<<r>>) : r \in JsonRows}
    \union {Snapshot(<<r, TextRow(Typo, Two)>>) : r \in TextRows}
    \union {Snapshot(<<r, TextRow(Two, One), r>>) : r \in {TextRow(n, One) : n \in {Absent, Two, Typo}}}

Rule(type) == [type |-> type, col |-> "n"]
With(rule, field, value) == rule @@ (field :> value)
Values(null) == With(Rule("VALUES"), "list", [cells |-> {One, Word}, null |-> null])
Between(min, max) == With(With(Rule("RANGE"), "min", min), "max", max)
Compared(key, other, op) == With(With(With(Rule("CROSS_FIELD"), "key", key), "other", other), "op", op)
Cross(op) == Compared("comparison_column", "o", op)
Spelling(terms) == With(With(Rule("SPELLING"), "terms", terms), "revision", "v1")
Json(type, path) == [type |-> type, col |-> "j", path |-> path, min |-> None, max |-> None]
FieldRule(path, check) == With(Json("JSON_FIELD", path), "check", check)

Singles ==
    {Rule("NON_NULL"), Rule("TYPE_PARSE"), Rule("UNIQUENESS"), Values(TRUE), Values(FALSE),
     With(Rule("PATTERN"), "cells", {Two, Word}), With(Rule("PATTERN"), "cells", None),
     Between(2, None), Between(None, 1), Between(1, 2), With(Rule("YEAR"), "year", 2), Cross("<"), Cross("!="), Cross("~"),
     Compared("compare_to", "j", "<"), Compared("comparison_column", "j", "<"),
     With(Rule("TEXT_QUALITY"), "cells", {Typo, NaN}),
     Spelling({}), Spelling({"typo"}),
     FieldRule(<<"a">>, "NON_NULL"), FieldRule(<<"a", "0">>, "NON_NULL"), FieldRule(<<>>, "NON_NULL"),
     FieldRule(<<"a">>, "RANGE"), [FieldRule(<<"a">>, "RANGE") EXCEPT !.min = 5, !.max = 3],
     With(FieldRule(<<"a">>, "TYPE"), "kind", "NUMBER"),
     [FieldRule(<<"a">>, "RANGE") EXCEPT !.max = 3],
     With(FieldRule(<<"a">>, "ALLOWED_VALUES"), "texts", {"x"}),
     With(FieldRule(<<"a">>, "REGEX"), "texts", {"y"}), With(FieldRule(<<"a">>, "REGEX"), "texts", None),
     With([Json("JSON_ARRAY", <<"a">>) EXCEPT !.min = 1], "unique", TRUE)}
MCRulesets == {<<r>> : r \in Singles} \union
    {<<Spelling({}), Spelling({"typo"}), Rule("NON_NULL")>>}
================================================================================
