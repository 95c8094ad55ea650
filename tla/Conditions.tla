------------------------------ MODULE Conditions ------------------------------
(***************************************************************************)
(* What one rule leaf means.  A leaf is an operator of the field's input    *)
(* type and a target value; it is compared with a decoded answer, and the   *)
(* comparison yields "true", "false" or throws.                             *)
(*                                                                          *)
(* A value is a record tagged with its kind.  Texts, option values and PSGC  *)
(* codes are token sequences (a code's tokens are its non-zero segments),    *)
(* `ragged' is a text's extra case or spacing.  A typed number is counted in *)
(* parts of One, so that it may be a fraction.  A day is a number; an hour   *)
(* is NoTime for a date without a time.  Calendar months and years are       *)
(* abstracted to the fixed lengths the duration table uses.                  *)
(***************************************************************************)
EXTENDS Integers, Sequences, FiniteSets, TLC, SequencesExt, FiniteSetsExt

CONSTANTS
    Option,         \* option values of the select fields
    Code,           \* PSGC codes, as sequences of segments
    One,            \* parts of the whole number one
    Today,          \* the current day
    Noon,           \* the current hour of it
    MaxValueLength, \* the width of field_value
    Column,         \* the repeater's subfields
    ColumnType      \* and their input types

None == [t |-> "null"]
Num(n) == [t |-> "number", n |-> n]
Bool(b) == [t |-> "boolean", b |-> b]
Str(s) == [t |-> "string", s |-> s, ragged |-> FALSE]
Ragged(s) == [t |-> "string", s |-> s, ragged |-> TRUE]
List(e) == [t |-> "array", e |-> e]
Date(d, h) == [t |-> "date", d |-> d, h |-> h]
Obj(f) == [t |-> "object", f |-> f]
Rows(r) == [t |-> "rows", rows |-> r]
Tree(logic, leaves) == [t |-> "tree", logic |-> logic, leaves |-> leaves]
NoTime == -1

AgeUnits == {"days", "months", "years"}
DurationUnits == {"days", "weeks", "months", "years"}
DaysPerUnit == [days |-> 1, weeks |-> 7, months |-> 30, years |-> 365]

Check(valid, holds) ==
    IF ~valid THEN "throw" ELSE IF holds THEN "true" ELSE "false"

Has(v, keys) == v.t = "object" /\ keys \subseteq DOMAIN v.f

\* { value, unit } and { min, max, unit } targets.
IsMagnitude(v, units) == Has(v, {"value", "unit"}) /\ v.f.unit \in units
IsRange(v, units) == Has(v, {"min", "max", "unit"}) /\ v.f.unit \in units

NumberTest(op, a, b) ==
    [EQUALS |-> a = b, NOT_EQUALS |-> a # b, GREATER_THAN |-> a > b, LESS_THAN |-> a < b,
     GREATER_THAN_EQUAL |-> a >= b, LESS_THAN_EQUAL |-> a <= b][op]

-----------------------------------------------------------------------------
(* TEXT, NUMBER and MONEY, DURATION *)

IsText(v) == v.t \in {"null", "string"}

\* toText, then normalizeWhitespace and toLowerCase.
Words(v) == IF v.t = "null" THEN <<>> ELSE v.s

Includes(a, b) == \E i \in 1 .. Len(a) + 1 : IsPrefix(b, SubSeq(a, i, Len(a)))

EvaluateText(op, target, actual) ==
    LET a == Words(actual)
        b == Words(target)
    IN  CASE op = "IS_EMPTY" -> Check(IsText(actual), a = <<>>)
          [] op = "IS_NOT_EMPTY" -> Check(IsText(actual), a # <<>>)
          [] OTHER -> Check(IsText(actual) /\ IsText(target),
                [EQUALS |-> a = b, NOT_EQUALS |-> a # b,
                 STARTS_WITH |-> IsPrefix(b, a), ENDS_WITH |-> IsSuffix(b, a),
                 CONTAINS_SUBSTRING |-> Includes(a, b),
                 NOT_CONTAINS_SUBSTRING |-> ~Includes(a, b)][op])

EvaluateNumeric(op, target, actual) ==
    IF op = "BETWEEN"
    THEN Check(actual.t = "number" /\ Has(target, {"min", "max"}),
               actual.n \in target.f.min .. target.f.max)
    ELSE Check(actual.t = "number" /\ target.t = "number",
               NumberTest(op, actual.n, target.n))

DurationDays(f, key) == f[key] * DaysPerUnit[f.unit]

EvaluateDurationMutant(op, target, actual) ==
    Check(IsMagnitude(actual, DurationUnits) /\ IsRange(target, AgeUnits),
          DurationDays(actual.f, "value")
             \in DurationDays(target.f, "min") .. DurationDays(target.f, "max"))

EvaluateDuration(op, target, actual) ==
    LET days == DurationDays(actual.f, "value")
    IN  IF op = "BETWEEN"
        THEN Check(IsMagnitude(actual, DurationUnits) /\ IsRange(target, DurationUnits),
                   days \in DurationDays(target.f, "min") .. DurationDays(target.f, "max"))
        ELSE Check(IsMagnitude(actual, DurationUnits) /\ IsMagnitude(target, DurationUnits),
                   NumberTest(op, days, DurationDays(target.f, "value")))

-----------------------------------------------------------------------------
(* DATE *)

IsDate(v) == v.t = "date"
HasExplicitTime(v) == v.t = "date" /\ v.h # NoTime
Instant(v) == 24 * v.d + (IF v.h = NoTime THEN 0 ELSE v.h)
Now == 24 * Today + Noon

\* isSame, isSameOrBefore and isSameOrAfter compare days unless there is a time.
Mark(v) == IF HasExplicitTime(v) THEN Instant(v) ELSE v.d

AgeTest ==
    [AGE_GREATER_THAN |-> "GREATER_THAN", AGE_LESS_THAN |-> "LESS_THAN",
     AGE_GREATER_THAN_EQUAL |-> "GREATER_THAN_EQUAL",
     AGE_LESS_THAN_EQUAL |-> "LESS_THAN_EQUAL",
     AGE_EQUALS |-> "EQUALS", AGE_NOT_EQUALS |-> "NOT_EQUALS"]

\* dayjs().diff(birth, unit) drops the fraction, towards zero.
Age(birth, unit) ==
    LET hours == Now - Instant(birth)
        span == 24 * DaysPerUnit[unit]
    IN  IF hours >= 0 THEN hours \div span ELSE -((-hours) \div span)

EvaluateAge(op, target, actual) ==
    IF op = "AGE_BETWEEN"
    THEN Check(IsDate(actual) /\ IsRange(target, AgeUnits),
               One * Age(actual, target.f.unit) \in target.f.min .. target.f.max)
    ELSE Check(IsDate(actual) /\ IsMagnitude(target, AgeUnits),
               NumberTest(AgeTest[op], One * Age(actual, target.f.unit), target.f.value))

CurrentUnit ==
    [IS_CURRENT_DAY |-> "days", IS_CURRENT_WEEK |-> "weeks",
     IS_CURRENT_MONTH |-> "months", IS_CURRENT_YEAR |-> "years"]

EvaluateDate(op, target, actual) ==
    CASE op = "IN_THE_PAST" -> Check(IsDate(actual), Instant(actual) < Now)
      [] op = "IN_THE_FUTURE" -> Check(IsDate(actual), Instant(actual) > Now)
      [] op \in DOMAIN CurrentUnit ->
            LET span == DaysPerUnit[CurrentUnit[op]]
            IN  Check(IsDate(actual), actual.d \div span = Today \div span)
      [] op \in DOMAIN AgeTest \cup {"AGE_BETWEEN"} -> EvaluateAge(op, target, actual)
      [] op = "BETWEEN" ->
            Check(/\ IsDate(actual) /\ Has(target, {"from", "to"})
                  /\ HasExplicitTime(target.f.from) = HasExplicitTime(actual)
                  /\ HasExplicitTime(target.f.to) = HasExplicitTime(actual),
                  Mark(actual) \in Mark(target.f.from) .. Mark(target.f.to))
      [] op = "BEFORE" -> Check(IsDate(actual) /\ IsDate(target), Instant(actual) < Instant(target))
      [] op = "AFTER" -> Check(IsDate(actual) /\ IsDate(target), Instant(actual) > Instant(target))
      [] OTHER ->
            Check(/\ IsDate(actual) /\ IsDate(target)
                  /\ HasExplicitTime(actual) = HasExplicitTime(target),
                  [EQUALS |-> Mark(actual) = Mark(target),
                   ON_OR_BEFORE |-> Mark(actual) <= Mark(target),
                   ON_OR_AFTER |-> Mark(actual) >= Mark(target)][op])

-----------------------------------------------------------------------------
(* BOOLEAN and the selections *)

EvaluateBoolean(op, target, actual) ==
    Check(actual.t = "boolean" /\ target.t = "boolean", actual.b = target.b)

Unselected(v) ==
    \/ v.t = "null"
    \/ v.t = "string" /\ v.s = <<>>
    \/ v.t = "array" /\ v.e = {}

EvaluateSingleSelect(op, target, actual) ==
    CASE op = "IS_EMPTY" -> Check(TRUE, Unselected(actual))
      [] op = "IS_NOT_EMPTY" -> Check(TRUE, ~Unselected(actual))
      [] op \in {"IN", "NOT_IN"} ->
            Check(IsText(actual) /\ target.t = "array",
                  (Words(actual) \in target.e) = (op = "IN"))
      [] OTHER -> Check(IsText(actual) /\ IsText(target),
                        (Words(actual) = Words(target)) = (op = "EQUALS"))

EvaluateMultiSelectMutant(op, target, actual) ==
    Check(actual.t = "array" /\ target.t = "array",
          IF op = "HAS_NONE" THEN ~(target.e \subseteq actual.e) ELSE actual.e \cap target.e # {})

EvaluateMultiSelect(op, target, actual) ==
    CASE op = "IS_EMPTY" -> Check(TRUE, Unselected(actual))
      [] op = "IS_NOT_EMPTY" -> Check(TRUE, ~Unselected(actual))
      [] OTHER -> Check(actual.t = "array" /\ target.t = "array",
            [EQUALS |-> actual.e = target.e,
             NOT_EQUALS |-> actual.e # target.e,
             HAS_ANY |-> actual.e \cap target.e # {},
             HAS_NONE |-> actual.e \cap target.e = {},
             HAS_ALL |-> target.e \subseteq actual.e,
             IS_SUBSET_OF |-> actual.e \subseteq target.e,
             IS_NOT_SUBSET_OF |-> ~(actual.e \subseteq target.e)][op])

\* The answer arrives as the path from the region down to the answered code.
EvaluateHierarchySelect(op, target, actual) ==
    CASE op = "IS_EMPTY" -> Check(TRUE, Unselected(actual))
      [] op = "IS_NOT_EMPTY" -> Check(TRUE, ~Unselected(actual))
      [] OTHER -> Check(actual.t = "array" /\ target.t = "array",
                        (target.e \cap actual.e # {}) = (op = "BELONGS_TO"))

-----------------------------------------------------------------------------
(* REPEATER_GROUP: a flat tree of column conditions, or an aggregate *)

ScalarCompare(type, op, target, actual) ==
    CASE type = "TEXT" -> EvaluateText(op, target, actual)
      [] type \in {"NUMBER", "MONEY"} -> EvaluateNumeric(op, target, actual)
      [] type = "DURATION" -> EvaluateDuration(op, target, actual)
      [] type = "DATE" -> EvaluateDate(op, target, actual)
      [] type = "BOOLEAN" -> EvaluateBoolean(op, target, actual)
      [] type = "SINGLE_SELECT" -> EvaluateSingleSelect(op, target, actual)
      [] type = "MULTI_SELECT" -> EvaluateMultiSelect(op, target, actual)
      [] type = "HIERARCHY_SELECT" -> EvaluateHierarchySelect(op, target, actual)

\* A blank cell satisfies no condition; one throwing condition spoils the row.
MatchRepeaterRow(tree, row) ==
    LET leaf(i) == tree.leaves[i]
        results == {IF row[leaf(i).column].t = "null" THEN "false"
                    ELSE ScalarCompare(ColumnType[leaf(i).column], leaf(i).op,
                                       leaf(i).value, row[leaf(i).column]) :
                    i \in DOMAIN tree.leaves}
    IN  IF "throw" \in results THEN "throw"
        ELSE Check(TRUE, IF tree.logic = "ALL" THEN "false" \notin results
                         ELSE "true" \in results)

\* some() stops at the first row that is not "false", every() at the first
\* that is not "true".
FirstRowNot(default, tree, rows) ==
    LET stops == {i \in DOMAIN rows : MatchRepeaterRow(tree, rows[i]) # default}
    IN  IF stops = {} THEN default ELSE MatchRepeaterRow(tree, rows[Min(stops)])

AggregateOf ==
    [COUNT_EQUALS |-> <<"COUNT", "EQUALS">>, COUNT_GREATER_THAN |-> <<"COUNT", "GREATER_THAN">>,
     COUNT_LESS_THAN |-> <<"COUNT", "LESS_THAN">>, SUM_EQUALS |-> <<"SUM", "EQUALS">>,
     SUM_GREATER_THAN |-> <<"SUM", "GREATER_THAN">>, SUM_LESS_THAN |-> <<"SUM", "LESS_THAN">>,
     MIN_EQUALS |-> <<"MIN", "EQUALS">>, MIN_GREATER_THAN |-> <<"MIN", "GREATER_THAN">>,
     MIN_LESS_THAN |-> <<"MIN", "LESS_THAN">>, MAX_EQUALS |-> <<"MAX", "EQUALS">>,
     MAX_GREATER_THAN |-> <<"MAX", "GREATER_THAN">>, MAX_LESS_THAN |-> <<"MAX", "LESS_THAN">>,
     AVERAGE_EQUALS |-> <<"AVERAGE", "EQUALS">>,
     AVERAGE_GREATER_THAN |-> <<"AVERAGE", "GREATER_THAN">>,
     AVERAGE_LESS_THAN |-> <<"AVERAGE", "LESS_THAN">>]

CountOperators == {op \in DOMAIN AggregateOf : AggregateOf[op][1] = "COUNT"}
ColumnOperators == DOMAIN AggregateOf \ CountOperators

\* Blank and non-numeric cells are left out; without any cell only SUM is defined.
AggregateHolds(op, bound, column, rows) ==
    LET cells == {i \in DOMAIN rows : rows[i][column].t = "number"}
        sum == MapThenSumSet(LAMBDA i : rows[i][column].n, cells)
        nums == {rows[i][column].n : i \in cells}
        rel == AggregateOf[op][2]
    IN  CASE AggregateOf[op][1] = "SUM" -> NumberTest(rel, sum, bound)
          [] AggregateOf[op][1] = "MIN" -> cells # {} /\ NumberTest(rel, Min(nums), bound)
          [] AggregateOf[op][1] = "MAX" -> cells # {} /\ NumberTest(rel, Max(nums), bound)
          [] AggregateOf[op][1] = "AVERAGE" ->
                cells # {} /\ NumberTest(rel, sum, bound * Cardinality(cells))

EvaluateRepeaterGroup(op, target, actual) ==
    CASE actual.t # "rows" -> "throw"
      [] op \in {"ANY_MATCH", "ALL_MATCH"} ->
            IF target.t # "tree" THEN "throw"
            ELSE FirstRowNot(IF op = "ANY_MATCH" THEN "false" ELSE "true", target, actual.rows)
      [] op \in CountOperators ->
            Check(Has(target, {"value"}),
                  NumberTest(AggregateOf[op][2], One * Len(actual.rows), target.f.value))
      [] op \in ColumnOperators ->
            Check(Has(target, {"value", "subfieldId"}),
                  AggregateHolds(op, target.f.value, target.f.subfieldId, actual.rows))

Compare(type, op, target, actual) ==
    IF type = "REPEATER_GROUP" THEN EvaluateRepeaterGroup(op, target, actual)
    ELSE ScalarCompare(type, op, target, actual)

\* A leaf of a rule tree: no answer satisfies no condition, not even IS_EMPTY.
MatchLeaf(type, op, target, actual) ==
    IF actual.t = "null" THEN "false" ELSE Compare(type, op, target, actual)

-----------------------------------------------------------------------------
(* The browser's copy of the evaluator: the same tests, except that it sees *)
(* the answered code and not its path, and that a throw hides the field.    *)

ClientText(op, target, actual) == EvaluateText(op, target, actual)
ClientNumeric(op, target, actual) == EvaluateNumeric(op, target, actual)
ClientDuration(op, target, actual) == EvaluateDuration(op, target, actual)
ClientDate(op, target, actual) == EvaluateDate(op, target, actual)
ClientBoolean(op, target, actual) == EvaluateBoolean(op, target, actual)
ClientSingleSelect(op, target, actual) == EvaluateSingleSelect(op, target, actual)
ClientMultiSelect(op, target, actual) == EvaluateMultiSelect(op, target, actual)
ClientRepeaterGroup(op, target, actual) == EvaluateRepeaterGroup(op, target, actual)

ClientHierarchySelect(op, target, actual) ==
    CASE op = "IS_EMPTY" -> Check(TRUE, Unselected(actual))
      [] op = "IS_NOT_EMPTY" -> Check(TRUE, ~Unselected(actual))
      [] OTHER -> Check(IsText(actual) /\ IsText(target),
                        (Words(actual) = Words(target)) = (op = "BELONGS_TO"))

ClientCompare(type, op, target, actual) ==
    CASE type = "TEXT" -> ClientText(op, target, actual)
      [] type \in {"NUMBER", "MONEY"} -> ClientNumeric(op, target, actual)
      [] type = "DURATION" -> ClientDuration(op, target, actual)
      [] type = "DATE" -> ClientDate(op, target, actual)
      [] type = "BOOLEAN" -> ClientBoolean(op, target, actual)
      [] type = "SINGLE_SELECT" -> ClientSingleSelect(op, target, actual)
      [] type = "MULTI_SELECT" -> ClientMultiSelect(op, target, actual)
      [] type = "HIERARCHY_SELECT" -> ClientHierarchySelect(op, target, actual)
      [] type = "REPEATER_GROUP" -> ClientRepeaterGroup(op, target, actual)

ClientShows(type, op, target, actual) ==
    actual.t # "null" /\ ClientCompare(type, op, target, actual) = "true"
=============================================================================
