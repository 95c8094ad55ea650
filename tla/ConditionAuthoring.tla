-------------------------- MODULE ConditionAuthoring --------------------------
(***************************************************************************)
(* An administrator writes one condition of a benefit or of a field with    *)
(* the condition editor, saves it when the form takes it for complete, and   *)
(* an applicant answers the field.  The properties say what the saved        *)
(* condition then means.                                                    *)
(***************************************************************************)
EXTENDS AnswerValues

CONSTANTS
    Types,          \* the input types of the fields on offer
    MaxLimits,      \* bound: limits set on the field at a time
    RowSet,         \* the rows of an answered repeater, one or more
    MaxLeaves       \* bound: row conditions of one repeater target

VARIABLES
    type,           \* input type of the picked field
    op,             \* picked operator
    target,         \* target value in the editor
    config,         \* the limits set on the field
    saved,          \* whether the leaf is in force as it stands
    answer          \* the applicant's answer

vars == <<type, op, target, config, saved, answer>>

Presence == {"IS_EMPTY", "IS_NOT_EMPTY"}

NumericOperators ==
    {"EQUALS", "NOT_EQUALS", "GREATER_THAN", "LESS_THAN", "GREATER_THAN_EQUAL",
     "LESS_THAN_EQUAL", "BETWEEN"}

\* The seeded operators of each input type.
OperatorsOf ==
    [TEXT |-> {"EQUALS", "NOT_EQUALS", "STARTS_WITH", "ENDS_WITH", "CONTAINS_SUBSTRING",
               "NOT_CONTAINS_SUBSTRING"} \cup Presence,
     NUMBER |-> NumericOperators, MONEY |-> NumericOperators, DURATION |-> NumericOperators,
     DATE |-> {"BEFORE", "AFTER", "EQUALS", "ON_OR_BEFORE", "ON_OR_AFTER", "IN_THE_PAST",
               "IN_THE_FUTURE", "BETWEEN", "AGE_BETWEEN"}
              \cup DOMAIN CurrentUnit \cup DOMAIN AgeTest,
     BOOLEAN |-> {"EQUALS"},
     SINGLE_SELECT |-> {"EQUALS", "NOT_EQUALS", "IN", "NOT_IN"} \cup Presence,
     MULTI_SELECT |-> {"EQUALS", "NOT_EQUALS", "HAS_ANY", "HAS_ALL", "HAS_NONE",
                       "IS_SUBSET_OF", "IS_NOT_SUBSET_OF"} \cup Presence,
     HIERARCHY_SELECT |-> {"BELONGS_TO", "NOT_BELONGS_TO"} \cup Presence,
     REPEATER_GROUP |-> {"ANY_MATCH", "ALL_MATCH"} \cup DOMAIN AggregateOf]

HasNumericSubfield == \E c \in Column : ColumnType[c] \in {"NUMBER", "MONEY"}

\* Column aggregates are offered only when there is a column to aggregate.
OperatorsFor(ty) ==
    IF ty = "REPEATER_GROUP" /\ ~HasNumericSubfield
    THEN OperatorsOf[ty] \ ColumnOperators ELSE OperatorsOf[ty]

\* The cells of a row are read back as the evaluator sees them: a place as its
\* path, a date as the form wrote it, without a time.
Decoded(ty, v) ==
    \/ v.t = "null"
    \/ CASE ty = "HIERARCHY_SELECT" -> v.t = "array"
         [] ty = "DATE" -> IsDate(v) /\ v.h = NoTime
         [] OTHER -> HasType(ty, v)

\* A subfield is not a repeater itself; what is typed comes in every length the
\* column holds.
ASSUME AuthoringAssumption ==
    /\ Types \subseteq DOMAIN OperatorsOf
    /\ ColumnType \in [Column -> DOMAIN OperatorsOf \ {"REPEATER_GROUP"}]
    /\ \A rows \in RowSet :
          /\ rows \in Seq(ToSet(rows))
          /\ \A i \in DOMAIN rows, c \in Column : Decoded(ColumnType[c], rows[i][c])
    /\ \A c \in Code : c \in Seq(ToSet(c)) /\ c # <<>>
    /\ MaxValueLength \in Nat \ {0}
    /\ Lengths \subseteq Nat
    /\ One \in Nat \ {0}
    /\ Numbers \subseteq Int
    /\ \E n \in Numbers : Whole(n)
    /\ \A n \in 1 .. MaxValueLength :
          \E s \in Texts : Length(Str(s)) = n \/ Length(Ragged(s)) = n

-----------------------------------------------------------------------------
(* The value editor: the values one change event can hand on, given v *)

Parts(v) == IF v.t = "object" THEN v.f ELSE <<>>
Part(v, key, default) == IF Has(v, {key}) THEN v.f[key] ELSE default
With(v, key, x) == Obj(Put(Parts(v), key, x))

\* { min, max, unit }: a bound brings the unit along, the unit comes alone.
RangeSteps(v, units, unit) ==
    {With(With(v, "unit", Part(v, "unit", unit)), key, n) : key \in {"min", "max"}, n \in Numbers}
    \cup {With(v, "unit", u) : u \in units}

\* { value, unit }: either change fills both.
MagnitudeSteps(v, units, unit) ==
    {Obj([value |-> n, unit |-> Part(v, "unit", unit)]) : n \in Numbers}
    \cup {Obj([value |-> Part(v, "value", 0), unit |-> u]) : u \in units}

\* The editor of a value of the field's own kind.
OwnKindSteps(ty, o, v) ==
    CASE ty = "DURATION" -> MagnitudeSteps(v, DurationUnits, "months")
      [] ty = "BOOLEAN" -> {Bool(b) : b \in BOOLEAN}
      [] ty = "MULTI_SELECT" \/ o \in {"IN", "NOT_IN"} -> {List(e) : e \in SUBSET Option}
      [] ty = "SINGLE_SELECT" /\ o \notin {"IN", "NOT_IN"} -> {Str(s) : s \in Option}
      [] ty = "HIERARCHY_SELECT" -> {List(e) : e \in SUBSET Code}
      [] ty = "DATE" -> {Date(d, NoTime) : d \in Days} \cup {Str(<<>>)}
      [] ty \in {"NUMBER", "MONEY"} -> {Num(n) : n \in Numbers \cup {0}}
      [] ty = "TEXT" -> {Str(s) : s \in Texts \cup {<<>>}} \cup {Ragged(s) : s \in Texts}

ScalarSteps(ty, o, v) ==
    CASE o \in Presence -> {}
      [] o = "BETWEEN" /\ ty = "DURATION" -> RangeSteps(v, DurationUnits, "months")
      [] o = "BETWEEN" /\ ty # "DURATION" ->
            {With(v, key, n) : key \in {"min", "max"}, n \in Numbers}
      [] o \in DOMAIN AgeTest -> MagnitudeSteps(v, AgeUnits, "years")
      [] o = "AGE_BETWEEN" -> RangeSteps(v, AgeUnits, "years")
      [] OTHER -> OwnKindSteps(ty, o, v)

RowConditions(v) == IF v.t = "tree" THEN v ELSE Tree("ALL", <<>>)

BlankRowConditions ==
    UNION {[column : {c}, op : OperatorsOf[ColumnType[c]], value : {None}] : c \in Column}

\* Another column or operator brings a blank value.
RowConditionEdits(leaf) ==
    BlankRowConditions
    \cup {[leaf EXCEPT !.value = x] :
            x \in ScalarSteps(ColumnType[leaf.column], leaf.op, leaf.value)}

\* The list of row conditions: switch between ALL and ANY, add one, remove one,
\* edit one.
RowConditionSteps(v) ==
    LET root == RowConditions(v)
        with(leaves) == Tree(root.logic, leaves)
    IN  {Tree(logic, root.leaves) : logic \in {"ALL", "ANY"}}
        \cup {with(Append(root.leaves, l)) :
                l \in {x \in BlankRowConditions : Len(root.leaves) < MaxLeaves}}
        \cup {with(RemoveAt(root.leaves, i)) : i \in DOMAIN root.leaves}
        \cup UNION {{with([root.leaves EXCEPT ![i] = l]) : l \in RowConditionEdits(root.leaves[i])} :
                        i \in DOMAIN root.leaves}

AggregateSteps(v) ==
    {With(v, "value", n) : n \in Numbers}
    \cup {With(v, "subfieldId", c) : c \in {d \in Column : ColumnType[d] \in {"NUMBER", "MONEY"}}}

ConditionValueInput(ty, o, v) ==
    CASE o \in {"ANY_MATCH", "ALL_MATCH"} -> RowConditionSteps(v)
      [] o \in CountOperators -> {Obj([value |-> n]) : n \in Numbers}
      [] o \in ColumnOperators -> AggregateSteps(v)
      [] OTHER -> ScalarSteps(ty, o, v)

-----------------------------------------------------------------------------
(* When the form takes a condition for complete *)

IsConditionValueFilled(o, v) ==
    \/ o \in Presence
    \/ CASE v.t = "null" -> FALSE
         [] v.t = "array" -> v.e # {}
         [] v.t = "string" -> v.s # <<>>
         [] v.t = "object" -> DOMAIN v.f # {}
         [] OTHER -> TRUE

IsRepeaterMatchValueFilled(v) ==
    /\ v.t = "tree"
    /\ v.leaves # <<>>
    /\ \A i \in DOMAIN v.leaves : IsConditionValueFilled(v.leaves[i].op, v.leaves[i].value)

IsLeafValueComplete(o, v) ==
    CASE o \in {"ANY_MATCH", "ALL_MATCH"} -> IsRepeaterMatchValueFilled(v)
      [] o \in CountOperators -> Has(v, {"value"})
      [] o \in ColumnOperators -> Has(v, {"value", "subfieldId"})
      [] OTHER -> IsConditionValueFilled(o, v)

-----------------------------------------------------------------------------
Init ==
    /\ type \in Types
    /\ op \in OperatorsFor(type)
    /\ target = None
    /\ config = <<>>
    /\ saved = FALSE
    /\ answer = None

\* Another field brings its first operator and no value; so does an operator.
PickField(ty) ==
    /\ type' = ty
    /\ op' \in OperatorsFor(ty)
    /\ target' = None
    /\ config' = <<>>
    /\ saved' = FALSE
    /\ answer' = None

PickOperatorMutant(o) ==
    /\ op' = o
    /\ saved' = FALSE
    /\ UNCHANGED <<type, target, config, answer>>

PickOperator(o) ==
    /\ op' = o
    /\ target' = None
    /\ saved' = FALSE
    /\ UNCHANGED <<type, config, answer>>

EditValue(v) ==
    /\ target' = v
    /\ saved' = FALSE
    /\ UNCHANGED <<type, op, config, answer>>

Save ==
    /\ ~saved
    /\ IsLeafValueComplete(op, target)
    /\ saved' = TRUE
    /\ UNCHANGED <<type, op, target, config, answer>>

\* The limits are checked when the field is saved, not against old answers.
Configure(c) ==
    /\ Cardinality(DOMAIN c) <= MaxLimits
    /\ ValidConfig(type, c)
    /\ config' = c
    /\ UNCHANGED <<type, op, target, saved, answer>>

\* The applicant's answer, as far as the server stores it.
Answer(v) ==
    /\ Encodable(type, config, v)
    /\ answer' = v
    /\ UNCHANGED <<type, op, target, config, saved>>

AnswerRows(rows) ==
    /\ type = "REPEATER_GROUP"
    /\ answer' = Rows(rows)
    /\ UNCHANGED <<type, op, target, config, saved>>

\* A bound: limits only take answers away, so a condition is written with no
\* limits set, and limits are set while no condition is being written.
Next ==
    \/ \E ty \in Types : PickField(ty)
    \/ \E o \in OperatorsFor(type) : PickOperator(o)
    \/ config = <<>> /\ \E v \in ConditionValueInput(type, op, target) : EditValue(v)
    \/ Save
    \/ target = None /\ \E c \in FieldConfigForm(type, config) : Configure(c)
    \/ type # "REPEATER_GROUP" /\ \E v \in FieldInput(type, config) : Answer(v)
    \/ \E rows \in RowSet : AnswerRows(rows)

Spec == Init /\ [][Next]_vars

-----------------------------------------------------------------------------
(* Properties *)

Result(o) == MatchLeaf(type, o, target, DecodeForEvaluation(type, answer))

\* Range targets are taken for complete half filled, see FilledRangesEvaluate.
Ranges == {"BETWEEN", "AGE_BETWEEN"}

UsesRange ==
    \/ op \in Ranges
    \/ target.t = "tree" /\ \E i \in DOMAIN target.leaves : target.leaves[i].op \in Ranges

\* A condition the form let through, range operators aside, can be evaluated on
\* every answer the server stores: a leaf that throws counts its benefit out
\* for good, so no value may survive a change of the operator or the field.
SavedEvaluates == saved /\ ~UsesRange => Result(op) # "throw"

\* So can a number or duration range with both bounds and its unit.
FilledRangesEvaluate ==
    /\ saved /\ op \in Ranges /\ type # "REPEATER_GROUP"
    /\ Has(target, {"min", "max"}) /\ (type \in {"DATE", "DURATION"} => Has(target, {"unit"}))
    /\ ~(type = "DATE" /\ op = "BETWEEN")
    => Result(op) # "throw"

Opposites ==
    {<<"EQUALS", "NOT_EQUALS">>, <<"CONTAINS_SUBSTRING", "NOT_CONTAINS_SUBSTRING">>,
     <<"IS_EMPTY", "IS_NOT_EMPTY">>, <<"IN", "NOT_IN">>, <<"HAS_ANY", "HAS_NONE">>,
     <<"IS_SUBSET_OF", "IS_NOT_SUBSET_OF">>, <<"BELONGS_TO", "NOT_BELONGS_TO">>,
     <<"AGE_EQUALS", "AGE_NOT_EQUALS">>}

\* On an answer that is there, an operator and its opposite never agree: an
\* applicant is on one side of every rule and its negation.
OppositesDiffer ==
    \A pair \in Opposites :
        op = pair[1] /\ pair[2] \in OperatorsOf[type]
            /\ answer.t # "null" /\ Result(op) # "throw"
        => {Result(op), Result(pair[2])} = {"true", "false"}

\* Whoever is within a place is within everything above it, and a condition
\* on a place admits exactly the codes at or below it.
WithinPlaces ==
    type = "HIERARCHY_SELECT" /\ op = "BELONGS_TO" /\ target.t = "array" /\ answer.t = "string"
    => (Result(op) = "true") = (\E c \in target.e : IsPrefix(c, answer.s))

\* Limits that pass the form can be met: some input of the form is stored.
\* Dates, durations and selection counts are not checked for order, a number
\* may be asked to be below zero and not negative, a text longer than its
\* column, and a whole number between 0.2 and 0.8: fractional bounds are for
\* fields that allow decimals.
LimitsCanBeMet ==
    /\ "allowDecimals" \in DOMAIN config /\ ~config.allowDecimals
       => \A key \in {"min", "max"} \cap DOMAIN config : Whole(config[key])
    /\ type \in {"TEXT", "NUMBER", "MONEY"} /\ {"regex", "allowNegative"} \cap DOMAIN config = {}
    /\ "minLength" \in DOMAIN config => config.minLength <= MaxValueLength
    => \E v \in FieldInput(type, config) : v.t # "null" /\ Encodable(type, config, v)
=============================================================================
