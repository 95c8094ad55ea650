----------------------- MODULE ConditionAuthoringProofs -----------------------
(***************************************************************************)
(* What an administrator saves with the condition editor, for any fields,   *)
(* options, places, limits and answers: it can be evaluated on every stored *)
(* answer, its opposite says the opposite, a place is within what is above   *)
(* it, and the limits that are accepted can be met.                         *)
(***************************************************************************)
EXTENDS ConditionAuthoring, FiniteSetTheorems, WellFoundedInduction, TLAPS

-----------------------------------------------------------------------------
(* The inductive invariant *)

\* A range under construction: its unit, once there, is one of units.
RangeIn(v, units) == v.t = "object" /\ ("unit" \in DOMAIN v.f => v.f["unit"] \in units)

\* An operator whose target is a value of the field's own kind.
Plain(o) == o \notin Presence \cup Ranges \cup DOMAIN AgeTest

\* What the editor hands on for an operator of a scalar input type.
Written(ty, o, v) ==
    /\ o \notin Presence
    /\ o = "BETWEEN" => IF ty = "DURATION" THEN RangeIn(v, DurationUnits) ELSE v.t = "object"
    /\ o = "AGE_BETWEEN" => RangeIn(v, AgeUnits)
    /\ o \in DOMAIN AgeTest => IsMagnitude(v, AgeUnits)
    /\ Plain(o) =>
          /\ ty = "DURATION" => IsMagnitude(v, DurationUnits)
          /\ ty = "BOOLEAN" => v.t = "boolean"
          /\ ty = "MULTI_SELECT" \/ o \in {"IN", "NOT_IN"} => v.t = "array"
          /\ ty = "SINGLE_SELECT" /\ o \notin {"IN", "NOT_IN"} => v.t = "string"
          /\ ty = "HIERARCHY_SELECT" => v.t = "array" /\ v.e \subseteq Code
          /\ ty = "DATE" => \/ IsDate(v) /\ v.h = NoTime
                            \/ v.t = "string" /\ v.s = <<>>
          /\ ty \in {"NUMBER", "MONEY"} => v.t = "number"
          /\ ty = "TEXT" => v.t = "string"

Fits(ty, o, v) == v = None \/ Written(ty, o, v)

\* A row condition is about a column, by an operator of the column's type.
RowCondition(l) ==
    /\ l = [column |-> l.column, op |-> l.op, value |-> l.value]
    /\ l.column \in Column
    /\ l.op \in OperatorsOf[ColumnType[l.column]]
    /\ Fits(ColumnType[l.column], l.op, l.value)

RowTree(v) ==
    /\ v = Tree(v.logic, v.leaves)
    /\ v.leaves \in Seq(ToSet(v.leaves))
    /\ \A l \in ToSet(v.leaves) : RowCondition(l)

PickedInv == type \in Types /\ op \in OperatorsFor(type)

TargetInv ==
    IF type # "REPEATER_GROUP" THEN Fits(type, op, target)
    ELSE op \in {"ANY_MATCH", "ALL_MATCH"} => target = None \/ RowTree(target)

SavedInv == saved => IsLeafValueComplete(op, target)

ConfigInv == ValidConfig(type, config) /\ \A key \in DOMAIN config : config[key] \in BoundsOf(key)

\* The stored answer, as the form wrote it.
Stored(ty, v) == v.t = "null" \/ (HasType(ty, v) /\ (ty = "DATE" => v.h = NoTime))

AnswerInv ==
    IF type # "REPEATER_GROUP" THEN Stored(type, answer)
    ELSE answer = None \/ \E rows \in RowSet : answer = Rows(rows)

Inv == PickedInv /\ TargetInv /\ SavedInv /\ ConfigInv /\ AnswerInv

-----------------------------------------------------------------------------
(* The operators *)

\* The ages and the periods by name.
LEMMA AgeNames ==
    DOMAIN AgeTest = {"AGE_GREATER_THAN", "AGE_LESS_THAN", "AGE_GREATER_THAN_EQUAL",
                      "AGE_LESS_THAN_EQUAL", "AGE_EQUALS", "AGE_NOT_EQUALS"}
  BY DEF AgeTest

LEMMA PeriodNames ==
    DOMAIN CurrentUnit = {"IS_CURRENT_DAY", "IS_CURRENT_WEEK", "IS_CURRENT_MONTH", "IS_CURRENT_YEAR"}
  BY DEF CurrentUnit

LEMMA AggregateNames ==
    DOMAIN AggregateOf =
        {"COUNT_EQUALS", "COUNT_GREATER_THAN", "COUNT_LESS_THAN", "SUM_EQUALS", "SUM_GREATER_THAN",
         "SUM_LESS_THAN", "MIN_EQUALS", "MIN_GREATER_THAN", "MIN_LESS_THAN", "MAX_EQUALS",
         "MAX_GREATER_THAN", "MAX_LESS_THAN", "AVERAGE_EQUALS", "AVERAGE_GREATER_THAN",
         "AVERAGE_LESS_THAN"}
  BY DEF AggregateOf

LEMMA TypeNames ==
    DOMAIN OperatorsOf = {"TEXT", "NUMBER", "MONEY", "DURATION", "DATE", "BOOLEAN", "SINGLE_SELECT",
                          "MULTI_SELECT", "HIERARCHY_SELECT", "REPEATER_GROUP"}
  BY DEF OperatorsOf

\* The operators of each input type, spelt out.
LEMMA OperatorNames ==
    /\ OperatorsOf["TEXT"] = {"EQUALS", "NOT_EQUALS", "STARTS_WITH", "ENDS_WITH", "CONTAINS_SUBSTRING",
                              "NOT_CONTAINS_SUBSTRING", "IS_EMPTY", "IS_NOT_EMPTY"}
    /\ \A ty \in {"NUMBER", "MONEY", "DURATION"} : OperatorsOf[ty] = NumericOperators
    /\ OperatorsOf["DATE"] = {"BEFORE", "AFTER", "EQUALS", "ON_OR_BEFORE", "ON_OR_AFTER",
                              "IN_THE_PAST", "IN_THE_FUTURE", "BETWEEN", "AGE_BETWEEN"}
                             \cup DOMAIN CurrentUnit \cup DOMAIN AgeTest
    /\ OperatorsOf["BOOLEAN"] = {"EQUALS"}
    /\ OperatorsOf["SINGLE_SELECT"] = {"EQUALS", "NOT_EQUALS", "IN", "NOT_IN", "IS_EMPTY", "IS_NOT_EMPTY"}
    /\ OperatorsOf["MULTI_SELECT"] = {"EQUALS", "NOT_EQUALS", "HAS_ANY", "HAS_ALL", "HAS_NONE",
                                      "IS_SUBSET_OF", "IS_NOT_SUBSET_OF", "IS_EMPTY", "IS_NOT_EMPTY"}
    /\ OperatorsOf["HIERARCHY_SELECT"] = {"BELONGS_TO", "NOT_BELONGS_TO", "IS_EMPTY", "IS_NOT_EMPTY"}
    /\ OperatorsOf["REPEATER_GROUP"] = {"ANY_MATCH", "ALL_MATCH"} \cup DOMAIN AggregateOf
  BY DEF OperatorsOf, Presence

ScalarType(ty) == ty \in DOMAIN OperatorsOf \ {"REPEATER_GROUP"}
RepeaterOperators == {"ANY_MATCH", "ALL_MATCH"} \cup CountOperators \cup ColumnOperators

LEMMA RepeaterKinds ==
    /\ CountOperators \cap ColumnOperators = {}
    /\ CountOperators \cup ColumnOperators = DOMAIN AggregateOf
    /\ {"ANY_MATCH", "ALL_MATCH"} \cap DOMAIN AggregateOf = {}
  BY AggregateNames DEF CountOperators, ColumnOperators

\* No operator of a scalar input type is one of a repeater.
LEMMA ScalarOperators ==
    ASSUME NEW ty, ScalarType(ty), NEW o \in OperatorsOf[ty]
    PROVE  o \notin RepeaterOperators
<1>1. o \notin {"ANY_MATCH", "ALL_MATCH"} \cup DOMAIN AggregateOf
  BY TypeNames, OperatorNames, AgeNames, PeriodNames, AggregateNames DEF ScalarType, NumericOperators
<1>. QED
  BY <1>1, RepeaterKinds DEF RepeaterOperators

-----------------------------------------------------------------------------
(* The value editor *)

LEMMA WithFacts ==
    ASSUME NEW v, NEW key, NEW x
    PROVE  /\ With(v, key, x).t = "object"
           /\ DOMAIN With(v, key, x).f = DOMAIN Parts(v) \cup {key}
           /\ With(v, key, x).f[key] = x
           /\ \A k \in DOMAIN Parts(v) \ {key} : With(v, key, x).f[k] = Parts(v)[k]
           /\ Parts(With(v, key, x)) = With(v, key, x).f
<1> DEFINE g == Put(Parts(v), key, x)
<1>1. /\ DOMAIN g = DOMAIN Parts(v) \cup {key} /\ g[key] = x
      /\ \A k \in DOMAIN Parts(v) \ {key} : g[k] = Parts(v)[k]
  BY DEF Put
<1>2. With(v, key, x) = Obj(g)
  BY DEF With
<1> HIDE DEF g
<1>3. Obj(g).t = "object" /\ Obj(g).f = g
  BY DEF Obj
<1>4. Parts(Obj(g)) = g
  BY <1>3 DEF Parts
<1>. QED
  BY <1>1, <1>2, <1>3, <1>4

LEMMA RangeStepsFit ==
    ASSUME NEW v, NEW units, NEW unit \in units,
           v = None \/ RangeIn(v, units),
           NEW w \in RangeSteps(v, units, unit)
    PROVE  RangeIn(w, units)
<1>1. CASE \E u \in units : w = With(v, "unit", u)
  BY <1>1, WithFacts DEF RangeIn
<1>2. CASE \E key \in {"min", "max"}, n \in Numbers :
              w = With(With(v, "unit", Part(v, "unit", unit)), key, n)
  <2>1. PICK key \in {"min", "max"}, n \in Numbers :
            w = With(With(v, "unit", Part(v, "unit", unit)), key, n)
    BY <1>2
  <2>2. Part(v, "unit", unit) \in units
    BY DEF Part, Has, RangeIn, None
  <2>3. With(v, "unit", Part(v, "unit", unit)).f["unit"] \in units
    BY <2>2, WithFacts
  <2>4. w.f["unit"] = With(v, "unit", Part(v, "unit", unit)).f["unit"]
    BY <2>1, WithFacts
  <2>. QED  BY <2>1, <2>3, <2>4, WithFacts DEF RangeIn
<1>. QED
  BY <1>1, <1>2 DEF RangeSteps

LEMMA MagnitudeStepsFit ==
    ASSUME NEW v, NEW units, NEW unit \in units,
           v = None \/ IsMagnitude(v, units),
           NEW w \in MagnitudeSteps(v, units, unit)
    PROVE  IsMagnitude(w, units)
<1>1. Part(v, "unit", unit) \in units
  BY DEF Part, Has, IsMagnitude, None
<1>2. ASSUME NEW x, NEW u \in units, w = Obj([value |-> x, unit |-> u])
      PROVE  IsMagnitude(w, units)
  BY <1>2 DEF IsMagnitude, Has, Obj
<1>. QED
  BY <1>1, <1>2 DEF MagnitudeSteps

\* What the editor hands on for an operator and its value suits the operator.
LEMMA ScalarStepsFit ==
    ASSUME NEW ty, ScalarType(ty), NEW o \in OperatorsOf[ty],
           NEW v, Fits(ty, o, v), NEW w \in ScalarSteps(ty, o, v)
    PROVE  Written(ty, o, w)
<1>1. o \notin Presence
  <2>1. SUFFICES ASSUME o \in Presence PROVE ScalarSteps(ty, o, v) = {}
    OBVIOUS
  <2>2. o # "BETWEEN" /\ o # "AGE_BETWEEN" /\ o \notin DOMAIN AgeTest
    BY <2>1, AgeNames DEF Presence
  <2>. QED  BY <2>1, <2>2 DEF ScalarSteps
<1>2. CASE o = "BETWEEN" /\ ty = "DURATION"
  <2>1. w \in RangeSteps(v, DurationUnits, "months")
    BY <1>1, <1>2, AgeNames DEF ScalarSteps
  <2>2. v = None \/ RangeIn(v, DurationUnits)
    BY <1>2 DEF Fits, Written
  <2>3. RangeIn(w, DurationUnits)
    BY <2>1, <2>2, RangeStepsFit DEF DurationUnits
  <2>. QED  BY <1>1, <1>2, <2>3, AgeNames DEF Written, Plain, Ranges
<1>3. CASE o = "BETWEEN" /\ ty # "DURATION"
  <2>1. w \in {With(v, key, n) : key \in {"min", "max"}, n \in Numbers}
    BY <1>1, <1>3, AgeNames DEF ScalarSteps
  <2>2. w.t = "object"
    BY <2>1, WithFacts
  <2>. QED  BY <1>1, <1>3, <2>2, AgeNames DEF Written, Plain, Ranges
<1>4. CASE o \in DOMAIN AgeTest
  <2>1. w \in MagnitudeSteps(v, AgeUnits, "years")
    BY <1>1, <1>4, AgeNames DEF ScalarSteps
  <2>2. v = None \/ IsMagnitude(v, AgeUnits)
    BY <1>4 DEF Fits, Written
  <2>3. IsMagnitude(w, AgeUnits)
    BY <2>1, <2>2, MagnitudeStepsFit DEF AgeUnits
  <2>. QED  BY <1>1, <1>4, <2>3, AgeNames DEF Written, Plain, Ranges
<1>5. CASE o = "AGE_BETWEEN"
  <2>1. w \in RangeSteps(v, AgeUnits, "years")
    BY <1>1, <1>5, AgeNames DEF ScalarSteps
  <2>2. v = None \/ RangeIn(v, AgeUnits)
    BY <1>5 DEF Fits, Written
  <2>3. RangeIn(w, AgeUnits)
    BY <2>1, <2>2, RangeStepsFit DEF AgeUnits
  <2>. QED  BY <1>1, <1>5, <2>3, AgeNames DEF Written, Plain, Ranges
<1>6. CASE Plain(o)
  <2>1. /\ o \notin Presence /\ o # "BETWEEN" /\ o # "AGE_BETWEEN"
        /\ o \notin DOMAIN AgeTest
    BY <1>6 DEF Plain, Ranges
  <2>2. w \in OwnKindSteps(ty, o, v)
    BY <2>1 DEF ScalarSteps
  <2>3. ty \in {"TEXT", "NUMBER", "MONEY", "DURATION", "DATE", "BOOLEAN", "SINGLE_SELECT",
                "MULTI_SELECT", "HIERARCHY_SELECT"}
    BY TypeNames DEF ScalarType
  <2>4. o \in {"IN", "NOT_IN"} => ty = "SINGLE_SELECT"
    BY <2>3, OperatorNames, AgeNames, PeriodNames DEF NumericOperators
  <2>5. CASE ty = "DURATION"
    <3>1. w \in MagnitudeSteps(v, DurationUnits, "months")
      BY <2>2, <2>4, <2>5 DEF OwnKindSteps
    <3>2. v = None \/ IsMagnitude(v, DurationUnits)
      BY <1>6, <2>5 DEF Fits, Written
    <3>3. IsMagnitude(w, DurationUnits)
      BY <3>1, <3>2, MagnitudeStepsFit DEF DurationUnits
    <3>. QED  BY <1>1, <1>6, <2>4, <2>5, <3>3 DEF Written, Plain, Ranges
  <2>6. CASE ty = "BOOLEAN"
    <3>1. w \in {Bool(b) : b \in BOOLEAN}
      BY <2>2, <2>4, <2>6 DEF OwnKindSteps
    <3>. QED  BY <1>1, <1>6, <2>4, <2>6, <3>1 DEF Written, Plain, Ranges, Bool
  <2>7. CASE ty = "MULTI_SELECT" \/ o \in {"IN", "NOT_IN"}
    <3>1. w \in {List(e) : e \in SUBSET Option}
      BY <2>2, <2>4, <2>7 DEF OwnKindSteps
    <3>. QED  BY <1>1, <1>6, <2>4, <2>7, <3>1 DEF Written, Plain, Ranges, List
  <2>8. CASE ty = "SINGLE_SELECT" /\ o \notin {"IN", "NOT_IN"}
    <3>1. w \in {Str(s) : s \in Option}
      BY <2>2, <2>8 DEF OwnKindSteps
    <3>. QED  BY <1>1, <1>6, <2>8, <3>1 DEF Written, Plain, Ranges, Str
  <2>9. CASE ty = "HIERARCHY_SELECT"
    <3>1. w \in {List(e) : e \in SUBSET Code}
      BY <2>2, <2>4, <2>9 DEF OwnKindSteps
    <3>. QED  BY <1>1, <1>6, <2>4, <2>9, <3>1 DEF Written, Plain, Ranges, List
  <2>10. CASE ty = "DATE"
    <3>1. w \in {Date(d, NoTime) : d \in Days} \cup {Str(<<>>)}
      BY <2>2, <2>4, <2>10 DEF OwnKindSteps
    <3>2. (IsDate(w) /\ w.h = NoTime) \/ (w.t = "string" /\ w.s = <<>>)
      BY <3>1 DEF Date, Str, IsDate
    <3>. QED  BY <1>1, <1>6, <2>4, <2>10, <3>2 DEF Written, Plain, Ranges
  <2>11. CASE ty \in {"NUMBER", "MONEY"}
    <3>1. w \in {Num(n) : n \in Numbers \cup {0}}
      BY <2>2, <2>4, <2>11 DEF OwnKindSteps
    <3>. QED  BY <1>1, <1>6, <2>4, <2>11, <3>1 DEF Written, Plain, Ranges, Num
  <2>12. CASE ty = "TEXT"
    <3>1. w \in {Str(s) : s \in Texts \cup {<<>>}} \cup {Ragged(s) : s \in Texts}
      BY <2>2, <2>4, <2>12 DEF OwnKindSteps
    <3>2. w.t = "string"
      BY <3>1 DEF Str, Ragged
    <3>. QED  BY <1>1, <1>6, <2>4, <2>12, <3>2 DEF Written, Plain, Ranges
  <2>. QED
    BY <2>3, <2>5, <2>6, <2>7, <2>8, <2>9, <2>10, <2>11, <2>12
<1>. QED
  BY <1>1, <1>2, <1>3, <1>4, <1>5, <1>6 DEF Plain, Ranges

-----------------------------------------------------------------------------
(* The list of row conditions *)

LEMMA SeqOfElements ==
    ASSUME NEW S, NEW s \in Seq(S)
    PROVE  s \in Seq(ToSet(s)) /\ ToSet(s) \subseteq S
  BY DEF ToSet

LEMMA TreeOf ==
    ASSUME NEW S, NEW s \in Seq(S), \A l \in S : RowCondition(l), NEW logic
    PROVE  RowTree(Tree(logic, s))
<1>1. Tree(logic, s).leaves = s /\ Tree(logic, s).logic = logic
  BY DEF Tree
<1>2. s \in Seq(ToSet(s)) /\ ToSet(s) \subseteq S
  BY SeqOfElements
<1>3. \A l \in ToSet(s) : RowCondition(l)
  BY <1>2
<1>. QED
  BY <1>1, <1>2, <1>3 DEF RowTree

\* A new row condition, or one on another column or by another operator, is blank.
LEMMA FreshRowCondition ==
    ASSUME NEW c \in Column,
           NEW l \in [column : {c}, op : OperatorsOf[ColumnType[c]], value : {None}]
    PROVE  RowCondition(l)
<1>1. l = [column |-> l.column, op |-> l.op, value |-> l.value]
  OBVIOUS
<1>2. l.column = c /\ l.op \in OperatorsOf[ColumnType[c]] /\ l.value = None
  OBVIOUS
<1>. QED
  BY <1>1, <1>2 DEF RowCondition, Fits

LEMMA BlankRowConditionsFit ==
    \A l \in BlankRowConditions : RowCondition(l)
  BY FreshRowCondition DEF BlankRowConditions

\* The row conditions a target holds.
LEMMA RowConditionsFit ==
    ASSUME NEW v, v = None \/ RowTree(v)
    PROVE  LET s == RowConditions(v).leaves
           IN  s \in Seq(ToSet(s)) /\ \A l \in ToSet(s) : RowCondition(l)
<1>1. CASE v = None
  <2>1. RowConditions(v).leaves = <<>>
    BY <1>1 DEF RowConditions, None, Tree
  <2>2. ToSet(<<>>) = {} /\ <<>> \in Seq({})
    BY DEF ToSet
  <2>. QED  BY <2>1, <2>2
<1>2. CASE RowTree(v)
  <2>1. v.t = "tree"
    BY <1>2 DEF RowTree, Tree
  <2>. QED  BY <1>2, <2>1 DEF RowTree, RowConditions
<1>. QED
  BY <1>1, <1>2

LEMMA RowConditionEditsFit ==
    ASSUME NEW leaf, RowCondition(leaf), NEW l \in RowConditionEdits(leaf)
    PROVE  RowCondition(l)
<1>1. CASE l \in BlankRowConditions
  BY <1>1, BlankRowConditionsFit
<1>2. ASSUME NEW x \in ScalarSteps(ColumnType[leaf.column], leaf.op, leaf.value)
      PROVE  RowCondition([leaf EXCEPT !.value = x])
  <2>1. ScalarType(ColumnType[leaf.column])
    BY AuthoringAssumption DEF RowCondition, ScalarType
  <2>2. Written(ColumnType[leaf.column], leaf.op, x)
    BY <1>2, <2>1, ScalarStepsFit DEF RowCondition
  <2>3. [leaf EXCEPT !.value = x] = [column |-> leaf.column, op |-> leaf.op, value |-> x]
    BY DEF RowCondition
  <2>4. RowCondition([column |-> leaf.column, op |-> leaf.op, value |-> x])
    BY <2>2 DEF RowCondition, Fits
  <2>. QED  BY <2>3, <2>4
<1>. QED
  BY <1>1, <1>2 DEF RowConditionEdits

LEMMA RowConditionStepsFit ==
    ASSUME NEW v, v = None \/ RowTree(v), NEW w \in RowConditionSteps(v)
    PROVE  RowTree(w)
<1> DEFINE root == RowConditions(v)
           S == ToSet(root.leaves)
           added == {Tree(root.logic, Append(root.leaves, l)) :
                        l \in {x \in BlankRowConditions : Len(root.leaves) < MaxLeaves}}
           edited == UNION {{Tree(root.logic, [root.leaves EXCEPT ![i] = l]) :
                                l \in RowConditionEdits(root.leaves[i])} : i \in DOMAIN root.leaves}
<1>1. root.leaves \in Seq(S) /\ \A l \in S : RowCondition(l)
  BY RowConditionsFit
<1>2. \/ w \in {Tree(logic, root.leaves) : logic \in {"ALL", "ANY"}}
      \/ w \in added
      \/ w \in {Tree(root.logic, RemoveAt(root.leaves, i)) : i \in DOMAIN root.leaves}
      \/ w \in edited
  BY DEF RowConditionSteps
<1> HIDE DEF root, S
<1>3. ASSUME w \in {Tree(logic, root.leaves) : logic \in {"ALL", "ANY"}} PROVE RowTree(w)
  BY <1>1, <1>3, TreeOf
<1>4. ASSUME w \in added PROVE RowTree(w)
  <2>1. PICK l \in BlankRowConditions : w = Tree(root.logic, Append(root.leaves, l))
    BY <1>4
  <2>2. Append(root.leaves, l) \in Seq(S \cup {l})
    BY <1>1
  <2>. QED  BY <1>1, <2>1, <2>2, TreeOf, BlankRowConditionsFit
<1>5. ASSUME w \in {Tree(root.logic, RemoveAt(root.leaves, i)) : i \in DOMAIN root.leaves}
      PROVE  RowTree(w)
  <2>1. PICK i \in DOMAIN root.leaves : w = Tree(root.logic, RemoveAt(root.leaves, i))
    BY <1>5
  <2>2. RemoveAt(root.leaves, i) \in Seq(S)
    BY <1>1 DEF RemoveAt
  <2>. QED  BY <1>1, <2>1, <2>2, TreeOf
<1>6. ASSUME w \in edited PROVE RowTree(w)
  <2>1. PICK i \in DOMAIN root.leaves :
            \E l \in RowConditionEdits(root.leaves[i]) :
                w = Tree(root.logic, [root.leaves EXCEPT ![i] = l])
    BY <1>6
  <2>2. PICK l \in RowConditionEdits(root.leaves[i]) :
            w = Tree(root.logic, [root.leaves EXCEPT ![i] = l])
    BY <2>1
  <2>3. RowCondition(root.leaves[i])
    BY <1>1 DEF S, ToSet
  <2>4. RowCondition(l)
    BY <2>3, RowConditionEditsFit
  <2>5. [root.leaves EXCEPT ![i] = l] \in Seq(S \cup {l})
    BY <1>1
  <2>. QED  BY <1>1, <2>2, <2>4, <2>5, TreeOf
<1>. QED
  BY <1>2, <1>3, <1>4, <1>5, <1>6

-----------------------------------------------------------------------------
(* Evaluation *)

\* A value the form takes for complete is there.
LEMMA FilledIsWritten ==
    ASSUME NEW ty, NEW o, NEW v, Fits(ty, o, v), IsConditionValueFilled(o, v), o \notin Presence
    PROVE  Written(ty, o, v)
  BY DEF Fits, IsConditionValueFilled, None

\* A complete condition that is no range is compared with any answer that is
\* there, by input type.
LEMMA TextEvaluates ==
    ASSUME NEW o \in OperatorsOf["TEXT"], NEW v, NEW a, a.t = "string",
           o \notin Presence => v.t = "string"
    PROVE  EvaluateText(o, v, a) # "throw"
<1>1. IsText(a)
  BY DEF IsText
<1>2. CASE o = "IS_EMPTY"
  BY <1>1, <1>2 DEF EvaluateText, Check
<1>3. CASE o = "IS_NOT_EMPTY"
  BY <1>1, <1>3 DEF EvaluateText, Check
<1>4. CASE o \notin Presence
  <2>1. IsText(a) /\ IsText(v)
    BY <1>1, <1>4 DEF IsText
  <2>2. o # "IS_EMPTY" /\ o # "IS_NOT_EMPTY"
    BY <1>4 DEF Presence
  <2>. QED  BY <2>1, <2>2 DEF EvaluateText, Check
<1>. QED
  BY <1>2, <1>3, <1>4 DEF Presence

LEMMA NumericEvaluates ==
    ASSUME NEW o \in NumericOperators, o # "BETWEEN", NEW v, NEW a, a.t = "number", v.t = "number"
    PROVE  EvaluateNumeric(o, v, a) # "throw"
  BY DEF EvaluateNumeric, Check

LEMMA DurationEvaluates ==
    ASSUME NEW o \in NumericOperators, o # "BETWEEN", NEW v, NEW a,
           IsMagnitude(a, DurationUnits), IsMagnitude(v, DurationUnits)
    PROVE  EvaluateDuration(o, v, a) # "throw"
  BY DEF EvaluateDuration, Check

LEMMA DateEvaluates ==
    ASSUME NEW o \in OperatorsOf["DATE"] \ Ranges, NEW v, NEW a, IsDate(a), a.h = NoTime,
           o \in DOMAIN AgeTest => IsMagnitude(v, AgeUnits),
           o \in {"BEFORE", "AFTER", "EQUALS", "ON_OR_BEFORE", "ON_OR_AFTER"}
              => IsDate(v) /\ v.h = NoTime
    PROVE  EvaluateDate(o, v, a) # "throw"
<1>1. CASE o \in {"IN_THE_PAST", "IN_THE_FUTURE"}
  BY <1>1, AgeNames, PeriodNames DEF EvaluateDate, Check
<1>2. CASE o \in DOMAIN CurrentUnit
  BY <1>2, AgeNames, PeriodNames DEF EvaluateDate, Check
<1>3. CASE o \in DOMAIN AgeTest
  <2>1. EvaluateDate(o, v, a) = EvaluateAge(o, v, a)
    BY <1>3, AgeNames, PeriodNames DEF EvaluateDate
  <2>2. EvaluateAge(o, v, a) # "throw"
    BY <1>3, AgeNames DEF EvaluateAge, Check
  <2>. QED  BY <2>1, <2>2
<1>4. CASE o \in {"BEFORE", "AFTER"}
  BY <1>4, AgeNames, PeriodNames DEF EvaluateDate, Check
<1>5. CASE o \in {"EQUALS", "ON_OR_BEFORE", "ON_OR_AFTER"}
  <2>1. IsDate(a) /\ IsDate(v) /\ HasExplicitTime(a) = HasExplicitTime(v)
    BY <1>5 DEF IsDate, HasExplicitTime
  <2>. QED  BY <1>5, <2>1, AgeNames, PeriodNames DEF EvaluateDate, Check
<1>. QED
  BY <1>1, <1>2, <1>3, <1>4, <1>5, OperatorNames DEF Ranges

LEMMA SelectionEvaluates ==
    ASSUME NEW o, NEW v, NEW a
    PROVE  /\ o \in OperatorsOf["SINGLE_SELECT"] /\ a.t = "string"
                /\ (o \in {"EQUALS", "NOT_EQUALS"} => v.t = "string")
                /\ (o \in {"IN", "NOT_IN"} => v.t = "array")
              => EvaluateSingleSelect(o, v, a) # "throw"
           /\ o \in OperatorsOf["MULTI_SELECT"] /\ a.t = "array"
                /\ (o \notin Presence => v.t = "array")
              => EvaluateMultiSelect(o, v, a) # "throw"
           /\ o \in OperatorsOf["HIERARCHY_SELECT"] /\ a.t = "array"
                /\ (o \notin Presence => v.t = "array")
              => EvaluateHierarchySelect(o, v, a) # "throw"
<1>1. ASSUME o \in OperatorsOf["SINGLE_SELECT"], a.t = "string",
             o \in {"EQUALS", "NOT_EQUALS"} => v.t = "string",
             o \in {"IN", "NOT_IN"} => v.t = "array"
      PROVE  EvaluateSingleSelect(o, v, a) # "throw"
  <2>1. IsText(a)
    BY <1>1 DEF IsText
  <2>2. CASE o \in {"IS_EMPTY", "IS_NOT_EMPTY"}
    BY <2>2 DEF EvaluateSingleSelect, Check
  <2>3. CASE o \in {"IN", "NOT_IN"}
    BY <1>1, <2>1, <2>3 DEF EvaluateSingleSelect, Check
  <2>4. CASE o \in {"EQUALS", "NOT_EQUALS"}
    <3>1. IsText(v)
      BY <1>1, <2>4 DEF IsText
    <3>. QED  BY <2>1, <2>4, <3>1 DEF EvaluateSingleSelect, Check
  <2>. QED  BY <1>1, <2>2, <2>3, <2>4, OperatorNames
<1>2. ASSUME o \in OperatorsOf["MULTI_SELECT"], a.t = "array", o \notin Presence => v.t = "array"
      PROVE  EvaluateMultiSelect(o, v, a) # "throw"
  <2>1. CASE o \in {"IS_EMPTY", "IS_NOT_EMPTY"}
    BY <2>1 DEF EvaluateMultiSelect, Check
  <2>2. CASE o \notin Presence
    <3>1. o # "IS_EMPTY" /\ o # "IS_NOT_EMPTY"
      BY <2>2 DEF Presence
    <3>. QED  BY <1>2, <2>2, <3>1 DEF EvaluateMultiSelect, Check
  <2>. QED  BY <2>1, <2>2 DEF Presence
<1>3. ASSUME o \in OperatorsOf["HIERARCHY_SELECT"], a.t = "array", o \notin Presence => v.t = "array"
      PROVE  EvaluateHierarchySelect(o, v, a) # "throw"
  <2>1. CASE o \in {"IS_EMPTY", "IS_NOT_EMPTY"}
    BY <2>1 DEF EvaluateHierarchySelect, Check
  <2>2. CASE o \notin Presence
    <3>1. o # "IS_EMPTY" /\ o # "IS_NOT_EMPTY"
      BY <2>2 DEF Presence
    <3>. QED  BY <1>3, <2>2, <3>1 DEF EvaluateHierarchySelect, Check
  <2>. QED  BY <2>1, <2>2 DEF Presence
<1>. QED
  BY <1>1, <1>2, <1>3

\* A complete condition that is no range has a value for every answer.
LEMMA ScalarEvaluates ==
    ASSUME NEW ty, ScalarType(ty), NEW o \in OperatorsOf[ty], o \notin Ranges,
           NEW v, Fits(ty, o, v), IsConditionValueFilled(o, v),
           NEW a, Decoded(ty, a), a.t # "null"
    PROVE  ScalarCompare(ty, o, v, a) # "throw"
<1>1. o \notin Presence => Written(ty, o, v)
  BY FilledIsWritten
<1>2. ty \in {"TEXT", "NUMBER", "MONEY", "DURATION", "DATE", "BOOLEAN", "SINGLE_SELECT",
              "MULTI_SELECT", "HIERARCHY_SELECT"}
  BY TypeNames DEF ScalarType
<1>3. ty \notin {"HIERARCHY_SELECT", "DATE"} => HasType(ty, a)
  BY <1>2 DEF Decoded
<1>4. CASE ty = "TEXT"
  <2>1. a.t = "string"
    BY <1>3, <1>4 DEF HasType
  <2>2. o \notin Presence => v.t = "string"
    BY <1>1, <1>4, OperatorNames, AgeNames DEF Written, Plain, Ranges
  <2>3. EvaluateText(o, v, a) # "throw"
    BY <1>4, <2>1, <2>2, TextEvaluates
  <2>. QED  BY <1>4, <2>3 DEF ScalarCompare
<1>5. CASE ty \in {"NUMBER", "MONEY"}
  <2>1. a.t = "number"
    BY <1>3, <1>5 DEF HasType
  <2>2. o \in NumericOperators /\ o # "BETWEEN"
    BY <1>5, OperatorNames DEF Ranges
  <2>3. v.t = "number"
    BY <1>1, <1>5, <2>2, AgeNames DEF Written, Plain, Ranges, Presence, NumericOperators
  <2>4. EvaluateNumeric(o, v, a) # "throw"
    BY <2>1, <2>2, <2>3, NumericEvaluates
  <2>. QED  BY <1>5, <2>4 DEF ScalarCompare
<1>6. CASE ty = "DURATION"
  <2>1. IsMagnitude(a, DurationUnits)
    BY <1>3, <1>6 DEF HasType
  <2>2. o \in NumericOperators /\ o # "BETWEEN"
    BY <1>6, OperatorNames DEF Ranges
  <2>3. IsMagnitude(v, DurationUnits)
    BY <1>1, <1>6, <2>2, AgeNames DEF Written, Plain, Ranges, Presence, NumericOperators
  <2>4. EvaluateDuration(o, v, a) # "throw"
    BY <2>1, <2>2, <2>3, DurationEvaluates
  <2>. QED  BY <1>6, <2>4 DEF ScalarCompare
<1>7. CASE ty = "DATE"
  <2>1. IsDate(a) /\ a.h = NoTime
    BY <1>7 DEF Decoded
  <2>2. o \notin Presence
    BY <1>7, OperatorNames, AgeNames, PeriodNames DEF Presence
  <2>3. o \in DOMAIN AgeTest => IsMagnitude(v, AgeUnits)
    BY <1>1, <2>2 DEF Written
  <2>4. o \notin DOMAIN AgeTest => (IsDate(v) /\ v.h = NoTime) \/ (v.t = "string" /\ v.s = <<>>)
    BY <1>1, <1>7, <2>2 DEF Written, Plain
  <2>5. ~(v.t = "string" /\ v.s = <<>>)
    BY <2>2 DEF IsConditionValueFilled
  <2>6. EvaluateDate(o, v, a) # "throw"
    BY <1>7, <2>1, <2>3, <2>4, <2>5, AgeNames, DateEvaluates
  <2>. QED  BY <1>7, <2>6 DEF ScalarCompare
<1>8. CASE ty = "BOOLEAN"
  <2>1. a.t = "boolean"
    BY <1>3, <1>8 DEF HasType
  <2>2. v.t = "boolean"
    BY <1>1, <1>8, OperatorNames, AgeNames DEF Written, Plain, Ranges, Presence
  <2>3. EvaluateBoolean(o, v, a) # "throw"
    BY <2>1, <2>2 DEF EvaluateBoolean, Check
  <2>. QED  BY <1>8, <2>3 DEF ScalarCompare
<1>9. CASE ty = "SINGLE_SELECT"
  <2>1. a.t = "string"
    BY <1>3, <1>9 DEF HasType
  <2>2. /\ o \in {"EQUALS", "NOT_EQUALS"} => v.t = "string"
        /\ o \in {"IN", "NOT_IN"} => v.t = "array"
    BY <1>1, <1>9, AgeNames DEF Written, Plain, Ranges, Presence
  <2>3. EvaluateSingleSelect(o, v, a) # "throw"
    BY <1>9, <2>1, <2>2, SelectionEvaluates
  <2>. QED  BY <1>9, <2>3 DEF ScalarCompare
<1>10. CASE ty = "MULTI_SELECT"
  <2>1. a.t = "array"
    BY <1>3, <1>10 DEF HasType
  <2>2. o \notin Presence => v.t = "array"
    BY <1>1, <1>10, OperatorNames, AgeNames DEF Written, Plain, Ranges
  <2>3. EvaluateMultiSelect(o, v, a) # "throw"
    BY <1>10, <2>1, <2>2, SelectionEvaluates
  <2>. QED  BY <1>10, <2>3 DEF ScalarCompare
<1>11. CASE ty = "HIERARCHY_SELECT"
  <2>1. a.t = "array"
    BY <1>11 DEF Decoded
  <2>2. o \notin Presence => v.t = "array"
    BY <1>1, <1>11, OperatorNames, AgeNames DEF Written, Plain, Ranges
  <2>3. EvaluateHierarchySelect(o, v, a) # "throw"
    BY <1>11, <2>1, <2>2, SelectionEvaluates
  <2>. QED  BY <1>11, <2>3 DEF ScalarCompare
<1>. QED
  BY <1>2, <1>4, <1>5, <1>6, <1>7, <1>8, <1>9, <1>10, <1>11

\* A nonempty set of row numbers has a least one.
LEMMA LeastRow ==
    ASSUME NEW n \in Nat, NEW T \in SUBSET (1 .. n), T # {}
    PROVE  Min(T) \in T
<1> DEFINE S == 1 .. n
           Heads == {1 .. i : i \in T}
<1>1. IsWellFoundedOn(StrictSubsetOrdering(S), FiniteSubsetsOf(S))
  BY FS_StrictSubsetOrderingWellFounded
<1>2. FiniteSubsetsOf(S) = SUBSET S
  <2>1. IsFiniteSet(S)
    BY FS_Interval
  <2>. QED  BY <2>1, FS_FiniteSubsetsOfFinite
<1>3. Heads \subseteq SUBSET S /\ Heads # {}
  <2>1. \A i \in T : (1 .. i) \in SUBSET S
    OBVIOUS
  <2>. QED  BY <2>1
<1>4. PICK A \in Heads : \A B \in Heads : <<B, A>> \notin StrictSubsetOrdering(S)
  <2> HIDE DEF S, Heads
  <2>. QED  BY <1>1, <1>2, <1>3, WFMin
<1>5. PICK x \in T : A = 1 .. x
  BY <1>4
<1>6. ASSUME NEW y \in T, y < x PROVE FALSE
  <2>1. x \in 1 .. n /\ y \in 1 .. n
    OBVIOUS
  <2>2. x \in 1 .. x /\ x \notin 1 .. y
    BY <1>6, <2>1
  <2>3. (1 .. y) \subseteq (1 .. x) /\ (1 .. x) \subseteq S
    BY <1>6, <2>1
  <2>4. <<1 .. y, 1 .. x>> \in StrictSubsetOrdering(S)
    BY <2>2, <2>3 DEF StrictSubsetOrdering
  <2>. QED  BY <2>4, <1>4, <1>5
<1>7. \A y \in T : x <= y
  BY <1>6
<1>. QED
  BY <1>7 DEF Min

\* Complete row conditions, none a range, give every row of an answer a value.
LEMMA RowEvaluates ==
    ASSUME NEW v, RowTree(v), IsRepeaterMatchValueFilled(v),
           \A i \in DOMAIN v.leaves : v.leaves[i].op \notin Ranges,
           NEW row, \A c \in Column : Decoded(ColumnType[c], row[c])
    PROVE  MatchRepeaterRow(v, row) # "throw"
<1> DEFINE result(i) ==
        IF row[v.leaves[i].column].t = "null" THEN "false"
        ELSE ScalarCompare(ColumnType[v.leaves[i].column], v.leaves[i].op,
                           v.leaves[i].value, row[v.leaves[i].column])
<1>1. ASSUME NEW i \in DOMAIN v.leaves PROVE result(i) # "throw"
  <2> DEFINE l == v.leaves[i]
  <2>1. RowCondition(l)
    BY DEF RowTree, ToSet
  <2>2. IsConditionValueFilled(l.op, l.value) /\ l.op \notin Ranges
    BY DEF IsRepeaterMatchValueFilled
  <2>3. ScalarType(ColumnType[l.column])
    BY <2>1, AuthoringAssumption DEF RowCondition, ScalarType
  <2>4. Decoded(ColumnType[l.column], row[l.column])
    BY <2>1 DEF RowCondition
  <2> HIDE DEF l
  <2>5. row[l.column].t # "null"
           => ScalarCompare(ColumnType[l.column], l.op, l.value, row[l.column]) # "throw"
    BY <2>1, <2>2, <2>3, <2>4, ScalarEvaluates DEF RowCondition
  <2>. QED  BY <2>5 DEF l
<1>2. MatchRepeaterRow(v, row) =
        LET results == {result(i) : i \in DOMAIN v.leaves}
        IN  IF "throw" \in results THEN "throw"
            ELSE Check(TRUE, IF v.logic = "ALL" THEN "false" \notin results
                             ELSE "true" \in results)
  BY DEF MatchRepeaterRow
<1> HIDE DEF result
<1>3. "throw" \notin {result(i) : i \in DOMAIN v.leaves}
  BY <1>1
<1>. QED
  BY <1>2, <1>3 DEF Check

LEMMA RowsEvaluate ==
    ASSUME NEW v, RowTree(v), IsRepeaterMatchValueFilled(v),
           \A i \in DOMAIN v.leaves : v.leaves[i].op \notin Ranges,
           NEW rows \in RowSet, NEW default \in {"true", "false"}
    PROVE  FirstRowNot(default, v, rows) # "throw"
<1> DEFINE stops == {i \in DOMAIN rows : MatchRepeaterRow(v, rows[i]) # default}
<1>1. Len(rows) \in Nat /\ DOMAIN rows = 1 .. Len(rows)
  BY AuthoringAssumption
<1>2. \A i \in DOMAIN rows : MatchRepeaterRow(v, rows[i]) # "throw"
  BY RowEvaluates, AuthoringAssumption
<1>3. stops # {} => Min(stops) \in DOMAIN rows
  <2>1. stops \in SUBSET (1 .. Len(rows))
    BY <1>1
  <2>. QED  BY <1>1, <2>1, LeastRow
<1>. QED
  BY <1>2, <1>3 DEF FirstRowNot

LEMMA RepeaterEvaluates ==
    ASSUME NEW o \in OperatorsOf["REPEATER_GROUP"],
           NEW v, IsLeafValueComplete(o, v),
           o \in {"ANY_MATCH", "ALL_MATCH"} =>
              RowTree(v) /\ \A i \in DOMAIN v.leaves : v.leaves[i].op \notin Ranges,
           NEW rows \in RowSet
    PROVE  EvaluateRepeaterGroup(o, v, Rows(rows)) # "throw"
<1>1. Rows(rows).t = "rows" /\ Rows(rows).rows = rows
  BY DEF Rows
<1>2. CASE o \in {"ANY_MATCH", "ALL_MATCH"}
  <2>1. IsRepeaterMatchValueFilled(v)
    BY <1>2, AggregateNames, RepeaterKinds DEF IsLeafValueComplete
  <2>2. FirstRowNot(IF o = "ANY_MATCH" THEN "false" ELSE "true", v, rows) # "throw"
    BY <1>2, <2>1, RowsEvaluate
  <2>3. v.t = "tree"
    BY <2>1 DEF IsRepeaterMatchValueFilled
  <2>. QED  BY <1>1, <1>2, <2>2, <2>3, RepeaterKinds DEF EvaluateRepeaterGroup
<1>3. CASE o \in CountOperators
  <2>1. o \notin {"ANY_MATCH", "ALL_MATCH"} /\ o \notin ColumnOperators
    BY <1>3, RepeaterKinds
  <2>2. Has(v, {"value"})
    BY <1>3, <2>1 DEF IsLeafValueComplete
  <2>. QED  BY <1>1, <1>3, <2>1, <2>2 DEF EvaluateRepeaterGroup, Check
<1>4. CASE o \in ColumnOperators
  <2>1. o \notin {"ANY_MATCH", "ALL_MATCH"} /\ o \notin CountOperators
    BY <1>4, RepeaterKinds
  <2>2. Has(v, {"value", "subfieldId"})
    BY <1>4, <2>1 DEF IsLeafValueComplete
  <2>. QED  BY <1>1, <1>4, <2>1, <2>2 DEF EvaluateRepeaterGroup, Check
<1>. QED
  BY <1>2, <1>3, <1>4, OperatorNames, RepeaterKinds

\* The evaluator sees an answer of the field's type.
LEMMA AnswerDecoded ==
    ASSUME NEW ty, ScalarType(ty), NEW v, Stored(ty, v)
    PROVE  /\ Decoded(ty, DecodeForEvaluation(ty, v))
           /\ ty # "HIERARCHY_SELECT" => DecodeForEvaluation(ty, v) = v
           /\ ty = "HIERARCHY_SELECT" /\ v.t = "string"
                => DecodeForEvaluation(ty, v) = List(DerivePsgcAncestorPath(v.s))
<1>1. CASE ty = "HIERARCHY_SELECT" /\ v.t = "string"
  <2>1. DecodeForEvaluation(ty, v) = List(DerivePsgcAncestorPath(v.s))
    BY <1>1 DEF DecodeForEvaluation
  <2>2. List(DerivePsgcAncestorPath(v.s)).t = "array"
    BY DEF List
  <2>. QED  BY <1>1, <2>1, <2>2 DEF Decoded
<1>2. CASE ~(ty = "HIERARCHY_SELECT" /\ v.t = "string")
  <2>1. DecodeForEvaluation(ty, v) = v
    BY <1>2 DEF DecodeForEvaluation
  <2>2. CASE v.t = "null"
    BY <1>2, <2>1, <2>2 DEF Decoded
  <2>3. CASE v.t # "null"
    <3>1. HasType(ty, v) /\ (ty = "DATE" => v.h = NoTime)
      BY <2>3 DEF Stored
    <3>2. ty # "HIERARCHY_SELECT"
      BY <1>2, <3>1 DEF HasType
    <3>3. ty = "DATE" => IsDate(v)
      BY <3>1 DEF HasType
    <3>. QED  BY <2>1, <3>1, <3>2, <3>3 DEF Decoded
  <2>. QED  BY <2>2, <2>3
<1>. QED
  BY <1>1, <1>2

\* The result of a condition on the answer there is.
LEMMA ResultOf ==
    ASSUME AnswerInv, PickedInv, type # "REPEATER_GROUP", NEW o
    PROVE  LET a == DecodeForEvaluation(type, answer)
           IN  /\ ScalarType(type) /\ Decoded(type, a)
               /\ Result(o) = IF a.t = "null" THEN "false" ELSE ScalarCompare(type, o, target, a)
<1>1. ScalarType(type)
  BY AuthoringAssumption DEF PickedInv, ScalarType
<1>2. Stored(type, answer)
  BY DEF AnswerInv
<1>. QED
  BY <1>1, <1>2, AnswerDecoded DEF Result, MatchLeaf, Compare

LEMMA OperatorPicked ==
    ASSUME PickedInv
    PROVE  op \in OperatorsOf[type] /\ type \in DOMAIN OperatorsOf
  BY AuthoringAssumption DEF PickedInv, OperatorsFor

LEMMA InvSavedEvaluates ==
    ASSUME Inv
    PROVE  SavedEvaluates
<1>. SUFFICES ASSUME saved, ~UsesRange PROVE Result(op) # "throw"
  BY DEF SavedEvaluates
<1>1. IsLeafValueComplete(op, target) /\ op \in OperatorsOf[type] /\ op \notin Ranges
  BY OperatorPicked DEF Inv, SavedInv, UsesRange
<1>2. CASE type = "REPEATER_GROUP"
  <2>1. CASE answer = None
    <3>1. DecodeForEvaluation(type, answer).t = "null"
      BY <1>2, <2>1 DEF DecodeForEvaluation, None
    <3>. QED  BY <3>1 DEF Result, MatchLeaf
  <2>2. ASSUME NEW rows \in RowSet, answer = Rows(rows) PROVE Result(op) # "throw"
    <3>1. DecodeForEvaluation(type, answer) = Rows(rows) /\ Rows(rows).t # "null"
      BY <1>2, <2>2 DEF DecodeForEvaluation, Rows
    <3>2. Result(op) = EvaluateRepeaterGroup(op, target, Rows(rows))
      BY <1>2, <3>1 DEF Result, MatchLeaf, Compare
    <3>3. ASSUME op \in {"ANY_MATCH", "ALL_MATCH"}
          PROVE  RowTree(target) /\ \A i \in DOMAIN target.leaves : target.leaves[i].op \notin Ranges
      <4>1. target.t = "tree"
        BY <1>1, <3>3, RepeaterKinds DEF IsLeafValueComplete, IsRepeaterMatchValueFilled
      <4>2. target # None
        BY <4>1 DEF None
      <4>3. RowTree(target)
        BY <1>2, <3>3, <4>2 DEF Inv, TargetInv
      <4>. QED  BY <4>1, <4>3 DEF UsesRange
    <3>. QED  BY <1>1, <1>2, <3>2, <3>3, RepeaterEvaluates
  <2>. QED  BY <1>2, <2>1, <2>2 DEF Inv, AnswerInv
<1>3. CASE type # "REPEATER_GROUP"
  <2> DEFINE a == DecodeForEvaluation(type, answer)
  <2>1. /\ ScalarType(type) /\ Decoded(type, a)
        /\ Result(op) = IF a.t = "null" THEN "false" ELSE ScalarCompare(type, op, target, a)
    BY <1>3, ResultOf DEF Inv
  <2> HIDE DEF a
  <2>2. op \notin RepeaterOperators
    BY <1>1, <2>1, ScalarOperators
  <2>3. IsConditionValueFilled(op, target)
    BY <1>1, <2>2 DEF IsLeafValueComplete, RepeaterOperators
  <2>4. Fits(type, op, target)
    BY <1>3 DEF Inv, TargetInv
  <2>5. a.t # "null" => ScalarCompare(type, op, target, a) # "throw"
    BY <1>1, <2>1, <2>3, <2>4, ScalarEvaluates
  <2>. QED  BY <2>1, <2>5
<1>. QED
  BY <1>2, <1>3

LEMMA InvFilledRangesEvaluate ==
    ASSUME Inv
    PROVE  FilledRangesEvaluate
<1>. SUFFICES ASSUME op \in Ranges, type # "REPEATER_GROUP", Has(target, {"min", "max"}),
                     type \in {"DATE", "DURATION"} => Has(target, {"unit"}),
                     ~(type = "DATE" /\ op = "BETWEEN")
              PROVE  Result(op) # "throw"
  BY DEF FilledRangesEvaluate
<1> DEFINE a == DecodeForEvaluation(type, answer)
<1>1. /\ ScalarType(type) /\ Decoded(type, a)
      /\ Result(op) = IF a.t = "null" THEN "false" ELSE ScalarCompare(type, op, target, a)
  BY ResultOf DEF Inv
<1> HIDE DEF a
<1>2. op \in OperatorsOf[type]
  BY OperatorPicked DEF Inv
<1>3. Written(type, op, target)
  BY DEF Inv, TargetInv, Fits, Has, None
<1>4. SUFFICES ASSUME a.t # "null" PROVE ScalarCompare(type, op, target, a) # "throw"
  BY <1>1
<1>5. \/ type \in {"NUMBER", "MONEY", "DURATION"} /\ op = "BETWEEN"
      \/ type = "DATE" /\ op = "AGE_BETWEEN"
  BY <1>1, <1>2, TypeNames, OperatorNames DEF Ranges, ScalarType, NumericOperators
<1>6. CASE type \in {"NUMBER", "MONEY"} /\ op = "BETWEEN"
  <2>1. a.t = "number"
    BY <1>1, <1>4, <1>6 DEF Decoded, HasType
  <2>2. EvaluateNumeric(op, target, a) # "throw"
    BY <1>6, <2>1 DEF EvaluateNumeric, Check
  <2>. QED  BY <1>6, <2>2 DEF ScalarCompare
<1>7. CASE type = "DURATION" /\ op = "BETWEEN"
  <2>1. IsMagnitude(a, DurationUnits)
    BY <1>1, <1>4, <1>7 DEF Decoded, HasType
  <2>2. IsRange(target, DurationUnits)
    BY <1>3, <1>7 DEF Written, RangeIn, IsRange, Has
  <2>3. EvaluateDuration(op, target, a) # "throw"
    BY <1>7, <2>1, <2>2 DEF EvaluateDuration, Check
  <2>. QED  BY <1>7, <2>3 DEF ScalarCompare
<1>8. CASE type = "DATE" /\ op = "AGE_BETWEEN"
  <2>1. IsDate(a)
    BY <1>1, <1>4, <1>8 DEF Decoded
  <2>2. IsRange(target, AgeUnits)
    BY <1>3, <1>8 DEF Written, RangeIn, IsRange, Has
  <2>3. EvaluateAge(op, target, a) # "throw"
    BY <1>8, <2>1, <2>2 DEF EvaluateAge, Check
  <2>4. EvaluateDate(op, target, a) = EvaluateAge(op, target, a)
    BY <1>8, AgeNames, PeriodNames DEF EvaluateDate
  <2>. QED  BY <1>8, <2>3, <2>4 DEF ScalarCompare
<1>. QED
  BY <1>5, <1>6, <1>7, <1>8

-----------------------------------------------------------------------------
(* Opposites *)

Differ(r, s) == r # "throw" => {r, s} = {"true", "false"}

LEMMA TextOpposites ==
    ASSUME NEW v, NEW a
    PROVE  /\ Differ(EvaluateText("EQUALS", v, a), EvaluateText("NOT_EQUALS", v, a))
           /\ Differ(EvaluateText("CONTAINS_SUBSTRING", v, a),
                     EvaluateText("NOT_CONTAINS_SUBSTRING", v, a))
           /\ Differ(EvaluateText("IS_EMPTY", v, a), EvaluateText("IS_NOT_EMPTY", v, a))
<1> DEFINE valid == IsText(a) /\ IsText(v)
<1>1. /\ EvaluateText("EQUALS", v, a) = Check(valid, Words(a) = Words(v))
      /\ EvaluateText("NOT_EQUALS", v, a) = Check(valid, Words(a) # Words(v))
  BY DEF EvaluateText
<1>2. /\ EvaluateText("CONTAINS_SUBSTRING", v, a) = Check(valid, Includes(Words(a), Words(v)))
      /\ EvaluateText("NOT_CONTAINS_SUBSTRING", v, a) = Check(valid, ~Includes(Words(a), Words(v)))
  BY DEF EvaluateText
<1>3. /\ EvaluateText("IS_EMPTY", v, a) = Check(IsText(a), Words(a) = <<>>)
      /\ EvaluateText("IS_NOT_EMPTY", v, a) = Check(IsText(a), Words(a) # <<>>)
  BY DEF EvaluateText
<1>. QED
  BY <1>1, <1>2, <1>3 DEF Differ, Check

LEMMA NumberOpposites ==
    ASSUME NEW v, NEW a
    PROVE  /\ Differ(EvaluateNumeric("EQUALS", v, a), EvaluateNumeric("NOT_EQUALS", v, a))
           /\ Differ(EvaluateDuration("EQUALS", v, a), EvaluateDuration("NOT_EQUALS", v, a))
           /\ Differ(EvaluateDate("AGE_EQUALS", v, a), EvaluateDate("AGE_NOT_EQUALS", v, a))
<1>1. \A x, y : NumberTest("EQUALS", x, y) = (x = y) /\ NumberTest("NOT_EQUALS", x, y) = (x # y)
  BY DEF NumberTest
<1>2. /\ EvaluateNumeric("EQUALS", v, a) = Check(a.t = "number" /\ v.t = "number", a.n = v.n)
      /\ EvaluateNumeric("NOT_EQUALS", v, a) = Check(a.t = "number" /\ v.t = "number", a.n # v.n)
  BY <1>1 DEF EvaluateNumeric
<1>3. LET valid == IsMagnitude(a, DurationUnits) /\ IsMagnitude(v, DurationUnits)
          x == DurationDays(a.f, "value")
          y == DurationDays(v.f, "value")
      IN  /\ EvaluateDuration("EQUALS", v, a) = Check(valid, x = y)
          /\ EvaluateDuration("NOT_EQUALS", v, a) = Check(valid, x # y)
  BY <1>1 DEF EvaluateDuration
<1>4. LET valid == IsDate(a) /\ IsMagnitude(v, AgeUnits)
          x == One * Age(a, v.f.unit)
          y == v.f.value
      IN  /\ EvaluateAge("AGE_EQUALS", v, a) = Check(valid, x = y)
          /\ EvaluateAge("AGE_NOT_EQUALS", v, a) = Check(valid, x # y)
  <2>1. AgeTest["AGE_EQUALS"] = "EQUALS" /\ AgeTest["AGE_NOT_EQUALS"] = "NOT_EQUALS"
    BY DEF AgeTest
  <2>. QED  BY <1>1, <2>1 DEF EvaluateAge
<1>5. /\ EvaluateDate("AGE_EQUALS", v, a) = EvaluateAge("AGE_EQUALS", v, a)
      /\ EvaluateDate("AGE_NOT_EQUALS", v, a) = EvaluateAge("AGE_NOT_EQUALS", v, a)
  BY AgeNames, PeriodNames DEF EvaluateDate
<1>. QED
  BY <1>2, <1>3, <1>4, <1>5 DEF Differ, Check

LEMMA SelectionOpposites ==
    ASSUME NEW v, NEW a
    PROVE  /\ Differ(EvaluateSingleSelect("EQUALS", v, a), EvaluateSingleSelect("NOT_EQUALS", v, a))
           /\ Differ(EvaluateSingleSelect("IN", v, a), EvaluateSingleSelect("NOT_IN", v, a))
           /\ Differ(EvaluateSingleSelect("IS_EMPTY", v, a), EvaluateSingleSelect("IS_NOT_EMPTY", v, a))
           /\ Differ(EvaluateMultiSelect("EQUALS", v, a), EvaluateMultiSelect("NOT_EQUALS", v, a))
           /\ Differ(EvaluateMultiSelect("HAS_ANY", v, a), EvaluateMultiSelect("HAS_NONE", v, a))
           /\ Differ(EvaluateMultiSelect("IS_SUBSET_OF", v, a),
                     EvaluateMultiSelect("IS_NOT_SUBSET_OF", v, a))
           /\ Differ(EvaluateMultiSelect("IS_EMPTY", v, a), EvaluateMultiSelect("IS_NOT_EMPTY", v, a))
           /\ Differ(EvaluateHierarchySelect("BELONGS_TO", v, a),
                     EvaluateHierarchySelect("NOT_BELONGS_TO", v, a))
           /\ Differ(EvaluateHierarchySelect("IS_EMPTY", v, a),
                     EvaluateHierarchySelect("IS_NOT_EMPTY", v, a))
<1>1. /\ EvaluateSingleSelect("EQUALS", v, a) = Check(IsText(a) /\ IsText(v), Words(a) = Words(v))
      /\ EvaluateSingleSelect("NOT_EQUALS", v, a) = Check(IsText(a) /\ IsText(v), Words(a) # Words(v))
  BY DEF EvaluateSingleSelect, Check
<1>2. LET valid == IsText(a) /\ v.t = "array"
      IN  /\ EvaluateSingleSelect("IN", v, a) = Check(valid, Words(a) \in v.e)
          /\ EvaluateSingleSelect("NOT_IN", v, a) = Check(valid, Words(a) \notin v.e)
  BY DEF EvaluateSingleSelect, Check
<1>3. /\ EvaluateSingleSelect("IS_EMPTY", v, a) = Check(TRUE, Unselected(a))
      /\ EvaluateSingleSelect("IS_NOT_EMPTY", v, a) = Check(TRUE, ~Unselected(a))
      /\ EvaluateMultiSelect("IS_EMPTY", v, a) = Check(TRUE, Unselected(a))
      /\ EvaluateMultiSelect("IS_NOT_EMPTY", v, a) = Check(TRUE, ~Unselected(a))
      /\ EvaluateHierarchySelect("IS_EMPTY", v, a) = Check(TRUE, Unselected(a))
      /\ EvaluateHierarchySelect("IS_NOT_EMPTY", v, a) = Check(TRUE, ~Unselected(a))
  BY DEF EvaluateSingleSelect, EvaluateMultiSelect, EvaluateHierarchySelect, Check
<1>4. LET valid == a.t = "array" /\ v.t = "array"
      IN  /\ EvaluateMultiSelect("EQUALS", v, a) = Check(valid, a.e = v.e)
          /\ EvaluateMultiSelect("NOT_EQUALS", v, a) = Check(valid, a.e # v.e)
          /\ EvaluateMultiSelect("HAS_ANY", v, a) = Check(valid, a.e \cap v.e # {})
          /\ EvaluateMultiSelect("HAS_NONE", v, a) = Check(valid, a.e \cap v.e = {})
          /\ EvaluateMultiSelect("IS_SUBSET_OF", v, a) = Check(valid, a.e \subseteq v.e)
          /\ EvaluateMultiSelect("IS_NOT_SUBSET_OF", v, a) = Check(valid, ~(a.e \subseteq v.e))
  BY DEF EvaluateMultiSelect, Check
<1>5. LET valid == a.t = "array" /\ v.t = "array"
      IN  /\ EvaluateHierarchySelect("BELONGS_TO", v, a) = Check(valid, v.e \cap a.e # {})
          /\ EvaluateHierarchySelect("NOT_BELONGS_TO", v, a) = Check(valid, ~(v.e \cap a.e # {}))
  BY DEF EvaluateHierarchySelect, Check
<1>. QED
  BY <1>1, <1>2, <1>3, <1>4, <1>5 DEF Differ, Check

\* The pairs, and the input types that have both.
LEMMA OppositesOfTypes ==
    ASSUME NEW ty, ScalarType(ty), NEW pair \in Opposites,
           pair[1] \in OperatorsOf[ty], pair[2] \in OperatorsOf[ty],
           NEW v, NEW a
    PROVE  Differ(ScalarCompare(ty, pair[1], v, a), ScalarCompare(ty, pair[2], v, a))
<1>1. \/ pair = <<"EQUALS", "NOT_EQUALS">> \/ pair = <<"CONTAINS_SUBSTRING", "NOT_CONTAINS_SUBSTRING">>
      \/ pair = <<"IS_EMPTY", "IS_NOT_EMPTY">> \/ pair = <<"IN", "NOT_IN">>
      \/ pair = <<"HAS_ANY", "HAS_NONE">> \/ pair = <<"IS_SUBSET_OF", "IS_NOT_SUBSET_OF">>
      \/ pair = <<"BELONGS_TO", "NOT_BELONGS_TO">> \/ pair = <<"AGE_EQUALS", "AGE_NOT_EQUALS">>
  BY DEF Opposites
<1>2. ty \in {"TEXT", "NUMBER", "MONEY", "DURATION", "DATE", "BOOLEAN", "SINGLE_SELECT",
              "MULTI_SELECT", "HIERARCHY_SELECT"}
  BY TypeNames DEF ScalarType
<1>4. CASE ty = "TEXT"
  <2>1. \/ pair = <<"EQUALS", "NOT_EQUALS">> \/ pair = <<"CONTAINS_SUBSTRING", "NOT_CONTAINS_SUBSTRING">>
        \/ pair = <<"IS_EMPTY", "IS_NOT_EMPTY">>
    BY <1>1, <1>4, OperatorNames
  <2>2. \A o : ScalarCompare(ty, o, v, a) = EvaluateText(o, v, a)
    BY <1>4 DEF ScalarCompare
  <2>. QED  BY <2>1, <2>2, TextOpposites
<1>5. CASE ty \in {"NUMBER", "MONEY"}
  <2>1. pair = <<"EQUALS", "NOT_EQUALS">>
    BY <1>1, <1>5, OperatorNames DEF NumericOperators
  <2>2. \A o : ScalarCompare(ty, o, v, a) = EvaluateNumeric(o, v, a)
    BY <1>5 DEF ScalarCompare
  <2>. QED  BY <2>1, <2>2, NumberOpposites
<1>6. CASE ty = "DURATION"
  <2>1. pair = <<"EQUALS", "NOT_EQUALS">>
    BY <1>1, <1>6, OperatorNames DEF NumericOperators
  <2>2. \A o : ScalarCompare(ty, o, v, a) = EvaluateDuration(o, v, a)
    BY <1>6 DEF ScalarCompare
  <2>. QED  BY <2>1, <2>2, NumberOpposites
<1>7. CASE ty = "DATE"
  <2>1. pair = <<"AGE_EQUALS", "AGE_NOT_EQUALS">>
    BY <1>1, <1>7, OperatorNames, AgeNames, PeriodNames
  <2>2. \A o : ScalarCompare(ty, o, v, a) = EvaluateDate(o, v, a)
    BY <1>7 DEF ScalarCompare
  <2>. QED  BY <2>1, <2>2, NumberOpposites
<1>8. CASE ty = "BOOLEAN"
  BY <1>1, <1>8, OperatorNames
<1>9. CASE ty = "SINGLE_SELECT"
  <2>1. \/ pair = <<"EQUALS", "NOT_EQUALS">> \/ pair = <<"IN", "NOT_IN">>
        \/ pair = <<"IS_EMPTY", "IS_NOT_EMPTY">>
    BY <1>1, <1>9, OperatorNames
  <2>2. \A o : ScalarCompare(ty, o, v, a) = EvaluateSingleSelect(o, v, a)
    BY <1>9 DEF ScalarCompare
  <2>. QED  BY <2>1, <2>2, SelectionOpposites
<1>10. CASE ty = "MULTI_SELECT"
  <2>0. OperatorsOf[ty] = {"EQUALS", "NOT_EQUALS", "HAS_ANY", "HAS_ALL", "HAS_NONE", "IS_SUBSET_OF",
                           "IS_NOT_SUBSET_OF", "IS_EMPTY", "IS_NOT_EMPTY"}
    BY <1>10, OperatorNames
  <2>1. \/ pair = <<"EQUALS", "NOT_EQUALS">> \/ pair = <<"HAS_ANY", "HAS_NONE">>
        \/ pair = <<"IS_SUBSET_OF", "IS_NOT_SUBSET_OF">> \/ pair = <<"IS_EMPTY", "IS_NOT_EMPTY">>
    BY <1>1, <2>0
  <2>2. \A o : ScalarCompare(ty, o, v, a) = EvaluateMultiSelect(o, v, a)
    BY <1>10 DEF ScalarCompare
  <2>. QED  BY <2>1, <2>2, SelectionOpposites
<1>11. CASE ty = "HIERARCHY_SELECT"
  <2>1. pair = <<"BELONGS_TO", "NOT_BELONGS_TO">> \/ pair = <<"IS_EMPTY", "IS_NOT_EMPTY">>
    BY <1>1, <1>11, OperatorNames
  <2>2. \A o : ScalarCompare(ty, o, v, a) = EvaluateHierarchySelect(o, v, a)
    BY <1>11 DEF ScalarCompare
  <2>. QED  BY <2>1, <2>2, SelectionOpposites
<1>. QED
  BY <1>2, <1>4, <1>5, <1>6, <1>7, <1>8, <1>9, <1>10, <1>11

LEMMA InvOppositesDiffer ==
    ASSUME Inv
    PROVE  OppositesDiffer
<1>. SUFFICES ASSUME NEW pair \in Opposites, op = pair[1], pair[2] \in OperatorsOf[type],
                     answer.t # "null", Result(op) # "throw"
              PROVE  {Result(op), Result(pair[2])} = {"true", "false"}
  BY DEF OppositesDiffer
<1>1. op \in OperatorsOf[type]
  BY OperatorPicked DEF Inv
<1>2. type # "REPEATER_GROUP"
  BY OperatorNames, AggregateNames DEF Opposites
<1> DEFINE a == DecodeForEvaluation(type, answer)
<1>3. ScalarType(type) /\ \A o : Result(o) = IF a.t = "null" THEN "false" ELSE ScalarCompare(type, o, target, a)
  BY <1>2, ResultOf DEF Inv
<1>4. a.t # "null"
  BY DEF DecodeForEvaluation, List
<1> HIDE DEF a
<1>5. Differ(ScalarCompare(type, pair[1], target, a), ScalarCompare(type, pair[2], target, a))
  BY <1>1, <1>3, OppositesOfTypes
<1>. QED
  BY <1>3, <1>4, <1>5 DEF Differ

-----------------------------------------------------------------------------
(* Places *)

\* The ancestors a code names are its prefixes.
LEMMA AncestorsArePrefixes ==
    ASSUME NEW S, NEW T, NEW c \in Seq(S), c # <<>>, NEW s \in Seq(T)
    PROVE  c \in DerivePsgcAncestorPath(s) <=> IsPrefix(c, s)
<1>1. Len(c) \in Nat /\ Len(c) >= 1 /\ SubSeq(c, 1, Len(c)) = c /\ Len(s) \in Nat
  <2>1. Len(c) \in Nat /\ Len(s) \in Nat
    OBVIOUS
  <2>2. SubSeq(c, 1, Len(c)) = c
    OBVIOUS
  <2>3. Len(c) # 0
    OBVIOUS
  <2>. QED  BY <2>1, <2>2, <2>3
<1>2. ASSUME c \in DerivePsgcAncestorPath(s) PROVE IsPrefix(c, s)
  <2>1. PICK k \in 1 .. Len(s) : c = SubSeq(s, 1, k)
    BY <1>2 DEF DerivePsgcAncestorPath
  <2>2. Len(c) = k
    BY <1>1, <2>1
  <2>. QED  BY <1>1, <2>1, <2>2 DEF IsPrefix
<1>3. ASSUME IsPrefix(c, s) PROVE c \in DerivePsgcAncestorPath(s)
  <2>1. Len(c) \in 1 .. Len(s) /\ c = SubSeq(s, 1, Len(c))
    BY <1>1, <1>3 DEF IsPrefix
  <2>. QED  BY <2>1 DEF DerivePsgcAncestorPath
<1>. QED
  BY <1>2, <1>3

LEMMA InvWithinPlaces ==
    ASSUME Inv
    PROVE  WithinPlaces
<1>. SUFFICES ASSUME type = "HIERARCHY_SELECT", op = "BELONGS_TO", target.t = "array",
                     answer.t = "string"
              PROVE  (Result(op) = "true") = (\E c \in target.e : IsPrefix(c, answer.s))
  BY DEF WithinPlaces
<1> DEFINE path == DerivePsgcAncestorPath(answer.s)
<1>1. answer.s \in Code
  BY DEF Inv, AnswerInv, Stored, HasType
<1>2. target.e \subseteq Code
  <2>1. Written(type, op, target)
    BY DEF Inv, TargetInv, Fits, None
  <2>. QED  BY <2>1, AgeNames DEF Written, Plain, Presence, Ranges
<1>3. \A c \in target.e : c \in path <=> IsPrefix(c, answer.s)
  BY <1>1, <1>2, AncestorsArePrefixes, AuthoringAssumption
<1> HIDE DEF path
<1>4. Result(op) = EvaluateHierarchySelect(op, target, List(path))
  <2>1. DecodeForEvaluation(type, answer) = List(path)
    BY DEF DecodeForEvaluation, path
  <2>2. List(path).t = "array"
    BY DEF List
  <2>. QED  BY <2>1, <2>2 DEF Result, MatchLeaf, Compare, ScalarCompare
<1>5. EvaluateHierarchySelect(op, target, List(path))
         = IF target.e \cap path # {} THEN "true" ELSE "false"
  BY DEF EvaluateHierarchySelect, List, Check
<1>. QED
  BY <1>3, <1>4, <1>5

-----------------------------------------------------------------------------
(* Limits *)

LEMMA NumberLimitsMet ==
    ASSUME Inv, type \in {"NUMBER", "MONEY"}, "allowNegative" \notin DOMAIN config,
           "allowDecimals" \in DOMAIN config /\ ~config["allowDecimals"]
              => \A key \in {"min", "max"} \cap DOMAIN config : Whole(config[key])
    PROVE  \E v \in FieldInput(type, config) : v.t # "null" /\ Encodable(type, config, v)
<1>1. DOMAIN config \subseteq {"min", "max", "allowDecimals"}
  BY DEF Inv, ConfigInv, ValidConfig, ConfigKeys
<1>2. \A key \in {"min", "max"} \cap DOMAIN config : config[key] \in Numbers
  BY DEF Inv, ConfigInv, BoundsOf
<1>3. {"min", "max"} \subseteq DOMAIN config => config["min"] <= config["max"]
  BY DEF Inv, ConfigInv, ValidConfig, Ordered
<1>4. PICK n \in Numbers : /\ "min" \in DOMAIN config => n >= config["min"]
                           /\ "max" \in DOMAIN config => n <= config["max"]
                           /\ "allowDecimals" \in DOMAIN config /\ ~config["allowDecimals"] => Whole(n)
  <2>1. CASE "min" \in DOMAIN config
    <3>1. config["min"] \in Numbers /\ config["min"] \in Int
      BY <1>2, <2>1, AuthoringAssumption
    <3>2. config["min"] >= config["min"] /\ ("max" \in DOMAIN config => config["min"] <= config["max"])
      BY <1>3, <2>1, <3>1
    <3>3. "allowDecimals" \in DOMAIN config /\ ~config["allowDecimals"] => Whole(config["min"])
      BY <2>1
    <3>. QED  BY <2>1, <3>1, <3>2, <3>3
  <2>2. CASE "min" \notin DOMAIN config /\ "max" \in DOMAIN config
    <3>1. config["max"] \in Numbers /\ config["max"] \in Int
      BY <1>2, <2>2, AuthoringAssumption
    <3>2. config["max"] <= config["max"]
      BY <3>1
    <3>3. "allowDecimals" \in DOMAIN config /\ ~config["allowDecimals"] => Whole(config["max"])
      BY <2>2
    <3>. QED  BY <2>2, <3>1, <3>2, <3>3
  <2>3. CASE "min" \notin DOMAIN config /\ "max" \notin DOMAIN config
    BY <2>3, AuthoringAssumption
  <2>. QED  BY <1>1, <2>1, <2>2, <2>3
<1>5. Num(n).t = "number" /\ Num(n).n = n
  BY DEF Num
<1>6. Num(n) \in FieldInput(type, config)
  BY DEF FieldInput
<1>7. HasType(type, Num(n))
  BY <1>5 DEF HasType
<1>8. AssertAnswerMatchesFieldConfig(config, Num(n))
  <2>1. "allowDecimals" \in DOMAIN config => config["allowDecimals"] \in BOOLEAN
    BY DEF Inv, ConfigInv, BoundsOf
  <2>2. ASSUME NEW key \in DOMAIN config PROVE Within(key, config[key], Num(n))
    BY <1>1, <1>4, <1>5, <2>1 DEF Within
  <2>. QED  BY <2>2 DEF AssertAnswerMatchesFieldConfig
<1>9. EncodedLength(Num(n)) <= MaxValueLength
  BY <1>5, AuthoringAssumption DEF EncodedLength
<1>. QED
  BY <1>5, <1>6, <1>7, <1>8, <1>9 DEF Encodable

LEMMA TextLimitsMet ==
    ASSUME Inv, type = "TEXT", "regex" \notin DOMAIN config,
           "minLength" \in DOMAIN config => config["minLength"] <= MaxValueLength
    PROVE  \E v \in FieldInput(type, config) : v.t # "null" /\ Encodable(type, config, v)
<1>1. DOMAIN config \subseteq {"minLength", "maxLength"}
  BY DEF Inv, ConfigInv, ValidConfig, ConfigKeys
<1>2. \A key \in DOMAIN config : config[key] \in Nat
  BY <1>1, AuthoringAssumption DEF Inv, ConfigInv, BoundsOf
<1>3. {"minLength", "maxLength"} \subseteq DOMAIN config => config["minLength"] <= config["maxLength"]
  BY DEF Inv, ConfigInv, ValidConfig, Ordered
<1> DEFINE n == IF "minLength" \in DOMAIN config THEN config["minLength"] ELSE 0
<1>4. /\ n \in 0 .. MaxValueLength
      /\ "minLength" \in DOMAIN config => n >= config["minLength"]
      /\ "maxLength" \in DOMAIN config => n <= config["maxLength"]
  BY <1>2, <1>3, AuthoringAssumption
<1> HIDE DEF n
<1>5. PICK v \in {Str(s) : s \in Texts \cup {<<>>}} \cup {Ragged(s) : s \in Texts} : Length(v) = n
  <2>1. CASE n = 0
    <3>1. Length(Str(<<>>)) = 0
      BY DEF Length, Str
    <3>. QED  BY <2>1, <3>1
  <2>2. CASE n # 0
    <3>1. n \in 1 .. MaxValueLength
      BY <1>4, <2>2, AuthoringAssumption
    <3>. QED  BY <3>1, AuthoringAssumption
  <2>. QED  BY <2>1, <2>2
<1>6. v.t = "string"
  BY <1>5 DEF Str, Ragged
<1>7. v \in FieldInput(type, config)
  BY <1>4, <1>5 DEF FieldInput
<1>8. HasType(type, v)
  BY <1>6 DEF HasType
<1>9. AssertAnswerMatchesFieldConfig(config, v)
  <2>1. ASSUME NEW key \in DOMAIN config PROVE Within(key, config[key], v)
    BY <1>1, <1>4, <1>5 DEF Within
  <2>. QED  BY <2>1 DEF AssertAnswerMatchesFieldConfig
<1>10. EncodedLength(v) <= MaxValueLength
  BY <1>4, <1>5, <1>6 DEF EncodedLength
<1>. QED
  BY <1>6, <1>7, <1>8, <1>9, <1>10 DEF Encodable

LEMMA InvLimitsCanBeMet ==
    ASSUME Inv
    PROVE  LimitsCanBeMet
  BY NumberLimitsMet, TextLimitsMet DEF LimitsCanBeMet

-----------------------------------------------------------------------------
(* Every step keeps the invariant *)

LEMMA InitInv ==
    ASSUME Init
    PROVE  Inv
<1>1. PickedInv
  BY DEF Init, PickedInv
<1>2. TargetInv
  BY DEF Init, TargetInv, Fits
<1>3. SavedInv
  BY DEF Init, SavedInv
<1>4. ConfigInv
  <2>1. DOMAIN config = {}
    BY DEF Init
  <2>. QED  BY <1>1, <2>1, TypeNames, AuthoringAssumption DEF ConfigInv, ValidConfig, Ordered, PickedInv
<1>5. AnswerInv
  BY DEF Init, AnswerInv, Stored, None
<1>. QED
  BY <1>1, <1>2, <1>3, <1>4, <1>5 DEF Inv

LEMMA PickFieldInv ==
    ASSUME Inv, NEW ty \in Types, PickField(ty)
    PROVE  Inv'
<1>1. PickedInv'
  BY DEF PickField, PickedInv
<1>2. TargetInv'
  BY DEF PickField, TargetInv, Fits
<1>3. SavedInv'
  BY DEF PickField, SavedInv
<1>4. ConfigInv'
  <2>1. DOMAIN config' = {}
    BY DEF PickField
  <2>. QED  BY <2>1 DEF ConfigInv, ValidConfig, Ordered
<1>5. AnswerInv'
  BY DEF PickField, AnswerInv, Stored, None
<1>. QED
  BY <1>1, <1>2, <1>3, <1>4, <1>5 DEF Inv

LEMMA PickOperatorInv ==
    ASSUME Inv, NEW o \in OperatorsFor(type), PickOperator(o)
    PROVE  Inv'
<1>1. PickedInv'
  BY DEF PickOperator, PickedInv, Inv
<1>2. TargetInv'
  BY DEF PickOperator, TargetInv, Fits
<1>3. SavedInv'
  BY DEF PickOperator, SavedInv
<1>. QED
  BY <1>1, <1>2, <1>3 DEF PickOperator, Inv, ConfigInv, AnswerInv

LEMMA EditValueInv ==
    ASSUME Inv, NEW v \in ConditionValueInput(type, op, target), EditValue(v)
    PROVE  Inv'
<1>1. op \in OperatorsOf[type] /\ type \in DOMAIN OperatorsOf
  BY OperatorPicked DEF Inv
<1>2. TargetInv'
  <2>1. CASE type # "REPEATER_GROUP"
    <3>1. ScalarType(type)
      BY <1>1, <2>1 DEF ScalarType
    <3>2. op \notin RepeaterOperators
      BY <1>1, <3>1, ScalarOperators
    <3>3. v \in ScalarSteps(type, op, target)
      BY <3>2 DEF ConditionValueInput, RepeaterOperators
    <3>4. Written(type, op, v)
      BY <1>1, <2>1, <3>1, <3>3, ScalarStepsFit DEF Inv, TargetInv
    <3>. QED  BY <2>1, <3>4 DEF EditValue, TargetInv, Fits
  <2>2. CASE type = "REPEATER_GROUP" /\ op \in {"ANY_MATCH", "ALL_MATCH"}
    <3>1. op \notin CountOperators /\ op \notin ColumnOperators
      BY <2>2, RepeaterKinds
    <3>2. v \in RowConditionSteps(target)
      BY <2>2, <3>1 DEF ConditionValueInput
    <3>3. RowTree(v)
      BY <2>2, <3>2, RowConditionStepsFit DEF Inv, TargetInv
    <3>. QED  BY <2>2, <3>3 DEF EditValue, TargetInv
  <2>3. CASE type = "REPEATER_GROUP" /\ op \notin {"ANY_MATCH", "ALL_MATCH"}
    BY <2>3 DEF EditValue, TargetInv
  <2>. QED  BY <2>1, <2>2, <2>3
<1>3. SavedInv'
  BY DEF EditValue, SavedInv
<1>. QED
  BY <1>2, <1>3 DEF EditValue, Inv, PickedInv, ConfigInv, AnswerInv

LEMMA SaveInv ==
    ASSUME Inv, Save
    PROVE  Inv'
  BY DEF Save, Inv, PickedInv, TargetInv, SavedInv, ConfigInv, AnswerInv

\* A bound that is set comes from its input, and one that is blanked is gone.
LEMMA ConfigureInv ==
    ASSUME Inv, NEW c \in FieldConfigForm(type, config), Configure(c)
    PROVE  Inv'
<1>1. \A key \in DOMAIN c : c[key] \in BoundsOf(key)
  <2>1. ASSUME NEW key \in ConfigKeys[type], NEW b \in BoundsOf(key), c = Put(config, key, b)
        PROVE  \A k \in DOMAIN c : c[k] \in BoundsOf(k)
    <3>1. \A k \in DOMAIN config : config[k] \in BoundsOf(k)
      BY DEF Inv, ConfigInv
    <3>2. DOMAIN c = DOMAIN config \cup {key} /\ c[key] = b
      BY <2>1 DEF Put
    <3>3. \A k \in DOMAIN config \ {key} : c[k] = config[k]
      BY <2>1 DEF Put
    <3>. QED  BY <2>1, <3>1, <3>2, <3>3
  <2>2. ASSUME NEW key \in DOMAIN config, c = Without(config, key)
        PROVE  \A k \in DOMAIN c : c[k] \in BoundsOf(k)
    BY <2>2 DEF Inv, ConfigInv, Without
  <2> DEFINE set == UNION {{Put(config, key, b) : b \in BoundsOf(key)} : key \in ConfigKeys[type]}
             blanked == {Without(config, key) : key \in DOMAIN config}
  <2>3. FieldConfigForm(type, config) = set \cup blanked
    BY DEF FieldConfigForm
  <2>4. ASSUME c \in set
        PROVE  \E key \in ConfigKeys[type] : \E b \in BoundsOf(key) : c = Put(config, key, b)
    BY <2>4
  <2>5. ASSUME c \in blanked
        PROVE  \E key \in DOMAIN config : c = Without(config, key)
    BY <2>5
  <2>. QED  BY <2>1, <2>2, <2>3, <2>4, <2>5
<1>2. ConfigInv'
  BY <1>1 DEF Configure, ConfigInv
<1>. QED
  BY <1>2 DEF Configure, Inv, PickedInv, TargetInv, SavedInv, AnswerInv

LEMMA AnswerKept ==
    ASSUME Inv, type # "REPEATER_GROUP", NEW v \in FieldInput(type, config), Answer(v)
    PROVE  Inv'
<1>1. Stored(type, v)
  <2>1. v.t = "null" \/ HasType(type, v)
    BY DEF Answer, Encodable
  <2>2. CASE type = "DATE" /\ v.t # "null"
    <3>1. IsDate(v)
      BY <2>1, <2>2 DEF HasType
    <3>2. v \in {Date(d, NoTime) : d \in Days} \cup {Str(<<>>)}
      BY <2>2 DEF FieldInput
    <3>3. v.h = NoTime
      BY <3>1, <3>2 DEF IsDate, Date, Str
    <3>. QED  BY <2>1, <3>3 DEF Stored
  <2>. QED  BY <2>1, <2>2 DEF Stored
<1>2. AnswerInv'
  BY <1>1 DEF Answer, AnswerInv
<1>. QED
  BY <1>2 DEF Answer, Inv, PickedInv, TargetInv, SavedInv, ConfigInv

LEMMA AnswerRowsInv ==
    ASSUME Inv, NEW rows \in RowSet, AnswerRows(rows)
    PROVE  Inv'
<1>1. AnswerInv'
  BY DEF AnswerRows, AnswerInv
<1>. QED
  BY <1>1 DEF AnswerRows, Inv, PickedInv, TargetInv, SavedInv, ConfigInv

LEMMA NextInv ==
    ASSUME Inv, [Next]_vars
    PROVE  Inv'
<1>1. CASE UNCHANGED vars
  BY <1>1 DEF vars, Inv, PickedInv, TargetInv, SavedInv, ConfigInv, AnswerInv
<1>. QED
  BY <1>1, PickFieldInv, PickOperatorInv, EditValueInv, SaveInv, ConfigureInv, AnswerKept,
     AnswerRowsInv DEF Next

LEMMA Invariance == Spec => []Inv
<1>1. Init => Inv
  BY InitInv, AuthoringAssumption
<1>2. Inv /\ [Next]_vars => Inv'
  BY NextInv, AuthoringAssumption
<1>. QED
  BY <1>1, <1>2, PTL DEF Spec

-----------------------------------------------------------------------------
(* The properties *)

\* What the form lets through can be evaluated on every stored answer: a leaf
\* that throws counts its benefit out for good.
THEOREM SavedConditionsEvaluate == Spec => []SavedEvaluates
<1>1. Inv => SavedEvaluates
  BY InvSavedEvaluates, AuthoringAssumption
<1>. QED
  BY <1>1, Invariance, PTL

\* So can a number, duration or age range with its bounds and its unit.
THEOREM FilledRangesAreEvaluated == Spec => []FilledRangesEvaluate
<1>1. Inv => FilledRangesEvaluate
  BY InvFilledRangesEvaluate, AuthoringAssumption
<1>. QED
  BY <1>1, Invariance, PTL

\* An applicant is on one side of every condition and its negation.
THEOREM OppositesExclude == Spec => []OppositesDiffer
<1>1. Inv => OppositesDiffer
  BY InvOppositesDiffer, AuthoringAssumption
<1>. QED
  BY <1>1, Invariance, PTL

\* A condition on places admits the codes at or below one of them.
THEOREM PlacesContain == Spec => []WithinPlaces
<1>1. Inv => WithinPlaces
  BY InvWithinPlaces, AuthoringAssumption
<1>. QED
  BY <1>1, Invariance, PTL

\* Limits that pass the form of a text or number field leave an answer that can be
\* stored, if the numbers allow decimals or their limits are whole.
THEOREM LimitsAreMet == Spec => []LimitsCanBeMet
<1>1. Inv => LimitsCanBeMet
  BY InvLimitsCanBeMet, AuthoringAssumption
<1>. QED
  BY <1>1, Invariance, PTL
=============================================================================
