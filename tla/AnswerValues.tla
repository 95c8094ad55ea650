----------------------------- MODULE AnswerValues -----------------------------
(***************************************************************************)
(* How an answer gets from the form into field_value and back: what the     *)
(* inputs of the form can emit, the limits of the field's configJson as the  *)
(* browser and as the server check them, the encoding that rejects what does *)
(* not fit, and the decoding the evaluator sees.  A configJson is a function *)
(* from the keys that are set to their bounds.                              *)
(***************************************************************************)
EXTENDS Conditions

CONSTANTS
    Texts,          \* texts typed into the form
    Lengths,        \* length limits an administrator may set
    Numbers,        \* numbers typed into the form, in parts of One
    Days            \* days picked in the form

-----------------------------------------------------------------------------
(* The form *)

Length(v) == Len(v.s) + (IF v.ragged THEN 1 ELSE 0)

\* The number part never goes below zero; the unit starts at the first allowed.
DurationField(units) == {Obj([value |-> n, unit |-> u]) : n \in Numbers \cap Nat, u \in units}

\* What each input can hand to onChange: a cleared number is null, a cleared
\* text or date the empty string.
FieldInput(type, config) ==
    CASE type = "TEXT" ->
            {v \in {Str(s) : s \in Texts \cup {<<>>}} \cup {Ragged(s) : s \in Texts} :
                "maxLength" \in DOMAIN config => Length(v) <= config.maxLength}
      [] type \in {"NUMBER", "MONEY"} -> {Num(n) : n \in Numbers} \cup {None}
      [] type = "DATE" -> {Date(d, NoTime) : d \in Days} \cup {Str(<<>>)}
      [] type = "BOOLEAN" -> {Bool(b) : b \in BOOLEAN}
      [] type = "SINGLE_SELECT" -> {Str(o) : o \in Option}
      [] type = "MULTI_SELECT" -> {List(e) : e \in SUBSET Option}
      [] type = "HIERARCHY_SELECT" -> {Str(c) : c \in Code} \cup {None}
      [] type = "DURATION" ->
            DurationField(IF "allowedUnits" \in DOMAIN config /\ config.allowedUnits # {}
                          THEN config.allowedUnits ELSE DurationUnits)

-----------------------------------------------------------------------------
(* The limits an administrator may set *)

Whole(n) == n % One = 0

\* Whether v keeps the limit b set under key.
Within(key, b, v) ==
    CASE key = "minLength" -> Length(v) >= b
      [] key = "maxLength" -> Length(v) <= b
      [] key = "regex" -> \A i \in DOMAIN v.s : v.s[i] = b
      [] key = "min" -> v.n >= b
      [] key = "max" -> v.n <= b
      [] key = "allowDecimals" -> b \/ Whole(v.n)
      [] key = "allowNegative" -> b \/ v.n >= 0
      [] key = "minDate" -> Instant(v) >= Instant(b)
      [] key = "maxDate" -> Instant(v) <= Instant(b)
      [] key = "allowFuture" -> b \/ Instant(v) <= Now
      [] key = "allowPast" -> b \/ Instant(v) >= Now
      [] key = "allowedUnits" -> b = {} \/ v.f.unit \in b
      [] key = "minValue" -> v.f.value >= b
      [] key = "maxValue" -> v.f.value <= b
      [] key = "minSelections" -> Cardinality(v.e) >= b
      [] key = "maxSelections" -> Cardinality(v.e) <= b

AssertAnswerMatchesFieldConfig(config, v) == \A key \in DOMAIN config : Within(key, config[key], v)

\* The inline error of the form: an empty text or date shows none, and a
\* duration has no check at all.
ClientError(type, config, v) ==
    /\ type \in {"TEXT", "NUMBER", "MONEY", "DATE", "MULTI_SELECT"}
    /\ v.t # "null" /\ (v.t = "string" => v.s # <<>>)
    /\ ~AssertAnswerMatchesFieldConfig(config, v)

\* The bounds a configJson may hold, per input type, and the pairs that must
\* be in order.
ConfigKeys ==
    [TEXT |-> {"minLength", "maxLength", "regex"},
     NUMBER |-> {"min", "max", "allowDecimals", "allowNegative"}, MONEY |-> {"min", "max"},
     DATE |-> {"minDate", "maxDate", "allowFuture", "allowPast"},
     DURATION |-> {"minValue", "maxValue", "allowedUnits"},
     MULTI_SELECT |-> {"minSelections", "maxSelections"},
     BOOLEAN |-> {}, SINGLE_SELECT |-> {}, HIERARCHY_SELECT |-> {}, REPEATER_GROUP |-> {"maxRows"}]

Ordered(config, low, high) == {low, high} \subseteq DOMAIN config => config[low] <= config[high]

ValidConfigMutant(type, config) == DOMAIN config \subseteq ConfigKeys[type]

ValidConfig(type, config) ==
    /\ DOMAIN config \subseteq ConfigKeys[type]
    /\ type = "TEXT" => Ordered(config, "minLength", "maxLength")
    /\ type \in {"NUMBER", "MONEY"} => Ordered(config, "min", "max")
    /\ type = "MONEY" /\ "min" \in DOMAIN config => config.min >= 0
    /\ "maxLength" \in DOMAIN config => config.maxLength > 0
    /\ "maxSelections" \in DOMAIN config => config.maxSelections > 0
    /\ "maxRows" \in DOMAIN config => config.maxRows > 0

BoundsOf(key) ==
    CASE key \in {"minDate", "maxDate"} -> {Date(d, NoTime) : d \in Days}
      [] key \in {"allowFuture", "allowPast", "allowDecimals", "allowNegative"} -> BOOLEAN
      [] key \in {"minLength", "maxLength", "minSelections", "maxSelections", "maxRows"} -> Lengths
      [] key = "regex" -> UNION {ToSet(s) : s \in Texts}
      [] key = "allowedUnits" -> SUBSET DurationUnits
      [] OTHER -> Numbers

\* The object f with x under key, as { ...f, [key]: x }, and with key blanked.
Put(f, key, x) == [k \in DOMAIN f \cup {key} |-> IF k = key THEN x ELSE f[k]]
Without(f, key) == [k \in DOMAIN f \ {key} |-> f[k]]

\* One edit of the limits in the field form: set a bound or blank it.
FieldConfigForm(type, config) ==
    {Without(config, key) : key \in DOMAIN config}
    \cup UNION {{Put(config, key, b) : b \in BoundsOf(key)} : key \in ConfigKeys[type]}

-----------------------------------------------------------------------------
(* The column field_value *)

EncodedLength(v) ==
    CASE v.t = "string" -> Length(v)
      [] v.t = "array" -> 1 + Cardinality(v.e)
      [] OTHER -> 1

HasType(type, v) ==
    CASE type = "TEXT" -> v.t = "string"
      [] type \in {"NUMBER", "MONEY"} -> v.t = "number"
      [] type = "DATE" -> IsDate(v)
      [] type = "BOOLEAN" -> v.t = "boolean"
      [] type = "DURATION" -> IsMagnitude(v, DurationUnits)
      [] type = "SINGLE_SELECT" -> v.t = "string" /\ v.s \in Option
      [] type = "MULTI_SELECT" -> v.t = "array" /\ v.e \subseteq Option
      [] type = "HIERARCHY_SELECT" -> v.t = "string" /\ v.s \in Code

\* Null is a skipped question.  The limits of a boolean or a single choice are
\* not looked at: there are none.
Encodable(type, config, v) ==
    \/ v.t = "null"
    \/ /\ HasType(type, v)
       /\ type \in {"BOOLEAN", "SINGLE_SELECT", "HIERARCHY_SELECT"}
             \/ AssertAnswerMatchesFieldConfig(config, v)
       /\ EncodedLength(v) <= MaxValueLength

\* A PSGC code names its ancestors: its prefixes of one segment or more.
DerivePsgcAncestorPathMutant(code) == {SubSeq(code, 1, k) : k \in 1 .. Len(code) - 1}
DerivePsgcAncestorPath(code) == {SubSeq(code, 1, k) : k \in 1 .. Len(code)}

\* The evaluator gets the path of a hierarchy answer, everything else as stored.
DecodeForEvaluation(type, v) ==
    IF type = "HIERARCHY_SELECT" /\ v.t = "string" THEN List(DerivePsgcAncestorPath(v.s)) ELSE v
=============================================================================
