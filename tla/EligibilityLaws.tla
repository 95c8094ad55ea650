---------------------------- MODULE EligibilityLaws ---------------------------
(***************************************************************************)
(* What the three-valued engine promises, whatever the answers: it is       *)
(* evaluated on every set of answers that single saves can produce.  The    *)
(* save endpoint does not look at visibility, so hidden fields get answered  *)
(* here too.                                                               *)
(***************************************************************************)
EXTENDS Eligibility

CONSTANTS
    Benefit,
    Catalogs    \* the catalogs considered: records [vis, anchor, deleted,
                \* locked, synced, subfields, residence, benefits]

ASSUME CatalogsAssumption ==
    \A c \in Catalogs : WellFormed(c) /\ DOMAIN c.benefits = Benefit

VARIABLES
    catalog,
    answers     \* FctUserFieldAnswer of one applicant, decoded

lawsVars == <<catalog, answers>>

LawsInit ==
    /\ catalog \in Catalogs
    /\ answers = [f \in Field |-> NoRow]

\* PUT /field-answers with one item; null is "asked and left blank".  A column
\* of a repeater is refused outside its rows.
Put(f, a) ==
    /\ f \notin catalog.subfields
    /\ answers' = [answers EXCEPT ![f] = a]
    /\ UNCHANGED catalog

LawsNext == \E f \in Field, a \in Value \cup {Null} : Put(f, a)

LawsSpec == LawsInit /\ [][LawsNext]_lawsVars

LawsTypeOK == catalog \in Catalogs /\ answers \in Answers

-----------------------------------------------------------------------------
Leaves(tree) == {tree[n] : n \in {m \in DOMAIN tree : ~IsGroup(tree[m])}}

PresenceFree(b) == \A leaf \in Leaves(catalog.benefits[b].tree) : ~leaf.presence

\* The ordinary two-valued meaning of a rule tree.
NodeHolds(tree) ==
    LET holds[n \in DOMAIN tree] ==
            IF ~IsGroup(tree[n]) THEN answers[tree[n].field] \in tree[n].accepts
            ELSE IF tree[n].op = "ALL" THEN \A k \in tree[n].kids : holds[k]
                 ELSE \E k \in tree[n].kids : holds[k]
    IN  holds

Holds(tree) == tree = <<>> \/ NodeHolds(tree)[1]

Resides(b) ==
    \/ catalog.benefits[b].nationwide
    \/ catalog.residence = NoField
    \/ answers[catalog.residence] \in catalog.benefits[b].scope

NothingOpen(b) ==
    /\ \A leaf \in Leaves(catalog.benefits[b].tree) :
          answers[leaf.field] \in Value \/ (leaf.presence /\ answers[leaf.field] = Null)
    /\ catalog.residence # NoField => answers[catalog.residence] \in Value

\* The answers an applicant can still reach: real answers stay, and what is
\* hidden for good is never asked.
Extensions(b) ==
    LET hidden == HiddenFields(catalog, b, answers)
    IN  {a \in Answers :
            \A f \in Field :
                answers[f] \in Value \/ f \in hidden \cup catalog.subfields
                  => a[f] = answers[f]}

\* No two parts of the question share a field: every condition has one of its
\* own, and none is about where the applicant lives.
Disentangled(b) ==
    LET tree == catalog.benefits[b].tree
    IN  /\ \A l, m \in Leaves(tree) : l.field = m.field => l = m
        /\ catalog.residence \notin AskableFields(catalog, b) \cup catalog.subfields
        /\ LeafFields(tree) \cap catalog.subfields = {}

\* Every condition, residency included, can be met and can be missed.
Contingent(b) ==
    LET benefit == catalog.benefits[b]
        open(accepts) == accepts \cap Value # {} /\ Value \ accepts # {}
    IN  /\ \A leaf \in Leaves(benefit.tree) : open(leaf.accepts)
        /\ benefit.nationwide \/ open(benefit.scope)

\* With no question left open, the verdict is the plain Boolean reading of
\* residency and rule tree (docs/ARCHITECTURE.md:160-163).
AgreesWithClassical ==
    \A b \in Benefit :
        NothingOpen(b) =>
            Verdict(catalog, b, answers) =
                IF Resides(b) /\ Holds(catalog.benefits[b].tree)
                THEN "MATCHED" ELSE "NOT_ELIGIBLE"

\* MATCHED and NOT_ELIGIBLE are never taken back: whatever else the applicant
\* answers, or leaves blank, the verdict is the same.
DecidedIsFinal ==
    \A b \in Benefit :
        PresenceFree(b) /\ Verdict(catalog, b, answers) # "PENDING" =>
            \A a \in Extensions(b) : Verdict(catalog, b, a) = Verdict(catalog, b, answers)

\* PENDING means that the missing answers can still decide it either way
\* (README.md:16, "still missing an answer that could change the outcome").
PendingIsOpen ==
    \A b \in Benefit :
        /\ PresenceFree(b) /\ Disentangled(b) /\ Contingent(b)
        /\ Verdict(catalog, b, answers) = "PENDING"
        => {"MATCHED", "NOT_ELIGIBLE"}
             \subseteq {Verdict(catalog, b, a) : a \in Extensions(b)}

\* The benefit's page explains its badge: unless a group of the tree is empty,
\* the checklist holds a condition that failed under NOT_ELIGIBLE and one that
\* is met under MATCHED; under PENDING every question named as next is an open
\* line of the checklist, and the quiz asks it (README.md:16, "never a dead
\* end, always the next concrete question to answer").  The exception is a
\* condition on a repeater's column, which no page can ask.
ChecklistExplains ==
    \A b \in Benefit :
        LET list == Checklist(catalog, b, answers)
            with(status) == {line.field : line \in {l \in list : l.status = status}}
            verdict == Verdict(catalog, b, answers)
            next == PendingFieldIds(catalog, b, answers)
        IN  /\ Populated(catalog.benefits[b].tree) =>
                 /\ verdict = "NOT_ELIGIBLE" => with("NOT_ELIGIBLE") # {}
                 /\ verdict = "MATCHED" /\ list # {} => with("MATCHED") # {}
            /\ (verdict = "PENDING") <=> (next # {})
            /\ next \subseteq with("PENDING")
            /\ next \ catalog.subfields \subseteq UnansweredFieldIds(catalog, b, answers)
            /\ UnansweredFieldIds(catalog, b, answers) \cap catalog.subfields
                 \subseteq {catalog.residence}

=============================================================================
