----------------------------- MODULE Eligibility -----------------------------
(***************************************************************************)
(* The three-valued eligibility engine of                                  *)
(* services/benefitEligibility.service.ts: pure functions of a catalog (the *)
(* fields with their show/hide trees, the benefits with their rule trees)  *)
(* and of one applicant's answers.                                         *)
(*                                                                         *)
(* A rule tree is a sequence of nodes, node 1 the root; the kids of a group *)
(* have larger indexes.  The empty sequence is "no tree".  A condition is   *)
(* the set of answers it accepts: an answer compare() rejects and one it   *)
(* throws on are the same to every caller.                                 *)
(***************************************************************************)
EXTENDS Naturals, Sequences, FiniteSets

CONSTANTS
    Field,      \* rows of DimField
    Value,      \* real (non-null) answers
    Null,       \* an answer row with a null value: asked and left blank
    NoRow,      \* no answer row at all: never asked
    NoField     \* "no such field"

ASSUME EligibilityAssumption ==
    /\ IsFiniteSet(Field)
    /\ Null \notin Value /\ NoRow \notin Value /\ Null # NoRow
    /\ NoField \notin Field

Answer  == Value \cup {Null, NoRow}
Answers == [Field -> Answer]

Status == {"MATCHED", "PENDING", "NOT_ELIGIBLE"}
LogicalOperator == {"ALL", "ANY"}

\* accepts may hold Null only for the IS_EMPTY / IS_NOT_EMPTY operators, the
\* ones with presence set.
Condition(f, accepts, presence) ==
    [kind |-> "condition", field |-> f, accepts |-> accepts, presence |-> presence]

Group(op, kids) == [kind |-> "group", op |-> op, kids |-> kids]

IsGroup(node) == node.kind = "group"

LeafFields(tree) ==
    {tree[n].field : n \in {m \in DOMAIN tree : ~IsGroup(tree[m])}}

\* A node and a tree as the services store them: every condition names a field
\* and every group is created before its children.
Node ==
    [kind : {"condition"}, field : Field, accepts : SUBSET Answer, presence : BOOLEAN]
      \cup [kind : {"group"}, op : LogicalOperator, kids : SUBSET Nat]

Tree ==
    {tree \in Seq(Node) :
        \A n \in DOMAIN tree :
            IsGroup(tree[n]) => tree[n].kids \subseteq (n + 1) .. Len(tree)}

\* What the form demands of the groups of a tree before it saves it (there the
\* root may be empty; deleting a field can empty any group).
Populated(tree) == \A n \in DOMAIN tree : IsGroup(tree[n]) => tree[n].kids # {}

\* What the tables and their foreign keys guarantee of a catalog.
WellFormed(catalog) ==
    /\ catalog.vis \in [Field -> Tree]
    /\ catalog.anchor \in [Field -> Field \cup {NoField}]
    /\ catalog.deleted \subseteq Field /\ catalog.subfields \subseteq Field
    /\ catalog.residence \in Field \cup {NoField}
    /\ \A b \in DOMAIN catalog.benefits :
          /\ catalog.benefits[b].tree \in Tree
          /\ catalog.benefits[b].nationwide \in BOOLEAN
          /\ catalog.benefits[b].scope \subseteq Value

\* The fields a show/hide tree reads, its own field left out: only a
\* cross-field reference carries a conditionFieldId.
References(tree, own) == LeafFields(tree) \ {own}

-----------------------------------------------------------------------------
\* combine(): a decisive child settles the group, otherwise an unknown one
\* leaves it open, otherwise the group has its neutral value.
Decisive(op) == IF op = "ALL" THEN "NOT_ELIGIBLE" ELSE "MATCHED"
Neutral(op)  == IF op = "ALL" THEN "MATCHED" ELSE "NOT_ELIGIBLE"

\* Mutation: an open child keeps an ALL group open even beside a failed one.
CombineMutant(op, results) ==
    IF "PENDING" \in results THEN "PENDING"
    ELSE IF Decisive(op) \in results THEN Decisive(op) ELSE Neutral(op)

Combine(op, results) ==
    IF Decisive(op) \in results THEN Decisive(op)
    ELSE IF "PENDING" \in results THEN "PENDING"
    ELSE Neutral(op)

\* Mutation: the presence operators lose their exception for blank answers.
LeafStatusMutant(leaf, answers, hidden) ==
    IF answers[leaf.field] \in Value
    THEN IF answers[leaf.field] \in leaf.accepts THEN "MATCHED" ELSE "NOT_ELIGIBLE"
    ELSE IF leaf.field \in hidden THEN "NOT_ELIGIBLE" ELSE "PENDING"

\* evaluateLeafNode
LeafStatus(leaf, answers, hidden) ==
    LET a == answers[leaf.field]
        settled == a \in Value \/ (a = Null /\ leaf.presence)
    IN  IF settled
        THEN IF a \in leaf.accepts THEN "MATCHED" ELSE "NOT_ELIGIBLE"
        ELSE IF leaf.field \in hidden THEN "NOT_ELIGIBLE" ELSE "PENDING"

\* evaluateTreeNode, for every node of the tree
NodeStatus(tree, answers, hidden) ==
    LET status[n \in DOMAIN tree] ==
            IF IsGroup(tree[n])
            THEN Combine(tree[n].op, {status[k] : k \in tree[n].kids})
            ELSE LeafStatus(tree[n], answers, hidden)
    IN  status

TreeStatus(tree, answers, hidden) ==
    IF tree = <<>> THEN "MATCHED" ELSE NodeStatus(tree, answers, hidden)[1]

\* The pendingFieldIds of a result: the open questions under the groups that
\* are still open.
NodePending(tree, answers, hidden) ==
    LET status == NodeStatus(tree, answers, hidden)
        pending[n \in DOMAIN tree] ==
            IF status[n] # "PENDING" THEN {}
            ELSE IF IsGroup(tree[n])
                 THEN UNION {pending[k] : k \in tree[n].kids}
                 ELSE {tree[n].field}
    IN  pending

PendingFields(tree, answers, hidden) ==
    IF tree = <<>> THEN {} ELSE NodePending(tree, answers, hidden)[1]

-----------------------------------------------------------------------------
\* isClientTreeVisible and the frontend's isFieldVisible: a condition on a
\* field without a real answer does not hold, whatever its operator.
NodeVisible(tree, answers) ==
    LET shows[n \in DOMAIN tree] ==
            IF ~IsGroup(tree[n])
            THEN /\ answers[tree[n].field] \in Value
                 /\ answers[tree[n].field] \in tree[n].accepts
            ELSE IF tree[n].op = "ALL"
                 THEN \A k \in tree[n].kids : shows[k]
                 ELSE \E k \in tree[n].kids : shows[k]
    IN  shows

Visible(tree, answers) == tree = <<>> \/ NodeVisible(tree, answers)[1]

\* Mutation: a key with a null value counts as an answered driver.
SettledHiddenMutant(vis, fields, answers) ==
    {f \in fields :
        /\ vis[f] # <<>>
        /\ References(vis[f], f) # {}
        /\ \A r \in References(vis[f], f) : answers[r] # NoRow
        /\ ~Visible(vis[f], answers)}

\* computeSettledHiddenFieldIds: the fields that can never be shown, given
\* the answers.
SettledHidden(vis, fields, answers) ==
    {f \in fields :
        /\ vis[f] # <<>>
        /\ References(vis[f], f) # {}
        /\ \A r \in References(vis[f], f) : answers[r] \in Value
        /\ ~Visible(vis[f], answers)}

\* expandWithVisibilityDeps: close a set of fields under the drivers of their
\* show/hide trees and under their live anchored children.
Expand(catalog, fields) ==
    fields
      \cup (UNION {References(catalog.vis[f], f) : f \in fields})
      \cup {f \in Field \ catalog.deleted : catalog.anchor[f] \in fields}

\* Mutation: the question list is the benefit's own leaves, as it once was.
ExpandWithVisibilityDepsMutant(catalog, fields) == fields

\* One pass per field is enough: EligibilityProofs shows that the result is
\* closed, which is where the code's worklist stops.
Passes(catalog, fields) ==
    LET closed[i \in 0 .. Cardinality(Field)] ==
            IF i = 0 THEN fields ELSE Expand(catalog, closed[i - 1])
    IN  closed

ExpandWithVisibilityDeps(catalog, fields) ==
    Passes(catalog, fields)[Cardinality(Field)]

-----------------------------------------------------------------------------
\* evaluateResidency: nationwide benefits and a system without a residence
\* field check nothing.
ResidencyStatus(catalog, b, answers) ==
    LET benefit == catalog.benefits[b]
        a == answers[catalog.residence]
    IN  IF benefit.nationwide \/ catalog.residence = NoField THEN "MATCHED"
        ELSE IF a \notin Value THEN "PENDING"
        ELSE IF a \in benefit.scope THEN "MATCHED" ELSE "NOT_ELIGIBLE"

ResidencyPending(catalog, b, answers) ==
    IF ResidencyStatus(catalog, b, answers) = "PENDING"
    THEN {catalog.residence} ELSE {}

AskableFields(catalog, b) ==
    ExpandWithVisibilityDeps(catalog, LeafFields(catalog.benefits[b].tree))

HiddenFields(catalog, b, answers) ==
    SettledHidden(catalog.vis, AskableFields(catalog, b), answers)

\* evaluateBenefitEligibilityWith: status, pendingFieldIds, unansweredFieldIds
Verdict(catalog, b, answers) ==
    Combine("ALL", {ResidencyStatus(catalog, b, answers),
                    TreeStatus(catalog.benefits[b].tree, answers,
                               HiddenFields(catalog, b, answers))})

PendingFieldIds(catalog, b, answers) ==
    IF Verdict(catalog, b, answers) # "PENDING" THEN {}
    ELSE ResidencyPending(catalog, b, answers)
           \cup PendingFields(catalog.benefits[b].tree, answers,
                              HiddenFields(catalog, b, answers))

\* withoutRepeaterSubfields: a column of a repeater has no answer outside its
\* rows, and one such item would fail a whole save.
WithoutRepeaterSubfields(catalog, fields) == fields \ catalog.subfields

\* Mutation: answered questions are asked again.
UnansweredFieldIdsMutant(catalog, b, answers) ==
    ResidencyPending(catalog, b, answers)
      \cup (AskableFields(catalog, b) \ HiddenFields(catalog, b, answers))

\* Mutation: a question asked and left blank is not asked again.
UnansweredFieldIdsBlankMutant(catalog, b, answers) ==
    ResidencyPending(catalog, b, answers)
      \cup ({f \in AskableFields(catalog, b) : answers[f] = NoRow}
              \ HiddenFields(catalog, b, answers))

UnansweredFieldIds(catalog, b, answers) ==
    ResidencyPending(catalog, b, answers)
      \cup WithoutRepeaterSubfields(catalog,
              {f \in AskableFields(catalog, b) : answers[f] \notin Value}
                \ HiddenFields(catalog, b, answers))

-----------------------------------------------------------------------------
\* collectLeafStatuses: every condition of the tree with its own status, also
\* the ones under a group that is already decided.
LeafStatuses(tree, answers, hidden) ==
    {[field |-> leaf.field, status |-> LeafStatus(leaf, answers, hidden)] :
        leaf \in {tree[n] : n \in {m \in DOMAIN tree : ~IsGroup(tree[m])}}}

\* The leaves of evaluateBenefitEligibilityDetailById: the checklist on a
\* benefit's own page, residency first.
Checklist(catalog, b, answers) ==
    (IF catalog.benefits[b].nationwide \/ catalog.residence = NoField THEN {}
     ELSE {[field |-> catalog.residence, status |-> ResidencyStatus(catalog, b, answers)]})
      \cup LeafStatuses(catalog.benefits[b].tree, answers, HiddenFields(catalog, b, answers))

=============================================================================
