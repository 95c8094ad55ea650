------------------------------ MODULE FieldStore ------------------------------
(***************************************************************************)
(* What the composite save of a field writes (services/field.service.ts,    *)
(* fieldOptions, fieldHierarchy and fieldRuleGroup): the field, its options, *)
(* a new hierarchy, its show/hide tree, the columns of a repeater and the    *)
(* children pinned under it, in one transaction.  FieldCatalog has the       *)
(* interleavings of such transactions; here one is a function of the         *)
(* database it starts from, and a helper that throws clears ok.              *)
(*                                                                         *)
(* An id is a position in its table, 0 is null; an option's value, made once *)
(* at its creation, is its id.  Every field is FOLLOW_UP.  The two languages *)
(* of a name are one, as namesMatch takes either; descriptions, required and *)
(* configuration are left out, and so are benefits.  A tree is the set of    *)
(* conditions of one ALL group.                                             *)
(***************************************************************************)
EXTENDS Naturals, SequencesExt

VARIABLE db     \* the tables, and ok

Blank == ""
NoValue == [t |-> "none", n |-> 0]

Row(name, kind, parent, anchor, hierarchy, sort) ==
    [live |-> TRUE, name |-> name, kind |-> kind, parent |-> parent, anchor |-> anchor,
     hierarchy |-> hierarchy, sort |-> sort, tree |-> {}]

Throw(d) == [d EXCEPT !.ok = FALSE]
Do(d, guard, result) == IF d.ok /\ guard THEN result ELSE Throw(d)

-----------------------------------------------------------------------------
(* Reading *)

Live(d, f) == d.field[f].live
FieldOptions(d, f) == {o \in DOMAIN d.option : d.option[o].live /\ d.option[o].field = f}
Subfields(d, f) == {g \in DOMAIN d.field : d.field[g].parent = f}
Referenced(tree) == {leaf.field : leaf \in tree}

\* The anchored fields the form can show: one condition, on the anchor.
AnchoredChildren(d, f) ==
    {g \in DOMAIN d.field : /\ d.field[g].anchor = f
                            /\ Cardinality(d.field[g].tree) = 1
                            /\ Referenced(d.field[g].tree) = {f}}

BySort(d, S) ==
    LET Before(g, h) == \/ d.field[g].sort < d.field[h].sort
                        \/ d.field[g].sort = d.field[h].sort /\ g < h
    IN SetToSortSeq(S, Before)

\* fetchCompositeField answers: the options of every row it finds are asked
\* for, and those of a deleted field are "not found".
Readable(d, f) == \A g \in {f} \cup Subfields(d, f) \cup AnchoredChildren(d, f) : Live(d, g)

-----------------------------------------------------------------------------
(* Rows *)

NameTaken(d, n, self) ==
    \E g \in DOMAIN d.field \ {self} : Live(d, g) /\ d.field[g].name = n

RowAllowed(d, self, r) ==
    /\ r.parent # 0 => r.kind # "REPEATER"
    /\ r.parent # 0 /\ self # 0 => d.field[self].tree = {}
    /\ ~NameTaken(d, r.name, self)

CreateFieldRecord(d, r) ==
    Do(d, RowAllowed(d, 0, r), [d EXCEPT !.field = Append(@, r)])

\* Finds a deleted row too, and leaves it deleted.
UpdateFieldRecord(d, f, r) ==
    Do(d, RowAllowed(d, f, r),
       [d EXCEPT !.field[f] = [r EXCEPT !.live = d.field[f].live, !.tree = d.field[f].tree]])

OptionTaken(d, f, n, self) ==
    \E o \in FieldOptions(d, f) \ {self} : d.option[o].name = n

CreateOption(d, f, o) ==
    Do(d, ~OptionTaken(d, f, o.name, 0),
       [d EXCEPT !.option = Append(@, [field |-> f, name |-> o.name, live |-> TRUE])])

EditOption(d, f, o) ==
    Do(d, o.id \in FieldOptions(d, f) /\ ~OptionTaken(d, f, o.name, o.id),
       [d EXCEPT !.option[o.id].name = o.name])

\* splitOptions: what is new first, then what was there.
SaveOptions(d, f, options) ==
    LET New(o) == o.id = 0
        Old(o) == o.id # 0
        created == FoldLeft(LAMBDA e, o : CreateOption(e, f, o), d, SelectSeq(options, New))
    IN FoldLeft(LAMBDA e, o : EditOption(e, f, o), created, SelectSeq(options, Old))

\* The value each submitted option has once d has saved them.
OptionValueMutant(d, options) ==
    [k \in DOMAIN options |->
        IF options[k].id # 0 THEN options[k].id ELSE Len(d.option) + k]
OptionValueByIndex(d, options) ==
    [k \in DOMAIN options |->
        IF options[k].id # 0 THEN options[k].id
        ELSE Len(d.option) + Cardinality({j \in 1 .. k : options[j].id = 0})]

HierarchyTaken(d, n) == \E h \in DOMAIN d.hierarchy : d.hierarchy[h].name = n

\* createOneHierarchyNodeTree makes a node before its children, each checked
\* against the names made so far, whatever their depth.
NodesDiffer(nodes) == IsInjective([k \in DOMAIN nodes |-> nodes[k].name])

\* Nothing relates the depth of a node to the levels.
CreateHierarchy(d, h) ==
    Do(d, ~HierarchyTaken(d, h.name) /\ NodesDiffer(h.nodes),
       [d EXCEPT !.hierarchy = Append(@, h)])

TreeMutant(d, f, tree) == d.field[f].parent = 0 /\ Referenced(tree) \subseteq DOMAIN d.field
TreeAllowed(d, f, tree) ==
    /\ d.field[f].parent = 0
    /\ \A leaf \in tree : leaf.field \in DOMAIN d.field /\ leaf.op.kind = d.field[leaf.field].kind

WriteTree(d, f, tree) == Do(d, TreeAllowed(d, f, tree), [d EXCEPT !.field[f].tree = tree])

-----------------------------------------------------------------------------
(* The composite save *)

Saved(d, s, r) == IF s.id = 0 THEN CreateFieldRecord(d, r) ELSE UpdateFieldRecord(d, s.id, r)
SavedId(d, s) == IF s.id = 0 THEN Len(d.field) ELSE s.id

SaveSubfield(d, f, s, k) ==
    LET e == Saved(d, s, Row(s.name, s.kind, f, 0, s.hierarchy, k))
    IN Do(d, s.id # 0 => d.field[s.id].parent = f, SaveOptions(e, SavedId(e, s), s.options))

\* A trigger may name an option of this same save by its place.
TriggerResolves(v, values) == v.t = "new" => v.n \in DOMAIN values
ResolveTriggerValue(v, values) == IF v.t = "new" THEN [t |-> "value", n |-> values[v.n]] ELSE v

SaveChild(d, f, c, k, values) ==
    LET e == Saved(d, c, Row(c.name, c.kind, 0, f, c.hierarchy, k))
        g == SavedId(e, c)
        trigger == [field |-> f, op |-> c.op, value |-> ResolveTriggerValue(c.value, values)]
    IN Do(d, (c.id # 0 => d.field[c.id].anchor = f) /\ TriggerResolves(c.value, values),
          WriteTree(SaveOptions(e, g, c.options), g, {trigger}))

\* The anchors above g; assertNoAnchorCycle stops where it has been.
Above(d, g) ==
    LET up[n \in Nat] == IF n = 0 THEN {g} ELSE {d.field[h].anchor : h \in up[n - 1]} \ {0}
    IN UNION {up[n] : n \in 0 .. Len(d.field)}

\* resolveAnchor.  An anchor that is not new and no longer named by the tree is
\* dropped; a new one must be named, and must not be below the field.
ResolveAnchor(d, f, prior, anchor, tree) ==
    LET named == anchor \in Referenced(tree)
        kept == anchor = prior
        accepted == anchor # 0 =>
            /\ anchor # f
            /\ ~kept => named /\ (f # 0 => f \notin Above(d, anchor))
    IN [ok |-> accepted, anchor |-> IF named THEN anchor ELSE 0]

\* addField (f = 0) and editField.
SaveBundle(d, f, p) ==
    LET withHierarchy == IF p.newHierarchy THEN CreateHierarchy(d, p.made) ELSE d
        hierarchy == IF p.newHierarchy THEN Len(withHierarchy.hierarchy) ELSE p.hierarchy
        stored == IF f = 0 THEN {} ELSE d.field[f].tree
        anchored == ResolveAnchor(d, f, IF f = 0 THEN 0 ELSE d.field[f].anchor, p.anchor,
                                  IF p.sendTree THEN p.tree ELSE stored)
        r == Row(p.name, p.kind, 0, anchored.anchor, hierarchy, p.sort)
        withRow == Do(withHierarchy, anchored.ok, Saved(withHierarchy, [id |-> f], r))
        id == SavedId(withRow, [id |-> f])
        values == OptionValueByIndex(withRow, p.options)
        withOptions == SaveOptions(withRow, id, p.options)
        withTree == IF p.sendTree THEN WriteTree(withOptions, id, p.tree) ELSE withOptions
        withSubs == FoldLeft(LAMBDA e, k : SaveSubfield(e, id, p.subs[k], k), withTree,
                             [k \in DOMAIN p.subs |-> k])
    IN FoldLeft(LAMBDA e, k : SaveChild(e, id, p.children[k], k, values), withSubs,
                [k \in DOMAIN p.children |-> k])

\* compositeFieldSchema: no name is empty.
Named(list) == \A k \in DOMAIN list : list[k].name # Blank
IsCompositeRequest(p) ==
    /\ p.name # Blank /\ Named(p.options) /\ Named(p.subs) /\ Named(p.children)
    /\ \A k \in DOMAIN p.subs : Named(p.subs[k].options)
    /\ \A k \in DOMAIN p.children : Named(p.children[k].options)
    /\ p.newHierarchy => p.made.name # Blank /\ Named(p.made.nodes)

-----------------------------------------------------------------------------
(* The other requests *)

RemoveField(d, f) == Do(d, Live(d, f), [d EXCEPT !.field[f].live = FALSE])

RemoveFieldOption(d, f, o) ==
    Do(d, o \in FieldOptions(d, f), [d EXCEPT !.option[o].live = FALSE])

ReorderFields(d, ids) ==
    Do(d, Range(ids) \subseteq DOMAIN d.field,
       [d EXCEPT !.field = [f \in DOMAIN d.field |->
            IF f \in Range(ids)
            THEN [d.field[f] EXCEPT !.sort = CHOOSE k \in DOMAIN ids : ids[k] = f]
            ELSE d.field[f]]])
=============================================================================
