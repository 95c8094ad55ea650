------------------------------ MODULE FieldEditor ------------------------------
(***************************************************************************)
(* The fields page of the admin site: the list with its drag and drop, and   *)
(* the form that creates or edits a field with everything that belongs to    *)
(* it.  A save is one composite request followed by one request for every    *)
(* option, column and child removed.  Meanwhile others delete fields from    *)
(* their own lists, and any request or its answer may be lost.              *)
(*                                                                         *)
(* The author may be confined to what the properties assume: Patient, he     *)
(* waits for the list and for the form to load; GivesUp, he closes the form  *)
(* when a save failed; Reloads, he opens no form from an outdated list;      *)
(* Careful, he saves no form that removes an option some condition names.    *)
(* He leaves the form alone while it saves.                                 *)
(***************************************************************************)
EXTENDS FieldStore

CONSTANTS
    FieldName, OptionName, HierarchyName, NodeName,     \* none of them blank
    Start,          \* the database at first
    Patient, GivesUp, Reloads, Careful,
    MaxRows,        \* bound: rows of one list of the form
    MaxRemoved,     \* bound: fields deleted
    MaxEdits,       \* bound: changes by the author
    MaxSessions     \* bound: openings of the form

VARIABLES
    list,       \* of the page: rows as they were read, and their order
    page,       \* the request of the page in progress
    phase,      \* of the form
    form,       \* its state
    loads,      \* fields asked for and not answered yet
    queue,      \* requests of the save still to be answered
    edits, sessions

vars == <<db, list, page, phase, form, loads, queue, edits, sessions>>

Kinds == {"TEXT", "SELECT", "HIERARCHY", "REPEATER"}
Lists == {"subs", "children"}       \* the two lists of rows a form has
Idle == [op |-> "idle", ids |-> <<>>]

ListOf(d) ==
    [rows |-> d.field,
     order |-> BySort(d, {f \in DOMAIN d.field : Live(d, f) /\ d.field[f].parent = 0})]

\* groupByAnchor: what hangs under nothing that is listed.
TopLevel ==
    LET Free(f) == list.rows[f].anchor \notin Range(list.order)
    IN SelectSeq(list.order, Free)

EmptyForm ==
    [id |-> 0, loaded |-> TRUE, name |-> Blank, kind |-> "TEXT", sort |-> 0,
     options |-> <<>>, subs |-> <<>>, children |-> <<>>, gone |-> <<>>,
     hierarchy |-> 0, mode |-> "existing", hname |-> Blank, levels |-> 0, nodes |-> <<>>,
     tree |-> {}, original |-> {}, anchor |-> 0, fields |-> {}]

-----------------------------------------------------------------------------
(* The page *)

PageFree == page = Idle /\ phase = "closed"
Budget == edits < MaxEdits /\ edits' = edits + 1
ListedOnly == UNCHANGED <<db, phase, form, loads, queue, sessions>>

\* The optimistic order: what was dragged goes behind the rest.
Drag(i, j) ==
    LET moved == InsertAt(RemoveAt(TopLevel, i), j, TopLevel[i])
        Rest(f) == f \notin Range(moved)
    IN /\ PageFree /\ i # j /\ Budget
       /\ list' = [list EXCEPT !.order = SelectSeq(@, Rest) \o moved]
       /\ page' = [op |-> "reorder", ids |-> moved]
       /\ ListedOnly

DeleteListed(f) ==
    /\ PageFree /\ f \in Range(list.order) /\ Budget
    /\ page' = [op |-> "delete", ids |-> <<f>>]
    /\ UNCHANGED list /\ ListedOnly

Reload ==
    /\ PageFree /\ list # ListOf(db)
    /\ page' = [op |-> "load", ids |-> <<>>]
    /\ UNCHANGED <<list, edits>> /\ ListedOnly

PageEffect ==
    IF page.op = "reorder" THEN ReorderFields(db, page.ids) ELSE RemoveField(db, page.ids[1])

\* After an error nothing is loaded, and a dragged row stays where it was put.
PageServe ==
    /\ page.op \in {"reorder", "delete"}
    /\ db' = IF PageEffect.ok THEN PageEffect ELSE db
    /\ \/ PageEffect.ok /\ page' = [op |-> "load", ids |-> <<>>]
       \/ page' = Idle
    /\ UNCHANGED <<list, phase, form, loads, queue, edits, sessions>>

PageLost ==
    /\ page # Idle /\ page' = Idle
    /\ UNCHANGED <<list, edits>> /\ ListedOnly

Listed ==
    /\ page.op = "load" /\ page' = Idle
    /\ list' = ListOf(db)
    /\ UNCHANGED edits /\ ListedOnly

-----------------------------------------------------------------------------
(* Opening the form *)

Opens ==
    /\ phase = "closed" /\ sessions < MaxSessions
    /\ Patient => page = Idle
    /\ Reloads => list = ListOf(db)
    /\ phase' = "open" /\ sessions' = sessions + 1
    /\ UNCHANGED <<db, list, page, queue, edits>>

\* The first two inputs are filled in at once; the list counts for the place.
OpenCreate ==
    /\ Opens /\ UNCHANGED loads
    /\ \E n \in FieldName \cup {Blank}, k \in Kinds :
          form' = [EmptyForm EXCEPT !.name = n, !.kind = k,
                                    !.sort = Len(list.order),
                                    !.fields = {f \in DOMAIN db.field : Live(db, f)}]

\* From the row of the list; the rest follows when it has been fetched.
OpenEdit(f) ==
    LET r == list.rows[f]
    IN /\ Opens /\ f \in Range(list.order)
       /\ form' = [EmptyForm EXCEPT !.id = f, !.loaded = FALSE, !.name = r.name, !.kind = r.kind,
                                    !.sort = r.sort, !.hierarchy = r.hierarchy, !.anchor = r.anchor,
                                    !.tree = r.tree, !.original = r.tree,
                                    !.fields = {g \in DOMAIN db.field : Live(db, g)}]
       /\ loads' = loads \cup {f}

LocalOptions(f) ==
    LET ids == SetToSortSeq(FieldOptions(db, f), <)
    IN [k \in DOMAIN ids |-> [id |-> ids[k], name |-> db.option[ids[k]].name]]

LocalRow(g, leaf) ==
    [id |-> g, name |-> db.field[g].name, kind |-> db.field[g].kind, options |-> LocalOptions(g),
     hierarchy |-> db.field[g].hierarchy, op |-> leaf.op, value |-> leaf.value]

NoLeaf == [op |-> [kind |-> "TEXT", is |-> "IS_EMPTY"], value |-> NoValue]
LocalSubfields(f) ==
    LET ids == BySort(db, Subfields(db, f)) IN [k \in DOMAIN ids |-> LocalRow(ids[k], NoLeaf)]
LocalChildren(f) ==
    LET ids == BySort(db, AnchoredChildren(db, f))
    IN [k \in DOMAIN ids |->
            LocalRow(ids[k], CHOOSE leaf \in db.field[ids[k]].tree : TRUE)]

\* getFieldById answers, for the form that is open by then; an error is not
\* handled, and the form stays empty.
Load(f) ==
    /\ f \in loads /\ loads' = loads \ {f}
    /\ \/ /\ phase # "closed" /\ Readable(db, f)
          /\ form' = [form EXCEPT !.loaded = TRUE, !.options = LocalOptions(f),
                                  !.subs = LocalSubfields(f), !.children = LocalChildren(f)]
       \/ UNCHANGED form
    /\ UNCHANGED <<db, list, page, phase, queue, edits, sessions>>

\* What a closed form holds is reset by the next opening.
Close ==
    /\ phase \in {"open", "failed"}
    /\ Patient => loads = {}
    /\ phase' = "closed" /\ form' = EmptyForm
    /\ UNCHANGED <<db, list, page, loads, queue, edits, sessions>>

-----------------------------------------------------------------------------
(* Editing *)

Edit(new) ==
    /\ phase = "open" \/ (phase = "failed" /\ ~GivesUp)
    /\ Patient => form.loaded
    /\ Budget
    /\ form' = new /\ new # form
    /\ UNCHANGED <<db, list, page, phase, loads, queue, sessions>>

Rename == \E n \in FieldName : Edit([form EXCEPT !.name = n])

\* Everything but the conditions and the children starts again.
ChangeType ==
    /\ form.id = 0
    /\ \E k \in Kinds :
          Edit([form EXCEPT !.kind = k, !.options = <<>>, !.subs = <<>>, !.gone = <<>>,
                            !.hierarchy = 0, !.mode = "existing", !.hname = Blank,
                            !.levels = 0, !.nodes = <<>>])

\* What to delete after the save, by the order in which that happens: nothing,
\* when what the author removes was never stored.
Gone(id, rank, f, o) ==
    IF id = 0 THEN form.gone ELSE Append(form.gone, [rank |-> rank, field |-> f, option |-> o])
RowRank(w) == IF w = "subs" THEN 2 ELSE 4
OptionRank(w) == RowRank(w) + 1

\* Conditions on a field of a kind with some options, half-made ones included.
Conditions(kind, values) ==
    [op : {[kind |-> kind, is |-> "IS_EMPTY"]}, value : {NoValue}]
    \cup [op : {[kind |-> kind, is |-> "EQUALS"]},
          value : {NoValue} \cup (IF kind = "SELECT" THEN values ELSE {[t |-> "text", n |-> 0]})]

ValueOf(o) == [t |-> "value", n |-> o]
OwnValues ==
    {IF form.options[k].id # 0 THEN ValueOf(form.options[k].id) ELSE [t |-> "new", n |-> k] :
        k \in DOMAIN form.options}

NamedByCondition(o) ==
    \/ \E f \in DOMAIN db.field : \E leaf \in db.field[f].tree : leaf.value = ValueOf(o)
    \/ \E c \in form.tree \cup Range(form.children) : c.value = ValueOf(o)

AddOption ==
    /\ form.kind = "SELECT" /\ Len(form.options) < MaxRows
    /\ \E n \in OptionName \cup {Blank} : Edit([form EXCEPT !.options = Append(@, [id |-> 0, name |-> n])])
RenameOption(k) ==
    form.kind = "SELECT" /\ \E n \in OptionName : Edit([form EXCEPT !.options[k].name = n])
RemoveOption(k) ==
    LET o == form.options[k].id
    IN /\ form.kind = "SELECT"
       /\ Edit([form EXCEPT !.options = RemoveAt(@, k),
                            !.gone = Gone(o, 1, form.id, o)])

\* Columns belong to a repeater, children to anything else.
Shows(w) == (w = "subs") = (form.kind = "REPEATER")

\* Its name, type and operator are filled in at once.
AddRow(w) ==
    /\ Shows(w) /\ Len(form[w]) < MaxRows
    /\ \E n \in FieldName, k \in {"TEXT", "SELECT"}, c \in Conditions(form.kind, {}) :
          /\ c.value = NoValue
          /\ w = "subs" => c.op.is = "IS_EMPTY"
          /\ Edit([form EXCEPT ![w] = Append(@, [id |-> 0, name |-> n, kind |-> k, options |-> <<>>,
                                                 hierarchy |-> 0, op |-> c.op, value |-> c.value])])
RenameRow(w, i) == Shows(w) /\ \E n \in FieldName : Edit([form EXCEPT ![w][i].name = n])
RemoveRow(w, i) ==
    LET f == form[w][i].id
    IN Shows(w) /\ Edit([form EXCEPT ![w] = RemoveAt(@, i), !.gone = Gone(f, RowRank(w), f, 0)])
ChangeRowType(w, i) ==
    /\ Shows(w) /\ form[w][i].id = 0
    /\ \E k \in Kinds \ {"REPEATER"} :
          Edit([form EXCEPT ![w][i].kind = k, ![w][i].options = <<>>, ![w][i].hierarchy = 0])
PickRowHierarchy(w, i) ==
    /\ Shows(w) /\ form[w][i].kind = "HIERARCHY"
    /\ \E h \in DOMAIN Start.hierarchy : Edit([form EXCEPT ![w][i].hierarchy = h])
AddRowOption(w, i) ==
    /\ Shows(w) /\ form[w][i].kind = "SELECT" /\ Len(form[w][i].options) < MaxRows
    /\ \E n \in OptionName : Edit([form EXCEPT ![w][i].options = Append(@, [id |-> 0, name |-> n])])
RemoveRowOption(w, i, k) ==
    LET o == form[w][i].options[k].id
    IN /\ Shows(w)
       /\ Edit([form EXCEPT ![w][i].options = RemoveAt(@, k),
                            !.gone = Gone(o, OptionRank(w), form[w][i].id, o)])
MoveSubfield(i, j) ==
    Shows("subs") /\ Edit([form EXCEPT !.subs = InsertAt(RemoveAt(@, i), j, form.subs[i])])

\* Another operator clears the value; a value is one of those offered for it.
SetTrigger(i) ==
    /\ Shows("children")
    /\ \E c \in Conditions(form.kind, OwnValues) :
          Edit([form EXCEPT !.children[i].op = c.op, !.children[i].value = c.value])

\* Its name and levels are filled in at once.
NewHierarchy ==
    /\ form.kind = "HIERARCHY"
    /\ \E n \in HierarchyName, k \in 1 .. MaxRows :
          Edit([form EXCEPT !.mode = "new", !.hname = n, !.levels = k])
ExistingHierarchy ==
    /\ form.kind = "HIERARCHY"
    /\ \E h \in DOMAIN Start.hierarchy : Edit([form EXCEPT !.mode = "existing", !.hierarchy = h])
AddLevel == form.mode = "new" /\ form.levels < MaxRows /\ Edit([form EXCEPT !.levels = @ + 1])
RemoveLevel == form.mode = "new" /\ form.levels > 0 /\ Edit([form EXCEPT !.levels = @ - 1])

\* A value comes after the one above it, up = 0 at the top.
Depth(nodes, k) ==
    LET depth[n \in DOMAIN nodes] == IF nodes[n].up = 0 THEN 0 ELSE depth[nodes[n].up] + 1
    IN depth[k]
AddNode ==
    /\ form.mode = "new" /\ form.levels > 0 /\ Len(form.nodes) < MaxRows
    /\ \E n \in NodeName, up \in {0} \cup DOMAIN form.nodes :
          /\ up # 0 => Depth(form.nodes, up) + 1 < form.levels
          /\ Edit([form EXCEPT !.nodes = Append(@, [name |-> n, up |-> up])])
\* With everything below it.
RemoveNode(k) ==
    LET nodes == form.nodes
        under[j \in DOMAIN nodes] == j = k \/ (nodes[j].up # 0 /\ under[nodes[j].up])
        kept == SetToSortSeq({j \in DOMAIN nodes : ~under[j]}, <)
        Place(j) == Cardinality({h \in Range(kept) : h <= j})
    IN /\ form.mode = "new"
       /\ Edit([form EXCEPT !.nodes =
                   [n \in DOMAIN kept |-> [nodes[kept[n]] EXCEPT !.up = Place(@)]]])

\* An anchor the tree no longer names is let go.
WithTree(tree) ==
    [form EXCEPT !.tree = tree, !.anchor = IF @ \in Referenced(tree) THEN @ ELSE 0]
AddCondition ==
    /\ Cardinality(form.tree) < MaxRows
    /\ \E f \in form.fields \ {form.id} :
          \E c \in Conditions(db.field[f].kind, {ValueOf(o) : o \in FieldOptions(db, f)}) :
             Edit(WithTree(form.tree \cup {[field |-> f, op |-> c.op, value |-> c.value]}))
RemoveCondition == \E leaf \in form.tree : Edit(WithTree(form.tree \ {leaf}))
SetAnchor ==
    \E f \in {0} \cup (Referenced(form.tree) \cap {g \in DOMAIN list.rows : list.rows[g].live}) :
        Edit([form EXCEPT !.anchor = f])

-----------------------------------------------------------------------------
(* Saving *)

Filled(c) == c.op.is = "EQUALS" => c.value # NoValue
RowFilled(r) ==
    /\ r.name # Blank
    /\ r.kind = "SELECT" => r.options # <<>>
    /\ r.kind = "HIERARCHY" => r.hierarchy # 0

ValidateBeforeSubmit ==
    /\ form.name # Blank
    /\ form.kind = "SELECT" => form.options # <<>>
    /\ form.kind = "HIERARCHY" =>
          IF form.mode = "new" THEN form.hname # Blank /\ form.levels > 0 /\ form.nodes # <<>>
          ELSE form.hierarchy # 0
    /\ form.kind = "REPEATER" => form.subs # <<>>
    /\ \A s \in Range(form.subs) : RowFilled(s)
    /\ \A c \in Range(form.children) : RowFilled(c) /\ Filled(c)
    /\ \A leaf \in form.tree : Filled(leaf)

Payload ==
    LET new == form.kind = "HIERARCHY" /\ form.mode = "new"
    IN [name |-> form.name, kind |-> form.kind, sort |-> form.sort, anchor |-> form.anchor,
        hierarchy |-> IF form.kind = "HIERARCHY" THEN form.hierarchy ELSE 0,
        newHierarchy |-> new,
        made |-> [name |-> form.hname, levels |-> form.levels, nodes |-> form.nodes],
        options |-> IF form.kind = "SELECT" THEN form.options ELSE <<>>,
        sendTree |-> form.tree # form.original, tree |-> form.tree,
        subs |-> IF form.kind = "REPEATER" THEN form.subs ELSE <<>>,
        children |-> IF form.kind # "REPEATER" THEN form.children ELSE <<>>]

Deletions ==
    LET OfRank(rank) == LET Ranked(g) == g.rank = rank IN SelectSeq(form.gone, Ranked)
    IN IF form.id = 0 THEN <<>>
       ELSE OfRank(1) \o OfRank(2) \o OfRank(3) \o OfRank(4) \o OfRank(5)

RequestsMutant == Deletions \o <<[rank |-> 0, field |-> form.id, option |-> 0]>>
Requests == <<[rank |-> 0, field |-> form.id, option |-> 0]>> \o Deletions

Save ==
    /\ phase = "open" \/ (phase = "failed" /\ ~GivesUp)
    /\ Patient => form.loaded
    /\ Careful => \A g \in Range(form.gone) : g.option # 0 => ~NamedByCondition(g.option)
    /\ ValidateBeforeSubmit
    /\ phase' = "saving" /\ queue' = Requests
    /\ UNCHANGED <<db, list, page, form, loads, edits, sessions>>

\* What a request makes of the database; ok is FALSE when it is refused.
Served(q) ==
    CASE q.rank = 0 -> IF IsCompositeRequest(Payload) THEN SaveBundle(db, q.field, Payload)
                       ELSE Throw(db)
      [] q.rank # 0 /\ q.option = 0 -> RemoveField(db, q.field)
      [] q.rank # 0 /\ q.option # 0 -> RemoveFieldOption(db, q.field, q.option)

\* The bundle was for the form's field, or for the one it created.
Subject == IF form.id = 0 THEN Len(db.field) + 1 ELSE form.id

\* A bundle is read back after it was committed, and that may fail.
Replies(q, d) == d.ok /\ (q.rank = 0 => Readable(d, Subject))

Answered ==
    /\ queue' = Tail(queue)
    /\ IF Len(queue) = 1
       THEN phase' = "closed" /\ form' = EmptyForm /\ page' = [op |-> "load", ids |-> <<>>]
       ELSE UNCHANGED <<phase, form, page>>
Fails == phase' = "failed" /\ queue' = <<>> /\ UNCHANGED <<form, page>>

Serve ==
    /\ phase = "saving"
    /\ LET d == Served(Head(queue))
       IN /\ db' = IF d.ok THEN d ELSE db
          /\ (Replies(Head(queue), d) /\ Answered) \/ Fails
    /\ UNCHANGED <<list, loads, edits, sessions>>

RequestLost ==
    /\ phase = "saving" /\ Fails
    /\ UNCHANGED <<db, list, loads, edits, sessions>>

\* Another admin's list has what is not a column.
PeerRemovesField(f) ==
    /\ Live(db, f) /\ db.field[f].parent = 0
    /\ Cardinality({g \in DOMAIN db.field : ~Live(db, g)}) < MaxRemoved
    /\ db' = RemoveField(db, f)
    /\ UNCHANGED <<list, page, phase, form, loads, queue, edits, sessions>>

Init ==
    /\ db = Start /\ list = ListOf(Start) /\ page = Idle
    /\ phase = "closed" /\ form = EmptyForm /\ loads = {} /\ queue = <<>>
    /\ edits = 0 /\ sessions = 0

Next ==
    \/ \E i, j \in DOMAIN list.order : {i, j} \subseteq DOMAIN TopLevel /\ Drag(i, j)
    \/ \E f \in DOMAIN list.rows : DeleteListed(f) \/ OpenEdit(f)
    \/ Reload \/ PageServe \/ PageLost \/ Listed \/ OpenCreate \/ Close
    \/ \E f \in loads : Load(f)
    \/ Rename \/ ChangeType \/ AddOption
    \/ \E k \in DOMAIN form.options : RenameOption(k) \/ RemoveOption(k)
    \/ \E w \in Lists : \/ AddRow(w)
                        \/ \E i \in DOMAIN form[w] :
                              \/ RenameRow(w, i) \/ RemoveRow(w, i) \/ ChangeRowType(w, i)
                              \/ PickRowHierarchy(w, i) \/ AddRowOption(w, i)
                              \/ \E k \in DOMAIN form[w][i].options : RemoveRowOption(w, i, k)
    \/ \E i, j \in DOMAIN form.subs : MoveSubfield(i, j)
    \/ \E i \in DOMAIN form.children : SetTrigger(i)
    \/ NewHierarchy \/ ExistingHierarchy \/ AddLevel \/ RemoveLevel \/ AddNode
    \/ \E k \in DOMAIN form.nodes : RemoveNode(k)
    \/ AddCondition \/ RemoveCondition \/ SetAnchor
    \/ Save \/ Serve \/ RequestLost
    \/ \E f \in DOMAIN db.field : PeerRemovesField(f)

Spec == Init /\ [][Next]_vars

-----------------------------------------------------------------------------
(* Properties *)

RowStored(d, r, g) ==
    /\ d.field[g].name = r.name /\ d.field[g].kind = r.kind
    /\ r.kind = "SELECT" =>
         {d.option[o].name : o \in FieldOptions(d, g)} = {o.name : o \in Range(r.options)}
    /\ r.kind = "HIERARCHY" => d.field[g].hierarchy = r.hierarchy

\* The condition of child g is the one its row shows, of the options shown.
TriggerStored(d, c, g) ==
    \A leaf \in d.field[g].tree :
        /\ leaf.field = d.field[g].anchor /\ leaf.op = c.op
        /\ IF c.value.t = "new"
           THEN /\ leaf.value.n \in FieldOptions(d, leaf.field)
                /\ d.option[leaf.value.n].name = form.options[c.value.n].name
           ELSE leaf.value = c.value

SubfieldsStored(d, f) ==
    LET ids == BySort(d, {g \in Subfields(d, f) : Live(d, g)})
    IN /\ Len(ids) = Len(form.subs)
       /\ \A k \in DOMAIN ids : RowStored(d, form.subs[k], ids[k])

\* A child deleted from a list during the save is stored but not live.
ChildrenStored(d, f) ==
    LET Is(g, k) == /\ d.field[g].sort = k
                    /\ RowStored(d, form.children[k], g) /\ TriggerStored(d, form.children[k], g)
        anchored == AnchoredChildren(d, f)
    IN /\ \A k \in DOMAIN form.children : \E g \in anchored : Is(g, k)
       /\ \A g \in anchored : Live(d, g) => \E k \in DOMAIN form.children : Is(g, k)

HierarchyStored(d, f) ==
    LET h == d.field[f].hierarchy
    IN IF form.mode = "existing" THEN h = form.hierarchy
       ELSE d.hierarchy[h] = [name |-> form.hname, levels |-> form.levels, nodes |-> form.nodes]

Stored(d, f) ==
    /\ d.field[f].tree = form.tree /\ d.field[f].anchor = form.anchor
    /\ d.field[f].kind # "HIERARCHY" => RowStored(d, form, f)
    /\ d.field[f].kind = "HIERARCHY" => d.field[f].name = form.name /\ HierarchyStored(d, f)
    /\ IF form.kind = "REPEATER" THEN SubfieldsStored(d, f) ELSE ChildrenStored(d, f)

Reports == phase = "saving" /\ phase' = "closed"

\* What a form that reports success showed is what is stored: the field, its
\* options, columns in their order, children with the option that triggers
\* each, hierarchy, conditions and anchor (handleSubmit, one bundle with its
\* deletions after it).
SavedIsShown == [][Reports /\ db'.field[Subject].live => Stored(db', Subject)]_vars

\* A condition is one its field can meet: an operator of the field's kind, and
\* an option that exists, though the author may have picked it by its place
\* before it had a value (resolveTriggerValue).
ConditionsFit ==
    \A f \in DOMAIN db.field : Live(db, f) =>
        \A leaf \in db.field[f].tree :
            /\ leaf.op.kind = db.field[leaf.field].kind
            /\ (leaf.op.kind = "SELECT" /\ leaf.op.is = "EQUALS") =>
                 leaf.value.t = "value" /\ leaf.value.n \in FieldOptions(db, leaf.field)

\* No request of a save, lost or served, leaves a question that cannot be
\* answered: a choice without options, a repeater without columns, a place in
\* no hierarchy (the deletions come after what replaces them).
ChoicesRemain ==
    \A f \in DOMAIN db.field : Live(db, f) =>
        LET kind == db.field[f].kind
        IN /\ kind = "SELECT" => FieldOptions(db, f) # {}
           /\ kind = "REPEATER" => \E g \in Subfields(db, f) : Live(db, g)
           /\ kind = "HIERARCHY" => db.field[f].hierarchy # 0

\* A field that is not deleted can be opened and saved again: a deleted one "simply
\* disappears" (field.service.ts:712-713).
EditableAgain == \A f \in DOMAIN db.field : Live(db, f) => Readable(db, f)
=============================================================================
