----------------------------- MODULE FieldCatalog -----------------------------
(***************************************************************************)
(* The field catalog of services/field.service.ts: classification, anchors, *)
(* names and show/hide trees, as composite saves, removals and the tree     *)
(* routes of fieldRuleGroup.service.ts change them.                         *)
(*                                                                         *)
(* A save is one transaction at READ COMMITTED: it reads what is committed  *)
(* overlaid with its own writes, and commits them at once.  The reads of    *)
(* one helper are one step, except the walk up the anchors; other requests  *)
(* run between any two steps.  Row locks only delay a write, which nobody   *)
(* sees before the commit anyway, and are left out.                         *)
(*                                                                         *)
(* An action's guard is the case in which the code goes on.  A check that   *)
(* throws, a lost connection and a timeout all roll back: Abort.            *)
(*                                                                         *)
(* A show/hide tree is the set of fields its conditions name.  Options,     *)
(* hierarchies, input types, configuration, benefits and sortOrder are left *)
(* out.  Requests are a superadmin's; an agent's are among them.            *)
(***************************************************************************)
EXTENDS Naturals, FiniteSets

CONSTANTS
    Field,        \* ids, in use or not
    Name,         \* names that namesMatch() tells apart
    Request,      \* slots for requests in flight
    Tree,         \* the trees clients submit
    MaxRows,      \* bound: rows one save writes
    MaxRequests,  \* bound: requests in a behaviour
    None          \* null: no anchor, parent, tree or id

ASSUME CatalogAssumption ==
    /\ None \notin Field /\ None \notin Name
    /\ Tree \subseteq SUBSET Field /\ \A t \in Tree : t # None
    /\ MaxRows \in Nat /\ MaxRequests \in Nat

VARIABLES
    field,      \* DimField
    trees,      \* the root groups of a field's own FctDynamicRuleGroup rows
    req,        \* the requests in flight
    started     \* requests so far, for MaxRequests only

vars == <<field, trees, req, started>>

Classification == {"GLOBAL", "FOLLOW_UP"}
Maybe == Field \cup {None}

FieldRow ==
    [status : {"absent", "live", "deleted"}, class : Classification,
     anchor : Maybe, parent : Maybe, name : Name \cup {None}]

Absent == [status |-> "absent", class |-> "FOLLOW_UP", anchor |-> None,
           parent |-> None, name |-> None]

\* rows, gone and new are what the transaction has written: rows, root groups
\* deleted and root groups created.
RequestState ==
    [pc : {"idle", "resolve", "walk", "save", "tree", "subfields", "children",
           "commit", "remove"},
     op : {"add", "edit", "createTree", "editTree", "remove"},
     id : Maybe, class : Classification, anchor : Maybe,
     tree : {None} \cup SUBSET Field, current : Maybe, seen : SUBSET Field,
     rows : [Field -> FieldRow],
     gone : [Field -> SUBSET SUBSET Field], new : [Field -> SUBSET SUBSET Field]]

NoRoots == [f \in Field |-> {}]

Idle == [pc |-> "idle", op |-> "add", id |-> None, class |-> "FOLLOW_UP",
         anchor |-> None, tree |-> None, current |-> None, seen |-> {},
         rows |-> [f \in Field |-> Absent], gone |-> NoRoots, new |-> NoRoots]

TypeOK ==
    /\ field \in [Field -> FieldRow]
    /\ trees \in [Field -> SUBSET SUBSET Field]
    /\ req \in [Request -> RequestState]
    /\ started \in Nat

\* Fields as seeded: no anchors and no trees, different names, repeaters with
\* their subfields.
SeededRow ==
    {row \in FieldRow : row.status = "live" /\ row.name # None /\ row.anchor = None}

Init ==
    /\ field \in [Field -> {Absent} \cup SeededRow]
    /\ \A f, g \in Field : field[f].name = field[g].name => f = g \/ field[f] = Absent
    /\ \A f, g \in Field : field[f].parent = g =>
         /\ field[g].status = "live" /\ field[g].parent = None
         /\ field[g].class = field[f].class
    /\ trees = NoRoots
    /\ req = [r \in Request |-> Idle]
    /\ started = 0

-----------------------------------------------------------------------------
\* What the transaction of r reads: its own writes first.  It never writes
\* deletedAt.
Row(r, f) ==
    IF req[r].rows[f] = Absent THEN field[f]
    ELSE [req[r].rows[f] EXCEPT
            !.status = IF field[f].status = "absent" THEN "live" ELSE field[f].status]

Roots(r, f) == (trees[f] \ req[r].gone[f]) \cup req[r].new[f]

Exists(r, f) == Row(r, f).status # "absent"

Fresh == {f \in Field : field[f] = Absent /\ \A q \in Request : req[q].rows[f] = Absent}

Written(r) == {f \in Field : req[r].rows[f] # Absent}

\* findFieldByName: live fields other than the one being saved.
\* Mutation: the query runs outside the transaction.
NameTakenMutant(r, n, self) ==
    \E f \in Field \ {self} : field[f].status = "live" /\ field[f].name = n

NameTaken(r, n, self) ==
    \E f \in Field \ {self} : Row(r, f).status = "live" /\ Row(r, f).name = n

\* createFieldRecordWith and updateFieldRecordWith: a free name, a parent that
\* exists, and for a row that becomes a subfield no tree.
\* Mutation: without assertNoDynamicRuleGroupForSubfield.
SavableMutant(r, f, n, p) == ~NameTaken(r, n, f) /\ (p # None => Exists(r, p))

Savable(r, f, n, p) ==
    /\ ~NameTaken(r, n, f)
    /\ p # None => Exists(r, p) /\ (Exists(r, f) => Roots(r, f) = {})

\* assertFieldCanHaveDynamicRuleGroup, assertDependencyClassificationAllowed
TreeAllowed(r, f, t) ==
    /\ Exists(r, f) /\ Row(r, f).parent = None
    /\ \A g \in t : Exists(r, g) /\ (Row(r, f).class = "GLOBAL" => Row(r, g).class = "GLOBAL")

\* The record of a request after it wrote a row or a tree.
WithRow(s, f, class, anchor, parent, name) ==
    [s EXCEPT !.rows[f] = [status |-> "live", class |-> class, anchor |-> anchor,
                           parent |-> parent, name |-> name]]

WithTree(s, f, t, replace) ==
    [s EXCEPT !.gone[f] = IF replace THEN @ \cup trees[f] ELSE @,
              !.new[f]  = IF replace THEN {t} ELSE @ \cup {t}]

Set(r, s) == req' = [req EXCEPT ![r] = s] /\ UNCHANGED <<field, trees, started>>

Start(r, s) ==
    /\ req[r].pc = "idle" /\ started < MaxRequests
    /\ req' = [req EXCEPT ![r] = s] /\ started' = started + 1
    /\ UNCHANGED <<field, trees>>

-----------------------------------------------------------------------------
\* The middleware admits only FOLLOW_UP fields here.
StartAdd(r) ==
    \E a \in Maybe, t \in Tree \cup {None} :
        Start(r, [Idle EXCEPT !.pc = "resolve", !.anchor = a, !.tree = t])

\* The middleware reads the classification and demands that the body repeats it.
StartEdit(r) ==
    \E f \in Field, a \in Maybe, t \in Tree \cup {None} :
        /\ field[f].status # "absent"
        /\ Start(r, [Idle EXCEPT !.pc = "resolve", !.op = "edit", !.id = f,
                       !.class = field[f].class, !.anchor = a, !.tree = t])

\* The tree routes, which know nothing of anchors.
StartTree(r) ==
    \E f \in Field, t \in Tree, op \in {"createTree", "editTree"} :
        Start(r, [Idle EXCEPT !.pc = "tree", !.op = op, !.id = f, !.tree = t])

\* removeField: the check is outside the transaction.
StartRemove(r) ==
    \E f \in Field :
        /\ field[f].status = "live"
        /\ Start(r, [Idle EXCEPT !.pc = "remove", !.op = "remove", !.id = f])

\* The anchor a save found in place; null for a new field.
Prior(r) == IF req[r].op = "edit" THEN field[req[r].id].anchor ELSE None

\* The trees resolveAnchor may consult: the submitted one, or any one root of the
\* field's own (their order is unspecified), or none at all.
Consulted(r) ==
    CASE req[r].tree # None -> {req[r].tree}
      [] req[r].tree = None /\ req[r].op = "edit" /\ trees[req[r].id] # {} -> trees[req[r].id]
      [] OTHER -> {{}}

\* Mutation: only a field's first anchor is checked for a cycle.
MustWalkMutant(r) == req[r].op = "edit" /\ Prior(r) = None

\* resolveAnchor checks for a cycle when the anchor of an existing field changes.
MustWalk(r) == req[r].op = "edit" /\ req[r].anchor # Prior(r)

\* Mutation: an anchor that did not change is kept as it is.
DetachedMutant(r) == [req[r] EXCEPT !.pc = "save"]

\* An anchor that is carried over, and that the tree no longer names, is dropped.
Detached(r) == [req[r] EXCEPT !.pc = "save", !.anchor = None]

\* resolveAnchor
Resolve(r) ==
    LET a == req[r].anchor
        Stale == ~Exists(r, a) \/ \E t \in Consulted(r) : a \notin t
    IN  /\ req[r].pc = "resolve"
        /\ a = None \/ a # req[r].id
        /\ a # None => ~Exists(r, a) \/ field[a].class # "GLOBAL" \/ req[r].class = "GLOBAL"
        /\ \/ a = None /\ Set(r, [req[r] EXCEPT !.pc = "save"])
           \/ a # None /\ Stale /\ a = Prior(r) /\ Set(r, Detached(r))
           \/ /\ a # None /\ Exists(r, a) /\ \E t \in Consulted(r) : a \in t
              /\ Set(r, [req[r] EXCEPT !.class = field[a].class, !.current = a,
                           !.pc = IF MustWalk(r) THEN "walk" ELSE "save"])

\* assertNoAnchorCycle, one read
Walk(r) ==
    LET c == req[r].current
    IN  /\ req[r].pc = "walk" /\ c # req[r].id
        /\ \/ /\ c = None \/ c \in req[r].seen
              /\ Set(r, [req[r] EXCEPT !.pc = "save"])
           \/ /\ c # None /\ c \notin req[r].seen
              /\ Set(r, [req[r] EXCEPT !.seen = @ \cup {c}, !.current = field[c].anchor])

\* createFieldRecordWith, updateFieldRecordWith for the field itself
AfterSave(r) == IF req[r].tree # None THEN "tree" ELSE "subfields"

Save(r) ==
    /\ req[r].pc = "save"
    /\ \E f \in IF req[r].op = "add" THEN Fresh ELSE {req[r].id}, n \in Name, p \in Maybe :
          /\ Savable(r, f, n, p)
          /\ Set(r, [WithRow(req[r], f, req[r].class, req[r].anchor, p, n) EXCEPT
                       !.id = f, !.pc = AfterSave(r)])

\* createDynamicRuleGroupTreeWith, editDynamicRuleGroupTreeWith
PutTree(r) ==
    LET s == req[r]
    IN  /\ s.pc = "tree"
        /\ TreeAllowed(r, s.id, s.tree)
        /\ Set(r, [WithTree(s, s.id, s.tree, s.op \in {"edit", "editTree"}) EXCEPT
                     !.pc = IF s.op \in {"add", "edit"} THEN "subfields" ELSE "commit"])

\* createOrUpdateSubfieldsWith, one subfield
Subfield(r) ==
    LET s == req[r]
    IN  /\ s.pc = "subfields" /\ Cardinality(Written(r)) < MaxRows
        /\ \E f \in Field, n \in Name :
              /\ f \in Fresh \/ (Exists(r, f) /\ Row(r, f).parent = s.id)
              /\ Savable(r, f, n, s.id)
              /\ Set(r, WithRow(s, f, s.class, None, s.id, n))

\* createOrUpdateAnchoredChildrenWith, one child with its tree
Child(r) ==
    LET s == req[r]
    IN  /\ s.pc = "children" /\ Cardinality(Written(r)) < MaxRows
        /\ \E f \in Field, n \in Name :
              /\ f \in Fresh \/ (Exists(r, f) /\ Row(r, f).anchor = s.id)
              /\ Savable(r, f, n, None)
              /\ Set(r, WithTree(WithRow(s, f, s.class, s.id, None, n),
                                 f, {s.id}, f \notin Fresh))

\* The end of one list of the composite.
NextPart(r) ==
    \/ req[r].pc = "subfields" /\ Set(r, [req[r] EXCEPT !.pc = "children"])
    \/ req[r].pc = "children"  /\ Set(r, [req[r] EXCEPT !.pc = "commit"])

Commit(r) ==
    /\ req[r].pc = "commit"
    /\ field' = [f \in Field |-> Row(r, f)]
    /\ trees' = [f \in Field |-> Roots(r, f)]
    /\ req' = [req EXCEPT ![r] = Idle]
    /\ UNCHANGED started

Remove(r) ==
    /\ req[r].pc = "remove"
    /\ field' = [field EXCEPT ![req[r].id].status = "deleted"]
    /\ req' = [req EXCEPT ![r] = Idle]
    /\ UNCHANGED <<trees, started>>

Abort(r) == req[r].pc # "idle" /\ Set(r, Idle)

Next ==
    \E r \in Request :
        \/ StartAdd(r) \/ StartEdit(r) \/ StartTree(r) \/ StartRemove(r)
        \/ Resolve(r) \/ Walk(r) \/ Save(r) \/ PutTree(r) \/ Subfield(r) \/ Child(r)
        \/ NextPart(r) \/ Commit(r) \/ Remove(r) \/ Abort(r)

Spec == Init /\ [][Next]_vars

-----------------------------------------------------------------------------
\* Every chain of anchors ends: no set of fields is anchored within itself
\* (assertNoAnchorCycle is the only limit on anchors; the form and the list of
\* fields follow the chains).
AnchorsAcyclic ==
    \A S \in SUBSET Field : S # {} => \E f \in S : field[f].anchor \notin S

\* No two live fields have one name, through adds, renames, subfields, anchored
\* children and names that a removal frees (findFieldByName).
NamesUnique ==
    \A f, g \in Field :
        field[f].status = "live" /\ field[g].status = "live" /\ field[f].name = field[g].name
        => f = g

\* A repeater subfield has neither a show/hide tree nor an anchor.  Two checks on
\* either side keep it: assertNoDynamicRuleGroupForSubfield when a field becomes
\* a subfield, assertFieldCanHaveDynamicRuleGroup when it gets a tree.
SubfieldsStandAlone ==
    \A f \in Field : field[f].parent # None => trees[f] = {} /\ field[f].anchor = None

\* After a save, every field it wrote depends on its anchor: a tree of its own
\* names it (resolveAnchor; "removing that dependency from the tree resets this").
SavedAnchorsAreDependencies ==
    [][\A r \in Request :
         (/\ req[r].pc = "commit" /\ req'[r].pc = "idle"
          /\ field' = [f \in Field |-> Row(r, f)] /\ trees' = [f \in Field |-> Roots(r, f)])
         => \A f \in Written(r) :
              field'[f].anchor # None => \E t \in trees'[f] : field'[f].anchor \in t]_vars

\* "a GLOBAL field's visibility can only depend on another GLOBAL field's answer"
\* (fieldRuleGroup.service.ts, assertDependencyClassificationAllowed).
GlobalsReadGlobals ==
    \A f \in Field : field[f].class = "GLOBAL" =>
        \A t \in trees[f], g \in Field : g \in t => field[g].class = "GLOBAL"
=============================================================================
