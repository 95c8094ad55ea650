-------------------------- MODULE FieldCatalogProofs --------------------------
(***************************************************************************)
(* Type correctness of the field catalog under any interleaving; and, while  *)
(* requests are handled one at a time, no cycle of anchors, no name twice,   *)
(* no tree or anchor on a subfield, and no save that leaves a field anchored *)
(* to one it does not depend on.                                            *)
(***************************************************************************)
EXTENDS FieldCatalog, TLAPS

-----------------------------------------------------------------------------
\* Part 1.  Types.

\* What a request knows of its inputs at each step.
InputsKnown(s) ==
    /\ s.pc \in {"resolve", "walk", "save"} => s.op \in {"add", "edit"}
    /\ s.pc \in {"resolve", "walk", "save"} /\ s.op = "edit" => s.id \in Field
    /\ s.pc \in {"tree", "subfields", "children", "commit", "remove"} => s.id \in Field
    /\ s.pc = "tree" => s.tree \in SUBSET Field

TypeInv == TypeOK /\ \A r \in Request : InputsKnown(req[r])

LEMMA AbsentTyped == Absent \in FieldRow
BY DEF Absent, FieldRow, Classification, Maybe

LEMMA IdleTyped == Idle \in RequestState /\ InputsKnown(Idle)
BY AbsentTyped DEF Idle, RequestState, Classification, Maybe, NoRoots, InputsKnown

LEMMA WithRowTyped ==
    ASSUME NEW s \in RequestState, NEW f \in Field, NEW class \in Classification,
           NEW anchor \in Maybe, NEW parent \in Maybe, NEW name \in Name
    PROVE  WithRow(s, f, class, anchor, parent, name) \in RequestState
<1> DEFINE row == [status |-> "live", class |-> class, anchor |-> anchor,
                   parent |-> parent, name |-> name]
<1>1. row \in FieldRow
  BY DEF FieldRow
<1>2. [s.rows EXCEPT ![f] = row] \in [Field -> FieldRow]
  BY <1>1 DEF RequestState
<1>3. WithRow(s, f, class, anchor, parent, name) = [s EXCEPT !.rows = [s.rows EXCEPT ![f] = row]]
  BY DEF WithRow
<1>. QED
  BY <1>2, <1>3 DEF RequestState

LEMMA WithTreeTyped ==
    ASSUME NEW s \in RequestState, NEW f \in Field, NEW t \in SUBSET Field,
           NEW replace \in BOOLEAN, trees \in [Field -> SUBSET SUBSET Field]
    PROVE  WithTree(s, f, t, replace) \in RequestState
<1> DEFINE g == [s.gone EXCEPT ![f] = IF replace THEN @ \cup trees[f] ELSE @]
           n == [s.new EXCEPT ![f] = IF replace THEN {t} ELSE @ \cup {t}]
<1>1. g \in [Field -> SUBSET SUBSET Field] /\ n \in [Field -> SUBSET SUBSET Field]
  BY DEF RequestState
<1>2. WithTree(s, f, t, replace) = [s EXCEPT !.gone = g, !.new = n]
  BY DEF WithTree
<1>. QED
  BY <1>1, <1>2 DEF RequestState

LEMMA RowTyped ==
    ASSUME TypeOK, NEW r \in Request, NEW f \in Field
    PROVE  Row(r, f) \in FieldRow
<1>1. req[r].rows[f] \in FieldRow /\ field[f] \in FieldRow
  BY DEF TypeOK, RequestState
<1> DEFINE status == IF field[f].status = "absent" THEN "live" ELSE field[f].status
<1>2. status \in {"absent", "live", "deleted"}
  BY <1>1 DEF FieldRow
<1>3. [req[r].rows[f] EXCEPT !.status = status] \in FieldRow
  BY <1>1, <1>2 DEF FieldRow
<1>. QED
  BY <1>1, <1>3 DEF Row

\* A step of r that writes nothing to the database.
LEMMA SetTyped ==
    ASSUME TypeInv, NEW r \in Request, NEW s \in RequestState, InputsKnown(s),
           req' = [req EXCEPT ![r] = s], UNCHANGED <<field, trees>>, started' \in Nat
    PROVE  TypeInv'
BY DEF TypeInv, TypeOK, InputsKnown

LEMMA StartsTyped ==
    ASSUME TypeInv, NEW r \in Request,
           StartAdd(r) \/ StartEdit(r) \/ StartTree(r) \/ StartRemove(r)
    PROVE  TypeInv'
<1>1. SUFFICES \E s \in RequestState : InputsKnown(s) /\ Start(r, s)
  <2>1. PICK s \in RequestState : InputsKnown(s) /\ Start(r, s)
    BY <1>1
  <2>. QED
    BY <2>1, SetTyped DEF Start, TypeInv, TypeOK
<1>2. CASE StartAdd(r)
  <2>1. PICK a \in Maybe, t \in Tree \cup {None} :
          Start(r, [Idle EXCEPT !.pc = "resolve", !.anchor = a, !.tree = t])
    BY <1>2 DEF StartAdd
  <2>2. t \in {None} \cup SUBSET Field
    BY CatalogAssumption
  <2>. QED
    BY <2>1, <2>2, IdleTyped DEF Idle, RequestState, InputsKnown
<1>3. CASE StartEdit(r)
  <2>1. PICK f \in Field, a \in Maybe, t \in Tree \cup {None} :
          Start(r, [Idle EXCEPT !.pc = "resolve", !.op = "edit", !.id = f,
                      !.class = field[f].class, !.anchor = a, !.tree = t])
    BY <1>3 DEF StartEdit
  <2>2. t \in {None} \cup SUBSET Field
    BY CatalogAssumption
  <2>3. f \in Maybe /\ field[f].class \in Classification
    BY DEF TypeInv, TypeOK, FieldRow, Maybe
  <2>. QED
    BY <2>1, <2>2, <2>3, IdleTyped DEF Idle, RequestState, InputsKnown
<1>4. CASE StartTree(r)
  <2>1. PICK f \in Field, t \in Tree, op \in {"createTree", "editTree"} :
          Start(r, [Idle EXCEPT !.pc = "tree", !.op = op, !.id = f, !.tree = t])
    BY <1>4 DEF StartTree
  <2>2. t \in SUBSET Field /\ f \in Maybe
    BY CatalogAssumption DEF Maybe
  <2>. QED
    BY <2>1, <2>2, IdleTyped DEF Idle, RequestState, InputsKnown
<1>5. CASE StartRemove(r)
  <2>1. PICK f \in Field : Start(r, [Idle EXCEPT !.pc = "remove", !.op = "remove", !.id = f])
    BY <1>5 DEF StartRemove
  <2>2. f \in Maybe
    BY DEF Maybe
  <2>. QED
    BY <2>1, <2>2, IdleTyped DEF Idle, RequestState, InputsKnown
<1>. QED
  BY <1>2, <1>3, <1>4, <1>5

LEMMA ResolveTyped ==
    ASSUME TypeInv, NEW r \in Request, Resolve(r) \/ Walk(r)
    PROVE  TypeInv'
<1>0. req[r] \in RequestState /\ InputsKnown(req[r])
  BY DEF TypeInv, TypeOK
<1>1. SUFFICES \E s \in RequestState : InputsKnown(s) /\ Set(r, s)
  <2>1. PICK s \in RequestState : InputsKnown(s) /\ Set(r, s)
    BY <1>1
  <2>. QED
    BY <2>1, SetTyped DEF Set, TypeInv, TypeOK
<1>2. CASE Resolve(r)
  <2>1. req[r].pc = "resolve"
    BY <1>2 DEF Resolve
  <2>2. CASE Set(r, [req[r] EXCEPT !.pc = "save"])
    BY <2>1, <2>2, <1>0 DEF RequestState, InputsKnown
  <2>3. CASE Set(r, Detached(r))
    BY <2>1, <2>3, <1>0 DEF RequestState, InputsKnown, Detached, Maybe
  <2>4. CASE /\ req[r].anchor # None
             /\ Set(r, [req[r] EXCEPT !.class = field[req[r].anchor].class,
                          !.current = req[r].anchor,
                          !.pc = IF MustWalk(r) THEN "walk" ELSE "save"])
    <3>1. req[r].anchor \in Field
      BY <2>4, <1>0 DEF RequestState, Maybe
    <3>2. field[req[r].anchor].class \in Classification
      BY <3>1 DEF TypeInv, TypeOK, FieldRow
    <3>3. (IF MustWalk(r) THEN "walk" ELSE "save") \in {"walk", "save"}
      OBVIOUS
    <3>. QED
      BY <2>1, <2>4, <3>1, <3>2, <3>3, <1>0 DEF RequestState, InputsKnown, Maybe
  <2>. QED
    BY <1>2, <2>2, <2>3, <2>4 DEF Resolve
<1>3. CASE Walk(r)
  <2>1. req[r].pc = "walk"
    BY <1>3 DEF Walk
  <2>2. CASE Set(r, [req[r] EXCEPT !.pc = "save"])
    BY <2>1, <2>2, <1>0 DEF RequestState, InputsKnown
  <2>3. CASE /\ req[r].current # None
             /\ Set(r, [req[r] EXCEPT !.seen = @ \cup {req[r].current},
                          !.current = field[req[r].current].anchor])
    <3>1. req[r].current \in Field
      BY <2>3, <1>0 DEF RequestState, Maybe
    <3>2. field[req[r].current].anchor \in Maybe
      BY <3>1 DEF TypeInv, TypeOK, FieldRow
    <3>. QED
      BY <2>1, <2>3, <3>1, <3>2, <1>0 DEF RequestState, InputsKnown
  <2>. QED
    BY <1>3, <2>2, <2>3 DEF Walk
<1>. QED
  BY <1>2, <1>3

LEMMA WritesTyped ==
    ASSUME TypeInv, NEW r \in Request,
           Save(r) \/ PutTree(r) \/ Subfield(r) \/ Child(r) \/ NextPart(r) \/ Abort(r)
    PROVE  TypeInv'
<1>0. req[r] \in RequestState /\ InputsKnown(req[r])
  BY DEF TypeInv, TypeOK
<1>1. SUFFICES \E s \in RequestState : InputsKnown(s) /\ Set(r, s)
  <2>1. PICK s \in RequestState : InputsKnown(s) /\ Set(r, s)
    BY <1>1
  <2>. QED
    BY <2>1, SetTyped DEF Set, TypeInv, TypeOK
<1>2. CASE Save(r)
  <2>1. PICK f \in IF req[r].op = "add" THEN Fresh ELSE {req[r].id}, n \in Name, p \in Maybe :
          Set(r, [WithRow(req[r], f, req[r].class, req[r].anchor, p, n) EXCEPT
                    !.id = f, !.pc = AfterSave(r)])
    BY <1>2 DEF Save
  <2> DEFINE w == WithRow(req[r], f, req[r].class, req[r].anchor, p, n)
             s == [w EXCEPT !.id = f, !.pc = AfterSave(r)]
  <2>2. f \in Field
    BY <1>2, <1>0 DEF Save, InputsKnown, Fresh
  <2>3. w \in RequestState /\ w.tree = req[r].tree
    BY <2>2, <1>0, WithRowTyped DEF RequestState, WithRow
  <2>4. \/ AfterSave(r) = "subfields"
        \/ AfterSave(r) = "tree" /\ req[r].tree \in SUBSET Field
    BY <1>0 DEF AfterSave, RequestState
  <2>5. s \in RequestState
    BY <2>2, <2>3, <2>4 DEF RequestState, Maybe
  <2>6. s.pc = AfterSave(r) /\ s.id = f /\ s.tree = req[r].tree
    BY <2>3 DEF RequestState
  <2>7. InputsKnown(s)
    BY <2>2, <2>4, <2>6 DEF InputsKnown
  <2>. QED
    BY <2>1, <2>5, <2>7
<1>3. CASE PutTree(r)
  <2> DEFINE w == WithTree(req[r], req[r].id, req[r].tree, req[r].op \in {"edit", "editTree"})
             pc == IF req[r].op \in {"add", "edit"} THEN "subfields" ELSE "commit"
             s == [w EXCEPT !.pc = pc]
  <2>1. req[r].pc = "tree" /\ Set(r, s)
    BY <1>3 DEF PutTree
  <2>2. w \in RequestState
    <3>1. req[r].id \in Field /\ req[r].tree \in SUBSET Field
      BY <2>1, <1>0 DEF InputsKnown
    <3>2. trees \in [Field -> SUBSET SUBSET Field]
      BY DEF TypeInv, TypeOK
    <3>3. (req[r].op \in {"edit", "editTree"}) \in BOOLEAN
      OBVIOUS
    <3>. QED
      BY <1>0, <3>1, <3>2, <3>3, WithTreeTyped
  <2>5. w.id = req[r].id
    BY <1>0 DEF WithTree, RequestState
  <2>3. pc \in {"subfields", "commit"}
    OBVIOUS
  <2>4. s \in RequestState /\ s.pc = pc /\ s.id = req[r].id
    BY <2>2, <2>3, <2>5 DEF RequestState
  <2>. QED
    BY <2>1, <2>3, <2>4, <1>0 DEF InputsKnown
<1>4. CASE Subfield(r)
  <2>1. PICK f \in Field, n \in Name : Set(r, WithRow(req[r], f, req[r].class, None, req[r].id, n))
    BY <1>4 DEF Subfield
  <2>2. req[r].pc = "subfields"
    BY <1>4 DEF Subfield
  <2> DEFINE s == WithRow(req[r], f, req[r].class, None, req[r].id, n)
  <2>3. s \in RequestState
    BY <1>0, WithRowTyped DEF RequestState, Maybe
  <2>4. s.pc = req[r].pc /\ s.id = req[r].id
    BY <1>0 DEF WithRow, RequestState
  <2>. QED
    BY <2>1, <2>2, <2>3, <2>4, <1>0 DEF InputsKnown
<1>5. CASE Child(r)
  <2>1. PICK f \in Field, n \in Name :
          Set(r, WithTree(WithRow(req[r], f, req[r].class, req[r].id, None, n),
                          f, {req[r].id}, f \notin Fresh))
    BY <1>5 DEF Child
  <2>2. req[r].pc = "children" /\ req[r].id \in Field
    BY <1>5, <1>0 DEF Child, InputsKnown
  <2> DEFINE w == WithRow(req[r], f, req[r].class, req[r].id, None, n)
             s == WithTree(w, f, {req[r].id}, f \notin Fresh)
  <2>3. w \in RequestState /\ w.pc = req[r].pc /\ w.id = req[r].id
    BY <1>0, WithRowTyped DEF RequestState, Maybe, WithRow
  <2>4. s \in RequestState
    BY <2>2, <2>3, WithTreeTyped DEF TypeInv, TypeOK
  <2>5. s.pc = w.pc /\ s.id = w.id
    BY <2>3 DEF WithTree, RequestState
  <2>. QED
    BY <2>1, <2>2, <2>3, <2>4, <2>5 DEF InputsKnown
<1>6. CASE NextPart(r)
  BY <1>6, <1>0 DEF NextPart, RequestState, InputsKnown
<1>7. CASE Abort(r)
  BY <1>7, IdleTyped DEF Abort
<1>. QED
  BY <1>2, <1>3, <1>4, <1>5, <1>6, <1>7

LEMMA EndsTyped ==
    ASSUME TypeInv, NEW r \in Request, Commit(r) \/ Remove(r)
    PROVE  TypeInv'
<1>1. req' \in [Request -> RequestState] /\ \A q \in Request : InputsKnown(req'[q])
  BY IdleTyped DEF Commit, Remove, TypeInv, TypeOK, InputsKnown
<1>2. CASE Commit(r)
  <2>1. field' \in [Field -> FieldRow]
    BY <1>2, RowTyped DEF Commit, TypeInv
  <2>2. \A f \in Field : Roots(r, f) \in SUBSET SUBSET Field
    BY DEF Roots, TypeInv, TypeOK, RequestState
  <2>. QED
    BY <1>1, <1>2, <2>1, <2>2 DEF Commit, TypeInv, TypeOK, InputsKnown
<1>3. CASE Remove(r)
  <2>1. req[r].id \in Field
    BY <1>3 DEF Remove, TypeInv, InputsKnown
  <2>2. [field[req[r].id] EXCEPT !.status = "deleted"] \in FieldRow
    BY <2>1 DEF TypeInv, TypeOK, FieldRow
  <2>3. field' \in [Field -> FieldRow]
    BY <1>3, <2>1, <2>2 DEF Remove, TypeInv, TypeOK
  <2>. QED
    BY <1>1, <1>3, <2>3 DEF Remove, TypeInv, TypeOK, InputsKnown
<1>. QED
  BY <1>2, <1>3

LEMMA TypeInit == Init => TypeInv
<1>. SUFFICES ASSUME Init PROVE TypeInv
  OBVIOUS
<1>1. field \in [Field -> FieldRow]
  BY AbsentTyped DEF Init, SeededRow
<1>2. trees \in [Field -> SUBSET SUBSET Field]
  BY DEF Init, NoRoots
<1>. QED
  BY <1>1, <1>2, IdleTyped DEF Init, TypeInv, TypeOK

LEMMA TypeStep == TypeInv /\ [Next]_vars => TypeInv'
<1>. SUFFICES ASSUME TypeInv, [Next]_vars PROVE TypeInv'
  OBVIOUS
<1>1. CASE UNCHANGED vars
  BY <1>1 DEF vars, TypeInv, TypeOK, InputsKnown
<1>. QED
  BY <1>1, StartsTyped, ResolveTyped, WritesTyped, EndsTyped DEF Next

\* Field rows, trees and requests keep their shape, with any number of requests
\* in flight.
THEOREM CatalogTypeCorrect == Spec => []TypeOK
<1>1. TypeInv => TypeOK
  BY DEF TypeInv
<1>. QED
  BY <1>1, TypeInit, TypeStep, PTL DEF Spec

-----------------------------------------------------------------------------
\* Part 2.  No cycle of anchors, one request at a time.

Serial == \A q, r \in Request : q = r

\* A catalog, committed or as a transaction sees it: no cycle of anchors, and no
\* anchor on an id that is not in use.
Sound(m) ==
    /\ \A S \in SUBSET Field : S # {} => \E f \in S : m[f].anchor \notin S
    /\ \A f, g \in Field : m[f].status = "absent" => m[g].anchor # f

View(r) == [f \in Field |-> Row(r, f)]

\* x can be f's anchor: all anchors above x stay in a set without f.
Above(f, x) ==
    \E W \in SUBSET Field :
        /\ f \notin W /\ x \in W \cup {None}
        /\ \A w \in W : field[w].anchor \in W \cup {None}

InUse(x) == x \in Field => field[x].status # "absent"

\* What a request knows: it writes nothing before "save"; the walk has found no
\* way from its anchor to its field so far; the anchor it saves is safe.
Known(r) ==
    LET s == req[r]
    IN  /\ s.pc \in {"idle", "resolve", "walk", "save", "remove"} =>
             \A f \in Field : s.rows[f] = Absent
        /\ s.pc \in {"resolve", "walk", "save"} /\ s.op = "edit" => InUse(s.id)
        /\ s.pc \in {"walk", "save"} => InUse(s.anchor)
        /\ s.pc = "walk" =>
             /\ s.id \notin s.seen
             /\ s.anchor \in s.seen \cup {s.current} /\ s.anchor # None
             /\ \A w \in s.seen : field[w].anchor \in s.seen \cup {s.current}
        /\ s.pc = "walk" => s.op = "edit"
        /\ s.pc = "resolve" => s.seen = {}
        /\ s.pc = "save" /\ s.op = "edit" =>
             s.anchor = field[s.id].anchor \/ Above(s.id, s.anchor)
        /\ s.pc \in {"subfields", "children"} => Row(r, s.id).status # "absent"

AnchorInv ==
    /\ TypeInv /\ Sound(field)
    /\ \A r \in Request : Sound(View(r)) /\ Known(r)

\* A row whose anchor is not below it can be written.
LEMMA SoundEdge ==
    ASSUME NEW m \in [Field -> FieldRow], Sound(m), NEW f \in Field, NEW row \in FieldRow,
           row.status # "absent",
           row.anchor \in Field => m[row.anchor].status # "absent",
           NEW W \in SUBSET Field, f \notin W, row.anchor \in W \cup {None},
           \A w \in W : m[w].anchor \in W \cup {None}
    PROVE  Sound([m EXCEPT ![f] = row])
<1> DEFINE n == [m EXCEPT ![f] = row]
<1>0. /\ n[f] = row
      /\ \A g \in Field : g # f => n[g] = m[g]
  OBVIOUS
<1>1. ASSUME NEW S \in SUBSET Field, S # {}, \A g \in S : n[g].anchor \in S
      PROVE  FALSE
  <2>1. None \notin S
    BY CatalogAssumption
  <2>2. CASE f \notin S
    <3>1. \A g \in S : m[g].anchor \in S
      BY <1>0, <1>1, <2>2
    <3>. QED
      BY <3>1, <1>1 DEF Sound
  <2>3. CASE f \in S
    <3>1. row.anchor \in S \cap W
      BY <1>0, <1>1, <2>1, <2>3
    <3>2. \A g \in S \cap W : m[g].anchor \in S \cap W
      BY <1>0, <1>1, <2>1
    <3>3. S \cap W \in SUBSET Field /\ S \cap W # {}
      BY <3>1
    <3>. QED
      BY <3>2, <3>3 DEF Sound
  <2>. QED
    BY <2>2, <2>3
<1>2. ASSUME NEW h \in Field, NEW g \in Field, n[h].status = "absent"
      PROVE  n[g].anchor # h
  <2>1. h # f /\ m[h].status = "absent"
    BY <1>0, <1>2
  <2>. QED
    BY <1>0, <2>1 DEF Sound
<1>. HIDE DEF n
<1>3. Sound(n)
  BY <1>1, <1>2 DEF Sound
<1>. QED
  BY <1>3 DEF n

\* A row that keeps its anchor can be written.
LEMMA SoundSame ==
    ASSUME NEW m \in [Field -> FieldRow], Sound(m), NEW f \in Field, NEW row \in FieldRow,
           row.status # "absent", row.anchor = m[f].anchor
    PROVE  Sound([m EXCEPT ![f] = row])
<1> DEFINE n == [m EXCEPT ![f] = row]
<1>1. \A g \in Field : n[g].anchor = m[g].anchor
  OBVIOUS
<1>2. \A g \in Field : n[g].status = "absent" => m[g].status = "absent"
  OBVIOUS
<1>. HIDE DEF n
<1>3. Sound(n)
  BY <1>1, <1>2 DEF Sound
<1>. QED
  BY <1>3 DEF n

LEMMA NoneAbove == InUse(None) /\ \A f : Above(f, None)
<1>1. InUse(None)
  BY CatalogAssumption DEF InUse
<1>2. ASSUME NEW f PROVE Above(f, None)
  <2>1. /\ {} \in SUBSET Field /\ f \notin {} /\ None \in {} \cup {None}
        /\ \A w \in {} : field[w].anchor \in {} \cup {None}
    OBVIOUS
  <2>. QED
    BY <2>1 DEF Above
<1>. QED
  BY <1>1, <1>2

LEMMA CleanView ==
    ASSUME TypeInv, NEW r \in Request, \A f \in Field : req[r].rows[f] = Absent
    PROVE  View(r) = field
BY DEF View, Row, TypeInv, TypeOK

\* The view of a transaction after it wrote one row.
LEMMA WriteView ==
    ASSUME TypeInv, NEW r \in Request, NEW f \in Field, NEW row \in FieldRow,
           row.status = "live", UNCHANGED field, req' \in [Request -> RequestState],
           req'[r].rows = [req[r].rows EXCEPT ![f] = row]
    PROVE  \E new \in FieldRow :
             /\ View(r)' = [View(r) EXCEPT ![f] = new]
             /\ new.status # "absent" /\ new.anchor = row.anchor
<1> DEFINE status == IF field[f].status = "absent" THEN "live" ELSE field[f].status
           new == [row EXCEPT !.status = status]
<1>1. status \in {"live", "deleted"}
  BY DEF TypeInv, TypeOK, FieldRow
<1>2. new \in FieldRow /\ new.status # "absent" /\ new.anchor = row.anchor
  BY <1>1 DEF FieldRow
<1>3. row # Absent
  BY DEF Absent
<1>4. req[r].rows \in [Field -> FieldRow]
  BY DEF TypeInv, TypeOK, RequestState
<1>5. Row(r, f)' = new
  BY <1>3, <1>4 DEF Row
<1>6. \A g \in Field : g # f => Row(r, g)' = Row(r, g)
  BY <1>4 DEF Row
<1>7. View(r)' = [View(r) EXCEPT ![f] = new]
  BY <1>5, <1>6 DEF View
<1>. QED
  BY <1>2, <1>7

LEMMA ViewTyped ==
    ASSUME TypeInv, NEW r \in Request
    PROVE  View(r) \in [Field -> FieldRow]
BY RowTyped DEF View, TypeInv

LEMMA SingleStep ==
    ASSUME Serial, AnchorInv, TypeInv', NEW r \in Request,
           Sound(field)', Sound(View(r))', Known(r)'
    PROVE  AnchorInv'
BY DEF Serial, AnchorInv

\* A step that writes neither rows nor the database.
LEMMA QuietAnchors ==
    ASSUME Serial, AnchorInv, TypeInv', NEW r \in Request, UNCHANGED field,
           req'[r].rows = req[r].rows, Known(r)'
    PROVE  AnchorInv'
<1>1. View(r)' = View(r)
  BY DEF View, Row
<1>2. Sound(field)' /\ Sound(View(r))'
  BY <1>1 DEF AnchorInv, Sound
<1>. QED
  BY <1>2, SingleStep

LEMMA StartAnchors ==
    ASSUME Serial, AnchorInv, NEW r \in Request,
           StartAdd(r) \/ StartEdit(r) \/ StartTree(r) \/ StartRemove(r)
    PROVE  AnchorInv'
<1>1. TypeInv' /\ TypeInv
  BY StartsTyped DEF AnchorInv
<1> DEFINE Starts(s) ==
             /\ s.rows = Idle.rows /\ s.seen = {}
             /\ s.pc \in {"resolve", "tree", "remove"}
             /\ s.pc = "resolve" /\ s.op = "edit" => field[s.id].status # "absent"
<1>2. PICK s : Start(r, s) /\ Starts(s)
  <2>1. CASE StartAdd(r)
    <3>1. PICK a \in Maybe, t \in Tree \cup {None} :
            Start(r, [Idle EXCEPT !.pc = "resolve", !.anchor = a, !.tree = t])
      BY <2>1 DEF StartAdd
    <3>2. Starts([Idle EXCEPT !.pc = "resolve", !.anchor = a, !.tree = t])
      BY DEF Idle
    <3>. QED
      BY <3>1, <3>2
  <2>2. CASE StartEdit(r)
    <3>1. PICK f \in Field, a \in Maybe, t \in Tree \cup {None} :
            /\ field[f].status # "absent"
            /\ Start(r, [Idle EXCEPT !.pc = "resolve", !.op = "edit", !.id = f,
                           !.class = field[f].class, !.anchor = a, !.tree = t])
      BY <2>2 DEF StartEdit
    <3>2. Starts([Idle EXCEPT !.pc = "resolve", !.op = "edit", !.id = f,
                    !.class = field[f].class, !.anchor = a, !.tree = t])
      BY <3>1 DEF Idle
    <3>. QED
      BY <3>1, <3>2
  <2>3. CASE StartTree(r)
    <3>1. PICK f \in Field, t \in Tree, op \in {"createTree", "editTree"} :
            Start(r, [Idle EXCEPT !.pc = "tree", !.op = op, !.id = f, !.tree = t])
      BY <2>3 DEF StartTree
    <3>2. Starts([Idle EXCEPT !.pc = "tree", !.op = op, !.id = f, !.tree = t])
      BY DEF Idle
    <3>. QED
      BY <3>1, <3>2
  <2>4. CASE StartRemove(r)
    <3>1. PICK f \in Field :
            Start(r, [Idle EXCEPT !.pc = "remove", !.op = "remove", !.id = f])
      BY <2>4 DEF StartRemove
    <3>2. Starts([Idle EXCEPT !.pc = "remove", !.op = "remove", !.id = f])
      BY DEF Idle
    <3>. QED
      BY <3>1, <3>2
  <2>. QED
    BY <2>1, <2>2, <2>3, <2>4
<1>3. req'[r] = s /\ UNCHANGED field /\ req[r].pc = "idle"
  BY <1>1, <1>2 DEF Start, TypeInv, TypeOK
<1>4. \A f \in Field : req[r].rows[f] = Absent /\ s.rows[f] = Absent
  BY <1>2, <1>3 DEF AnchorInv, Known, Idle
<1>5. req[r].rows = req'[r].rows
  BY <1>1, <1>3, <1>4 DEF TypeInv, TypeOK, RequestState
<1>6. Known(r)'
  BY <1>2, <1>3, <1>4 DEF Known, InUse
<1>. QED
  BY <1>1, <1>3, <1>5, <1>6, QuietAnchors

LEMMA ResolveAnchors ==
    ASSUME Serial, AnchorInv, NEW r \in Request, Resolve(r)
    PROVE  AnchorInv'
<1>1. TypeInv' /\ TypeInv /\ Known(r) /\ req[r] \in RequestState /\ InputsKnown(req[r])
  BY ResolveTyped DEF AnchorInv, TypeInv, TypeOK
<1>2. req[r].pc = "resolve" /\ UNCHANGED field
  BY DEF Resolve, Set
<1>3. CASE Set(r, [req[r] EXCEPT !.pc = "save"]) /\ req[r].anchor = None
  <2>1. /\ req'[r].pc = "save" /\ req'[r].op = req[r].op /\ req'[r].id = req[r].id
        /\ req'[r].rows = req[r].rows /\ req'[r].anchor = None
    BY <1>1, <1>3 DEF Set, TypeInv, TypeOK, RequestState
  <2>2. Above(req[r].id, None) /\ InUse(None)
    BY NoneAbove
  <2>3. Known(r)'
    BY <1>1, <1>2, <2>1, <2>2 DEF Known, InUse, Above
  <2>. QED
    BY <1>1, <1>2, <2>1, <2>3, QuietAnchors
<1>4. CASE Set(r, Detached(r))
  <2>1. /\ req'[r].pc = "save" /\ req'[r].op = req[r].op /\ req'[r].id = req[r].id
        /\ req'[r].rows = req[r].rows /\ req'[r].anchor = None
    BY <1>1, <1>4 DEF Set, Detached, TypeInv, TypeOK, RequestState
  <2>2. Above(req[r].id, None) /\ InUse(None)
    BY NoneAbove
  <2>3. Known(r)'
    BY <1>1, <1>2, <2>1, <2>2 DEF Known, InUse, Above
  <2>. QED
    BY <1>1, <1>2, <2>1, <2>3, QuietAnchors
<1>5. CASE /\ req[r].anchor # None /\ Exists(r, req[r].anchor)
           /\ Set(r, [req[r] EXCEPT !.class = field[req[r].anchor].class,
                        !.current = req[r].anchor,
                        !.pc = IF MustWalk(r) THEN "walk" ELSE "save"])
  <2>0. req[r].seen = {}
    BY <1>1, <1>2 DEF Known
  <2>1. /\ req'[r].pc = (IF MustWalk(r) THEN "walk" ELSE "save") /\ req'[r].op = req[r].op
        /\ req'[r].id = req[r].id /\ req'[r].rows = req[r].rows
        /\ req'[r].anchor = req[r].anchor /\ req'[r].current = req[r].anchor
        /\ req'[r].seen = req[r].seen
    BY <1>1, <1>5 DEF Set, TypeInv, TypeOK, RequestState
  <2>2. InUse(req[r].anchor)
    BY <1>1, <1>2, <1>5 DEF InUse, Exists, Row, Known
  <2>3. MustWalk(r) => req[r].op = "edit"
    BY DEF MustWalk
  <2>4. ~MustWalk(r) /\ req[r].op = "edit" => req[r].anchor = field[req[r].id].anchor
    BY DEF MustWalk, Prior
  <2>5. Known(r)'
    BY <1>1, <1>2, <1>5, <2>0, <2>1, <2>2, <2>3, <2>4 DEF Known, InUse
  <2>. QED
    BY <1>1, <1>2, <2>1, <2>5, QuietAnchors
<1>. QED
  BY <1>3, <1>4, <1>5 DEF Resolve

LEMMA WalkAnchors ==
    ASSUME Serial, AnchorInv, NEW r \in Request, Walk(r)
    PROVE  AnchorInv'
<1>1. TypeInv' /\ TypeInv /\ Known(r) /\ req[r] \in RequestState /\ InputsKnown(req[r])
  BY ResolveTyped DEF AnchorInv, TypeInv, TypeOK
<1>2. req[r].pc = "walk" /\ UNCHANGED field /\ req[r].current # req[r].id
  BY DEF Walk, Set
<1>3. CASE /\ req[r].current = None \/ req[r].current \in req[r].seen
           /\ Set(r, [req[r] EXCEPT !.pc = "save"])
  <2>1. /\ req'[r].pc = "save" /\ req'[r].op = req[r].op /\ req'[r].id = req[r].id
        /\ req'[r].rows = req[r].rows /\ req'[r].anchor = req[r].anchor
    BY <1>1, <1>3 DEF Set, TypeInv, TypeOK, RequestState
  <2>2. Above(req[r].id, req[r].anchor)
    <3>1. req[r].seen \in SUBSET Field /\ req[r].id \notin req[r].seen
      BY <1>1, <1>2 DEF Known, RequestState
    <3>2. req[r].anchor \in req[r].seen
      BY <1>1, <1>2, <1>3 DEF Known
    <3>3. \A w \in req[r].seen : field[w].anchor \in req[r].seen \cup {None}
      BY <1>1, <1>2, <1>3 DEF Known
    <3>. QED
      BY <3>1, <3>2, <3>3 DEF Above
  <2>3. Known(r)'
    BY <1>1, <1>2, <2>1, <2>2 DEF Known, InUse, Above
  <2>. QED
    BY <1>1, <1>2, <2>1, <2>3, QuietAnchors
<1>4. CASE /\ req[r].current # None
           /\ Set(r, [req[r] EXCEPT !.seen = @ \cup {req[r].current},
                        !.current = field[req[r].current].anchor])
  <2>1. /\ req'[r].pc = "walk" /\ req'[r].op = req[r].op /\ req'[r].id = req[r].id
        /\ req'[r].rows = req[r].rows /\ req'[r].anchor = req[r].anchor
        /\ req'[r].seen = req[r].seen \cup {req[r].current}
        /\ req'[r].current = field[req[r].current].anchor
    BY <1>1, <1>2, <1>4 DEF Set, TypeInv, TypeOK, RequestState
  <2>2. Known(r)'
    BY <1>1, <1>2, <2>1 DEF Known, InUse
  <2>. QED
    BY <1>1, <1>2, <2>1, <2>2, QuietAnchors
<1>. QED
  BY <1>3, <1>4 DEF Walk

\* A step that writes one row f, whose anchor is the old one or an end of a set
\* without f that anchors do not leave.
LEMMA WriteAnchors ==
    ASSUME Serial, AnchorInv, TypeInv', NEW r \in Request, UNCHANGED field,
           NEW f \in Field, NEW row \in FieldRow, row.status = "live",
           req'[r].rows = [req[r].rows EXCEPT ![f] = row], Known(r)',
           \/ row.anchor = Row(r, f).anchor
           \/ /\ row.anchor \in Field => Row(r, row.anchor).status # "absent"
              /\ \E W \in SUBSET Field :
                    /\ f \notin W /\ row.anchor \in W \cup {None}
                    /\ \A w \in W : Row(r, w).anchor \in W \cup {None}
    PROVE  AnchorInv'
<1>1. TypeInv /\ Sound(View(r)) /\ View(r) \in [Field -> FieldRow]
  BY ViewTyped DEF AnchorInv
<1>2. req' \in [Request -> RequestState]
  BY DEF TypeInv, TypeOK
<1>3. PICK new \in FieldRow : /\ View(r)' = [View(r) EXCEPT ![f] = new]
                              /\ new.status # "absent" /\ new.anchor = row.anchor
  BY <1>1, <1>2, WriteView
<1>4. \A g \in Field : View(r)[g] = Row(r, g)
  BY DEF View
<1>5. Sound([View(r) EXCEPT ![f] = new])
  <2>1. CASE row.anchor = Row(r, f).anchor
    BY <2>1, <1>1, <1>3, <1>4, SoundSame
  <2>2. CASE row.anchor # Row(r, f).anchor
    <3>1. PICK W \in SUBSET Field :
             /\ f \notin W /\ row.anchor \in W \cup {None}
             /\ \A w \in W : Row(r, w).anchor \in W \cup {None}
      BY <2>2
    <3>2. \A w \in W : View(r)[w].anchor \in W \cup {None}
      BY <3>1, <1>4
    <3>3. row.anchor \in Field => View(r)[row.anchor].status # "absent"
      BY <2>2, <1>4
    <3>. QED
      BY <3>1, <3>2, <3>3, <1>1, <1>3, SoundEdge
  <2>. QED
    BY <2>1, <2>2
<1>6. Sound(View(r))'
  BY <1>3, <1>5 DEF Sound
<1>7. Sound(field)'
  BY DEF AnchorInv, Sound
<1>. QED
  BY <1>6, <1>7, SingleStep

\* An id not in use: nothing is anchored to it.
LEMMA FreshIsFree ==
    ASSUME AnchorInv, NEW r \in Request, NEW f \in Fresh
    PROVE  /\ f \in Field /\ Row(r, f).status = "absent"
           /\ \A g \in Field : Row(r, g).anchor \in (Field \ {f}) \cup {None}
<1>1. f \in Field /\ Row(r, f) = Absent
  BY DEF Fresh, Row
<1>2. \A g \in Field : Row(r, g).anchor # f
  BY <1>1 DEF AnchorInv, Sound, View, Absent
<1>3. \A g \in Field : Row(r, g).anchor \in Field \cup {None}
  BY RowTyped DEF AnchorInv, TypeInv, FieldRow, Maybe
<1>. QED
  BY <1>1, <1>2, <1>3 DEF Absent

LEMMA SaveAnchors ==
    ASSUME Serial, AnchorInv, NEW r \in Request, Save(r)
    PROVE  AnchorInv'
<1>1. TypeInv' /\ TypeInv /\ Known(r) /\ req[r] \in RequestState /\ InputsKnown(req[r])
  BY WritesTyped DEF AnchorInv, TypeInv, TypeOK
<1>2. req[r].pc = "save" /\ UNCHANGED field
  BY DEF Save, Set
<1>3. PICK f \in IF req[r].op = "add" THEN Fresh ELSE {req[r].id}, n \in Name, p \in Maybe :
        Set(r, [WithRow(req[r], f, req[r].class, req[r].anchor, p, n) EXCEPT
                  !.id = f, !.pc = AfterSave(r)])
  BY DEF Save
<1>4. f \in Field /\ req[r].class \in Classification /\ req[r].anchor \in Maybe
  BY <1>1, <1>2, <1>3 DEF InputsKnown, Fresh, RequestState
<1> DEFINE row == [status |-> "live", class |-> req[r].class, anchor |-> req[r].anchor,
                   parent |-> p, name |-> n]
<1>5. /\ row \in FieldRow /\ row.status = "live" /\ row.anchor = req[r].anchor
      /\ WithRow(req[r], f, req[r].class, req[r].anchor, p, n) =
           [req[r] EXCEPT !.rows = [req[r].rows EXCEPT ![f] = row]]
  BY <1>4 DEF FieldRow, WithRow
<1>. HIDE DEF row
<1>6. /\ req'[r].rows = [req[r].rows EXCEPT ![f] = row]
      /\ req'[r].id = f /\ req'[r].pc = AfterSave(r)
  BY <1>1, <1>3, <1>5 DEF Set, TypeInv, TypeOK, RequestState
<1>7. AfterSave(r) \in {"tree", "subfields"}
  BY DEF AfterSave
<1>8. Row(r, f)'.status # "absent"
  <2>1. row # Absent
    BY <1>5 DEF Absent
  <2>2. req'[r].rows[f] = row
    BY <1>1, <1>4, <1>6 DEF RequestState
  <2>. QED
    BY <1>5, <2>1, <2>2 DEF Row, FieldRow
<1>9. Known(r)'
  BY <1>6, <1>7, <1>8 DEF Known
<1>10. \A g \in Field : Row(r, g) = field[g]
  BY <1>1, <1>2 DEF Known, Row
<1>11. row.anchor \in Field => Row(r, row.anchor).status # "absent"
  BY <1>1, <1>2, <1>5, <1>10 DEF Known, InUse
<1>12. \/ row.anchor = Row(r, f).anchor
       \/ \E W \in SUBSET Field :
             /\ f \notin W /\ row.anchor \in W \cup {None}
             /\ \A w \in W : Row(r, w).anchor \in W \cup {None}
  <2>1. CASE req[r].op = "add"
    <3>1. f \in Fresh
      BY <2>1, <1>3
    <3>2. /\ Row(r, f).status = "absent"
          /\ \A g \in Field : Row(r, g).anchor \in (Field \ {f}) \cup {None}
      BY <3>1, FreshIsFree
    <3>3. row.anchor \in (Field \ {f}) \cup {None}
      BY <3>2, <1>4, <1>5, <1>11 DEF Maybe
    <3>4. Field \ {f} \in SUBSET Field /\ f \notin Field \ {f}
      OBVIOUS
    <3>. QED
      BY <3>2, <3>3, <3>4
  <2>2. CASE req[r].op # "add"
    <3>1. f = req[r].id /\ req[r].op = "edit"
      BY <2>2, <1>1, <1>2, <1>3 DEF InputsKnown
    <3>2. req[r].anchor = field[f].anchor \/ Above(f, req[r].anchor)
      BY <3>1, <1>1, <1>2 DEF Known
    <3>. QED
      BY <3>2, <1>4, <1>5, <1>10 DEF Above
  <2>. QED
    BY <2>1, <2>2
<1>. QED
  BY <1>1, <1>2, <1>4, <1>5, <1>6, <1>9, <1>11, <1>12, WriteAnchors

LEMMA PartAnchors ==
    ASSUME Serial, AnchorInv, NEW r \in Request, Subfield(r) \/ Child(r)
    PROVE  AnchorInv'
<1>1. TypeInv' /\ TypeInv /\ Known(r) /\ req[r] \in RequestState /\ InputsKnown(req[r])
  BY WritesTyped DEF AnchorInv, TypeInv, TypeOK
<1>2. /\ req[r].pc \in {"subfields", "children"} /\ UNCHANGED field
      /\ req[r].id \in Field /\ Row(r, req[r].id).status # "absent"
  BY <1>1 DEF Subfield, Child, Set, InputsKnown, Known
<1>0. req[r].class \in Classification /\ req[r].id \in Maybe /\ None \in Maybe
  BY <1>1 DEF RequestState, Maybe
<1>3. PICK f \in Field, row \in FieldRow :
        /\ row.status = "live"
        /\ req'[r].rows = [req[r].rows EXCEPT ![f] = row]
        /\ req'[r].pc = req[r].pc /\ req'[r].id = req[r].id
        /\ \/ row.anchor = None
           \/ row.anchor = req[r].id /\ (f \in Fresh \/ Row(r, f).anchor = req[r].id)
  <2>1. CASE Subfield(r)
    <3>1. PICK f \in Field, n \in Name :
            Set(r, WithRow(req[r], f, req[r].class, None, req[r].id, n))
      BY <2>1 DEF Subfield
    <3> DEFINE row == [status |-> "live", class |-> req[r].class, anchor |-> None,
                       parent |-> req[r].id, name |-> n]
    <3>2. /\ row \in FieldRow /\ row.status = "live" /\ row.anchor = None
          /\ WithRow(req[r], f, req[r].class, None, req[r].id, n) =
               [req[r] EXCEPT !.rows = [req[r].rows EXCEPT ![f] = row]]
      BY <1>0 DEF FieldRow, WithRow
    <3>. HIDE DEF row
    <3>3. /\ req'[r].rows = [req[r].rows EXCEPT ![f] = row]
          /\ req'[r].pc = req[r].pc /\ req'[r].id = req[r].id
      BY <1>1, <3>1, <3>2 DEF Set, TypeInv, TypeOK, RequestState
    <3>. QED
      BY <3>2, <3>3
  <2>2. CASE Child(r)
    <3>1. PICK f \in Field, n \in Name :
            /\ f \in Fresh \/ (Exists(r, f) /\ Row(r, f).anchor = req[r].id)
            /\ Set(r, WithTree(WithRow(req[r], f, req[r].class, req[r].id, None, n),
                               f, {req[r].id}, f \notin Fresh))
      BY <2>2 DEF Child
    <3> DEFINE row == [status |-> "live", class |-> req[r].class, anchor |-> req[r].id,
                       parent |-> None, name |-> n]
    <3>2. /\ row \in FieldRow /\ row.status = "live" /\ row.anchor = req[r].id
          /\ WithRow(req[r], f, req[r].class, req[r].id, None, n) =
               [req[r] EXCEPT !.rows = [req[r].rows EXCEPT ![f] = row]]
      BY <1>0 DEF FieldRow, WithRow
    <3>. HIDE DEF row
    <3>3. /\ req'[r].rows = [req[r].rows EXCEPT ![f] = row]
          /\ req'[r].pc = req[r].pc /\ req'[r].id = req[r].id
      BY <1>1, <3>1, <3>2 DEF Set, WithTree, TypeInv, TypeOK, RequestState
    <3>. QED
      BY <3>1, <3>2, <3>3
  <2>. QED
    BY <2>1, <2>2
<1>4. Row(r, req[r].id)'.status # "absent"
  <2>1. CASE f = req[r].id
    <3>1. req'[r].rows[f] = row /\ row # Absent
      BY <1>1, <1>3 DEF RequestState, Absent
    <3>. QED
      BY <2>1, <3>1, <1>2, <1>3 DEF Row, FieldRow
  <2>2. CASE f # req[r].id
    <3>1. req'[r].rows[req[r].id] = req[r].rows[req[r].id]
      BY <2>2, <1>1, <1>2, <1>3 DEF RequestState
    <3>. QED
      BY <3>1, <1>2, <1>3 DEF Row
  <2>. QED
    BY <2>1, <2>2
<1>5. Known(r)'
  BY <1>2, <1>3, <1>4 DEF Known
<1>6. row.anchor \in Field => Row(r, row.anchor).status # "absent"
  BY <1>2, <1>3, CatalogAssumption
<1>7. \/ row.anchor = Row(r, f).anchor
      \/ \E W \in SUBSET Field :
            /\ f \notin W /\ row.anchor \in W \cup {None}
            /\ \A w \in W : Row(r, w).anchor \in W \cup {None}
  <2>1. CASE row.anchor = None
    <3>1. /\ {} \in SUBSET Field /\ f \notin {} /\ row.anchor \in {} \cup {None}
          /\ \A w \in {} : Row(r, w).anchor \in {} \cup {None}
      BY <2>1
    <3>. QED
      BY <3>1
  <2>2. CASE row.anchor = req[r].id /\ f \in Fresh
    <3>1. /\ Row(r, f).status = "absent"
          /\ \A g \in Field : Row(r, g).anchor \in (Field \ {f}) \cup {None}
      BY <2>2, FreshIsFree
    <3>2. Field \ {f} \in SUBSET Field /\ f \notin Field \ {f}
          /\ row.anchor \in (Field \ {f}) \cup {None}
      BY <2>2, <3>1, <1>2
    <3>. QED
      BY <3>1, <3>2
  <2>. QED
    BY <2>1, <2>2, <1>3
<1>. QED
  BY <1>1, <1>2, <1>3, <1>5, <1>6, <1>7, WriteAnchors

LEMMA QuietPartAnchors ==
    ASSUME Serial, AnchorInv, NEW r \in Request, PutTree(r) \/ NextPart(r)
    PROVE  AnchorInv'
<1>1. TypeInv' /\ TypeInv /\ Known(r) /\ req[r] \in RequestState
  BY WritesTyped DEF AnchorInv, TypeInv, TypeOK
<1>2. UNCHANGED field /\ req'[r].rows = req[r].rows /\ req'[r].id = req[r].id
  <2>1. CASE PutTree(r)
    BY <2>1, <1>1 DEF PutTree, WithTree, Set, TypeInv, TypeOK, RequestState
  <2>2. CASE NextPart(r)
    BY <2>2, <1>1 DEF NextPart, Set, TypeInv, TypeOK, RequestState
  <2>. QED
    BY <2>1, <2>2
<1>3. /\ req'[r].pc \in {"subfields", "children", "commit"}
      /\ req'[r].pc \in {"subfields", "children"} => Row(r, req[r].id).status # "absent"
  <2>1. CASE PutTree(r)
    <3>1. req'[r].pc \in {"subfields", "commit"}
      BY <2>1, <1>1 DEF PutTree, WithTree, Set, TypeInv, TypeOK, RequestState
    <3>2. Row(r, req[r].id).status # "absent"
      BY <2>1 DEF PutTree, TreeAllowed, Exists
    <3>. QED
      BY <3>1, <3>2
  <2>2. CASE NextPart(r)
    BY <2>2, <1>1 DEF NextPart, Set, TypeInv, TypeOK, RequestState, Known
  <2>. QED
    BY <2>1, <2>2
<1>4. Known(r)'
  BY <1>2, <1>3 DEF Known, Row
<1>. QED
  BY <1>1, <1>2, <1>4, QuietAnchors

LEMMA EndAnchors ==
    ASSUME Serial, AnchorInv, NEW r \in Request, Commit(r) \/ Remove(r) \/ Abort(r)
    PROVE  AnchorInv'
<1>1. TypeInv' /\ TypeInv /\ req'[r] = Idle
  BY EndsTyped, WritesTyped DEF AnchorInv, Commit, Remove, Abort, Set, TypeInv, TypeOK
<1>2. \A f \in Field : req'[r].rows[f] = Absent
  BY <1>1 DEF Idle
<1>3. Known(r)'
  BY <1>1, <1>2 DEF Known, Idle
<1>4. \A f \in Field : View(r)'[f] = field'[f]
  BY <1>2 DEF View, Row
<1>5. Sound(field)'
  <2>1. CASE Commit(r)
    <3>1. field' = View(r)
      BY <2>1 DEF Commit, View
    <3>. QED
      BY <3>1 DEF AnchorInv, Sound
  <2>2. CASE Remove(r)
    <3> DEFINE row == [field[req[r].id] EXCEPT !.status = "deleted"]
    <3>1. req[r].id \in Field
      BY <2>2, <1>1 DEF Remove, TypeInv, InputsKnown
    <3>2. field[req[r].id] \in FieldRow /\ field \in [Field -> FieldRow]
      BY <3>1, <1>1 DEF TypeInv, TypeOK
    <3>3. row \in FieldRow /\ row.status # "absent" /\ row.anchor = field[req[r].id].anchor
      BY <3>2 DEF FieldRow
    <3>4. field' = [field EXCEPT ![req[r].id] = row]
      BY <2>2 DEF Remove
    <3>5. Sound([field EXCEPT ![req[r].id] = row])
      BY <3>1, <3>2, <3>3, SoundSame DEF AnchorInv
    <3>. QED
      BY <3>4, <3>5 DEF Sound
  <2>3. CASE Abort(r)
    BY <2>3 DEF Abort, Set, AnchorInv, Sound
  <2>. QED
    BY <2>1, <2>2, <2>3
<1>6. Sound(View(r))'
  BY <1>4, <1>5 DEF Sound
<1>. QED
  BY <1>1, <1>3, <1>5, <1>6, SingleStep

LEMMA AnchorInit == Init => AnchorInv
<1>. SUFFICES ASSUME Init PROVE AnchorInv
  OBVIOUS
<1>1. TypeInv
  BY TypeInit
<1>2. \A f \in Field : field[f].anchor = None
  BY DEF Init, SeededRow, Absent
<1>3. Sound(field)
  BY <1>2, CatalogAssumption DEF Sound
<1>4. ASSUME NEW r \in Request PROVE Sound(View(r)) /\ Known(r)
  <2>1. req[r] = Idle
    BY DEF Init
  <2>2. \A f \in Field : req[r].rows[f] = Absent
    BY <2>1 DEF Idle
  <2>3. View(r) = field
    BY <1>1, <2>2, CleanView
  <2>. QED
    BY <1>3, <2>1, <2>2, <2>3 DEF Known, Idle
<1>. QED
  BY <1>1, <1>3, <1>4 DEF AnchorInv

LEMMA AnchorStep == Serial /\ AnchorInv /\ [Next]_vars => AnchorInv'
<1>. SUFFICES ASSUME Serial, AnchorInv, [Next]_vars PROVE AnchorInv'
  OBVIOUS
<1>1. CASE UNCHANGED vars
  <2>1. TypeInv'
    BY <1>1, TypeStep DEF AnchorInv
  <2>2. \A r \in Request : View(r)' = View(r) /\ Known(r)' = Known(r)
    BY <1>1 DEF vars, View, Row, Known, Above, InUse
  <2>. QED
    BY <1>1, <2>1, <2>2 DEF vars, AnchorInv, Sound
<1>. QED
  BY <1>1, StartAnchors, ResolveAnchors, WalkAnchors, SaveAnchors, PartAnchors,
     QuietPartAnchors, EndAnchors DEF Next

\* With one request at a time, no chain of anchors returns to where it began:
\* the walk of assertNoAnchorCycle, and the edits that skip it, are enough.
THEOREM SerialAnchorsAcyclic ==
    ASSUME \A q, r \in Request : q = r
    PROVE  Spec => []AnchorsAcyclic
<1>1. Serial
  BY DEF Serial
<1>2. AnchorInv => AnchorsAcyclic
  BY DEF AnchorInv, Sound, AnchorsAcyclic
<1>3. AnchorInv /\ [Next]_vars => AnchorInv'
  BY <1>1, AnchorStep
<1>. QED
  BY <1>2, <1>3, AnchorInit, PTL DEF Spec
-----------------------------------------------------------------------------
\* Part 3.  Names, subfields and dependencies, one request at a time.

Distinct(m) ==
    \A f, g \in Field :
        m[f].status = "live" /\ m[g].status = "live" /\ m[f].name = m[g].name => f = g

\* An id not in use has no trees; a subfield has neither trees nor an anchor.
Fits(row, roots) ==
    /\ row.status = "absent" => roots = {}
    /\ row.parent # None => roots = {} /\ row.anchor = None

Depends(row, roots) == row.anchor # None => \E t \in roots : row.anchor \in t

\* Nothing is written before "save", nor by the tree routes before their tree.
Unwritten(s) ==
    /\ \A f \in Field : s.rows[f] = Absent
    /\ s.gone = NoRoots /\ s.new = NoRoots

\* The anchor to save is named by the submitted tree or, without one, by a
\* stored tree of the field's own.
AnchorNamed(s, stored) ==
    s.anchor # None =>
        IF s.tree # None THEN s.anchor \in s.tree
        ELSE s.op = "edit" /\ \E t \in stored[s.id] : s.anchor \in t

\* The catalog a transaction sees is in order, the field itself excepted while
\* its tree is still to come.
Orderly(s, view, roots, stored) ==
    /\ Distinct(view)
    /\ s.pc \in {"idle", "resolve", "walk", "save", "remove"} => Unwritten(s)
    /\ s.pc = "tree" /\ s.op \notin {"add", "edit"} => Unwritten(s)
    /\ s.pc \in {"walk", "save"} => AnchorNamed(s, stored)
    /\ \A f \in Field : ~(s.pc = "tree" /\ f = s.id) =>
         /\ Fits(view[f], roots[f])
         /\ s.rows[f] # Absent => Depends(view[f], roots[f])
    /\ s.pc = "tree" /\ s.rows[s.id] # Absent /\ view[s.id].anchor # None =>
         view[s.id].anchor \in s.tree

RootsView(r) == [f \in Field |-> Roots(r, f)]

Tidy(r) == Orderly(req[r], View(r), RootsView(r), trees)

TidyInv ==
    /\ TypeInv /\ Distinct(field)
    /\ \A f \in Field : Fits(field[f], trees[f])
    /\ \A r \in Request : Tidy(r)

\* A transaction that has written nothing.
LEMMA UnwrittenOrderly ==
    ASSUME NEW s, NEW view, NEW roots, NEW stored, Unwritten(s), Distinct(view),
           \A f \in Field : Fits(view[f], roots[f]),
           s.pc \in {"walk", "save"} => AnchorNamed(s, stored),
           s.pc = "tree" => s.id \in Field
    PROVE  Orderly(s, view, roots, stored)
BY DEF Unwritten, Orderly

LEMMA UnwrittenView ==
    ASSUME TypeInv, NEW r \in Request, Unwritten(req[r])
    PROVE  /\ View(r) = field /\ RootsView(r) = trees
           /\ \A f \in Field : Row(r, f) = field[f] /\ Roots(r, f) = trees[f]
<1>1. View(r) = field /\ \A f \in Field : Row(r, f) = field[f] /\ Roots(r, f) = trees[f]
  BY CleanView DEF Unwritten, Row, Roots, NoRoots
<1>. QED
  BY <1>1 DEF RootsView, TypeInv, TypeOK

\* A step of r that leaves the database as it is.
LEMMA TidyStepOf ==
    ASSUME Serial, TidyInv, TypeInv', NEW r \in Request, UNCHANGED <<field, trees>>, Tidy(r)'
    PROVE  TidyInv'
BY DEF Serial, TidyInv, Distinct, Fits

LEMMA UnwrittenStep ==
    ASSUME Serial, TidyInv, TypeInv', NEW r \in Request, UNCHANGED <<field, trees>>,
           Unwritten(req[r]), Unwritten(req'[r]),
           req'[r].pc \in {"walk", "save"} => AnchorNamed(req'[r], trees)
    PROVE  TidyInv'
<1>1. View(r) = field /\ RootsView(r) = trees
  BY UnwrittenView DEF TidyInv
<1>2. View(r)' = View(r) /\ RootsView(r)' = RootsView(r)
  <2>1. \A f \in Field : Row(r, f)' = Row(r, f) /\ Roots(r, f)' = Roots(r, f)
    BY DEF Row, Roots, Unwritten
  <2>. QED
    BY <2>1 DEF View, RootsView
<1>3. req'[r].pc = "tree" => req'[r].id \in Field
  BY DEF TypeInv, InputsKnown
<1>4. Distinct(field) /\ \A f \in Field : Fits(field[f], trees[f])
  BY DEF TidyInv
<1>5. Orderly(req'[r], field, trees, trees)
  BY <1>3, <1>4, UnwrittenOrderly
<1>6. Tidy(r)'
  BY <1>1, <1>2, <1>5 DEF Tidy
<1>. QED
  BY <1>6, TidyStepOf

LEMMA IdleUnwritten == Unwritten(Idle)
BY DEF Unwritten, Idle

LEMMA StartTidy ==
    ASSUME Serial, TidyInv, NEW r \in Request,
           StartAdd(r) \/ StartEdit(r) \/ StartTree(r) \/ StartRemove(r)
    PROVE  TidyInv'
<1>1. TypeInv' /\ TypeInv
  BY StartsTyped DEF TidyInv
<1>2. PICK s : Start(r, s) /\ Unwritten(s) /\ s.pc \in {"resolve", "tree", "remove"}
  <2> DEFINE Starts(s) == /\ s.rows = Idle.rows /\ s.gone = Idle.gone /\ s.new = Idle.new
                          /\ s.pc \in {"resolve", "tree", "remove"}
  <2>1. CASE StartAdd(r)
    <3>1. PICK a \in Maybe, t \in Tree \cup {None} :
            Start(r, [Idle EXCEPT !.pc = "resolve", !.anchor = a, !.tree = t])
      BY <2>1 DEF StartAdd
    <3>2. Starts([Idle EXCEPT !.pc = "resolve", !.anchor = a, !.tree = t])
      BY DEF Idle
    <3>. QED
      BY <3>1, <3>2, IdleUnwritten DEF Unwritten
  <2>2. CASE StartEdit(r)
    <3>1. PICK f \in Field, a \in Maybe, t \in Tree \cup {None} :
            Start(r, [Idle EXCEPT !.pc = "resolve", !.op = "edit", !.id = f,
                        !.class = field[f].class, !.anchor = a, !.tree = t])
      BY <2>2 DEF StartEdit
    <3>2. Starts([Idle EXCEPT !.pc = "resolve", !.op = "edit", !.id = f,
                    !.class = field[f].class, !.anchor = a, !.tree = t])
      BY DEF Idle
    <3>. QED
      BY <3>1, <3>2, IdleUnwritten DEF Unwritten
  <2>3. CASE StartTree(r)
    <3>1. PICK f \in Field, t \in Tree, op \in {"createTree", "editTree"} :
            Start(r, [Idle EXCEPT !.pc = "tree", !.op = op, !.id = f, !.tree = t])
      BY <2>3 DEF StartTree
    <3>2. Starts([Idle EXCEPT !.pc = "tree", !.op = op, !.id = f, !.tree = t])
      BY DEF Idle
    <3>. QED
      BY <3>1, <3>2, IdleUnwritten DEF Unwritten
  <2>4. CASE StartRemove(r)
    <3>1. PICK f \in Field :
            Start(r, [Idle EXCEPT !.pc = "remove", !.op = "remove", !.id = f])
      BY <2>4 DEF StartRemove
    <3>2. Starts([Idle EXCEPT !.pc = "remove", !.op = "remove", !.id = f])
      BY DEF Idle
    <3>. QED
      BY <3>1, <3>2, IdleUnwritten DEF Unwritten
  <2>. QED
    BY <2>1, <2>2, <2>3, <2>4
<1>3. req'[r] = s /\ UNCHANGED <<field, trees>> /\ req[r].pc = "idle"
  BY <1>1, <1>2 DEF Start, TypeInv, TypeOK
<1>4. Unwritten(req[r])
  BY <1>3 DEF TidyInv, Tidy, Orderly
<1>. QED
  BY <1>1, <1>2, <1>3, <1>4, UnwrittenStep

LEMMA ResolveTidy ==
    ASSUME Serial, TidyInv, NEW r \in Request, Resolve(r) \/ Walk(r)
    PROVE  TidyInv'
<1>1. TypeInv' /\ TypeInv /\ Tidy(r) /\ req[r] \in RequestState /\ InputsKnown(req[r])
  BY ResolveTyped DEF TidyInv, TypeInv, TypeOK
<1>2. Unwritten(req[r]) /\ UNCHANGED <<field, trees>>
  BY <1>1 DEF Resolve, Walk, Set, Tidy, Orderly
<1> DEFINE Same(s) == /\ s.rows = req[r].rows /\ s.gone = req[r].gone /\ s.new = req[r].new
                      /\ s.tree = req[r].tree /\ s.op = req[r].op /\ s.id = req[r].id
           Named == \E t \in Consulted(r) : req[r].anchor \in t
<1>3. /\ Same(req'[r])
      /\ \/ req'[r].anchor = None
         \/ req'[r].anchor = req[r].anchor /\ (Named \/ AnchorNamed(req[r], trees))
  <2>1. CASE Resolve(r)
    <3>1. CASE Set(r, [req[r] EXCEPT !.pc = "save"]) /\ req[r].anchor = None
      BY <1>1, <3>1 DEF Set, TypeInv, TypeOK, RequestState
    <3>2. CASE Set(r, Detached(r))
      BY <1>1, <3>2 DEF Set, Detached, TypeInv, TypeOK, RequestState
    <3>3. CASE /\ Named
               /\ Set(r, [req[r] EXCEPT !.class = field[req[r].anchor].class,
                            !.current = req[r].anchor,
                            !.pc = IF MustWalk(r) THEN "walk" ELSE "save"])
      <4> HIDE DEF Named
      <4>. QED  BY <1>1, <3>3 DEF Set, TypeInv, TypeOK, RequestState
    <3>. QED
      BY <2>1, <3>1, <3>2, <3>3 DEF Resolve
  <2>2. CASE Walk(r)
    <3>1. AnchorNamed(req[r], trees)
      BY <1>1, <2>2 DEF Walk, Tidy, Orderly
    <3>2. Same(req'[r]) /\ req'[r].anchor = req[r].anchor
      <4>1. CASE Set(r, [req[r] EXCEPT !.pc = "save"])
        BY <1>1, <4>1 DEF Set, TypeInv, TypeOK, RequestState
      <4>2. CASE Set(r, [req[r] EXCEPT !.seen = @ \cup {req[r].current},
                           !.current = field[req[r].current].anchor])
        BY <1>1, <4>2 DEF Set, TypeInv, TypeOK, RequestState
      <4>. QED
        BY <2>2, <4>1, <4>2 DEF Walk
    <3>. QED
      BY <3>1, <3>2
  <2>. QED
    BY <2>1, <2>2
<1>4. Unwritten(req'[r])
  BY <1>2, <1>3 DEF Unwritten
<1>5. AnchorNamed(req'[r], trees)
  <2>1. Named => AnchorNamed(req[r], trees)
    BY DEF Consulted, AnchorNamed
  <2> HIDE DEF Named
  <2>. QED
    BY <1>3, <2>1 DEF AnchorNamed
<1>. QED
  BY <1>1, <1>2, <1>4, <1>5, UnwrittenStep

\* What writing one row does to the view.
LEMMA RowAfterWrite ==
    ASSUME TypeInv, NEW r \in Request, NEW f \in Field, NEW row \in FieldRow,
           row.status = "live", UNCHANGED field, req' \in [Request -> RequestState],
           req'[r].rows = [req[r].rows EXCEPT ![f] = row]
    PROVE  /\ req'[r].rows[f] = row /\ row # Absent
           /\ Row(r, f)'.status # "absent" /\ Row(r, f)'.anchor = row.anchor
           /\ Row(r, f)'.parent = row.parent /\ Row(r, f)'.name = row.name
           /\ \A g \in Field \ {f} :
                 Row(r, g)' = Row(r, g) /\ req'[r].rows[g] = req[r].rows[g]
<1>1. req[r].rows \in [Field -> FieldRow] /\ field[f] \in FieldRow
  BY DEF TypeInv, TypeOK, RequestState
<1>2. row # Absent
  BY DEF Absent
<1>3. req'[r].rows[f] = row /\ \A g \in Field \ {f} : req'[r].rows[g] = req[r].rows[g]
  BY <1>1
<1>4. Row(r, f)' = [row EXCEPT !.status =
                      IF field[f].status = "absent" THEN "live" ELSE field[f].status]
  BY <1>2, <1>3 DEF Row
<1>5. \A g \in Field \ {f} : Row(r, g)' = Row(r, g)
  BY <1>3 DEF Row
<1>. QED
  BY <1>1, <1>2, <1>3, <1>4, <1>5 DEF FieldRow

\* findFieldByName keeps names apart; the rest of the view stays in order.
LEMMA OrderAfterWrite ==
    ASSUME TypeInv, NEW r \in Request, NEW f \in Field, Distinct(View(r)),
           \A g \in Field \ {f} : /\ Row(r, g)' = Row(r, g) /\ Roots(r, g)' = Roots(r, g)
                                  /\ req'[r].rows[g] = req[r].rows[g],
           ~NameTaken(r, Row(r, f)'.name, f),
           req'[r].pc \in {"tree", "subfields", "children", "commit"},
           req'[r].pc = "tree" => req'[r].op \in {"add", "edit"},
           \A g \in Field \ {f} : /\ Fits(Row(r, g), Roots(r, g))
                                  /\ req[r].rows[g] # Absent => Depends(Row(r, g), Roots(r, g)),
           \/ req'[r].pc # "tree" /\ Fits(Row(r, f)', Roots(r, f)') /\ Depends(Row(r, f)', Roots(r, f)')
           \/ /\ req'[r].pc = "tree" /\ f = req'[r].id
              /\ Row(r, f)'.anchor # None => Row(r, f)'.anchor \in req'[r].tree
    PROVE  Tidy(r)'
<1>1. \A g \in Field : /\ View(r)[g] = Row(r, g) /\ View(r)'[g] = Row(r, g)'
                       /\ RootsView(r)[g] = Roots(r, g) /\ RootsView(r)'[g] = Roots(r, g)'
  BY DEF View, RootsView
<1>2. \A g \in Field \ {f} : Row(r, g).status = "live" => Row(r, g).name # Row(r, f)'.name
  BY DEF NameTaken
<1>3. Distinct(View(r)')
  BY <1>1, <1>2 DEF Distinct
<1>4. ASSUME NEW g \in Field, ~(req'[r].pc = "tree" /\ g = req'[r].id)
      PROVE  /\ Fits(View(r)'[g], RootsView(r)'[g])
             /\ req'[r].rows[g] # Absent => Depends(View(r)'[g], RootsView(r)'[g])
  <2>1. CASE g = f
    BY <1>1, <1>4, <2>1
  <2>2. CASE g # f
    <3>1. View(r)'[g] = Row(r, g) /\ RootsView(r)'[g] = Roots(r, g)
          /\ req'[r].rows[g] = req[r].rows[g]
      BY <1>1, <2>2
    <3>2. Fits(Row(r, g), Roots(r, g)) /\ (req[r].rows[g] # Absent => Depends(Row(r, g), Roots(r, g)))
      BY <2>2
    <3>. QED
      BY <3>1, <3>2
  <2>. QED
    BY <2>1, <2>2
<1>5. req'[r].pc = "tree" /\ View(r)'[req'[r].id].anchor # None =>
        View(r)'[req'[r].id].anchor \in req'[r].tree
  BY <1>1
<1>6. Orderly(req'[r], View(r)', RootsView(r)', trees')
  BY <1>3, <1>4, <1>5 DEF Orderly
<1>. QED
  BY <1>6 DEF Tidy

LEMMA SaveTidy ==
    ASSUME Serial, TidyInv, NEW r \in Request, Save(r)
    PROVE  TidyInv'
<1>1. TypeInv' /\ TypeInv /\ Tidy(r) /\ req[r] \in RequestState /\ InputsKnown(req[r])
      /\ req' \in [Request -> RequestState]
  BY WritesTyped DEF TidyInv, TypeInv, TypeOK
<1>2. /\ req[r].pc = "save" /\ UNCHANGED <<field, trees>> /\ Unwritten(req[r])
      /\ AnchorNamed(req[r], trees) /\ Distinct(View(r))
  BY <1>1 DEF Save, Set, Tidy, Orderly
<1>3. PICK f \in IF req[r].op = "add" THEN Fresh ELSE {req[r].id}, n \in Name, p \in Maybe :
        /\ Savable(r, f, n, p)
        /\ Set(r, [WithRow(req[r], f, req[r].class, req[r].anchor, p, n) EXCEPT
                     !.id = f, !.pc = AfterSave(r)])
  BY DEF Save
<1>4. f \in Field /\ req[r].class \in Classification /\ req[r].anchor \in Maybe
  BY <1>1, <1>2, <1>3 DEF InputsKnown, Fresh, RequestState
<1> DEFINE row == [status |-> "live", class |-> req[r].class, anchor |-> req[r].anchor,
                   parent |-> p, name |-> n]
<1>5. /\ row \in FieldRow /\ row.status = "live" /\ row.anchor = req[r].anchor
      /\ row.parent = p /\ row.name = n
      /\ WithRow(req[r], f, req[r].class, req[r].anchor, p, n) =
           [req[r] EXCEPT !.rows = [req[r].rows EXCEPT ![f] = row]]
  BY <1>4 DEF FieldRow, WithRow
<1>. HIDE DEF row
<1>6. /\ req'[r].rows = [req[r].rows EXCEPT ![f] = row]
      /\ req'[r].gone = req[r].gone /\ req'[r].new = req[r].new
      /\ req'[r].tree = req[r].tree /\ req'[r].op = req[r].op
      /\ req'[r].id = f /\ req'[r].pc = AfterSave(r)
  BY <1>1, <1>3, <1>5 DEF Set, TypeInv, TypeOK, RequestState
<1>7. /\ Row(r, f)'.anchor = req[r].anchor
      /\ Row(r, f)'.status # "absent" /\ Row(r, f)'.parent = p /\ Row(r, f)'.name = n
      /\ \A g \in Field \ {f} : Row(r, g)' = Row(r, g) /\ req'[r].rows[g] = req[r].rows[g]
  <2>1. field' = field
    BY <1>2
  <2>. QED
    BY <1>1, <1>4, <1>5, <1>6, <2>1, RowAfterWrite
<1>8. \A g \in Field : /\ Row(r, g) = field[g] /\ Roots(r, g) = trees[g]
                       /\ Roots(r, g)' = Roots(r, g) /\ req[r].rows[g] = Absent
                       /\ Fits(field[g], trees[g])
  <2>1. \A g \in Field : /\ Row(r, g) = field[g] /\ Roots(r, g) = trees[g]
                         /\ req[r].rows[g] = Absent
    BY <1>1, <1>2, UnwrittenView DEF Unwritten
  <2>2. \A g \in Field : Roots(r, g)' = Roots(r, g)
    BY <1>2, <1>6 DEF Roots
  <2>. QED
    BY <2>1, <2>2 DEF TidyInv
<1>9. CASE req[r].tree = None
  <2>1. req[r].anchor # None => req[r].op = "edit" /\ \E t \in trees[f] : req[r].anchor \in t
    BY <1>2, <1>3, <1>9 DEF AnchorNamed
  <2>2. p # None => trees[f] = {}
    BY <1>3, <1>4, <1>8 DEF Savable, Exists, Fits
  <2>3. Fits(Row(r, f)', Roots(r, f)') /\ Depends(Row(r, f)', Roots(r, f)')
    <3>1. Roots(r, f)' = trees[f]
      BY <1>4, <1>8
    <3>. QED
      BY <1>7, <2>1, <2>2, <3>1 DEF Fits, Depends
  <2>4. req'[r].pc = "subfields"
    BY <1>6, <1>9 DEF AfterSave
  <2>5. Tidy(r)'
    BY <1>1, <1>2, <1>3, <1>4, <1>7, <1>8, <2>3, <2>4, OrderAfterWrite DEF Savable
  <2>. QED
    BY <1>1, <1>2, <2>5, TidyStepOf
<1>10. CASE req[r].tree # None
  <2>1. req'[r].pc = "tree" /\ (req[r].anchor # None => req[r].anchor \in req[r].tree)
    BY <1>2, <1>6, <1>10 DEF AfterSave, AnchorNamed
  <2>2. req'[r].op \in {"add", "edit"}
    BY <1>1, <1>2, <1>6 DEF InputsKnown
  <2>3. ~NameTaken(r, Row(r, f)'.name, f)
    BY <1>3, <1>7 DEF Savable
  <2>4. /\ req'[r].pc = "tree" /\ f = req'[r].id
        /\ Row(r, f)'.anchor # None => Row(r, f)'.anchor \in req'[r].tree
    BY <1>6, <1>7, <2>1
  <2>5. \A g \in Field \ {f} :
           /\ Row(r, g)' = Row(r, g) /\ Roots(r, g)' = Roots(r, g)
           /\ req'[r].rows[g] = req[r].rows[g]
           /\ Fits(Row(r, g), Roots(r, g)) /\ req[r].rows[g] = Absent
    BY <1>7, <1>8
  <2>6. Tidy(r)'
    BY <1>1, <1>2, <1>4, <2>2, <2>3, <2>4, <2>5, OrderAfterWrite
  <2>. QED
    BY <1>1, <1>2, <2>6, TidyStepOf
<1>. QED
  BY <1>9, <1>10

LEMMA PutTreeTidy ==
    ASSUME Serial, TidyInv, NEW r \in Request, PutTree(r)
    PROVE  TidyInv'
<1>1. TypeInv' /\ TypeInv /\ Tidy(r) /\ req[r] \in RequestState /\ InputsKnown(req[r])
  BY WritesTyped DEF TidyInv, TypeInv, TypeOK
<1>0. PICK f, t : f = req[r].id /\ t = req[r].tree
  OBVIOUS
<1>2. /\ req[r].pc = "tree" /\ UNCHANGED <<field, trees>> /\ f \in Field
      /\ Row(r, f).status # "absent" /\ Row(r, f).parent = None
  BY <1>0, <1>1 DEF PutTree, Set, TreeAllowed, Exists, InputsKnown
<1>3. /\ req'[r].rows = req[r].rows /\ req'[r].id = f
      /\ req'[r].pc = IF req[r].op \in {"add", "edit"} THEN "subfields" ELSE "commit"
      /\ req'[r].gone = [req[r].gone EXCEPT
                           ![f] = IF req[r].op \in {"edit", "editTree"} THEN @ \cup trees[f] ELSE @]
      /\ req'[r].new = [req[r].new EXCEPT
                           ![f] = IF req[r].op \in {"edit", "editTree"} THEN {t} ELSE @ \cup {t}]
  BY <1>0, <1>1 DEF PutTree, WithTree, Set, TypeInv, TypeOK, RequestState
<1>4. /\ t \in req'[r].new[f]
      /\ \A g \in Field \ {f} : /\ req'[r].gone[g] = req[r].gone[g]
                                /\ req'[r].new[g] = req[r].new[g]
  BY <1>1, <1>2, <1>3 DEF RequestState
<1>5. \A g \in Field : Row(r, g)' = Row(r, g)
  BY <1>2, <1>3 DEF Row
<1>6. t \in Roots(r, f)' /\ \A g \in Field \ {f} : Roots(r, g)' = Roots(r, g)
  <2>1. trees' = trees
    BY <1>2
  <2>. QED
    BY <1>2, <1>4, <2>1 DEF Roots
<1>7. View(r)' = View(r) /\ Distinct(View(r))
  BY <1>1, <1>5 DEF View, Tidy, Orderly
<1>8. \A g \in Field : /\ View(r)[g] = Row(r, g) /\ RootsView(r)[g] = Roots(r, g)
                       /\ RootsView(r)'[g] = Roots(r, g)'
  BY DEF View, RootsView
<1>9. req[r].rows[f] # Absent /\ Row(r, f).anchor # None => Row(r, f).anchor \in t
  BY <1>0, <1>1, <1>2, <1>8 DEF Tidy, Orderly
<1>10. Fits(View(r)[f], RootsView(r)'[f]) /\ (req[r].rows[f] # Absent => Depends(View(r)[f], RootsView(r)'[f]))
  BY <1>2, <1>6, <1>8, <1>9 DEF Fits, Depends
<1>11. \A g \in Field \ {f} : /\ Fits(View(r)[g], RootsView(r)'[g])
                              /\ req[r].rows[g] # Absent => Depends(View(r)[g], RootsView(r)'[g])
  BY <1>0, <1>1, <1>6, <1>8 DEF Tidy, Orderly
<1>12. req'[r].pc \in {"subfields", "commit"}
  BY <1>3
<1>13. Orderly(req'[r], View(r)', RootsView(r)', trees')
  <2>1. \A g \in Field : /\ Fits(View(r)'[g], RootsView(r)'[g])
                         /\ req'[r].rows[g] # Absent => Depends(View(r)'[g], RootsView(r)'[g])
    <3>1. SUFFICES ASSUME NEW g \in Field
                   PROVE  /\ Fits(View(r)[g], RootsView(r)'[g])
                          /\ req[r].rows[g] # Absent => Depends(View(r)[g], RootsView(r)'[g])
      BY <1>3, <1>7
    <3>2. CASE g = f
      BY <1>10, <3>2
    <3>3. CASE g # f
      BY <1>11, <3>3
    <3>. QED
      BY <3>2, <3>3
  <2>. QED
    BY <1>7, <1>12, <2>1 DEF Orderly
<1>14. Tidy(r)'
  BY <1>13 DEF Tidy
<1>. QED
  BY <1>1, <1>2, <1>14, TidyStepOf

LEMMA PartTidy ==
    ASSUME Serial, TidyInv, NEW r \in Request, Subfield(r) \/ Child(r)
    PROVE  TidyInv'
<1>1. TypeInv' /\ TypeInv /\ Tidy(r) /\ req[r] \in RequestState /\ InputsKnown(req[r])
      /\ req' \in [Request -> RequestState]
  BY WritesTyped DEF TidyInv, TypeInv, TypeOK
<1>2. /\ req[r].pc \in {"subfields", "children"} /\ UNCHANGED <<field, trees>>
      /\ req[r].id \in Field
  BY <1>1 DEF Subfield, Child, Set, InputsKnown
<1>0. /\ req[r].class \in Classification /\ req[r].id \in Maybe /\ None \in Maybe
      /\ req[r].id # None
  BY <1>1, <1>2, CatalogAssumption DEF RequestState, Maybe
<1>3. /\ Distinct(View(r))
      /\ \A g \in Field : /\ Fits(Row(r, g), Roots(r, g))
                          /\ req[r].rows[g] # Absent => Depends(Row(r, g), Roots(r, g))
  BY <1>1, <1>2 DEF Tidy, Orderly, View, RootsView
<1>4. PICK f \in Field, row \in FieldRow :
        /\ row.status = "live"
        /\ req'[r].rows = [req[r].rows EXCEPT ![f] = row]
        /\ req'[r].pc = req[r].pc
        /\ ~NameTaken(r, row.name, f)
        /\ \A g \in Field \ {f} : /\ req'[r].gone[g] = req[r].gone[g]
                                  /\ req'[r].new[g] = req[r].new[g]
        /\ \/ /\ row.anchor = None /\ Roots(r, f) = {}
              /\ req'[r].gone[f] = req[r].gone[f] /\ req'[r].new[f] = req[r].new[f]
           \/ /\ row.anchor = req[r].id /\ row.parent = None
              /\ {req[r].id} \in req'[r].new[f]
  <2>1. CASE Subfield(r)
    <3>1. PICK f \in Field, n \in Name :
            /\ Savable(r, f, n, req[r].id)
            /\ Set(r, WithRow(req[r], f, req[r].class, None, req[r].id, n))
      BY <2>1 DEF Subfield
    <3> DEFINE row == [status |-> "live", class |-> req[r].class, anchor |-> None,
                       parent |-> req[r].id, name |-> n]
    <3>2. /\ row \in FieldRow /\ row.status = "live" /\ row.anchor = None /\ row.name = n
          /\ WithRow(req[r], f, req[r].class, None, req[r].id, n) =
               [req[r] EXCEPT !.rows = [req[r].rows EXCEPT ![f] = row]]
      BY <1>0 DEF FieldRow, WithRow
    <3>. HIDE DEF row
    <3>3. /\ req'[r].rows = [req[r].rows EXCEPT ![f] = row]
          /\ req'[r].pc = req[r].pc
          /\ req'[r].gone = req[r].gone /\ req'[r].new = req[r].new
      BY <1>1, <3>1, <3>2 DEF Set, TypeInv, TypeOK, RequestState
    <3>4. Roots(r, f) = {}
      BY <1>0, <1>3, <3>1 DEF Savable, Exists, Fits
    <3>. QED
      BY <3>1, <3>2, <3>3, <3>4 DEF Savable
  <2>2. CASE Child(r)
    <3>1. PICK f \in Field, n \in Name :
            /\ Savable(r, f, n, None)
            /\ Set(r, WithTree(WithRow(req[r], f, req[r].class, req[r].id, None, n),
                               f, {req[r].id}, f \notin Fresh))
      BY <2>2 DEF Child
    <3> DEFINE row == [status |-> "live", class |-> req[r].class, anchor |-> req[r].id,
                       parent |-> None, name |-> n]
               replace == f \notin Fresh
    <3>2. /\ row \in FieldRow /\ row.status = "live" /\ row.anchor = req[r].id
          /\ row.parent = None /\ row.name = n
          /\ WithRow(req[r], f, req[r].class, req[r].id, None, n) =
               [req[r] EXCEPT !.rows = [req[r].rows EXCEPT ![f] = row]]
      BY <1>0 DEF FieldRow, WithRow
    <3>. HIDE DEF row, replace
    <3>3. /\ req'[r].rows = [req[r].rows EXCEPT ![f] = row] /\ req'[r].pc = req[r].pc
          /\ req'[r].gone = [req[r].gone EXCEPT ![f] = IF replace THEN @ \cup trees[f] ELSE @]
          /\ req'[r].new = [req[r].new EXCEPT ![f] = IF replace THEN {{req[r].id}}
                                                     ELSE @ \cup {{req[r].id}}]
      <4> DEFINE base == [req[r] EXCEPT !.rows = [req[r].rows EXCEPT ![f] = row]]
      <4>1. /\ base.rows = [req[r].rows EXCEPT ![f] = row] /\ base.pc = req[r].pc
            /\ base.gone = req[r].gone /\ base.new = req[r].new
            /\ \A x, y : LET s == [base EXCEPT !.gone[f] = x, !.new[f] = y]
                        IN  /\ s.rows = base.rows /\ s.pc = base.pc
                            /\ s.gone = [base.gone EXCEPT ![f] = x]
                            /\ s.new = [base.new EXCEPT ![f] = y]
        BY <1>1 DEF RequestState
      <4>2. req'[r] = WithTree(base, f, {req[r].id}, replace)
        <5>1. /\ req' = [req EXCEPT ![r] = WithTree(WithRow(req[r], f, req[r].class, req[r].id, None, n),
                                                   f, {req[r].id}, f \notin Fresh)]
              /\ DOMAIN req = Request
          BY <1>1, <3>1 DEF Set, TypeInv, TypeOK
        <5>2. WithRow(req[r], f, req[r].class, req[r].id, None, n) = base
          BY <3>2
        <5> HIDE DEF base
        <5>. QED
          BY <5>1, <5>2 DEF replace
      <4> DEFINE x == IF replace THEN req[r].gone[f] \cup trees[f] ELSE req[r].gone[f]
                 y == IF replace THEN {{req[r].id}} ELSE req[r].new[f] \cup {{req[r].id}}
      <4> HIDE DEF base
      <4>3. req'[r] = [base EXCEPT !.gone[f] = x, !.new[f] = y]
        BY <4>1, <4>2 DEF WithTree
      <4>4. req'[r].gone = [req[r].gone EXCEPT ![f] = x] /\ req'[r].new = [req[r].new EXCEPT ![f] = y]
            /\ req'[r].rows = base.rows /\ req'[r].pc = base.pc
        <5> HIDE DEF x, y
        <5>. QED
          BY <4>1, <4>3
      <4>. QED
        BY <4>1, <4>4
    <3>4. /\ {req[r].id} \in req'[r].new[f]
          /\ \A g \in Field \ {f} : /\ req'[r].gone[g] = req[r].gone[g]
                                    /\ req'[r].new[g] = req[r].new[g]
      BY <1>1, <3>3 DEF RequestState
    <3>5. ~NameTaken(r, row.name, f)
      BY <3>1, <3>2 DEF Savable
    <3>6. /\ row \in FieldRow /\ row.status = "live" /\ row.anchor = req[r].id /\ row.parent = None
          /\ req'[r].rows = [req[r].rows EXCEPT ![f] = row] /\ req'[r].pc = req[r].pc
      BY <3>2, <3>3
    <3>. QED
      BY <3>4, <3>5, <3>6
  <2>. QED
    BY <2>1, <2>2
<1>5. /\ Row(r, f)'.status # "absent" /\ Row(r, f)'.anchor = row.anchor
      /\ Row(r, f)'.parent = row.parent /\ Row(r, f)'.name = row.name
      /\ \A g \in Field \ {f} : Row(r, g)' = Row(r, g) /\ req'[r].rows[g] = req[r].rows[g]
  <2>1. field' = field
    BY <1>2
  <2>. QED
    BY <1>1, <1>4, <2>1, RowAfterWrite
<1>6. /\ \A g \in Field \ {f} : Roots(r, g)' = Roots(r, g)
      /\ \/ row.anchor = None /\ Roots(r, f)' = {}
         \/ row.anchor = req[r].id /\ row.parent = None /\ {req[r].id} \in Roots(r, f)'
  <2>1. trees' = trees
    BY <1>2
  <2>2. \A g : req'[r].gone[g] = req[r].gone[g] /\ req'[r].new[g] = req[r].new[g]
                => Roots(r, g)' = Roots(r, g)
    BY <2>1 DEF Roots
  <2>3. req'[r].new[f] \subseteq Roots(r, f)'
    BY DEF Roots
  <2>. QED
    BY <1>4, <2>2, <2>3
<1>7. Fits(Row(r, f)', Roots(r, f)') /\ Depends(Row(r, f)', Roots(r, f)')
  BY <1>0, <1>5, <1>6 DEF Fits, Depends
<1>8. Tidy(r)'
  <2>1. ~NameTaken(r, Row(r, f)'.name, f)
    BY <1>4, <1>5
  <2>2. req'[r].pc \in {"tree", "subfields", "children", "commit"} /\ req'[r].pc # "tree"
    BY <1>2, <1>4
  <2>3. \A g \in Field \ {f} : /\ Row(r, g)' = Row(r, g) /\ Roots(r, g)' = Roots(r, g)
                              /\ req'[r].rows[g] = req[r].rows[g]
    BY <1>5, <1>6
  <2>4. \A g \in Field \ {f} : /\ Fits(Row(r, g), Roots(r, g))
                              /\ req[r].rows[g] # Absent => Depends(Row(r, g), Roots(r, g))
    BY <1>3
  <2>. QED
    BY <1>1, <1>3, <1>7, <2>1, <2>2, <2>3, <2>4, OrderAfterWrite
<1>. QED
  BY <1>1, <1>2, <1>8, TidyStepOf

LEMMA NextPartTidy ==
    ASSUME Serial, TidyInv, NEW r \in Request, NextPart(r)
    PROVE  TidyInv'
<1>1. TypeInv' /\ TypeInv /\ Tidy(r) /\ req[r] \in RequestState
  BY WritesTyped DEF TidyInv, TypeInv, TypeOK
<1>2. /\ req[r].pc \in {"subfields", "children"} /\ req'[r].pc \in {"children", "commit"}
      /\ UNCHANGED <<field, trees>> /\ req'[r].rows = req[r].rows
      /\ req'[r].gone = req[r].gone /\ req'[r].new = req[r].new
  BY <1>1 DEF NextPart, Set, TypeInv, TypeOK, RequestState
<1>3. View(r)' = View(r) /\ RootsView(r)' = RootsView(r)
  BY <1>2 DEF View, RootsView, Row, Roots
<1>4. Orderly(req'[r], View(r), RootsView(r), trees)
  BY <1>1, <1>2 DEF Tidy, Orderly
<1>5. Tidy(r)'
  BY <1>2, <1>3, <1>4 DEF Tidy
<1>. QED
  BY <1>1, <1>2, <1>5, TidyStepOf

LEMMA EndTidy ==
    ASSUME Serial, TidyInv, NEW r \in Request, Commit(r) \/ Remove(r) \/ Abort(r)
    PROVE  TidyInv'
<1>1. TypeInv' /\ TypeInv /\ Tidy(r) /\ req'[r] = Idle
  BY EndsTyped, WritesTyped DEF TidyInv, Commit, Remove, Abort, Set, TypeInv, TypeOK
<1>2. Distinct(field') /\ \A f \in Field : Fits(field'[f], trees'[f])
  <2>1. CASE Commit(r)
    <3>1. View(r) = field' /\ RootsView(r) = trees'
      BY <2>1 DEF Commit, View, RootsView
    <3>2. Distinct(View(r)) /\ \A f \in Field : Fits(View(r)[f], RootsView(r)[f])
      BY <1>1, <2>1 DEF Commit, Tidy, Orderly
    <3>. QED
      BY <3>1, <3>2
  <2>2. CASE Remove(r)
    <3>1. req[r].id \in Field /\ field[req[r].id] \in FieldRow /\ field \in [Field -> FieldRow]
      BY <1>1, <2>2 DEF Remove, TypeInv, TypeOK, InputsKnown
    <3>2. /\ trees' = trees /\ \A f \in Field \ {req[r].id} : field'[f] = field[f]
          /\ field'[req[r].id] = [field[req[r].id] EXCEPT !.status = "deleted"]
      BY <2>2, <3>1 DEF Remove
    <3>3. /\ field'[req[r].id].status = "deleted"
          /\ field'[req[r].id].parent = field[req[r].id].parent
          /\ field'[req[r].id].anchor = field[req[r].id].anchor
      BY <3>1, <3>2 DEF FieldRow
    <3>4. Distinct(field) /\ \A f \in Field : Fits(field[f], trees[f])
      BY DEF TidyInv
    <3>5. Distinct(field')
      <4>1. \A f \in Field : field'[f].status = "live" => field'[f] = field[f]
        BY <3>2, <3>3
      <4>. QED
        BY <3>4, <4>1 DEF Distinct
    <3>6. ASSUME NEW f \in Field PROVE Fits(field'[f], trees'[f])
      <4>1. CASE f = req[r].id
        <5>1. Fits(field[f], trees[f])
          BY <3>4
        <5>. QED
          BY <3>2, <3>3, <4>1, <5>1 DEF Fits
      <4>2. CASE f # req[r].id
        BY <3>2, <3>4, <4>2
      <4>. QED
        BY <4>1, <4>2
    <3>. QED
      BY <3>5, <3>6
  <2>3. CASE Abort(r)
    BY <2>3 DEF Abort, Set, TidyInv
  <2>. QED
    BY <2>1, <2>2, <2>3
<1>3. Unwritten(req'[r]) /\ req'[r].pc = "idle"
  BY <1>1, IdleUnwritten DEF Idle
<1>4. View(r)' = field' /\ RootsView(r)' = trees'
  BY <1>1, <1>3 DEF View, RootsView, Row, Roots, Unwritten, NoRoots, TypeInv, TypeOK
<1>5. Orderly(req'[r], field', trees', trees')
  BY <1>2, <1>3, UnwrittenOrderly
<1>6. Tidy(r)'
  BY <1>4, <1>5 DEF Tidy
<1>7. \A q \in Request : q = r
  BY DEF Serial
<1>. QED
  BY <1>1, <1>2, <1>6, <1>7 DEF TidyInv

LEMMA TidyInit == Init => TidyInv
<1>. SUFFICES ASSUME Init PROVE TidyInv
  OBVIOUS
<1>1. TypeInv
  BY TypeInit
<1>2. Distinct(field)
  BY DEF Init, Distinct, Absent
<1>3. \A f \in Field : Fits(field[f], trees[f])
  BY DEF Init, SeededRow, Absent, NoRoots, Fits
<1>4. ASSUME NEW r \in Request PROVE Tidy(r)
  <2>1. Unwritten(req[r]) /\ req[r].pc = "idle"
    BY IdleUnwritten DEF Init, Idle
  <2>2. View(r) = field /\ RootsView(r) = trees
    BY <1>1, <2>1, UnwrittenView
  <2>. QED
    BY <1>2, <1>3, <2>1, <2>2, UnwrittenOrderly DEF Tidy
<1>. QED
  BY <1>1, <1>2, <1>3, <1>4 DEF TidyInv

LEMMA TidyStep == Serial /\ TidyInv /\ [Next]_vars => TidyInv'
<1>. SUFFICES ASSUME Serial, TidyInv, [Next]_vars PROVE TidyInv'
  OBVIOUS
<1>1. CASE UNCHANGED vars
  <2>1. TypeInv'
    BY <1>1, TypeStep DEF TidyInv
  <2>2. \A r \in Request : Tidy(r)' = Tidy(r)
    BY <1>1 DEF vars, Tidy, View, RootsView, Row, Roots
  <2>. QED
    BY <1>1, <2>1, <2>2 DEF vars, TidyInv
<1>. QED
  BY <1>1, StartTidy, ResolveTidy, SaveTidy, PutTreeTidy, PartTidy, NextPartTidy, EndTidy
     DEF Next

LEMMA SerialTidy ==
    ASSUME \A q, r \in Request : q = r
    PROVE  Spec => []TidyInv
<1>1. TidyInv /\ [Next]_vars => TidyInv'
  BY TidyStep DEF Serial
<1>. QED
  BY <1>1, TidyInit, PTL DEF Spec

\* No two live fields share a name: every row a save writes is compared with
\* what it has itself written, and a removal never brings a name back
\* (findFieldByName, field.service.ts).
THEOREM SerialNamesUnique ==
    ASSUME \A q, r \in Request : q = r
    PROVE  Spec => []NamesUnique
<1>1. TidyInv => NamesUnique
  BY DEF TidyInv, Distinct, NamesUnique
<1>. QED
  BY <1>1, SerialTidy, PTL

\* A subfield has no tree and no anchor: the checks when a field becomes a
\* subfield and when it gets a tree cover every order of the two.
THEOREM SerialSubfieldsStandAlone ==
    ASSUME \A q, r \in Request : q = r
    PROVE  Spec => []SubfieldsStandAlone
<1>1. TidyInv => SubfieldsStandAlone
  BY DEF TidyInv, Fits, SubfieldsStandAlone
<1>. QED
  BY <1>1, SerialTidy, PTL

\* A save leaves no field it wrote anchored to a field that none of its trees
\* reads (resolveAnchor).
THEOREM SerialSavedAnchorsAreDependencies ==
    ASSUME \A q, r \in Request : q = r
    PROVE  Spec => SavedAnchorsAreDependencies
<1> DEFINE Saved(r) ==
             (/\ req[r].pc = "commit" /\ req'[r].pc = "idle"
              /\ field' = [f \in Field |-> Row(r, f)] /\ trees' = [f \in Field |-> Roots(r, f)])
             => \A f \in Written(r) :
                  field'[f].anchor # None => \E t \in trees'[f] : field'[f].anchor \in t
<1>1. TidyInv /\ [Next]_vars => [\A r \in Request : Saved(r)]_vars
  <2>1. SUFFICES ASSUME TidyInv, NEW r \in Request PROVE Saved(r)
    OBVIOUS
  <2>2. SUFFICES ASSUME req[r].pc = "commit",
                        field' = [f \in Field |-> Row(r, f)],
                        trees' = [f \in Field |-> Roots(r, f)],
                        NEW f \in Written(r), field'[f].anchor # None
                 PROVE  \E t \in trees'[f] : field'[f].anchor \in t
    OBVIOUS
  <2>3. f \in Field /\ req[r].rows[f] # Absent
    BY DEF Written
  <2>4. Depends(Row(r, f), Roots(r, f))
    BY <2>1, <2>2, <2>3 DEF TidyInv, Tidy, Orderly, View, RootsView
  <2>. QED
    BY <2>2, <2>3, <2>4 DEF Depends
<1>. QED
  BY <1>1, SerialTidy, PTL DEF Spec, SavedAnchorsAreDependencies
=============================================================================
