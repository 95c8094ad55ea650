--------------------------- MODULE AnswerStoreProofs ---------------------------
(***************************************************************************)
(* Type correctness of the answer store; cells stay in rows of their own     *)
(* user and repeater however requests interleave; saves whose keys differ    *)
(* never store one answer twice; and while each user has one client that     *)
(* waits, no cell loses its row, what was saved is what is read, and the     *)
(* requests implement the answer book.                                       *)
(***************************************************************************)
EXTENDS AnswerStore, Sublists, FiniteSetTheorems, SequenceTheorems, TLAPS

SaveRecord(pcs) ==
    [pc : pcs, user : User, field : Field, group : Request \cup {None}, value : Value]

LEMMA RequestShapes ==
    ASSUME NEW s \in Requests
    PROVE  /\ s.pc \in {"find", "create"} => s \in SaveRecord({"find", "create"})
           /\ s.pc = "update" =>
                s \in [pc : {"update"}, user : User, field : Field,
                       group : Request \cup {None}, value : Value, existing : Request]
           /\ s.pc \in {"count", "last"} =>
                s \in [pc : {"count", "last"}, user : User, field : Repeater]
           /\ s.pc = "insert" =>
                s \in [pc : {"insert"}, user : User, field : Repeater, order : Nat]
           /\ s.pc = "deleteCells" => s \in [pc : {"deleteCells"}, group : Request]
           /\ s.pc = "deleteGroup" =>
                s \in [pc : {"deleteGroup"}, group : Request, cells : SUBSET Request]
BY DEF Requests, SaveRecord

LEMMA EndTyped ==
    ASSUME TypeOK, NEW r \in Request, NEW pc \in {"idle", "done", "failed"}, End(r, pc)
    PROVE  req' \in [Request -> Requests]
<1>1. [pc |-> pc] \in Requests
  BY DEF Requests
<1>. QED
  BY <1>1 DEF TypeOK, End, Set

LEMMA SetTyped ==
    ASSUME TypeOK, NEW r \in Request, NEW s \in Requests, Set(r, s)
    PROVE  req' \in [Request -> Requests]
BY DEF TypeOK, Set

\* What a save in flight knows: a cell is saved into a row that was checked to
\* be its user's and its repeater's, and a row name is never used again.
SaveBelongs(s) ==
    \/ s.field \in Scalar /\ s.group = None
    \/ /\ s.field \in Subfield /\ s.group \in Request
       /\ req[s.group].pc = "done"
       /\ group[s.group] # None =>
            /\ group[s.group].user = s.user
            /\ group[s.group].field = Parent[s.field]

SavesBelong ==
    \A r \in Request : req[r].pc \in {"find", "create"} => SaveBelongs(req[r])

RowsEnded == \A g \in Request : group[g] # None => req[g].pc = "done"

OnlyCellsGrouped ==
    \A x \in Request :
        answer[x] # None /\ answer[x].group # None => answer[x].field \in Subfield

StoreInv == TypeOK /\ SavesBelong /\ RowsEnded /\ OnlyCellsGrouped /\ CellsBelong

LEMMA StoreInit == Init => StoreInv
<1>. SUFFICES ASSUME Init PROVE StoreInv
  OBVIOUS
<1>1. [pc |-> "idle"] \in Requests
  BY DEF Requests
<1>2. TypeOK
  BY <1>1 DEF Init, TypeOK
<1>. QED
  BY <1>2 DEF Init, StoreInv, SavesBelong, RowsEnded, OnlyCellsGrouped, CellsBelong

-----------------------------------------------------------------------------
\* A step of r that leaves the rows alone; what r may still save belongs.
LEMMA QuietStep ==
    ASSUME StoreInv, NEW r \in Request, req[r].pc # "done",
           NEW s \in Requests, Set(r, s), UNCHANGED <<answer, group>>,
           s.pc \in {"find", "create"} => SaveBelongs(s)
    PROVE  StoreInv'
<1>. USE DEF StoreInv
<1>1. TypeOK'
  BY SetTyped DEF TypeOK
<1>2. \A q \in Request : req'[q] = IF q = r THEN s ELSE req[q]
  BY DEF Set, TypeOK
<1>3. \A q \in Request : req[q].pc = "done" => req'[q].pc = "done"
  BY <1>2
<1>4. SavesBelong'
  BY <1>2, <1>3 DEF SavesBelong, SaveBelongs
<1>5. RowsEnded'
  BY <1>3 DEF RowsEnded
<1>6. OnlyCellsGrouped' /\ CellsBelong'
  BY DEF OnlyCellsGrouped, CellsBelong
<1>. QED
  BY <1>1, <1>4, <1>5, <1>6

LEMMA EndedState ==
    ASSUME NEW pc \in {"idle", "done", "failed"}
    PROVE  [pc |-> pc] \in Requests
BY DEF Requests

LEMMA QuietEnd ==
    ASSUME StoreInv, NEW r \in Request, req[r].pc # "done",
           NEW pc \in {"done", "failed"}, End(r, pc), UNCHANGED <<answer, group>>
    PROVE  StoreInv'
BY QuietStep, EndedState DEF End

LEMMA SubmitInv ==
    ASSUME StoreInv, NEW r \in Request, Submit(r)
    PROVE  StoreInv'
<1>. USE DEF StoreInv
<1>1. req[r].pc = "idle"
  BY DEF Submit, MayStartItem, MayStart
<1>2. PICK u \in User, f \in Field \cup Repeater, g \in Request \cup {None}, v \in Value :
          IF Answerable(u, f, g)
          THEN Set(r, [pc |-> "find", user |-> u, field |-> f, group |-> g, value |-> v])
          ELSE End(r, "failed")
  BY DEF Submit
<1>3. CASE ~Answerable(u, f, g)
  BY <1>1, <1>2, <1>3, QuietEnd DEF Submit
<1>4. CASE Answerable(u, f, g)
  <2>. DEFINE s == [pc |-> "find", user |-> u, field |-> f, group |-> g, value |-> v]
  <2>1. f \in Field
    BY <1>4 DEF Answerable, Field
  <2>2. s \in Requests
    BY <2>1 DEF Requests
  <2>3. SaveBelongs(s)
    BY <1>4 DEF Answerable, SaveBelongs, RowsEnded
  <2>. QED
    BY <1>1, <1>2, <1>4, <2>2, <2>3, QuietStep DEF Submit
<1>. QED
  BY <1>3, <1>4

LEMMA FindInv ==
    ASSUME StoreInv, NEW r \in Request, Find(r)
    PROVE  StoreInv'
<1>. USE DEF StoreInv
<1>1. req[r] \in SaveRecord({"find", "create"}) /\ req[r].pc = "find"
  BY RequestShapes DEF Find, TypeOK
<1>2. ASSUME NEW x \in Request,
             Set(r, [pc |-> "update", user |-> req[r].user, field |-> req[r].field,
                     group |-> req[r].group, value |-> req[r].value, existing |-> x])
      PROVE  StoreInv'
  <2>. DEFINE s == [pc |-> "update", user |-> req[r].user, field |-> req[r].field,
                    group |-> req[r].group, value |-> req[r].value, existing |-> x]
  <2>1. s \in Requests
    BY <1>1 DEF Requests, SaveRecord
  <2>. QED
    BY <1>1, <1>2, <2>1, QuietStep DEF Find
<1>3. ASSUME Set(r, [req[r] EXCEPT !.pc = "create"])
      PROVE  StoreInv'
  <2>. DEFINE s == [req[r] EXCEPT !.pc = "create"]
  <2>1. s \in Requests
    BY <1>1 DEF Requests, SaveRecord
  <2>2. SaveBelongs(s)
    BY <1>1 DEF SavesBelong, SaveBelongs, SaveRecord
  <2>. QED
    BY <1>1, <1>3, <2>1, <2>2, QuietStep DEF Find
<1>4. Matching(req[r].user, req[r].field, req[r].group) \subseteq Request
  BY DEF Matching
<1>. QED
  BY <1>2, <1>3, <1>4 DEF Find

LEMMA UpdateInv ==
    ASSUME StoreInv, NEW r \in Request, Update(r)
    PROVE  StoreInv'
<1>. USE DEF StoreInv
<1>1. /\ req[r].pc = "update" /\ req[r].existing \in Request /\ req[r].value \in Value
  BY RequestShapes DEF Update, TypeOK
<1>2. CASE answer[req[r].existing] = None
  BY <1>1, <1>2, QuietEnd DEF Update
<1>3. CASE answer[req[r].existing] # None
  <2>. DEFINE x == req[r].existing
  <2>1. /\ answer' = [answer EXCEPT ![x].value = req[r].value]
        /\ End(r, "done") /\ group' = group
    BY <1>3 DEF Update
  <2>2. answer[x] \in AnswerRow
    BY <1>1, <1>3 DEF TypeOK
  <2>3. TypeOK'
    <3>1. answer' \in [Request -> AnswerRow \cup {None}]
      BY <1>1, <2>1, <2>2 DEF TypeOK, AnswerRow
    <3>. QED
      BY <2>1, <3>1, EndTyped DEF TypeOK
  <2>4. \A y \in Request : /\ answer'[y] # None => answer[y] # None
                           /\ answer'[y] # None => answer'[y].group = answer[y].group
                           /\ answer'[y] # None => answer'[y].user = answer[y].user
                           /\ answer'[y] # None => answer'[y].field = answer[y].field
    BY <1>1, <1>3, <2>1, <2>2 DEF TypeOK, AnswerRow
  <2>5. \A q \in Request : /\ req[q].pc = "done" => req'[q].pc = "done"
                           /\ req'[q].pc \in {"find", "create"} => req'[q] = req[q]
    BY <2>1 DEF End, Set, TypeOK
  <2>6. SavesBelong'
    BY <2>1, <2>5 DEF SavesBelong, SaveBelongs
  <2>7. RowsEnded'
    BY <2>1, <2>5 DEF RowsEnded
  <2>8. OnlyCellsGrouped' /\ CellsBelong'
    BY <2>1, <2>4 DEF OnlyCellsGrouped, CellsBelong
  <2>. QED
    BY <2>3, <2>6, <2>7, <2>8
<1>. QED
  BY <1>2, <1>3

LEMMA CreateInv ==
    ASSUME StoreInv, NEW r \in Request, Create(r)
    PROVE  StoreInv'
<1>. USE DEF StoreInv
<1>1. req[r].pc = "create" /\ req[r] \in SaveRecord({"find", "create"}) /\ SaveBelongs(req[r])
  BY RequestShapes DEF Create, TypeOK, SavesBelong
<1>2. CASE End(r, "failed") /\ UNCHANGED answer
  BY <1>1, <1>2, QuietEnd DEF Create
<1>3. CASE ~(End(r, "failed") /\ UNCHANGED answer)
  <2>. DEFINE new == [user |-> req[r].user, field |-> req[r].field,
                      group |-> req[r].group, value |-> req[r].value]
  <2>1. /\ req[r].group # None => group[req[r].group] # None
        /\ answer' = [answer EXCEPT ![r] = new]
        /\ End(r, "done") /\ group' = group
    BY <1>3 DEF Create
  <2>2. new \in AnswerRow
    BY <1>1 DEF AnswerRow, SaveRecord
  <2>3. TypeOK'
    BY <2>1, <2>2, EndTyped DEF TypeOK
  <2>4. \A y \in Request : answer'[y] = IF y = r THEN new ELSE answer[y]
    BY <2>1 DEF TypeOK
  <2>5. \A q \in Request : /\ req[q].pc = "done" => req'[q].pc = "done"
                           /\ req'[q].pc \in {"find", "create"} => req'[q] = req[q]
    BY <2>1 DEF End, Set, TypeOK
  <2>6. SavesBelong'
    BY <2>1, <2>5 DEF SavesBelong, SaveBelongs
  <2>7. RowsEnded'
    BY <2>1, <2>5 DEF RowsEnded
  <2>8. new.group # None =>
          /\ new.field \in Subfield
          /\ group[new.group] # None
          /\ group[new.group].user = new.user
          /\ group[new.group].field = Parent[new.field]
    BY <1>1, <2>1 DEF SaveBelongs
  <2>9. OnlyCellsGrouped' /\ CellsBelong'
    BY <2>1, <2>4, <2>8 DEF OnlyCellsGrouped, CellsBelong
  <2>. QED
    BY <2>3, <2>6, <2>7, <2>9
<1>. QED
  BY <1>2, <1>3

-----------------------------------------------------------------------------
LEMMA AddRowInv ==
    ASSUME StoreInv, NEW r \in Request, AddRow(r) \/ SyncRow(r)
    PROVE  StoreInv'
<1>1. req[r].pc = "idle" /\ UNCHANGED <<answer, group>>
  BY DEF AddRow, SyncRow, MayStartAlone, MayStart
<1>2. ASSUME NEW u \in User, NEW f \in Repeater,
             Set(r, [pc |-> "count", user |-> u, field |-> f])
      PROVE  StoreInv'
  <2>1. [pc |-> "count", user |-> u, field |-> f] \in Requests
    BY DEF Requests
  <2>. QED
    BY <1>1, <1>2, <2>1, QuietStep
<1>3. CASE End(r, "done")
  BY <1>1, <1>3, QuietEnd
<1>. QED
  BY <1>2, <1>3 DEF AddRow, SyncRow

LEMMA CountRowsInv ==
    ASSUME StoreInv, NEW r \in Request, CountRows(r)
    PROVE  StoreInv'
<1>1. req[r].pc = "count" /\ req[r] \in [pc : {"count", "last"}, user : User, field : Repeater]
  BY RequestShapes DEF CountRows, StoreInv, TypeOK
<1>2. [req[r] EXCEPT !.pc = "last"] \in Requests
  BY <1>1 DEF Requests
<1>3. CASE End(r, "failed")
  BY <1>1, <1>3, QuietEnd DEF CountRows
<1>4. CASE Set(r, [req[r] EXCEPT !.pc = "last"])
  BY <1>1, <1>2, <1>4, QuietStep DEF CountRows
<1>. QED
  BY <1>3, <1>4 DEF CountRows

LEMMA LastRowInv ==
    ASSUME StoreInv, NEW r \in Request, LastRow(r)
    PROVE  StoreInv'
<1>1. req[r].pc = "last" /\ req[r] \in [pc : {"count", "last"}, user : User, field : Repeater]
  BY RequestShapes DEF LastRow, StoreInv, TypeOK
<1>2. PICK n \in 0 .. Cardinality(Request) :
          Set(r, [pc |-> "insert", user |-> req[r].user, field |-> req[r].field,
                  order |-> n])
  BY DEF LastRow
<1>3. [pc |-> "insert", user |-> req[r].user, field |-> req[r].field, order |-> n]
        \in Requests
  <2>1. n \in Nat
    OBVIOUS
  <2>. QED
    BY <1>1, <2>1 DEF Requests
<1>. QED
  BY <1>1, <1>2, <1>3, QuietStep DEF LastRow

LEMMA InsertRowInv ==
    ASSUME StoreInv, NEW r \in Request, InsertRow(r)
    PROVE  StoreInv'
<1>. USE DEF StoreInv
<1>1. /\ req[r].pc = "insert"
      /\ req[r] \in [pc : {"insert"}, user : User, field : Repeater, order : Nat]
  BY RequestShapes DEF InsertRow, TypeOK
<1>. DEFINE new == [user |-> req[r].user, field |-> req[r].field, order |-> req[r].order]
<1>2. group' = [group EXCEPT ![r] = new] /\ End(r, "done") /\ answer' = answer
  BY DEF InsertRow
<1>3. new \in GroupRow
  BY <1>1 DEF GroupRow
<1>4. TypeOK'
  BY <1>2, <1>3, EndTyped DEF TypeOK
<1>5. \A q \in Request : /\ req[q].pc = "done" => req'[q].pc = "done"
                         /\ req'[q].pc \in {"find", "create"} => req'[q] = req[q]
                         /\ q # r => group'[q] = group[q]
                         /\ req'[r].pc = "done"
  BY <1>2 DEF End, Set, TypeOK
<1>6. group[r] = None
  BY <1>1 DEF RowsEnded
<1>7. SavesBelong'
  BY <1>1, <1>5 DEF SavesBelong, SaveBelongs
<1>8. RowsEnded'
  BY <1>5 DEF RowsEnded
<1>9. \A x \in Request : answer[x] # None /\ answer[x].group # None =>
                            answer[x].group \in Request /\ answer[x].group # r
  BY <1>6 DEF CellsBelong, TypeOK, AnswerRow
<1>10. OnlyCellsGrouped' /\ CellsBelong'
  BY <1>2, <1>5, <1>9 DEF OnlyCellsGrouped, CellsBelong
<1>. QED
  BY <1>4, <1>7, <1>8, <1>10

-----------------------------------------------------------------------------
LEMMA DeleteRowInv ==
    ASSUME StoreInv, NEW r \in Request, DeleteRow(r)
    PROVE  StoreInv'
<1>1. req[r].pc = "idle" /\ UNCHANGED <<answer, group>>
  BY DEF DeleteRow, MayStartAlone, MayStart
<1>2. ASSUME NEW g \in Request, Set(r, [pc |-> "deleteCells", group |-> g])
      PROVE  StoreInv'
  <2>1. [pc |-> "deleteCells", group |-> g] \in Requests
    BY DEF Requests
  <2>. QED
    BY <1>1, <1>2, <2>1, QuietStep
<1>3. CASE End(r, "failed")
  BY <1>1, <1>3, QuietEnd
<1>. QED
  BY <1>2, <1>3 DEF DeleteRow

LEMMA DeleteCellsInv ==
    ASSUME StoreInv, NEW r \in Request, DeleteCells(r)
    PROVE  StoreInv'
<1>1. req[r].pc = "deleteCells" /\ req[r].group \in Request
  BY RequestShapes DEF DeleteCells, StoreInv, TypeOK
<1>2. [pc |-> "deleteGroup", group |-> req[r].group, cells |-> Cells(req[r].group)]
        \in Requests
  BY <1>1 DEF Requests, Cells
<1>. QED
  BY <1>1, <1>2, QuietStep DEF DeleteCells

LEMMA DeleteGroupInv ==
    ASSUME StoreInv, NEW r \in Request, DeleteGroup(r)
    PROVE  StoreInv'
<1>. USE DEF StoreInv
<1>. DEFINE g == req[r].group
<1>1. req[r].pc = "deleteGroup" /\ g \in Request
  BY RequestShapes DEF DeleteGroup, TypeOK
<1>2. CASE group[g] = None
  BY <1>1, <1>2, QuietEnd DEF DeleteGroup
<1>3. CASE group[g] # None
  <2>1. /\ group' = [group EXCEPT ![g] = None]
        /\ answer' = [x \in Request |->
             IF x \in req[r].cells THEN None
             ELSE IF x \in Cells(g) THEN [answer[x] EXCEPT !.group = None]
             ELSE answer[x]]
        /\ End(r, "done")
    BY <1>3 DEF DeleteGroup
  <2>2. \A x \in Cells(g) : [answer[x] EXCEPT !.group = None] \in AnswerRow
    BY DEF Cells, TypeOK, AnswerRow
  <2>3. TypeOK'
    <3>1. answer' \in [Request -> AnswerRow \cup {None}]
      BY <2>1, <2>2 DEF TypeOK
    <3>2. group' \in [Request -> GroupRow \cup {None}]
      BY <2>1 DEF TypeOK
    <3>. QED
      BY <2>1, <3>1, <3>2, EndTyped DEF TypeOK
  <2>4. \A x \in Request : answer'[x] # None /\ answer'[x].group # None =>
                              answer'[x] = answer[x] /\ answer[x].group # g
    <3>. SUFFICES ASSUME NEW x \in Request, answer'[x] # None, answer'[x].group # None
                  PROVE  answer'[x] = answer[x] /\ answer[x].group # g
      OBVIOUS
    <3>1. x \notin req[r].cells
      BY <2>1
    <3>2. x \notin Cells(g)
      BY <2>1, <3>1 DEF Cells, TypeOK, AnswerRow
    <3>. QED
      BY <2>1, <3>1, <3>2 DEF Cells
  <2>5. \A q \in Request : /\ req[q].pc = "done" => req'[q].pc = "done"
                           /\ req'[q].pc \in {"find", "create"} => req'[q] = req[q]
    BY <2>1 DEF End, Set, TypeOK
  <2>6. \A q \in Request : group'[q] # None => group'[q] = group[q]
    BY <2>1 DEF TypeOK
  <2>7. SavesBelong'
    BY <2>5, <2>6 DEF SavesBelong, SaveBelongs
  <2>8. RowsEnded'
    BY <2>5, <2>6 DEF RowsEnded
  <2>9. OnlyCellsGrouped'
    BY <2>4 DEF OnlyCellsGrouped
  <2>10. \A q \in Request : q # g => group'[q] = group[q]
    BY <2>1 DEF TypeOK
  <2>11. CellsBelong'
    BY <2>4, <2>10 DEF CellsBelong, TypeOK, AnswerRow
  <2>. QED
    BY <2>3, <2>7, <2>8, <2>9, <2>11
<1>. QED
  BY <1>2, <1>3

LEMMA StoreStep == StoreInv /\ [Next]_vars => StoreInv'
<1>. SUFFICES ASSUME StoreInv, [Next]_vars PROVE StoreInv'
  OBVIOUS
<1>1. ASSUME NEW r \in Request, Abort(r) PROVE StoreInv'
  BY <1>1, QuietEnd DEF Abort, Ended
<1>2. CASE UNCHANGED vars
  BY <1>2 DEF vars, StoreInv, TypeOK, SavesBelong, SaveBelongs, RowsEnded,
              OnlyCellsGrouped, CellsBelong
<1>. QED
  BY <1>1, <1>2, SubmitInv, FindInv, UpdateInv, CreateInv, AddRowInv, CountRowsInv,
     LastRowInv, InsertRowInv, DeleteRowInv, DeleteCellsInv, DeleteGroupInv DEF Next

\* Every behavior keeps the types of the tables and of the requests.
THEOREM StoreTypeCorrect == Spec => []TypeOK
BY StoreInit, StoreStep, PTL DEF Spec, StoreInv

\* However saves, new rows and deletions interleave, a cell is in an existing row
\* of its own user and repeater: the stale check of a save is made good by the
\* foreign key (fieldAnswer.service.ts:242-260).
THEOREM CellsAlwaysBelong == Spec => []CellsBelong
BY StoreInit, StoreStep, PTL DEF Spec, StoreInv

-----------------------------------------------------------------------------
\* Two saves in flight never have the same key.
NoTwins ==
    \A p, q \in Request : Saving(p) /\ Saving(q) /\ p # q =>
        <<req[p].user, req[p].field, req[p].group>> # <<req[q].user, req[q].field, req[q].group>>

\* A save about to create a scalar answer is alone to have found none.
CreatesAreNew ==
    \A r, x \in Request : req[r].pc = "create" /\ req[r].field \in Scalar =>
        x \notin Matching(req[r].user, req[r].field, None)

OneAnswerInv == StoreInv /\ NoTwins /\ CreatesAreNew /\ OneAnswerPerField

LEMMA OneAnswerInit == Init => OneAnswerInv
BY StoreInit DEF Init, OneAnswerInv, NoTwins, CreatesAreNew, OneAnswerPerField, Saving, Matching

\* Steps that create no scalar answer and start no save.
LEMMA KeepsOneAnswer ==
    ASSUME OneAnswerInv, StoreInv',
           \A x \in Request, f \in Scalar, u \in User :
              x \in Matching(u, f, None)' => x \in Matching(u, f, None),
           \A q \in Request : Saving(q)' =>
              /\ Saving(q)
              /\ req'[q].user = req[q].user /\ req'[q].field = req[q].field
              /\ req'[q].group = req[q].group,
           \A q \in Request : req'[q].pc = "create" /\ req[q].pc # "create" =>
              Matching(req[q].user, req[q].field, req[q].group) = {}
    PROVE  OneAnswerInv'
<1>. USE DEF OneAnswerInv
<1>1. NoTwins'
  BY DEF NoTwins
<1>2. CreatesAreNew'
  <2>. SUFFICES ASSUME NEW r \in Request, NEW x \in Request,
                       req'[r].pc = "create", req'[r].field \in Scalar,
                       (x \in Matching(req[r].user, req[r].field, None))'
                PROVE  FALSE
    BY DEF CreatesAreNew
  <2>1. Saving(r)' /\ Saving(r)
    BY DEF Saving
  <2>2. req'[r].user = req[r].user /\ req'[r].field = req[r].field /\ req'[r].group = req[r].group
    BY <2>1
  <2>3. req'[r] \in SaveRecord({"find", "create"}) /\ SaveBelongs(req[r])'
    BY RequestShapes, StoreInv' DEF StoreInv, TypeOK, SavesBelong
  <2>4. req[r].group = None /\ req[r].user \in User
    BY <2>2, <2>3, AnswerStoreAssumption DEF SaveBelongs, SaveRecord
  <2>5. x \notin Matching(req[r].user, req[r].field, None)
    BY <2>2, <2>4 DEF CreatesAreNew
  <2>7. (x \in Matching(req[r].user, req[r].field, None))
    BY <2>2, <2>4 DEF Matching
  <2>. QED
    BY <2>5, <2>7
<1>3. OneAnswerPerField'
  BY DEF OneAnswerPerField, Matching
<1>. QED
  BY <1>1, <1>2, <1>3

LEMMA StartsOneAnswer ==
    ASSUME OneAnswerInv, StoreInv', Deduped = TRUE, NEW r \in Request, Submit(r)
    PROVE  OneAnswerInv'
<1>. USE DEF OneAnswerInv
<1>1. req[r].pc = "idle" /\ UNCHANGED <<answer, group>>
  BY DEF Submit, MayStartItem, MayStart
<1>2. PICK u \in User, f \in Field \cup Repeater, g \in Request \cup {None}, v \in Value :
          /\ NoTwin(u, f, g)
          /\ IF Answerable(u, f, g)
             THEN Set(r, [pc |-> "find", user |-> u, field |-> f, group |-> g, value |-> v])
             ELSE End(r, "failed")
  BY DEF Submit
<1>3. CASE ~Answerable(u, f, g)
  <2>1. \A q \in Request : req'[q] = IF q = r THEN [pc |-> "failed"] ELSE req[q]
    BY <1>2, <1>3 DEF End, Set, StoreInv, TypeOK
  <2>2. \A q \in Request : Saving(q)' => Saving(q) /\ req'[q] = req[q]
    BY <2>1 DEF Saving
  <2>3. \A q \in Request : req'[q].pc = "create" => req[q].pc = "create"
    BY <2>1
  <2>4. \A x \in Request, h \in Scalar, w \in User :
            x \in Matching(w, h, None)' => x \in Matching(w, h, None)
    BY <1>1 DEF Matching
  <2>. QED
    BY <2>2, <2>3, <2>4, KeepsOneAnswer
<1>4. CASE Answerable(u, f, g)
  <2>. DEFINE s == [pc |-> "find", user |-> u, field |-> f, group |-> g, value |-> v]
  <2>1. \A q \in Request : req'[q] = IF q = r THEN s ELSE req[q]
    BY <1>2, <1>4 DEF Set, StoreInv, TypeOK
  <2>2. \A q \in Request : Saving(q) =>
            <<req[q].user, req[q].field, req[q].group>> # <<u, f, g>>
    BY <1>2 DEF NoTwin
  <2>3. NoTwins'
    BY <2>1, <2>2 DEF NoTwins, Saving
  <2>4. CreatesAreNew'
    BY <1>1, <2>1 DEF CreatesAreNew, Matching
  <2>5. OneAnswerPerField'
    BY <1>1 DEF OneAnswerPerField, Matching
  <2>. QED
    BY <2>3, <2>4, <2>5
<1>. QED
  BY <1>3, <1>4

LEMMA FindsOneAnswer ==
    ASSUME OneAnswerInv, StoreInv', NEW r \in Request, Find(r)
    PROVE  OneAnswerInv'
<1>. USE DEF OneAnswerInv
<1>1. /\ req[r].pc = "find" /\ req[r] \in SaveRecord({"find", "create"})
      /\ UNCHANGED <<answer, group>>
  BY RequestShapes DEF Find, StoreInv, TypeOK
<1>2. /\ \A q \in Request : q # r => req'[q] = req[q]
      /\ req'[r].user = req[r].user /\ req'[r].field = req[r].field
      /\ req'[r].group = req[r].group
      /\ req'[r].pc = "create" => Matching(req[r].user, req[r].field, req[r].group) = {}
  BY <1>1 DEF Find, Set, StoreInv, TypeOK, SaveRecord
<1>3. \A x \in Request, h \in Scalar, w \in User :
          x \in Matching(w, h, None)' => x \in Matching(w, h, None)
  BY <1>1 DEF Matching
<1>. QED
  BY <1>1, <1>2, <1>3, KeepsOneAnswer DEF Saving

LEMMA CreatesOneAnswer ==
    ASSUME OneAnswerInv, StoreInv', NEW r \in Request, Create(r)
    PROVE  OneAnswerInv'
<1>. USE DEF OneAnswerInv
<1>1. req[r].pc = "create" /\ req[r] \in SaveRecord({"find", "create"})
  BY RequestShapes DEF Create, StoreInv, TypeOK
<1>2. PICK pc \in {"done", "failed"} : End(r, pc)
  BY DEF Create
<1>3. \A q \in Request : req'[q] = IF q = r THEN [pc |-> pc] ELSE req[q]
  BY <1>2 DEF End, Set, StoreInv, TypeOK
<1>4. \A q \in Request : Saving(q)' => q # r /\ Saving(q) /\ req'[q] = req[q]
  BY <1>3 DEF Saving
<1>5. CASE UNCHANGED answer
  <2>1. \A q \in Request : req'[q].pc = "create" => req[q].pc = "create"
    BY <1>3
  <2>2. \A x \in Request, h \in Scalar, w \in User :
            x \in Matching(w, h, None)' => x \in Matching(w, h, None)
    BY <1>5 DEF Matching
  <2>. QED
    BY <1>4, <2>1, <2>2, KeepsOneAnswer
<1>6. CASE ~UNCHANGED answer
  <2>1. answer' = [answer EXCEPT ![r] =
            [user |-> req[r].user, field |-> req[r].field, group |-> req[r].group,
             value |-> req[r].value]]
    BY <1>6 DEF Create
  <2>2. \A x \in Request : x # r => answer'[x] = answer[x]
    BY <2>1 DEF StoreInv, TypeOK
  <2>3. /\ answer'[r].user = req[r].user /\ answer'[r].field = req[r].field
        /\ answer'[r].group = req[r].group
    BY <2>1 DEF StoreInv, TypeOK
  <2>4. NoTwins'
    BY <1>4 DEF NoTwins
  <2>5. CreatesAreNew'
    <3>. SUFFICES ASSUME NEW q \in Request, NEW x \in Request,
                         req'[q].pc = "create", req'[q].field \in Scalar,
                         (x \in Matching(req[q].user, req[q].field, None))'
                  PROVE  FALSE
      BY DEF CreatesAreNew
    <3>1. q # r /\ req'[q] = req[q] /\ Saving(q) /\ Saving(r)
      BY <1>1, <1>4 DEF Saving
    <3>2. req[q].group = None
      BY <3>1, AnswerStoreAssumption DEF StoreInv, SavesBelong, SaveBelongs
    <3>3. CASE x = r
      <4>1. <<req[q].user, req[q].field, req[q].group>>
              = <<req[r].user, req[r].field, req[r].group>>
        BY <2>3, <3>1, <3>2, <3>3 DEF Matching
      <4>. QED
        BY <3>1, <4>1 DEF NoTwins
    <3>4. CASE x # r
      BY <2>2, <3>1, <3>4 DEF Matching, CreatesAreNew
    <3>. QED
      BY <3>3, <3>4
  <2>6. OneAnswerPerField'
    <3>. SUFFICES ASSUME NEW f \in Scalar, NEW u \in User, NEW x \in Request, NEW y \in Request,
                         x \in Matching(u, f, None)', y \in Matching(u, f, None)', x # y
                  PROVE  FALSE
      BY DEF OneAnswerPerField, Matching
    <3>1. CASE x # r /\ y # r
      BY <2>2, <3>1 DEF OneAnswerPerField, Matching
    <3>2. ASSUME NEW z \in Request, z # r, z \in Matching(u, f, None)',
                 r \in Matching(u, f, None)'
          PROVE  FALSE
      <4>1. u = req[r].user /\ f = req[r].field
        BY <2>3, <3>2 DEF Matching
      <4>2. z \in Matching(req[r].user, req[r].field, None)
        BY <2>2, <3>2, <4>1 DEF Matching
      <4>. QED
        BY <1>1, <4>1, <4>2 DEF CreatesAreNew
    <3>. QED
      BY <3>1, <3>2
  <2>. QED
    BY <2>4, <2>5, <2>6
<1>. QED
  BY <1>5, <1>6

LEMMA OthersKeepOneAnswer ==
    ASSUME OneAnswerInv, StoreInv', NEW r \in Request,
           \/ Update(r) \/ AddRow(r) \/ SyncRow(r) \/ CountRows(r) \/ LastRow(r)
           \/ InsertRow(r) \/ DeleteRow(r) \/ DeleteCells(r) \/ DeleteGroup(r) \/ Abort(r)
    PROVE  OneAnswerInv'
<1>. USE DEF OneAnswerInv
<1>1. /\ \A q \in Request : q # r => req'[q] = req[q]
      /\ req'[r].pc \notin {"find", "update", "create"}
  <2>1. req \in [Request -> Requests]
    BY DEF StoreInv, TypeOK
  <2>2. CASE CountRows(r)
    <3>1. req[r] \in [pc : {"count", "last"}, user : User, field : Repeater]
      BY <2>1, <2>2, RequestShapes DEF CountRows
    <3>. QED
      BY <2>1, <2>2, <3>1 DEF CountRows, End, Set
  <2>3. ASSUME NEW s, Set(r, s), s.pc \notin {"find", "update", "create"}
        PROVE  /\ \A q \in Request : q # r => req'[q] = req[q]
               /\ req'[r].pc \notin {"find", "update", "create"}
    BY <2>1, <2>3 DEF Set
  <2>4. ASSUME NEW pc \in {"done", "failed"}, End(r, pc)
        PROVE  /\ \A q \in Request : q # r => req'[q] = req[q]
               /\ req'[r].pc \notin {"find", "update", "create"}
    BY <2>1, <2>4 DEF End, Set
  <2>5. CASE Update(r) \/ InsertRow(r) \/ Abort(r)
    BY <2>4, <2>5 DEF Update, InsertRow, Abort
  <2>6. CASE AddRow(r)
    BY <2>3, <2>6 DEF AddRow
  <2>7. CASE SyncRow(r)
    BY <2>3, <2>4, <2>7 DEF SyncRow
  <2>8. CASE LastRow(r)
    BY <2>3, <2>8 DEF LastRow
  <2>9. CASE DeleteRow(r)
    BY <2>3, <2>4, <2>9 DEF DeleteRow
  <2>10. CASE DeleteCells(r)
    BY <2>3, <2>10 DEF DeleteCells
  <2>11. CASE DeleteGroup(r)
    BY <2>4, <2>11 DEF DeleteGroup
  <2>. QED
    BY <2>2, <2>5, <2>6, <2>7, <2>8, <2>9, <2>10, <2>11
<1>2. \A x \in Request, f \in Scalar, u \in User :
          x \in Matching(u, f, None)' => x \in Matching(u, f, None)
  <2>1. CASE UNCHANGED answer
    BY <2>1 DEF Matching
  <2>2. CASE Update(r)
    <3>1. req[r].existing \in Request
      BY <2>2, RequestShapes DEF Update, StoreInv, TypeOK
    <3>2. CASE answer[req[r].existing] = None
      BY <2>1, <2>2, <3>2 DEF Update
    <3>3. CASE answer[req[r].existing] # None
      <4>1. answer[req[r].existing] \in AnswerRow
        BY <3>1, <3>3 DEF StoreInv, TypeOK
      <4>2. answer' = [answer EXCEPT ![req[r].existing].value = req[r].value]
        BY <2>2, <3>3 DEF Update
      <4>. QED
        BY <3>1, <3>3, <4>1, <4>2 DEF Matching, StoreInv, TypeOK, AnswerRow
    <3>. QED
      BY <3>2, <3>3
  <2>3. CASE DeleteGroup(r) /\ ~UNCHANGED answer
    <3>1. answer' = [x \in Request |->
               IF x \in req[r].cells THEN None
               ELSE IF x \in Cells(req[r].group) THEN [answer[x] EXCEPT !.group = None]
               ELSE answer[x]]
      BY <2>3 DEF DeleteGroup
    <3>2. req[r].group \in Request
      BY <2>3, RequestShapes DEF DeleteGroup, StoreInv, TypeOK
    <3>3. \A x \in Cells(req[r].group) :
              /\ answer[x] \in AnswerRow
              /\ answer[x].field \in Subfield
      BY <3>2, AnswerStoreAssumption DEF Cells, StoreInv, TypeOK, OnlyCellsGrouped
    <3>4. \A x \in Cells(req[r].group) : [answer[x] EXCEPT !.group = None].field \in Subfield
      BY <3>3 DEF AnswerRow
    <3>. QED
      BY <3>1, <3>4, AnswerStoreAssumption DEF Matching
  <2>. QED
    BY <2>1, <2>2, <2>3 DEF AddRow, SyncRow, CountRows, LastRow, InsertRow, DeleteRow,
                            DeleteCells, Abort
<1>3. \A q \in Request : Saving(q)' => Saving(q) /\ req'[q] = req[q]
  BY <1>1 DEF Saving
<1>. QED
  BY <1>1, <1>2, <1>3, KeepsOneAnswer

LEMMA OneAnswerStep ==
    ASSUME Deduped = TRUE
    PROVE  OneAnswerInv /\ [Next]_vars => OneAnswerInv'
<1>. SUFFICES ASSUME OneAnswerInv, [Next]_vars PROVE OneAnswerInv'
  OBVIOUS
<1>1. StoreInv'
  BY StoreStep DEF OneAnswerInv
<1>2. CASE UNCHANGED vars
  BY <1>2, <1>1 DEF vars, OneAnswerInv, NoTwins, CreatesAreNew, OneAnswerPerField,
                    Saving, Matching
<1>. QED
  BY <1>1, <1>2, StartsOneAnswer, FindsOneAnswer, CreatesOneAnswer, OthersKeepOneAnswer
     DEF Next

\* Saves in flight that never share a key, as the items of one bulk save after
\* deduplication, store each scalar answer once (fieldAnswer.service.ts:282-295).
THEOREM DedupedSavesOneAnswer ==
    ASSUME Deduped = TRUE
    PROVE  Spec => []OneAnswerPerField
<1>1. Init => OneAnswerInv
  BY OneAnswerInit
<1>2. OneAnswerInv /\ [Next]_vars => OneAnswerInv'
  BY OneAnswerStep
<1>3. OneAnswerInv => OneAnswerPerField
  BY DEF OneAnswerInv
<1>. QED
  BY <1>1, <1>2, <1>3, PTL DEF Spec

-----------------------------------------------------------------------------
\* The user a request in flight answers to.
Client(q) == IF Deleting(q) THEN group[req[q].group].user ELSE req[q].user

\* A client waits: only saves share it.
OneAtATime ==
    \A p, q \in Request :
        ~Ended(p) /\ ~Ended(q) /\ p # q /\ Client(p) = Client(q) => Saving(p) /\ Saving(q)

\* The row a deletion was let start on is there until the deletion commits.
DeletesStand == \A q \in Request : Deleting(q) => group[req[q].group] # None

\* A deletion that reached the row has seen all its cells.
CellsHeld ==
    \A q \in Request : req[q].pc = "deleteGroup" => Cells(req[q].group) \subseteq req[q].cells

OneClientInv == StoreInv /\ OneAtATime /\ DeletesStand /\ CellsHeld /\ NoStrayCells

LEMMA OneClientInit == Init => OneClientInv
BY StoreInit DEF Init, OneClientInv, OneAtATime, DeletesStand, CellsHeld, NoStrayCells,
                 Ended, Deleting

LEMMA PhasesApart ==
    ASSUME NEW q \in Request
    PROVE  /\ Deleting(q) => ~Ended(q) /\ ~Saving(q)
           /\ Saving(q) => ~Ended(q) /\ ~Deleting(q)
BY DEF Deleting, Ended, Saving

\* A step of r that keeps r's client and the rows under deletion, or ends r.
LEMMA ClientStep ==
    ASSUME OneClientInv, NEW r \in Request,
           \A q \in Request : q # r => req'[q] = req[q],
           \/ Ended(r)'
           \/ ~Ended(r) /\ Client(r)' = Client(r) /\ (Saving(r) => Saving(r)')
                 /\ (Deleting(r)' => group'[req'[r].group] # None),
           \A q \in Request : Deleting(q) /\ q # r => group'[req[q].group] = group[req[q].group]
    PROVE  OneAtATime' /\ DeletesStand'
<1>. USE DEF OneClientInv
<1>1. \A q \in Request : q # r =>
          /\ Ended(q)' = Ended(q) /\ Saving(q)' = Saving(q) /\ Deleting(q)' = Deleting(q)
          /\ Client(q)' = Client(q)
  BY DEF Ended, Saving, Deleting, Client
<1>2. DeletesStand'
  <2>. SUFFICES ASSUME NEW q \in Request, Deleting(q)'
                PROVE  group'[req'[q].group] # None
    BY DEF DeletesStand
  <2>1. CASE q = r
    BY <2>1 DEF Deleting, Ended
  <2>2. CASE q # r
    BY <1>1, <2>2 DEF DeletesStand
  <2>. QED
    BY <2>1, <2>2
<1>3. OneAtATime'
  BY <1>1 DEF OneAtATime
<1>. QED
  BY <1>2, <1>3

\* A request starts for a user whose requests in flight are all saves, or none.
LEMMA ClientStart ==
    ASSUME OneClientInv, NEW r \in Request, UNCHANGED <<answer, group>>,
           req[r].pc = "idle",
           \A q \in Request : q # r => req'[q] = req[q],
           ~Ended(r)', NEW u, Client(r)' = u,
           \A q \in Waiting(u) : Saving(q) /\ Saving(r)',
           Deleting(r)' => group'[req'[r].group] # None
    PROVE  OneAtATime' /\ DeletesStand'
<1>. USE DEF OneClientInv
<1>1. \A q \in Request : q # r =>
          /\ Ended(q)' = Ended(q) /\ Saving(q)' = Saving(q) /\ Deleting(q)' = Deleting(q)
          /\ Client(q)' = Client(q)
  BY DEF Ended, Saving, Deleting, Client
<1>2. DeletesStand'
  BY <1>1 DEF DeletesStand
<1>3. \A q \in Request : ~Ended(q) /\ Client(q) = u => q \in Waiting(u)
  BY DEF Waiting, Client
<1>4. ASSUME NEW q \in Request, q # r, ~Ended(q)', Client(q)' = Client(r)'
      PROVE  Saving(q)' /\ Saving(r)'
  BY <1>1, <1>3, <1>4
<1>5. OneAtATime'
  BY <1>1, <1>4 DEF OneAtATime
<1>. QED
  BY <1>2, <1>5

\* Steps that create no cell and take none out of its row.
LEMMA KeepsCells ==
    ASSUME OneClientInv, NEW r \in Request,
           \A q \in Request : q # r => req'[q] = req[q],
           req'[r].pc # "deleteGroup",
           \A x \in Request : answer'[x] # None =>
              /\ answer[x] # None
              /\ answer'[x].field = answer[x].field /\ answer'[x].group = answer[x].group
    PROVE  CellsHeld' /\ NoStrayCells'
BY DEF OneClientInv, CellsHeld, NoStrayCells, Cells

LEMMA SubmitOneClient ==
    ASSUME OneClientInv, OneClient = TRUE, NEW r \in Request, Submit(r)
    PROVE  OneAtATime' /\ DeletesStand' /\ CellsHeld' /\ NoStrayCells'
<1>. USE DEF OneClientInv
<1>1. req[r].pc = "idle" /\ UNCHANGED <<answer, group>>
  BY DEF Submit, MayStartItem, MayStart
<1>2. PICK u \in User, f \in Field \cup Repeater, g \in Request \cup {None}, v \in Value :
          /\ \A q \in Waiting(u) : Saving(q)
          /\ IF Answerable(u, f, g)
             THEN Set(r, [pc |-> "find", user |-> u, field |-> f, group |-> g, value |-> v])
             ELSE End(r, "failed")
  BY DEF Submit, MayStartItem
<1>3. CASE ~Answerable(u, f, g)
  <2>1. (\A q \in Request : q # r => req'[q] = req[q]) /\ req'[r].pc = "failed"
    BY <1>2, <1>3 DEF End, Set, StoreInv, TypeOK
  <2>. QED
    BY <1>1, <2>1, ClientStep, KeepsCells DEF Ended
<1>4. CASE Answerable(u, f, g)
  <2>1. /\ \A q \in Request : q # r => req'[q] = req[q]
        /\ req'[r] = [pc |-> "find", user |-> u, field |-> f, group |-> g, value |-> v]
    BY <1>2, <1>4 DEF Set, StoreInv, TypeOK
  <2>2. ~Ended(r)' /\ Saving(r)' /\ ~Deleting(r)' /\ Client(r)' = u /\ req'[r].pc = "find"
    BY <2>1 DEF Ended, Saving, Deleting, Client
  <2>3. OneAtATime' /\ DeletesStand'
    BY <1>1, <1>2, <2>1, <2>2, ClientStart
  <2>4. CellsHeld' /\ NoStrayCells'
    BY <1>1, <2>1, <2>2, KeepsCells
  <2>. QED
    BY <2>3, <2>4
<1>. QED
  BY <1>3, <1>4

LEMMA AloneOneClient ==
    ASSUME OneClientInv, OneClient = TRUE, NEW r \in Request,
           AddRow(r) \/ SyncRow(r) \/ DeleteRow(r)
    PROVE  OneAtATime' /\ DeletesStand' /\ CellsHeld' /\ NoStrayCells'
<1>. USE DEF OneClientInv
<1>1. req[r].pc = "idle" /\ UNCHANGED <<answer, group>>
  BY DEF AddRow, SyncRow, DeleteRow, MayStartAlone, MayStart
<1>2. ASSUME NEW pc \in {"done", "failed"}, End(r, pc)
      PROVE  OneAtATime' /\ DeletesStand' /\ CellsHeld' /\ NoStrayCells'
  <2>1. (\A q \in Request : q # r => req'[q] = req[q]) /\ req'[r].pc = pc
    BY <1>2 DEF End, Set, StoreInv, TypeOK
  <2>. QED
    BY <1>1, <2>1, ClientStep, KeepsCells DEF Ended
<1>3. ASSUME NEW u \in User, NEW s, Set(r, s), Waiting(u) = {},
             \/ s.pc = "count" /\ s.user = u
             \/ s.pc = "deleteCells" /\ group[s.group] # None /\ group[s.group].user = u
      PROVE  OneAtATime' /\ DeletesStand' /\ CellsHeld' /\ NoStrayCells'
  <2>1. (\A q \in Request : q # r => req'[q] = req[q]) /\ req'[r] = s
    BY <1>3 DEF Set, StoreInv, TypeOK
  <2>2. /\ ~Ended(r)' /\ Client(r)' = u /\ req'[r].pc # "deleteGroup"
        /\ Deleting(r)' => group'[req'[r].group] # None
    BY <1>1, <1>3, <2>1 DEF Ended, Deleting, Client
  <2>3. OneAtATime' /\ DeletesStand'
    BY <1>1, <1>3, <2>1, <2>2, ClientStart
  <2>4. CellsHeld' /\ NoStrayCells'
    BY <1>1, <2>1, <2>2, KeepsCells
  <2>. QED
    BY <2>3, <2>4
<1>4. CASE AddRow(r)
  BY <1>3, <1>4 DEF AddRow, MayStartAlone
<1>5. CASE SyncRow(r)
  BY <1>2, <1>3, <1>5 DEF SyncRow, MayStartAlone
<1>6. CASE DeleteRow(r)
  BY <1>2, <1>3, <1>6 DEF DeleteRow, MayStartAlone
<1>. QED
  BY <1>4, <1>5, <1>6

\* The steps of a request in flight that leave the tables alone.
LEMMA QuietOneClient ==
    ASSUME OneClientInv, NEW r \in Request,
           Find(r) \/ CountRows(r) \/ LastRow(r) \/ Abort(r)
    PROVE  OneAtATime' /\ DeletesStand' /\ CellsHeld' /\ NoStrayCells'
<1>. USE DEF OneClientInv
<1>1. UNCHANGED <<answer, group>> /\ ~Ended(r)
  BY DEF Find, CountRows, LastRow, Abort, Ended
<1>2. ASSUME NEW s, Set(r, s), s.pc \in {"done", "failed"}
      PROVE  OneAtATime' /\ DeletesStand' /\ CellsHeld' /\ NoStrayCells'
  <2>1. (\A q \in Request : q # r => req'[q] = req[q]) /\ req'[r] = s
    BY <1>2 DEF Set, StoreInv, TypeOK
  <2>. QED
    BY <1>1, <1>2, <2>1, ClientStep, KeepsCells DEF Ended
<1>3. ASSUME NEW s, Set(r, s), s.user = req[r].user, ~Deleting(r),
             s.pc \in {"update", "create", "last", "insert"},
             Saving(r) => s.pc \in {"update", "create"}
      PROVE  OneAtATime' /\ DeletesStand' /\ CellsHeld' /\ NoStrayCells'
  <2>1. (\A q \in Request : q # r => req'[q] = req[q]) /\ req'[r] = s
    BY <1>3 DEF Set, StoreInv, TypeOK
  <2>2. /\ ~Ended(r)' /\ ~Deleting(r)' /\ Client(r)' = Client(r)
        /\ req'[r].pc # "deleteGroup" /\ (Saving(r) => Saving(r)')
    BY <1>3, <2>1 DEF Ended, Deleting, Client, Saving
  <2>3. OneAtATime' /\ DeletesStand'
    BY <1>1, <2>1, <2>2, ClientStep
  <2>4. CellsHeld' /\ NoStrayCells'
    BY <1>1, <2>1, <2>2, KeepsCells
  <2>. QED
    BY <2>3, <2>4
<1>4. CASE Find(r)
  <2>1. req[r] \in SaveRecord({"find", "create"}) /\ req[r].pc = "find" /\ ~Deleting(r)
    BY <1>4, RequestShapes DEF Find, StoreInv, TypeOK, Deleting
  <2>2. ASSUME NEW x,
               Set(r, [pc |-> "update", user |-> req[r].user, field |-> req[r].field,
                       group |-> req[r].group, value |-> req[r].value, existing |-> x])
        PROVE  OneAtATime' /\ DeletesStand' /\ CellsHeld' /\ NoStrayCells'
    BY <1>3, <2>1, <2>2
  <2>3. ASSUME Set(r, [req[r] EXCEPT !.pc = "create"])
        PROVE  OneAtATime' /\ DeletesStand' /\ CellsHeld' /\ NoStrayCells'
    BY <1>3, <2>1, <2>3 DEF SaveRecord
  <2>. QED
    BY <1>4, <2>2, <2>3 DEF Find
<1>5. CASE CountRows(r)
  <2>1. /\ req[r] \in [pc : {"count", "last"}, user : User, field : Repeater]
        /\ ~Deleting(r) /\ ~Saving(r)
    BY <1>5, RequestShapes DEF CountRows, StoreInv, TypeOK, Deleting, Saving
  <2>2. CASE End(r, "failed")
    BY <1>2, <2>2 DEF End
  <2>3. CASE Set(r, [req[r] EXCEPT !.pc = "last"])
    BY <1>3, <2>1, <2>3
  <2>. QED
    BY <1>5, <2>2, <2>3 DEF CountRows
<1>6. CASE LastRow(r)
  <2>1. ~Deleting(r) /\ ~Saving(r)
    BY <1>6 DEF LastRow, Deleting, Saving
  <2>. QED
    BY <1>3, <1>6, <2>1 DEF LastRow
<1>7. CASE Abort(r)
  BY <1>2, <1>7 DEF Abort, End
<1>. QED
  BY <1>4, <1>5, <1>6, <1>7

LEMMA UpdateOneClient ==
    ASSUME OneClientInv, NEW r \in Request, Update(r)
    PROVE  OneAtATime' /\ DeletesStand' /\ CellsHeld' /\ NoStrayCells'
<1>. USE DEF OneClientInv
<1>1. PICK pc \in {"done", "failed"} : End(r, pc)
  BY DEF Update
<1>2. /\ \A q \in Request : q # r => req'[q] = req[q]
      /\ req'[r] = [pc |-> pc] /\ Ended(r)' /\ req'[r].pc # "deleteGroup" /\ group' = group
  BY <1>1 DEF End, Set, StoreInv, TypeOK, Ended, Update
<1>3. \A x \in Request : answer'[x] # None =>
          /\ answer[x] # None
          /\ answer'[x].field = answer[x].field /\ answer'[x].group = answer[x].group
  <2>1. req[r].existing \in Request
    BY RequestShapes DEF Update, StoreInv, TypeOK
  <2>2. CASE UNCHANGED answer
    BY <2>2
  <2>3. CASE answer[req[r].existing] # None
    <3>1. answer[req[r].existing] \in AnswerRow
      BY <2>1, <2>3 DEF StoreInv, TypeOK
    <3>2. answer' = [answer EXCEPT ![req[r].existing].value = req[r].value]
      BY <2>3 DEF Update
    <3>. QED
      BY <2>1, <2>3, <3>1, <3>2 DEF StoreInv, TypeOK, AnswerRow
  <2>. QED
    BY <2>2, <2>3 DEF Update
<1>4. OneAtATime' /\ DeletesStand'
  BY <1>2, ClientStep
<1>5. CellsHeld' /\ NoStrayCells'
  BY <1>2, <1>3, KeepsCells
<1>. QED
  BY <1>4, <1>5

\* A cell is created in no row that is under deletion: both would be requests of
\* the row's user.
LEMMA CreateOneClient ==
    ASSUME OneClientInv, NEW r \in Request, Create(r)
    PROVE  OneAtATime' /\ DeletesStand' /\ CellsHeld' /\ NoStrayCells'
<1>. USE DEF OneClientInv
<1>1. /\ req[r].pc = "create" /\ req[r] \in SaveRecord({"find", "create"})
      /\ SaveBelongs(req[r]) /\ Saving(r) /\ ~Ended(r) /\ ~Deleting(r)
  BY RequestShapes, PhasesApart DEF Create, StoreInv, TypeOK, SavesBelong, Saving
<1>2. PICK pc \in {"done", "failed"} : End(r, pc)
  BY DEF Create
<1>3. /\ \A q \in Request : q # r => req'[q] = req[q]
      /\ req'[r] = [pc |-> pc] /\ Ended(r)' /\ req'[r].pc # "deleteGroup" /\ group' = group
  BY <1>2 DEF End, Set, StoreInv, TypeOK, Ended, Create
<1>4. OneAtATime' /\ DeletesStand'
  BY <1>3, ClientStep
<1>5. CASE UNCHANGED answer
  BY <1>3, <1>4, <1>5, KeepsCells
<1>6. CASE ~UNCHANGED answer
  <2>1. /\ answer' = [answer EXCEPT ![r] =
              [user |-> req[r].user, field |-> req[r].field, group |-> req[r].group,
               value |-> req[r].value]]
        /\ req[r].group # None => group[req[r].group] # None
    BY <1>6 DEF Create
  <2>2. /\ \A x \in Request : x # r => answer'[x] = answer[x]
        /\ answer'[r].field = req[r].field /\ answer'[r].group = req[r].group
    BY <2>1 DEF StoreInv, TypeOK
  <2>3. req[r].field \in Subfield => req[r].group # None
    BY <1>1, AnswerStoreAssumption DEF SaveBelongs
  <2>4. NoStrayCells'
    BY <2>2, <2>3 DEF NoStrayCells
  <2>5. CellsHeld'
    <3>. SUFFICES ASSUME NEW q \in Request, req'[q].pc = "deleteGroup",
                         NEW x \in Request, answer'[x] # None, answer'[x].group = req'[q].group
                  PROVE  x \in req'[q].cells
      BY DEF CellsHeld, Cells
    <3>1. q # r /\ req'[q] = req[q] /\ req[q].pc = "deleteGroup"
      BY <1>3
    <3>2. Deleting(q) /\ ~Ended(q) /\ ~Saving(q) /\ req[q].group \in Request
      BY <3>1, RequestShapes, PhasesApart DEF Deleting, StoreInv, TypeOK
    <3>3. x # r
      <4>. SUFFICES ASSUME x = r PROVE FALSE
        OBVIOUS
      <4>1. req[r].group = req[q].group /\ req[r].group # None
        BY <2>2, <3>1, <3>2, AnswerStoreAssumption
      <4>2. group[req[r].group] # None /\ group[req[r].group].user = req[r].user
        BY <1>1, <2>1, <4>1 DEF SaveBelongs
      <4>3. Client(q) = Client(r)
        BY <1>1, <3>2, <4>1, <4>2 DEF Client
      <4>. QED
        BY <1>1, <3>1, <3>2, <4>3 DEF OneAtATime
    <3>. QED
      BY <2>2, <3>1, <3>3 DEF CellsHeld, Cells
  <2>. QED
    BY <1>4, <2>4, <2>5
<1>. QED
  BY <1>5, <1>6

LEMMA InsertRowOneClient ==
    ASSUME OneClientInv, NEW r \in Request, InsertRow(r)
    PROVE  OneAtATime' /\ DeletesStand' /\ CellsHeld' /\ NoStrayCells'
<1>. USE DEF OneClientInv
<1>1. End(r, "done") /\ answer' = answer /\ req[r].pc = "insert"
  BY DEF InsertRow
<1>2. /\ \A q \in Request : q # r => req'[q] = req[q]
      /\ req'[r] = [pc |-> "done"] /\ Ended(r)' /\ req'[r].pc # "deleteGroup"
  BY <1>1 DEF End, Set, StoreInv, TypeOK, Ended
<1>3. \A g \in Request : g # r => group'[g] = group[g]
  BY DEF InsertRow, StoreInv, TypeOK
<1>4. \A q \in Request : Deleting(q) => req[q].group \in Request /\ req[q].group # r
  <2>. SUFFICES ASSUME NEW q \in Request, Deleting(q)
                PROVE  req[q].group \in Request /\ req[q].group # r
    OBVIOUS
  <2>1. req[q].group \in Request
    BY RequestShapes DEF Deleting, StoreInv, TypeOK
  <2>. QED
    BY <1>1, <2>1 DEF DeletesStand, StoreInv, RowsEnded
<1>5. OneAtATime' /\ DeletesStand'
  BY <1>2, <1>3, <1>4, ClientStep
<1>6. CellsHeld' /\ NoStrayCells'
  BY <1>1, <1>2, KeepsCells
<1>. QED
  BY <1>5, <1>6

LEMMA DeleteCellsOneClient ==
    ASSUME OneClientInv, NEW r \in Request, DeleteCells(r)
    PROVE  OneAtATime' /\ DeletesStand' /\ CellsHeld' /\ NoStrayCells'
<1>. USE DEF OneClientInv
<1>1. /\ req[r].pc = "deleteCells" /\ Deleting(r) /\ ~Saving(r) /\ ~Ended(r)
      /\ UNCHANGED <<answer, group>>
  BY PhasesApart DEF DeleteCells, Deleting
<1>2. /\ \A q \in Request : q # r => req'[q] = req[q]
      /\ req'[r] = [pc |-> "deleteGroup", group |-> req[r].group,
                    cells |-> Cells(req[r].group)]
  BY DEF DeleteCells, Set, StoreInv, TypeOK
<1>3. /\ ~Ended(r)' /\ Client(r)' = Client(r)
      /\ group'[req'[r].group] # None
  BY <1>1, <1>2 DEF Ended, Deleting, Client, DeletesStand
<1>4. OneAtATime' /\ DeletesStand'
  BY <1>1, <1>2, <1>3, ClientStep
<1>5. CellsHeld'
  BY <1>1, <1>2 DEF CellsHeld, Cells
<1>6. NoStrayCells'
  BY <1>1 DEF NoStrayCells
<1>. QED
  BY <1>4, <1>5, <1>6

LEMMA DeleteGroupOneClient ==
    ASSUME OneClientInv, NEW r \in Request, DeleteGroup(r)
    PROVE  OneAtATime' /\ DeletesStand' /\ CellsHeld' /\ NoStrayCells'
<1>. USE DEF OneClientInv
<1>. DEFINE g == req[r].group
<1>1. /\ req[r].pc = "deleteGroup" /\ Deleting(r) /\ ~Saving(r) /\ ~Ended(r)
      /\ g \in Request /\ group[g] # None
  BY RequestShapes, PhasesApart DEF DeleteGroup, Deleting, StoreInv, TypeOK, DeletesStand
<1>2. /\ group' = [group EXCEPT ![g] = None]
      /\ answer' = [x \in Request |->
           IF x \in req[r].cells THEN None
           ELSE IF x \in Cells(g) THEN [answer[x] EXCEPT !.group = None]
           ELSE answer[x]]
      /\ End(r, "done")
  BY <1>1 DEF DeleteGroup
<1>3. /\ \A q \in Request : q # r => req'[q] = req[q]
      /\ req'[r] = [pc |-> "done"] /\ Ended(r)' /\ req'[r].pc # "deleteGroup"
  BY <1>2 DEF End, Set, StoreInv, TypeOK, Ended
<1>4. \A q \in Request : Deleting(q) /\ q # r => group'[req[q].group] = group[req[q].group]
  <2>. SUFFICES ASSUME NEW q \in Request, Deleting(q), q # r
                PROVE  req[q].group \in Request /\ req[q].group # g
    BY <1>2 DEF StoreInv, TypeOK
  <2>1. req[q].group \in Request /\ ~Ended(q) /\ ~Saving(q)
    BY RequestShapes, PhasesApart DEF Deleting, StoreInv, TypeOK
  <2>. QED
    BY <1>1, <2>1 DEF Client, OneAtATime
<1>5. OneAtATime' /\ DeletesStand'
  BY <1>3, <1>4, ClientStep
<1>6. \A x \in Request : answer'[x] # None => answer'[x] = answer[x]
  BY <1>1, <1>2 DEF CellsHeld
<1>7. CellsHeld' /\ NoStrayCells'
  BY <1>3, <1>6, KeepsCells
<1>. QED
  BY <1>5, <1>7

LEMMA OneClientStep ==
    ASSUME OneClient = TRUE
    PROVE  OneClientInv /\ [Next]_vars => OneClientInv'
<1>. SUFFICES ASSUME OneClientInv, [Next]_vars PROVE OneClientInv'
  OBVIOUS
<1>1. StoreInv'
  BY StoreStep DEF OneClientInv
<1>2. CASE UNCHANGED vars
  BY <1>1, <1>2 DEF vars, OneClientInv, OneAtATime, DeletesStand, CellsHeld, NoStrayCells,
                    Ended, Deleting, Saving, Client, Cells
<1>3. ASSUME NEW r \in Request,
             \/ Submit(r) \/ Find(r) \/ Update(r) \/ Create(r)
             \/ AddRow(r) \/ SyncRow(r) \/ CountRows(r) \/ LastRow(r) \/ InsertRow(r)
             \/ DeleteRow(r) \/ DeleteCells(r) \/ DeleteGroup(r) \/ Abort(r)
      PROVE  OneAtATime' /\ DeletesStand' /\ CellsHeld' /\ NoStrayCells'
  BY <1>3, SubmitOneClient, AloneOneClient, QuietOneClient, UpdateOneClient,
     CreateOneClient, InsertRowOneClient, DeleteCellsOneClient, DeleteGroupOneClient
<1>. QED
  BY <1>1, <1>2, <1>3 DEF Next, OneClientInv

\* While each user's client waits for its answers, the deletion of a repeater row
\* leaves no cell behind (fieldAnswer.service.ts:391-404), although the foreign
\* key would only clear the link of a cell saved in between.
THEOREM OneClientNoStrayCells ==
    ASSUME OneClient = TRUE
    PROVE  Spec => []NoStrayCells
<1>1. Init => OneClientInv
  BY OneClientInit
<1>2. OneClientInv /\ [Next]_vars => OneClientInv'
  BY OneClientStep
<1>3. OneClientInv => NoStrayCells
  BY DEF OneClientInv
<1>. QED
  BY <1>1, <1>2, <1>3, PTL DEF Spec

-----------------------------------------------------------------------------
\* An answer was written by a save that is over.
AnswersEnded == \A x \in Request : answer[x] # None => req[x].pc = "done"

\* A row holds one answer per column.
OneCell ==
    \A x, y \in Request :
        /\ answer[x] # None /\ answer[y] # None /\ answer[x].group # None
        /\ answer[x].field = answer[y].field /\ answer[x].group = answer[y].group
        => x = y

\* The row a save found is still the one it looked for, or is gone.
UpdatesMatch ==
    \A r \in Request : req[r].pc = "update" =>
        /\ req[req[r].existing].pc = "done"
        /\ answer[req[r].existing] # None =>
              req[r].existing \in Matching(req[r].user, req[r].field, req[r].group)

ReadInv == OneAnswerInv /\ OneClientInv /\ AnswersEnded /\ OneCell /\ UpdatesMatch

LEMMA ReadInit == Init => ReadInv
BY OneAnswerInit, OneClientInit DEF Init, ReadInv, AnswersEnded, OneCell, UpdatesMatch

\* Steps that write no answer under a new key.
LEMMA KeepsRead ==
    ASSUME ReadInv, NEW r \in Request, req[r].pc # "done",
           \A q \in Request : q # r => req'[q] = req[q],
           req'[r].pc # "update",
           \A x \in Request : answer'[x] # None =>
              /\ answer[x] # None /\ answer'[x].user = answer[x].user
              /\ answer'[x].field = answer[x].field /\ answer'[x].group = answer[x].group
    PROVE  AnswersEnded' /\ OneCell' /\ UpdatesMatch'
<1>. USE DEF ReadInv
<1>1. AnswersEnded'
  BY DEF AnswersEnded
<1>2. OneCell'
  BY DEF OneCell
<1>3. \A q \in Request : req[q].pc = "update" => req[q].existing \in Request
  BY RequestShapes DEF OneAnswerInv, StoreInv, TypeOK
<1>4. UpdatesMatch'
  BY <1>3 DEF UpdatesMatch, Matching
<1>. QED
  BY <1>1, <1>2, <1>4

LEMMA FindRead ==
    ASSUME ReadInv, NEW r \in Request, Find(r)
    PROVE  AnswersEnded' /\ OneCell' /\ UpdatesMatch'
<1>. USE DEF ReadInv
<1>1. /\ req[r].pc = "find" /\ req[r] \in SaveRecord({"find", "create"})
      /\ UNCHANGED <<answer, group>>
  BY RequestShapes DEF Find, OneAnswerInv, StoreInv, TypeOK
<1>2. CASE Set(r, [req[r] EXCEPT !.pc = "create"])
  <2>1. /\ \A q \in Request : q # r => req'[q] = req[q]
        /\ req'[r].pc # "update"
    BY <1>1, <1>2 DEF Set, OneAnswerInv, StoreInv, TypeOK, SaveRecord
  <2>. QED
    BY <1>1, <2>1, KeepsRead
<1>3. ASSUME NEW x \in Matching(req[r].user, req[r].field, req[r].group),
             Set(r, [pc |-> "update", user |-> req[r].user, field |-> req[r].field,
                     group |-> req[r].group, value |-> req[r].value, existing |-> x])
      PROVE  AnswersEnded' /\ OneCell' /\ UpdatesMatch'
  <2>1. /\ \A q \in Request : q # r => req'[q] = req[q]
        /\ req'[r] = [pc |-> "update", user |-> req[r].user, field |-> req[r].field,
                      group |-> req[r].group, value |-> req[r].value, existing |-> x]
    BY <1>3 DEF Set, OneAnswerInv, StoreInv, TypeOK
  <2>2. x \in Request /\ answer[x] # None /\ req[x].pc = "done" /\ x # r
    BY <1>1, <1>3 DEF Matching, AnswersEnded
  <2>3. \A q \in Request : req[q].pc = "update" => req[q].existing \in Request
    BY RequestShapes DEF OneAnswerInv, StoreInv, TypeOK
  <2>4. AnswersEnded' /\ OneCell'
    BY <1>1, <2>1 DEF AnswersEnded, OneCell
  <2>5. ASSUME NEW q \in Request, req'[q].pc = "update"
        PROVE  /\ req'[req'[q].existing].pc = "done"
               /\ answer'[req'[q].existing] # None =>
                    req'[q].existing \in Matching(req'[q].user, req'[q].field, req'[q].group)
    <3>1. CASE q = r
      BY <1>3, <2>1, <2>2, <3>1
    <3>2. CASE q # r
      BY <1>1, <2>1, <2>3, <2>5, <3>2 DEF UpdatesMatch
    <3>. QED
      BY <3>1, <3>2
  <2>6. UpdatesMatch'
    BY <1>1, <2>5 DEF UpdatesMatch, Matching
  <2>. QED
    BY <2>4, <2>6
<1>. QED
  BY <1>2, <1>3 DEF Find

LEMMA CreateRead ==
    ASSUME ReadInv, NEW r \in Request, Create(r)
    PROVE  AnswersEnded' /\ OneCell' /\ UpdatesMatch'
<1>. USE DEF ReadInv
<1>1. req[r].pc = "create" /\ req[r] \in SaveRecord({"find", "create"})
  BY RequestShapes DEF Create, OneAnswerInv, StoreInv, TypeOK
<1>2. CASE End(r, "failed") /\ UNCHANGED answer
  <2>1. (\A q \in Request : q # r => req'[q] = req[q]) /\ req'[r].pc # "update"
    BY <1>2 DEF End, Set, OneAnswerInv, StoreInv, TypeOK
  <2>. QED
    BY <1>1, <1>2, <2>1, KeepsRead
<1>3. CASE ~(End(r, "failed") /\ UNCHANGED answer)
  <2>1. /\ answer' = [answer EXCEPT ![r] =
              [user |-> req[r].user, field |-> req[r].field, group |-> req[r].group,
               value |-> req[r].value]]
        /\ req[r].group # None =>
             \A x \in Request : answer[x] # None =>
                ~(answer[x].field = req[r].field /\ answer[x].group = req[r].group)
        /\ End(r, "done")
    BY <1>3 DEF Create
  <2>2. /\ \A q \in Request : q # r => req'[q] = req[q] /\ answer'[q] = answer[q]
        /\ req'[r].pc = "done"
        /\ answer'[r].field = req[r].field /\ answer'[r].group = req[r].group
    BY <2>1 DEF End, Set, OneAnswerInv, StoreInv, TypeOK
  <2>3. AnswersEnded'
    BY <2>2 DEF AnswersEnded
  <2>4. OneCell'
    BY <2>1, <2>2 DEF OneCell
  <2>5. \A q \in Request : req[q].pc = "update" =>
            req[q].existing \in Request /\ req[q].existing # r
    BY <1>1, RequestShapes DEF OneAnswerInv, StoreInv, TypeOK, UpdatesMatch
  <2>6. UpdatesMatch'
    BY <2>2, <2>5 DEF UpdatesMatch, Matching
  <2>. QED
    BY <2>3, <2>4, <2>6
<1>. QED
  BY <1>2, <1>3

LEMMA OthersRead ==
    ASSUME ReadInv, NEW r \in Request,
           \/ Submit(r) \/ Update(r) \/ AddRow(r) \/ SyncRow(r) \/ CountRows(r)
           \/ LastRow(r) \/ InsertRow(r) \/ DeleteRow(r) \/ DeleteCells(r)
           \/ DeleteGroup(r) \/ Abort(r)
    PROVE  AnswersEnded' /\ OneCell' /\ UpdatesMatch'
<1>. USE DEF ReadInv
<1>1. req \in [Request -> Requests] /\ answer \in [Request -> AnswerRow \cup {None}]
  BY DEF OneAnswerInv, StoreInv, TypeOK
<1>2. req[r].pc # "done"
  BY DEF Submit, Update, AddRow, SyncRow, CountRows, LastRow, InsertRow, DeleteRow,
         DeleteCells, DeleteGroup, Abort, Ended, MayStartItem, MayStartAlone, MayStart
<1>3. /\ \A q \in Request : q # r => req'[q] = req[q]
      /\ req'[r].pc # "update"
  <2>1. ASSUME NEW s, Set(r, s), s.pc # "update"
        PROVE  (\A q \in Request : q # r => req'[q] = req[q]) /\ req'[r].pc # "update"
    BY <1>1, <2>1 DEF Set
  <2>2. ASSUME NEW pc \in {"done", "failed"}, End(r, pc)
        PROVE  (\A q \in Request : q # r => req'[q] = req[q]) /\ req'[r].pc # "update"
    BY <1>1, <2>2 DEF End, Set
  <2>3. CASE Submit(r)
    BY <2>1, <2>2, <2>3 DEF Submit
  <2>4. CASE Update(r) \/ InsertRow(r) \/ DeleteGroup(r) \/ Abort(r)
    BY <2>2, <2>4 DEF Update, InsertRow, DeleteGroup, Abort
  <2>5. CASE AddRow(r) \/ LastRow(r) \/ DeleteCells(r)
    BY <2>1, <2>5 DEF AddRow, LastRow, DeleteCells
  <2>6. CASE SyncRow(r) \/ DeleteRow(r)
    BY <2>1, <2>2, <2>6 DEF SyncRow, DeleteRow
  <2>7. CASE CountRows(r)
    <3>1. req[r] \in [pc : {"count", "last"}, user : User, field : Repeater]
      BY <1>1, <2>7, RequestShapes DEF CountRows
    <3>. QED
      BY <1>1, <2>2, <2>7, <3>1 DEF CountRows, Set
  <2>. QED
    BY <2>3, <2>4, <2>5, <2>6, <2>7
<1>4. \A x \in Request : answer'[x] # None =>
          /\ answer[x] # None /\ answer'[x].user = answer[x].user
          /\ answer'[x].field = answer[x].field /\ answer'[x].group = answer[x].group
  <2>1. CASE UNCHANGED answer
    BY <2>1
  <2>2. CASE Update(r) /\ answer[req[r].existing] # None
    <3>1. req[r].existing \in Request
      BY <1>1, <2>2, RequestShapes DEF Update
    <3>2. answer[req[r].existing] \in AnswerRow
      BY <1>1, <2>2, <3>1
    <3>3. answer' = [answer EXCEPT ![req[r].existing].value = req[r].value]
      BY <2>2 DEF Update
    <3>. QED
      BY <1>1, <2>2, <3>1, <3>2, <3>3 DEF AnswerRow
  <2>3. CASE DeleteGroup(r) /\ ~UNCHANGED answer
    BY <2>3 DEF DeleteGroup, OneClientInv, CellsHeld
  <2>. QED
    BY <2>1, <2>2, <2>3 DEF Submit, Update, AddRow, SyncRow, CountRows, LastRow, InsertRow,
                            DeleteRow, DeleteCells, Abort
<1>. QED
  BY <1>2, <1>3, <1>4, KeepsRead

LEMMA ReadStep ==
    ASSUME Deduped = TRUE, OneClient = TRUE
    PROVE  ReadInv /\ [Next]_vars => ReadInv'
<1>. SUFFICES ASSUME ReadInv, [Next]_vars PROVE ReadInv'
  OBVIOUS
<1>1. OneAnswerInv' /\ OneClientInv'
  BY OneAnswerStep, OneClientStep DEF ReadInv
<1>2. CASE UNCHANGED vars
  BY <1>1, <1>2 DEF vars, ReadInv, AnswersEnded, OneCell, UpdatesMatch, Matching
<1>. QED
  BY <1>1, <1>2, FindRead, CreateRead, OthersRead DEF Next, ReadInv

\* What a reader may find after a step (the body of SavedIsRead).
StepIsRead ==
    \A r \in Request :
        req[r].pc \in {"update", "create"} /\ req'[r].pc = "done" =>
            \A x \in Request :
                /\ answer'[x] # None
                /\ answer'[x].user = req[r].user /\ answer'[x].field = req[r].field
                /\ answer'[x].group = req[r].group
                => answer'[x].value = req[r].value

\* Answers with one key are one answer.
LEMMA OneMatch ==
    ASSUME OneAnswerInv, OneCell, NEW u \in User, NEW f, NEW g,
           (f \in Scalar /\ g = None) \/ g # None,
           NEW x \in Matching(u, f, g), NEW y \in Matching(u, f, g)
    PROVE  x = y
BY DEF OneAnswerInv, OneAnswerPerField, OneCell, Matching

\* The step that finishes a save leaves its value as the one answer of its key.
LEMMA FinishIsRead ==
    ASSUME ReadInv, ReadInv', [Next]_vars
    PROVE  StepIsRead
<1>. USE DEF ReadInv
<1>. SUFFICES ASSUME NEW r \in Request, req[r].pc \in {"update", "create"},
                     req'[r].pc = "done", NEW x \in Request,
                     answer'[x] # None,
                     answer'[x].user = req[r].user, answer'[x].field = req[r].field,
                     answer'[x].group = req[r].group
              PROVE  answer'[x].value = req[r].value
  BY DEF StepIsRead
<1>1. req \in [Request -> Requests] /\ answer \in [Request -> AnswerRow \cup {None}]
  BY DEF OneAnswerInv, StoreInv, TypeOK
<1>2. Update(r) \/ Create(r)
  <2>1. ASSUME NEW q \in Request, q # r, NEW s, Set(q, s)
        PROVE  FALSE
    BY <1>1, <2>1 DEF Set
  <2>2. ASSUME NEW q \in Request,
               \/ Submit(q) \/ Find(q) \/ Update(q) \/ Create(q)
               \/ AddRow(q) \/ SyncRow(q) \/ CountRows(q) \/ LastRow(q) \/ InsertRow(q)
               \/ DeleteRow(q) \/ DeleteCells(q) \/ DeleteGroup(q) \/ Abort(q)
        PROVE  q = r
    <3>1. PICK s : Set(q, s)
      BY <2>2 DEF Submit, Find, Update, Create, AddRow, SyncRow, CountRows, LastRow,
                  InsertRow, DeleteRow, DeleteCells, DeleteGroup, Abort, End
    <3>. QED
      BY <2>1, <3>1
  <2>3. ~UNCHANGED vars
    BY DEF vars
  <2>4. ~Abort(r)
    BY <1>1 DEF Abort, End, Set
  <2>5. \/ Submit(r) \/ Find(r) \/ Update(r) \/ Create(r)
        \/ AddRow(r) \/ SyncRow(r) \/ CountRows(r) \/ LastRow(r) \/ InsertRow(r)
        \/ DeleteRow(r) \/ DeleteCells(r) \/ DeleteGroup(r)
    BY <2>2, <2>3, <2>4 DEF Next
  <2>6. ~Submit(r) /\ ~Find(r)
    BY DEF Submit, Find, MayStartItem, MayStart
  <2>7. ~AddRow(r) /\ ~SyncRow(r) /\ ~CountRows(r) /\ ~LastRow(r) /\ ~InsertRow(r)
    BY DEF AddRow, SyncRow, CountRows, LastRow, InsertRow, MayStartItem, MayStartAlone, MayStart
  <2>8. ~DeleteRow(r) /\ ~DeleteCells(r) /\ ~DeleteGroup(r)
    BY DEF DeleteRow, DeleteCells, DeleteGroup, MayStartAlone, MayStart
  <2>. QED
    BY <2>5, <2>6, <2>7, <2>8
<1>3. CASE Create(r)
  <2>1. /\ req[r].pc = "create" /\ req[r] \in SaveRecord({"find", "create"})
        /\ SaveBelongs(req[r])
    BY <1>1, <1>3, RequestShapes DEF Create, OneAnswerInv, StoreInv, SavesBelong
  <2>2. answer' = [answer EXCEPT ![r] =
            [user |-> req[r].user, field |-> req[r].field, group |-> req[r].group,
             value |-> req[r].value]]
        /\ (req[r].group # None =>
             \A y \in Request : answer[y] # None =>
                ~(answer[y].field = req[r].field /\ answer[y].group = req[r].group))
    BY <1>1, <1>3 DEF Create, End, Set
  <2>3. /\ \A y \in Request : y # r => answer'[y] = answer[y]
        /\ answer'[r].value = req[r].value
    BY <1>1, <2>2
  <2>4. x = r
    <3>. SUFFICES ASSUME x # r PROVE FALSE
      OBVIOUS
    <3>1. x \in Matching(req[r].user, req[r].field, req[r].group)
      BY <2>3 DEF Matching
    <3>2. CASE req[r].group # None
      BY <2>2, <3>1, <3>2 DEF Matching
    <3>3. CASE req[r].group = None
      BY <2>1, <3>1, <3>3, AnswerStoreAssumption
         DEF SaveBelongs, OneAnswerInv, CreatesAreNew
    <3>. QED
      BY <3>2, <3>3
  <2>. QED
    BY <2>3, <2>4
<1>4. CASE Update(r)
  <2>. DEFINE e == req[r].existing
  <2>1. /\ req[r].pc = "update" /\ e \in Request /\ req[r].user \in User
        /\ req[r].field \in Field /\ req[r].group \in Request \cup {None}
    BY <1>1, <1>4, RequestShapes DEF Update
  <2>2. answer[e] # None /\ answer' = [answer EXCEPT ![e].value = req[r].value]
    BY <1>1, <1>4 DEF Update, End, Set
  <2>3. answer[e] \in AnswerRow
    BY <1>1, <2>1, <2>2
  <2>4. /\ \A y \in Request : y # e => answer'[y] = answer[y]
        /\ answer'[e].value = req[r].value
    BY <1>1, <2>1, <2>2, <2>3 DEF AnswerRow
  <2>5. e \in Matching(req[r].user, req[r].field, req[r].group)
    BY <2>1, <2>2 DEF UpdatesMatch
  <2>6. req[r].group = None => req[r].field \in Scalar
    BY <2>1, <2>5 DEF Field, Matching, OneClientInv, NoStrayCells
  <2>7. x = e
    <3>. SUFFICES ASSUME x # e PROVE FALSE
      OBVIOUS
    <3>1. x \in Matching(req[r].user, req[r].field, req[r].group)
      BY <2>4 DEF Matching
    <3>. QED
      BY <2>1, <2>5, <2>6, <3>1, OneMatch
  <2>. QED
    BY <2>4, <2>7
<1>. QED
  BY <1>2, <1>3, <1>4

\* A save that succeeds is what the next read returns, in its row or at the top
\* level, while clients wait and bulk saves carry no duplicates: its find is
\* stale by the time it writes (fieldAnswer.service.ts:261-270), but no other
\* save has the key, and no deletion takes the row's cells.
THEOREM WaitingSavesAreRead ==
    ASSUME Deduped = TRUE, OneClient = TRUE
    PROVE  Spec => SavedIsRead
<1>1. Init => ReadInv
  BY ReadInit
<1>2. ReadInv /\ [Next]_vars => ReadInv'
  BY ReadStep
<1>3. ReadInv /\ ReadInv' /\ [Next]_vars => StepIsRead
  BY FinishIsRead
<1>4. [][StepIsRead]_vars => SavedIsRead
  BY DEF StepIsRead, SavedIsRead
<1>. QED
  BY <1>1, <1>2, <1>3, <1>4, PTL DEF Spec

-----------------------------------------------------------------------------
\* Filtering in the book is filtering here.
LEMMA BookPicks == \A s, I : Book!Picked(s, I) = Picked(s, I)
BY DEF Book!Picked, Picked, Book!Cardinality, Cardinality, Book!IsFiniteSet, IsFiniteSet

-----------------------------------------------------------------------------
(* The rows of a set in the order of their numbers *)

\* G are rows and S some of them, no two with one order.
Orderly(G, S) ==
    /\ IsFiniteSet(S)
    /\ \A g \in S : G[g].order \in Nat
    /\ \A g, h \in S : G[g].order = G[h].order => g = h

UpToIn(G, S, g)  == {h \in S : G[h].order <= G[g].order}
BelowIn(G, S, g) == {h \in S : G[h].order < G[g].order}
RankIn(G, S, g)  == Cardinality(UpToIn(G, S, g))
NthIn(G, S, n)   ==
    CHOOSE g \in S : Cardinality(BelowIn(G, S, g)) < n /\ n <= Cardinality(UpToIn(G, S, g))

LEMMA RankRange ==
    ASSUME NEW G, NEW S, Orderly(G, S), NEW g \in S
    PROVE  /\ RankIn(G, S, g) \in 1 .. Cardinality(S)
           /\ IsFiniteSet(UpToIn(G, S, g))
           /\ Cardinality(BelowIn(G, S, g)) = RankIn(G, S, g) - 1
           /\ Cardinality(S) \in Nat
<1>1. /\ UpToIn(G, S, g) \in SUBSET S /\ IsFiniteSet(S)
      /\ g \in UpToIn(G, S, g)
  BY DEF UpToIn, Orderly
<1>2. /\ IsFiniteSet(UpToIn(G, S, g)) /\ RankIn(G, S, g) <= Cardinality(S)
      /\ RankIn(G, S, g) \in Nat /\ Cardinality(S) \in Nat
  BY <1>1, FS_Subset, FS_CardinalityType DEF RankIn
<1>3. BelowIn(G, S, g) = UpToIn(G, S, g) \ {g}
  BY DEF BelowIn, UpToIn, Orderly
<1>4. Cardinality(BelowIn(G, S, g)) = RankIn(G, S, g) - 1
  <2>1. Cardinality(UpToIn(G, S, g) \ {g}) = Cardinality(UpToIn(G, S, g)) - 1
    BY <1>1, <1>2, FS_RemoveElement
  <2>. QED
    BY <1>3, <2>1 DEF RankIn
<1>5. RankIn(G, S, g) # 0
  BY <1>1, <1>2, FS_EmptySet DEF RankIn
<1>. QED
  BY <1>2, <1>4, <1>5

LEMMA RankOrder ==
    ASSUME NEW G, NEW S, Orderly(G, S), NEW g \in S, NEW h \in S,
           G[g].order < G[h].order
    PROVE  RankIn(G, S, g) < RankIn(G, S, h)
<1>1. /\ G[g].order \in Nat /\ G[h].order \in Nat /\ \A k \in S : G[k].order \in Nat
  BY DEF Orderly
<1>2. UpToIn(G, S, g) \in SUBSET UpToIn(G, S, h)
  BY <1>1 DEF UpToIn
<1>3. h \in UpToIn(G, S, h) /\ h \notin UpToIn(G, S, g)
  BY <1>1 DEF UpToIn
<1>4. IsFiniteSet(UpToIn(G, S, h)) /\ RankIn(G, S, g) \in Nat /\ RankIn(G, S, h) \in Nat
  BY RankRange
<1>. QED
  BY <1>2, <1>3, <1>4, FS_Subset DEF RankIn

LEMMA RankApart ==
    ASSUME NEW G, NEW S, Orderly(G, S), NEW g \in S, NEW h \in S
    PROVE  /\ RankIn(G, S, g) <= RankIn(G, S, h) <=> G[g].order <= G[h].order
           /\ RankIn(G, S, g) = RankIn(G, S, h) => g = h
<1>1. /\ G[g].order \in Nat /\ G[h].order \in Nat
      /\ G[g].order = G[h].order => g = h
  BY DEF Orderly
<1>2. RankIn(G, S, g) \in Nat /\ RankIn(G, S, h) \in Nat
  BY RankRange
<1>. QED
  BY <1>1, <1>2, RankOrder

\* The n-th row is the one of rank n.
LEMMA NthRank ==
    ASSUME NEW G, NEW S, Orderly(G, S), NEW n \in 1 .. Cardinality(S)
    PROVE  NthIn(G, S, n) \in S /\ RankIn(G, S, NthIn(G, S, n)) = n
<1>. DEFINE rank == [g \in S |-> RankIn(G, S, g)]
            N == Cardinality(S)
<1>1. N \in Nat /\ IsFiniteSet(S)
  BY FS_CardinalityType DEF Orderly
<1>2. rank \in [S -> 1 .. N]
  BY RankRange
<1>3. rank \in Injection(S, 1 .. N)
  BY <1>2, RankApart DEF Injection, IsInjective
<1>4. IsFiniteSet(1 .. N) /\ Cardinality(1 .. N) = N
  BY <1>1, FS_Interval
<1>5. rank \in Surjection(S, 1 .. N)
  BY <1>1, <1>3, <1>4, FS_Injection
<1>6. PICK g \in S : rank[g] = n
  BY <1>5 DEF Surjection
<1>7. \A h \in S : /\ RankIn(G, S, h) \in Nat
                   /\ Cardinality(BelowIn(G, S, h)) = RankIn(G, S, h) - 1
  BY RankRange
<1>8. \A h \in S : Cardinality(BelowIn(G, S, h)) < n /\ n <= Cardinality(UpToIn(G, S, h))
                     => RankIn(G, S, h) = n
  <2>. SUFFICES ASSUME NEW h \in S, Cardinality(BelowIn(G, S, h)) < n,
                       n <= Cardinality(UpToIn(G, S, h)), ~(RankIn(G, S, h) = n)
                PROVE  FALSE
    OBVIOUS
  <2>. QED
    BY <1>7, RankOrder DEF RankIn
<1>. QED
  BY <1>6, <1>7, <1>8 DEF NthIn, RankIn

LEMMA RankNth ==
    ASSUME NEW G, NEW S, Orderly(G, S), NEW g \in S
    PROVE  NthIn(G, S, RankIn(G, S, g)) = g
BY NthRank, RankRange, RankApart

\* What R has for the rows S, in their order.
ListIn(G, S, R) == [n \in 1 .. Cardinality(S) |-> R[NthIn(G, S, n)]]

LEMMA SameRanks ==
    ASSUME NEW G, NEW H, NEW S, Orderly(G, S), \A g \in S : H[g] = G[g]
    PROVE  /\ Orderly(H, S)
           /\ \A g \in S : RankIn(H, S, g) = RankIn(G, S, g)
<1>1. Orderly(H, S)
  BY DEF Orderly
<1>2. \A g \in S : UpToIn(H, S, g) = UpToIn(G, S, g)
  BY DEF UpToIn
<1>. QED
  BY <1>1, <1>2 DEF RankIn

LEMMA SameList ==
    ASSUME NEW G, NEW H, NEW S, Orderly(G, S), \A g \in S : H[g] = G[g],
           NEW R, NEW Q, \A g \in S : Q[g] = R[g]
    PROVE  ListIn(H, S, Q) = ListIn(G, S, R)
<1>1. ASSUME NEW n \in 1 .. Cardinality(S)
      PROVE  NthIn(H, S, n) = NthIn(G, S, n) /\ NthIn(G, S, n) \in S
  <2>1. NthIn(G, S, n) \in S /\ RankIn(G, S, NthIn(G, S, n)) = n
    BY NthRank
  <2>2. Orderly(H, S) /\ RankIn(H, S, NthIn(G, S, n)) = n
    BY <2>1, SameRanks
  <2>. QED
    BY <2>1, <2>2, RankNth
<1>. QED
  BY <1>1 DEF ListIn

\* Row r is added to the rows S, numbered above them.
Added(G, H, S, r, R, Q) ==
    /\ r \notin S /\ Orderly(G, S) /\ H[r].order \in Nat
    /\ \A g \in S : H[g] = G[g] /\ G[g].order < H[r].order
    /\ \A g \in S : Q[g] = R[g]

ComesLast(G, H, S, r, R, Q) == ListIn(H, S \cup {r}, Q) = Append(ListIn(G, S, R), Q[r])

\* A row numbered above the others comes last.
LEMMA LastInList ==
    ASSUME NEW G, NEW H, NEW S, NEW r, NEW R, NEW Q, Added(G, H, S, r, R, Q)
    PROVE  ComesLast(G, H, S, r, R, Q)
<1>. DEFINE T == S \cup {r}
            N == Cardinality(S)
<1>. USE DEF Added
<1>1. N \in Nat /\ IsFiniteSet(S) /\ IsFiniteSet(T) /\ Cardinality(T) = N + 1
  BY FS_CardinalityType, FS_AddElement DEF Orderly
<1>2. /\ \A g \in S : G[g].order \in Nat
      /\ \A g, h \in S : G[g].order = G[h].order => g = h
  BY DEF Orderly
<1>3. Orderly(H, T)
  BY <1>1, <1>2 DEF Orderly
<1>4. ASSUME NEW g \in S
      PROVE  RankIn(H, T, g) = RankIn(G, S, g)
  <2>1. UpToIn(H, T, g) = UpToIn(G, S, g)
    BY <1>2 DEF UpToIn
  <2>. QED
    BY <2>1 DEF RankIn
<1>5. RankIn(H, T, r) = N + 1
  <2>1. UpToIn(H, T, r) = T
    BY <1>2 DEF UpToIn
  <2>. QED
    BY <1>1, <2>1 DEF RankIn
<1>6. ASSUME NEW n \in 1 .. N
      PROVE  NthIn(H, T, n) = NthIn(G, S, n) /\ NthIn(G, S, n) \in S
  <2>1. NthIn(G, S, n) \in S /\ RankIn(G, S, NthIn(G, S, n)) = n
    BY NthRank
  <2>. QED
    BY <1>3, <1>4, <2>1, RankNth
<1>7. NthIn(H, T, N + 1) = r
  BY <1>3, <1>5, RankNth
<1>. DEFINE L == ListIn(G, S, R)
<1>8. /\ DOMAIN L = 1 .. N /\ \A n \in 1 .. N : L[n] = R[NthIn(G, S, n)]
  BY DEF ListIn
<1>. DEFINE E == {R[g] : g \in S} \cup {Q[r]}
<1>9. L \in Seq(E) /\ Len(L) = N
  <2>1. L \in [1 .. N -> E]
    BY <1>6 DEF ListIn
  <2>2. L \in Seq(E)
    BY <1>1, <2>1
  <2>. QED
    BY <1>1, <1>8, <2>2, LenProperties
<1>10. ListIn(H, T, Q) = [n \in 1 .. N + 1 |-> IF n = N + 1 THEN Q[r] ELSE L[n]]
  <2>1. ASSUME NEW n \in 1 .. N + 1
        PROVE  Q[NthIn(H, T, n)] = IF n = N + 1 THEN Q[r] ELSE L[n]
    <3>1. CASE n = N + 1
      BY <1>7, <3>1
    <3>2. CASE n \in 1 .. N
      <4>0. NthIn(H, T, n) = NthIn(G, S, n) /\ NthIn(G, S, n) \in S
        BY <1>6, <3>2
      <4>1. n # N + 1
        BY <1>1, <3>2
      <4>2. L[n] = R[NthIn(G, S, n)]
        BY <1>8, <3>2
      <4>. HIDE DEF L, T, N
      <4>. QED
        BY <4>0, <4>1, <4>2
    <3>. QED
      BY <1>1, <3>1, <3>2
  <2>2. ListIn(H, T, Q) = [n \in 1 .. N + 1 |-> Q[NthIn(H, T, n)]]
    BY <1>1 DEF ListIn
  <2>. HIDE DEF L, T
  <2>. QED
    BY <2>1, <2>2
<1>11. Append(L, Q[r]) = [n \in 1 .. N + 1 |-> IF n = N + 1 THEN Q[r] ELSE L[n]]
  <2>. DEFINE A == Append(L, Q[r])
  <2>1. Q[r] \in E
    OBVIOUS
  <2>. HIDE DEF L, E
  <2>2. /\ A \in Seq(E) /\ Len(A) = N + 1 /\ A[N + 1] = Q[r]
        /\ \A n \in 1 .. N : A[n] = L[n]
    BY <1>1, <1>9, <2>1, AppendProperties
  <2>3. A = [n \in 1 .. N + 1 |-> A[n]]
    BY <2>2, LenProperties
  <2>. HIDE DEF A
  <2>4. \A n \in 1 .. N + 1 : A[n] = IF n = N + 1 THEN Q[r] ELSE L[n]
    BY <1>1, <2>2
  <2>5. A = [n \in 1 .. N + 1 |-> IF n = N + 1 THEN Q[r] ELSE L[n]]
    BY <2>3, <2>4
  <2>. QED
    BY <2>5 DEF A
<1>. QED
  BY <1>10, <1>11 DEF ComesLast

Without(L, g) == Picked(L, {n \in DOMAIN L : L[n].id # g})

\* The others keep their order when a row goes.
LEMMA GoneFromList ==
    ASSUME NEW G, NEW H, NEW S, Orderly(G, S), NEW g \in S,
           NEW R, \A h \in S : R[h].id = h,
           NEW Q, \A h \in S \ {g} : H[h] = G[h] /\ Q[h] = R[h]
    PROVE  ListIn(H, S \ {g}, Q) = Without(ListIn(G, S, R), g)
<1>. DEFINE T == S \ {g}
            N == Cardinality(S)
            L == ListIn(G, S, R)
            I == {n \in DOMAIN L : L[n].id # g}
            k == RankIn(G, S, g)
            count(i) == Cardinality({j \in I : j <= i})
<1>1. /\ N \in Nat /\ IsFiniteSet(S) /\ IsFiniteSet(T) /\ Cardinality(T) = N - 1
  BY FS_CardinalityType, FS_RemoveElement DEF Orderly
<1>2. Orderly(H, T) /\ Orderly(G, T)
  BY <1>1 DEF Orderly
<1>3. \A n \in 1 .. N : /\ NthIn(G, S, n) \in S /\ RankIn(G, S, NthIn(G, S, n)) = n
                        /\ L[n] = R[NthIn(G, S, n)] /\ L[n].id = NthIn(G, S, n)
  BY NthRank DEF ListIn
<1>4. k \in 1 .. N /\ NthIn(G, S, k) = g
  BY RankRange, RankNth
<1>5. I = (1 .. N) \ {k}
  <2>1. DOMAIN L = 1 .. N
    BY DEF ListIn
  <2>2. \A n \in 1 .. N : L[n].id # g <=> n # k
    <3>. HIDE DEF L, k, N
    <3>. QED
      BY <1>3, <1>4
  <2>. HIDE DEF L, k, N
  <2>. QED
    BY <2>1, <2>2
<1>6. Cardinality(I) = N - 1
  <2>1. IsFiniteSet(1 .. N) /\ Cardinality(1 .. N) = N
    BY <1>1, FS_Interval
  <2>. HIDE DEF I, k, N
  <2>. QED
    BY <1>4, <1>5, <2>1, FS_RemoveElement
<1>7. ASSUME NEW h \in T
      PROVE  /\ RankIn(G, S, h) \in I
             /\ count(RankIn(G, S, h)) = RankIn(H, T, h)
  <2>. DEFINE i == RankIn(G, S, h)
  <2>1. i \in 1 .. N /\ i # k
    BY RankRange, RankApart
  <2>2. i \in I
    BY <1>5, <2>1
  <2>3. {j \in I : j <= i} = (1 .. i) \ {k}
    <3>. HIDE DEF I, i, k, N
    <3>. QED
      BY <1>1, <1>5, <2>1
  <2>4. IsFiniteSet(1 .. i) /\ Cardinality(1 .. i) = i
    BY <1>1, <2>1, FS_Interval
  <2>5. count(i) = IF k \in 1 .. i THEN i - 1 ELSE i
    <3>. HIDE DEF I, i, k, N
    <3>. QED
      BY <2>3, <2>4, FS_RemoveElement
  <2>6. UpToIn(H, T, h) = UpToIn(G, S, h) \ {g}
    BY DEF UpToIn
  <2>7. IsFiniteSet(UpToIn(G, S, h))
    BY RankRange
  <2>8. RankIn(H, T, h) = IF g \in UpToIn(G, S, h) THEN i - 1 ELSE i
    BY <2>6, <2>7, FS_RemoveElement DEF RankIn
  <2>9. g \in UpToIn(G, S, h) <=> k <= i
    BY RankApart DEF UpToIn
  <2>10. k <= i <=> k \in 1 .. i
    <3>. HIDE DEF i, k, N
    <3>. QED
      BY <1>1, <1>4, <2>1
  <2>. HIDE DEF I, i, k, N
  <2>11. count(i) = RankIn(H, T, h)
    BY <2>5, <2>8, <2>9, <2>10
  <2>. QED
    BY <2>2, <2>11 DEF i
<1>8. ASSUME NEW i \in I
      PROVE  NthIn(G, S, i) \in T /\ RankIn(G, S, NthIn(G, S, i)) = i
  <2>1. i \in 1 .. N /\ i # k
    BY <1>5
  <2>. HIDE DEF I, L, k, N
  <2>. QED
    BY <1>3, <2>1 DEF k
<1>9. ASSUME NEW m \in 1 .. N - 1
      PROVE  L[CHOOSE i \in I : count(i) = m] = Q[NthIn(H, T, m)]
  <2>. DEFINE h == NthIn(H, T, m)
              i == RankIn(G, S, h)
  <2>1. h \in T /\ RankIn(H, T, h) = m
    BY <1>1, <1>2, NthRank
  <2>2. i \in I /\ count(i) = m
    BY <1>7, <2>1
  <2>3. ASSUME NEW j \in I, count(j) = m
        PROVE  j = i
    <3>1. NthIn(G, S, j) \in T /\ RankIn(G, S, NthIn(G, S, j)) = j
      BY <1>8
    <3>2. RankIn(H, T, NthIn(G, S, j)) = m
      <4>1. count(RankIn(G, S, NthIn(G, S, j))) = RankIn(H, T, NthIn(G, S, j))
        BY <1>7, <3>1
      <4>2. count(RankIn(G, S, NthIn(G, S, j))) = count(j)
        BY <3>1
      <4>. HIDE DEF I, T, count
      <4>. QED
        BY <2>3, <4>1, <4>2
    <3>3. NthIn(G, S, j) = h
      <4>. HIDE DEF T, h
      <4>. QED
        BY <1>2, <2>1, <3>1, <3>2, RankApart
    <3>. QED
      BY <3>1, <3>3
  <2>4. (CHOOSE j \in I : count(j) = m) = i
    <3>. HIDE DEF I, i, count
    <3>. QED
      BY <2>2, <2>3
  <2>5. i \in 1 .. N /\ NthIn(G, S, i) = h /\ h \in S
    BY <2>1, RankRange, RankNth
  <2>6. L[i] = R[h]
    <3>. HIDE DEF L, i, h
    <3>. QED
      BY <1>3, <2>5
  <2>7. Q[h] = R[h]
    <3>. HIDE DEF h
    <3>. QED
      BY <2>1
  <2>. QED
    BY <2>4, <2>6, <2>7
<1>10. Picked(L, I) = [m \in 1 .. N - 1 |-> L[CHOOSE i \in I : count(i) = m]]
  <2>. HIDE DEF I, L, N
  <2>. QED
    BY <1>6 DEF Picked
<1>11. ListIn(H, T, Q) = [m \in 1 .. N - 1 |-> Q[NthIn(H, T, m)]]
  BY <1>1 DEF ListIn
<1>12. ListIn(H, T, Q) = Picked(L, I)
  <2>. HIDE DEF L, I, T, N, count
  <2>. QED
    BY <1>9, <1>10, <1>11
<1>. QED
  BY <1>12 DEF Without

-----------------------------------------------------------------------------
(* What the book's rows rest on *)

RowsIn(G, u, f) == {g \in Request : G[g] # None /\ G[g].user = u /\ G[g].field = f}

RowsFinite == IsFiniteSet({g \in Request : group[g] # None})

\* The rows of a repeater are numbered apart.
OrdersApart ==
    \A g, h \in Request :
        /\ group[g] # None /\ group[h] # None
        /\ group[g].user = group[h].user /\ group[g].field = group[h].field
        /\ group[g].order = group[h].order
        => g = h

\* A row about to be inserted fits, and its number is above the others'.
RoomFor(G, s) ==
    s.pc \in {"last", "insert"} =>
        /\ Cardinality(RowsIn(G, s.user, s.field)) < MaxRows
        /\ s.pc = "insert" => \A g \in RowsIn(G, s.user, s.field) : G[g].order < s.order

RoomLeft == \A q \in Request : RoomFor(group, req[q])

\* The cells a deletion holds are answers of its row.
LockedCells ==
    \A q \in Request : req[q].pc = "deleteGroup" =>
        \A x \in req[q].cells :
            req[x].pc = "done" /\ (answer[x] # None => answer[x].group = req[q].group)

BookInv == ReadInv /\ RowsFinite /\ OrdersApart /\ RoomLeft /\ LockedCells

LEMMA BookTypes ==
    ASSUME BookInv
    PROVE  StoreInv /\ OneClientInv /\ TypeOK
BY DEF BookInv, ReadInv, OneClientInv, StoreInv

LEMMA BookInit == Init => BookInv
<1>. SUFFICES ASSUME Init PROVE BookInv
  OBVIOUS
<1>1. {g \in Request : group[g] # None} = {}
  BY DEF Init
<1>2. RowsFinite
  BY <1>1, FS_EmptySet DEF RowsFinite
<1>. QED
  BY <1>2, ReadInit DEF Init, BookInv, OrdersApart, RoomLeft, RoomFor, LockedCells

LEMMA RowsInFinite ==
    ASSUME RowsFinite, NEW u, NEW f
    PROVE  IsFiniteSet(RowsIn(group, u, f)) /\ Cardinality(RowsIn(group, u, f)) \in Nat
<1>1. RowsIn(group, u, f) \in SUBSET {g \in Request : group[g] # None}
  BY DEF RowsIn
<1>. QED
  BY <1>1, FS_Subset, FS_CardinalityType DEF RowsFinite

\* Steps of r that add no row and link no other answer.
LEMMA KeepsRoom ==
    ASSUME BookInv, NEW r \in Request, req[r].pc # "done",
           \A q \in Request : q # r => req'[q] = req[q],
           req'[r].pc \notin {"last", "insert", "deleteGroup"},
           \A g \in Request : group'[g] # None => group[g] # None /\ group'[g] = group[g],
           \A x \in Request : x # r /\ answer'[x] # None =>
              answer[x] # None /\ answer'[x].group = answer[x].group
    PROVE  RowsFinite' /\ OrdersApart' /\ RoomLeft' /\ LockedCells'
<1>. USE DEF BookInv
<1>1. RowsFinite'
  <2>1. {g \in Request : group'[g] # None} \in SUBSET {g \in Request : group[g] # None}
    OBVIOUS
  <2>. QED
    BY <2>1, FS_Subset DEF RowsFinite
<1>2. OrdersApart'
  BY DEF OrdersApart
<1>3. ASSUME NEW q \in Request
      PROVE  RoomFor(group', req'[q])
  <2>1. CASE q = r
    BY <2>1 DEF RoomFor
  <2>2. CASE q # r /\ req[q].pc \in {"last", "insert"}
    <3>. DEFINE u == req[q].user
                f == req[q].field
    <3>1. RowsIn(group', u, f) \in SUBSET RowsIn(group, u, f)
      BY DEF RowsIn
    <3>2. /\ Cardinality(RowsIn(group', u, f)) <= Cardinality(RowsIn(group, u, f))
          /\ Cardinality(RowsIn(group', u, f)) \in Nat
          /\ Cardinality(RowsIn(group, u, f)) \in Nat
      BY <3>1, RowsInFinite, FS_Subset, FS_CardinalityType
    <3>3. Cardinality(RowsIn(group', u, f)) < MaxRows
      BY <2>2, <3>2, AnswerStoreAssumption DEF RoomLeft, RoomFor
    <3>4. ASSUME req[q].pc = "insert", NEW g \in RowsIn(group', u, f)
          PROVE  group'[g].order < req[q].order
      <4>1. g \in RowsIn(group, u, f) /\ group'[g] = group[g]
        BY <3>1, <3>4 DEF RowsIn
      <4>. QED
        BY <2>2, <3>4, <4>1 DEF RoomLeft, RoomFor
    <3>. QED
      BY <2>2, <3>3, <3>4 DEF RoomFor
  <2>3. CASE q # r /\ req[q].pc \notin {"last", "insert"}
    BY <2>3 DEF RoomFor
  <2>. QED
    BY <2>1, <2>2, <2>3
<1>4. LockedCells'
  <2>. SUFFICES ASSUME NEW q \in Request, req'[q].pc = "deleteGroup", NEW x \in req'[q].cells
                PROVE  /\ req'[x].pc = "done"
                       /\ answer'[x] # None => answer'[x].group = req'[q].group
    BY DEF LockedCells
  <2>1. q # r /\ req'[q] = req[q] /\ req[q].cells \in SUBSET Request
    BY BookTypes, RequestShapes DEF TypeOK
  <2>2. x \in Request /\ x # r
    BY <2>1 DEF LockedCells
  <2>. QED
    BY <2>1, <2>2 DEF LockedCells
<1>. QED
  BY <1>1, <1>2, <1>3, <1>4 DEF RoomLeft

\* Steps that leave rows and answers alone.
LEMMA QuietRoom ==
    ASSUME BookInv, NEW r \in Request, req[r].pc # "done",
           NEW s, Set(r, s), UNCHANGED <<answer, group>>,
           RoomFor(group, s),
           s.pc = "deleteGroup" => \A x \in s.cells :
              req[x].pc = "done" /\ (answer[x] # None => answer[x].group = s.group)
    PROVE  RowsFinite' /\ OrdersApart' /\ RoomLeft' /\ LockedCells'
<1>. USE DEF BookInv
<1>1. (\A q \in Request : q # r => req'[q] = req[q]) /\ req'[r] = s
  BY BookTypes DEF Set, TypeOK
<1>2. RowsFinite' /\ OrdersApart'
  BY DEF RowsFinite, OrdersApart
<1>3. RoomLeft'
  BY <1>1 DEF RoomLeft
<1>4. LockedCells'
  <2>. SUFFICES ASSUME NEW q \in Request, req'[q].pc = "deleteGroup", NEW x \in req'[q].cells
                PROVE  /\ req'[x].pc = "done"
                       /\ answer'[x] # None => answer'[x].group = req'[q].group
    BY DEF LockedCells
  <2>1. req[x].pc = "done" /\ (answer[x] # None => answer[x].group = req'[q].group)
    BY <1>1 DEF LockedCells
  <2>. QED
    BY <1>1, <2>1, BookTypes DEF Set, TypeOK
<1>. QED
  BY <1>2, <1>3, <1>4

LEMMA SameRows == \A u, f : GroupsOf(u, f) = RowsIn(group, u, f)
BY DEF GroupsOf, RowsIn

LEMMA CountRowsRoom ==
    ASSUME BookInv, NEW r \in Request, CountRows(r)
    PROVE  RowsFinite' /\ OrdersApart' /\ RoomLeft' /\ LockedCells'
<1>1. /\ req[r] \in [pc : {"count", "last"}, user : User, field : Repeater]
      /\ req[r].pc = "count" /\ UNCHANGED <<answer, group>>
  BY BookTypes, RequestShapes DEF CountRows, TypeOK
<1>2. CASE End(r, "failed")
  BY <1>1, <1>2, QuietRoom DEF End, RoomFor
<1>3. CASE /\ ~(Cardinality(GroupsOf(req[r].user, req[r].field)) >= MaxRows)
           /\ Set(r, [req[r] EXCEPT !.pc = "last"])
  <2>. DEFINE s == [req[r] EXCEPT !.pc = "last"]
  <2>1. s.pc = "last" /\ s.user = req[r].user /\ s.field = req[r].field
    BY <1>1
  <2>2. Cardinality(RowsIn(group, s.user, s.field)) < MaxRows
    BY <1>3, <2>1, SameRows, RowsInFinite, AnswerStoreAssumption DEF BookInv
  <2>3. RoomFor(group, s)
    BY <2>1, <2>2 DEF RoomFor
  <2>. HIDE DEF s
  <2>4. Set(r, s)
    BY <1>3 DEF s
  <2>. QED
    BY <1>1, <2>1, <2>3, <2>4, QuietRoom
<1>. QED
  BY <1>2, <1>3 DEF CountRows

LEMMA LastRowRoom ==
    ASSUME BookInv, NEW r \in Request, LastRow(r)
    PROVE  RowsFinite' /\ OrdersApart' /\ RoomLeft' /\ LockedCells'
<1>. DEFINE u == req[r].user
            f == req[r].field
<1>1. req[r].pc = "last" /\ UNCHANGED <<answer, group>>
  BY DEF LastRow
<1>2. PICK n \in 0 .. Cardinality(Request) :
          /\ IsNextOrder(n, {group[g].order : g \in GroupsOf(u, f)})
          /\ Set(r, [pc |-> "insert", user |-> u, field |-> f, order |-> n])
  BY DEF LastRow
<1>3. \A g \in RowsIn(group, u, f) : group[g].order < n
  BY <1>2, SameRows DEF IsNextOrder
<1>4. Cardinality(RowsIn(group, u, f)) < MaxRows
  BY <1>1 DEF BookInv, RoomLeft, RoomFor
<1>. DEFINE s == [pc |-> "insert", user |-> u, field |-> f, order |-> n]
<1>5. s.pc = "insert" /\ RoomFor(group, s)
  BY <1>3, <1>4 DEF RoomFor
<1>. HIDE DEF s
<1>6. Set(r, s)
  BY <1>2 DEF s
<1>. QED
  BY <1>1, <1>5, <1>6, QuietRoom

LEMMA DeleteCellsRoom ==
    ASSUME BookInv, NEW r \in Request, DeleteCells(r)
    PROVE  RowsFinite' /\ OrdersApart' /\ RoomLeft' /\ LockedCells'
<1>. DEFINE s == [pc |-> "deleteGroup", group |-> req[r].group,
                  cells |-> Cells(req[r].group)]
<1>1. req[r].pc = "deleteCells" /\ UNCHANGED <<answer, group>> /\ Set(r, s)
  BY DEF DeleteCells
<1>2. \A x \in s.cells : req[x].pc = "done" /\ (answer[x] # None => answer[x].group = s.group)
  BY DEF Cells, BookInv, ReadInv, AnswersEnded
<1>3. s.pc = "deleteGroup" /\ RoomFor(group, s)
  BY DEF RoomFor
<1>. HIDE DEF s
<1>. QED
  BY <1>1, <1>2, <1>3, QuietRoom

\* A row is inserted for a client that waits for nothing else.
LEMMA InsertRowRoom ==
    ASSUME BookInv, NEW r \in Request, InsertRow(r)
    PROVE  RowsFinite' /\ OrdersApart' /\ RoomLeft' /\ LockedCells'
<1>. DEFINE u == req[r].user
            f == req[r].field
            n == req[r].order
<1>1. /\ req[r].pc = "insert"
      /\ req[r] \in [pc : {"insert"}, user : User, field : Repeater, order : Nat]
      /\ answer' = answer /\ End(r, "done") /\ TypeOK /\ OneAtATime
  BY BookTypes, RequestShapes DEF InsertRow, TypeOK, OneClientInv
<1>2. /\ \A q \in Request : q # r => req'[q] = req[q]
      /\ req'[r] = [pc |-> "done"]
  BY <1>1 DEF End, Set, TypeOK
<1>3. /\ group[r] = None /\ group'[r] = [user |-> u, field |-> f, order |-> n]
      /\ \A g \in Request : g # r => group'[g] = group[g]
  <2>1. group[r] = None
    BY <1>1, BookTypes DEF StoreInv, RowsEnded
  <2>. QED
    BY <1>1, <2>1 DEF InsertRow, TypeOK
<1>4. RowsFinite'
  <2>1. {g \in Request : group'[g] # None}
           \in SUBSET ({g \in Request : group[g] # None} \cup {r})
    BY <1>3
  <2>. QED
    BY <2>1, FS_AddElement, FS_Subset DEF BookInv, RowsFinite
<1>5. \A g \in Request : group[g] # None /\ group[g].user = u /\ group[g].field = f
                           => group[g].order < n
  BY <1>1 DEF BookInv, RoomLeft, RoomFor, RowsIn
<1>6. OrdersApart'
  <2>1. \A g \in Request : group[g] # None => group[g].order \in Nat
    BY <1>1 DEF TypeOK, GroupRow
  <2>2. ASSUME NEW g \in Request, g # r, group'[g] # None,
               group'[g].user = u, group'[g].field = f, group'[g].order = n
        PROVE  FALSE
    <3>1. group[g].order \in Nat /\ group[g].order < n /\ group[g].order = n /\ n \in Nat
      BY <1>1, <1>3, <1>5, <2>1, <2>2
    <3>. QED
      BY <3>1
  <2>. SUFFICES ASSUME NEW g \in Request, NEW h \in Request,
                       group'[g] # None, group'[h] # None,
                       group'[g].user = group'[h].user, group'[g].field = group'[h].field,
                       group'[g].order = group'[h].order
                PROVE  g = h
    BY DEF OrdersApart
  <2>3. CASE g # r /\ h # r
    BY <1>3, <2>3 DEF BookInv, OrdersApart
  <2>4. CASE g = r \/ h = r
    BY <1>3, <2>2, <2>4
  <2>. QED
    BY <2>3, <2>4
<1>7. ASSUME NEW q \in Request
      PROVE  RoomFor(group', req'[q])
  <2>1. CASE q = r \/ req[q].pc \notin {"last", "insert"}
    BY <1>2, <2>1 DEF RoomFor
  <2>2. CASE q # r /\ req[q].pc \in {"last", "insert"}
    <3>1. req[q].user # u
      <4>1. ~Ended(q) /\ ~Ended(r) /\ ~Saving(r) /\ ~Deleting(q) /\ ~Deleting(r)
        BY <1>1, <2>2 DEF Ended, Saving, Deleting
      <4>. QED
        BY <1>1, <2>2, <4>1 DEF OneAtATime, Client
    <3>2. RowsIn(group', req[q].user, req[q].field) = RowsIn(group, req[q].user, req[q].field)
      BY <1>3, <3>1 DEF RowsIn
    <3>3. \A g \in RowsIn(group, req[q].user, req[q].field) : group'[g] = group[g]
      BY <1>3 DEF RowsIn
    <3>4. req'[q] = req[q] /\ RoomFor(group, req[q])
      BY <1>2, <2>2 DEF BookInv, RoomLeft
    <3>. QED
      BY <3>2, <3>3, <3>4 DEF RoomFor
  <2>. QED
    BY <2>1, <2>2
<1>8. LockedCells'
  <2>. SUFFICES ASSUME NEW q \in Request, req'[q].pc = "deleteGroup", NEW x \in req'[q].cells
                PROVE  /\ req'[x].pc = "done"
                       /\ answer'[x] # None => answer'[x].group = req'[q].group
    BY DEF LockedCells
  <2>1. q # r /\ req'[q] = req[q] /\ req[q].cells \in SUBSET Request
    BY <1>1, <1>2, RequestShapes DEF TypeOK
  <2>. QED
    BY <1>1, <1>2, <2>1 DEF BookInv, LockedCells
<1>. QED
  BY <1>4, <1>6, <1>7, <1>8 DEF RoomLeft

LEMMA OthersRoom ==
    ASSUME BookInv, NEW r \in Request,
           \/ Submit(r) \/ Find(r) \/ Update(r) \/ Create(r) \/ AddRow(r) \/ SyncRow(r)
           \/ DeleteRow(r) \/ DeleteGroup(r) \/ Abort(r)
    PROVE  RowsFinite' /\ OrdersApart' /\ RoomLeft' /\ LockedCells'
<1>1. TypeOK /\ OneClientInv
  BY BookTypes
<1>2. req[r].pc # "done"
  BY DEF Submit, Find, Update, Create, AddRow, SyncRow, DeleteRow, DeleteGroup, Abort,
         Ended, MayStartItem, MayStartAlone, MayStart
<1>3. /\ \A q \in Request : q # r => req'[q] = req[q]
      /\ req'[r].pc \notin {"last", "insert", "deleteGroup"}
  <2>1. ASSUME NEW s, Set(r, s), s.pc \notin {"last", "insert", "deleteGroup"}
        PROVE  /\ \A q \in Request : q # r => req'[q] = req[q]
               /\ req'[r].pc \notin {"last", "insert", "deleteGroup"}
    BY <1>1, <2>1 DEF Set, TypeOK
  <2>2. ASSUME NEW pc \in {"done", "failed"}, End(r, pc)
        PROVE  /\ \A q \in Request : q # r => req'[q] = req[q]
               /\ req'[r].pc \notin {"last", "insert", "deleteGroup"}
    BY <2>1, <2>2 DEF End
  <2>3. CASE Submit(r)
    BY <2>1, <2>2, <2>3 DEF Submit
  <2>4. CASE Update(r) \/ Create(r) \/ DeleteGroup(r) \/ Abort(r)
    BY <2>2, <2>4 DEF Update, Create, DeleteGroup, Abort
  <2>5. CASE AddRow(r) \/ SyncRow(r) \/ DeleteRow(r)
    BY <2>1, <2>2, <2>5 DEF AddRow, SyncRow, DeleteRow
  <2>6. CASE Find(r)
    <3>1. req[r] \in SaveRecord({"find", "create"})
      BY <1>1, <2>6, RequestShapes DEF Find, TypeOK
    <3>. QED
      BY <2>1, <2>6, <3>1 DEF Find, SaveRecord
  <2>. QED
    BY <2>3, <2>4, <2>5, <2>6
<1>4. \A g \in Request : group'[g] # None => group[g] # None /\ group'[g] = group[g]
  BY <1>1 DEF Submit, Find, Update, Create, AddRow, SyncRow, DeleteRow, DeleteGroup, Abort,
              TypeOK
<1>5. \A x \in Request : x # r /\ answer'[x] # None =>
          answer[x] # None /\ answer'[x].group = answer[x].group
  <2>1. CASE UNCHANGED answer
    BY <2>1
  <2>2. CASE Update(r) /\ answer[req[r].existing] # None
    <3>1. req[r].existing \in Request
      BY <1>1, <2>2, RequestShapes DEF Update, TypeOK
    <3>2. answer[req[r].existing] \in AnswerRow
      BY <1>1, <2>2, <3>1 DEF TypeOK
    <3>3. answer' = [answer EXCEPT ![req[r].existing].value = req[r].value]
      BY <2>2 DEF Update
    <3>. QED
      BY <1>1, <2>2, <3>1, <3>2, <3>3 DEF AnswerRow, TypeOK
  <2>3. CASE Create(r)
    BY <1>1, <2>3 DEF Create, TypeOK
  <2>4. CASE DeleteGroup(r) /\ ~UNCHANGED answer
    BY <1>1, <2>4 DEF DeleteGroup, OneClientInv, CellsHeld
  <2>. QED
    BY <2>1, <2>2, <2>3, <2>4 DEF Submit, Find, Update, AddRow, SyncRow, DeleteRow, Abort
<1>. QED
  BY <1>2, <1>3, <1>4, <1>5, KeepsRoom

LEMMA BookStep ==
    ASSUME Deduped = TRUE, OneClient = TRUE
    PROVE  BookInv /\ [Next]_vars => BookInv'
<1>. SUFFICES ASSUME BookInv, [Next]_vars PROVE BookInv'
  OBVIOUS
<1>1. ReadInv'
  BY ReadStep DEF BookInv
<1>2. CASE UNCHANGED vars
  BY <1>1, <1>2 DEF vars, BookInv, RowsFinite, OrdersApart, RoomLeft, RoomFor, RowsIn,
                    LockedCells
<1>. QED
  BY <1>1, <1>2, CountRowsRoom, LastRowRoom, DeleteCellsRoom, InsertRowRoom, OthersRoom
     DEF Next, BookInv

-----------------------------------------------------------------------------
(* The rows as the book sees them *)

LEMMA RowsOrderly ==
    BookInv => \A u \in User, f \in Repeater : Orderly(group, GroupsOf(u, f))
<1>. SUFFICES ASSUME BookInv, NEW u \in User, NEW f \in Repeater
              PROVE  Orderly(group, GroupsOf(u, f))
  OBVIOUS
<1>1. IsFiniteSet(GroupsOf(u, f))
  BY SameRows, RowsInFinite DEF BookInv
<1>2. \A g \in GroupsOf(u, f) : group[g].order \in Nat
  BY BookTypes DEF TypeOK, GroupRow, GroupsOf
<1>3. \A g, h \in GroupsOf(u, f) : group[g].order = group[h].order => g = h
  BY DEF BookInv, OrdersApart, GroupsOf
<1>. QED
  BY <1>1, <1>2, <1>3 DEF Orderly

RowsOf(u, f) == [g \in GroupsOf(u, f) |-> ReadRow(u, f, g)]

LEMMA RowsListed ==
    BookInv => \A u \in User, f \in Repeater :
                  ReadRows(u, f) = ListIn(group, GroupsOf(u, f), RowsOf(u, f))
<1>. SUFFICES ASSUME BookInv, NEW u \in User, NEW f \in Repeater
              PROVE  ReadRows(u, f) = ListIn(group, GroupsOf(u, f), RowsOf(u, f))
  OBVIOUS
<1>. DEFINE S == GroupsOf(u, f)
            Nth(n) == CHOOSE g \in S : Below(S, g) < n /\ n <= UpTo(S, g)
<1>1. \A n : Nth(n) = NthIn(group, S, n)
  BY DEF Below, UpTo, NthIn, BelowIn, UpToIn
<1>2. ASSUME NEW n \in 1 .. Cardinality(S)
      PROVE  ReadRow(u, f, Nth(n)) = RowsOf(u, f)[NthIn(group, S, n)]
  <2>1. NthIn(group, S, n) \in S
    BY RowsOrderly, NthRank
  <2>2. \A g \in S : RowsOf(u, f)[g] = ReadRow(u, f, g)
    BY DEF RowsOf
  <2>3. Nth(n) = NthIn(group, S, n)
    BY <1>1
  <2>. HIDE DEF S, Nth
  <2>. QED
    BY <2>1, <2>2, <2>3
<1>3. ReadRows(u, f) = [n \in 1 .. Cardinality(S) |-> ReadRow(u, f, Nth(n))]
  BY DEF ReadRows
<1>. HIDE DEF S, Nth
<1>. QED
  BY <1>2, <1>3 DEF ListIn, S

LEMMA RowsListedNext ==
    BookInv' => (\A u \in User, f \in Repeater :
                    ReadRows(u, f) = ListIn(group, GroupsOf(u, f), RowsOf(u, f)))'
BY RowsListed, PTL

LEMMA HasRowListed ==
    BookInv => \A u \in User, f \in Repeater : \A g :
                  Book!HasRow(ReadRows(u, f), g) <=> g \in GroupsOf(u, f)
<1>. SUFFICES ASSUME BookInv, NEW u \in User, NEW f \in Repeater, NEW g
              PROVE  Book!HasRow(ReadRows(u, f), g) <=> g \in GroupsOf(u, f)
  OBVIOUS
<1>. DEFINE S == GroupsOf(u, f)
            L == ReadRows(u, f)
<1>1. Orderly(group, S)
  BY RowsOrderly
<1>2. \A h \in S : RowsOf(u, f)[h].id = h
  BY DEF RowsOf, ReadRow
<1>3. /\ DOMAIN L = 1 .. Cardinality(S)
      /\ \A n \in 1 .. Cardinality(S) : L[n] = RowsOf(u, f)[NthIn(group, S, n)]
  BY RowsListed DEF ListIn
<1>. HIDE DEF S, L
<1>4. \A n \in DOMAIN L : L[n].id = NthIn(group, S, n) /\ NthIn(group, S, n) \in S
  BY <1>1, <1>2, <1>3, NthRank
<1>5. ASSUME g \in S PROVE \E n \in DOMAIN L : L[n].id = g
  <2>1. RankIn(group, S, g) \in DOMAIN L /\ NthIn(group, S, RankIn(group, S, g)) = g
    BY <1>1, <1>3, <1>5, RankRange, RankNth
  <2>. QED
    BY <1>4, <2>1
<1>. QED
  BY <1>4, <1>5 DEF Book!HasRow, S, L

LEMMA SameValues ==
    ASSUME UNCHANGED answer
    PROVE  \A u, f, g : ReadValue(u, f, g)' = ReadValue(u, f, g)
BY DEF ReadValue, Matching

LEMMA SameReadRows ==
    ASSUME UNCHANGED <<answer, group>>, NEW u, NEW f
    PROVE  ReadRows(u, f)' = ReadRows(u, f)
BY DEF ReadRows, ReadRow, ReadValue, Matching, GroupsOf, Below, UpTo

LEMMA QuietBook ==
    ASSUME UNCHANGED <<answer, group>>
    PROVE  UNCHANGED Book!book
<1>1. \A u, f, g : ReadValue(u, f, g)' = ReadValue(u, f, g)
  BY SameValues
<1>2. \A u, f : ReadRows(u, f)' = ReadRows(u, f)
  BY SameReadRows
<1>. QED
  BY <1>1, <1>2 DEF Book!book

LEMMA InitBook == Init => Book!Init
<1>. SUFFICES ASSUME Init PROVE Book!Init
  OBVIOUS
<1>1. \A u \in User, f \in Scalar : ReadValue(u, f, None) = None
  BY DEF Init, ReadValue, Matching
<1>2. \A u \in User, f \in Repeater : ReadRows(u, f) = <<>>
  <2>. SUFFICES ASSUME NEW u \in User, NEW f \in Repeater
                PROVE  ReadRows(u, f) = <<>>
    OBVIOUS
  <2>1. GroupsOf(u, f) = {}
    BY DEF Init, GroupsOf
  <2>3. ReadRows(u, f) = ListIn(group, {}, RowsOf(u, f))
    BY <2>1, BookInit, RowsListed
  <2>4. 1 .. Cardinality({}) = {}
    BY FS_EmptySet
  <2>. QED
    BY <2>3, <2>4 DEF ListIn
<1>. QED
  BY <1>1, <1>2 DEF Book!Init

\* The step of a save writes one value, into a row that is there.
LEMMA SaveBook ==
    ASSUME BookInv, BookInv', group' = group,
           NEW u \in User, NEW c \in Field, NEW g \in Request \cup {None}, NEW v \in Value,
           \/ c \in Scalar /\ g = None
           \/ c \in Subfield /\ g \in GroupsOf(u, Parent[c]),
           \A w \in User, d \in Field, h \in Request \cup {None} :
              (d \in Subfield => h # None) =>
                 ReadValue(w, d, h)' =
                    IF w = u /\ d = c /\ h = g THEN v ELSE ReadValue(w, d, h)
    PROVE  Book!Next
<1>. DEFINE item == [field |-> c, row |-> g, value |-> v]
<1>1. \A d, h, old : Book!Put({item}, d, h, old) = IF d = c /\ h = g THEN v ELSE old
  <2>. SUFFICES ASSUME NEW d, NEW h, NEW old
                PROVE  Book!Put({item}, d, h, old) = IF d = c /\ h = g THEN v ELSE old
    OBVIOUS
  <2>1. item.field = c /\ item.row = g /\ item.value = v
    OBVIOUS
  <2>. HIDE DEF item
  <2>2. CASE d = c /\ h = g
    <3>1. (CHOOSE i \in {item} : i.field = d /\ i.row = h) = item
      BY <2>1, <2>2
    <3>. QED
      BY <2>1, <2>2, <3>1 DEF Book!Put
  <2>3. CASE ~(d = c /\ h = g)
    BY <2>1, <2>3 DEF Book!Put
  <2>. QED
    BY <2>2, <2>3
<1>2. item \in Book!Item
  BY DEF Book!Item, Field
<1>3. Book!SavableBy(u, {item})
  <2>1. c \in Subfield => c \notin Scalar /\ Parent[c] \in Repeater
    BY AnswerStoreAssumption
  <2>2. c \in Subfield => Book!HasRow(ReadRows(u, Parent[c]), g)
    BY <2>1, HasRowListed, AnswerStoreAssumption
  <2>. QED
    BY <2>1, <2>2 DEF Book!SavableBy
<1>4. ASSUME NEW w \in User, NEW d \in Scalar
      PROVE  ReadValue(w, d, None)' =
                IF w = u THEN Book!Put({item}, d, None, ReadValue(w, d, None))
                ELSE ReadValue(w, d, None)
  <2>1. d \in Field /\ d \notin Subfield
    BY AnswerStoreAssumption DEF Field
  <2>. QED
    BY <1>1, <2>1
<1>5. BookInv' => (\A w \in User, f \in Repeater :
                      ReadRows(w, f) = ListIn(group, GroupsOf(w, f), RowsOf(w, f)))'
  BY RowsListedNext
<1>6. ASSUME NEW w \in User, NEW f \in Repeater
      PROVE  ReadRows(w, f)' =
                IF w = u
                THEN [n \in DOMAIN ReadRows(w, f) |->
                        Book!PutRow({item}, f, ReadRows(w, f)[n])]
                ELSE ReadRows(w, f)
  <2>. DEFINE S == GroupsOf(w, f)
              D == Book!Columns(f)
              Nth(n) == NthIn(group, S, n)
              N == Cardinality(S)
              L == ReadRows(w, f)
              put(row) == Book!PutRow({item}, f, row)
  <2>1. GroupsOf(w, f)' = S
    BY DEF GroupsOf
  <2>2. L = [n \in 1 .. N |-> RowsOf(w, f)[Nth(n)]]
    BY RowsListed DEF ListIn
  <2>3. L' = [n \in 1 .. N |-> (RowsOf(w, f)')[Nth(n)]]
    BY <1>5, <2>1 DEF ListIn
  <2>4. \A n \in 1 .. N : Nth(n) \in S
    BY RowsOrderly, NthRank
  <2>5. ASSUME NEW h \in S
        PROVE  /\ RowsOf(w, f)[h] = ReadRow(w, f, h)
               /\ (RowsOf(w, f)')[h] = ReadRow(w, f, h)'
    BY <2>1 DEF RowsOf
  <2>6. ASSUME NEW h \in S
        PROVE  ReadRow(w, f, h)' = IF w = u THEN put(ReadRow(w, f, h)) ELSE ReadRow(w, f, h)
    <3>1. h \in Request \cup {None} /\ h # None
      BY AnswerStoreAssumption DEF GroupsOf
    <3>2. \A d \in D : ReadValue(w, d, h)' =
                          IF w = u THEN Book!Put({item}, d, h, ReadValue(w, d, h))
                          ELSE ReadValue(w, d, h)
      <4>. HIDE DEF item
      <4>. QED
        BY <1>1, <3>1 DEF Book!Columns, Field
    <3>. HIDE DEF item
    <3>. QED
      BY <3>2 DEF ReadRow, Book!PutRow, Book!Columns
  <2>. HIDE DEF S, N, Nth, put, item
  <2>7. CASE w = u
    <3>1. L' = [n \in 1 .. N |-> put(ReadRow(w, f, Nth(n)))]
      BY <2>3, <2>4, <2>5, <2>6, <2>7
    <3>2. DOMAIN L = 1 .. N /\ \A n \in 1 .. N : L[n] = ReadRow(w, f, Nth(n))
      BY <2>2, <2>4, <2>5
    <3>3. L' = [n \in DOMAIN L |-> put(L[n])]
      BY <3>1, <3>2
    <3>. QED
      BY <2>7, <3>3 DEF put
  <2>8. CASE w # u
    BY <2>2, <2>3, <2>4, <2>5, <2>6, <2>8
  <2>. QED
    BY <2>7, <2>8
<1>. HIDE DEF item
<1>7. Book!Save(u, {item})
  <2>. DEFINE A == [w \in User |-> [f \in Scalar |-> ReadValue(w, f, None)]]
              R == [w \in User |-> [f \in Repeater |-> ReadRows(w, f)]]
  <2>1. A' = [A EXCEPT ![u] = [f \in Scalar |-> Book!Put({item}, f, None, A[u][f])]]
    <3>1. A[u] = [f \in Scalar |-> ReadValue(u, f, None)]
      OBVIOUS
    <3>2. [f \in Scalar |-> Book!Put({item}, f, None, A[u][f])]
             = [f \in Scalar |-> ReadValue(u, f, None)']
      BY <1>4, <3>1
    <3>. QED
      BY <1>4, <3>2
  <2>2. R' = [R EXCEPT ![u] =
                [f \in Repeater |->
                   [i \in DOMAIN R[u][f] |-> Book!PutRow({item}, f, R[u][f][i])]]]
    <3>1. R[u] = [f \in Repeater |-> ReadRows(u, f)]
      OBVIOUS
    <3>2. [f \in Repeater |->
              [i \in DOMAIN R[u][f] |-> Book!PutRow({item}, f, R[u][f][i])]]
             = [f \in Repeater |-> ReadRows(u, f)']
      BY <1>6, <3>1
    <3>. QED
      BY <1>6, <3>2
  <2>. QED
    BY <1>3, <2>1, <2>2 DEF Book!Save
<1>. QED
  BY <1>2, <1>7 DEF Book!Next
\* Writing the one answer of a key changes what that key reads, and no other.
LEMMA WrittenValue ==
    ASSUME NEW e \in Request, NEW u, NEW c, NEW g, NEW v,
           answer'[e] # None, answer'[e].user = u, answer'[e].field = c,
           answer'[e].group = g, answer'[e].value = v,
           \A x \in Request : x # e => answer'[x] = answer[x],
           Matching(u, c, g) \subseteq {e}, answer[e] = None \/ e \in Matching(u, c, g)
    PROVE  \A w, d, h : ReadValue(w, d, h)' =
                           IF w = u /\ d = c /\ h = g THEN v ELSE ReadValue(w, d, h)
<1>. SUFFICES ASSUME NEW w, NEW d, NEW h
              PROVE  ReadValue(w, d, h)' =
                        IF w = u /\ d = c /\ h = g THEN v ELSE ReadValue(w, d, h)
  OBVIOUS
<1>1. CASE w = u /\ d = c /\ h = g
  <2>1. Matching(w, d, h)' = {e}
    BY <1>1 DEF Matching
  <2>. QED
    BY <1>1, <2>1 DEF ReadValue
<1>2. CASE ~(w = u /\ d = c /\ h = g)
  <2>1. Matching(w, d, h)' = Matching(w, d, h)
    BY <1>2 DEF Matching
  <2>2. \A x \in Matching(w, d, h) : answer'[x] = answer[x]
    BY <1>2 DEF Matching
  <2>. QED
    BY <1>2, <2>1, <2>2 DEF ReadValue
<1>. QED
  BY <1>1, <1>2

LEMMA UpdateBook ==
    ASSUME BookInv, BookInv', NEW r \in Request, Update(r),
           answer[req[r].existing] # None
    PROVE  Book!Next
<1>. DEFINE e == req[r].existing
            u == req[r].user
            c == req[r].field
            g == req[r].group
            v == req[r].value
<1>1. /\ req[r].pc = "update" /\ e \in Request /\ u \in User /\ c \in Field
      /\ g \in Request \cup {None} /\ v \in Value
  BY BookTypes, RequestShapes DEF Update, TypeOK
<1>2. answer' = [answer EXCEPT ![e].value = v] /\ group' = group
  BY DEF Update
<1>3. answer[e] \in AnswerRow /\ answer \in [Request -> AnswerRow \cup {None}]
  BY <1>1, BookTypes DEF TypeOK
<1>4. e \in Matching(u, c, g)
  BY <1>1 DEF BookInv, ReadInv, UpdatesMatch
<1>5. /\ answer[e].user = u /\ answer[e].field = c /\ answer[e].group = g
  BY <1>4 DEF Matching
<1>6. /\ \A x \in Request : x # e => answer'[x] = answer[x]
      /\ answer'[e] \in AnswerRow /\ answer'[e].value = v
      /\ answer'[e].user = u /\ answer'[e].field = c /\ answer'[e].group = g
  <2>. HIDE DEF e, u, c, g, v
  <2>. QED
    BY <1>1, <1>2, <1>3, <1>5 DEF AnswerRow
<1>7. answer'[e] # None
  BY <1>6, AnswerStoreAssumption DEF AnswerRow, Field
<1>8. \/ c \in Scalar /\ g = None
      \/ c \in Subfield /\ g \in GroupsOf(u, Parent[c])
  <2>1. g = None => c \in Scalar
    BY <1>1, <1>5, BookTypes DEF OneClientInv, NoStrayCells, Field
  <2>2. ASSUME g # None
        PROVE  c \in Subfield /\ g \in GroupsOf(u, Parent[c])
    <3>1. c \in Subfield
      BY <1>1, <1>5, <2>2, BookTypes DEF StoreInv, OnlyCellsGrouped
    <3>2. group[g] # None /\ group[g].user = u /\ group[g].field = Parent[c]
      BY <1>1, <1>5, <2>2, BookTypes DEF StoreInv, CellsBelong
    <3>. QED
      BY <1>1, <2>2, <3>1, <3>2 DEF GroupsOf
  <2>. QED
    BY <2>1, <2>2
<1>9. Matching(u, c, g) \subseteq {e}
  <2>1. (c \in Scalar /\ g = None) \/ g # None
    BY <1>8, AnswerStoreAssumption DEF GroupsOf
  <2>2. OneAnswerInv /\ OneCell
    BY DEF BookInv, ReadInv
  <2>. HIDE DEF e, u, c, g
  <2>3. \A x \in Matching(u, c, g) : x = e
    BY <1>1, <1>4, <2>1, <2>2, OneMatch
  <2>. QED
    BY <2>3
<1>. HIDE DEF e, u, c, g, v
<1>10. \A w, d, h : ReadValue(w, d, h)' =
                       IF w = u /\ d = c /\ h = g THEN v ELSE ReadValue(w, d, h)
  BY <1>1, <1>4, <1>6, <1>7, <1>9, WrittenValue
<1>. QED
  BY <1>1, <1>2, <1>8, <1>10, SaveBook

LEMMA CreateBook ==
    ASSUME BookInv, BookInv', NEW r \in Request, Create(r), ~UNCHANGED answer
    PROVE  Book!Next
<1>. DEFINE u == req[r].user
            c == req[r].field
            g == req[r].group
            v == req[r].value
<1>1. /\ req[r].pc = "create" /\ SaveBelongs(req[r])
      /\ req[r] \in SaveRecord({"find", "create"}) /\ TypeOK
  BY BookTypes, RequestShapes DEF Create, StoreInv, SavesBelong, TypeOK
<1>2. u \in User /\ c \in Field /\ g \in Request \cup {None} /\ v \in Value
  BY <1>1 DEF SaveRecord
<1>3. /\ answer' = [answer EXCEPT ![r] =
             [user |-> u, field |-> c, group |-> g, value |-> v]]
      /\ g # None =>
            /\ group[g] # None
            /\ ~\E x \in Request : answer[x] # None /\ answer[x].field = c
                                     /\ answer[x].group = g
      /\ group' = group
  BY DEF Create
<1>4. /\ \A x \in Request : x # r => answer'[x] = answer[x]
      /\ answer'[r] = [user |-> u, field |-> c, group |-> g, value |-> v]
  BY <1>1, <1>3 DEF TypeOK
<1>5. answer'[r] # None
  BY <1>2, <1>4, AnswerStoreAssumption DEF Field
<1>6. answer[r] = None
  BY <1>1 DEF BookInv, ReadInv, AnswersEnded
<1>7. \/ c \in Scalar /\ g = None
      \/ c \in Subfield /\ g \in GroupsOf(u, Parent[c])
  BY <1>1, <1>3, AnswerStoreAssumption DEF SaveBelongs, GroupsOf
<1>8. Matching(u, c, g) = {}
  <2>1. CASE g # None
    BY <1>3, <2>1 DEF Matching
  <2>2. CASE g = None
    <3>1. c \in Scalar
      BY <1>7, <2>2, AnswerStoreAssumption DEF GroupsOf
    <3>2. \A x \in Request : x \notin Matching(u, c, None)
      BY <1>1, <3>1 DEF BookInv, ReadInv, OneAnswerInv, CreatesAreNew
    <3>3. Matching(u, c, None) \subseteq Request
      BY DEF Matching
    <3>. HIDE DEF u, c, g
    <3>. QED
      BY <2>2, <3>2, <3>3
  <2>. QED
    BY <2>1, <2>2
<1>. HIDE DEF u, c, g, v
<1>9. \A w, d, h : ReadValue(w, d, h)' =
                      IF w = u /\ d = c /\ h = g THEN v ELSE ReadValue(w, d, h)
  BY <1>4, <1>5, <1>6, <1>8, WrittenValue
<1>. QED
  BY <1>2, <1>3, <1>7, <1>9, SaveBook

LEMMA InsertBook ==
    ASSUME BookInv, BookInv', NEW r \in Request, InsertRow(r)
    PROVE  Book!Next
<1>0. PICK u, f, n : u = req[r].user /\ f = req[r].field /\ n = req[r].order
  OBVIOUS
<1>. DEFINE S == GroupsOf(u, f)
            R == [w \in User |-> [d \in Repeater |-> ReadRows(w, d)]]
<1>1. /\ req[r].pc = "insert" /\ u \in User /\ f \in Repeater /\ n \in Nat
      /\ answer' = answer /\ TypeOK
  BY <1>0, BookTypes, RequestShapes DEF InsertRow, TypeOK
<1>2. /\ group[r] = None /\ group'[r] = [user |-> u, field |-> f, order |-> n]
      /\ \A g \in Request : g # r => group'[g] = group[g]
  <2>1. group[r] = None
    BY <1>1, BookTypes DEF StoreInv, RowsEnded
  <2>. QED
    BY <1>0, <1>1, <2>1 DEF InsertRow, TypeOK
<1>3. group'[r] # None
  BY <1>1, <1>2, AnswerStoreAssumption
<1>4. /\ Cardinality(S) < MaxRows /\ \A g \in S : group[g].order < n
      /\ r \notin S /\ Orderly(group, S)
  <2>1. S = RowsIn(group, u, f)
    BY SameRows
  <2>2. /\ Cardinality(RowsIn(group, u, f)) < MaxRows
        /\ \A g \in RowsIn(group, u, f) : group[g].order < n
    BY <1>0, <1>1 DEF BookInv, RoomLeft, RoomFor
  <2>3. r \notin S
    BY <1>2 DEF GroupsOf
  <2>4. Orderly(group, S)
    BY <1>1, RowsOrderly
  <2>. HIDE DEF S
  <2>. QED
    BY <2>1, <2>2, <2>3, <2>4
<1>5. \A w, d, h : ReadValue(w, d, h)' = ReadValue(w, d, h)
  BY <1>1, SameValues
<1>6. \A w, d, h : ReadRow(w, d, h)' = ReadRow(w, d, h)
  BY <1>5 DEF ReadRow
<1>7. ReadRow(u, f, r) = Book!BlankRow(f, r)
  <2>1. \A c : Matching(u, c, r) = {}
    BY <1>2, BookTypes, AnswerStoreAssumption DEF Matching, StoreInv, CellsBelong
  <2>2. \A c : ReadValue(u, c, r) = None
    BY <2>1 DEF ReadValue
  <2>. QED
    BY <2>2 DEF ReadRow, Book!BlankRow, Book!Columns
<1>8. ASSUME NEW w \in User, NEW d \in Repeater
      PROVE  /\ ReadRows(w, d) = ListIn(group, GroupsOf(w, d), RowsOf(w, d))
             /\ ReadRows(w, d)' = ListIn(group', GroupsOf(w, d)', RowsOf(w, d)')
             /\ \A h \in GroupsOf(w, d) : RowsOf(w, d)[h] = ReadRow(w, d, h)
             /\ \A h \in GroupsOf(w, d)' : (RowsOf(w, d)')[h] = ReadRow(w, d, h)
             /\ \A h \in GroupsOf(w, d) : h # r /\ group'[h] = group[h]
  <2>1. /\ ReadRows(w, d) = ListIn(group, GroupsOf(w, d), RowsOf(w, d))
        /\ ReadRows(w, d)' = ListIn(group', GroupsOf(w, d)', RowsOf(w, d)')
    BY RowsListed, RowsListedNext
  <2>2. \A h \in GroupsOf(w, d) : h # r /\ group'[h] = group[h]
    BY <1>2 DEF GroupsOf
  <2>. QED
    BY <1>6, <2>1, <2>2 DEF RowsOf
<1>9. ReadRows(u, f)' = Append(ReadRows(u, f), Book!BlankRow(f, r))
  <2>1. GroupsOf(u, f)' = S \cup {r}
    BY <1>1, <1>2, <1>3 DEF GroupsOf
  <2>2. group'[r].order \in Nat /\ \A h \in S : group[h].order < group'[r].order
    BY <1>1, <1>2, <1>4
  <2>3. /\ \A h \in S : (RowsOf(u, f)')[h] = RowsOf(u, f)[h]
        /\ (RowsOf(u, f)')[r] = Book!BlankRow(f, r)
    BY <1>1, <1>7, <1>8, <2>1
  <2>4. \A h \in S : group'[h] = group[h] /\ group[h].order < group'[r].order
    BY <1>1, <1>8, <2>2
  <2>5. ListIn(group', S \cup {r}, RowsOf(u, f)')
           = Append(ListIn(group, S, RowsOf(u, f)), (RowsOf(u, f)')[r])
    <3>1. \A h \in S : (RowsOf(u, f)')[h] = RowsOf(u, f)[h]
      BY <2>3
    <3>2. group'[r].order \in Nat /\ r \notin S /\ Orderly(group, S)
      BY <1>4, <2>2
    <3>3. Added(group, group', S, r, RowsOf(u, f), RowsOf(u, f)')
      BY <2>4, <3>1, <3>2 DEF Added
    <3>. HIDE DEF S
    <3>4. ComesLast(group, group', S, r, RowsOf(u, f), RowsOf(u, f)')
      BY <3>3, LastInList
    <3>. QED
      BY <3>4 DEF ComesLast
  <2>. QED
    BY <1>1, <1>8, <2>1, <2>3, <2>5
<1>10. ASSUME NEW w \in User, NEW d \in Repeater, ~(w = u /\ d = f)
       PROVE  ReadRows(w, d)' = ReadRows(w, d)
  <2>1. GroupsOf(w, d)' = GroupsOf(w, d)
    BY <1>2, <1>10 DEF GroupsOf
  <2>2. Orderly(group, GroupsOf(w, d))
    BY RowsOrderly
  <2>3. ListIn(group', GroupsOf(w, d), RowsOf(w, d)')
           = ListIn(group, GroupsOf(w, d), RowsOf(w, d))
    BY <1>8, <2>1, <2>2, SameList
  <2>. QED
    BY <1>8, <2>1, <2>3
<1>11. ~Book!Used(r)
  <2>1. \A w \in User, d \in Repeater : r \notin GroupsOf(w, d)
    BY <1>2 DEF GroupsOf
  <2>. QED
    BY <2>1, HasRowListed DEF Book!Used
<1>12. Len(R[u][f]) < MaxRows
  <2>1. R[u][f] = [k \in 1 .. Cardinality(S) |-> RowsOf(u, f)[NthIn(group, S, k)]]
    BY <1>1, <1>8 DEF ListIn
  <2>2. Cardinality(S) \in Nat
    BY <1>4, FS_CardinalityType DEF Orderly
  <2>3. Len(R[u][f]) = Cardinality(S)
    <3>. HIDE DEF S, R
    <3>. QED
      BY <2>1, <2>2
  <2>. QED
    BY <1>4, <2>3
<1>. HIDE DEF S
<1>13. R' = [R EXCEPT ![u][f] = Append(@, Book!BlankRow(f, r))]
  BY <1>1, <1>9, <1>10
<1>14. Book!AddRow(u, f, r)
  BY <1>5, <1>11, <1>12, <1>13 DEF Book!AddRow
<1>. QED
  BY <1>1, <1>14 DEF Book!Next

LEMMA DeleteBook ==
    ASSUME BookInv, BookInv', NEW r \in Request, DeleteGroup(r)
    PROVE  Book!Next
<1>0. PICK g : g = req[r].group
  OBVIOUS
<1>1. /\ req[r].pc = "deleteGroup" /\ g \in Request /\ group[g] # None
      /\ req[r].cells \subseteq Request /\ TypeOK
  BY <1>0, BookTypes, RequestShapes DEF DeleteGroup, TypeOK, OneClientInv, DeletesStand, Deleting
<1>2. PICK u, f : u = group[g].user /\ f = group[g].field
  OBVIOUS
<1>3. u \in User /\ f \in Repeater
  BY <1>1, <1>2 DEF TypeOK, GroupRow
<1>4. group'[g] = None /\ \A h \in Request : h # g => group'[h] = group[h]
  BY <1>0, <1>1 DEF DeleteGroup, TypeOK
<1>5. \A x \in Request : answer'[x] = IF x \in req[r].cells THEN None ELSE answer[x]
  <2>1. Cells(g) \subseteq req[r].cells
    BY <1>0, <1>1, BookTypes DEF OneClientInv, CellsHeld
  <2>. QED
    BY <1>0, <1>1, <2>1 DEF DeleteGroup
<1>6. \A w, d, h : h # g => ReadValue(w, d, h)' = ReadValue(w, d, h)
  <2>. SUFFICES ASSUME NEW w, NEW d, NEW h, h # g
                PROVE  ReadValue(w, d, h)' = ReadValue(w, d, h)
    OBVIOUS
  <2>1. \A x \in req[r].cells : answer[x] # None => answer[x].group = g
    BY <1>0, <1>1 DEF BookInv, LockedCells
  <2>2. Matching(w, d, h)' = Matching(w, d, h)
    BY <1>5, <2>1 DEF Matching
  <2>3. \A x \in Matching(w, d, h) : answer'[x] = answer[x]
    BY <1>5, <2>1 DEF Matching
  <2>. QED
    BY <2>2, <2>3 DEF ReadValue
<1>7. \A w, d, h : h # g => ReadRow(w, d, h)' = ReadRow(w, d, h)
  BY <1>6 DEF ReadRow
<1>8. \A w, d : GroupsOf(w, d)' = GroupsOf(w, d) \ {g}
  BY <1>4 DEF GroupsOf
<1>9. ASSUME NEW w \in User, NEW d \in Repeater
      PROVE  /\ ReadRows(w, d) = ListIn(group, GroupsOf(w, d), RowsOf(w, d))
             /\ ReadRows(w, d)' = ListIn(group', GroupsOf(w, d) \ {g}, RowsOf(w, d)')
             /\ Orderly(group, GroupsOf(w, d))
             /\ \A h \in GroupsOf(w, d) \ {g} :
                   group'[h] = group[h] /\ (RowsOf(w, d)')[h] = RowsOf(w, d)[h]
  <2>1. /\ ReadRows(w, d) = ListIn(group, GroupsOf(w, d), RowsOf(w, d))
        /\ ReadRows(w, d)' = ListIn(group', GroupsOf(w, d)', RowsOf(w, d)')
    BY RowsListed, RowsListedNext
  <2>2. \A h \in GroupsOf(w, d) \ {g} : group'[h] = group[h]
    BY <1>4 DEF GroupsOf
  <2>3. \A h \in GroupsOf(w, d) \ {g} : (RowsOf(w, d)')[h] = RowsOf(w, d)[h]
    BY <1>7, <1>8 DEF RowsOf
  <2>. QED
    BY <1>8, <2>1, <2>2, <2>3, RowsOrderly
<1>10. g \in GroupsOf(u, f) /\ \A h \in GroupsOf(u, f) : RowsOf(u, f)[h].id = h
  BY <1>1, <1>2 DEF GroupsOf, RowsOf, ReadRow
<1>. DEFINE L == ReadRows(u, f)
<1>11. L' = Without(L, g)
  <2>1. ListIn(group', GroupsOf(u, f) \ {g}, RowsOf(u, f)')
           = Without(ListIn(group, GroupsOf(u, f), RowsOf(u, f)), g)
    BY <1>3, <1>9, <1>10, GoneFromList
  <2>. QED
    BY <1>3, <1>9, <2>1
<1>12. ASSUME NEW w \in User, NEW d \in Repeater, ~(w = u /\ d = f)
       PROVE  ReadRows(w, d)' = ReadRows(w, d)
  <2>1. GroupsOf(w, d) \ {g} = GroupsOf(w, d)
    BY <1>2, <1>12 DEF GroupsOf
  <2>2. ListIn(group', GroupsOf(w, d), RowsOf(w, d)')
           = ListIn(group, GroupsOf(w, d), RowsOf(w, d))
    BY <1>9, <2>1, SameList
  <2>. QED
    BY <1>9, <2>1, <2>2
<1>13. Book!HasRow(L, g)
  BY <1>3, <1>10, HasRowListed
<1>. DEFINE R == [w \in User |-> [d \in Repeater |-> ReadRows(w, d)]]
<1>14. R' = [R EXCEPT ![u][f] = Book!Picked(@, {i \in DOMAIN @ : @[i].id # g})]
  <2>1. R[u][f] = L
    BY <1>3
  <2>2. L' = Book!Picked(R[u][f], {i \in DOMAIN R[u][f] : R[u][f][i].id # g})
    BY <1>11, <2>1, BookPicks DEF Without
  <2>3. \A w \in User, d \in Repeater :
           ReadRows(w, d)' = IF w = u /\ d = f THEN L' ELSE ReadRows(w, d)
    BY <1>12
  <2>. QED
    BY <1>3, <2>2, <2>3
<1>15. \A w \in User, d \in Scalar : ReadValue(w, d, None)' = ReadValue(w, d, None)
  BY <1>1, <1>6, AnswerStoreAssumption
<1>16. Book!DeleteRow(u, f, g)
  BY <1>3, <1>13, <1>14, <1>15 DEF Book!DeleteRow
<1>. QED
  BY <1>1, <1>3, <1>16 DEF Book!Next

LEMMA BookRefines == BookInv /\ BookInv' /\ [Next]_vars => [Book!Next]_Book!book
<1>. SUFFICES ASSUME BookInv, BookInv', [Next]_vars
              PROVE  [Book!Next]_Book!book
  OBVIOUS
<1>1. CASE UNCHANGED <<answer, group>>
  BY <1>1, QuietBook
<1>2. ASSUME NEW r \in Request, ~UNCHANGED <<answer, group>>,
             \/ Update(r) \/ Create(r) \/ InsertRow(r) \/ DeleteGroup(r)
      PROVE  Book!Next
  <2>1. CASE Update(r)
    <3>1. answer[req[r].existing] # None
      BY <1>2, <2>1 DEF Update
    <3>. QED
      BY <2>1, <3>1, UpdateBook
  <2>2. CASE Create(r)
    <3>1. ~UNCHANGED answer
      BY <1>2, <2>2 DEF Create
    <3>. QED
      BY <2>2, <3>1, CreateBook
  <2>. QED
    BY <1>2, <2>1, <2>2, InsertBook, DeleteBook
<1>. QED
  BY <1>1, <1>2 DEF Next, vars, Submit, Find, AddRow, SyncRow, CountRows, LastRow, DeleteRow,
                    DeleteCells, Abort

\* With one waiting client per user, the interleaved steps of its requests are
\* the atomic operations of the book (fieldAnswer.service.ts:228-270, 346-407):
\* a save takes effect at its update or create, a row is appended when it is
\* inserted and goes with its cells when its deletion commits.
THEOREM StoreImplementsBook ==
    ASSUME Deduped = TRUE, OneClient = TRUE
    PROVE  Spec => ImplementsBook
<1>1. Init => BookInv
  BY BookInit
<1>2. BookInv /\ [Next]_vars => BookInv'
  BY BookStep
<1>3. Init => Book!Init
  BY InitBook
<1>4. BookInv /\ BookInv' /\ [Next]_vars => [Book!Next]_Book!book
  BY BookRefines
<1>. QED
  BY <1>1, <1>2, <1>3, <1>4, PTL DEF Spec, ImplementsBook, Book!Spec
=============================================================================
