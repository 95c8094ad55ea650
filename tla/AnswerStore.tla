------------------------------ MODULE AnswerStore ------------------------------
(***************************************************************************)
(* The answer rows of fieldAnswer.service.ts and the requests that write    *)
(* them.  A bulk save runs each of its items on its own, outside any        *)
(* transaction (submitFieldAnswers), so one item is one request here: it     *)
(* checks, looks for an existing row, then updates or creates.  Repeater     *)
(* rows ("answer groups") are added and deleted in READ COMMITTED            *)
(* transactions.                                                           *)
(*                                                                         *)
(* A request runs once and inserts at most one row or group, which takes    *)
(* the request's name as its id.                                           *)
(***************************************************************************)
EXTENDS Naturals, FiniteSets

CONSTANTS
    User,
    Scalar,      \* top-level fields with an answer of their own
    Repeater,    \* REPEATER_GROUP fields
    Subfield,    \* their columns
    Parent,      \* [Subfield -> Repeater]
    Value,
    Request,
    None,        \* null: no row, no group, no existing row
    MaxRows,     \* configJson.maxRows of every repeater
    MaxActive,   \* bound: requests in flight at once
    Deduped,     \* whether requests in flight never save the same answer, as
                 \* the items of one bulk save never do
    OneClient    \* whether each user has one client that waits for its answers:
                 \* a user's requests in flight are the items of one bulk save

ASSUME AnswerStoreAssumption ==
    /\ Parent \in [Subfield -> Repeater]
    /\ Scalar \cap Subfield = {} /\ Repeater \cap (Scalar \cup Subfield) = {}
    /\ None \notin Request
    /\ None \notin [user : User, field : Scalar \cup Subfield,
                    group : Request \cup {None}, value : Value]
    /\ None \notin [user : User, field : Repeater, order : Nat]
    /\ MaxRows \in Nat /\ MaxActive \in Nat /\ Deduped \in BOOLEAN
    /\ OneClient \in BOOLEAN

VARIABLES
    answer,      \* FctUserFieldAnswer
    group,       \* FctUserFieldAnswerGroup
    req

vars == <<answer, group, req>>

Field == Scalar \cup Subfield

AnswerRow == [user : User, field : Field, group : Request \cup {None}, value : Value]
GroupRow  == [user : User, field : Repeater, order : Nat]

Requests ==
      [pc : {"idle", "done", "failed"}]
 \cup [pc : {"find"}, user : User, field : Field, group : Request \cup {None}, value : Value]
 \cup [pc : {"update"}, user : User, field : Field, group : Request \cup {None},
       value : Value, existing : Request]
 \cup [pc : {"create"}, user : User, field : Field, group : Request \cup {None}, value : Value]
 \cup [pc : {"count", "last"}, user : User, field : Repeater]
 \cup [pc : {"insert"}, user : User, field : Repeater, order : Nat]
 \cup [pc : {"deleteCells"}, group : Request]
 \cup [pc : {"deleteGroup"}, group : Request, cells : SUBSET Request]

TypeOK ==
    /\ answer \in [Request -> AnswerRow \cup {None}]
    /\ group \in [Request -> GroupRow \cup {None}]
    /\ req \in [Request -> Requests]

Init ==
    /\ answer = [r \in Request |-> None]
    /\ group = [r \in Request |-> None]
    /\ req = [r \in Request |-> [pc |-> "idle"]]

Ended(r)  == req[r].pc \in {"idle", "done", "failed"}
Saving(r) == req[r].pc \in {"find", "update", "create"}

Set(r, state) == req' = [req EXCEPT ![r] = state]
End(r, pc)    == Set(r, [pc |-> pc])

MayStart(r) ==
    /\ req[r].pc = "idle"
    /\ Cardinality({q \in Request : ~Ended(q)}) < MaxActive

Deleting(r) == req[r].pc \in {"deleteCells", "deleteGroup"}

\* The requests user u waits for.
Waiting(u) ==
    {q \in Request :
        ~Ended(q) /\ IF Deleting(q) THEN group[req[q].group].user = u ELSE req[q].user = u}

MayStartItem(r, u)  == MayStart(r) /\ (OneClient => \A q \in Waiting(u) : Saving(q))
MayStartAlone(r, u) == MayStart(r) /\ (OneClient => Waiting(u) = {})

\* The rows of a find by (userId, fieldId, repeaterGroupId).
Matching(u, f, g) ==
    {x \in Request : /\ answer[x] # None
                     /\ answer[x].user = u /\ answer[x].field = f
                     /\ answer[x].group = g}

GroupsOf(u, f) ==
    {g \in Request : group[g] # None /\ group[g].user = u /\ group[g].field = f}

-----------------------------------------------------------------------------
\* Mutation: the row is not checked to be the caller's.
AnswerableMutant(u, f, g) ==
    \/ f \in Scalar /\ g = None
    \/ /\ f \in Subfield /\ g # None
       /\ group[g] # None /\ group[g].field = Parent[f]

\* submitOneFieldAnswer: the field and group checks.  A repeater field has no
\* answer of its own.
Answerable(u, f, g) ==
    \/ f \in Scalar /\ g = None
    \/ /\ f \in Subfield /\ g # None
       /\ group[g] # None /\ group[g].user = u /\ group[g].field = Parent[f]

\* Mutation: duplicates within one bulk save stay.
NoTwinMutant(u, f, g) == TRUE

\* submitFieldAnswersWith strips duplicates within one bulk save.
NoTwin(u, f, g) ==
    \A q \in Request : Saving(q) => <<req[q].user, req[q].field, req[q].group>> # <<u, f, g>>

Submit(r) ==
    /\ \E u \in User, f \in Field \cup Repeater, g \in Request \cup {None}, v \in Value :
          /\ MayStartItem(r, u)
          /\ Deduped => NoTwin(u, f, g)
          /\ IF Answerable(u, f, g)
             THEN Set(r, [pc |-> "find", user |-> u, field |-> f, group |-> g, value |-> v])
             ELSE End(r, "failed")
    /\ UNCHANGED <<answer, group>>

\* Mutation: the save always creates.
FindMutant(r) ==
    /\ req[r].pc = "find"
    /\ Set(r, [req[r] EXCEPT !.pc = "create"])
    /\ UNCHANGED <<answer, group>>

Find(r) ==
    /\ req[r].pc = "find"
    /\ LET s == req[r]
           found == Matching(s.user, s.field, s.group)
       IN  \/ \E x \in found :
                Set(r, [pc |-> "update", user |-> s.user, field |-> s.field,
                        group |-> s.group, value |-> s.value, existing |-> x])
           \/ found = {} /\ Set(r, [s EXCEPT !.pc = "create"])
    /\ UNCHANGED <<answer, group>>

\* A row a transaction in flight has deleted is locked until that one ends.
Locked(x) == \E q \in Request : req[q].pc = "deleteGroup" /\ x \in req[q].cells

\* update({where: {id}}): a row deleted meanwhile is an error.
Update(r) ==
    /\ req[r].pc = "update"
    /\ ~Locked(req[r].existing)
    /\ IF answer[req[r].existing] = None
       THEN End(r, "failed") /\ UNCHANGED answer
       ELSE /\ answer' = [answer EXCEPT ![req[r].existing].value = req[r].value]
            /\ End(r, "done")
    /\ UNCHANGED group

\* create: the foreign key needs the group, and (fieldId, repeaterGroupId) is
\* unique, which a null group escapes.
Create(r) ==
    /\ req[r].pc = "create"
    /\ LET s == req[r]
       IN  IF s.group # None
              /\ \/ group[s.group] = None
                 \/ \E x \in Request : answer[x] # None /\ answer[x].field = s.field
                                         /\ answer[x].group = s.group
           THEN End(r, "failed") /\ UNCHANGED answer
           ELSE /\ answer' = [answer EXCEPT ![r] =
                      [user |-> s.user, field |-> s.field, group |-> s.group,
                       value |-> s.value]]
                /\ End(r, "done")
    /\ UNCHANGED group

-----------------------------------------------------------------------------
\* createAnswerGroup, and the eGov sync that only calls it when it reads no row.
AddRow(r) ==
    /\ \E u \in User, f \in Repeater :
          /\ MayStartAlone(r, u)
          /\ Set(r, [pc |-> "count", user |-> u, field |-> f])
    /\ UNCHANGED <<answer, group>>

SyncRow(r) ==
    /\ \E u \in User, f \in Repeater :
          /\ MayStartAlone(r, u)
          /\ IF GroupsOf(u, f) # {} THEN End(r, "done")
             ELSE Set(r, [pc |-> "count", user |-> u, field |-> f])
    /\ UNCHANGED <<answer, group>>

\* Mutation: the comparison with maxRows lets one row too many through.
CountRowsMutant(r) ==
    /\ req[r].pc = "count"
    /\ IF Cardinality(GroupsOf(req[r].user, req[r].field)) > MaxRows
       THEN End(r, "failed")
       ELSE Set(r, [req[r] EXCEPT !.pc = "last"])
    /\ UNCHANGED <<answer, group>>

CountRows(r) ==
    /\ req[r].pc = "count"
    /\ IF Cardinality(GroupsOf(req[r].user, req[r].field)) >= MaxRows
       THEN End(r, "failed")
       ELSE Set(r, [req[r] EXCEPT !.pc = "last"])
    /\ UNCHANGED <<answer, group>>

\* (lastGroup?.sortOrder ?? -1) + 1
IsNextOrder(n, orders) ==
    IF orders = {} THEN n = 0
    ELSE n - 1 \in orders /\ \A m \in orders : m < n

LastRow(r) ==
    /\ req[r].pc = "last"
    /\ \E n \in 0 .. Cardinality(Request) :
          /\ IsNextOrder(n, {group[g].order : g \in GroupsOf(req[r].user, req[r].field)})
          /\ Set(r, [pc |-> "insert", user |-> req[r].user, field |-> req[r].field,
                     order |-> n])
    /\ UNCHANGED <<answer, group>>

InsertRow(r) ==
    /\ req[r].pc = "insert"
    /\ group' = [group EXCEPT ![r] =
                   [user |-> req[r].user, field |-> req[r].field, order |-> req[r].order]]
    /\ End(r, "done")
    /\ UNCHANGED answer

-----------------------------------------------------------------------------
\* deleteAnswerGroup: find and check the owner, delete the cells, delete the
\* row and commit.
DeleteRow(r) ==
    /\ \E u \in User, g \in Request :
          /\ MayStartAlone(r, u)
          /\ IF group[g] # None /\ group[g].user = u
             THEN Set(r, [pc |-> "deleteCells", group |-> g])
             ELSE End(r, "failed")
    /\ UNCHANGED <<answer, group>>

Cells(g) == {x \in Request : answer[x] # None /\ answer[x].group = g}

DeleteCells(r) ==
    /\ req[r].pc = "deleteCells"
    /\ \A x \in Cells(req[r].group) : ~Locked(x)
    /\ Set(r, [pc |-> "deleteGroup", group |-> req[r].group,
               cells |-> Cells(req[r].group)])
    /\ UNCHANGED <<answer, group>>

\* Mutation: the explicit delete of the cells is dropped.
DeleteGroupMutant(r) ==
    /\ req[r].pc = "deleteGroup"
    /\ LET g == req[r].group
       IN  /\ group[g] # None
           /\ group' = [group EXCEPT ![g] = None]
           /\ answer' = [x \in Request |->
                IF x \in Cells(g) THEN [answer[x] EXCEPT !.group = None] ELSE answer[x]]
    /\ End(r, "done")

\* The delete of the row commits the transaction.  The foreign key is ON DELETE
\* SET NULL: a cell created since the cells were deleted stays, with no row.  A
\* row that is already gone is an error and rolls back.
DeleteGroup(r) ==
    /\ req[r].pc = "deleteGroup"
    /\ LET g == req[r].group
       IN  IF group[g] = None
           THEN End(r, "failed") /\ UNCHANGED <<answer, group>>
           ELSE /\ group' = [group EXCEPT ![g] = None]
                /\ answer' = [x \in Request |->
                     IF x \in req[r].cells THEN None
                     ELSE IF x \in Cells(g) THEN [answer[x] EXCEPT !.group = None]
                     ELSE answer[x]]
                /\ End(r, "done")

\* A lost connection or a timeout: what was not committed is rolled back.
Abort(r) ==
    /\ ~Ended(r)
    /\ End(r, "failed")
    /\ UNCHANGED <<answer, group>>

Next ==
    \E r \in Request :
        \/ Submit(r) \/ Find(r) \/ Update(r) \/ Create(r)
        \/ AddRow(r) \/ SyncRow(r) \/ CountRows(r) \/ LastRow(r) \/ InsertRow(r)
        \/ DeleteRow(r) \/ DeleteCells(r) \/ DeleteGroup(r)
        \/ Abort(r)

Spec == Init /\ [][Next]_vars

-----------------------------------------------------------------------------
\* A repeater cell is in a row of its own user and of its own repeater, and the
\* row exists (the checks at fieldAnswer.service.ts:244-257 read the row before
\* the write).
CellsBelong ==
    \A x \in Request :
        answer[x] # None /\ answer[x].group # None =>
            LET g == group[answer[x].group]
            IN  g # None /\ g.user = answer[x].user /\ g.field = Parent[answer[x].field]

\* One answer per user and scalar field (schema.prisma:775-777, "enforced at the
\* service layer").
OneAnswerPerField ==
    \A f \in Scalar, u \in User :
        \A x, y \in Matching(u, f, None) : x = y

\* A cell never outlives its row (fieldAnswer.service.ts:391-393, "removes one
\* row-instance and every subfield answer filed against it").
NoStrayCells ==
    \A x \in Request : answer[x] # None /\ answer[x].field \in Subfield => answer[x].group # None

\* What a finished save leaves is what is read back, whichever matching row the
\* reader meets last.
SavedIsRead ==
    [][\A r \in Request :
          req[r].pc \in {"update", "create"} /\ req'[r].pc = "done" =>
              \A x \in Request :
                  /\ answer'[x] # None
                  /\ answer'[x].user = req[r].user /\ answer'[x].field = req[r].field
                  /\ answer'[x].group = req[r].group
                  => answer'[x].value = req[r].value]_vars

-----------------------------------------------------------------------------
(* What the rows stand for *)

\* The value a reader of the rows finds.
ReadValue(u, f, g) ==
    IF Matching(u, f, g) = {} THEN None
    ELSE answer[CHOOSE x \in Matching(u, f, g) : TRUE].value

\* A row with its cells.
ReadRow(u, f, g) ==
    [id |-> g, cell |-> [c \in {c \in Subfield : Parent[c] = f} |-> ReadValue(u, c, g)]]

\* How many of the rows S come up to row g.
UpTo(S, g) == Cardinality({h \in S : group[h].order <= group[g].order})
Below(S, g) == Cardinality({h \in S : group[h].order < group[g].order})

\* The rows in their order.
ReadRows(u, f) ==
    LET S == GroupsOf(u, f)
        Nth(n) == CHOOSE g \in S : Below(S, g) < n /\ n <= UpTo(S, g)
    IN  [n \in 1 .. Cardinality(S) |-> ReadRow(u, f, Nth(n))]

Book == INSTANCE AnswerBook WITH
    Row <- Request,
    answer <- [u \in User |-> [f \in Scalar |-> ReadValue(u, f, None)]],
    rows <- [u \in User |-> [f \in Repeater |-> ReadRows(u, f)]]

\* The requests of one client per user, a save's items among them in any
\* order, are the atomic operations of the book, at the step that commits them
\* (fieldAnswer.service.ts:228-270, 346-407).
ImplementsBook == Book!Spec
=============================================================================
