------------------------------ MODULE AnswerBook ------------------------------
(***************************************************************************)
(* What the answer endpoints promise a client: every user has one value per *)
(* field and an ordered list of rows per repeater, a save sets the value of   *)
(* each of its items, a new row comes last, and a row goes with its cells.    *)
(***************************************************************************)
EXTENDS Naturals, Sequences, Sublists

CONSTANTS User, Scalar, Repeater, Subfield, Parent, Value, Row, MaxRows, None

VARIABLES
    answer,     \* [user -> [field -> value]]
    rows        \* [user -> [repeater -> its rows in order, with their cells]]

book == <<answer, rows>>

Columns(f) == {c \in Subfield : Parent[c] = f}
BlankRow(f, r) == [id |-> r, cell |-> [c \in Columns(f) |-> None]]

TypeOK ==
    /\ answer \in [User -> [Scalar -> Value \cup {None}]]
    /\ \A u \in User, f \in Repeater :
          rows[u][f] \in Seq([id : Row, cell : [Columns(f) -> Value \cup {None}]])

Init ==
    /\ answer = [u \in User |-> [f \in Scalar |-> None]]
    /\ rows = [u \in User |-> [f \in Repeater |-> <<>>]]

HasRow(s, r) == \E i \in DOMAIN s : s[i].id = r
Used(r) == \E u \in User, f \in Repeater : HasRow(rows[u][f], r)

\* A value in `items' ([field, row, value] records), or the one there is.
Put(items, f, r, old) ==
    IF \E i \in items : i.field = f /\ i.row = r
    THEN (CHOOSE i \in items : i.field = f /\ i.row = r).value ELSE old

PutRow(items, f, row) ==
    [row EXCEPT !.cell = [c \in Columns(f) |-> Put(items, c, row.id, row.cell[c])]]

SavableBy(u, items) ==
    \A i \in items :
        IF i.field \in Scalar THEN i.row = None
        ELSE i.field \in Subfield /\ HasRow(rows[u][Parent[i.field]], i.row)

Save(u, items) ==
    /\ SavableBy(u, items)
    /\ answer' = [answer EXCEPT ![u] =
          [f \in Scalar |-> Put(items, f, None, answer[u][f])]]
    /\ rows' = [rows EXCEPT ![u] =
          [f \in Repeater |->
             [i \in DOMAIN rows[u][f] |-> PutRow(items, f, rows[u][f][i])]]]

AddRow(u, f, r) ==
    /\ ~Used(r) /\ Len(rows[u][f]) < MaxRows
    /\ rows' = [rows EXCEPT ![u][f] = Append(@, BlankRow(f, r))]
    /\ UNCHANGED answer

DeleteRow(u, f, r) ==
    /\ HasRow(rows[u][f], r)
    /\ rows' = [rows EXCEPT ![u][f] = Picked(@, {i \in DOMAIN @ : @[i].id # r})]
    /\ UNCHANGED answer

Item == [field : Scalar \cup Subfield, row : Row \cup {None}, value : Value]

Next ==
    \E u \in User :
        \/ \E i \in Item : Save(u, {i})
        \/ \E f \in Repeater, r \in Row : AddRow(u, f, r) \/ DeleteRow(u, f, r)

Spec == Init /\ [][Next]_book
=============================================================================
