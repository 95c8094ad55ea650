---------------------------- MODULE MCFieldEditor ----------------------------
(***************************************************************************)
(* Constants for the runs of FieldEditor.                                   *)
(***************************************************************************)
EXTENDS FieldEditor

\* A choice of two options, a text pinned under it and shown for the first, and
\* a repeater with a text and a choice as columns.
MCStart ==
    LET First == [field |-> 1, op |-> [kind |-> "SELECT", is |-> "EQUALS"],
                  value |-> [t |-> "value", n |-> 1]]
    IN [ok |-> TRUE,
        field |-> <<Row("occupation", "SELECT", 0, 0, 0, 1),
                    [Row("other", "TEXT", 0, 1, 0, 1) EXCEPT !.tree = {First}],
                    Row("dependents", "REPEATER", 0, 0, 0, 2),
                    Row("age", "TEXT", 3, 0, 0, 1),
                    Row("sex", "SELECT", 3, 0, 0, 2)>>,
        option |-> <<[field |-> 1, name |-> "a", live |-> TRUE],
                     [field |-> 1, name |-> "b", live |-> TRUE],
                     [field |-> 5, name |-> "a", live |-> TRUE]>>,
        hierarchy |-> <<[name |-> "places", levels |-> 1, nodes |-> <<[name |-> "n", up |-> 0]>>]>>]
=============================================================================
