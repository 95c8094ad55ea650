----------------------------- MODULE MCAnswerStore -----------------------------
(***************************************************************************)
(* One repeater with one column, one scalar field.                          *)
(***************************************************************************)
EXTENDS AnswerStore, TLC

CONSTANTS scalar, repeater, column

MCScalar == {scalar}
MCRepeater == {repeater}
MCSubfield == {column}
MCParent == column :> repeater

\* Requests are interchangeable.
MCSymmetry == Permutations(Request)
=============================================================================
