--------------------------- MODULE MCFieldCatalog ---------------------------
(***************************************************************************)
(* Constants for the runs of FieldCatalog.                                  *)
(***************************************************************************)
EXTENDS FieldCatalog, TLC

\* Trees that read one field.
MCTree == {{f} : f \in Field}

MCSymmetry == Permutations(Field) \cup Permutations(Name)
=============================================================================
