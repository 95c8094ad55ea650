--------------------------- MODULE MCEligibilityLaws --------------------------
(***************************************************************************)
(* EligibilityLaws over the catalogs of MCCatalogs.                         *)
(***************************************************************************)
EXTENDS EligibilityLaws, MCCatalogs
=============================================================================
