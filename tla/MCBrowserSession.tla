---------------------------- MODULE MCBrowserSession ----------------------------
(***************************************************************************)
(* A person with an eGov and a Google identity of one address, another person, *)
(* one open field, one synced one, and a repeater with one column.            *)
(***************************************************************************)
EXTENDS BrowserSession, TLC

CONSTANTS open, synced, repeater, column, v1, v2, e1, e2

MCScalar == {open, synced}
MCProfile == open :> None @@ synced :> v1
MCIdentity ==
    {[via |-> "egov", sub |-> "x", email |-> e1, profile |-> MCProfile],
     [via |-> "google", sub |-> "g", email |-> e1, profile |-> MCProfile],
     [via |-> "google", sub |-> "h", email |-> e2, profile |-> MCProfile]}
MCParent == column :> repeater
MCAllPages == Pages

\* Accounts are interchangeable.
MCSymmetry == Permutations(Account)
=============================================================================
