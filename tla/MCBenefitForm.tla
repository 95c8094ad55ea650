---------------------------- MODULE MCBenefitForm ----------------------------
(***************************************************************************)
(* Constants for the runs of BenefitForm.                                   *)
(***************************************************************************)
EXTENDS BenefitForm

CONSTANTS f1, f2, a1, a2, a3, g1, b1, b2

Region == <<4>>
City == <<4, 21, 4>>
Barangay == <<4, 21, 4, 8>>

MCPlace == {Region, City, Barangay}

\* A superadmin, an agent of an agency and an agent of a city.
MCUser ==
    {[scope |-> "SUPERADMIN", code |-> <<>>, group |-> None],
     [scope |-> "NATIONAL", code |-> <<>>, group |-> g1],
     [scope |-> "CITIES-MUNICIPALITIES", code |-> City, group |-> None]}

MCPeer == {u \in MCUser : u.scope = "SUPERADMIN"}

MCTree ==
    {[op |-> "ALL", leaves |-> {}], [op |-> "ANY", leaves |-> {f1}],
     [op |-> "ALL", leaves |-> {f1, f2}]}

\* One applicant has not said where he lives, one lives in the city, outside the
\* barangay, and fails a condition, one cannot be reached.
MCFails == [a \in {a1, a2, a3} |-> IF a = a2 THEN {f1} ELSE {}]
MCResidence == [a \in {a1, a2, a3} |-> IF a = a2 THEN City \o <<9>> ELSE None]
=============================================================================
