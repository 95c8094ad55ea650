-------------------------- MODULE MCUserAccounts --------------------------
(* Instances of UserAccounts for TLC. *)
EXTENDS UserAccounts, TLC

Conf(r, s, g, p) == [role |-> r, scope |-> s, group |-> g, psgc |-> p]

\* One valid configuration per role and, for agents, per kind of scope...
MCValid == {Conf("SUPERADMIN", "SUPERADMIN", TRUE, "SUPERADMIN"),
            Conf("AGENT", "NATIONAL", TRUE, "none"), PlainUser}

\* ...and submissions the matrix must refuse.
MCInvalid == {Conf("AGENT", "none", TRUE, "none"),
              Conf("USER", "NATIONAL", TRUE, "none")}

MCSubmitted == MCValid \cup MCInvalid

MCSubmittedLocal ==
    MCSubmitted \cup {Conf("AGENT", "LOCAL", FALSE, "code"),
                      Conf("AGENT", "LOCAL", TRUE, "code"),
                      Conf("AGENT", "NATIONAL", FALSE, "none"),
                      Conf("SUPERADMIN", "SUPERADMIN", TRUE, "none")}

MCSymmetry == Permutations(User) \cup Permutations(Secret)

\* Only the secrets are interchangeable when one account is the operator.
MCSecretSymmetry == Permutations(Secret)
=============================================================================
