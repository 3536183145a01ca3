------------------------------ MODULE MCConsent ------------------------------
(* Two commands side by side; each may run any number of times. *)
EXTENDS Consent, TLC

MCGrants == {"public"}

Symmetry == Permutations(Commands)
=============================================================================
