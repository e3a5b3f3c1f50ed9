------------------------------- MODULE MCClients -------------------------------
(* Instances of Clients for TLC. *)
EXTENDS Clients, TLC

CONSTANTS e1, e2  \* two spellings of one e-mail

\* Identities, organisations, ID numbers and requests do the same things.
Symmetry == Permutations(Profile) \cup Permutations(Guest) \cup Permutations(Org)
            \cup Permutations(IdNumber) \cup Permutations(Request)
===============================================================================
