------------------------------ MODULE MCAccounts ------------------------------
(* Instances of Accounts for TLC. *)
EXTENDS Accounts, TLC

\* Requests do the same things, and so do e-mails.
Identities == Permutations(Request) \cup Permutations(Email)
===============================================================================
