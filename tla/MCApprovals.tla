----------------------------- MODULE MCApprovals -----------------------------
(* Instances of Approvals for TLC. *)
EXTENDS Approvals, TLC

\* Only interchangeable identities.
Identities == Permutations(Request) \cup Permutations(User)
===============================================================================
