------------------------------ MODULE MCPremises ------------------------------
(* Instances of Premises for TLC. *)
EXTENDS Premises, TLC

Interchangeable ==
    Permutations(Request) \cup Permutations(Org) \cup Permutations(Branch) \cup Permutations(Item)
===============================================================================
