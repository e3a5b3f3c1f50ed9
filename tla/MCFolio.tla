------------------------------- MODULE MCFolio -------------------------------
(***************************************************************************)
(* Instances of the folio for TLC.  Constants come from the .cfg of each   *)
(* run; orders, items and requests are interchangeable.                    *)
(***************************************************************************)
EXTENDS Folio, TLC

Symmetry == Permutations(Order) \cup Permutations(Item) \cup Permutations(Request)
===============================================================================
