------------------------------ MODULE MCOrders ------------------------------
(***************************************************************************)
(* Small instances of Orders for TLC.                                      *)
(***************************************************************************)
EXTENDS Orders, TLC

\* Requests are interchangeable.
Symmetry == Permutations(Requests)
=============================================================================
