----------------------------- MODULE MCPayments -----------------------------
(***************************************************************************)
(* Small instances of Payments for TLC.                                    *)
(***************************************************************************)
EXTENDS Payments, TLC

\* Slots are interchangeable.
Symmetry == Permutations(Slots)
=============================================================================
