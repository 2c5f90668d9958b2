---------------------------- MODULE MCMatchmaking ----------------------------
(***************************************************************************)
(* A small instance of Matchmaking for TLC: three travelers, one of whom   *)
(* may ask twice.                                                          *)
(***************************************************************************)
EXTENDS Matchmaking, TLC

CONSTANTS ann, bob, cyd, a1, a2, b1, c1

MCMatchIds == {a1, a2, b1, c1}

MCOwner == a1 :> ann @@ a2 :> ann @@ b1 :> bob @@ c1 :> cyd

\* bob fits ann and cyd; the second trip of ann fits nobody, it only takes the
\* place of the first.
MCCompatible == {{a1, b1}, {b1, c1}}

\* Requests and runs of the worker are interchangeable.
Symmetry == Permutations(Clients) \union Permutations(Workers)
=============================================================================
