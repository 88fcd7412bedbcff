------------------------------ MODULE MCTours ------------------------------
(***************************************************************************)
(* Instances of Tours for TLC.                                             *)
(***************************************************************************)
EXTENDS Tours, TLC

CONSTANTS w1, w2, alice, root, s1, s2

ToursWorkerSymmetry == Permutations(Workers)
=============================================================================
