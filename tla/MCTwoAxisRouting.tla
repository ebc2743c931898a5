-------------------------- MODULE MCTwoAxisRouting --------------------------
(***************************************************************************)
(* Instances of TwoAxisRouting for TLC.                                    *)
(***************************************************************************)
EXTENDS TwoAxisRouting, TLC

Symmetry == Permutations(Routers) \cup Permutations(Companies)

==========================================================================
