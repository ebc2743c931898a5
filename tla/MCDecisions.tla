---------------------------- MODULE MCDecisions ----------------------------
(***************************************************************************)
(* Instance of Decisions for TLC: two assets, of which either both have a  *)
(* score or one was scored without a value and the other not at all.       *)
(***************************************************************************)
EXTENDS Decisions

MCAssets == {"a1", "a2"}
MCScores == {[a1 |-> [value |-> 0], a2 |-> [value |-> 8]],
             [a1 |-> [value |-> None], a2 |-> None]}

==========================================================================
