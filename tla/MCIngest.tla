------------------------------ MODULE MCIngest ------------------------------
(***************************************************************************)
(* A small instance of Ingest: two references whose answers share the      *)
(* document d2, which S2 may find as a neighbour of another asset; d3 has  *)
(* no field that needs grounding.                                          *)
(***************************************************************************)
EXTENDS Ingest, TLC

MCRefs       == {"r1", "r2"}
MCDocs       == {"d1", "d2", "d3"}
MCNeighbours == {"d2"}
MCBare       == {"d3"}
MCResponse   == [r \in MCRefs |-> IF r = "r1" THEN <<"d1", "d2">> ELSE <<"d2", "d3">>]
MCRefLists   == {<<"r1", "r2">>, <<"r2">>}

MCRuns     == {1}
MCSymmetry == Permutations(Ingesters) \cup Permutations(Assets)

===========================================================================
