--------------------------- MODULE MCCompanyGraph ---------------------------
(***************************************************************************)
(* Instance of CompanyGraph for TLC: two firms called Acme with ids of     *)
(* their own, one of which is also known as Acme Italia; Borealis in two   *)
(* spellings, so that two projects name the same companies in opposite     *)
(* orders; and a project without an id whose participants have no Latin    *)
(* letter in their names.                                                  *)
(***************************************************************************)
EXTENDS CompanyGraph, TLC

Firm(name, registry) == [name |-> name, registry |-> registry, industrial |-> TRUE]
University == [name |-> <<"university">>, registry |-> "R9", industrial |-> FALSE]

MCProjects == {"p1", "p2", "p3", "p4"}
MCOrganisations ==
    [p \in MCProjects |->
       CASE p = "p1" -> <<Firm(<<"acme", "gmbh">>, "R1"), University, Firm(<<"borealis">>, None)>>
         [] p = "p2" -> <<Firm(<<"borealis", "spa">>, None), Firm(<<"acme", "spa">>, "R2")>>
         [] p = "p3" -> <<Firm(<<"acme", "italia">>, "R2")>>
         [] p = "p4" -> <<Firm(<<"shanghai-in-han">>, None), Firm(<<"moskva-in-cyrillic">>, "R1")>>]
MCTopic     == [p \in MCProjects |-> p]
MCSourceRef == [p \in MCProjects |-> IF p = "p4" THEN None ELSE p]
MCSuffixes  == {"gmbh", "spa"}
MCForeign   == {"shanghai-in-han", "moskva-in-cyrillic"}

MCSymmetry == Permutations(Builders)

==========================================================================
