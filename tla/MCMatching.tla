----------------------------- MODULE MCMatching -----------------------------
(***************************************************************************)
(* Instance of Matching for TLC: the companies of MCCompanyGraph, projects *)
(* whose topics share one or two terms with either side of the asset's     *)
(* applications, so that a company changes sides as its ties grow; the     *)
(* asset without a profile, and with two.                                  *)
(***************************************************************************)
EXTENDS Matching, MCCompanyGraph

MCStop == {"spa", "gmbh"}
MCTopicTerms ==
    [p \in MCProjects |->
       CASE p = "p1" -> {"laser", "optics"} [] p = "p2" -> {"laser", "battery", "grid"}
         [] p = "p3" -> {"grid"}            [] p = "p4" -> {"optics"}]
MCProfiles ==
    {[customer |-> {"battery"}, producer |-> {"laser", "optics"}, applied |-> TRUE],
     [customer |-> {"laser", "grid", "optics"}, producer |-> {"battery", "acme", "italia", "optics"},
      applied |-> TRUE],
     [customer |-> {}, producer |-> {"laser", "optics"}, applied |-> FALSE]}

MCMatchSymmetry == Permutations(Matchers)

==========================================================================
