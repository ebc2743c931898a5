------------------------------- MODULE Sectors -------------------------------
(***************************************************************************)
(* cluster_assets (src/forge/clustering.py): the sector of an asset, by    *)
(* the terms of the sector taxonomy that its text contains.                *)
(***************************************************************************)
EXTENDS Naturals, Sequences, FiniteSets

CONSTANTS
    SectorTerms,   \* config/sectors.yaml: the terms of each sector, in config order
    MinTerms

ASSUME SectorsAssumption ==
    /\ MinTerms \in Nat \ {0}
    /\ Len(SectorTerms) \in Nat /\ DOMAIN SectorTerms = 1 .. Len(SectorTerms)
    /\ \A i \in DOMAIN SectorTerms : IsFiniteSet(SectorTerms[i])

Unclassified == 0

\* The terms of the i-th sector found in a text, itself the set of its terms.
MatchedTerms(i, text) == SectorTerms[i] \cap text
Overlap(i, text)      == Cardinality(MatchedTerms(i, text))

\* Mutant of BestSector: the first sector with terms enough is taken.
FirstSector(text) ==
    {i \in DOMAIN SectorTerms :
       /\ Overlap(i, text) >= MinTerms
       /\ \A j \in 1 .. i - 1 : Overlap(j, text) < MinTerms}

\* The sector with most terms; the earlier of two that tie.
BestSector(text) ==
    {i \in DOMAIN SectorTerms :
       /\ \A j \in DOMAIN SectorTerms : Overlap(j, text) <= Overlap(i, text)
       /\ \A j \in 1 .. i - 1 : Overlap(j, text) < Overlap(i, text)}

\* The bucket of an asset with this text.
SectorOf(text) ==
    IF \E i \in BestSector(text) : Overlap(i, text) >= MinTerms
      THEN CHOOSE i \in BestSector(text) : Overlap(i, text) >= MinTerms
      ELSE Unclassified

==========================================================================
