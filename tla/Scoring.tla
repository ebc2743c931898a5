------------------------------- MODULE Scoring -------------------------------
(***************************************************************************)
(* score_ventureability (src/forge/scoring.py): the weighted mean of those *)
(* of six dimensions that the readings of a run and the legal status of    *)
(* the asset can ground, with its coverage.  Constant-level operators.     *)
(*                                                                         *)
(* A number of [0, 1] is an integer of 0 .. Unit, rounded down at every    *)
(* division; the code computes with floats.                                *)
(***************************************************************************)
EXTENDS Corroboration, Functions

CONSTANTS
    Unit,                \* stands for 1.0
    Weights,             \* config/scoring.yaml, in percent
    RegulatedCategories, \* those whose name holds "critical_tech" or "green"
    \* the scaling of config/scoring.yaml
    PullReference, SlopeReference, CitationSaturation, NeighbourCrowded, FundingReference

Dimensions == {"technology_maturity", "market_pull", "ip_defensibility",
               "capital_intensity", "regulatory_pathway", "team_availability"}

ASSUME ScoringAssumption ==
    /\ Unit \in Nat \ {0}
    /\ Weights \in [Dimensions -> Nat]
    /\ RegulatedCategories \subseteq Categories
    /\ {PullReference, SlopeReference, CitationSaturation,
        NeighbourCrowded, FundingReference} \subseteq Nat \ {0}

---------------------------------------------------------------------------
\* clamp_unit(value / reference).
Share(value, reference) ==
    CASE value <= 0         -> 0
      [] value >= reference -> Unit
      [] OTHER              -> (value * Unit) \div reference

\* A component of a blend, when what it is computed from is there.
Part(present, name, weight, value) ==
    IF present THEN {[name |-> name, weight |-> weight, value |-> value]} ELSE {}

\* _blend: the mean of the components that are there; None when none is.
Blend(parts) ==
    IF parts = {} THEN None
    ELSE SumFunction([p \in parts |-> p.weight * p.value])
           \div SumFunction([p \in parts |-> p.weight])

\* legal_status: unset, or whether it says "grant".
LegalStatus == {None, "granted", "other"}
LegalShare(legal) == IF legal = "granted" THEN Unit ELSE Unit \div 2

\* Mutant of MarketPull: a stream without an answer counts as one that found nothing.
MarketPullAbsentAsZero(r) ==
    Blend(Part(r.pull # None, "pull", 4, Share(r.pull, PullReference))
          \cup Part(TRUE, "funding", 4, IF r.funding = None THEN 0 ELSE Share(r.funding, FundingReference))
          \cup Part(r.slope # None, "slope", 3, Share(r.slope, SlopeReference))
          \cup Part(Aligned(r), "aligned", 2, Unit))

MarketPull(r) ==
    Blend(Part(r.pull # None, "pull", 4, Share(r.pull, PullReference))
          \cup Part(r.funding # None, "funding", 4, Share(r.funding, FundingReference))
          \cup Part(r.slope # None, "slope", 3, Share(r.slope, SlopeReference))
          \cup Part(Aligned(r), "aligned", 2, Unit))

\* The text search decides how crowded the field is, or else the IPC classes.
Density(r) == IF r.density # None THEN r.density ELSE r.classDensity

\* A corporate citation counts twice.
EffectiveCitations(r) == r.cites + IF r.corporate = None THEN 0 ELSE r.corporate

Saturating(x) == (x * Unit) \div (x + CitationSaturation)

IpDefensibility(r, legal) ==
    Blend(Part(r.cites # None, "cites", 4, Saturating(EffectiveCitations(r)))
          \cup Part(Density(r) # None, "density", 4, Unit - Share(Density(r), NeighbourCrowded))
          \cup Part(legal # None, "legal", 2, LegalShare(legal)))

TechnologyMaturity(legal) == IF legal = None THEN None ELSE LegalShare(legal)

RegulatoryPathway(r) ==
    CASE r.regulation                               -> (8 * Unit) \div 10
      [] ~ r.regulation
         /\ r.aligned \cap RegulatedCategories # {} -> (6 * Unit) \div 10
      [] ~ r.regulation
         /\ r.aligned # {}
         /\ r.aligned \cap RegulatedCategories = {} -> Unit \div 2
      [] OTHER                                      -> None

\* Nothing measures capital intensity or the team yet.
DimensionValue(r, legal) ==
    [technology_maturity |-> TechnologyMaturity(legal),
     market_pull         |-> MarketPull(r),
     ip_defensibility    |-> IpDefensibility(r, legal),
     capital_intensity   |-> None,
     regulatory_pathway  |-> RegulatoryPathway(r),
     team_availability   |-> None]

\* The value and the coverage of the score.
Venture(r, legal) ==
    LET value   == DimensionValue(r, legal)
        scored  == {d \in Dimensions : value[d] # None}
        covered == SumFunctionOnSet(Weights, scored)
    IN  [value    |-> IF covered <= 0 THEN None
                      ELSE SumFunction([d \in scored |-> Weights[d] * value[d]]) \div covered,
         coverage |-> IF covered <= 0 THEN 0 ELSE covered]

==========================================================================
