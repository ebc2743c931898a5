---------------------------- MODULE Corroboration ----------------------------
(***************************************************************************)
(* corroborate (src/forge/streams/corroboration.py): what the streams of   *)
(* one run have measured is read as favourable or conflicting indicators,  *)
(* and these give the routing of the asset.  Constant-level operators over *)
(* the readings r of a run.                                                *)
(*                                                                         *)
(* A reading is the value of a sub-signal, None when no stream result has  *)
(* it: its stream failed, found nothing, or was not asked that question.   *)
(* The levels that only word the explanation (flat, declining, moderate,   *)
(* sparse, strong for weak) are left out.                                  *)
(***************************************************************************)
EXTENDS Integers, FiniteSets

CONSTANTS
    None,             \* the value of an absent sub-signal
    Categories,       \* the categories of the EU taxonomy
    \* config/corroboration.yaml
    RisingMin,                  \* field_momentum
    AttentionSome, AttentionStrong,
    CrowdedMin,                 \* field_crowding
    PullWeak, PullStrong,       \* market_pull
    FundingWeak, FundingStrong  \* capital_flow, in millions of euro

ASSUME CorroborationAssumption ==
    /\ None \notin Int
    /\ {RisingMin, AttentionSome, AttentionStrong, CrowdedMin,
        PullWeak, PullStrong, FundingWeak, FundingStrong} \subseteq Int

Streams == {"S1", "S2", "S3", "S4"}

\* The sub-signals each stream emits, and what it leaves when it emits none.
SignalsOf ==
    [S1 |-> {"funding"},
     S2 |-> {"slope", "density", "classDensity", "cites", "corporate"},
     S3 |-> {"pull", "regulation"},
     S4 |-> {"aligned"}]

NoReadings ==
    [funding |-> None,
     slope |-> None, density |-> None, classDensity |-> None, cites |-> None, corporate |-> None,
     pull |-> None, regulation |-> FALSE,
     aligned |-> {}]

Count == Nat \cup {None}

FieldType ==
    [funding |-> Count,
     slope |-> Int \cup {None}, density |-> Count, classDensity |-> Count,
     cites |-> Count, corporate |-> Count,
     pull |-> Count, regulation |-> BOOLEAN,
     aligned |-> SUBSET Categories]

IsReadings(r) ==
    /\ DOMAIN r = DOMAIN FieldType
    /\ \A x \in DOMAIN FieldType : r[x] \in FieldType[x]

\* The readings r, had the streams in lost returned nothing.
Without(r, lost) ==
    [x \in DOMAIN r |-> IF \E s \in lost : x \in SignalsOf[s] THEN NoReadings[x] ELSE r[x]]

---------------------------------------------------------------------------
(***************************************************************************)
(* The indicators.                                                         *)
(***************************************************************************)
AtLeast(value, min) == value # None /\ value >= min

\* No match and no S3 result at all are one thing here.
Matches(r) == IF r.pull = None THEN 0 ELSE r.pull

Rising(r)  == AtLeast(r.slope, RisingMin)
Cited(r)   == AtLeast(r.cites, AttentionStrong) \/ AtLeast(r.cites, AttentionSome)
Uncited(r) == r.cites # None /\ ~ Cited(r)
Crowded(r) == AtLeast(r.density, CrowdedMin)
Pulled(r)  == Matches(r) >= PullStrong \/ Matches(r) >= PullWeak
Funded(r)  == AtLeast(r.funding, FundingStrong) \/ AtLeast(r.funding, FundingWeak)
Aligned(r) == r.aligned # {}

\* field_crowding is never favourable.
Favourable(r) ==
    [field_momentum     |-> Rising(r),
     industry_attention |-> Cited(r),
     market_pull        |-> Pulled(r),
     capital_flow       |-> Funded(r),
     eu_alignment       |-> Aligned(r)]

Indicators == {"field_momentum", "industry_attention", "market_pull",
               "capital_flow", "eu_alignment"}

\* The stream an indicator is read from.
StreamOf == [field_momentum |-> "S2", industry_attention |-> "S2", market_pull |-> "S3",
             capital_flow |-> "S1", eu_alignment |-> "S4"]

Agreements(r) == {i \in Indicators : Favourable(r)[i]}

\* Mutant of Conflicting: only what S3 finds counts as pull.
ConflictingWithoutCapital(r) ==
    Pulled(r) /\ Crowded(r) /\ Uncited(r)

\* _detect_conflicts: pull into a crowded field that has not cited this asset.
Conflicting(r) ==
    (Pulled(r) \/ Funded(r)) /\ Crowded(r) /\ Uncited(r)

\* Mutant of Enough: two favourable indicators make a sprint.
EnoughOfTwo(r) == Cardinality(Agreements(r)) >= 2

Enough(r) == Cardinality(Agreements(r)) >= 3

\* _route.
Route(r) ==
    CASE Conflicting(r)                                     -> "licence_or_park"
      [] ~ Conflicting(r) /\ Enough(r)                      -> "sprint"
      [] ~ Conflicting(r) /\ ~ Enough(r) /\ Agreements(r) # {} -> "watch"
      [] OTHER                                              -> "park"

==========================================================================
