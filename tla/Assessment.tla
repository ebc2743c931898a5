----------------------------- MODULE Assessment -----------------------------
(***************************************************************************)
(* What the Engine makes of one asset: the streams of a run answer, find   *)
(* nothing or fail, in the order of Pipeline._run_streams, and what they   *)
(* measured is corroborated and scored (Corroboration, Scoring); the days  *)
(* pass over its dormancy (Dormancy); and each run writes the profile      *)
(* anew, by whose text the asset is clustered (Sectors).                   *)
(***************************************************************************)
EXTENDS Scoring, Dormancy, Sectors

CONSTANTS
    Answers,      \* per stream: what a run of it may return, as parts of Readings
    Assets,       \* the stored fields of an asset, as the rules read them
    Days,         \* the days on which anybody asks
    Terms

ASSUME AssessmentAssumption ==
    /\ \A a \in Assets : a.type \in {"patent", "project_result"} =>
         \A i \in DOMAIN KeysOf(a.type) : KeysOf(a.type)[i] \in DOMAIN a.dates
    /\ \A s \in Streams : \A answer \in Answers[s] : \A x \in SignalsOf[s] :
         answer[x] \in FieldType[x]
    /\ Days \subseteq Int

VARIABLES
    asset,      \* the asset
    asOf,       \* today
    text,       \* the terms of its profile, or of its title and abstract
    readings,   \* what the streams of the current run have measured
    remaining   \* the streams that are still to run, in order

assessVars == <<asset, asOf, text, readings, remaining>>

RunOrder == <<"S2", "S4", "S3", "S1">>

AssessInit ==
    /\ asset \in Assets
    /\ asOf \in Days
    /\ text \in SUBSET Terms
    /\ readings = NoReadings
    /\ remaining = RunOrder

\* S1 and S2 search by the same terms of the profile, if it has any.
SameQueries(r) ==
    r.funding # None /\ (r.classDensity # None \/ r.cites # None) => r.slope # None

\* The next stream returns one of its answers, or it raises and returns nothing.
RunStream ==
    /\ remaining # << >>
    /\ LET s == Head(remaining) IN
         \/ \E answer \in Answers[s] :
              readings' = [x \in DOMAIN readings |->
                             IF x \in SignalsOf[s] THEN answer[x] ELSE readings[x]]
         \/ UNCHANGED readings
    /\ SameQueries(readings')
    /\ remaining' = Tail(remaining)
    /\ UNCHANGED <<asset, asOf, text>>

\* Another run, with another profile.
Rerun(profile) ==
    /\ readings' = NoReadings
    /\ remaining' = RunOrder
    /\ text' = profile
    /\ UNCHANGED <<asset, asOf>>

DaysPass ==
    /\ \E day \in Days : day > asOf /\ asOf' = day
    /\ UNCHANGED <<asset, text, readings, remaining>>

AssessNext ==
    \/ RunStream
    \/ \E profile \in SUBSET Terms : Rerun(profile)
    \/ DaysPass

AssessSpec == AssessInit /\ [][AssessNext]_assessVars

---------------------------------------------------------------------------
(***************************************************************************)
(* Properties.                                                             *)
(***************************************************************************)
AssessTypeOK ==
    /\ asset \in Assets
    /\ asOf \in Days
    /\ text \subseteq Terms
    /\ IsReadings(readings)
    /\ remaining \in Seq(Streams)

\* "Corroborating positive signals across streams" (corroboration.py): a sprint
\* never rests on what a single stream says, several indicators though it gives.
SprintIsCrossStream ==
    Route(readings) = "sprint" =>
        \E i, j \in Agreements(readings) : StreamOf[i] # StreamOf[j]

\* "Do not sprint" is lifted by the failure of a stream only if that is S2, which
\* holds the reasons against it: losing others never makes an asset a sprint.
OnlyS2LossPromotes ==
    \A lost \in SUBSET (Streams \ {"S2"}) :
        Route(Without(readings, lost)) = "sprint" => Route(readings) = "sprint"

\* What the dimensions come to that can be scored.
Values(r) == {DimensionValue(r, asset.legal)[d] : d \in Dimensions} \ {None}

\* With readings r, a signal y speaks at least as well for the asset as x does with
\* q: it counts for as much, or it is missing and x counted for less than anything
\* known, or x was missing and y counts for more than anything known.
AsGood(q, x, r, y) ==
    CASE x = None /\ y = None -> TRUE
      [] x # None /\ y = None -> \A v \in Values(r) : x <= v
      [] x = None /\ y # None -> \A v \in Values(q) : y >= v
      [] OTHER                -> x <= y

FundingCounts(r) == IF r.funding = None THEN None ELSE Share(r.funding, FundingReference)
SlopeCounts(r)   == IF r.slope = None THEN None ELSE Share(r.slope, SlopeReference)
DensityCounts(r) == IF Density(r) = None THEN None ELSE Unit - Share(Density(r), NeighbourCrowded)
CitesCount(r)    == IF r.cites = None THEN None ELSE Saturating(EffectiveCitations(r))

SpeaksAsWell(q, r) ==
    /\ AsGood(q, FundingCounts(q), r, FundingCounts(r))
    /\ AsGood(q, SlopeCounts(q), r, SlopeCounts(r))
    /\ AsGood(q, DensityCounts(q), r, DensityCounts(r))
    /\ AsGood(q, CitesCount(q), r, CitesCount(r))

\* The readings, had S1 or S2, whose answers are measurements, given another.
Variants ==
    {q \in UNION {{[x \in DOMAIN readings |-> IF x \in SignalsOf[s] THEN answer[x] ELSE readings[x]] :
                     answer \in Answers[s] \cup {NoReadings}} : s \in {"S1", "S2"}} :
        SameQueries(q)}

\* The score ranks by the evidence: were a measurement better, the asset would not
\* score less; and an absent signal is no zero ("honesty over completeness",
\* scoring.py): a stream that fails takes nothing from the score unless what it
\* had to say counts for more than the rest.
ScoreFollowsReadings ==
    \A q \in Variants :
        LET before == Venture(q, asset.legal).value
            after  == Venture(readings, asset.legal).value
        IN  (SpeaksAsWell(q, readings) /\ before # None /\ after # None) => before <= after

\* Fields may be filled in that fuller is lacking; a date that was not one may
\* become one, and an owner may turn out to be ours.
Completes(fuller, a) ==
    /\ fuller.type = a.type
    /\ \A k \in DOMAIN a.dates : Parsed(a.dates[k]) => fuller.dates[k] = a.dates[k]
    /\ a.fee # Unset => fuller.fee = a.fee
    /\ a.encumbrances # Unset => fuller.encumbrances = a.encumbrances
    /\ a.exploited => fuller.exploited
    /\ a.owned => fuller.owned

\* What may be learnt that ends a candidacy: another date, or a use made of the asset.
Unmakes(fuller, a) ==
    \/ FirstDate(fuller.dates, KeysOf(a.type)) # FirstDate(a.dates, KeysOf(a.type))
    \/ ActiveEncumbrance(fuller)
    \/ fuller.exploited

\* "A condition whose input is missing is reported as unknown rather than guessed"
\* (dormancy.py), and only then: to know more of an asset never makes a verdict
\* that was reached indeterminate again, on any day, nor ends a candidacy but by
\* the date it goes by or a use of the asset.
MoreIsNotLess ==
    asset.type \in {"patent", "project_result"} =>
        \A fuller \in Assets : Completes(fuller, asset) =>
            /\ Determinate(asset, asOf) => Determinate(fuller, asOf)
            /\ Candidate(asset, asOf) => Candidate(fuller, asOf) \/ Unmakes(fuller, asset)

\* A profile that names one more term of the asset's sector leaves it there, even
\* when the term is another sector's too (clustering.py:91). A term whose words are part of
\* another sector's longer one would be more than one more term; config/sectors.yaml has none.
StaysInSector ==
    \A i \in DOMAIN SectorTerms : \A t \in SectorTerms[i] :
        SectorOf(text) = i => SectorOf(text \cup {t}) = i

==========================================================================
