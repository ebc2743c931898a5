-------------------------- MODULE Assessment_proofs --------------------------
(***************************************************************************)
(* What holds of an assessment whatever the thresholds, the weights, the   *)
(* taxonomy, the rulesets, the streams' answers and the assets: routing,   *)
(* dormancy, sectors and the score.                                        *)
(***************************************************************************)
EXTENDS Assessment, FiniteSetTheorems, WellFoundedInduction, TLAPS

(***************************************************************************)
(* Types.                                                                  *)
(***************************************************************************)
LEMMA NothingRead == IsReadings(NoReadings) /\ RunOrder \in Seq(Streams)
<1> DEFINE Fields == {"funding", "slope", "density", "classDensity", "cites", "corporate",
                      "pull", "regulation", "aligned"}
<1>1. DOMAIN NoReadings = DOMAIN FieldType
  <2>1. DOMAIN NoReadings = Fields
    BY DEF NoReadings
  <2>2. DOMAIN FieldType = Fields
    BY DEF FieldType
  <2>3. QED
    BY <2>1, <2>2
<1>2. \A x \in DOMAIN FieldType : NoReadings[x] \in FieldType[x]
  <2>1. \A x \in Fields \ {"slope", "regulation", "aligned"} : NoReadings[x] = None
    BY DEF NoReadings
  <2>2. \A x \in Fields \ {"slope", "regulation", "aligned"} : FieldType[x] = Count
    BY DEF FieldType
  <2>3. /\ NoReadings.slope = None /\ None \in FieldType.slope
        /\ NoReadings.regulation = FALSE /\ FALSE \in FieldType.regulation
        /\ NoReadings.aligned = {} /\ {} \in FieldType.aligned
    BY DEF NoReadings, FieldType
  <2>4. DOMAIN FieldType = Fields /\ None \in Count
    BY DEF FieldType, Count
  <2>5. SUFFICES ASSUME NEW x \in Fields PROVE NoReadings[x] \in FieldType[x]
    BY <2>4
  <2>6. CASE x \notin {"slope", "regulation", "aligned"}
    BY <2>1, <2>2, <2>4, <2>6
  <2>7. CASE x = "slope"
    BY <2>3, <2>7
  <2>8. CASE x = "regulation"
    BY <2>3, <2>8
  <2>9. CASE x = "aligned"
    BY <2>3, <2>9
  <2>10. QED
    BY <2>6, <2>7, <2>8, <2>9
<1>3. RunOrder \in Seq(Streams)
  BY DEF RunOrder, Streams
<1>4. QED
  BY <1>1, <1>2, <1>3 DEF IsReadings

\* The readings of a run stay readings, whatever the streams answer.
THEOREM AssessTypes == AssessSpec => []AssessTypeOK
<1>1. AssessInit => AssessTypeOK
  BY NothingRead DEF AssessInit, AssessTypeOK
<1>2. AssessTypeOK /\ [AssessNext]_assessVars => AssessTypeOK'
  <2> SUFFICES ASSUME AssessTypeOK, [AssessNext]_assessVars PROVE AssessTypeOK'
    OBVIOUS
  <2>1. CASE RunStream
    <3>1. asset' \in Assets /\ asOf' \in Days /\ text' \subseteq Terms
      BY <2>1 DEF RunStream, AssessTypeOK
    <3>2. Head(remaining) \in Streams /\ remaining' \in Seq(Streams)
      BY <2>1 DEF RunStream, AssessTypeOK
    <3>3. ASSUME NEW s \in Streams, NEW answer \in Answers[s],
                 readings' = [x \in DOMAIN readings |->
                                IF x \in SignalsOf[s] THEN answer[x] ELSE readings[x]]
          PROVE  IsReadings(readings)'
      BY <3>3, AssessmentAssumption DEF AssessTypeOK, IsReadings
    <3>4. IsReadings(readings)'
      <4>1. CASE UNCHANGED readings
        BY <4>1 DEF AssessTypeOK
      <4>2. QED
        BY <2>1, <3>2, <3>3, <4>1 DEF RunStream
    <3>5. QED
      BY <3>1, <3>2, <3>4 DEF AssessTypeOK
  <2>2. CASE \E profile \in SUBSET Terms : Rerun(profile)
    BY <2>2, NothingRead DEF Rerun, AssessTypeOK
  <2>3. CASE DaysPass
    BY <2>3 DEF DaysPass, AssessTypeOK
  <2>4. CASE UNCHANGED assessVars
    BY <2>4 DEF assessVars, AssessTypeOK
  <2>5. QED
    BY <2>1, <2>2, <2>3, <2>4 DEF AssessNext
<1>3. QED
  BY <1>1, <1>2, PTL DEF AssessSpec

(***************************************************************************)
(* Routing.                                                                *)
(***************************************************************************)
LEMMA PairIsSmall ==
  ASSUME NEW a, NEW b, NEW S \in SUBSET {a, b}
  PROVE  IsFiniteSet(S) /\ Cardinality(S) \in Nat /\ Cardinality(S) <= 2
<1>1. IsFiniteSet({a, b}) /\ Cardinality({a, b}) <= 2
  <2>1. IsFiniteSet({a}) /\ Cardinality({a}) = 1
    BY FS_Singleton
  <2>2. IsFiniteSet({a} \cup {b}) /\ Cardinality({a} \cup {b}) <= 2
    BY <2>1, FS_AddElement
  <2>3. QED
    BY <2>2, {a} \cup {b} = {a, b}
<1>2. QED
  BY <1>1, FS_Subset, FS_CardinalityType

\* Three favourable indicators are of two streams, for a stream gives at most two.
THEOREM SprintsAreCrossStream == AssessSpec => []SprintIsCrossStream
<1>1. SprintIsCrossStream
  <2> SUFFICES ASSUME Route(readings) = "sprint",
                      \A i, j \in Agreements(readings) : StreamOf[i] = StreamOf[j]
               PROVE  FALSE
    BY DEF SprintIsCrossStream
  <2>1. Cardinality(Agreements(readings)) >= 3
    BY DEF Route, Enough
  <2>2. \E a, b \in Indicators : Agreements(readings) \subseteq {a, b}
    BY DEF Agreements, Indicators, StreamOf
  <2>3. QED
    BY <2>1, <2>2, PairIsSmall
<1>2. QED
  BY <1>1, PTL

\* What a reading is once the streams in lost are silent.
LEMMA Silence ==
  ASSUME NEW r, IsReadings(r), NEW lost \in SUBSET (Streams \ {"S2"})
  PROVE  LET q == Without(r, lost) IN
         /\ q.slope = r.slope /\ q.density = r.density /\ q.cites = r.cites
         /\ q.funding \in {r.funding, None}
         /\ q.pull \in {r.pull, None}
         /\ q.aligned \in {r.aligned, {}}
  BY DEF Without, IsReadings, FieldType, NoReadings, SignalsOf, Streams

\* S1, S3 and S4 may lift the conflict only by taking two indicators away.
LEMMA OnlyS2Promotes ==
  ASSUME NEW r, IsReadings(r), NEW lost \in SUBSET (Streams \ {"S2"}),
         Route(Without(r, lost)) = "sprint"
  PROVE  Route(r) = "sprint"
<1> DEFINE q == Without(r, lost)
<1>1. /\ r.funding \in Count /\ r.pull \in Count
      /\ Rising(q) = Rising(r) /\ Cited(q) = Cited(r) /\ Crowded(q) = Crowded(r)
      /\ Uncited(q) = Uncited(r)
  BY Silence DEF IsReadings, FieldType, Rising, Cited, Crowded, Uncited
<1>2. /\ Pulled(q) => Pulled(r)
      /\ Funded(q) => Funded(r)
      /\ Aligned(q) => Aligned(r)
  <2>1. Pulled(q) => Pulled(r)
    BY <1>1, Silence, CorroborationAssumption DEF Pulled, Matches, Count
  <2>2. Funded(q) => Funded(r)
    BY Silence DEF Funded, AtLeast
  <2>3. Aligned(q) => Aligned(r)
    BY Silence DEF Aligned
  <2>4. QED
    BY <2>1, <2>2, <2>3
<1>3. ~ Conflicting(q) /\ Cardinality(Agreements(q)) >= 3
  BY DEF Route, Enough
<1>4. Agreements(q) \subseteq Agreements(r)
  BY <1>1, <1>2 DEF Agreements, Favourable, Indicators
<1>5. ~ Conflicting(r)
  <2> SUFFICES ASSUME Conflicting(r) PROVE FALSE
    OBVIOUS
  <2>1. ~ Pulled(q) /\ ~ Funded(q) /\ ~ Cited(q)
    BY <1>1, <1>3 DEF Conflicting, Uncited
  <2>2. Agreements(q) \subseteq {"field_momentum", "eu_alignment"}
    BY <2>1 DEF Agreements, Favourable, Indicators
  <2>3. QED
    BY <1>3, <2>2, PairIsSmall
<1>6. Cardinality(Agreements(r)) >= 3
  <2>1. IsFiniteSet(Indicators)
    <3>1. IsFiniteSet({"field_momentum", "industry_attention"})
      BY PairIsSmall
    <3>2. IsFiniteSet({"market_pull", "capital_flow"} \cup {"eu_alignment"})
      BY PairIsSmall, FS_AddElement
    <3>3. Indicators = {"field_momentum", "industry_attention"}
                         \cup ({"market_pull", "capital_flow"} \cup {"eu_alignment"})
      BY DEF Indicators
    <3>4. QED
      BY <3>1, <3>2, <3>3, FS_Union
  <2>2. Agreements(r) \in SUBSET Indicators
    BY DEF Agreements
  <2>3. IsFiniteSet(Agreements(r))
    BY <2>1, <2>2, FS_Subset
  <2>4. /\ Cardinality(Agreements(q)) <= Cardinality(Agreements(r))
        /\ Cardinality(Agreements(q)) \in Nat /\ Cardinality(Agreements(r)) \in Nat
    BY <1>4, <2>3, FS_Subset, FS_CardinalityType
  <2>5. QED
    BY <1>3, <2>4
<1>7. QED
  BY <1>5, <1>6 DEF Route, Enough

\* An asset that loses streams other than S2 is not routed to a sprint it was not
\* routed to before (streams/corroboration.py:180).
THEOREM LossPromotesOnlyIfS2 == AssessSpec => []OnlyS2LossPromotes
<1>1. AssessTypeOK => OnlyS2LossPromotes
  BY OnlyS2Promotes DEF AssessTypeOK, OnlyS2LossPromotes
<1>2. QED
  BY <1>1, AssessTypes, PTL

(***************************************************************************)
(* Dormancy.                                                               *)
(***************************************************************************)
LEMMA LeastNumber ==
  ASSUME NEW T \in SUBSET Nat, T # {}
  PROVE  \E x \in T : \A y \in T : x <= y
<1> DEFINE R == OpToRel(<, Nat)
<1>1. \E x \in T : \A y \in T : ~ (<<y, x>> \in R)
  BY NatLessThanWellFounded, WFMin
<1>2. \A x, y \in Nat : ~ (<<y, x>> \in R) => x <= y
  BY DEF OpToRel
<1>3. QED
  BY <1>1, <1>2

\* A date is found exactly when some key has one.
LEMMA FirstDateFound ==
  ASSUME NEW dates, NEW keys, DOMAIN keys \subseteq Nat
  PROVE  FirstDate(dates, keys) = Unset <=> \A i \in DOMAIN keys : ~ Parsed(dates[keys[i]])
<1> DEFINE usable == {i \in DOMAIN keys : Parsed(dates[keys[i]])}
           first  == CHOOSE i \in usable : \A j \in usable : i <= j
<1>1. CASE usable = {}
  BY <1>1 DEF FirstDate
<1>2. CASE usable # {}
  <2>1. first \in usable
    <3>1. \E i \in usable : \A j \in usable : i <= j
      BY <1>2, LeastNumber
    <3>2. QED
      BY <3>1
  <2>2. FirstDate(dates, keys) = dates[keys[first]]
    BY <1>2 DEF FirstDate
  <2>3. QED
    BY <2>1, <2>2 DEF Parsed
<1>3. QED
  BY <1>1, <1>2

\* A boolean condition passes or fails.
LEMMA NoUnknownPass == \A b : PassIf(b) # "unknown"
  BY DEF PassIf

\* What decides whether a verdict is reached: a date, and a fee status or an owner.
LEMMA WhatIsUnknown ==
  ASSUME NEW a, NEW day
  PROVE  Determinate(a, day) <=>
           /\ FirstDate(a.dates, KeysOf(a.type)) # Unset
           /\ IF a.type = "patent" THEN a.fee # Unset
              ELSE RequireOrgOwnership => OrgConfigured
  BY NoUnknownPass DEF Determinate, Conditions, YearsInRange

\* What makes an asset a candidate: the age, the ended rights and the owner.
LEMMA WhatPasses ==
  ASSUME NEW a, NEW day
  PROVE  Candidate(a, day) <=>
           /\ YearsInRange(FirstDate(a.dates, KeysOf(a.type)), day,
                           IF a.type = "patent" THEN MinAgeYears ELSE MinYearsSinceEnd,
                           IF a.type = "patent" THEN MaxAgeYears ELSE MaxYearsSinceEnd) = "pass"
           /\ IF a.type = "patent"
              THEN /\ a.fee # Unset /\ a.fee \in FeeStatusIn
                   /\ RequireNoActiveLicence => ~ ActiveEncumbrance(a)
              ELSE /\ RequireNoExploitationEvent => ~ a.exploited /\ ~ ActiveEncumbrance(a)
                   /\ RequireOrgOwnership => OrgConfigured /\ a.owned
<1>1. CASE a.type = "patent"
  <2> DEFINE years == YearsInRange(FirstDate(a.dates, KeysOf(a.type)), day, MinAgeYears, MaxAgeYears)
             fee   == IF a.fee = Unset THEN "unknown" ELSE PassIf(a.fee \in FeeStatusIn)
             free  == PassIf(~ ActiveEncumbrance(a))
  <2>1. Conditions(a, day) = {years, fee} \cup (IF RequireNoActiveLicence THEN {free} ELSE {})
    BY <1>1 DEF Conditions
  <2>2. /\ fee = "pass" <=> a.fee # Unset /\ a.fee \in FeeStatusIn
        /\ free = "pass" <=> ~ ActiveEncumbrance(a)
    BY DEF PassIf
  <2> HIDE DEF years, fee, free
  <2>3. Candidate(a, day) <=> years = "pass" /\ fee = "pass"
                                /\ (RequireNoActiveLicence => free = "pass")
    BY <2>1 DEF Candidate
  <2>4. QED
    BY <1>1, <2>2, <2>3 DEF years
<1>2. CASE a.type # "patent"
  <2> DEFINE years == YearsInRange(FirstDate(a.dates, KeysOf(a.type)), day,
                                   MinYearsSinceEnd, MaxYearsSinceEnd)
             free  == PassIf(~ a.exploited /\ ~ ActiveEncumbrance(a))
             owner == IF OrgConfigured THEN PassIf(a.owned) ELSE "unknown"
  <2>1. Conditions(a, day) = {years} \cup (IF RequireNoExploitationEvent THEN {free} ELSE {})
                                     \cup (IF RequireOrgOwnership THEN {owner} ELSE {})
    BY <1>2 DEF Conditions
  <2>2. /\ free = "pass" <=> ~ a.exploited /\ ~ ActiveEncumbrance(a)
        /\ owner = "pass" <=> OrgConfigured /\ a.owned
    BY DEF PassIf
  <2> HIDE DEF years, free, owner
  <2>3. Candidate(a, day) <=> years = "pass" /\ (RequireNoExploitationEvent => free = "pass")
                                /\ (RequireOrgOwnership => owner = "pass")
    BY <2>1 DEF Candidate
  <2>4. QED
    BY <1>2, <2>2, <2>3 DEF years
<1>3. QED
  BY <1>1, <1>2

\* To fill in what is missing keeps every date, and with it the verdict's grounds.
LEMMA VerdictsAreKept ==
  ASSUME NEW a \in Assets, a.type \in {"patent", "project_result"}, NEW day,
         Determinate(a, day), NEW fuller \in Assets, Completes(fuller, a)
  PROVE  Determinate(fuller, day)
<1> DEFINE keys == KeysOf(a.type)
<1>1. /\ FirstDate(a.dates, keys) # Unset
      /\ IF a.type = "patent" THEN a.fee # Unset ELSE RequireOrgOwnership => OrgConfigured
  BY WhatIsUnknown
<1>2. DOMAIN keys \subseteq Nat
  BY DormancyAssumption DEF KeysOf
<1>3. \A i \in DOMAIN keys : keys[i] \in DOMAIN a.dates
  BY AssessmentAssumption
<1>4. PICK i \in DOMAIN keys : Parsed(a.dates[keys[i]])
  BY <1>1, <1>2, FirstDateFound
<1>5. Parsed(fuller.dates[keys[i]])
  BY <1>3, <1>4 DEF Completes
<1>6. FirstDate(fuller.dates, keys) # Unset
  BY <1>2, <1>4, <1>5, FirstDateFound
<1>7. fuller.type = a.type /\ (a.fee # Unset => fuller.fee # Unset)
  BY DEF Completes
<1>8. QED
  BY <1>1, <1>6, <1>7, WhatIsUnknown

\* A candidate stays one when a field that was missing is filled in, unless that
\* field speaks against it.
LEMMA CandidaciesAreKept ==
  ASSUME NEW a, NEW day, Candidate(a, day),
         NEW fuller, Completes(fuller, a), ~ Unmakes(fuller, a)
  PROVE  Candidate(fuller, day)
<1>1. /\ fuller.type = a.type /\ (a.fee # Unset => fuller.fee = a.fee)
      /\ a.owned => fuller.owned
      /\ FirstDate(fuller.dates, KeysOf(a.type)) = FirstDate(a.dates, KeysOf(a.type))
      /\ ~ ActiveEncumbrance(fuller) /\ ~ fuller.exploited
  BY DEF Completes, Unmakes
<1>2. CASE a.type = "patent"
  BY <1>1, <1>2, WhatPasses
<1>3. CASE a.type # "patent"
  BY <1>1, <1>3, WhatPasses
<1>4. QED
  BY <1>2, <1>3

\* Whatever the rulesets and the days: knowing more never unsettles a verdict.
THEOREM MoreIsNeverLess == AssessSpec => []MoreIsNotLess
<1>1. AssessTypeOK => MoreIsNotLess
  BY VerdictsAreKept, CandidaciesAreKept DEF AssessTypeOK, MoreIsNotLess
<1>2. QED
  BY <1>1, AssessTypes, PTL

(***************************************************************************)
(* Sectors.                                                                *)
(***************************************************************************)
\* How a sector's overlap grows with the text.
LEMMA OverlapGrows ==
  ASSUME NEW i \in DOMAIN SectorTerms, NEW txt, NEW t
  PROVE  /\ Overlap(i, txt) \in Nat
         /\ Overlap(i, txt \cup {t}) = Overlap(i, txt)
              + IF t \in SectorTerms[i] /\ t \notin txt THEN 1 ELSE 0
<1>1. IsFiniteSet(MatchedTerms(i, txt))
  BY SectorsAssumption, FS_Intersection DEF MatchedTerms
<1>2. CASE t \in SectorTerms[i]
  <2>1. MatchedTerms(i, txt \cup {t}) = MatchedTerms(i, txt) \cup {t}
    BY <1>2 DEF MatchedTerms
  <2>2. t \in MatchedTerms(i, txt) <=> t \in txt
    BY <1>2 DEF MatchedTerms
  <2>3. Overlap(i, txt) \in Nat
    BY <1>1, FS_CardinalityType DEF Overlap
  <2>4. Cardinality(MatchedTerms(i, txt) \cup {t}) =
          IF t \in MatchedTerms(i, txt) THEN Cardinality(MatchedTerms(i, txt))
          ELSE Cardinality(MatchedTerms(i, txt)) + 1
    BY <1>1, FS_AddElement
  <2>5. QED
    BY <1>2, <2>1, <2>2, <2>3, <2>4 DEF Overlap
<1>3. CASE t \notin SectorTerms[i]
  <2>1. MatchedTerms(i, txt \cup {t}) = MatchedTerms(i, txt)
    BY <1>3 DEF MatchedTerms
  <2>2. QED
    BY <1>1, <1>3, <2>1, FS_CardinalityType DEF Overlap
<1>4. QED
  BY <1>2, <1>3

\* No two sectors are best.
LEMMA OneBestSector ==
  ASSUME NEW txt, NEW i \in BestSector(txt), NEW j \in BestSector(txt)
  PROVE  i = j
<1>1. i \in 1 .. Len(SectorTerms) /\ j \in 1 .. Len(SectorTerms) /\ Len(SectorTerms) \in Nat
  BY SectorsAssumption DEF BestSector
<1>2. Overlap(i, txt) \in Nat /\ Overlap(j, txt) \in Nat
  BY OverlapGrows DEF BestSector
<1>3. /\ Overlap(j, txt) <= Overlap(i, txt)
      /\ Overlap(i, txt) <= Overlap(j, txt)
      /\ j \in 1 .. i - 1 => Overlap(j, txt) < Overlap(i, txt)
      /\ i \in 1 .. j - 1 => Overlap(i, txt) < Overlap(j, txt)
  BY DEF BestSector
<1>4. ~ (j < i) /\ ~ (i < j)
  BY <1>1, <1>2, <1>3
<1>5. QED
  BY <1>1, <1>4

\* The sector of a text is the best one, when it has enough terms.
LEMMA IsSectorOf ==
  ASSUME NEW txt, NEW i \in DOMAIN SectorTerms
  PROVE  SectorOf(txt) = i <=> i \in BestSector(txt) /\ Overlap(i, txt) >= MinTerms
<1>1. i # Unclassified
  BY SectorsAssumption DEF Unclassified
<1>2. QED
  BY <1>1, OneBestSector DEF SectorOf

\* The term counts for the sector itself as much as for any other.
THEOREM SectorsAreStable == AssessSpec => []StaysInSector
<1>1. StaysInSector
  <2> SUFFICES ASSUME NEW i \in DOMAIN SectorTerms, NEW t \in SectorTerms[i], SectorOf(text) = i
               PROVE  SectorOf(text \cup {t}) = i
    BY DEF StaysInSector
  <2>1. /\ i \in 1 .. Len(SectorTerms) /\ Len(SectorTerms) \in Nat
        /\ DOMAIN SectorTerms = 1 .. Len(SectorTerms)
        /\ MinTerms \in Nat
    BY SectorsAssumption
  <2>2. i \in BestSector(text) /\ Overlap(i, text) >= MinTerms
    BY IsSectorOf
  <2> DEFINE more == IF t \in text THEN 0 ELSE 1
  <2>3. /\ Overlap(i, text) \in Nat
        /\ Overlap(i, text \cup {t}) = Overlap(i, text) + more
    BY OverlapGrows
  <2>4. \A j \in DOMAIN SectorTerms :
          /\ Overlap(j, text) \in Nat /\ Overlap(j, text \cup {t}) \in Nat
          /\ Overlap(j, text \cup {t}) <= Overlap(j, text) + more
    <3> TAKE j \in DOMAIN SectorTerms
    <3>1. Overlap(j, text) \in Nat /\ Overlap(j, text \cup {t}) \in Nat
      BY OverlapGrows
    <3>2. Overlap(j, text \cup {t}) = Overlap(j, text)
            + IF t \in SectorTerms[j] /\ t \notin text THEN 1 ELSE 0
      BY OverlapGrows
    <3>3. QED
      BY <3>1, <3>2
  <2>5. \A j \in DOMAIN SectorTerms : Overlap(j, text) <= Overlap(i, text)
    BY <2>2 DEF BestSector
  <2>6. \A j \in 1 .. i - 1 : Overlap(j, text) < Overlap(i, text)
    BY <2>2 DEF BestSector
  <2>7. \A j \in 1 .. i - 1 : j \in DOMAIN SectorTerms
    BY <2>1
  <2> HIDE DEF more
  <2>8. more \in Nat
    BY DEF more
  <2>9. \A j \in DOMAIN SectorTerms : Overlap(j, text \cup {t}) <= Overlap(i, text \cup {t})
    <3> TAKE j \in DOMAIN SectorTerms
    <3> DEFINE o == Overlap(j, text)
               p == Overlap(j, text \cup {t})
               u == Overlap(i, text)
               v == Overlap(i, text \cup {t})
    <3>1. o \in Nat /\ p \in Nat /\ p <= o + more /\ o <= u /\ u \in Nat /\ v = u + more
      BY <2>3, <2>4, <2>5
    <3> HIDE DEF o, p, u, v
    <3>2. p <= v
      BY <2>8, <3>1
    <3>3. QED
      BY <3>2 DEF p, v
  <2>10. \A j \in 1 .. i - 1 : Overlap(j, text \cup {t}) < Overlap(i, text \cup {t})
    <3> TAKE j \in 1 .. i - 1
    <3> DEFINE o == Overlap(j, text)
               p == Overlap(j, text \cup {t})
               u == Overlap(i, text)
               v == Overlap(i, text \cup {t})
    <3>1. o \in Nat /\ p \in Nat /\ p <= o + more /\ o < u /\ u \in Nat /\ v = u + more
      BY <2>3, <2>4, <2>6, <2>7
    <3> HIDE DEF o, p, u, v
    <3>2. p < v
      BY <2>8, <3>1
    <3>3. QED
      BY <3>2 DEF p, v
  <2>11. i \in BestSector(text \cup {t})
    BY <2>9, <2>10 DEF BestSector
  <2>12. Overlap(i, text \cup {t}) >= MinTerms
    BY <2>1, <2>2, <2>3, <2>8
  <2>13. QED
    BY <2>11, <2>12, IsSectorOf
<1>2. QED
  BY <1>1, PTL

---------------------------------------------------------------------------
(***************************************************************************)
(* Sums.  SumFunctionOnSet is defined by a recursive function on the       *)
(* subsets; that this function exists, and that it does not matter which   *)
(* element is added first, is proved by minimal counterexample.            *)
(***************************************************************************)
Picked(s) == CHOOSE x \in s : TRUE

\* g adds the values of f over each of the given sets of elements.
Adds(g, f, sets) ==
    g = [s \in sets |-> IF s = {} THEN 0 ELSE f[Picked(s)] + g[s \ {Picked(s)}]]

\* The community module's sum is the value of such a function, if there is one.
LEMMA SumIsAdder ==
  ASSUME NEW f, NEW S
  PROVE  SumFunctionOnSet(f, S) = (CHOOSE g : Adds(g, f, SUBSET S))[S]
BY DEF SumFunctionOnSet, FoldFunctionOnSet, MapThenFoldSet, Adds, Picked

\* There is one for the subsets of a finite set.
LEMMA AdderExists ==
  ASSUME NEW S, IsFiniteSet(S), NEW f
  PROVE  \E g : Adds(g, f, SUBSET S)
<1> DEFINE Small(n) == {s \in SUBSET S : Cardinality(s) <= n}
           Lacking == {n \in Nat : ~ \E g : Adds(g, f, Small(n))}
<1>1. \A s \in SUBSET S : IsFiniteSet(s) /\ Cardinality(s) \in Nat
  BY FS_Subset, FS_CardinalityType
<1>2. \A s \in SUBSET S : s # {} => Picked(s) \in s /\ s \ {Picked(s)} \in SUBSET S
  BY DEF Picked
<1>3. \A s \in SUBSET S : s # {} => Cardinality(s \ {Picked(s)}) = Cardinality(s) - 1
  BY <1>1, <1>2, FS_RemoveElement
<1>4. \A s \in SUBSET S : Cardinality(s) = 0 <=> s = {}
  BY <1>1, FS_EmptySet
<1>5. 0 \notin Lacking
  <2>1. Small(0) = {{}}
    BY <1>1, <1>4
  <2>2. Adds([s \in {{}} |-> 0], f, {{}})
    BY DEF Adds
  <2>3. QED
    BY <2>1, <2>2
<1>6. \A n \in Nat : n \notin Lacking => n + 1 \notin Lacking
  <2> SUFFICES ASSUME NEW n \in Nat, NEW g, Adds(g, f, Small(n))
               PROVE  \E h : Adds(h, f, Small(n + 1))
    OBVIOUS
  <2> DEFINE h == [s \in Small(n + 1) |-> IF s = {} THEN 0 ELSE f[Picked(s)] + g[s \ {Picked(s)}]]
  <2>1. \A s \in Small(n) : s \in Small(n + 1) /\ h[s] = g[s]
    <3>1. Small(n) \subseteq Small(n + 1)
      BY <1>1
    <3> HIDE DEF Small
    <3>2. \A s \in Small(n) : g[s] = IF s = {} THEN 0 ELSE f[Picked(s)] + g[s \ {Picked(s)}]
      BY DEF Adds
    <3>3. QED
      BY <3>1, <3>2
  <2>2. \A s \in Small(n + 1) : s # {} => s \ {Picked(s)} \in Small(n)
    BY <1>1, <1>2, <1>3
  <2>3. \A s \in Small(n + 1) : h[s] = IF s = {} THEN 0 ELSE f[Picked(s)] + g[s \ {Picked(s)}]
    OBVIOUS
  <2> HIDE DEF Small
  <2>4. h = [s \in Small(n + 1) |-> h[s]]
    OBVIOUS
  <2> HIDE DEF h
  <2>5. \A s \in Small(n + 1) : h[s] = IF s = {} THEN 0 ELSE f[Picked(s)] + h[s \ {Picked(s)}]
    BY <2>1, <2>2, <2>3
  <2>6. QED
    BY <2>4, <2>5 DEF Adds
<1>7. Lacking = {}
  <2> SUFFICES ASSUME Lacking # {} PROVE FALSE
    OBVIOUS
  <2>1. PICK n \in Lacking : \A m \in Lacking : n <= m
    BY LeastNumber
  <2>2. Lacking \subseteq Nat
    OBVIOUS
  <2> HIDE DEF Lacking
  <2>3. n # 0 /\ n \in Nat
    BY <1>5, <2>2
  <2>4. n - 1 \in Nat /\ n - 1 \notin Lacking
    BY <2>1, <2>3
  <2>5. QED
    BY <1>6, <2>1, <2>3, <2>4
<1>8. Small(Cardinality(S)) = SUBSET S
  BY <1>1, FS_Subset
<1>9. QED
  BY <1>1, <1>7, <1>8

\* A sum of integers over a finite set, and over its subsets, is an integer from
\* which the elements can be taken in any order.
TakesOut(g, f, S) ==
    /\ g[{}] = 0
    /\ \A s \in SUBSET S : g[s] \in Int /\ \A x \in s : g[s] = f[x] + g[s \ {x}]

\* SumFunctionOnSet is one.
LEMMA SumByElements ==
  ASSUME NEW S, IsFiniteSet(S), NEW f, \A x \in S : f[x] \in Int
  PROVE  \E g : SumFunctionOnSet(f, S) = g[S] /\ TakesOut(g, f, S)
<1> DEFINE g == CHOOSE h : Adds(h, f, SUBSET S)
<1>1. Adds(g, f, SUBSET S)
  BY AdderExists
<1>2. SumFunctionOnSet(f, S) = g[S]
  BY SumIsAdder
<1> HIDE DEF g
<1>3. \A s \in SUBSET S : g[s] = IF s = {} THEN 0 ELSE f[Picked(s)] + g[s \ {Picked(s)}]
  BY <1>1 DEF Adds
<1> DEFINE Sums(s) == g[s] \in Int /\ \A x \in s : g[s] = f[x] + g[s \ {x}]
           Bad == {s \in SUBSET S : ~ Sums(s)}
<1>4. Bad \subseteq FiniteSubsetsOf(S)
  BY FS_Subset DEF FiniteSubsetsOf
<1>5. ASSUME Bad # {} PROVE FALSE
  <2>1. PICK s \in Bad : \A t \in Bad : ~ (<<t, s>> \in StrictSubsetOrdering(S))
    BY <1>4, <1>5, FS_StrictSubsetOrderingWellFounded, WFMin
  <2>2. \A t \in SUBSET s : t # s => Sums(t)
    BY <2>1 DEF StrictSubsetOrdering
  <2>3. s # {} /\ s \in SUBSET S /\ ~ Sums(s)
    <3>1. s \in SUBSET S /\ ~ Sums(s)
      BY <2>1
    <3>2. g[{}] = 0
      BY <1>3
    <3>3. Sums({})
      BY <3>2
    <3>4. QED
      BY <3>1, <3>3
  <2> HIDE DEF Bad
  <2>4. Picked(s) \in s
    BY <2>3 DEF Picked
  <2> DEFINE p == Picked(s)
  <2>5. g[s] = f[p] + g[s \ {p}] /\ Sums(s \ {p}) /\ f[p] \in Int
    BY <1>3, <2>2, <2>3, <2>4
  <2>6. ASSUME NEW x \in s, x # p PROVE g[s] = f[x] + g[s \ {x}]
    <3>1. g[s \ {p}] = f[x] + g[(s \ {p}) \ {x}]
      BY <2>4, <2>5, <2>6
    <3>2. Sums(s \ {x}) /\ Sums((s \ {p}) \ {x})
      BY <2>2, <2>6
    <3>3. g[s \ {x}] = f[p] + g[(s \ {x}) \ {p}]
      BY <2>4, <2>6, <3>2
    <3>4. (s \ {x}) \ {p} = (s \ {p}) \ {x}
      OBVIOUS
    <3>5. f[x] \in Int /\ f[p] \in Int /\ g[(s \ {p}) \ {x}] \in Int
      BY <2>3, <2>5, <2>6, <3>2
    <3>6. g[s] = f[p] + g[s \ {p}]
      BY <2>5
    <3> HIDE DEF p, Sums
    <3>7. g[s \ {x}] = f[p] + g[(s \ {p}) \ {x}]
      BY <3>3, <3>4
    <3>8. QED
      BY <3>1, <3>5, <3>6, <3>7
  <2>7. g[s] \in Int
    BY <2>5
  <2>8. \A x \in s : g[s] = f[x] + g[s \ {x}]
    BY <2>5, <2>6
  <2>9. QED
    BY <2>3, <2>7, <2>8
<1>6. \A s \in SUBSET S : Sums(s)
  BY <1>5
<1>7. g[{}] = 0
  BY <1>3
<1>8. TakesOut(g, f, S)
  BY <1>6, <1>7 DEF TakesOut
<1>9. QED
  BY <1>2, <1>8

\* What an element adds to the sum over S.
Term(f, S, x) == IF x \in S THEN f[x] ELSE 0

\* The sum over at most four elements.
LEMMA SumOfFour ==
  ASSUME NEW a, NEW b, NEW c, NEW d, a # b, a # c, a # d, b # c, b # d, c # d,
         NEW S \in SUBSET {a, b, c, d}, NEW f, \A x \in S : f[x] \in Int
  PROVE  SumFunctionOnSet(f, S) = Term(f, S, a) + Term(f, S, b) + Term(f, S, c) + Term(f, S, d)
<1>1. IsFiniteSet({a} \cup {b}) /\ IsFiniteSet({c} \cup {d})
  BY FS_Singleton, FS_Union
<1>2. IsFiniteSet(({a} \cup {b}) \cup ({c} \cup {d}))
  BY <1>1, FS_Union
<1>3. IsFiniteSet(S)
  <2>1. S \subseteq ({a} \cup {b}) \cup ({c} \cup {d})
    OBVIOUS
  <2>2. QED
    BY <1>2, <2>1, FS_Subset
<1>4. PICK g : SumFunctionOnSet(f, S) = g[S] /\ TakesOut(g, f, S)
  BY <1>3, SumByElements
<1>5. ASSUME NEW s \in SUBSET S, NEW x, x \in S => x \in s
      PROVE  g[s] = Term(f, S, x) + g[s \ {x}] /\ Term(f, S, x) \in Int /\ g[s \ {x}] \in Int
  <2>1. CASE x \in s
    BY <1>4, <1>5, <2>1 DEF TakesOut, Term
  <2>2. CASE x \notin s
    <3>1. s \ {x} = s
      BY <2>2
    <3>2. x \notin S /\ g[s] \in Int
      BY <1>4, <1>5, <2>2 DEF TakesOut
    <3>3. Term(f, S, x) = 0 /\ g[s \ {x}] = g[s]
      BY <3>1, <3>2 DEF Term
    <3>4. QED
      BY <3>2, <3>3
  <2>3. QED
    BY <2>1, <2>2
<1> DEFINE A == S \ {a}  B == A \ {b}  C == B \ {c}
<1>6. g[S] = Term(f, S, a) + g[A] /\ Term(f, S, a) \in Int
  BY <1>5
<1>7. g[A] = Term(f, S, b) + g[B] /\ Term(f, S, b) \in Int
  BY <1>5
<1>8. g[B] = Term(f, S, c) + g[C] /\ Term(f, S, c) \in Int
  BY <1>5
<1>9. g[C] = Term(f, S, d) + g[C \ {d}] /\ Term(f, S, d) \in Int
  BY <1>5
<1>10. C \ {d} = {}
  OBVIOUS
<1> HIDE DEF A, B, C
<1>11. g[C] = Term(f, S, d)
  <2>1. g[{}] = 0
    BY <1>4 DEF TakesOut
  <2>2. g[C \ {d}] = 0
    BY <1>10, <2>1
  <2>3. QED
    BY <1>9, <2>2
<1>12. g[S] = Term(f, S, a) + Term(f, S, b) + Term(f, S, c) + Term(f, S, d)
  BY <1>6, <1>7, <1>8, <1>9, <1>11
<1>13. QED
  BY <1>4, <1>12

---------------------------------------------------------------------------
(***************************************************************************)
(* Means.  A mean is at least m exactly when its components exceed m on    *)
(* the whole; the order of two means follows component by component, also  *)
(* when components come and go.                                            *)
(***************************************************************************)
Four    == 1 .. 4
Measure == Int \cup {None}

\* What a component that is there has over m.
Excess(x, w, m) == IF x = None THEN 0 ELSE w * (x - m)

ExcessOf(x, w, m) ==
    Excess(x[1], w[1], m) + Excess(x[2], w[2], m) + Excess(x[3], w[3], m) + Excess(x[4], w[4], m)

\* v is the mean, rounded down, of those of the components x that are there.
IsMean(v, x, w) == v \in Int /\ \A m \in Int : v >= m <=> ExcessOf(x, w, m) >= 0

\* What an integer division comes to.
LEMMA QuotientAtLeast ==
  ASSUME NEW n \in Int, NEW d \in Nat \ {0}, NEW m \in Int
  PROVE  n \div d \in Int /\ (n \div d >= m <=> n >= m * d)
<1> DEFINE q == n \div d
<1>1. q \in Int /\ d * q <= n /\ n < d * q + d
  OBVIOUS
<1> HIDE DEF q
<1>2. d * q \in Int /\ m * d \in Int
  BY <1>1
<1>3. ASSUME q >= m PROVE n >= m * d
  <2>1. d * (q - m) >= 0 /\ d * (q - m) = d * q - m * d
    BY <1>1, <1>3
  <2>2. QED
    BY <1>1, <1>2, <2>1
<1>4. ASSUME q < m PROVE n < m * d
  <2>1. d * (m - q - 1) >= 0 /\ d * (m - q - 1) = m * d - d * q - d
    BY <1>1, <1>4
  <2>2. QED
    BY <1>1, <1>2, <2>1
<1>5. QED
  BY <1>1, <1>2, <1>3, <1>4 DEF q

\* An excess is a number.
LEMMA ExcessType ==
  ASSUME NEW x \in Measure, NEW w \in Nat, NEW m \in Int
  PROVE  Excess(x, w, m) \in Int
<1>1. CASE x = None
  BY <1>1 DEF Excess
<1>2. CASE x # None
  BY <1>2 DEF Excess, Measure
<1>3. QED
  BY <1>1, <1>2

\* So the quotient of the weighted sum and the sum of the weights is a mean.
LEMMA QuotientIsMean ==
  ASSUME NEW x \in [Four -> Measure], NEW w \in [Four -> Nat],
         NEW n, NEW d \in Nat \ {0},
         n = (IF x[1] # None THEN w[1] * x[1] ELSE 0) + (IF x[2] # None THEN w[2] * x[2] ELSE 0)
               + (IF x[3] # None THEN w[3] * x[3] ELSE 0) + (IF x[4] # None THEN w[4] * x[4] ELSE 0),
         d = (IF x[1] # None THEN w[1] ELSE 0) + (IF x[2] # None THEN w[2] ELSE 0)
               + (IF x[3] # None THEN w[3] ELSE 0) + (IF x[4] # None THEN w[4] ELSE 0)
  PROVE  IsMean(n \div d, x, w)
<1> DEFINE Value(i)  == IF x[i] # None THEN w[i] * x[i] ELSE 0
           Weight(i) == IF x[i] # None THEN w[i] ELSE 0
<1>1. ASSUME NEW i \in Four
      PROVE  /\ Value(i) \in Int /\ Weight(i) \in Int
             /\ \A m \in Int : /\ m * Weight(i) \in Int
                               /\ Excess(x[i], w[i], m) = Value(i) - m * Weight(i)
  <2>1. x[i] \in Measure /\ w[i] \in Nat
    OBVIOUS
  <2>2. CASE x[i] = None
    BY <2>2 DEF Excess
  <2>3. CASE x[i] # None
    <3>1. x[i] \in Int
      BY <2>1, <2>3 DEF Measure
    <3>2. Value(i) = w[i] * x[i] /\ Weight(i) = w[i]
      BY <2>3
    <3>3. \A m \in Int : w[i] * (x[i] - m) = w[i] * x[i] - m * w[i]
      BY <2>1, <3>1
    <3>4. QED
      BY <2>1, <2>3, <3>1, <3>2, <3>3 DEF Excess
  <2>4. QED
    BY <2>2, <2>3
<1>2. {1, 2, 3, 4} \subseteq Four
  BY DEF Four
<1>3. n = Value(1) + Value(2) + Value(3) + Value(4) /\ d = Weight(1) + Weight(2) + Weight(3) + Weight(4)
  OBVIOUS
<1> HIDE DEF Value, Weight
<1>4. n \in Int
  BY <1>1, <1>2, <1>3
<1>5. ASSUME NEW m \in Int PROVE n \div d >= m <=> ExcessOf(x, w, m) >= 0
  <2>1. m * d = m * Weight(1) + m * Weight(2) + m * Weight(3) + m * Weight(4)
    BY <1>1, <1>2, <1>3
  <2>2. ExcessOf(x, w, m) = n - m * d /\ m * d \in Int
    <3>1. m * d \in Int
      OBVIOUS
    <3>2. \A i \in {1, 2, 3, 4} : Excess(x[i], w[i], m) = Value(i) - m * Weight(i)
                                  /\ Value(i) \in Int /\ m * Weight(i) \in Int
      BY <1>1, <1>2
    <3>3. QED
      BY <1>3, <2>1, <3>1, <3>2 DEF ExcessOf
  <2>3. QED
    BY <1>4, <2>2, QuotientAtLeast
<1>6. n \div d \in Int
  BY <1>4, QuotientAtLeast
<1>7. QED
  BY <1>5, <1>6 DEF IsMean

\* A mean is no less than its least component and no more than its greatest.
LEMMA MeanAbove ==
  ASSUME NEW x \in [Four -> Measure], NEW w \in [Four -> Nat], NEW v, IsMean(v, x, w),
         NEW m \in Int, \A i \in Four : x[i] # None => x[i] >= m
  PROVE  v >= m
<1>1. ASSUME NEW i \in Four PROVE Excess(x[i], w[i], m) >= 0 /\ Excess(x[i], w[i], m) \in Int
  <2>1. x[i] \in Measure /\ w[i] \in Nat
    OBVIOUS
  <2>2. CASE x[i] = None
    BY <2>2 DEF Excess
  <2>3. CASE x[i] # None
    BY <2>1, <2>3 DEF Excess, Measure
  <2>4. QED
    BY <2>2, <2>3
<1>2. ExcessOf(x, w, m) >= 0
  BY <1>1 DEF ExcessOf, Four
<1>3. QED
  BY <1>2 DEF IsMean

\* (Some component must weigh something.)
LEMMA MeanBelow ==
  ASSUME NEW x \in [Four -> Measure], NEW w \in [Four -> Nat], NEW v, IsMean(v, x, w),
         NEW m \in Int, \A i \in Four : x[i] # None => x[i] <= m,
         \E i \in Four : x[i] # None /\ w[i] # 0
  PROVE  v <= m
<1>1. ASSUME NEW i \in Four
      PROVE  /\ Excess(x[i], w[i], m + 1) <= 0 /\ Excess(x[i], w[i], m + 1) \in Int
             /\ x[i] # None /\ w[i] # 0 => Excess(x[i], w[i], m + 1) < 0
  <2>1. x[i] \in Measure /\ w[i] \in Nat
    OBVIOUS
  <2>2. CASE x[i] = None
    BY <2>2 DEF Excess
  <2>3. CASE x[i] # None
    <3>1. x[i] \in Int /\ x[i] - (m + 1) \in Int /\ x[i] - (m + 1) <= -1
      BY <2>1, <2>3 DEF Measure
    <3>2. w[i] * (x[i] - (m + 1)) \in Int /\ w[i] * (x[i] - (m + 1)) <= - w[i]
      BY <2>1, <3>1
    <3>3. Excess(x[i], w[i], m + 1) = w[i] * (x[i] - (m + 1))
      BY <2>3 DEF Excess
    <3>4. QED
      BY <2>1, <3>2, <3>3
  <2>4. QED
    BY <2>2, <2>3
<1>2. ExcessOf(x, w, m + 1) < 0 /\ ExcessOf(x, w, m + 1) \in Int
  BY <1>1 DEF ExcessOf, Four
<1>3. QED
  BY <1>2 DEF IsMean

\* Better components have the better mean: each as good as before, or gone and no
\* more than what is left, or new and no less than what there was.
LEMMA MeanFollows ==
  ASSUME NEW x \in [Four -> Measure], NEW y \in [Four -> Measure], NEW w \in [Four -> Nat],
         NEW u, IsMean(u, x, w), NEW v, IsMean(v, y, w),
         \A i \in Four : /\ x[i] # None /\ y[i] # None => x[i] <= y[i]
                         /\ x[i] = None /\ y[i] # None => u <= y[i]
                         /\ x[i] # None /\ y[i] = None => x[i] <= v
  PROVE  u <= v
<1>1. u \in Int /\ v \in Int
  BY DEF IsMean
<1> SUFFICES ASSUME v < u PROVE FALSE
  BY <1>1
<1>2. ASSUME NEW i \in Four
      PROVE  /\ Excess(x[i], w[i], u) \in Int /\ Excess(y[i], w[i], u) \in Int
             /\ Excess(x[i], w[i], u) <= Excess(y[i], w[i], u)
  <2>1. x[i] \in Measure /\ y[i] \in Measure /\ w[i] \in Nat
    OBVIOUS
  <2>2. Excess(x[i], w[i], u) \in Int /\ Excess(y[i], w[i], u) \in Int
    BY <1>1, <2>1, ExcessType
  <2>3. CASE x[i] = None /\ y[i] = None
    BY <2>3 DEF Excess
  <2>4. CASE x[i] # None /\ y[i] # None
    <3>1. x[i] \in Int /\ y[i] \in Int /\ x[i] <= y[i]
      BY <2>1, <2>4 DEF Measure
    <3>2. w[i] * (x[i] - u) <= w[i] * (y[i] - u)
      <4>1. w[i] * (y[i] - x[i]) >= 0 /\ w[i] * (y[i] - x[i]) \in Int
        BY <2>1, <3>1
      <4>2. w[i] * (y[i] - u) = w[i] * (x[i] - u) + w[i] * (y[i] - x[i]) /\ w[i] * (x[i] - u) \in Int
        BY <1>1, <2>1, <3>1
      <4>3. QED
        BY <4>1, <4>2
    <3>3. QED
      BY <2>2, <2>4, <3>2 DEF Excess
  <2>5. CASE x[i] = None /\ y[i] # None
    <3>1. y[i] \in Int /\ u <= y[i]
      BY <2>1, <2>5 DEF Measure
    <3>2. w[i] * (y[i] - u) >= 0
      BY <1>1, <2>1, <3>1
    <3>3. QED
      BY <2>2, <2>5, <3>2 DEF Excess
  <2>6. CASE x[i] # None /\ y[i] = None
    <3>1. x[i] \in Int /\ x[i] <= v
      BY <2>1, <2>6 DEF Measure
    <3>2. w[i] * (u - x[i]) >= 0 /\ w[i] * (x[i] - u) = - (w[i] * (u - x[i]))
      BY <1>1, <2>1, <3>1
    <3>3. QED
      BY <1>1, <2>1, <2>2, <2>6, <3>1, <3>2 DEF Excess
  <2>7. QED
    BY <2>2, <2>3, <2>4, <2>5, <2>6
<1>3. ExcessOf(x, w, u) <= ExcessOf(y, w, u) /\ ExcessOf(x, w, u) \in Int /\ ExcessOf(y, w, u) \in Int
  BY <1>2 DEF ExcessOf, Four
<1>4. ExcessOf(x, w, u) >= 0
  BY <1>1 DEF IsMean
<1>5. ExcessOf(y, w, u) >= 0
  BY <1>3, <1>4
<1>6. v >= u
  BY <1>1, <1>5 DEF IsMean
<1>7. QED
  BY <1>1, <1>6

\* _blend gives the mean of the components that are there.
LEMMA BlendIsMean ==
  ASSUME NEW x \in [Four -> Measure], NEW w \in [Four -> Nat \ {0}], NEW name,
         \A i, j \in Four : i # j => name[i] # name[j],
         NEW parts,
         parts = Part(x[1] # None, name[1], w[1], x[1]) \cup Part(x[2] # None, name[2], w[2], x[2])
                   \cup Part(x[3] # None, name[3], w[3], x[3]) \cup Part(x[4] # None, name[4], w[4], x[4])
  PROVE  /\ (\E i \in Four : x[i] # None) => IsMean(Blend(parts), x, w)
         /\ (\A i \in Four : x[i] = None) => Blend(parts) = None
<1> DEFINE p(i) == [name |-> name[i], weight |-> w[i], value |-> x[i]]
           value == [q \in parts |-> q.weight * q.value]
           weight == [q \in parts |-> q.weight]
<1>1. 1 \in Four /\ 2 \in Four /\ 3 \in Four /\ 4 \in Four
  BY DEF Four
<1>2. /\ p(1) # p(2) /\ p(1) # p(3) /\ p(1) # p(4) /\ p(2) # p(3) /\ p(2) # p(4) /\ p(3) # p(4)
  <2>1. \A i \in Four : p(i).name = name[i]
    OBVIOUS
  <2>2. QED
    BY <1>1, <2>1
<1>3. \A i \in Four : Part(x[i] # None, name[i], w[i], x[i]) = IF x[i] # None THEN {p(i)} ELSE {}
  BY DEF Part
<1>4. \A i \in Four : p(i).weight = w[i] /\ p(i).value = x[i]
  OBVIOUS
<1> HIDE DEF p
<1>5. /\ parts \in SUBSET {p(1), p(2), p(3), p(4)}
      /\ p(1) \in parts <=> x[1] # None
      /\ p(2) \in parts <=> x[2] # None
      /\ p(3) \in parts <=> x[3] # None
      /\ p(4) \in parts <=> x[4] # None
  <2>1. parts = (IF x[1] # None THEN {p(1)} ELSE {}) \cup (IF x[2] # None THEN {p(2)} ELSE {})
                  \cup (IF x[3] # None THEN {p(3)} ELSE {}) \cup (IF x[4] # None THEN {p(4)} ELSE {})
    BY <1>1, <1>3
  <2>2. QED
    BY <1>2, <2>1
<1>6. \A q \in parts : q.weight \in Nat \ {0} /\ q.value \in Int
  <2>1. \A i \in Four : x[i] # None => p(i).weight \in Nat \ {0} /\ p(i).value \in Int
    BY <1>4 DEF Measure
  <2>2. QED
    BY <1>1, <1>5, <2>1
<1>7. \A q \in parts : value[q] \in Int /\ weight[q] \in Int
  BY <1>6
<1>8. SumFunction(value) = SumFunctionOnSet(value, parts) /\ SumFunction(weight) = SumFunctionOnSet(weight, parts)
  BY DEF SumFunction
<1>9. /\ x[1] # None => value[p(1)] = w[1] * x[1] /\ weight[p(1)] = w[1]
      /\ x[2] # None => value[p(2)] = w[2] * x[2] /\ weight[p(2)] = w[2]
      /\ x[3] # None => value[p(3)] = w[3] * x[3] /\ weight[p(3)] = w[3]
      /\ x[4] # None => value[p(4)] = w[4] * x[4] /\ weight[p(4)] = w[4]
  BY <1>1, <1>4, <1>5
<1>10. Blend(parts) = IF parts = {} THEN None ELSE SumFunction(value) \div SumFunction(weight)
  BY DEF Blend
<1> HIDE DEF value, weight
<1>11. SumFunction(value) =
         (IF x[1] # None THEN w[1] * x[1] ELSE 0) + (IF x[2] # None THEN w[2] * x[2] ELSE 0)
           + (IF x[3] # None THEN w[3] * x[3] ELSE 0) + (IF x[4] # None THEN w[4] * x[4] ELSE 0)
  <2>1. SumFunctionOnSet(value, parts) =
          Term(value, parts, p(1)) + Term(value, parts, p(2))
            + Term(value, parts, p(3)) + Term(value, parts, p(4))
    <3>1. \A q \in parts : value[q] \in Int
      BY <1>7
    <3>2. QED
      BY <1>2, <1>5, <3>1, SumOfFour
  <2>2. QED
    BY <1>5, <1>8, <1>9, <2>1 DEF Term
<1>12. SumFunction(weight) =
         (IF x[1] # None THEN w[1] ELSE 0) + (IF x[2] # None THEN w[2] ELSE 0)
           + (IF x[3] # None THEN w[3] ELSE 0) + (IF x[4] # None THEN w[4] ELSE 0)
  <2>1. SumFunctionOnSet(weight, parts) =
          Term(weight, parts, p(1)) + Term(weight, parts, p(2))
            + Term(weight, parts, p(3)) + Term(weight, parts, p(4))
    <3>1. \A q \in parts : weight[q] \in Int
      BY <1>7
    <3>2. QED
      BY <1>2, <1>5, <3>1, SumOfFour
  <2>2. QED
    BY <1>5, <1>8, <1>9, <2>1 DEF Term
<1>13. ASSUME \E i \in Four : x[i] # None PROVE IsMean(Blend(parts), x, w)
  <2>1. x[1] # None \/ x[2] # None \/ x[3] # None \/ x[4] # None
    BY <1>13 DEF Four
  <2>2. parts # {}
    BY <1>5, <2>1
  <2>3. SumFunction(weight) \in Nat \ {0}
    <3>1. w[1] \in Nat \ {0} /\ w[2] \in Nat \ {0} /\ w[3] \in Nat \ {0} /\ w[4] \in Nat \ {0}
      BY <1>1
    <3>2. \A i \in {1, 2, 3, 4} : (IF x[i] # None THEN w[i] ELSE 0) \in Nat
                                  /\ (x[i] # None => (IF x[i] # None THEN w[i] ELSE 0) > 0)
      BY <3>1
    <3> DEFINE W(i) == IF x[i] # None THEN w[i] ELSE 0
    <3>3. SumFunction(weight) = W(1) + W(2) + W(3) + W(4)
      BY <1>12
    <3>4. \A i \in {1, 2, 3, 4} : W(i) \in Nat /\ (x[i] # None => W(i) > 0)
      BY <3>2
    <3> HIDE DEF W
    <3>5. QED
      BY <2>1, <3>3, <3>4
  <2>4. w \in [Four -> Nat]
    OBVIOUS
  <2>5. QED
    BY <1>10, <1>11, <1>12, <2>2, <2>3, <2>4, QuotientIsMean
<1>14. ASSUME \A i \in Four : x[i] = None PROVE Blend(parts) = None
  <2>1. parts = {}
    BY <1>1, <1>5, <1>14
  <2>2. QED
    BY <1>10, <2>1
<1>15. QED
  BY <1>13, <1>14

\* A mean speaks as well as before when its components do.
LEMMA MeanAsGood ==
  ASSUME NEW q, NEW r, Values(q) \subseteq Int, Values(r) \subseteq Int,
         NEW x \in [Four -> Measure], NEW y \in [Four -> Measure], NEW w \in [Four -> Nat \ {0}],
         \A i \in Four : AsGood(q, x[i], r, y[i]),
         NEW u, (\E i \in Four : x[i] # None) => IsMean(u, x, w) /\ u \in Values(q),
                (\A i \in Four : x[i] = None) => u = None,
         NEW v, (\E i \in Four : y[i] # None) => IsMean(v, y, w) /\ v \in Values(r),
                (\A i \in Four : y[i] = None) => v = None
  PROVE  AsGood(q, u, r, v)
<1>1. w \in [Four -> Nat] /\ \A i \in Four : w[i] # 0
  OBVIOUS
<1>2. None \notin Int
  BY CorroborationAssumption
<1>3. CASE (\A i \in Four : x[i] = None) /\ (\A i \in Four : y[i] = None)
  BY <1>3 DEF AsGood
<1>4. CASE (\A i \in Four : x[i] = None) /\ (\E i \in Four : y[i] # None)
  <2>1. u = None /\ IsMean(v, y, w) /\ v # None
    BY <1>2, <1>4 DEF IsMean
  <2>2. ASSUME NEW m \in Values(q) PROVE v >= m
    <3>1. \A i \in Four : y[i] # None => y[i] >= m
      BY <1>4 DEF AsGood
    <3>2. QED
      BY <1>1, <2>1, <3>1, MeanAbove
  <2>3. QED
    BY <2>1, <2>2 DEF AsGood
<1>5. CASE (\E i \in Four : x[i] # None) /\ (\A i \in Four : y[i] = None)
  <2>1. v = None /\ IsMean(u, x, w) /\ u # None
    BY <1>2, <1>5 DEF IsMean
  <2>2. ASSUME NEW m \in Values(r) PROVE u <= m
    <3>1. \A i \in Four : x[i] # None => x[i] <= m
      BY <1>5 DEF AsGood
    <3>2. QED
      BY <1>1, <1>5, <2>1, <3>1, MeanBelow
  <2>3. QED
    BY <2>1, <2>2 DEF AsGood
<1>6. CASE (\E i \in Four : x[i] # None) /\ (\E i \in Four : y[i] # None)
  <2>1. /\ IsMean(u, x, w) /\ u \in Values(q) /\ u # None
        /\ IsMean(v, y, w) /\ v \in Values(r) /\ v # None
    BY <1>2, <1>6 DEF IsMean
  <2>2. ASSUME NEW i \in Four
        PROVE  /\ x[i] # None /\ y[i] # None => x[i] <= y[i]
               /\ x[i] = None /\ y[i] # None => u <= y[i]
               /\ x[i] # None /\ y[i] = None => x[i] <= v
    <3>1. AsGood(q, x[i], r, y[i]) /\ y[i] \in Measure /\ u \in Int
      BY <2>1 DEF IsMean
    <3>2. QED
      BY <2>1, <3>1 DEF AsGood, Measure
  <2>3. u <= v
    BY <1>1, <2>1, <2>2, MeanFollows
  <2>4. QED
    BY <2>1, <2>3 DEF AsGood
<1>7. QED
  BY <1>3, <1>4, <1>5, <1>6

---------------------------------------------------------------------------
(***************************************************************************)
(* The score.                                                              *)
(***************************************************************************)
\* The readings, field by field.
LEMMA ReadingFields ==
  ASSUME NEW r, IsReadings(r)
  PROVE  /\ r.funding \in Count /\ r.slope \in Measure
         /\ r.density \in Count /\ r.classDensity \in Count
         /\ r.cites \in Count /\ r.corporate \in Count
         /\ r.pull \in Count /\ r.regulation \in BOOLEAN /\ r.aligned \subseteq Categories
<1>1. /\ FieldType.funding = Count /\ FieldType.slope = Measure
      /\ FieldType.density = Count /\ FieldType.classDensity = Count
      /\ FieldType.cites = Count /\ FieldType.corporate = Count
      /\ FieldType.pull = Count /\ FieldType.regulation = BOOLEAN
      /\ FieldType.aligned = SUBSET Categories
  BY DEF FieldType, Measure
<1>2. DOMAIN FieldType = {"funding", "slope", "density", "classDensity", "cites", "corporate",
                          "pull", "regulation", "aligned"}
  BY DEF FieldType
<1>3. \A x \in {"funding", "slope", "density", "classDensity", "cites", "corporate",
                "pull", "regulation", "aligned"} : r[x] \in FieldType[x]
  BY <1>2 DEF IsReadings
<1>4. QED
  BY <1>1, <1>3

\* What a reading counts for is a number.
LEMMA ShareType ==
  ASSUME NEW value \in Int, NEW reference \in Nat \ {0}
  PROVE  Share(value, reference) \in Int
<1>1. Unit \in Nat
  BY ScoringAssumption
<1>2. value * Unit \in Int
  BY <1>1
<1>3. (value * Unit) \div reference \in Int
  BY <1>2
<1>4. QED
  BY <1>1, <1>3 DEF Share

\* So is what any reading, or the legal status, counts for.
LEMMA CountsAreNumbers ==
  ASSUME NEW r, IsReadings(r), NEW legal
  PROVE  /\ r.pull # None => Share(r.pull, PullReference) \in Int
         /\ r.funding # None => Share(r.funding, FundingReference) \in Int
         /\ r.slope # None => Share(r.slope, SlopeReference) \in Int
         /\ r.cites # None => Saturating(EffectiveCitations(r)) \in Int
         /\ Density(r) # None => Unit - Share(Density(r), NeighbourCrowded) \in Int
         /\ LegalShare(legal) \in Int /\ Unit \in Int
<1>1. /\ r.funding \in Count /\ r.slope \in Measure /\ Density(r) \in Count
      /\ r.cites \in Count /\ r.corporate \in Count /\ r.pull \in Count
  BY ReadingFields DEF Density
<1>2. /\ PullReference \in Nat \ {0} /\ SlopeReference \in Nat \ {0} /\ CitationSaturation \in Nat \ {0}
      /\ NeighbourCrowded \in Nat \ {0} /\ FundingReference \in Nat \ {0} /\ Unit \in Nat
  BY ScoringAssumption
<1>3. \A n \in Count : n # None => n \in Int /\ n \in Nat
  BY DEF Count
<1>4. r.pull # None => Share(r.pull, PullReference) \in Int
  BY <1>1, <1>2, <1>3, ShareType
<1>5. r.funding # None => Share(r.funding, FundingReference) \in Int
  BY <1>1, <1>2, <1>3, ShareType
<1>6. r.slope # None => Share(r.slope, SlopeReference) \in Int
  BY <1>1, <1>2, ShareType DEF Measure
<1>7. Density(r) # None => Unit - Share(Density(r), NeighbourCrowded) \in Int
  <2>1. Density(r) # None => Share(Density(r), NeighbourCrowded) \in Int
    BY <1>1, <1>2, <1>3, ShareType
  <2>2. QED
    BY <1>2, <2>1
<1>8. ASSUME r.cites # None PROVE Saturating(EffectiveCitations(r)) \in Int
  <2>1. EffectiveCitations(r) \in Nat
    BY <1>1, <1>3, <1>8 DEF EffectiveCitations
  <2>2. EffectiveCitations(r) * Unit \in Int /\ EffectiveCitations(r) + CitationSaturation \in Nat \ {0}
    BY <1>2, <2>1
  <2>3. QED
    BY <2>2, QuotientAtLeast DEF Saturating
<1>9. LegalShare(legal) \in Int
  <2>1. Unit \div 2 \in Int
    BY <1>2
  <2>2. QED
    BY <1>2, <2>1 DEF LegalShare
<1>10. QED
  BY <1>2, <1>4, <1>5, <1>6, <1>7, <1>8, <1>9

\* The components of market_pull and ip_defensibility, None for those that are absent.
PullParts(r) ==
    <<IF r.pull # None THEN Share(r.pull, PullReference) ELSE None,
      FundingCounts(r), SlopeCounts(r), IF Aligned(r) THEN Unit ELSE None>>
IpParts(r, legal) ==
    <<CitesCount(r), DensityCounts(r), IF legal # None THEN LegalShare(legal) ELSE None, None>>

PullWeights == <<4, 4, 3, 2>>
IpWeights   == <<4, 4, 2, 1>>

\* They are measures.
LEMMA PartsAreMeasures ==
  ASSUME NEW r, IsReadings(r), NEW legal
  PROVE  PullParts(r) \in [Four -> Measure] /\ IpParts(r, legal) \in [Four -> Measure]
<1>1. /\ (IF r.pull # None THEN Share(r.pull, PullReference) ELSE None) \in Measure
      /\ FundingCounts(r) \in Measure /\ SlopeCounts(r) \in Measure
      /\ (IF Aligned(r) THEN Unit ELSE None) \in Measure
  BY CountsAreNumbers DEF Measure, FundingCounts, SlopeCounts
<1>2. /\ CitesCount(r) \in Measure /\ DensityCounts(r) \in Measure
      /\ (IF legal # None THEN LegalShare(legal) ELSE None) \in Measure /\ None \in Measure
  BY CountsAreNumbers DEF Measure, CitesCount, DensityCounts
<1>3. QED
  BY <1>1, <1>2 DEF PullParts, IpParts, Four

\* market_pull is the mean of its components,
LEMMA MarketPullIsMean ==
  ASSUME NEW r, IsReadings(r)
  PROVE  /\ (\E i \in Four : PullParts(r)[i] # None) => IsMean(MarketPull(r), PullParts(r), PullWeights)
         /\ (\A i \in Four : PullParts(r)[i] = None) => MarketPull(r) = None
<1>1. PullWeights \in [Four -> Nat \ {0}]
  BY DEF PullWeights, Four
<1> DEFINE x == PullParts(r)  name == <<"pull", "funding", "slope", "aligned">>
<1>2. /\ x[1] = (IF r.pull # None THEN Share(r.pull, PullReference) ELSE None)
      /\ x[2] = FundingCounts(r) /\ x[3] = SlopeCounts(r)
      /\ x[4] = (IF Aligned(r) THEN Unit ELSE None)
  BY DEF PullParts
<1>3. /\ r.pull # None <=> x[1] # None
      /\ r.funding # None <=> x[2] # None
      /\ r.slope # None <=> x[3] # None
      /\ Aligned(r) <=> x[4] # None
  BY <1>2, CountsAreNumbers, CorroborationAssumption DEF FundingCounts, SlopeCounts
<1>4. /\ Part(r.pull # None, "pull", 4, Share(r.pull, PullReference))
           = Part(x[1] # None, name[1], PullWeights[1], x[1])
      /\ Part(r.funding # None, "funding", 4, Share(r.funding, FundingReference))
           = Part(x[2] # None, name[2], PullWeights[2], x[2])
      /\ Part(r.slope # None, "slope", 3, Share(r.slope, SlopeReference))
           = Part(x[3] # None, name[3], PullWeights[3], x[3])
      /\ Part(Aligned(r), "aligned", 2, Unit) = Part(x[4] # None, name[4], PullWeights[4], x[4])
  BY <1>2, <1>3 DEF Part, PullWeights, FundingCounts, SlopeCounts
<1>5. \A i, j \in Four : i # j => name[i] # name[j]
  BY DEF Four
<1>6. x \in [Four -> Measure]
  BY PartsAreMeasures
<1>7. MarketPull(r) =
        Blend(Part(x[1] # None, name[1], PullWeights[1], x[1])
              \cup Part(x[2] # None, name[2], PullWeights[2], x[2])
              \cup Part(x[3] # None, name[3], PullWeights[3], x[3])
              \cup Part(x[4] # None, name[4], PullWeights[4], x[4]))
  BY <1>4 DEF MarketPull
<1> HIDE DEF x, name
<1>8. QED
  BY <1>1, <1>5, <1>6, <1>7, BlendIsMean DEF x

\* and so is ip_defensibility.
LEMMA IpIsMean ==
  ASSUME NEW r, IsReadings(r), NEW legal
  PROVE  /\ (\E i \in Four : IpParts(r, legal)[i] # None)
               => IsMean(IpDefensibility(r, legal), IpParts(r, legal), IpWeights)
         /\ (\A i \in Four : IpParts(r, legal)[i] = None) => IpDefensibility(r, legal) = None
<1>1. IpWeights \in [Four -> Nat \ {0}]
  BY DEF IpWeights, Four
<1> DEFINE x == IpParts(r, legal)  name == <<"cites", "density", "legal", "none">>
<1>2. /\ x[1] = CitesCount(r) /\ x[2] = DensityCounts(r)
      /\ x[3] = (IF legal # None THEN LegalShare(legal) ELSE None) /\ x[4] = None
  BY DEF IpParts
<1>3. /\ r.cites # None <=> x[1] # None
      /\ Density(r) # None <=> x[2] # None
      /\ legal # None <=> x[3] # None
  BY <1>2, CountsAreNumbers, CorroborationAssumption DEF CitesCount, DensityCounts
<1>4. /\ Part(r.cites # None, "cites", 4, Saturating(EffectiveCitations(r)))
           = Part(x[1] # None, name[1], IpWeights[1], x[1])
      /\ Part(Density(r) # None, "density", 4, Unit - Share(Density(r), NeighbourCrowded))
           = Part(x[2] # None, name[2], IpWeights[2], x[2])
      /\ Part(legal # None, "legal", 2, LegalShare(legal))
           = Part(x[3] # None, name[3], IpWeights[3], x[3])
      /\ Part(x[4] # None, name[4], IpWeights[4], x[4]) = {}
  BY <1>2, <1>3 DEF Part, IpWeights, CitesCount, DensityCounts
<1>5. \A i, j \in Four : i # j => name[i] # name[j]
  BY DEF Four
<1>6. x \in [Four -> Measure]
  BY PartsAreMeasures
<1>7. IpDefensibility(r, legal) =
        Blend(Part(x[1] # None, name[1], IpWeights[1], x[1])
              \cup Part(x[2] # None, name[2], IpWeights[2], x[2])
              \cup Part(x[3] # None, name[3], IpWeights[3], x[3])
              \cup Part(x[4] # None, name[4], IpWeights[4], x[4]))
  BY <1>4 DEF IpDefensibility
<1> HIDE DEF x, name
<1>8. QED
  BY <1>1, <1>5, <1>6, <1>7, BlendIsMean DEF x

\* The dimensions that can be scored at all, and what they weigh.
Scorable == <<"technology_maturity", "market_pull", "ip_defensibility", "regulatory_pathway">>
DimensionWeights == [i \in Four |-> Weights[Scorable[i]]]
DimensionParts(r, legal) ==
    <<TechnologyMaturity(legal), MarketPull(r), IpDefensibility(r, legal), RegulatoryPathway(r)>>

\* Every dimension is a number or cannot be scored.
LEMMA DimensionTypes ==
  ASSUME NEW r, IsReadings(r), NEW legal
  PROVE  /\ DimensionParts(r, legal) \in [Four -> Measure]
         /\ \A i \in Four : DimensionValue(r, legal)[Scorable[i]] = DimensionParts(r, legal)[i]
         /\ DimensionValue(r, legal).capital_intensity = None
         /\ DimensionValue(r, legal).team_availability = None
<1>1. MarketPull(r) \in Measure
  BY MarketPullIsMean DEF IsMean, Measure
<1>2. IpDefensibility(r, legal) \in Measure
  BY IpIsMean DEF IsMean, Measure
<1>3. TechnologyMaturity(legal) \in Measure
  BY CountsAreNumbers DEF TechnologyMaturity, Measure
<1>4. RegulatoryPathway(r) \in Measure
  <2>1. (8 * Unit) \div 10 \in Int /\ (6 * Unit) \div 10 \in Int /\ Unit \div 2 \in Int
    BY ScoringAssumption
  <2>2. QED
    BY <2>1 DEF RegulatoryPathway, Measure
<1>5. DimensionParts(r, legal) \in [Four -> Measure]
  BY <1>1, <1>2, <1>3, <1>4 DEF DimensionParts, Four
<1>6. ASSUME NEW i \in Four
      PROVE  DimensionValue(r, legal)[Scorable[i]] = DimensionParts(r, legal)[i]
  BY DEF DimensionValue, Scorable, DimensionParts, Four
<1>7. /\ DimensionValue(r, legal).capital_intensity = None
      /\ DimensionValue(r, legal).team_availability = None
  BY DEF DimensionValue
<1>8. QED
  BY <1>5, <1>6, <1>7

\* What the dimensions come to.
LEMMA ValuesAreParts ==
  ASSUME NEW r, IsReadings(r)
  PROVE  /\ Values(r) \subseteq Int
         /\ \A i \in Four : DimensionParts(r, asset.legal)[i] # None
                              => DimensionParts(r, asset.legal)[i] \in Values(r)
         /\ MarketPull(r) # None => MarketPull(r) \in Values(r)
         /\ IpDefensibility(r, asset.legal) # None => IpDefensibility(r, asset.legal) \in Values(r)
<1> DEFINE value == DimensionValue(r, asset.legal)
           x == DimensionParts(r, asset.legal)
<1>1. /\ x \in [Four -> Measure]
      /\ \A i \in Four : value[Scorable[i]] = x[i]
      /\ value.capital_intensity = None /\ value.team_availability = None
  BY DimensionTypes
<1>2. x[2] = MarketPull(r) /\ x[3] = IpDefensibility(r, asset.legal)
  BY DEF DimensionParts
<1>3. /\ Dimensions = {Scorable[i] : i \in Four} \cup {"capital_intensity", "team_availability"}
      /\ 2 \in Four /\ 3 \in Four
  BY DEF Dimensions, Scorable, Four
<1>4. Values(r) = {value[d] : d \in Dimensions} \ {None}
  BY DEF Values
<1> HIDE DEF value, x
<1>5. \A d \in Dimensions : value[d] \in Measure
  BY <1>1, <1>3 DEF Measure
<1>6. \A i \in Four : x[i] # None => x[i] \in Values(r)
  BY <1>1, <1>3, <1>4
<1>7. Values(r) \subseteq Int
  BY <1>4, <1>5 DEF Measure
<1>8. QED
  BY <1>2, <1>3, <1>6, <1>7 DEF x

\* score_ventureability gives the mean of the dimensions that can be scored.
LEMMA VentureIsMean ==
  ASSUME NEW r, IsReadings(r), NEW legal, Venture(r, legal).value # None
  PROVE  /\ IsMean(Venture(r, legal).value, DimensionParts(r, legal), DimensionWeights)
         /\ \E i \in Four : DimensionParts(r, legal)[i] # None /\ DimensionWeights[i] # 0
<1> DEFINE value   == DimensionValue(r, legal)
           scored  == {d \in Dimensions : value[d] # None}
           covered == SumFunctionOnSet(Weights, scored)
           weighed == [d \in scored |-> Weights[d] * value[d]]
           x == DimensionParts(r, legal)
           w == DimensionWeights
<1>1. Venture(r, legal).value = IF covered <= 0 THEN None ELSE SumFunction(weighed) \div covered
  BY DEF Venture
<1>2. /\ x \in [Four -> Measure]
      /\ \A i \in Four : value[Scorable[i]] = x[i]
      /\ value.capital_intensity = None /\ value.team_availability = None
  BY DimensionTypes
<1>3. w \in [Four -> Nat] /\ \A i \in Four : w[i] = Weights[Scorable[i]]
  BY ScoringAssumption DEF DimensionWeights, Dimensions, Scorable, Four
<1>4. SumFunction(weighed) = SumFunctionOnSet(weighed, scored)
  BY DEF SumFunction
<1>5. 1 \in Four /\ 2 \in Four /\ 3 \in Four /\ 4 \in Four
  BY DEF Four
<1> DEFINE a == Scorable[1]  b == Scorable[2]  c == Scorable[3]  d == Scorable[4]
<1>6. a # b /\ a # c /\ a # d /\ b # c /\ b # d /\ c # d
  BY DEF Scorable
<1>7. Dimensions = {a, b, c, d, "capital_intensity", "team_availability"}
  BY DEF Dimensions, Scorable
<1>8. \A e \in scored : e \in Dimensions /\ value[e] # None /\ weighed[e] = Weights[e] * value[e]
  OBVIOUS
<1>9. \A e \in Dimensions : value[e] # None => e \in scored
  OBVIOUS
<1> HIDE DEF value, scored, weighed, x, w, a, b, c, d
<1>10. /\ scored \in SUBSET {a, b, c, d}
       /\ a \in scored <=> x[1] # None
       /\ b \in scored <=> x[2] # None
       /\ c \in scored <=> x[3] # None
       /\ d \in scored <=> x[4] # None
  <2>1. value[a] = x[1] /\ value[b] = x[2] /\ value[c] = x[3] /\ value[d] = x[4]
    BY <1>2, <1>5 DEF a, b, c, d
  <2>2. QED
    BY <1>2, <1>7, <1>8, <1>9, <2>1
<1>11. /\ Weights[a] = w[1] /\ Weights[b] = w[2] /\ Weights[c] = w[3] /\ Weights[d] = w[4]
       /\ value[a] = x[1] /\ value[b] = x[2] /\ value[c] = x[3] /\ value[d] = x[4]
  BY <1>2, <1>3, <1>5 DEF a, b, c, d
<1>12. \A e \in scored : Weights[e] \in Int /\ weighed[e] \in Int
  <2>1. \A e \in scored : Weights[e] \in Nat
    BY <1>8, ScoringAssumption
  <2>2. \A e \in scored : value[e] \in Int
    <3>1. x[1] \in Measure /\ x[2] \in Measure /\ x[3] \in Measure /\ x[4] \in Measure
      BY <1>2, <1>5
    <3>2. QED
      BY <1>10, <1>11, <3>1 DEF Measure
  <2>3. QED
    BY <1>8, <2>1, <2>2
<1>13. covered = (IF x[1] # None THEN w[1] ELSE 0) + (IF x[2] # None THEN w[2] ELSE 0)
                   + (IF x[3] # None THEN w[3] ELSE 0) + (IF x[4] # None THEN w[4] ELSE 0)
  <2>1. covered = Term(Weights, scored, a) + Term(Weights, scored, b)
                    + Term(Weights, scored, c) + Term(Weights, scored, d)
    <3>1. \A e \in scored : Weights[e] \in Int
      BY <1>12
    <3>2. QED
      BY <1>6, <1>10, <3>1, SumOfFour
  <2>2. QED
    BY <1>10, <1>11, <2>1 DEF Term
<1>14. SumFunction(weighed) =
         (IF x[1] # None THEN w[1] * x[1] ELSE 0) + (IF x[2] # None THEN w[2] * x[2] ELSE 0)
           + (IF x[3] # None THEN w[3] * x[3] ELSE 0) + (IF x[4] # None THEN w[4] * x[4] ELSE 0)
  <2>1. SumFunctionOnSet(weighed, scored) =
          Term(weighed, scored, a) + Term(weighed, scored, b)
            + Term(weighed, scored, c) + Term(weighed, scored, d)
    <3>1. \A e \in scored : weighed[e] \in Int
      BY <1>12
    <3>2. QED
      BY <1>6, <1>10, <3>1, SumOfFour
  <2>2. QED
    BY <1>4, <1>8, <1>10, <1>11, <2>1 DEF Term
<1> HIDE DEF covered
<1>15. covered \in Nat \ {0} /\ \E i \in Four : x[i] # None /\ w[i] # 0
  <2>1. ~ (covered <= 0)
    BY <1>1
  <2>2. w[1] \in Nat /\ w[2] \in Nat /\ w[3] \in Nat /\ w[4] \in Nat
    BY <1>3, <1>5
  <2>3. QED
    BY <1>5, <1>13, <2>1, <2>2
<1>16. IsMean(SumFunction(weighed) \div covered, x, w)
  BY <1>2, <1>3, <1>13, <1>14, <1>15, QuotientIsMean
<1>17. QED
  BY <1>1, <1>15, <1>16 DEF x, w

\* Readings that differ in what S1 or S2 measured.
SameRest(q, r) == q.pull = r.pull /\ q.aligned = r.aligned /\ q.regulation = r.regulation

\* A signal that has not changed speaks as well as before.
LEMMA SameIsAsGood ==
  ASSUME NEW q, NEW r, NEW x \in Measure
  PROVE  AsGood(q, x, r, x)
BY DEF AsGood, Measure

\* When the measurements speak as well, so does each dimension.
LEMMA DimensionsFollow ==
  ASSUME NEW q, NEW r, IsReadings(q), IsReadings(r), SameRest(q, r), SpeaksAsWell(q, r)
  PROVE  \A i \in Four : AsGood(q, DimensionParts(q, asset.legal)[i], r, DimensionParts(r, asset.legal)[i])
<1> DEFINE legal == asset.legal
<1>1. Values(q) \subseteq Int /\ Values(r) \subseteq Int
  BY ValuesAreParts
<1>2. PullParts(q) \in [Four -> Measure] /\ PullParts(r) \in [Four -> Measure]
  BY PartsAreMeasures
<1>3. IpParts(q, legal) \in [Four -> Measure] /\ IpParts(r, legal) \in [Four -> Measure]
  BY PartsAreMeasures
<1>4. AsGood(q, MarketPull(q), r, MarketPull(r))
  <2>1. /\ PullParts(q)[1] = PullParts(r)[1] /\ PullParts(q)[4] = PullParts(r)[4]
        /\ PullParts(q)[2] = FundingCounts(q) /\ PullParts(r)[2] = FundingCounts(r)
        /\ PullParts(q)[3] = SlopeCounts(q) /\ PullParts(r)[3] = SlopeCounts(r)
    BY DEF PullParts, SameRest, Aligned
  <2>2. \A i \in Four : AsGood(q, PullParts(q)[i], r, PullParts(r)[i])
    <3>1. PullParts(q)[1] \in Measure /\ PullParts(q)[4] \in Measure
      BY <1>2 DEF Four
    <3>2. AsGood(q, PullParts(q)[1], r, PullParts(r)[1]) /\ AsGood(q, PullParts(q)[4], r, PullParts(r)[4])
      BY <2>1, <3>1, SameIsAsGood
    <3>3. AsGood(q, PullParts(q)[2], r, PullParts(r)[2]) /\ AsGood(q, PullParts(q)[3], r, PullParts(r)[3])
      BY <2>1 DEF SpeaksAsWell
    <3>4. QED
      BY <3>2, <3>3 DEF Four
  <2>3. PullWeights \in [Four -> Nat \ {0}]
    BY DEF PullWeights, Four
  <2>4. /\ (\E i \in Four : PullParts(q)[i] # None)
             => IsMean(MarketPull(q), PullParts(q), PullWeights) /\ MarketPull(q) \in Values(q)
        /\ (\E i \in Four : PullParts(r)[i] # None)
             => IsMean(MarketPull(r), PullParts(r), PullWeights) /\ MarketPull(r) \in Values(r)
    BY MarketPullIsMean, ValuesAreParts, CorroborationAssumption DEF IsMean
  <2>5. /\ (\A i \in Four : PullParts(q)[i] = None) => MarketPull(q) = None
        /\ (\A i \in Four : PullParts(r)[i] = None) => MarketPull(r) = None
    BY MarketPullIsMean
  <2>6. QED
    BY <1>1, <1>2, <2>2, <2>3, <2>4, <2>5, MeanAsGood
<1>5. AsGood(q, IpDefensibility(q, legal), r, IpDefensibility(r, legal))
  <2>1. /\ IpParts(q, legal)[3] = IpParts(r, legal)[3] /\ IpParts(q, legal)[4] = IpParts(r, legal)[4]
        /\ IpParts(q, legal)[1] = CitesCount(q) /\ IpParts(r, legal)[1] = CitesCount(r)
        /\ IpParts(q, legal)[2] = DensityCounts(q) /\ IpParts(r, legal)[2] = DensityCounts(r)
    BY DEF IpParts
  <2>2. \A i \in Four : AsGood(q, IpParts(q, legal)[i], r, IpParts(r, legal)[i])
    <3>1. IpParts(q, legal)[3] \in Measure /\ IpParts(q, legal)[4] \in Measure
      BY <1>3 DEF Four
    <3>2. /\ AsGood(q, IpParts(q, legal)[3], r, IpParts(r, legal)[3])
          /\ AsGood(q, IpParts(q, legal)[4], r, IpParts(r, legal)[4])
      BY <2>1, <3>1, SameIsAsGood
    <3>3. /\ AsGood(q, IpParts(q, legal)[1], r, IpParts(r, legal)[1])
          /\ AsGood(q, IpParts(q, legal)[2], r, IpParts(r, legal)[2])
      BY <2>1 DEF SpeaksAsWell
    <3>4. QED
      BY <3>2, <3>3 DEF Four
  <2>3. IpWeights \in [Four -> Nat \ {0}]
    BY DEF IpWeights, Four
  <2>4. /\ (\E i \in Four : IpParts(q, legal)[i] # None)
             => /\ IsMean(IpDefensibility(q, legal), IpParts(q, legal), IpWeights)
                /\ IpDefensibility(q, legal) \in Values(q)
        /\ (\E i \in Four : IpParts(r, legal)[i] # None)
             => /\ IsMean(IpDefensibility(r, legal), IpParts(r, legal), IpWeights)
                /\ IpDefensibility(r, legal) \in Values(r)
    BY IpIsMean, ValuesAreParts, CorroborationAssumption DEF IsMean
  <2>5. /\ (\A i \in Four : IpParts(q, legal)[i] = None) => IpDefensibility(q, legal) = None
        /\ (\A i \in Four : IpParts(r, legal)[i] = None) => IpDefensibility(r, legal) = None
    BY IpIsMean
  <2>6. QED
    BY <1>1, <1>3, <2>2, <2>3, <2>4, <2>5, MeanAsGood
<1>6. TechnologyMaturity(legal) \in Measure /\ RegulatoryPathway(q) \in Measure
  <2>1. DimensionParts(q, legal) \in [Four -> Measure]
    BY DimensionTypes
  <2>2. DimensionParts(q, legal)[1] = TechnologyMaturity(legal) /\ DimensionParts(q, legal)[4] = RegulatoryPathway(q)
    BY DEF DimensionParts
  <2>3. QED
    BY <2>1, <2>2 DEF Four
<1>7. RegulatoryPathway(q) = RegulatoryPathway(r)
  BY DEF SameRest, RegulatoryPathway
<1>8. /\ AsGood(q, TechnologyMaturity(legal), r, TechnologyMaturity(legal))
      /\ AsGood(q, RegulatoryPathway(q), r, RegulatoryPathway(r))
  BY <1>6, <1>7, SameIsAsGood
<1>9. QED
  BY <1>4, <1>5, <1>8 DEF DimensionParts, Four

\* And so does the score.
LEMMA ScoreFollows ==
  ASSUME NEW q, NEW r, IsReadings(q), IsReadings(r), SameRest(q, r), SpeaksAsWell(q, r),
         Venture(q, asset.legal).value # None, Venture(r, asset.legal).value # None
  PROVE  Venture(q, asset.legal).value <= Venture(r, asset.legal).value
<1> DEFINE x == DimensionParts(q, asset.legal)  y == DimensionParts(r, asset.legal)
           w == DimensionWeights
           u == Venture(q, asset.legal).value  v == Venture(r, asset.legal).value
<1>1. x \in [Four -> Measure] /\ y \in [Four -> Measure]
  BY DimensionTypes
<1>2. w \in [Four -> Nat]
  BY ScoringAssumption DEF DimensionWeights, Dimensions, Scorable, Four
<1>3. IsMean(u, x, w) /\ \E i \in Four : x[i] # None /\ w[i] # 0
  BY VentureIsMean
<1>4. IsMean(v, y, w)
  BY VentureIsMean
<1>5. /\ \A i \in Four : x[i] # None => x[i] \in Values(q)
      /\ \A i \in Four : y[i] # None => y[i] \in Values(r)
  BY ValuesAreParts
<1>6. \A i \in Four : AsGood(q, x[i], r, y[i])
  BY DimensionsFollow
<1> HIDE DEF x, y, w, u, v
<1>7. ASSUME NEW i \in Four
      PROVE  /\ x[i] # None /\ y[i] # None => x[i] <= y[i]
             /\ x[i] = None /\ y[i] # None => u <= y[i]
             /\ x[i] # None /\ y[i] = None => x[i] <= v
  <2>1. x[i] \in Measure /\ y[i] \in Measure /\ AsGood(q, x[i], r, y[i])
    BY <1>1, <1>6
  <2>2. CASE x[i] # None /\ y[i] # None
    BY <2>1, <2>2 DEF AsGood
  <2>3. CASE x[i] = None /\ y[i] # None
    <3>1. y[i] \in Int /\ \A j \in Four : x[j] # None => x[j] <= y[i]
      <4>1. \A m \in Values(q) : y[i] >= m
        BY <2>1, <2>3 DEF AsGood
      <4>2. QED
        BY <1>1, <1>5, <2>1, <2>3, <4>1 DEF Measure
    <3>2. u <= y[i]
      BY <1>1, <1>2, <1>3, <3>1, MeanBelow
    <3>3. QED
      BY <2>3, <3>2
  <2>4. CASE x[i] # None /\ y[i] = None
    <3>1. x[i] \in Int /\ \A j \in Four : y[j] # None => y[j] >= x[i]
      <4>1. \A m \in Values(r) : x[i] <= m
        BY <2>1, <2>4 DEF AsGood
      <4>2. QED
        BY <1>1, <1>5, <2>1, <2>4, <4>1 DEF Measure
    <3>2. v >= x[i]
      BY <1>1, <1>2, <1>4, <3>1, MeanAbove
    <3>3. v \in Int
      BY <1>4 DEF IsMean
    <3>4. QED
      BY <2>4, <3>1, <3>2, <3>3
  <2>5. QED
    BY <2>1, <2>2, <2>3, <2>4
<1>8. u <= v
  BY <1>1, <1>2, <1>3, <1>4, <1>7, MeanFollows
<1>9. QED
  BY <1>8 DEF u, v

\* The readings with another answer of S1 or S2 are readings.
LEMMA VariantFacts ==
  ASSUME IsReadings(readings), NEW q \in Variants
  PROVE  IsReadings(q) /\ SameRest(q, readings)
<1>1. PICK s \in {"S1", "S2"} : \E answer \in Answers[s] \cup {NoReadings} :
        q = [x \in DOMAIN readings |-> IF x \in SignalsOf[s] THEN answer[x] ELSE readings[x]]
  BY DEF Variants
<1>2. PICK answer \in Answers[s] \cup {NoReadings} :
        q = [x \in DOMAIN readings |-> IF x \in SignalsOf[s] THEN answer[x] ELSE readings[x]]
  BY <1>1
<1>3. DOMAIN readings = DOMAIN FieldType /\ \A x \in DOMAIN FieldType : readings[x] \in FieldType[x]
  BY DEF IsReadings
<1>4. DOMAIN FieldType = {"funding", "slope", "density", "classDensity", "cites", "corporate",
                          "pull", "regulation", "aligned"}
  BY DEF FieldType
<1>5. s \in Streams /\ SignalsOf[s] \subseteq DOMAIN FieldType
      /\ SignalsOf[s] \cap {"pull", "regulation", "aligned"} = {}
  BY <1>4 DEF Streams, SignalsOf
<1>6. \A x \in SignalsOf[s] : answer[x] \in FieldType[x]
  <2>1. CASE answer \in Answers[s]
    BY <1>5, <2>1, AssessmentAssumption
  <2>2. CASE answer = NoReadings
    BY <1>5, <2>2, NothingRead DEF IsReadings
  <2>3. QED
    BY <2>1, <2>2
<1>7. IsReadings(q)
  BY <1>2, <1>3, <1>6 DEF IsReadings
<1>8. \A x \in {"pull", "regulation", "aligned"} : q[x] = readings[x]
  BY <1>2, <1>3, <1>4, <1>5
<1>9. QED
  BY <1>7, <1>8 DEF SameRest

\* "Honesty over completeness" (scoring.py): for any weights, references and
\* answers, with every rounding, better measurements never score less, and an
\* absent one is left out and is no zero.
THEOREM ScoresFollowReadings == AssessSpec => []ScoreFollowsReadings
<1>1. AssessTypeOK => ScoreFollowsReadings
  BY VariantFacts, ScoreFollows DEF AssessTypeOK, ScoreFollowsReadings
<1>2. QED
  BY <1>1, AssessTypes, PTL

============================================================================
