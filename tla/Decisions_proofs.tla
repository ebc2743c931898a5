--------------------------- MODULE Decisions_proofs ---------------------------
(***************************************************************************)
(* What holds of the committee's records, the dashboard and the            *)
(* recalibration for any assets, members, scores, thresholds and bounds.   *)
(***************************************************************************)
EXTENDS Decisions, FiniteSetTheorems, WellFoundedInduction, TLAPS

Snapshot    == Score \cup {None}
DecisionRow == [id : 1 .. MaxDecisions, asset : Assets, snapshot : Snapshot, at : Times]
OutcomeRow  == [id : 1 .. MaxOutcomes, asset : Assets, outcome : Outcome, at : Times]

\* No row is of the future and no two rows share an id.
Dated(rows) ==
    /\ \A r \in rows : r.at <= now
    /\ \A r, s \in rows : r.id = s.id => r = s

TablesOK ==
    /\ now \in Times
    /\ assets \subseteq Assets
    /\ score \in [Assets -> Snapshot]
    /\ decisions \subseteq DecisionRow /\ Dated(decisions)
    /\ outcomes \subseteq OutcomeRow /\ Dated(outcomes)

MembersOK ==
    /\ member \in [Members -> [pc : {"idle", "get_score", "decide", "outcome"},
                               asset : Assets \cup {None}, snapshot : Snapshot]]
    /\ \A m \in Members : member[m].pc # "idle" => member[m].asset \in Assets

DecisionPerAsset == [Assets -> DecisionRow \cup {None}]
OutcomePerAsset  == [Assets -> OutcomeRow \cup {None}]

ReaderOK ==
    /\ reader \in [pc : {"idle", "log", "decisions", "outcomes", "scores"},
                   since : Times, assets : SUBSET Assets,
                   decided : DecisionPerAsset \cup {None},
                   realised : OutcomePerAsset \cup {None}]
    /\ reader.pc \in {"log", "outcomes", "scores"} => reader.decided \in DecisionPerAsset
    /\ reader.pc = "scores" => reader.realised \in OutcomePerAsset

DecisionsTypeOK == TablesOK /\ MembersOK /\ ReaderOK

\* The record of the asset with the latest timestamp.
IsLast(rows, a, r) ==
    /\ r \in OfAsset(rows, a)
    /\ \A s \in OfAsset(rows, a) \ {r} : r.at > s.at

\* Unless two records of an asset share a timestamp, what was committed last is the
\* record with the latest one.
StandingOf(a) ==
    /\ IF OfAsset(decisions, a) = {} THEN standing[a].decision = None
       ELSE \E r : IsLast(decisions, a, r) /\ standing[a].decision = [snapshot |-> r.snapshot]
    /\ IF OfAsset(outcomes, a) = {} THEN standing[a].outcome = None
       ELSE \E r : IsLast(outcomes, a, r)
                   /\ standing[a].outcome = [outcome |-> r.outcome, at |-> r.at]

StandingOK == standing \in [Assets -> [decision : [snapshot : Snapshot] \cup {None},
                                       outcome : [outcome : Outcome, at : Times] \cup {None}]]

StandingIsLast == ~ tied => \A a \in Assets : StandingOf(a)

\* What an undisturbed reader has read is still what the tables hold.
ReadIsCurrent ==
    quiet =>
      /\ reader.pc \in {"decisions", "outcomes", "scores"} => reader.assets = assets
      /\ reader.pc \in {"log", "outcomes", "scores"} => reader.decided = LatestPerAsset(decisions)
      /\ reader.pc = "scores" => reader.realised = LatestPerAsset(outcomes)

\* A decision somebody's dashboard has read is still on record, unless its asset is gone;
\* and no asset that is stored is unknown to the dashboard.
ReadIsOnRecord ==
    /\ reader.pc \in {"decisions", "outcomes", "scores"} => assets \subseteq reader.assets
    /\ reader.pc \in {"outcomes", "scores"} =>
         \A a \in assets : reader.decided[a] # None => reader.decided[a] \in OfAsset(decisions, a)

\* The row in the log is that of some tally, whose sums are natural numbers.
LogIsOfATally ==
    log # None =>
      \E t \in [good : Nat, sumGood : Nat, bad : Nat, sumBad : Nat] :
         log = [tally |-> t, verdict |-> VerdictOf(t), cutoff |-> Cutoff(t)]

---------------------------------------------------------------------------
(***************************************************************************)
(* Types, one lemma per variable group.                                    *)
(***************************************************************************)
LEMMA TablesStep ==
  ASSUME DecisionsTypeOK, [Next]_vars
  PROVE  TablesOK'
<1> USE DecisionsAssumption
<1> USE DEF DecisionsTypeOK
<1>1. ASSUME NEW a \in Assets, SaveScore(a)
      PROVE  TablesOK'
  BY <1>1 DEF SaveScore, TablesOK, Snapshot, Dated
<1>2. ASSUME NEW a \in Assets, DeleteAsset(a)
      PROVE  TablesOK'
  <2>1. /\ now' = now
        /\ assets' \subseteq assets
        /\ decisions' \subseteq decisions /\ outcomes' \subseteq outcomes
    BY <1>2 DEF DeleteAsset
  <2>2. score' \in [Assets -> Snapshot]
    BY <1>2 DEF DeleteAsset, TablesOK, Snapshot
  <2>3. QED
    BY <2>1, <2>2 DEF TablesOK, Dated
<1>3. ASSUME NEW m \in Members, NEW at \in now .. MaxTime, RecordDecision(m, at)
      PROVE  TablesOK'
  <2>1. PICK n \in Free(decisions, MaxDecisions) :
          decisions' = decisions \cup {Decision(n, member[m].asset, member[m].snapshot, at)}
    BY <1>3 DEF RecordDecision
  <2>2. at \in Times /\ \A t \in Times : t <= now => t <= at
    BY DEF TablesOK, Times
  <2> DEFINE d == Decision(n, member[m].asset, member[m].snapshot, at)
  <2>3. d \in DecisionRow
    BY <1>3, <2>2 DEF RecordDecision, MembersOK, TablesOK, Decision, DecisionRow, Free
  <2>4. d.id = n /\ d.at = at /\ \A r \in decisions : r.id # n
    BY DEF Decision, Free
  <2> HIDE DEF d
  <2>5. now' = at /\ UNCHANGED <<assets, score, outcomes>>
    BY <1>3 DEF RecordDecision
  <2>6. decisions' \subseteq DecisionRow
    BY <2>1, <2>3 DEF TablesOK, d
  <2>7. \A r \in decisions' : r.at <= now'
    BY <2>1, <2>2, <2>4, <2>5 DEF TablesOK, Dated, DecisionRow, Times, d
  <2>8. \A r, s \in decisions' : r.id = s.id => r = s
    BY <2>1, <2>4 DEF TablesOK, Dated, d
  <2>9. \A r \in outcomes' : r.at <= now'
    BY <2>2, <2>5 DEF TablesOK, Dated, OutcomeRow
  <2>10. QED
    BY <2>2, <2>5, <2>6, <2>7, <2>8, <2>9 DEF TablesOK, Dated
<1>4. ASSUME NEW m \in Members, NEW at \in now .. MaxTime, RecordOutcome(m, at)
      PROVE  TablesOK'
  <2>1. PICK n \in Free(outcomes, MaxOutcomes), o \in Outcome :
          outcomes' = outcomes \cup {RealisedOutcome(n, member[m].asset, o, at)}
    BY <1>4 DEF RecordOutcome
  <2>2. at \in Times /\ \A t \in Times : t <= now => t <= at
    BY DEF TablesOK, Times
  <2> DEFINE d == RealisedOutcome(n, member[m].asset, o, at)
  <2>3. d \in OutcomeRow
    BY <1>4, <2>2 DEF RecordOutcome, MembersOK, TablesOK, RealisedOutcome, OutcomeRow, Free
  <2>4. d.id = n /\ d.at = at /\ \A r \in outcomes : r.id # n
    BY DEF RealisedOutcome, Free
  <2> HIDE DEF d
  <2>5. now' = at /\ UNCHANGED <<assets, score, decisions>>
    BY <1>4 DEF RecordOutcome
  <2>6. outcomes' \subseteq OutcomeRow
    BY <2>1, <2>3 DEF TablesOK, d
  <2>7. \A r \in outcomes' : r.at <= now'
    BY <2>1, <2>2, <2>4, <2>5 DEF TablesOK, Dated, OutcomeRow, Times, d
  <2>8. \A r, s \in outcomes' : r.id = s.id => r = s
    BY <2>1, <2>4 DEF TablesOK, Dated, d
  <2>9. \A r \in decisions' : r.at <= now'
    BY <2>2, <2>5 DEF TablesOK, Dated, DecisionRow
  <2>10. QED
    BY <2>2, <2>5, <2>6, <2>7, <2>8, <2>9 DEF TablesOK, Dated
<1>5. ASSUME UNCHANGED <<tables, now>>
      PROVE  TablesOK'
  BY <1>5 DEF TablesOK, tables, Dated
<1>6. QED
  BY <1>1, <1>2, <1>3, <1>4, <1>5
  DEF Next, BeginDecide, BeginOutcome, GetScore, CommandDecide, RecordRefused, ReadDecisions,
      ReadOutcomesAndLog, ReadAssets, ReadLatestDecisions, ReadLatestOutcomes,
      ReadScoresAndSort, vars

\* The requests of the members keep their types.
LEMMA MembersStep ==
  ASSUME DecisionsTypeOK, [Next]_vars
  PROVE  MembersOK'
<1> USE DEF DecisionsTypeOK
<1>1. ASSUME NEW m \in Members, NEW pc \in {"idle", "get_score", "decide", "outcome"},
             NEW a \in Assets \cup {None}, NEW s \in Snapshot, Become(m, pc, a, s),
             pc # "idle" => a \in Assets
      PROVE  MembersOK'
  BY <1>1 DEF MembersOK, Become
<1>2. None \in Snapshot
  BY DEF Snapshot
<1>3. ASSUME NEW m \in Members, NEW a \in Assets, BeginDecide(m, a) \/ BeginOutcome(m, a)
      PROVE  MembersOK'
  BY <1>1, <1>2, <1>3 DEF BeginDecide, BeginOutcome
<1>4. ASSUME NEW m \in Members, GetScore(m) \/ CommandDecide(m) \/ RecordRefused(m)
      PROVE  MembersOK'
  <2>1. member[m].pc = "get_score" => member[m].asset \in Assets /\ score[member[m].asset] \in Snapshot
    BY DEF MembersOK, TablesOK
  <2>2. QED
    BY <1>1, <1>2, <1>4, <2>1 DEF GetScore, CommandDecide, RecordRefused
<1>5. ASSUME NEW m \in Members, NEW at \in now .. MaxTime, RecordDecision(m, at) \/ RecordOutcome(m, at)
      PROVE  MembersOK'
  BY <1>1, <1>2, <1>5 DEF RecordDecision, RecordOutcome
<1>6. ASSUME UNCHANGED member
      PROVE  MembersOK'
  BY <1>6 DEF MembersOK
<1>7. QED
  BY <1>3, <1>4, <1>5, <1>6
  DEF Next, SaveScore, DeleteAsset, ReadDecisions, ReadOutcomesAndLog, ReadAssets,
      ReadLatestDecisions, ReadLatestOutcomes, ReadScoresAndSort, vars

---------------------------------------------------------------------------
(***************************************************************************)
(* Least and greatest numbers.                                             *)
(***************************************************************************)
\* A set of natural numbers has a least element, and a bounded one a greatest.
LEMMA Least ==
  ASSUME NEW T \in SUBSET Nat, T # {}
  PROVE  \E x \in T : \A y \in T : x <= y
<1> DEFINE R == OpToRel(<, Nat)
<1>1. \E x \in T : \A y \in T : ~ (<<y, x>> \in R)
  BY NatLessThanWellFounded, WFMin
<1>2. \A x, y \in Nat : ~ (<<y, x>> \in R) => x <= y
  BY DEF OpToRel
<1>3. QED
  BY <1>1, <1>2

\* A bounded set of natural numbers has a greatest element.
LEMMA Greatest ==
  ASSUME NEW most \in Nat, NEW T \in SUBSET (0 .. most), T # {}
  PROVE  \E x \in T : \A y \in T : y <= x
<1> DEFINE U == {most - x : x \in T}
<1>1. U \in SUBSET Nat /\ U # {}
  <2>1. \A x \in T : most - x \in Nat
    OBVIOUS
  <2>2. QED
    BY <2>1
<1>2. PICK u \in U : \A v \in U : u <= v
  BY <1>1, Least
<1>3. PICK x \in T : u = most - x
  OBVIOUS
<1>4. \A y \in T : most - x <= most - y
  BY <1>2, <1>3
<1>5. QED
  BY <1>4

---------------------------------------------------------------------------
(***************************************************************************)
(* Sums.  SumFunctionOnSet is defined by a recursive function on the       *)
(* subsets; that this function exists, and what it yields, is proved by    *)
(* minimal counterexample.                                                 *)
(***************************************************************************)
Picked(s) == CHOOSE x \in s : TRUE

\* g adds the values of f over each of the given sets of elements.
Adds(g, f, sets) ==
    g = [s \in sets |-> IF s = {} THEN 0 ELSE f[Picked(s)] + g[s \ {Picked(s)}]]

\* The community module's sum is the value of such a function, if there is one.
LEMMA SumIsAdder ==
  ASSUME NEW f, NEW S
  PROVE  SumFunctionOnSet(f, S) = (CHOOSE g : Adds(g, f, SUBSET S))[S]
BY DEF SumFunctionOnSet, FoldFunctionOnSet, MapThenFoldSet, Adds, Picked

\* There is one for the subsets of a finite set.
LEMMA AdderExists ==
  ASSUME NEW S, IsFiniteSet(S), NEW f
  PROVE  \E g : Adds(g, f, SUBSET S)
<1> DEFINE Small(n) == {s \in SUBSET S : Cardinality(s) <= n}
           Lacking == {n \in Nat : ~ \E g : Adds(g, f, Small(n))}
<1>1. \A s \in SUBSET S : IsFiniteSet(s) /\ Cardinality(s) \in Nat
  BY FS_Subset, FS_CardinalityType
<1>2. \A s \in SUBSET S : s # {} => Picked(s) \in s /\ s \ {Picked(s)} \in SUBSET S
  BY DEF Picked
<1>3. \A s \in SUBSET S : s # {} => Cardinality(s \ {Picked(s)}) = Cardinality(s) - 1
  BY <1>1, <1>2, FS_RemoveElement
<1>4. \A s \in SUBSET S : Cardinality(s) = 0 <=> s = {}
  BY <1>1, FS_EmptySet
<1>5. 0 \notin Lacking
  <2>1. Small(0) = {{}}
    BY <1>1, <1>4
  <2>2. Adds([s \in {{}} |-> 0], f, {{}})
    BY DEF Adds
  <2>3. QED
    BY <2>1, <2>2
<1>6. \A n \in Nat : n \notin Lacking => n + 1 \notin Lacking
  <2> SUFFICES ASSUME NEW n \in Nat, NEW g, Adds(g, f, Small(n))
               PROVE  \E h : Adds(h, f, Small(n + 1))
    OBVIOUS
  <2> DEFINE h == [s \in Small(n + 1) |-> IF s = {} THEN 0 ELSE f[Picked(s)] + g[s \ {Picked(s)}]]
  <2>1. \A s \in Small(n) : s \in Small(n + 1) /\ h[s] = g[s]
    <3>1. Small(n) \subseteq Small(n + 1)
      BY <1>1
    <3> HIDE DEF Small
    <3>2. \A s \in Small(n) : g[s] = IF s = {} THEN 0 ELSE f[Picked(s)] + g[s \ {Picked(s)}]
      BY DEF Adds
    <3>3. QED
      BY <3>1, <3>2
  <2>2. \A s \in Small(n + 1) : s # {} => s \ {Picked(s)} \in Small(n)
    BY <1>1, <1>2, <1>3
  <2>3. \A s \in Small(n + 1) : h[s] = IF s = {} THEN 0 ELSE f[Picked(s)] + g[s \ {Picked(s)}]
    OBVIOUS
  <2> HIDE DEF Small
  <2>4. h = [s \in Small(n + 1) |-> h[s]]
    OBVIOUS
  <2> HIDE DEF h
  <2>5. \A s \in Small(n + 1) : h[s] = IF s = {} THEN 0 ELSE f[Picked(s)] + h[s \ {Picked(s)}]
    BY <2>1, <2>2, <2>3
  <2>6. QED
    BY <2>4, <2>5 DEF Adds
<1>7. Lacking = {}
  <2> SUFFICES ASSUME Lacking # {} PROVE FALSE
    OBVIOUS
  <2>1. PICK n \in Lacking : \A m \in Lacking : n <= m
    BY Least
  <2>0. Lacking \subseteq Nat
    OBVIOUS
  <2> HIDE DEF Lacking
  <2>2. n # 0 /\ n \in Nat
    BY <1>5, <2>0
  <2>3. n - 1 \in Nat /\ n - 1 \notin Lacking
    BY <2>1, <2>2
  <2>4. QED
    BY <1>6, <2>1, <2>2, <2>3
<1>8. Small(Cardinality(S)) = SUBSET S
  BY <1>1, FS_Subset
<1>9. QED
  BY <1>1, <1>7, <1>8

\* The sum over a finite set is that of one of its elements and the rest.
LEMMA SumUnfolds ==
  ASSUME NEW S, IsFiniteSet(S), NEW f
  PROVE  \E g : SumFunctionOnSet(f, S) = g[S] /\ Adds(g, f, SUBSET S)
<1> DEFINE g == CHOOSE h : Adds(h, f, SUBSET S)
<1>1. Adds(g, f, SUBSET S)
  BY AdderExists
<1>2. SumFunctionOnSet(f, S) = g[S]
  BY SumIsAdder
<1> HIDE DEF g
<1>3. QED
  BY <1>1, <1>2

\* A sum of natural numbers is one.
LEMMA SumOfNaturals ==
  ASSUME NEW S, IsFiniteSet(S), NEW f, \A x \in S : f[x] \in Nat
  PROVE  SumFunctionOnSet(f, S) \in Nat
<1>1. PICK g : SumFunctionOnSet(f, S) = g[S] /\ Adds(g, f, SUBSET S)
  BY SumUnfolds
<1> DEFINE Bad == {s \in SUBSET S : g[s] \notin Nat}
<1>2. Bad \subseteq FiniteSubsetsOf(S)
  BY FS_Subset DEF FiniteSubsetsOf
<1>3. ASSUME Bad # {} PROVE FALSE
  <2>1. PICK s \in Bad : \A t \in Bad : ~ (<<t, s>> \in StrictSubsetOrdering(S))
    BY <1>2, <1>3, FS_StrictSubsetOrderingWellFounded, WFMin
  <2>2. \A t \in Bad : t \subseteq s => t = s
    BY <2>1 DEF StrictSubsetOrdering
  <2>3. g[s] = IF s = {} THEN 0 ELSE f[Picked(s)] + g[s \ {Picked(s)}]
    BY <1>1 DEF Adds
  <2>4. s # {}
    BY <2>3
  <2>5. Picked(s) \in s /\ s \in SUBSET S
    BY <2>4 DEF Picked
  <2>6. s \ {Picked(s)} \notin Bad
    BY <2>2, <2>5
  <2>7. g[s \ {Picked(s)}] \in Nat /\ f[Picked(s)] \in Nat
    BY <2>5, <2>6
  <2>8. QED
    BY <2>3, <2>4, <2>7
<1>4. QED
  BY <1>1, <1>3
---------------------------------------------------------------------------
(***************************************************************************)
(* The latest record.                                                      *)
(***************************************************************************)
\* Records of bounded times and ids that are theirs alone have a newest one among
\* those of an asset, and LatestOf finds it.
LEMMA LatestIsNewest ==
  ASSUME NEW most \in Nat, NEW rows, NEW a,
         \A r \in rows : r.at \in Times /\ r.id \in 1 .. most,
         \A r, s \in rows : r.id = s.id => r = s,
         OfAsset(rows, a) # {}
  PROVE  /\ LatestOf(rows, a) \in OfAsset(rows, a)
         /\ \A s \in OfAsset(rows, a) \ {LatestOf(rows, a)} : Newer(LatestOf(rows, a), s)
<1> DEFINE mine == OfAsset(rows, a)
<1>1. mine \subseteq rows
  BY DEF OfAsset
<1>2. PICK last \in {r.at : r \in mine} : \A t \in {r.at : r \in mine} : t <= last
  <2>1. {r.at : r \in mine} # {}
    OBVIOUS
  <2>2. {r.at : r \in mine} \subseteq 0 .. MaxTime /\ MaxTime \in Nat
    BY <1>1, DecisionsAssumption DEF Times
  <2>3. QED
    BY <2>1, <2>2, Greatest
<1> DEFINE latest == {r \in mine : r.at = last}
<1>3. PICK n \in {r.id : r \in latest} : \A i \in {r.id : r \in latest} : i <= n
  <2>1. {r.id : r \in latest} # {}
    BY <1>2
  <2>2. {r.id : r \in latest} \subseteq 0 .. most
    BY <1>1
  <2>3. QED
    BY <2>1, <2>2, Greatest
<1>4. PICK r \in latest : r.id = n
  BY <1>3
<1>5. \A s \in mine \ {r} : Newer(r, s)
  <2> SUFFICES ASSUME NEW s \in mine \ {r} PROVE Newer(r, s)
    OBVIOUS
  <2>1. s.at <= r.at /\ s.at \in Nat /\ r.at \in Nat
    BY <1>1, <1>2, <1>4, DecisionsAssumption DEF Times
  <2>2. r.id # s.id /\ r.id \in Nat /\ s.id \in Nat
    BY <1>1, <1>4
  <2>3. s.at = r.at => s.id <= r.id
    BY <1>3, <1>4
  <2>4. QED
    BY <2>1, <2>2, <2>3 DEF Newer
<1>6. LatestOf(rows, a) = CHOOSE x \in mine : \A s \in mine \ {x} : Newer(x, s)
  BY DEF LatestOf
<1>7. r \in mine
  OBVIOUS
<1> HIDE DEF mine, latest
<1>8. QED
  BY <1>5, <1>6, <1>7 DEF mine

\* The asset whose records do not tie: the one with the latest timestamp.
LEMMA LatestIsLast ==
  ASSUME NEW most \in Nat, NEW rows, NEW a, NEW r,
         \A s \in rows : s.at \in Times /\ s.id \in 1 .. most,
         \A s, t \in rows : s.id = t.id => s = t,
         IsLast(rows, a, r)
  PROVE  LatestOf(rows, a) = r
<1>1. /\ LatestOf(rows, a) \in OfAsset(rows, a)
      /\ \A s \in OfAsset(rows, a) \ {LatestOf(rows, a)} : Newer(LatestOf(rows, a), s)
  BY LatestIsNewest DEF IsLast
<1>2. OfAsset(rows, a) \subseteq rows
  BY DEF OfAsset
<1>3. SUFFICES ASSUME LatestOf(rows, a) # r PROVE FALSE
  OBVIOUS
<1>4. Newer(LatestOf(rows, a), r) /\ r.at > LatestOf(rows, a).at
  BY <1>1, <1>3 DEF IsLast
<1>5. r.at \in Nat /\ LatestOf(rows, a).at \in Nat
  BY <1>1, <1>2, DecisionsAssumption DEF IsLast, Times
<1>6. QED
  BY <1>4, <1>5 DEF Newer

\* The query for the latest record of each asset yields a record of it, or none.
LEMMA LatestTypes ==
  ASSUME TablesOK
  PROVE  /\ LatestPerAsset(decisions) \in DecisionPerAsset
         /\ LatestPerAsset(outcomes) \in OutcomePerAsset
<1>1. ASSUME NEW a \in Assets PROVE LatestOf(decisions, a) \in DecisionRow \cup {None}
  <2>1. CASE OfAsset(decisions, a) = {}
    BY <2>1 DEF LatestOf
  <2>2. CASE OfAsset(decisions, a) # {}
    <3>1. \A r \in decisions : r.at \in Times /\ r.id \in 1 .. MaxDecisions
      BY DEF TablesOK, DecisionRow
    <3>2. LatestOf(decisions, a) \in OfAsset(decisions, a)
      BY <2>2, <3>1, LatestIsNewest, DecisionsAssumption DEF TablesOK, Dated
    <3>3. QED
      BY <3>2 DEF TablesOK, OfAsset
  <2>3. QED
    BY <2>1, <2>2
<1>2. ASSUME NEW a \in Assets PROVE LatestOf(outcomes, a) \in OutcomeRow \cup {None}
  <2>1. CASE OfAsset(outcomes, a) = {}
    BY <2>1 DEF LatestOf
  <2>2. CASE OfAsset(outcomes, a) # {}
    <3>1. \A r \in outcomes : r.at \in Times /\ r.id \in 1 .. MaxOutcomes
      BY DEF TablesOK, OutcomeRow
    <3>2. LatestOf(outcomes, a) \in OfAsset(outcomes, a)
      BY <2>2, <3>1, LatestIsNewest, DecisionsAssumption DEF TablesOK, Dated
    <3>3. QED
      BY <3>2 DEF TablesOK, OfAsset
  <2>3. QED
    BY <2>1, <2>2
<1>3. QED
  BY <1>1, <1>2 DEF LatestPerAsset, DecisionPerAsset, OutcomePerAsset

---------------------------------------------------------------------------
\* The reader keeps its types.
LEMMA ReaderStep ==
  ASSUME DecisionsTypeOK, [Next]_vars
  PROVE  ReaderOK'
<1>1. CASE \E since \in Times : ReadDecisions(since)
  BY <1>1, LatestTypes DEF ReadDecisions, ReaderOK, DecisionsTypeOK
<1>2. CASE ReadOutcomesAndLog \/ ReadScoresAndSort
  BY <1>2, DecisionsAssumption DEF ReadOutcomesAndLog, ReadScoresAndSort, ReaderOK, Idle, Times
<1>3. CASE ReadAssets
  BY <1>3 DEF ReadAssets, ReaderOK, TablesOK, DecisionsTypeOK
<1>4. CASE ReadLatestDecisions
  BY <1>4, LatestTypes DEF ReadLatestDecisions, ReaderOK, DecisionsTypeOK
<1>5. CASE ReadLatestOutcomes
  BY <1>5, LatestTypes DEF ReadLatestOutcomes, ReaderOK, DecisionsTypeOK
<1>6. CASE UNCHANGED reader
  BY <1>6 DEF ReaderOK, DecisionsTypeOK
<1>7. QED
  BY <1>1, <1>2, <1>3, <1>4, <1>5, <1>6
  DEF Next, SaveScore, DeleteAsset, BeginDecide, BeginOutcome, GetScore, CommandDecide,
      RecordDecision, RecordOutcome, RecordRefused, vars, readers

\* Everything is of its type at first.
LEMMA TypesAtStart == Init => DecisionsTypeOK /\ StandingOK
<1>1. Init => TablesOK
  BY DecisionsAssumption DEF Init, TablesOK, Dated, Times, Snapshot, Score
<1>2. Init => MembersOK
  BY DEF Init, MembersOK, Snapshot
<1>3. Init => ReaderOK
  BY DecisionsAssumption DEF Init, ReaderOK, Idle, Times
<1>4. Init => StandingOK
  BY DEF Init, StandingOK
<1>5. QED
  BY <1>1, <1>2, <1>3, <1>4 DEF DecisionsTypeOK

\* What stands of an asset is a decision and an outcome, or none.
LEMMA StandingTypeStep ==
  ASSUME DecisionsTypeOK, StandingOK, [Next]_vars
  PROVE  StandingOK'
<1>1. CASE \E a \in Assets : DeleteAsset(a)
  BY <1>1 DEF DeleteAsset, StandingOK
<1>2. ASSUME NEW m \in Members, NEW at \in now .. MaxTime, RecordDecision(m, at)
      PROVE  StandingOK'
  BY <1>2 DEF RecordDecision, StandingOK, DecisionsTypeOK, MembersOK
<1>3. ASSUME NEW m \in Members, NEW at \in now .. MaxTime, RecordOutcome(m, at)
      PROVE  StandingOK'
  <2>1. at \in Times
    BY DEF DecisionsTypeOK, TablesOK, Times
  <2>2. QED
    BY <1>3, <2>1 DEF RecordOutcome, StandingOK, DecisionsTypeOK, MembersOK
<1>4. CASE UNCHANGED standing
  BY <1>4 DEF StandingOK
<1>5. QED
  BY <1>1, <1>2, <1>3, <1>4
  DEF Next, SaveScore, BeginDecide, BeginOutcome, GetScore, CommandDecide, RecordRefused,
      ReadDecisions, ReadOutcomesAndLog, ReadAssets, ReadLatestDecisions, ReadLatestOutcomes,
      ReadScoresAndSort, vars, history

\* Requests, readers and tables keep their types: no two records of a table share an
\* id and none is of the future, and a reader holds at most one row per asset.
THEOREM DecisionsTypes == Spec => [](DecisionsTypeOK /\ StandingOK)
<1>1. DecisionsTypeOK /\ StandingOK /\ [Next]_vars => (DecisionsTypeOK /\ StandingOK)'
  BY TablesStep, MembersStep, ReaderStep, StandingTypeStep DEF DecisionsTypeOK
<1>2. QED
  BY TypesAtStart, <1>1, PTL DEF Spec

\* No decision, outcome or score outlives its asset (db/models.py cascades), whatever
\* request had found the asset before it was deleted.
THEOREM RecordsStayOfLiveAssets == Spec => []RecordsOfLiveAssets
<1>1. Init => RecordsOfLiveAssets
  BY DEF Init, RecordsOfLiveAssets
<1>2. DecisionsTypeOK /\ RecordsOfLiveAssets /\ [Next]_vars => RecordsOfLiveAssets'
  <2> SUFFICES ASSUME DecisionsTypeOK, RecordsOfLiveAssets, [Next]_vars
               PROVE  RecordsOfLiveAssets'
    OBVIOUS
  <2>1. ASSUME NEW a \in Assets, SaveScore(a)
        PROVE  RecordsOfLiveAssets'
    BY <2>1 DEF SaveScore, RecordsOfLiveAssets, DecisionsTypeOK, TablesOK
  <2>2. ASSUME NEW a \in Assets, DeleteAsset(a)
        PROVE  RecordsOfLiveAssets'
    BY <2>2 DEF DeleteAsset, OfAsset, RecordsOfLiveAssets, DecisionsTypeOK, TablesOK
  <2>3. ASSUME NEW m \in Members, NEW at \in now .. MaxTime,
               RecordDecision(m, at) \/ RecordOutcome(m, at)
        PROVE  RecordsOfLiveAssets'
    <3>1. CASE RecordDecision(m, at)
      <4>1. /\ member[m].asset \in assets /\ UNCHANGED <<assets, score, outcomes>>
            /\ \E n : decisions' =
                 decisions \cup {Decision(n, member[m].asset, member[m].snapshot, at)}
        BY <3>1 DEF RecordDecision
      <4>2. QED
        BY <4>1 DEF Decision, RecordsOfLiveAssets
    <3>2. CASE RecordOutcome(m, at)
      <4>1. /\ member[m].asset \in assets /\ UNCHANGED <<assets, score, decisions>>
            /\ \E n, o : outcomes' = outcomes \cup {RealisedOutcome(n, member[m].asset, o, at)}
        BY <3>2 DEF RecordOutcome
      <4>2. QED
        BY <4>1 DEF RealisedOutcome, RecordsOfLiveAssets
    <3>3. QED
      BY <2>3, <3>1, <3>2
  <2>4. CASE UNCHANGED tables
    BY <2>4 DEF tables, RecordsOfLiveAssets
  <2>5. QED
    BY <2>1, <2>2, <2>3, <2>4
    DEF Next, BeginDecide, BeginOutcome, GetScore, CommandDecide, RecordRefused, ReadDecisions,
        ReadOutcomesAndLog, ReadAssets, ReadLatestDecisions, ReadLatestOutcomes,
        ReadScoresAndSort, vars
<1>3. QED
  BY <1>1, <1>2, DecisionsTypes, PTL DEF Spec

---------------------------------------------------------------------------
(***************************************************************************)
(* What was committed last is the record with the latest timestamp.        *)
(***************************************************************************)
\* A record that is newer than those of its asset and ties with none is its last.
LEMMA AddedIsLast ==
  ASSUME NEW rows, NEW r, \A s \in rows : s.at \in Times /\ s.at <= r.at,
         r.at \in Times, \A s \in OfAsset(rows, r.asset) : s.at # r.at
  PROVE  /\ IsLast(rows \cup {r}, r.asset, r)
         /\ \A a : a # r.asset => OfAsset(rows \cup {r}, a) = OfAsset(rows, a)
<1>1. \A s \in OfAsset(rows, r.asset) : s.at < r.at
  BY DecisionsAssumption DEF OfAsset, Times
<1>2. QED
  BY <1>1 DEF IsLast, OfAsset

\* What stands of an asset is its last record, as long as no timestamps tied.
LEMMA StandingStep ==
  ASSUME DecisionsTypeOK, StandingOK, StandingIsLast, [Next]_vars
  PROVE  StandingIsLast'
<1>1. ASSUME NEW b \in Assets, DeleteAsset(b)
      PROVE  StandingIsLast'
  <2> SUFFICES ASSUME ~ tied, NEW a \in Assets PROVE StandingOf(a)'
    BY <1>1 DEF DeleteAsset, StandingIsLast
  <2>1. StandingOf(a)
    BY DEF StandingIsLast
  <2>2. CASE a = b
    BY <1>1, <2>2 DEF DeleteAsset, StandingOf, StandingOK, OfAsset
  <2>3. CASE a # b
    <3>1. OfAsset(decisions', a) = OfAsset(decisions, a) /\ OfAsset(outcomes', a) = OfAsset(outcomes, a)
      BY <1>1, <2>3 DEF DeleteAsset, OfAsset
    <3>2. standing'[a] = standing[a]
      BY <1>1, <2>3 DEF DeleteAsset, StandingOK
    <3>3. QED
      BY <2>1, <3>1, <3>2 DEF StandingOf, IsLast
  <2>4. QED
    BY <2>2, <2>3
<1>2. ASSUME NEW m \in Members, NEW at \in now .. MaxTime, RecordDecision(m, at)
      PROVE  StandingIsLast'
  <2> DEFINE b == member[m].asset
  <2>1. PICK n \in Free(decisions, MaxDecisions) :
          decisions' = decisions \cup {Decision(n, b, member[m].snapshot, at)}
    BY <1>2 DEF RecordDecision
  <2> DEFINE d == Decision(n, b, member[m].snapshot, at)
  <2>2. d.asset = b /\ d.at = at /\ d.snapshot = member[m].snapshot
    BY DEF Decision
  <2>3. /\ decisions' = decisions \cup {d} /\ outcomes' = outcomes
        /\ standing' = [standing EXCEPT ![b].decision = [snapshot |-> d.snapshot]]
        /\ tied' = (tied \/ \E s \in OfAsset(decisions, b) : s.at = d.at)
    BY <1>2, <2>1, <2>2 DEF RecordDecision
  <2> HIDE DEF d
  <2> SUFFICES ASSUME ~ tied' PROVE \A a \in Assets : StandingOf(a)'
    BY DEF StandingIsLast
  <2>4. \A a \in Assets : StandingOf(a)
    BY <2>3 DEF StandingIsLast
  <2>5. at \in Times /\ \A s \in decisions : s.at \in Times /\ s.at <= at
    BY DEF DecisionsTypeOK, TablesOK, Dated, DecisionRow, Times
  <2>6. /\ IsLast(decisions', b, d)
        /\ \A a : a # b => OfAsset(decisions', a) = OfAsset(decisions, a)
    BY <2>2, <2>3, <2>5, AddedIsLast
  <2>7. ASSUME NEW a \in Assets PROVE StandingOf(a)'
    <3>1. standing'[a].outcome = standing[a].outcome
      BY <2>3 DEF StandingOK
    <3>2. CASE a = b
      <4>1. standing'[a].decision = [snapshot |-> d.snapshot]
        BY <2>3, <3>2 DEF StandingOK
      <4>2. OfAsset(decisions', a) # {}
        BY <2>6, <3>2 DEF IsLast
      <4>3. QED
        BY <2>3, <2>4, <2>6, <3>1, <3>2, <4>1, <4>2 DEF StandingOf
    <3>3. CASE a # b
      <4>1. standing'[a].decision = standing[a].decision
        BY <2>3, <3>3 DEF StandingOK
      <4>2. QED
        BY <2>3, <2>4, <2>6, <3>1, <3>3, <4>1 DEF StandingOf, IsLast
    <3>4. QED
      BY <3>2, <3>3
  <2>8. QED
    BY <2>7
<1>3. ASSUME NEW m \in Members, NEW at \in now .. MaxTime, RecordOutcome(m, at)
      PROVE  StandingIsLast'
  <2> DEFINE b == member[m].asset
  <2>1. PICK n \in Free(outcomes, MaxOutcomes), o \in Outcome :
          /\ outcomes' = outcomes \cup {RealisedOutcome(n, b, o, at)}
          /\ standing' = [standing EXCEPT ![b].outcome = [outcome |-> o, at |-> at]]
    BY <1>3 DEF RecordOutcome
  <2> DEFINE d == RealisedOutcome(n, b, o, at)
  <2>2. d.asset = b /\ d.at = at /\ d.outcome = o
    BY DEF RealisedOutcome
  <2>3. /\ outcomes' = outcomes \cup {d} /\ decisions' = decisions
        /\ standing' = [standing EXCEPT ![b].outcome = [outcome |-> d.outcome, at |-> d.at]]
        /\ tied' = (tied \/ \E s \in OfAsset(outcomes, b) : s.at = d.at)
    BY <1>3, <2>1, <2>2 DEF RecordOutcome
  <2> HIDE DEF d
  <2> SUFFICES ASSUME ~ tied' PROVE \A a \in Assets : StandingOf(a)'
    BY DEF StandingIsLast
  <2>4. \A a \in Assets : StandingOf(a)
    BY <2>3 DEF StandingIsLast
  <2>5. at \in Times /\ \A s \in outcomes : s.at \in Times /\ s.at <= at
    BY DEF DecisionsTypeOK, TablesOK, Dated, OutcomeRow, Times
  <2>6. /\ IsLast(outcomes', b, d)
        /\ \A a : a # b => OfAsset(outcomes', a) = OfAsset(outcomes, a)
    BY <2>2, <2>3, <2>5, AddedIsLast
  <2>7. ASSUME NEW a \in Assets PROVE StandingOf(a)'
    <3>1. standing'[a].decision = standing[a].decision
      BY <2>3 DEF StandingOK
    <3>2. CASE a = b
      <4>1. standing'[a].outcome = [outcome |-> d.outcome, at |-> d.at]
        BY <2>3, <3>2 DEF StandingOK
      <4>2. OfAsset(outcomes', a) # {}
        BY <2>6, <3>2 DEF IsLast
      <4>3. QED
        BY <2>3, <2>4, <2>6, <3>1, <3>2, <4>1, <4>2 DEF StandingOf
    <3>3. CASE a # b
      <4>1. standing'[a].outcome = standing[a].outcome
        BY <2>3, <3>3 DEF StandingOK
      <4>2. QED
        BY <2>3, <2>4, <2>6, <3>1, <3>3, <4>1 DEF StandingOf, IsLast
    <3>4. QED
      BY <3>2, <3>3
  <2>8. QED
    BY <2>7
<1>4. CASE UNCHANGED <<decisions, outcomes, standing, tied>>
  BY <1>4 DEF StandingIsLast, StandingOf, IsLast, OfAsset
<1>5. QED
  BY <1>1, <1>2, <1>3, <1>4
  DEF Next, SaveScore, BeginDecide, BeginOutcome, GetScore, CommandDecide, RecordRefused,
      ReadDecisions, ReadOutcomesAndLog, ReadAssets, ReadLatestDecisions, ReadLatestOutcomes,
      ReadScoresAndSort, vars, tables, history

\* What an undisturbed reader has read is what the tables say.
LEMMA ReadStep ==
  ASSUME DecisionsTypeOK, ReadIsCurrent, [Next]_vars
  PROVE  ReadIsCurrent'
<1>1. CASE quiet' = FALSE
  BY <1>1 DEF ReadIsCurrent
<1>2. CASE \E since \in Times : ReadDecisions(since)
  BY <1>2 DEF ReadDecisions, ReadIsCurrent, LatestPerAsset, LatestOf, tables, ReaderOK, DecisionsTypeOK
<1>3. CASE ReadOutcomesAndLog \/ ReadScoresAndSort
  BY <1>3 DEF ReadOutcomesAndLog, ReadScoresAndSort, ReadIsCurrent, Idle
<1>4. CASE ReadAssets
  BY <1>4 DEF ReadAssets, ReadIsCurrent, tables, ReaderOK, DecisionsTypeOK
<1>5. CASE ReadLatestDecisions
  BY <1>5 DEF ReadLatestDecisions, ReadIsCurrent, LatestPerAsset, tables, history, ReaderOK, DecisionsTypeOK
<1>6. CASE ReadLatestOutcomes
  BY <1>6 DEF ReadLatestOutcomes, ReadIsCurrent, LatestPerAsset, tables, history, ReaderOK, DecisionsTypeOK
<1>7. CASE UNCHANGED <<reader, tables, quiet>>
  BY <1>7 DEF ReadIsCurrent, LatestPerAsset, tables
<1>8. QED
  BY <1>1, <1>2, <1>3, <1>4, <1>5, <1>6, <1>7
  DEF Next, SaveScore, DeleteAsset, BeginDecide, BeginOutcome, GetScore, CommandDecide,
      RecordDecision, RecordOutcome, RecordRefused, Disturbed, vars, readers, history

ReadersInv == DecisionsTypeOK /\ StandingOK /\ StandingIsLast /\ ReadIsCurrent

\* All of this holds of every execution.
LEMMA ReadersInvariant == Spec => []ReadersInv
<1>1. Init => StandingIsLast /\ ReadIsCurrent
  BY DEF Init, StandingIsLast, StandingOf, OfAsset, ReadIsCurrent
<1>2. ReadersInv /\ [Next]_vars => ReadersInv'
  BY TablesStep, MembersStep, ReaderStep, StandingTypeStep, StandingStep, ReadStep
  DEF DecisionsTypeOK, ReadersInv
<1>3. QED
  BY <1>1, <1>2, TypesAtStart, PTL DEF Spec, ReadersInv

---------------------------------------------------------------------------
(***************************************************************************)
(* An undisturbed reader shows what was committed last.                    *)
(***************************************************************************)
SameDecision(x, y) == (x = None <=> y = None) /\ (x # None => x.snapshot = y.snapshot)
SameOutcome(x, y)  == (x = None <=> y = None) /\ (x # None => x.outcome = y.outcome /\ x.at = y.at)

\* The latest record, as the queries choose it, is the one that was committed last.
LEMMA StandingIsRead ==
  ASSUME DecisionsTypeOK, StandingIsLast, ~ tied, NEW a \in Assets
  PROVE  /\ SameDecision(LatestPerAsset(decisions)[a], standing[a].decision)
         /\ SameOutcome(LatestPerAsset(outcomes)[a], standing[a].outcome)
<1>1. StandingOf(a)
  BY DEF StandingIsLast
<1>2. /\ LatestPerAsset(decisions)[a] = LatestOf(decisions, a)
      /\ LatestPerAsset(outcomes)[a] = LatestOf(outcomes, a)
  BY DEF LatestPerAsset
<1>3. SameDecision(LatestOf(decisions, a), standing[a].decision)
  <2>1. CASE OfAsset(decisions, a) = {}
    BY <1>1, <2>1 DEF StandingOf, LatestOf, SameDecision
  <2>2. CASE OfAsset(decisions, a) # {}
    <3>1. PICK r : IsLast(decisions, a, r) /\ standing[a].decision = [snapshot |-> r.snapshot]
      BY <1>1, <2>2 DEF StandingOf
    <3>2. \A d \in decisions : d.at \in Times /\ d.id \in 1 .. MaxDecisions
      BY DEF DecisionsTypeOK, TablesOK, DecisionRow
    <3>3. LatestOf(decisions, a) = r
      BY <3>1, <3>2, LatestIsLast, DecisionsAssumption DEF DecisionsTypeOK, TablesOK, Dated
    <3>4. r \in DecisionRow
      BY <3>1 DEF IsLast, OfAsset, DecisionsTypeOK, TablesOK
    <3>5. r \in [id : Nat, asset : Assets, snapshot : Snapshot, at : Nat]
      BY <3>4, DecisionsAssumption DEF DecisionRow, Times
    <3>6. r # None /\ [snapshot |-> r.snapshot] # None
      BY <3>5, DecisionsAssumption DEF Snapshot, Score
    <3>7. QED
      BY <3>1, <3>3, <3>6 DEF SameDecision
  <2>3. QED
    BY <2>1, <2>2
<1>4. SameOutcome(LatestOf(outcomes, a), standing[a].outcome)
  <2>1. CASE OfAsset(outcomes, a) = {}
    BY <1>1, <2>1 DEF StandingOf, LatestOf, SameOutcome
  <2>2. CASE OfAsset(outcomes, a) # {}
    <3>1. PICK r : IsLast(outcomes, a, r) /\ standing[a].outcome = [outcome |-> r.outcome, at |-> r.at]
      BY <1>1, <2>2 DEF StandingOf
    <3>2. \A o \in outcomes : o.at \in Times /\ o.id \in 1 .. MaxOutcomes
      BY DEF DecisionsTypeOK, TablesOK, OutcomeRow
    <3>3. LatestOf(outcomes, a) = r
      BY <3>1, <3>2, LatestIsLast, DecisionsAssumption DEF DecisionsTypeOK, TablesOK, Dated
    <3>4. r \in OutcomeRow
      BY <3>1 DEF IsLast, OfAsset, DecisionsTypeOK, TablesOK
    <3>5. r \in [id : Nat, asset : Assets, outcome : Outcome, at : Nat]
      BY <3>4, DecisionsAssumption DEF OutcomeRow, Times
    <3>6. r # None /\ [outcome |-> r.outcome, at |-> r.at] # None
      BY <3>5, DecisionsAssumption DEF Outcome
    <3>7. QED
      BY <3>1, <3>3, <3>6 DEF SameOutcome
  <2>3. QED
    BY <2>1, <2>2
<1>5. QED
  BY <1>2, <1>3, <1>4

\* The tally depends on no more of the records than their snapshots, outcomes and times.
LEMMA TallyOfSame ==
  ASSUME NEW d1, NEW d2, NEW r1, NEW r2, NEW since,
         \A a \in Assets : SameDecision(d1[a], d2[a]) /\ SameOutcome(r1[a], r2[a])
  PROVE  Tally(d1, r1, since) = Tally(d2, r2, since)
<1> DEFINE counted(d, r) == {a \in Assets : r[a] # None /\ r[a].at >= since /\ HasScore(d[a])}
           having(d, r, kind) == {a \in counted(d, r) : r[a].outcome \in kind}
<1>1. counted(d1, r1) = counted(d2, r2)
  BY DEF HasScore, SameDecision, SameOutcome
<1>2. ASSUME NEW kind
      PROVE  /\ having(d1, r1, kind) = having(d2, r2, kind)
             /\ Total(having(d1, r1, kind), d1) = Total(having(d1, r1, kind), d2)
  <2>1. having(d1, r1, kind) = having(d2, r2, kind)
    BY <1>1 DEF SameOutcome
  <2>2. \A a \in having(d1, r1, kind) : d1[a].snapshot.value = d2[a].snapshot.value
    BY DEF HasScore, SameDecision
  <2> DEFINE of == having(d1, r1, kind)
  <2> HIDE DEF having, counted
  <2>3. [a \in of |-> d1[a].snapshot.value] = [a \in of |-> d2[a].snapshot.value]
    BY <2>2
  <2>4. QED
    BY <2>1, <2>3 DEF Total
<1>3. ASSUME NEW d, NEW r
      PROVE  Tally(d, r, since) =
               [good |-> Cardinality(having(d, r, GoodOutcomes)),
                sumGood |-> Total(having(d, r, GoodOutcomes), d),
                bad |-> Cardinality(having(d, r, BadOutcomes)),
                sumBad |-> Total(having(d, r, BadOutcomes), d)]
  BY DEF Tally
<1> HIDE DEF having, counted
<1>4. QED
  BY <1>2, <1>3

\* A recalibration during which nobody else commits counts every asset once, by the
\* outcome and the decision committed last (recalibration.py:65-86).
THEOREM QuietRecalibration == Spec => QuietLogIsCurrent
<1>1. ASSUME ReadersInv, [Next]_vars, reader.pc = "log", reader'.pc = "idle", quiet, ~ tied
      PROVE  log'.tally = Tally(Decided, Realised, reader.since)
  <2>1. ReadOutcomesAndLog
    BY <1>1 DEF Next, SaveScore, DeleteAsset, BeginDecide, BeginOutcome, GetScore, CommandDecide,
                RecordDecision, RecordOutcome, RecordRefused, ReadDecisions, ReadAssets,
                ReadLatestDecisions, ReadLatestOutcomes, ReadScoresAndSort, vars, readers
  <2>2. log'.tally = Tally(LatestPerAsset(decisions), LatestPerAsset(outcomes), reader.since)
    BY <1>1, <2>1 DEF ReadOutcomesAndLog, ReadersInv, ReadIsCurrent
  <2>3. \A a \in Assets : /\ SameDecision(LatestPerAsset(decisions)[a], Decided[a])
                           /\ SameOutcome(LatestPerAsset(outcomes)[a], Realised[a])
    BY <1>1, StandingIsRead DEF ReadersInv, Decided, Realised
  <2>4. QED
    BY <2>2, <2>3, TallyOfSame
<1>2. QED
  BY <1>1, ReadersInvariant, PTL DEF Spec, QuietLogIsCurrent

\* The rows of the dashboard are those of its assets, each of them once.
LEMMA RowsAreListed ==
  ASSUME NEW S, IsFiniteSet(S), NEW ranked \in SetToSeqs({DashboardRow(a) : a \in S})
  PROVE  /\ Len(ranked) = Cardinality(S)
         /\ DOMAIN ranked \subseteq Nat
         /\ \A a \in S : \E i \in DOMAIN ranked : ranked[i] = DashboardRow(a)
<1> DEFINE rows == {DashboardRow(a) : a \in S}
           D == 1 .. Cardinality(rows)
<1>1. IsFiniteSet(rows) /\ Cardinality(rows) = Cardinality(S)
  <2> DEFINE f == [a \in S |-> DashboardRow(a)]
  <2>1. \A a \in S : DashboardRow(a).asset = a
    BY DEF DashboardRow
  <2>2. f \in Bijection(S, rows)
    BY <2>1 DEF Bijection, Injection, Surjection, IsInjective
  <2>3. ExistsBijection(S, rows)
    BY <2>2 DEF ExistsBijection
  <2> HIDE DEF rows
  <2>4. QED
    BY <2>3, FS_Bijection
<1>2. \A a \in S : DashboardRow(a) \in rows
  OBVIOUS
<1>3. ranked \in SetToSeqs(rows)
  OBVIOUS
<1> HIDE DEF rows
<1>4. ranked \in [D -> rows] /\ \A i, j \in D : i # j => ranked[i] # ranked[j]
  BY <1>3 DEF SetToSeqs
<1>5. Cardinality(rows) \in Nat
  BY <1>1, FS_CardinalityType
<1>6. Len(ranked) = Cardinality(rows)
  BY <1>4, <1>5
<1>7. ranked \in Surjection(D, rows)
  <2>1. ranked \in Injection(D, rows)
    BY <1>4 DEF Injection, IsInjective
  <2>2. Cardinality(D) = Cardinality(rows)
    BY <1>5, FS_Interval
  <2>3. QED
    BY <1>1, <2>1, <2>2, FS_Injection
<1>8. \A a \in S : \E i \in D : ranked[i] = DashboardRow(a)
  BY <1>2, <1>7 DEF Surjection
<1>9. DOMAIN ranked = D /\ D \subseteq Nat
  BY <1>4, <1>5
<1>10. QED
  BY <1>1, <1>6, <1>8, <1>9

\* The dashboard rendered while nobody else commits lists every asset once, with its
\* live score, the outcome committed last and whether it was reviewed
\* (output/decisions.py:71-110).
THEOREM QuietDashboard == Spec => QuietDashboardIsCurrent
<1> DEFINE Current(a, row) ==
             /\ row.asset = a
             /\ row.decided <=> standing[a].decision # None
             /\ row.outcome = IF standing[a].outcome = None THEN None ELSE standing[a].outcome.outcome
             /\ score[a] # None => row.shown = score[a]
             /\ (score[a] = None /\ row.decided) => row.shown = standing[a].decision.snapshot
<1>1. ASSUME ReadersInv, [Next]_vars, reader.pc = "scores", reader'.pc = "idle", quiet, ~ tied
      PROVE  /\ Len(ranking') = Cardinality(assets)
             /\ \A a \in assets : \E i \in DOMAIN ranking' : Current(a, ranking'[i])
  <2>1. ReadScoresAndSort
    BY <1>1 DEF Next, SaveScore, DeleteAsset, BeginDecide, BeginOutcome, GetScore, CommandDecide,
                RecordDecision, RecordOutcome, RecordRefused, ReadDecisions, ReadAssets,
                ReadLatestDecisions, ReadLatestOutcomes, ReadOutcomesAndLog, vars, readers
  <2>2. reader.assets = assets /\ IsFiniteSet(assets) /\ assets \subseteq Assets
    <3>1. reader.assets = assets /\ assets \subseteq Assets
      BY <1>1 DEF ReadersInv, ReadIsCurrent, DecisionsTypeOK, TablesOK
    <3>2. QED
      BY <3>1, FS_Subset, DecisionsAssumption
  <2>3. ASSUME NEW a \in assets PROVE Current(a, DashboardRow(a))
    <3>1. /\ reader.decided[a] = LatestPerAsset(decisions)[a]
          /\ reader.realised[a] = LatestPerAsset(outcomes)[a]
      BY <1>1 DEF ReadersInv, ReadIsCurrent
    <3>2. /\ SameDecision(reader.decided[a], standing[a].decision)
          /\ SameOutcome(reader.realised[a], standing[a].outcome)
      BY <1>1, <2>2, <3>1, StandingIsRead DEF ReadersInv
    <3>3. QED
      BY <3>2 DEF SameDecision, SameOutcome, DashboardRow, Shown
  <2>4. ranking' \in SetToSeqs({DashboardRow(a) : a \in assets})
    BY <2>1, <2>2 DEF ReadScoresAndSort
  <2> HIDE DEF Current
  <2>5. QED
    BY <2>2, <2>3, <2>4, RowsAreListed
<1>2. QED
  BY <1>1, ReadersInvariant, PTL DEF Spec, QuietDashboardIsCurrent

---------------------------------------------------------------------------
(***************************************************************************)
(* A dashboard that was disturbed.                                         *)
(***************************************************************************)
\* Assets never come back and a decision goes only with its asset, so what a dashboard
\* has read stays on record while its asset is stored.
LEMMA OnRecordStep ==
  ASSUME DecisionsTypeOK, ReadIsOnRecord, [Next]_vars
  PROVE  ReadIsOnRecord'
<1>1. ASSUME NEW a \in Assets, DeleteAsset(a)
      PROVE  ReadIsOnRecord'
  <2>1. /\ assets' = assets \ {a} /\ reader' = reader
        /\ \A b : b # a => OfAsset(decisions', b) = OfAsset(decisions, b)
    BY <1>1 DEF DeleteAsset, OfAsset, readers
  <2>2. QED
    BY <2>1 DEF ReadIsOnRecord
<1>2. ASSUME NEW m \in Members, NEW at \in now .. MaxTime, RecordDecision(m, at)
      PROVE  ReadIsOnRecord'
  <2>1. /\ assets' = assets /\ reader' = reader
        /\ \A a : OfAsset(decisions, a) \subseteq OfAsset(decisions', a)
    BY <1>2 DEF RecordDecision, OfAsset, readers
  <2>2. QED
    BY <2>1 DEF ReadIsOnRecord
<1>3. CASE ReadAssets
  BY <1>3 DEF ReadAssets, ReadIsOnRecord, tables, ReaderOK, DecisionsTypeOK
<1>4. CASE ReadLatestDecisions
  <2>1. ASSUME NEW a \in assets, LatestOf(decisions, a) # None
        PROVE  LatestOf(decisions, a) \in OfAsset(decisions, a)
    <3>1. OfAsset(decisions, a) # {}
      BY <2>1 DEF LatestOf
    <3>2. \A r \in decisions : r.at \in Times /\ r.id \in 1 .. MaxDecisions
      BY DEF DecisionsTypeOK, TablesOK, DecisionRow
    <3>3. QED
      BY <3>1, <3>2, LatestIsNewest, DecisionsAssumption DEF DecisionsTypeOK, TablesOK, Dated
  <2>2. \A a \in assets : LatestPerAsset(decisions)[a] = LatestOf(decisions, a)
    BY DEF LatestPerAsset, DecisionsTypeOK, TablesOK
  <2>3. /\ UNCHANGED <<assets, decisions>>
        /\ reader.pc = "decisions" /\ reader'.pc = "outcomes"
        /\ reader'.assets = reader.assets /\ reader'.decided = LatestPerAsset(decisions)
    BY <1>4 DEF ReadLatestDecisions, tables, ReaderOK, DecisionsTypeOK
  <2>4. QED
    BY <2>1, <2>2, <2>3 DEF ReadIsOnRecord
<1>5. CASE ReadLatestOutcomes
  BY <1>5 DEF ReadLatestOutcomes, ReadIsOnRecord, tables, ReaderOK, DecisionsTypeOK
<1>6. CASE reader'.pc \in {"idle", "log"}
  BY <1>6 DEF ReadIsOnRecord
<1>7. CASE UNCHANGED <<reader, assets, decisions>>
  BY <1>7 DEF ReadIsOnRecord
<1>8. ReadOutcomesAndLog \/ ReadScoresAndSort \/ (\E since \in Times : ReadDecisions(since))
        => reader'.pc \in {"idle", "log"}
  <2>1. reader' = Idle => reader'.pc = "idle"
    BY DEF Idle
  <2>2. ReadOutcomesAndLog \/ ReadScoresAndSort => reader' = Idle
    BY DEF ReadOutcomesAndLog, ReadScoresAndSort
  <2>3. (\E since \in Times : ReadDecisions(since)) => reader'.pc = "log"
    BY DEF ReadDecisions, ReaderOK, DecisionsTypeOK
  <2>4. QED
    BY <2>1, <2>2, <2>3
<1>9. QED
  BY <1>1, <1>2, <1>3, <1>4, <1>5, <1>6, <1>7, <1>8
  DEF Next, SaveScore, BeginDecide, BeginOutcome, GetScore, CommandDecide, RecordOutcome,
      RecordRefused, vars, tables, readers

\* A dashboard shows of a stored asset what is on record of it, or nothing.
LEMMA ShownIsOnRecord ==
  ASSUME ReadIsOnRecord, reader.pc = "scores", NEW a \in assets
  PROVE  Shown(a) \in OnRecord(a) \cup {None}
BY DEF ReadIsOnRecord, Shown, OnRecord

\* An asset whose live value is above everything on record for another stored one is
\* listed before it, whatever is committed while the dashboard reads
\* (output/decisions.py:71-110).
THEOREM DashboardIsRanked == Spec => HigherScoreIsAbove
<1>1. Init => ReadIsOnRecord
  BY DEF Init, Idle, ReadIsOnRecord
<1> DEFINE Above(a, b) == /\ score[a] # None /\ score[a].value # None
                          /\ \A s \in OnRecord(b) : Below(s, score[a].value)
           Listed(a, b) == \E i, j \in DOMAIN ranking' :
                              i < j /\ ranking'[i].asset = a /\ ranking'[j].asset = b
<1>2. ASSUME DecisionsTypeOK, ReadIsOnRecord, [Next]_vars, reader.pc = "scores", reader'.pc = "idle"
      PROVE  \A a, b \in assets : Above(a, b) => Listed(a, b)
  <2> SUFFICES ASSUME NEW a \in assets, NEW b \in assets, Above(a, b)
               PROVE  Listed(a, b)
    OBVIOUS
  <2>1. ReadScoresAndSort
    BY <1>2 DEF Next, SaveScore, DeleteAsset, BeginDecide, BeginOutcome, GetScore, CommandDecide,
                RecordDecision, RecordOutcome, RecordRefused, ReadDecisions, ReadAssets,
                ReadLatestDecisions, ReadLatestOutcomes, ReadOutcomesAndLog, vars, readers
  <2>2. /\ ranking' \in SetToSeqs({DashboardRow(c) : c \in reader.assets})
        /\ \A i, j \in DOMAIN ranking' : i < j => Precedes(ranking'[i], ranking'[j])
    BY <2>1 DEF ReadScoresAndSort
  <2>3. IsFiniteSet(reader.assets) /\ a \in reader.assets /\ b \in reader.assets
    BY <1>2, FS_Subset, DecisionsAssumption DEF ReadIsOnRecord, DecisionsTypeOK, ReaderOK
  <2>4. /\ DOMAIN ranking' \subseteq Nat
        /\ \A c \in reader.assets : \E i \in DOMAIN ranking' : ranking'[i] = DashboardRow(c)
    BY <2>2, <2>3, RowsAreListed
  <2>5. PICK i, j \in DOMAIN ranking' : ranking'[i] = DashboardRow(a) /\ ranking'[j] = DashboardRow(b)
    BY <2>3, <2>4
  <2>6. score[a].value \in Nat /\ score[b] \in Snapshot
    BY <1>2, DecisionsAssumption DEF DecisionsTypeOK, TablesOK, Snapshot, Score
  <2>7. Shown(a) = score[a] /\ Rank(DashboardRow(a)) = score[a].value
    BY <1>2 DEF Shown, Rank, DashboardRow
  <2>8. Below(Shown(b), score[a].value)
    BY <1>2, ShownIsOnRecord DEF Below
  <2>9. Shown(b) # None /\ Shown(b).value # None => Shown(b).value \in Nat
    <3>1. Shown(b) \in Snapshot
      <4>1. b \in Assets
        BY <1>2 DEF DecisionsTypeOK, TablesOK
      <4>2. reader.decided[b] \in DecisionRow \cup {None}
        BY <1>2, <4>1 DEF DecisionsTypeOK, ReaderOK, DecisionPerAsset
      <4>3. QED
        BY <2>6, <4>2 DEF Shown, DecisionRow, Snapshot
    <3>2. QED
      BY <3>1, DecisionsAssumption DEF Snapshot, Score
  <2>10. ~ Precedes(DashboardRow(b), DashboardRow(a))
    <3>1. Rank(DashboardRow(b)) = IF Shown(b) = None THEN None ELSE Shown(b).value
      BY DEF Rank, DashboardRow
    <3>2. SUFFICES ASSUME Precedes(DashboardRow(b), DashboardRow(a)) PROVE FALSE
      OBVIOUS
    <3>3. Rank(DashboardRow(b)) # None /\ Rank(DashboardRow(b)) >= score[a].value
      BY <1>2, <2>7, <3>2 DEF Precedes
    <3>4. Shown(b) # None /\ Shown(b).value # None /\ Shown(b).value >= score[a].value
      BY <3>1, <3>3
    <3>5. QED
      BY <2>6, <2>8, <2>9, <3>4 DEF Below
  <2>11. ~ Precedes(DashboardRow(a), DashboardRow(a)) => FALSE
    BY <2>6, <2>7 DEF Precedes
  <2>12. i < j
    <3>1. ~ (j < i)
      BY <2>2, <2>5, <2>10
    <3>2. i # j
      BY <2>5, <2>10, <2>11
    <3>3. QED
      BY <2>4, <3>1, <3>2
  <2>13. DashboardRow(a).asset = a /\ DashboardRow(b).asset = b
    BY DEF DashboardRow
  <2>14. QED
    BY <2>5, <2>12, <2>13
<1>3. ASSUME DecisionsTypeOK, ReadIsOnRecord, [Next]_vars
      PROVE  ReadIsOnRecord'
  BY <1>3, OnRecordStep
<1>4. QED
  BY <1>1, <1>2, <1>3, DecisionsTypes, PTL DEF Spec, HigherScoreIsAbove

---------------------------------------------------------------------------
(***************************************************************************)
(* The proposal of a recalibration.                                        *)
(***************************************************************************)
LEMMA TallyIsNatural ==
  ASSUME NEW decided \in DecisionPerAsset, NEW realised, NEW since
  PROVE  Tally(decided, realised, since) \in [good : Nat, sumGood : Nat, bad : Nat, sumBad : Nat]
<1> DEFINE counted == {a \in Assets : realised[a] # None /\ realised[a].at >= since /\ HasScore(decided[a])}
<1>1. ASSUME NEW of \in SUBSET counted
      PROVE  Cardinality(of) \in Nat /\ Total(of, decided) \in Nat
  <2>1. IsFiniteSet(of) /\ of \subseteq Assets
    BY FS_Subset, DecisionsAssumption
  <2>2. \A a \in of : decided[a].snapshot.value \in Nat
    <3> SUFFICES ASSUME NEW a \in of PROVE decided[a].snapshot.value \in Nat
      OBVIOUS
    <3>1. HasScore(decided[a]) /\ a \in Assets
      OBVIOUS
    <3>2. decided[a] \in DecisionRow
      BY <3>1 DEF HasScore, DecisionPerAsset
    <3>3. decided[a].snapshot \in Score
      BY <3>1, <3>2 DEF HasScore, DecisionRow, Snapshot
    <3>4. decided[a].snapshot.value \in Values
      BY <3>1, <3>3 DEF HasScore, Score
    <3>5. QED
      BY <3>4, DecisionsAssumption
  <2> DEFINE f == [a \in of |-> decided[a].snapshot.value]
  <2>3. \A a \in of : f[a] \in Nat
    BY <2>2
  <2> HIDE DEF f
  <2>4. SumFunctionOnSet(f, of) \in Nat
    BY <2>1, <2>3, SumOfNaturals
  <2>5. QED
    BY <2>1, <2>4, FS_CardinalityType DEF Total, f
<1> DEFINE good == {a \in counted : realised[a].outcome \in GoodOutcomes}
           bad  == {a \in counted : realised[a].outcome \in BadOutcomes}
<1>2. Tally(decided, realised, since) =
        [good |-> Cardinality(good), sumGood |-> Total(good, decided),
         bad |-> Cardinality(bad), sumBad |-> Total(bad, decided)]
  BY DEF Tally
<1>3. good \in SUBSET counted /\ bad \in SUBSET counted
  OBVIOUS
<1> HIDE DEF counted, good, bad
<1>4. QED
  BY <1>1, <1>2, <1>3

\* Each report is the proposal of one tally.
LEMMA LogStep ==
  ASSUME DecisionsTypeOK, LogIsOfATally, [Next]_vars
  PROVE  LogIsOfATally'
<1>1. CASE ReadOutcomesAndLog
  <2>1. reader.decided \in DecisionPerAsset
    BY <1>1 DEF ReadOutcomesAndLog, DecisionsTypeOK, ReaderOK
  <2>2. QED
    BY <1>1, <2>1, TallyIsNatural DEF ReadOutcomesAndLog, LogIsOfATally
<1>2. CASE log' = None
  BY <1>2 DEF LogIsOfATally
<1>3. CASE log' = log
  BY <1>3 DEF LogIsOfATally
<1>4. QED
  BY <1>1, <1>2, <1>3
  DEF Next, SaveScore, DeleteAsset, BeginDecide, BeginOutcome, GetScore, CommandDecide,
      RecordDecision, RecordOutcome, RecordRefused, ReadDecisions, ReadAssets,
      ReadLatestDecisions, ReadLatestOutcomes, ReadScoresAndSort, vars, readers

\* The middle of two means lies between them, with the means as fractions p / g and
\* q / b multiplied out.
LEMMA MiddleIsBetween ==
  ASSUME NEW x \in Nat, NEW y \in Nat, NEW g \in Nat, NEW b \in Nat, x * b <= y * g
  PROVE  /\ x * (2 * g * b) <= (x * b + y * g) * g
         /\ y * (2 * g * b) >= (x * b + y * g) * b
<1> DEFINE p == x * b
           q == y * g
<1>1. p \in Int /\ q \in Int /\ p <= q
  OBVIOUS
<1>2. x * (2 * g * b) = (p + p) * g /\ y * (2 * g * b) = (q + q) * b
  OBVIOUS
<1>3. (p + p) <= (p + q) /\ (p + q) <= (q + q)
  BY <1>1
<1> HIDE DEF p, q
<1>4. \A u, v \in Int, n \in Nat : u <= v => u * n <= v * n
  OBVIOUS
<1>5. (p + p) * g <= (p + q) * g /\ (p + q) * b <= (q + q) * b
  BY <1>1, <1>3, <1>4
<1>6. QED
  BY <1>2, <1>5 DEF p, q

\* A cutoff is proposed only for a sample that is large enough and has winners and
\* losers; it lies between their means, and the scores are called well calibrated only
\* if the winners scored above the losers (recalibration.py:104-136).
THEOREM ProposalsAreSupported == Spec => []ProposalIsSupported
<1>1. LogIsOfATally => ProposalIsSupported
  <2> SUFFICES ASSUME NEW t \in [good : Nat, sumGood : Nat, bad : Nat, sumBad : Nat],
                      log = [tally |-> t, verdict |-> VerdictOf(t), cutoff |-> Cutoff(t)],
                      Cutoff(t) # None
               PROVE  ProposalIsSupported
    BY DEF LogIsOfATally, ProposalIsSupported
  <2> DEFINE x == t.sumGood
             y == t.sumBad
             g == t.good
             b == t.bad
  <2>1. x \in Nat /\ y \in Nat /\ g \in Nat /\ b \in Nat
    OBVIOUS
  <2>2. Enough(t)
    BY DEF Cutoff
  <2>3. g + b >= MinSample /\ g > 0 /\ b > 0
    BY <2>2 DEF Enough
  <2>4. log.tally = t /\ log.cutoff.num = x * b + y * g /\ log.cutoff.den = 2 * g * b
    BY <2>2 DEF Cutoff
  <2>5. ASSUME log.verdict = "well_calibrated", x * b <= y * g
        PROVE  MinSeparation <= 0
    <3>1. Separates(t)
      BY <2>2, <2>5 DEF VerdictOf
    <3>2. x * b - y * g >= MinSeparation * g * b
      BY <3>1 DEF Separates
    <3>3. x * b - y * g <= 0
      BY <2>1, <2>5
    <3>4. MinSeparation * g * b <= 0
      BY <2>1, <3>2, <3>3, DecisionsAssumption
    <3>5. \A u, v, w \in Int : u > 0 /\ v > 0 /\ w > 0 => u * v * w > 0
      <4>1. \A u, v \in Int : u > 0 /\ v > 0 => u * v > 0
        OBVIOUS
      <4>2. QED
        BY <4>1
    <3>6. QED
      BY <2>1, <2>3, <3>4, <3>5, DecisionsAssumption
  <2>6. CASE x * b <= y * g
    BY <2>1, <2>3, <2>4, <2>5, <2>6, MiddleIsBetween DEF ProposalIsSupported
  <2>7. CASE ~ (x * b <= y * g)
    <3>1. y * g <= x * b
      BY <2>1, <2>7
    <3>2. y * (2 * b * g) <= (y * g + x * b) * b /\ x * (2 * b * g) >= (y * g + x * b) * g
      BY <2>1, <3>1, MiddleIsBetween
    <3>3. 2 * b * g = 2 * g * b /\ y * g + x * b = x * b + y * g
      BY <2>1
    <3>4. y * (2 * g * b) <= (x * b + y * g) * b /\ x * (2 * g * b) >= (x * b + y * g) * g
      BY <3>2, <3>3
    <3>5. QED
      BY <2>3, <2>4, <2>7, <3>4 DEF ProposalIsSupported
  <2>8. QED
    BY <2>6, <2>7
<1>2. Init => LogIsOfATally
  BY DEF Init, LogIsOfATally
<1>3. DecisionsTypeOK /\ LogIsOfATally /\ [Next]_vars => LogIsOfATally'
  BY LogStep
<1>4. QED
  BY <1>1, <1>2, <1>3, DecisionsTypes, PTL DEF Spec

==========================================================================
