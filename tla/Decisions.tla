------------------------------ MODULE Decisions ------------------------------
(***************************************************************************)
(* Committee decisions, realised outcomes, the ranked dashboard            *)
(* (output/decisions.py) and the quarterly recalibration                   *)
(* (recalibration.py) over the tables they share with the pipeline.        *)
(*                                                                         *)
(* Every handler reads in several queries at READ COMMITTED and commits    *)
(* once; rescoring, deletions and other members' commits come in between.  *)
(* Scores are whole numbers (hundredths, say) and means are compared as    *)
(* fractions: the rounding of the code's floats is left out.               *)
(***************************************************************************)
EXTENDS Integers, FiniteSets, SequencesExt

CONSTANTS
    Assets,
    Members,         \* requests and commands of committee members
    Values,          \* ventureability, in units of MinSeparation's scale
    GoodOutcomes,    \* RecalibrationConfig.good_outcomes
    BadOutcomes,     \* RecalibrationConfig.bad_outcomes
    OpenOutcomes,    \* the OutcomeTypes that are in neither list
    InitialScores,   \* what the pipeline had scored when the committee starts
    MinSample,       \* RecalibrationConfig.min_sample
    MinSeparation,   \* RecalibrationConfig.min_separation
    MaxTime,         \* bound: readings of the clock
    MaxDecisions,    \* bound: rows of committee_decision ever inserted
    MaxOutcomes,     \* bound: rows of asset_outcome ever inserted
    MaxCalls,        \* bound: number of requests, commands and pipeline runs
    None             \* no row, no value

ASSUME DecisionsAssumption ==
    /\ Values \subseteq Nat
    /\ MinSample \in Nat /\ MinSeparation \in Int
    /\ MaxTime \in Nat /\ MaxDecisions \in Nat /\ MaxOutcomes \in Nat /\ MaxCalls \in Nat
    /\ IsFiniteSet(Assets)
    /\ InitialScores \subseteq [Assets -> [value : Values \cup {None}] \cup {None}]
    \* None is no record of any kind.
    /\ LET snapshots == [value : Values \cup {None}] \cup {None} IN
       /\ None \notin [id : Nat, asset : Assets, snapshot : snapshots, at : Nat]
       /\ None \notin [id : Nat, asset : Assets, outcome : GoodOutcomes \cup BadOutcomes \cup OpenOutcomes, at : Nat]
       /\ None \notin [snapshot : snapshots]
       /\ None \notin [outcome : GoodOutcomes \cup BadOutcomes \cup OpenOutcomes, at : Nat]

VARIABLES
    assets,      \* the assets in the store
    score,       \* asset_score: per asset its row, or None
    decisions,   \* committee_decision
    outcomes,    \* asset_outcome
    log,         \* the row the reader has added to recalibration_log, or None
    now,         \* the clock the timestamps are taken from
    calls,       \* number of requests, commands and runs begun
    member,      \* per member: the request it handles
    reader,      \* a recalibration or a dashboard under way; readers change no table
                 \* another reader reads, so one stands for any number of them
    ranking,     \* the dashboard the reader has rendered, or None
    standing,    \* history, per asset: its latest decision and outcome as committed
    tied,        \* history: two records of one table and asset share a timestamp
    quiet        \* history: nothing committed since the reader began

tables  == <<assets, score, decisions, outcomes>>
readers == <<reader, log, ranking>>
history == <<standing, tied, quiet>>
vars    == <<tables, readers, now, calls, member, history>>

Score    == [value : Values \cup {None}]
Outcome  == GoodOutcomes \cup BadOutcomes \cup OpenOutcomes
Times    == 0 .. MaxTime

\* Rows of committee_decision and asset_outcome.
Decision(n, a, snapshot, at) == [id |-> n, asset |-> a, snapshot |-> snapshot, at |-> at]
RealisedOutcome(n, a, outcome, at) == [id |-> n, asset |-> a, outcome |-> outcome, at |-> at]

Idle == [pc |-> "idle", since |-> 0, assets |-> {}, decided |-> None, realised |-> None]

Init ==
    /\ assets = Assets
    /\ score \in InitialScores
    /\ decisions = {}
    /\ outcomes = {}
    /\ log = None
    /\ now = 0
    /\ calls = 0
    /\ member = [m \in Members |-> [pc |-> "idle", asset |-> None, snapshot |-> None]]
    /\ reader = Idle
    /\ ranking = None
    /\ standing = [a \in Assets |-> [decision |-> None, outcome |-> None]]
    /\ tied = FALSE
    /\ quiet = FALSE

---------------------------------------------------------------------------
(***************************************************************************)
(* Commits of others.                                                      *)
(***************************************************************************)
Disturbed == quiet' = FALSE

Called == calls < MaxCalls /\ calls' = calls + 1

\* The pipeline saves a score; its ventureability may be absent.
SaveScore(a) ==
    /\ a \in assets
    /\ Called
    /\ \E s \in Score : score' = [score EXCEPT ![a] = s]
    /\ Disturbed
    /\ UNCHANGED <<assets, decisions, outcomes, readers, now, member, standing, tied>>

OfAsset(rows, a) == {row \in rows : row.asset = a}

\* Mutant of DeleteAsset: no cascade to the outcomes.
DeleteAssetKeepingOutcomes(a) ==
    /\ a \in assets
    /\ Called
    /\ assets' = assets \ {a}
    /\ score' = [score EXCEPT ![a] = None]
    /\ decisions' = decisions \ OfAsset(decisions, a)
    /\ standing' = [standing EXCEPT ![a] = [decision |-> None, outcome |-> None]]
    /\ Disturbed
    /\ UNCHANGED <<outcomes, readers, now, member, tied>>

\* The database cascades to the asset's score, decisions and outcomes.
DeleteAsset(a) ==
    /\ a \in assets
    /\ Called
    /\ assets' = assets \ {a}
    /\ score' = [score EXCEPT ![a] = None]
    /\ decisions' = decisions \ OfAsset(decisions, a)
    /\ outcomes' = outcomes \ OfAsset(outcomes, a)
    /\ standing' = [standing EXCEPT ![a] = [decision |-> None, outcome |-> None]]
    /\ Disturbed
    /\ UNCHANGED <<readers, now, member, tied>>

---------------------------------------------------------------------------
(***************************************************************************)
(* Members: POST /asset/{id}/decide, POST /asset/{id}/outcome and the      *)
(* commands decide and outcome.                                            *)
(***************************************************************************)
\* The row gets an unused random id and the time of the flush.
Free(rows, most) == {n \in 1 .. most : \A row \in rows : row.id # n}

Become(m, pc, a, snapshot) ==
    member' = [member EXCEPT ![m] = [pc |-> pc, asset |-> a, snapshot |-> snapshot]]

\* get_asset; a missing asset answers 404.
BeginDecide(m, a) ==
    /\ member[m].pc = "idle"
    /\ Called
    /\ a \in assets
    /\ Become(m, "get_score", a, None)
    /\ UNCHANGED <<tables, readers, now, history>>

\* The web handler takes the persisted score, whatever the page showed.
GetScore(m) ==
    /\ member[m].pc = "get_score"
    /\ Become(m, "decide", member[m].asset, score[member[m].asset])
    /\ UNCHANGED <<tables, readers, now, calls, history>>

\* cmd_decide passes no score.
CommandDecide(m) ==
    /\ member[m].pc = "get_score"
    /\ Become(m, "decide", member[m].asset, None)
    /\ UNCHANGED <<tables, readers, now, calls, history>>

BeginOutcome(m, a) ==
    /\ member[m].pc = "idle"
    /\ Called
    /\ a \in assets
    /\ Become(m, "outcome", a, None)
    /\ UNCHANGED <<tables, readers, now, history>>

RecordDecision(m, at) ==
    LET a == member[m].asset IN
    /\ member[m].pc = "decide"
    /\ a \in assets
    /\ now' = at
    /\ \E n \in Free(decisions, MaxDecisions) :
         decisions' = decisions \cup {Decision(n, a, member[m].snapshot, at)}
    /\ standing' = [standing EXCEPT ![a].decision = [snapshot |-> member[m].snapshot]]
    /\ tied' = (tied \/ \E d \in OfAsset(decisions, a) : d.at = at)
    /\ Become(m, "idle", None, None)
    /\ Disturbed
    /\ UNCHANGED <<assets, score, outcomes, readers, calls>>

RecordOutcome(m, at) ==
    LET a == member[m].asset IN
    /\ member[m].pc = "outcome"
    /\ a \in assets
    /\ now' = at
    /\ \E n \in Free(outcomes, MaxOutcomes), o \in Outcome :
         /\ outcomes' = outcomes \cup {RealisedOutcome(n, a, o, at)}
         /\ standing' = [standing EXCEPT ![a].outcome = [outcome |-> o, at |-> at]]
    /\ tied' = (tied \/ \E o \in OfAsset(outcomes, a) : o.at = at)
    /\ Become(m, "idle", None, None)
    /\ Disturbed
    /\ UNCHANGED <<assets, score, decisions, readers, calls>>

\* The asset is gone: the foreign key refuses the row and the request fails.
RecordRefused(m) ==
    /\ member[m].pc \in {"decide", "outcome"}
    /\ member[m].asset \notin assets
    /\ Become(m, "idle", None, None)
    /\ UNCHANGED <<tables, readers, now, calls, history>>

---------------------------------------------------------------------------
(***************************************************************************)
(* Reading the latest record of every asset.                               *)
(***************************************************************************)
Newer(r, s) == r.at > s.at \/ (r.at = s.at /\ r.id > s.id)

\* Mutant of LatestOf: ascending order, so the first record wins.
LatestOfAscending(rows, a) ==
    LET mine == OfAsset(rows, a) IN
    IF mine = {} THEN None ELSE CHOOSE r \in mine : \A s \in mine \ {r} : Newer(s, r)

LatestOf(rows, a) ==
    LET mine == OfAsset(rows, a) IN
    IF mine = {} THEN None ELSE CHOOSE r \in mine : \A s \in mine \ {r} : Newer(r, s)

LatestPerAsset(rows) == [a \in Assets |-> LatestOf(rows, a)]

---------------------------------------------------------------------------
(***************************************************************************)
(* run_recalibration: two queries, then one commit.                        *)
(***************************************************************************)
HasScore(decision) ==
    /\ decision # None
    /\ decision.snapshot # None
    /\ decision.snapshot.value # None

Total(of, decided) == SumFunctionOnSet([a \in of |-> decided[a].snapshot.value], of)

\* The pairs of latest decision and latest outcome, counted and added up.
Tally(decided, realised, since) ==
    LET counted == {a \in Assets : /\ realised[a] # None
                                   /\ realised[a].at >= since
                                   /\ HasScore(decided[a])}
        good    == {a \in counted : realised[a].outcome \in GoodOutcomes}
        bad     == {a \in counted : realised[a].outcome \in BadOutcomes}
    IN  [good |-> Cardinality(good), sumGood |-> Total(good, decided),
         bad  |-> Cardinality(bad),  sumBad  |-> Total(bad, decided)]

Enough(t) == t.good + t.bad >= MinSample /\ t.good > 0 /\ t.bad > 0

\* Mutant of Separates: the distance of the means, whichever is above.
SeparatesEitherWay(t) ==
    LET distance == t.sumGood * t.bad - t.sumBad * t.good IN
    \/ distance >= MinSeparation * t.good * t.bad
    \/ - distance >= MinSeparation * t.good * t.bad

\* mean(good) - mean(bad) >= min_separation, multiplied out.
Separates(t) ==
    t.sumGood * t.bad - t.sumBad * t.good >= MinSeparation * t.good * t.bad

VerdictOf(t) ==
    CASE ~ Enough(t) -> "insufficient_data"
      [] Enough(t) /\ Separates(t) -> "well_calibrated"
      [] OTHER -> "needs_review"

\* The middle of the two means, as a fraction.
Cutoff(t) ==
    IF Enough(t)
    THEN [num |-> t.sumGood * t.bad + t.sumBad * t.good, den |-> 2 * t.good * t.bad]
    ELSE None

\* The first query of run_recalibration.
ReadDecisions(since) ==
    /\ reader.pc = "idle"
    /\ Called
    /\ reader' = [reader EXCEPT !.pc = "log", !.since = since,
                                !.decided = LatestPerAsset(decisions)]
    /\ quiet' = TRUE
    /\ log' = None /\ ranking' = None
    /\ UNCHANGED <<tables, now, member, standing, tied>>

ReadOutcomesAndLog ==
    LET t == Tally(reader.decided, LatestPerAsset(outcomes), reader.since) IN
    /\ reader.pc = "log"
    /\ log' = [tally |-> t, verdict |-> VerdictOf(t), cutoff |-> Cutoff(t)]
    /\ reader' = Idle
    /\ UNCHANGED <<tables, ranking, now, calls, member, history>>

---------------------------------------------------------------------------
(***************************************************************************)
(* dashboard: four queries, then the sorted rows.                          *)
(***************************************************************************)
ReadAssets ==
    /\ reader.pc = "idle"
    /\ Called
    /\ reader' = [reader EXCEPT !.pc = "decisions", !.assets = assets]
    /\ quiet' = TRUE
    /\ log' = None /\ ranking' = None
    /\ UNCHANGED <<tables, now, member, standing, tied>>

ReadLatestDecisions ==
    /\ reader.pc = "decisions"
    /\ reader' = [reader EXCEPT !.pc = "outcomes", !.decided = LatestPerAsset(decisions)]
    /\ UNCHANGED <<tables, log, ranking, now, calls, member, history>>

ReadLatestOutcomes ==
    /\ reader.pc = "outcomes"
    /\ reader' = [reader EXCEPT !.pc = "scores", !.realised = LatestPerAsset(outcomes)]
    /\ UNCHANGED <<tables, log, ranking, now, calls, member, history>>

\* Mutant of Shown: a reviewed asset keeps the score it was reviewed with.
ShownAsReviewed(a) ==
    IF reader.decided[a] # None THEN reader.decided[a].snapshot ELSE score[a]

\* The live score, or else the snapshot of the latest decision.
Shown(a) ==
    IF score[a] # None THEN score[a]
    ELSE IF reader.decided[a] # None THEN reader.decided[a].snapshot ELSE None

DashboardRow(a) ==
    [asset   |-> a,
     shown   |-> Shown(a),
     decided |-> reader.decided[a] # None,
     outcome |-> IF reader.realised[a] = None THEN None ELSE reader.realised[a].outcome]

Rank(row) == IF row.shown = None THEN None ELSE row.shown.value

\* The sort key without the title: rows that compare equal come in any order.
Precedes(row, other) ==
    Rank(other) # None => Rank(row) # None /\ Rank(row) >= Rank(other)

ReadScoresAndSort ==
    /\ reader.pc = "scores"
    /\ \E rows \in SetToSeqs({DashboardRow(a) : a \in reader.assets}) :
         /\ \A i, j \in DOMAIN rows : i < j => Precedes(rows[i], rows[j])
         /\ ranking' = rows
    /\ reader' = Idle
    /\ UNCHANGED <<tables, log, now, calls, member, history>>

---------------------------------------------------------------------------
Next ==
    \/ \E a \in Assets : SaveScore(a) \/ DeleteAsset(a)
    \/ \E m \in Members :
         \/ \E a \in Assets : BeginDecide(m, a) \/ BeginOutcome(m, a)
         \/ GetScore(m)
         \/ CommandDecide(m)
         \/ \E at \in now .. MaxTime : RecordDecision(m, at) \/ RecordOutcome(m, at)
         \/ RecordRefused(m)
    \/ \E since \in Times : ReadDecisions(since)
    \/ ReadOutcomesAndLog
    \/ ReadAssets
    \/ ReadLatestDecisions
    \/ ReadLatestOutcomes
    \/ ReadScoresAndSort

Spec == Init /\ [][Next]_vars

---------------------------------------------------------------------------
(***************************************************************************)
(* Properties.                                                             *)
(***************************************************************************)
\* No decision, outcome or score of an asset outlives it, although a request
\* may have found the asset before it was deleted (repository.py:292-325).
RecordsOfLiveAssets ==
    /\ \A d \in decisions : d.asset \in assets
    /\ \A o \in outcomes : o.asset \in assets
    /\ \A a \in Assets \ assets : score[a] = None

\* A cutoff is proposed only for a sample that supports it (recalibration.py:115):
\* large enough, with winners and losers, and it lies between their means; and the
\* scores are called well calibrated only if the winners scored above the losers.
ProposalIsSupported ==
    (log # None /\ log.cutoff # None) =>
      LET t == log.tally  c == log.cutoff
          onSide(total, count, low) ==   \* the mean is on this side of the cutoff
              IF low THEN total * c.den <= c.num * count ELSE total * c.den >= c.num * count
          winnersLow == t.sumGood * t.bad <= t.sumBad * t.good
      IN  /\ t.good + t.bad >= MinSample /\ t.good > 0 /\ t.bad > 0
          /\ onSide(t.sumGood, t.good, winnersLow)
          /\ onSide(t.sumBad, t.bad, ~ winnersLow)
          /\ log.verdict = "well_calibrated" => ~ winnersLow \/ MinSeparation <= 0

Decided  == [a \in Assets |-> standing[a].decision]
Realised == [a \in Assets |-> standing[a].outcome]

\* A recalibration during which nobody else commits counts every asset once, by
\* the outcome and the decision that were committed last (recalibration.py:65-86):
\* no earlier record of the asset, and none of another asset, takes their place.
QuietLogIsCurrent ==
    [][ (reader.pc = "log" /\ reader'.pc = "idle" /\ quiet /\ ~ tied)
        => log'.tally = Tally(Decided, Realised, reader.since) ]_vars

\* The dashboard rendered while nobody else commits lists every asset once, with
\* its live score when it has one (output/decisions.py:95), the outcome committed
\* last, and whether it was reviewed.
QuietDashboardIsCurrent ==
    [][ (reader.pc = "scores" /\ reader'.pc = "idle" /\ quiet /\ ~ tied)
        => /\ Len(ranking') = Cardinality(assets)
           /\ \A a \in assets : \E i \in DOMAIN ranking' :
                LET row == ranking'[i] IN
                /\ row.asset = a
                /\ row.decided <=> standing[a].decision # None
                /\ row.outcome = IF standing[a].outcome = None THEN None
                                 ELSE standing[a].outcome.outcome
                /\ score[a] # None => row.shown = score[a]
                /\ (score[a] = None /\ row.decided) => row.shown = standing[a].decision.snapshot ]_vars

\* What the dashboard may show of a stored asset: its live score or, for want of one,
\* what a decision on it saw.
OnRecord(a) ==
    IF score[a] # None THEN {score[a]} ELSE {d.snapshot : d \in OfAsset(decisions, a)}

Below(s, value) == s = None \/ s.value = None \/ s.value < value

\* Although others decide, re-score and delete between its four queries, a finished
\* dashboard lists an asset whose live value is above everything on record for another
\* one before that other one (output/decisions.py:71-110): a stale snapshot, a
\* deletion in between, or a score without a value never puts the better asset behind.
HigherScoreIsAbove ==
    [][ (reader.pc = "scores" /\ reader'.pc = "idle")
        => \A a, b \in assets :
             (/\ score[a] # None /\ score[a].value # None
              /\ \A s \in OnRecord(b) : Below(s, score[a].value))
             => \E i, j \in DOMAIN ranking' :
                  i < j /\ ranking'[i].asset = a /\ ranking'[j].asset = b ]_vars

\* What the code does not keep: "Snapshots the Engine's recommendation at
\* decision time (routing + score)" (db/models.py:360).
DecisionSnapshotsScore ==
    [][ \A d \in decisions' \ decisions :
          score[d.asset] # None => d.snapshot # None ]_vars

==========================================================================
