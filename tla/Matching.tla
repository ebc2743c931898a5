------------------------------ MODULE Matching ------------------------------
(***************************************************************************)
(* Need matching (src/forge/matching) over the relationship graph while it *)
(* grows: matchers, that is processes running `forge hypotheses --generate`*)
(* for an asset, read its profile, the companies with their ties and       *)
(* whether it has evidence, generate a hypothesis for each company that    *)
(* shares enough market terms, and replace the asset's rows of             *)
(* need_hypothesis in one transaction at READ COMMITTED.                   *)
(*                                                                         *)
(* A text is the set of its terms (_tokens); a company's name is its key,  *)
(* and of a sector the graph knows nothing.                                *)
(***************************************************************************)
EXTENDS CompanyGraph

CONSTANTS
    Matchers,
    Assets,
    StopWords,         \* name tokens that are no terms: too short, or of _STOP
    TopicTerms,        \* per project topic: its terms
    Profiles,          \* [customer, producer: terms of the applications; applied: has any]
    MinSharedTerms,    \* NeedsConfig.min_shared_terms
    StrengthenTerms,   \* NeedsConfig.strengthen_shared_terms
    MaxMatchings       \* bound: number of matchings begun

ASSUME MatchingAssumption ==
    /\ MinSharedTerms \in Nat \ {0}
    /\ StrengthenTerms \in Nat
    /\ MaxMatchings \in Nat
    /\ \A p \in Profiles : IsFiniteSet(p.customer) /\ IsFiniteSet(p.producer)

VARIABLES
    needs,       \* need_hypothesis
    matcher,     \* per matcher: the matching under way and where it stands
    matchings,   \* number of matchings begun
    basis,       \* history: per asset, the profile of the matching committed last
    alone,       \* history: the matchers at work that nobody else has joined on their asset
    crossed      \* history: assets whose rows were last replaced by one that was joined

matchVars == <<needs, matcher, matchings, basis, alone, crossed>>
allVars   == <<graphVars, matchVars>>

Resting == [pc |-> "idle", asset |-> None, run |-> 0, profile |-> None,
            firms |-> {}, drafts |-> {}, doomed |-> {}]

Of(a) == {h \in needs : h.asset = a}

Init ==
    /\ GraphInit
    /\ needs = {}
    /\ matcher = [m \in Matchers |-> Resting]
    /\ matchings = 0
    /\ basis = [a \in Assets |-> None]
    /\ alone = {}
    /\ crossed = {}

---------------------------------------------------------------------------
(***************************************************************************)
(* generate.                                                               *)
(***************************************************************************)
TiesOf(k) == {t \in ties : t.company = k}

Terms(k) == (Range(k) \ StopWords) \cup UNION {TopicTerms[t.topic] : t \in TiesOf(k)}

SharedAsProducer(k, profile) == Terms(k) \cap profile.producer
SharedAsCustomer(k, profile) == Terms(k) \cap profile.customer

\* Mutant of TrackOf: a company that shares anything as a customer is one.
TrackOfCustomerFirst(k, profile) ==
    IF SharedAsCustomer(k, profile) = {} THEN "producer" ELSE "customer"

\* The side whose vocabulary is shared more; an adjacent maker when both are equal.
TrackOf(k, profile) ==
    IF Cardinality(SharedAsProducer(k, profile)) >= Cardinality(SharedAsCustomer(k, profile))
      THEN "producer" ELSE "customer"

Shared(k, profile) ==
    IF TrackOf(k, profile) = "producer" THEN SharedAsProducer(k, profile)
    ELSE SharedAsCustomer(k, profile)

\* strength_of: a Layer-0 tie is of medium strength; many shared terms and a market
\* signal add a level each, and strong is the last.
StrengthOf(k, profile, signal) ==
    LET steps == (IF Cardinality(Shared(k, profile)) >= StrengthenTerms THEN 1 ELSE 0)
                   + (IF signal THEN 1 ELSE 0)
        level == steps + (IF TiesOf(k) # {} THEN 1 ELSE 0)
    IN  CASE level = 0 -> "weak" [] level = 1 -> "medium" [] OTHER -> "strong"

\* A company that shares too few terms is not hypothesised: it would be a guess.
Matched(firms, profile) ==
    {k \in firms : profile.applied /\ Cardinality(Shared(k, profile)) >= MinSharedTerms}

Generate(firms, profile, signal) ==
    {[company |-> k, track |-> TrackOf(k, profile), strength |-> StrengthOf(k, profile, signal),
      terms |-> Shared(k, profile), refs |-> {t.ref : t \in TiesOf(k)}] :
       k \in Matched(firms, profile)}

---------------------------------------------------------------------------
(***************************************************************************)
(* run_matching and save_need_hypotheses, statement by statement.          *)
(***************************************************************************)
Others(m, a) == {n \in Matchers \ {m} : matcher[n].asset = a}

\* get_profile: whatever the pipeline has made of the asset by now.
StartMatching(m, a) ==
    /\ matcher[m].pc = "idle"
    /\ matchings < MaxMatchings
    /\ matchings' = matchings + 1
    /\ \E profile \in Profiles :
         matcher' = [matcher EXCEPT ![m] =
           [Resting EXCEPT !.pc = "companies", !.asset = a, !.run = matchings + 1,
                           !.profile = profile]]
    /\ alone' = IF Others(m, a) = {} THEN alone \cup {m} ELSE alone \ Others(m, a)
    /\ UNCHANGED <<graphVars, needs, basis, crossed>>

\* get_companies selects the companies ...
ReadCompanies(m) ==
    /\ matcher[m].pc = "companies"
    /\ matcher' = [matcher EXCEPT ![m].pc = "ties",
                                  ![m].firms = {k \in Keys : companies[k] # Absent}]
    /\ UNCHANGED <<graphVars, needs, matchings, basis, alone, crossed>>

\* ... and then, in a statement of its own, the ties of these companies; the asset
\* may have got or lost evidence in the meantime.
ReadTies(m) ==
    /\ matcher[m].pc = "ties"
    /\ \E signal \in BOOLEAN :
         matcher' = [matcher EXCEPT ![m].pc = "delete",
           ![m].drafts = Generate(matcher[m].firms, matcher[m].profile, signal)]
    /\ UNCHANGED <<graphVars, needs, matchings, basis, alone, crossed>>

\* The DELETE sees the rows that are committed when it begins ...
BeginDelete(m) ==
    /\ matcher[m].pc = "delete"
    /\ matcher' = [matcher EXCEPT ![m].pc = "deleting", ![m].doomed = Of(matcher[m].asset)]
    /\ UNCHANGED <<graphVars, needs, matchings, basis, alone, crossed>>

HasDeleted(n) == IF matcher[n].pc = "insert" THEN matcher[n].doomed ELSE {}

\* ... and waits for another matcher that has deleted some of them.
FinishDelete(m) ==
    /\ matcher[m].pc = "deleting"
    /\ \A n \in Matchers \ {m} : HasDeleted(n) \cap matcher[m].doomed = {}
    /\ matcher' = [matcher EXCEPT ![m].pc = "insert"]
    /\ UNCHANGED <<graphVars, needs, matchings, basis, alone, crossed>>

\* A row of need_hypothesis; run tells the matchings apart.
NeedHypothesis(a, r, draft) ==
    [asset |-> a, run |-> r, company |-> draft.company, track |-> draft.track,
     strength |-> draft.strength, terms |-> draft.terms, refs |-> draft.refs]

RowsOf(m) == {NeedHypothesis(matcher[m].asset, matcher[m].run, d) : d \in matcher[m].drafts}

Kept(m) == needs \ matcher[m].doomed

\* uq_need_hypothesis: one row per asset, company and track.
Clashes(m) ==
    \E g \in Kept(m), h \in RowsOf(m) :
       g.asset = h.asset /\ g.company = h.company /\ g.track = h.track

\* Who else was at work on the rows that m has replaced.
Replaced(m) ==
    /\ crossed' = IF m \in alone THEN crossed \ {matcher[m].asset}
                  ELSE crossed \cup {matcher[m].asset}
    /\ alone' = alone \ {m}

\* Mutant of CommitNeeds: the drafts are added to what is there.
CommitNeedsWithoutDelete(m) ==
    /\ matcher[m].pc = "insert"
    /\ needs' = needs \cup RowsOf(m)
    /\ basis' = [basis EXCEPT ![matcher[m].asset] = matcher[m].profile]
    /\ matcher' = [matcher EXCEPT ![m] = Resting]
    /\ Replaced(m)
    /\ UNCHANGED <<graphVars, matchings>>

\* The INSERTs, flushed by the commit.
CommitNeeds(m) ==
    /\ matcher[m].pc = "insert"
    /\ ~ Clashes(m)
    /\ needs' = Kept(m) \cup RowsOf(m)
    /\ basis' = [basis EXCEPT ![matcher[m].asset] = matcher[m].profile]
    /\ matcher' = [matcher EXCEPT ![m] = Resting]
    /\ Replaced(m)
    /\ UNCHANGED <<graphVars, matchings>>

\* A violation of uq_need_hypothesis, or the end of the process or its connection,
\* rolls the transaction back.
MatchingFails(m) ==
    /\ matcher[m].pc # "idle"
    /\ matcher' = [matcher EXCEPT ![m] = Resting]
    /\ alone' = alone \ {m}
    /\ UNCHANGED <<graphVars, needs, matchings, basis, crossed>>

UniqueNeedViolated(m) ==
    /\ matcher[m].pc = "insert"
    /\ Clashes(m)
    /\ MatchingFails(m)

MatchStatement(m) ==
    \/ ReadCompanies(m)
    \/ ReadTies(m)
    \/ BeginDelete(m)
    \/ FinishDelete(m)
    \/ CommitNeeds(m)
    \/ UniqueNeedViolated(m)

Next ==
    \/ GraphNext /\ UNCHANGED matchVars
    \/ \E m \in Matchers :
         \/ \E a \in Assets : StartMatching(m, a)
         \/ MatchStatement(m)
         \/ MatchingFails(m)

Spec == Init /\ [][Next]_allVars

---------------------------------------------------------------------------
(***************************************************************************)
(* Properties.                                                             *)
(***************************************************************************)
\* "Replace an asset's need hypotheses" (matching/repository.py:17): the rows of an
\* asset are of one matching, unless another one was at work on it when they were last
\* replaced. So whatever crossed matchings leave, the next undisturbed one clears.
HypothesesOfOneRun ==
    \A g, h \in needs : (g.asset = h.asset /\ g.asset \notin crossed) => g.run = h.run

\* Every hypothesis rests on at least one tie that the graph holds, and cites only
\* ties of its company, although companies and ties are read by two statements
\* while builders commit and fail (need_hypothesis.py:175-178).
HypothesisIsGrounded ==
    \A h \in needs :
        /\ h.refs # {}
        /\ h.refs \subseteq {t.ref : t \in TiesOf(h.company)}

\* A graph that grows never costs a hypothesis: an asset matched again from the same
\* profile, undisturbed, keeps every company it had, although new ties may change its track
\* (need_hypothesis.py:155-167).
RematchKeepsCompanies ==
    [][ \A a \in Assets \ (crossed \cup crossed') :
          (\E m \in Matchers : /\ matcher[m].pc = "insert" /\ matcher[m].asset = a
                               /\ matcher[m].profile = basis[a])
          => {h.company : h \in Of(a)} \subseteq {h.company : h \in Of(a)'} ]_allVars

===========================================================================
