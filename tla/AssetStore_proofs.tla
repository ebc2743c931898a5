-------------------------- MODULE AssetStore_proofs --------------------------
(***************************************************************************)
(* What every client of the asset store may rely on, for any sets of       *)
(* assets, streams and runs.  The three facts are inductive together with  *)
(* the types; the case that matters is delete_asset, which sweeps the      *)
(* Sources of every asset and not only those of the one it deletes.        *)
(***************************************************************************)
EXTENDS AssetStore, TLAPS

\* Every transaction keeps the types.
LEMMA StoreTypesStep == StoreTypeOK /\ [StoreNext]_storeVars => StoreTypeOK'
<1> SUFFICES ASSUME StoreTypeOK, [StoreNext]_storeVars
             PROVE  StoreTypeOK'
  OBVIOUS
<1> USE DEF StoreTypeOK
<1>1. CASE UNCHANGED storeVars
  BY <1>1 DEF storeVars
<1>2. ASSUME NEW a \in Assets, SaveAsset(a)
      PROVE  StoreTypeOK'
  <2>1. [asset |-> a] \in Source
    BY DEF Source, Provenance
  <2>2. QED
    BY <1>2, <2>1 DEF SaveAsset
<1>3. ASSUME NEW a \in Assets, DeleteAsset(a)
      PROVE  StoreTypeOK'
  BY <1>3 DEF DeleteAsset, Without, SweptSources
<1>4. ASSUME NEW a \in Assets, DeleteProfile(a)
      PROVE  StoreTypeOK'
  BY <1>4 DEF DeleteProfile, Without
<1>5. ASSUME NEW a \in Assets, NEW r \in Runs, SaveProfile(a, r)
      PROVE  StoreTypeOK'
  <2>1. [asset |-> a, run |-> r] \in Profile
    BY DEF Profile
  <2>2. QED
    BY <1>5, <2>1 DEF SaveProfile, Source
<1>6. ASSUME NEW a \in Assets, NEW streams \in SUBSET Streams, DeleteEvidence(a, streams)
      PROVE  StoreTypeOK'
  BY <1>6 DEF DeleteEvidence
<1>7. ASSUME NEW a \in Assets, NEW s \in Streams, NEW r \in Runs, SaveStreamResult(a, s, r)
      PROVE  StoreTypeOK'
  <2>1. [asset |-> a, stream |-> s, run |-> r] \in Evidence
    BY DEF Evidence
  <2>2. QED
    BY <1>7, <2>1 DEF SaveStreamResult, Source
<1>8. ASSUME NEW a \in Assets, NEW r \in Runs, SaveSynthesis(a, r)
      PROVE  StoreTypeOK'
  BY <1>8 DEF SaveSynthesis, Without, Synthesis
<1>9. ASSUME NEW row \in Score, SaveScore(row)
      PROVE  StoreTypeOK'
  BY <1>9 DEF SaveScore, Without
<1>10. QED
  BY <1>1, <1>2, <1>3, <1>4, <1>5, <1>6, <1>7, <1>8, <1>9 DEF StoreNext

\* The store keeps its tables well-typed.
THEOREM StoreTypes == StoreSpec => []StoreTypeOK
<1>1. StoreInit => StoreTypeOK
  BY DEF StoreInit, StoreTypeOK
<1>2. QED
  BY <1>1, StoreTypesStep, PTL DEF StoreSpec

---------------------------------------------------------------------------
\* Every provenance, profile and evidence row has its Source, so the sweep of
\* delete_asset is never refused by a foreign key.
THEOREM StoreSourcesResolve == StoreSpec => []SourcesResolve
<1>1. StoreInit => SourcesResolve
  BY DEF StoreInit, SourcesResolve, Referenced
<1>2. SourcesResolve /\ [StoreNext]_storeVars => SourcesResolve'
  <2> SUFFICES ASSUME SourcesResolve, [StoreNext]_storeVars
               PROVE  SourcesResolve'
    OBVIOUS
  <2> USE DEF SourcesResolve, Referenced
  <2>1. CASE UNCHANGED storeVars
    BY <2>1 DEF storeVars
  <2>2. ASSUME NEW a \in Assets, SaveAsset(a)
        PROVE  SourcesResolve'
    BY <2>2 DEF SaveAsset
  <2>3. ASSUME NEW a \in Assets, DeleteAsset(a)
        PROVE  SourcesResolve'
    <3>1. Referenced(stored, profiles, evidence)' \subseteq sources
      BY <2>3 DEF DeleteAsset, Without
    <3>2. sources' = sources \cap Referenced(stored, profiles, evidence)'
      BY <2>3 DEF DeleteAsset, SweptSources
    <3>3. QED
      BY <3>1, <3>2
  <2>4. ASSUME NEW a \in Assets, DeleteProfile(a)
        PROVE  SourcesResolve'
    BY <2>4 DEF DeleteProfile, Without
  <2>5. ASSUME NEW a \in Assets, NEW r \in Runs, SaveProfile(a, r)
        PROVE  SourcesResolve'
    BY <2>5 DEF SaveProfile
  <2>6. ASSUME NEW a \in Assets, NEW streams \in SUBSET Streams, DeleteEvidence(a, streams)
        PROVE  SourcesResolve'
    BY <2>6 DEF DeleteEvidence
  <2>7. ASSUME NEW a \in Assets, NEW s \in Streams, NEW r \in Runs, SaveStreamResult(a, s, r)
        PROVE  SourcesResolve'
    BY <2>7 DEF SaveStreamResult
  <2>8. ASSUME NEW a \in Assets, NEW r \in Runs, SaveSynthesis(a, r)
        PROVE  SourcesResolve'
    BY <2>8 DEF SaveSynthesis
  <2>9. ASSUME NEW row \in Score, SaveScore(row)
        PROVE  SourcesResolve'
    BY <2>9 DEF SaveScore
  <2>10. QED
    BY <2>1, <2>2, <2>3, <2>4, <2>5, <2>6, <2>7, <2>8, <2>9 DEF StoreNext
<1>3. QED
  BY <1>1, <1>2, PTL DEF StoreSpec

---------------------------------------------------------------------------
\* Nothing that was derived from an asset outlives it, nor reappears after it.
THEOREM StoreNothingSurvivesDeletion == StoreSpec => []NothingSurvivesDeletion
<1>1. StoreInit => NothingSurvivesDeletion
  BY DEF StoreInit, NothingSurvivesDeletion
<1>2. NothingSurvivesDeletion /\ [StoreNext]_storeVars => NothingSurvivesDeletion'
  <2> SUFFICES ASSUME NothingSurvivesDeletion, [StoreNext]_storeVars
               PROVE  NothingSurvivesDeletion'
    OBVIOUS
  <2> USE DEF NothingSurvivesDeletion
  <2>1. CASE UNCHANGED storeVars
    BY <2>1 DEF storeVars
  <2>2. ASSUME NEW a \in Assets, SaveAsset(a)
        PROVE  NothingSurvivesDeletion'
    BY <2>2 DEF SaveAsset
  <2>3. ASSUME NEW a \in Assets, DeleteAsset(a)
        PROVE  NothingSurvivesDeletion'
    <3>1. \A row \in profiles' \cup evidence' \cup scores' \cup syntheses' :
             row.asset \in stored'
      BY <2>3 DEF DeleteAsset, Without
    <3>2. sources' \subseteq {[asset |-> b] : b \in stored'} \cup profiles' \cup evidence'
      BY <2>3 DEF DeleteAsset, SweptSources, Referenced
    <3>3. \A row \in sources' : row.asset \in stored'
      BY <3>1, <3>2
    <3>4. QED
      BY <3>1, <3>3
  <2>4. ASSUME NEW a \in Assets, DeleteProfile(a)
        PROVE  NothingSurvivesDeletion'
    BY <2>4 DEF DeleteProfile, Without
  <2>5. ASSUME NEW a \in Assets, NEW r \in Runs, SaveProfile(a, r)
        PROVE  NothingSurvivesDeletion'
    BY <2>5 DEF SaveProfile
  <2>6. ASSUME NEW a \in Assets, NEW streams \in SUBSET Streams, DeleteEvidence(a, streams)
        PROVE  NothingSurvivesDeletion'
    BY <2>6 DEF DeleteEvidence
  <2>7. ASSUME NEW a \in Assets, NEW s \in Streams, NEW r \in Runs, SaveStreamResult(a, s, r)
        PROVE  NothingSurvivesDeletion'
    BY <2>7 DEF SaveStreamResult
  <2>8. ASSUME NEW a \in Assets, NEW r \in Runs, SaveSynthesis(a, r)
        PROVE  NothingSurvivesDeletion'
    BY <2>8 DEF SaveSynthesis, Without
  <2>9. ASSUME NEW row \in Score, SaveScore(row)
        PROVE  NothingSurvivesDeletion'
    BY <2>9 DEF SaveScore, Without
  <2>10. QED
    BY <2>1, <2>2, <2>3, <2>4, <2>5, <2>6, <2>7, <2>8, <2>9 DEF StoreNext
<1>3. QED
  BY <1>1, <1>2, PTL DEF StoreSpec

---------------------------------------------------------------------------
\* No transaction but the deletion of an asset takes its score.
LEMMA ScoreKeptStep == [StoreNext]_storeVars =>
    [\A a \in stored \cap stored' : Of(scores, a) # {} => Of(scores', a) # {}]_storeVars
<1> SUFFICES ASSUME StoreNext, NEW b \in stored \cap stored', Of(scores, b) # {}
             PROVE  Of(scores', b) # {}
  OBVIOUS
<1>1. CASE UNCHANGED scores
  BY <1>1 DEF Of
<1>2. ASSUME NEW a \in Assets, DeleteAsset(a)
      PROVE  Of(scores', b) # {}
  BY <1>2 DEF DeleteAsset, Of, Without
<1>3. ASSUME NEW row \in Score, SaveScore(row)
      PROVE  Of(scores', b) # {}
  BY <1>3 DEF SaveScore, Of, Without
<1>4. QED
  BY <1>1, <1>2, <1>3 DEF StoreNext, SaveAsset, DeleteProfile, SaveProfile,
     DeleteEvidence, SaveStreamResult, SaveSynthesis

\* Once an asset is scored it stays scored until it is deleted.
THEOREM StoreScoreKept == StoreSpec => ScoreKeptUntilDeletion
BY ScoreKeptStep, PTL DEF StoreSpec, ScoreKeptUntilDeletion

===========================================================================
