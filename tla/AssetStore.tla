---------------------------- MODULE AssetStore ----------------------------
(***************************************************************************)
(* The L2 asset store: the tables of src/forge/db/models.py that hold an   *)
(* asset and what the pipeline derives from it, and the operations of      *)
(* src/forge/repository.py that change them.  Each operator below is one   *)
(* committed transaction; a call that raises leaves the tables unchanged.  *)
(*                                                                         *)
(* A row keeps only what identifies it: the asset it belongs to and the    *)
(* pipeline run that wrote it.  One evidence row stands for all the        *)
(* records one stream returned in one run.  A Source row is named by the   *)
(* row it was inserted with, for no two rows the operations below insert   *)
(* share a Source, except the provenance rows of one asset, which share    *)
(* the single Source named [asset |-> a].                                  *)
(***************************************************************************)
CONSTANTS Assets,   \* the primary keys (uuids) assets may be given
          Streams,  \* the cross-referencing streams that are wired in
          Runs      \* tags of the pipeline runs that write rows

VARIABLES
    issued,      \* asset keys ever handed out; a uuid is never given twice
    stored,      \* keys in the asset table
    profiles,    \* rows of asset_profile
    evidence,    \* rows of evidence
    scores,      \* rows of asset_score
    syntheses,   \* rows of asset_synthesis
    sources      \* rows of source

storeVars == <<issued, stored, profiles, evidence, scores, syntheses, sources>>

Provenance == [asset : Assets]
Profile    == [asset : Assets, run : Runs]
Evidence   == [asset : Assets, stream : Streams, run : Runs]
Score      == [asset : Assets, run : Runs, profiled : BOOLEAN, basis : SUBSET Streams]
Synthesis  == [asset : Assets, run : Runs]
Source     == Provenance \cup Profile \cup Evidence

StoreTypeOK ==
    /\ issued \subseteq Assets
    /\ stored \subseteq issued
    /\ profiles \subseteq Profile
    /\ evidence \subseteq Evidence
    /\ scores \subseteq Score
    /\ syntheses \subseteq Synthesis
    /\ sources \subseteq Source

\* The rows of table that belong to asset a, and the rest of the table.
Of(table, a)      == {row \in table : row.asset = a}
Without(table, a) == {row \in table : row.asset # a}

\* The Sources that provenance, profile and evidence rows refer to.
Referenced(st, pr, ev) == {[asset |-> a] : a \in st} \cup pr \cup ev

StoreInit ==
    /\ issued = {}
    /\ stored = {}
    /\ profiles = {}
    /\ evidence = {}
    /\ scores = {}
    /\ syntheses = {}
    /\ sources = {}

---------------------------------------------------------------------------
\* save_asset: the asset, its provenance and their Source in one commit.
SaveAsset(a) ==
    /\ a \notin issued
    /\ issued' = issued \cup {a}
    /\ stored' = stored \cup {a}
    /\ sources' = sources \cup {[asset |-> a]}
    /\ UNCHANGED <<profiles, evidence, scores, syntheses>>

\* The Sources that survive delete_asset's sweep of the whole source table.
SweptSources(st, pr, ev) == sources \cap Referenced(st, pr, ev)

\* Mutant of DeleteAsset: no ON DELETE CASCADE on asset_score.
DeleteAssetKeepingScore(a) ==
    /\ stored' = stored \ {a}
    /\ profiles' = Without(profiles, a)
    /\ evidence' = Without(evidence, a)
    /\ syntheses' = Without(syntheses, a)
    /\ sources' = SweptSources(stored', profiles', evidence')
    /\ UNCHANGED <<issued, scores>>

\* delete_asset: the row, what cascades from it, and every Source that no row
\* of any asset refers to any more.  Deleting an absent key only sweeps.
DeleteAsset(a) ==
    /\ stored' = stored \ {a}
    /\ profiles' = Without(profiles, a)
    /\ evidence' = Without(evidence, a)
    /\ scores' = Without(scores, a)
    /\ syntheses' = Without(syntheses, a)
    /\ sources' = SweptSources(stored', profiles', evidence')
    /\ UNCHANGED issued

\* Mutant of DeleteProfile: the WHERE clause loses the asset.
DeleteProfileOfAllAssets(a) ==
    /\ profiles' = {}
    /\ UNCHANGED <<issued, stored, evidence, scores, syntheses, sources>>

\* delete_profile.  The row's Source stays behind, here and in DeleteEvidence.
DeleteProfile(a) ==
    /\ profiles' = Without(profiles, a)
    /\ UNCHANGED <<issued, stored, evidence, scores, syntheses, sources>>

\* save_profile: refused by the foreign key once the asset is gone, and by
\* uq_asset_profile_asset while the asset has a profile.
SaveProfile(a, r) ==
    LET row == [asset |-> a, run |-> r] IN
    /\ a \in stored
    /\ Of(profiles, a) = {}
    /\ profiles' = profiles \cup {row}
    /\ sources' = sources \cup {row}
    /\ UNCHANGED <<issued, stored, evidence, scores, syntheses>>

\* delete_evidence(asset_id, streams=...).
DeleteEvidence(a, streams) ==
    /\ evidence' = {e \in evidence : e.asset # a \/ e.stream \notin streams}
    /\ UNCHANGED <<issued, stored, profiles, scores, syntheses, sources>>

\* Mutant of SaveStreamResult: the rows are committed without their Source.
SaveStreamResultWithoutSource(a, s, r) ==
    /\ a \in stored
    /\ evidence' = evidence \cup {[asset |-> a, stream |-> s, run |-> r]}
    /\ UNCHANGED <<issued, stored, profiles, scores, syntheses, sources>>

\* save_stream_result of a stream that has records.  Nothing makes evidence unique.
SaveStreamResult(a, s, r) ==
    LET row == [asset |-> a, stream |-> s, run |-> r] IN
    /\ a \in stored
    /\ evidence' = evidence \cup {row}
    /\ sources' = sources \cup {row}
    /\ UNCHANGED <<issued, stored, profiles, scores, syntheses>>

\* save_score: delete-then-insert in one transaction.
SaveScore(row) ==
    /\ row.asset \in stored
    /\ scores' = Without(scores, row.asset) \cup {row}
    /\ UNCHANGED <<issued, stored, profiles, evidence, syntheses, sources>>

\* save_synthesis: delete-then-insert in one transaction.
SaveSynthesis(a, r) ==
    /\ a \in stored
    /\ syntheses' = Without(syntheses, a) \cup {[asset |-> a, run |-> r]}
    /\ UNCHANGED <<issued, stored, profiles, evidence, scores, sources>>

---------------------------------------------------------------------------
(***************************************************************************)
(* What a client of the store may do to it: one transaction at a time.     *)
(***************************************************************************)
StoreNext ==
    \/ \E a \in Assets :
         \/ SaveAsset(a)
         \/ DeleteAsset(a)
         \/ DeleteProfile(a)
         \/ \E r \in Runs : SaveProfile(a, r)
         \/ \E streams \in SUBSET Streams : DeleteEvidence(a, streams)
         \/ \E s \in Streams, r \in Runs : SaveStreamResult(a, s, r)
         \/ \E r \in Runs : SaveSynthesis(a, r)
    \/ \E row \in Score : SaveScore(row)

\* The store as its clients see it: every module that writes to it implements
\* this specification, so it keeps the properties below.
StoreSpec == StoreInit /\ [][StoreNext]_storeVars

\* The foreign keys to source (ON DELETE RESTRICT) never make delete_asset's
\* sweep fail: a row that is still there has its Source, whatever was deleted,
\* replaced or left half-done around it.
SourcesResolve == Referenced(stored, profiles, evidence) \subseteq sources

\* "Remove an asset and everything derived from it" (delete_asset) holds for
\* good: also a run that was in flight leaves no row and no Source of it.
NothingSurvivesDeletion ==
    \A row \in profiles \cup evidence \cup scores \cup syntheses \cup sources :
        row.asset \in stored

\* Re-scoring never takes the score of a stored asset away, whatever fails and
\* whoever overlaps: the dashboard and the self-healing seed rely on it.
ScoreKeptUntilDeletion ==
    [][\A a \in stored \cap stored' : Of(scores, a) # {} => Of(scores', a) # {}]_storeVars

===========================================================================
