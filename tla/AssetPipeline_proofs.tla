------------------------ MODULE AssetPipeline_proofs ------------------------
(***************************************************************************)
(* What Pipeline.run, and the boot of the demo that drives it, guarantee   *)
(* with any number of processes, assets, streams, batches and boots, and   *)
(* with failures, deletions and crashes between any two commits: types,    *)
(* the implementation of the store, the record a run leaves of an asset,   *)
(* and the demos that are stored once and served.                          *)
(***************************************************************************)
EXTENDS Seed, AssetStore_proofs

---------------------------------------------------------------------------
(***************************************************************************)
(* Types.                                                                  *)
(***************************************************************************)
\* Results adopted from either pass of the streams are results.
LEMMA AdoptedType ==
    ASSUME NEW first \in [Streams -> Outcome], NEW second \in [Streams -> Outcome],
           NEW broader \in BOOLEAN
    PROVE  Adopted(first, second, broader) \in [Streams -> Outcome]
BY DEF Adopted

\* The variables of a process keep their types.
WorkerTypeOK ==
    /\ batches \in 0 .. MaxBatches
    /\ run \in [Workers -> 0 .. MaxBatches]
    /\ todo \in [Workers -> SUBSET Assets]
    /\ pc \in [Workers -> Steps]
    /\ current \in [Workers -> Assets \cup {NoAsset}]
    /\ profiled \in [Workers -> BOOLEAN]
    /\ results \in [Workers -> [Streams -> Outcome]]
    /\ unsaved \in [Workers -> SUBSET Streams]
    /\ clean \in [Workers -> BOOLEAN]
    /\ answered \in [Workers -> SUBSET Assets]
    /\ overlapped \subseteq Assets
    /\ settled \in [Assets -> 0 .. MaxBatches]

\* A process that is at a step of run_asset has an asset.
AtWork == \A w \in Workers : Working(w) <=> current[w] # NoAsset

\* Whatever a process or its environment does, the types are kept.
LEMMA WorkerStep == WorkerTypeOK /\ AtWork /\ [Next]_vars => WorkerTypeOK' /\ AtWork'
<1> USE PipelineAssumption
<1> SUFFICES ASSUME WorkerTypeOK, AtWork, [Next]_vars
             PROVE  WorkerTypeOK' /\ AtWork'
  OBVIOUS
<1> USE DEF WorkerTypeOK, AtWork, Working, Steps, memory, control, history
<1>1. CASE UNCHANGED vars
  BY <1>1 DEF vars, workerVars
<1>2. ASSUME NEW a \in Assets, AddAsset(a) \/ RemoveAsset(a)
      PROVE  WorkerTypeOK' /\ AtWork'
  BY <1>2 DEF AddAsset, RemoveAsset, workerVars
<1>3. ASSUME NEW w \in Workers, NEW batch \in SUBSET Assets, StartBatch(w, batch)
      PROVE  WorkerTypeOK' /\ AtWork'
  BY <1>3 DEF StartBatch
<1>4. ASSUME NEW w \in Workers, Crash(w)
      PROVE  WorkerTypeOK' /\ AtWork'
  BY <1>4 DEF Crash, Forget, NoResult, Outcome
<1>5. ASSUME NEW w \in Workers, Restart(w)
      PROVE  WorkerTypeOK' /\ AtWork'
  BY <1>5 DEF Restart
<1>6. ASSUME NEW w \in Workers, NEW a \in Assets, SkipMissing(w, a)
      PROVE  WorkerTypeOK' /\ AtWork'
  BY <1>6 DEF SkipMissing
<1>7. ASSUME NEW w \in Workers, NEW a \in Assets, StartAsset(w, a)
      PROVE  WorkerTypeOK' /\ AtWork'
  BY <1>7 DEF StartAsset
<1>8. ASSUME NEW w \in Workers, FinishBatch(w)
      PROVE  WorkerTypeOK' /\ AtWork'
  BY <1>8 DEF FinishBatch
<1>9. ASSUME NEW w \in Workers, ClearProfile(w)
      PROVE  WorkerTypeOK' /\ AtWork'
  BY <1>9 DEF ClearProfile, Fail, GoTo
<1>10. ASSUME NEW w \in Workers, StoreProfile(w)
       PROVE  WorkerTypeOK' /\ AtWork'
  BY <1>10 DEF StoreProfile, Fail, GoTo
<1>11. ASSUME NEW w \in Workers, RunStreams(w)
       PROVE  WorkerTypeOK' /\ AtWork'
  <2>1. PICK first \in [Streams -> Outcome], second \in [Streams -> Outcome],
             broader \in BOOLEAN :
          LET found == Adopted(first, second, broader) IN
          /\ results' = [results EXCEPT ![w] = found]
          /\ unsaved' = [unsaved EXCEPT ![w] = Attempted(found)]
          /\ GoTo(w, IF Attempted(found) = {} THEN "score" ELSE "clear_evidence",
                  ~ StreamErrors(first, second, broader))
    BY <1>11 DEF RunStreams
  <2> DEFINE found == Adopted(first, second, broader)
  <2>2. found \in [Streams -> Outcome] /\ Attempted(found) \subseteq Streams
    BY AdoptedType DEF Attempted
  <2>3. WorkerTypeOK'
    <3> HIDE DEF found
    <3>1. StreamErrors(first, second, broader) \in BOOLEAN
      BY DEF StreamErrors, Requeried
    <3>2. QED
      BY <1>11, <2>1, <2>2, <3>1 DEF RunStreams, GoTo, found
  <2>4. AtWork'
    BY <1>11, <2>1 DEF RunStreams, GoTo
  <2>5. QED
    BY <2>3, <2>4
<1>12. ASSUME NEW w \in Workers, ClearEvidence(w)
       PROVE  WorkerTypeOK' /\ AtWork'
  BY <1>12 DEF ClearEvidence, Fail, GoTo
<1>13. ASSUME NEW w \in Workers, StoreEvidence(w)
       PROVE  WorkerTypeOK' /\ AtWork'
  <2>1. CASE Fail(w, "score")
    BY <1>13, <2>1 DEF StoreEvidence, Fail, GoTo
  <2>2. ASSUME NEW s \in unsaved[w],
               unsaved' = [unsaved EXCEPT ![w] = @ \ {s}],
               GoTo(w, IF unsaved[w] = {s} THEN "score" ELSE "save_evidence", TRUE),
               UNCHANGED <<batches, control, current, profiled, results, history>>
        PROVE  WorkerTypeOK' /\ AtWork'
    <3>1. pc[w] = "save_evidence"
      BY <1>13 DEF StoreEvidence
    <3>2. QED
      BY <2>2, <3>1 DEF GoTo
  <2>3. QED
    BY <1>13, <2>1, <2>2 DEF StoreEvidence
<1>14. ASSUME NEW w \in Workers, StoreScore(w)
       PROVE  WorkerTypeOK' /\ AtWork'
  BY <1>14 DEF StoreScore, Fail, GoTo
<1>15. ASSUME NEW w \in Workers, Synthesise(w)
       PROVE  WorkerTypeOK' /\ AtWork'
  <2>1. pc[w] = "synthesise" /\ current[w] \in Assets
    BY <1>15 DEF Synthesise
  <2>2. PICK ok \in BOOLEAN :
          settled' = [settled EXCEPT ![current[w]] = IF ok /\ clean[w] THEN run[w] ELSE 0]
    BY <1>15 DEF Synthesise
  <2>3. settled' \in [Assets -> 0 .. MaxBatches]
    BY <2>1, <2>2
  <2>4. QED
    BY <1>15, <2>1, <2>3 DEF Synthesise, Forget, NoResult, Outcome
<1>16. ASSUME NEW w \in Workers, Fatal(w)
       PROVE  WorkerTypeOK' /\ AtWork'
  BY <1>16 DEF Fatal, Forget, NoResult, Outcome
<1>17. QED
  BY <1>1, <1>2, <1>3, <1>4, <1>5, <1>6, <1>7, <1>8, <1>9, <1>10, <1>11, <1>12,
     <1>13, <1>14, <1>15, <1>16 DEF Next, Process

\* The variables of the processes are well-typed, and a process has an asset exactly
\* while it is at a step of run_asset.
THEOREM WorkerTypes == Spec => [](WorkerTypeOK /\ AtWork)
<1>1. Init => WorkerTypeOK /\ AtWork
  BY PipelineAssumption
     DEF Init, WorkerTypeOK, AtWork, Working, Steps, NoResult, Outcome
<1>2. QED
  BY <1>1, WorkerStep, PTL DEF Spec

---------------------------------------------------------------------------
(***************************************************************************)
(* Pipeline.run implements the asset store.                                *)
(***************************************************************************)
\* A step of a process commits at most one transaction of the store, on rows of
\* the asset it is working on.
LEMMA ProcessTransaction ==
    ASSUME WorkerTypeOK, AtWork, NEW w \in Workers, Process(w)
    PROVE  \/ UNCHANGED storeVars
           \/ /\ current[w] \in Assets
              /\ \/ DeleteProfile(current[w])
                 \/ SaveProfile(current[w], run[w])
                 \/ \E streams \in SUBSET Streams : DeleteEvidence(current[w], streams)
                 \/ \E s \in Streams : SaveStreamResult(current[w], s, run[w])
                 \/ \E row \in Score : row.asset = current[w] /\ SaveScore(row)
                 \/ SaveSynthesis(current[w], run[w])
<1> USE PipelineAssumption DEF WorkerTypeOK
<1>1. CASE pc[w] \in {"idle", "down", "fetch", "run_streams"}
  BY <1>1 DEF Process, SkipMissing, StartAsset, FinishBatch, ClearProfile, StoreProfile,
     RunStreams, ClearEvidence, StoreEvidence, StoreScore, Synthesise, Fatal
<1>2. CASE pc[w] \notin {"idle", "down", "fetch", "run_streams"}
  <2>1. current[w] \in Assets /\ run[w] \in Runs /\ unsaved[w] \in SUBSET Streams
    BY <1>2 DEF AtWork, Working
  <2>2. CASE ClearProfile(w)
    BY <2>1, <2>2 DEF ClearProfile, Fail
  <2>3. CASE StoreProfile(w)
    BY <2>1, <2>3 DEF StoreProfile, Fail
  <2>4. CASE ClearEvidence(w)
    BY <2>1, <2>4 DEF ClearEvidence, Fail
  <2>5. CASE StoreEvidence(w)
    BY <2>1, <2>5 DEF StoreEvidence, Fail
  <2>6. CASE StoreScore(w)
    <3> DEFINE row == [asset |-> current[w], run |-> run[w], profiled |-> profiled[w],
                       basis |-> Useful(results[w])]
    <3>1. row \in Score /\ row.asset = current[w]
      BY <2>1 DEF Score, Useful
    <3>2. SaveScore(row) \/ UNCHANGED storeVars
      BY <2>6 DEF StoreScore, Fail
    <3> HIDE DEF row
    <3>3. QED
      BY <2>1, <3>1, <3>2
  <2>7. CASE Synthesise(w)
    BY <2>1, <2>7 DEF Synthesise
  <2>8. QED
    BY <1>2, <2>2, <2>3, <2>4, <2>5, <2>6, <2>7
       DEF Process, SkipMissing, StartAsset, FinishBatch, RunStreams, Fatal
<1>3. QED
  BY <1>1, <1>2

\* Every step of the system is a transaction of the store, or none.
LEMMA StepIsTransaction ==
    WorkerTypeOK /\ AtWork /\ [Next]_vars => [StoreNext]_storeVars
<1> SUFFICES ASSUME WorkerTypeOK, AtWork, [Next]_vars
             PROVE  [StoreNext]_storeVars
  OBVIOUS
<1>1. CASE UNCHANGED vars
  BY <1>1 DEF vars
<1>2. ASSUME NEW a \in Assets, AddAsset(a) \/ RemoveAsset(a)
      PROVE  StoreNext
  BY <1>2 DEF AddAsset, RemoveAsset, StoreNext
<1>3. ASSUME NEW w \in Workers, NEW batch \in SUBSET Assets, StartBatch(w, batch)
      PROVE  UNCHANGED storeVars
  BY <1>3 DEF StartBatch
<1>4. ASSUME NEW w \in Workers, Crash(w) \/ Restart(w)
      PROVE  UNCHANGED storeVars
  BY <1>4 DEF Crash, Restart
<1>5. ASSUME NEW w \in Workers, Process(w)
      PROVE  [StoreNext]_storeVars
  <2>1. run[w] \in Runs
    BY PipelineAssumption DEF WorkerTypeOK
  <2>2. QED
    BY <1>5, <2>1, ProcessTransaction DEF StoreNext
<1>6. QED
  BY <1>1, <1>2, <1>3, <1>4, <1>5 DEF Next

\* However many processes run however many batches, the tables change as the
\* store's own transactions allow.
THEOREM PipelineImplementsStore == Spec => StoreSpec
<1>1. Init => StoreInit
  BY DEF Init
<1>2. QED
  BY <1>1, WorkerTypes, StepIsTransaction, PTL DEF Spec, StoreSpec

\* The type invariant of the pipeline.
THEOREM PipelineTypes == Spec => []TypeOK
<1>1. StoreTypeOK /\ WorkerTypeOK => TypeOK
  BY DEF TypeOK, WorkerTypeOK
<1>2. QED
  BY <1>1, WorkerTypes, PipelineImplementsStore, StoreTypes, PTL

\* The foreign keys to source hold whatever the processes do.
THEOREM PipelineSourcesResolve == Spec => []SourcesResolve
BY PipelineImplementsStore, StoreSourcesResolve, PTL

\* A run that is in flight when its asset is deleted leaves nothing of it.
THEOREM PipelineNothingSurvivesDeletion == Spec => []NothingSurvivesDeletion
BY PipelineImplementsStore, StoreNothingSurvivesDeletion, PTL

\* No failure and no overlap takes the score of a stored asset away.
THEOREM PipelineScoreKept == Spec => ScoreKeptUntilDeletion
BY PipelineImplementsStore, StoreScoreKept, PTL

---------------------------------------------------------------------------
(***************************************************************************)
(* Isolation of the assets from one another.                               *)
(***************************************************************************)
\* The rows that belong to asset a.
RowsKept(a) ==
    /\ Of(profiles, a)' = Of(profiles, a)
    /\ Of(evidence, a)' = Of(evidence, a)
    /\ Of(scores, a)' = Of(scores, a)
    /\ Of(syntheses, a)' = Of(syntheses, a)

\* A process touches the rows of the asset it is working on only.
LEMMA ProcessFrame ==
    ASSUME WorkerTypeOK, AtWork, NEW w \in Workers, Process(w),
           NEW a \in Assets, a # current[w]
    PROVE  RowsKept(a) /\ stored' = stored /\ issued' = issued
<1> USE DEF RowsKept, Of, Without
<1>1. CASE UNCHANGED storeVars
  BY <1>1 DEF storeVars
<1>2. CASE DeleteProfile(current[w])
  BY <1>2 DEF DeleteProfile
<1>3. CASE SaveProfile(current[w], run[w])
  BY <1>3 DEF SaveProfile
<1>4. CASE \E streams \in SUBSET Streams : DeleteEvidence(current[w], streams)
  BY <1>4 DEF DeleteEvidence
<1>5. CASE \E s \in Streams : SaveStreamResult(current[w], s, run[w])
  BY <1>5 DEF SaveStreamResult
<1>6. CASE \E row \in Score : row.asset = current[w] /\ SaveScore(row)
  BY <1>6 DEF SaveScore
<1>7. CASE SaveSynthesis(current[w], run[w])
  BY <1>7 DEF SaveSynthesis
<1>8. QED
  BY <1>1, <1>2, <1>3, <1>4, <1>5, <1>6, <1>7, ProcessTransaction

\* The rows of a stored asset are not touched by adding or deleting another.
LEMMA EnvironmentFrame ==
    ASSUME StoreTypeOK, NEW b \in Assets, AddAsset(b) \/ RemoveAsset(b),
           NEW a \in stored \cap stored'
    PROVE  RowsKept(a)
BY DEF AddAsset, RemoveAsset, SaveAsset, DeleteAsset, RowsKept, Of, Without, StoreTypeOK

\* A step leaves the records of all assets alone that no process works on.
LEMMA OthersStep == TypeOK /\ WorkerTypeOK /\ AtWork /\ [Next]_vars =>
    [\A a \in stored \cap stored' : (\A w \in Workers : current[w] # a) => RowsKept(a)]_vars
<1> SUFFICES ASSUME TypeOK, WorkerTypeOK, AtWork, Next,
                    NEW a \in stored \cap stored', \A w \in Workers : current[w] # a
             PROVE  RowsKept(a)
  OBVIOUS
<1>1. StoreTypeOK /\ a \in Assets
  BY DEF TypeOK, StoreTypeOK
<1>2. ASSUME NEW b \in Assets, AddAsset(b) \/ RemoveAsset(b)
      PROVE  RowsKept(a)
  BY <1>1, <1>2, EnvironmentFrame
<1>3. ASSUME NEW w \in Workers, Process(w)
      PROVE  RowsKept(a)
  BY <1>1, <1>3, ProcessFrame
<1>4. CASE UNCHANGED storeVars
  BY <1>4 DEF storeVars, RowsKept, Of
<1>5. QED
  BY <1>2, <1>3, <1>4 DEF Next, StartBatch, Crash, Restart

\* "One asset never blocks the others", nor spoils their records.
THEOREM PipelineOthersUntouched == Spec => OthersUntouched
BY OthersStep, PipelineTypes, WorkerTypes, PTL DEF Spec, OthersUntouched, RowsKept

---------------------------------------------------------------------------
(***************************************************************************)
(* The record a run of Pipeline.run leaves of an asset: evidence of one    *)
(* run per stream, and after an error-free run a profile, a score and      *)
(* evidence that belong together, as long as no two processes have worked  *)
(* on the asset at the same time.                                          *)
(***************************************************************************)
\* Two processes that work on one asset are known to overlap on it.
Exclusive ==
    \A v, w \in Workers :
        (v # w /\ current[v] = current[w] /\ current[v] # NoAsset) => current[v] \in overlapped

\* An asset that is worked on or settled has been handed out, so it cannot be
\* added again; a settled asset is not being worked on.
Settlement ==
    /\ \A w \in Workers : current[w] # NoAsset => current[w] \in issued
    /\ \A a \in Assets : settled[a] # 0 =>
         /\ a \in issued
         /\ a \notin overlapped => \A w \in Workers : current[w] # a

\* The evidence rows of process w's asset are those it has written itself.
Written(w) ==
    Of(evidence, current[w]) =
        {[asset |-> current[w], stream |-> s, run |-> run[w]] :
            s \in Useful(results[w]) \ unsaved[w]}

\* How far the record of process w's asset has got, step by step of run_asset.
Progress(w) ==
    /\ pc[w] = "save_profile" => Of(profiles, current[w]) = {}
    /\ \/ pc[w] \in {"run_streams", "clear_evidence", "save_evidence"}
       \/ pc[w] \in {"score", "synthesise"} /\ clean[w]
       => profiled[w] /\ Of(profiles, current[w]) = {[asset |-> current[w], run |-> run[w]]}
    /\ pc[w] = "clear_evidence" /\ clean[w] => unsaved[w] = Streams
    /\ pc[w] = "save_evidence" =>
         \A e \in Of(evidence, current[w]) : e.stream \notin unsaved[w]
    /\ pc[w] \in {"save_evidence", "score", "synthesise"} /\ clean[w] => Written(w)
    /\ pc[w] \in {"score", "synthesise"} /\ clean[w] => unsaved[w] = {}
    /\ pc[w] = "synthesise" /\ clean[w] =>
         Of(scores, current[w]) = {[asset |-> current[w], run |-> run[w], profiled |-> TRUE,
                                    basis |-> Useful(results[w])]}

InProgress == \A w \in Workers : current[w] \in stored \ overlapped => Progress(w)

\* The inductive invariant.
RecordInv == Exclusive /\ Settlement /\ InProgress /\ EvidenceOfOneRun /\ CleanRunIsWhole

---------------------------------------------------------------------------
\* The memory of process w and its place in run_asset.
LocalKept(w) ==
    /\ run'[w] = run[w]
    /\ pc'[w] = pc[w]
    /\ current'[w] = current[w]
    /\ profiled'[w] = profiled[w]
    /\ results'[w] = results[w]
    /\ unsaved'[w] = unsaved[w]
    /\ clean'[w] = clean[w]

\* A process does not change another one's memory.
LEMMA ProcessLocal ==
    ASSUME WorkerTypeOK, NEW v \in Workers, Process(v), NEW w \in Workers, w # v
    PROVE  LocalKept(w)
<1> USE DEF WorkerTypeOK, LocalKept, memory, control
<1>1. ASSUME NEW a \in Assets, SkipMissing(v, a) \/ StartAsset(v, a)
      PROVE  LocalKept(w)
  BY <1>1 DEF SkipMissing, StartAsset
<1>2. CASE FinishBatch(v)
  BY <1>2 DEF FinishBatch
<1>3. CASE ClearProfile(v)
  BY <1>3 DEF ClearProfile, Fail, GoTo
<1>4. CASE StoreProfile(v)
  BY <1>4 DEF StoreProfile, Fail, GoTo
<1>5. CASE RunStreams(v)
  BY <1>5 DEF RunStreams, GoTo
<1>6. CASE ClearEvidence(v)
  BY <1>6 DEF ClearEvidence, Fail, GoTo
<1>7. CASE StoreEvidence(v)
  BY <1>7 DEF StoreEvidence, Fail, GoTo
<1>8. CASE StoreScore(v)
  BY <1>8 DEF StoreScore, Fail, GoTo
<1>9. CASE Synthesise(v)
  BY <1>9 DEF Synthesise, Forget
<1>10. CASE Fatal(v)
  BY <1>10 DEF Fatal, Forget
<1>11. QED
  BY <1>1, <1>2, <1>3, <1>4, <1>5, <1>6, <1>7, <1>8, <1>9, <1>10 DEF Process

\* Progress depends on the process's memory and its asset's rows only.
LEMMA ProgressKept ==
    ASSUME NEW w \in Workers, LocalKept(w), RowsKept(current[w]), Progress(w)
    PROVE  Progress(w)'
BY DEF LocalKept, RowsKept, Progress, Written, Useful, Of

\* So does a whole record.
LEMMA WholeRecordKept ==
    ASSUME NEW a \in Assets, NEW r, RowsKept(a), WholeRecord(a, r)
    PROVE  WholeRecord(a, r)'
BY DEF RowsKept, WholeRecord

\* The results adopted after a run of the streams without an error are those of
\* all the streams.
LEMMA CleanStreams ==
    ASSUME NEW first \in [Streams -> Outcome], NEW second \in [Streams -> Outcome],
           NEW broader \in BOOLEAN, ~ StreamErrors(first, second, broader)
    PROVE  Attempted(Adopted(first, second, broader)) = Streams
BY DEF StreamErrors, Adopted

---------------------------------------------------------------------------
\* Each step of run_asset takes the record of its asset one step further.
LEMMA OwnProgress ==
    ASSUME TypeOK, WorkerTypeOK, AtWork, NEW w \in Workers, Process(w),
           Working(w), Working(w)', Progress(w)
    PROVE  Progress(w)'
<1> USE DEF WorkerTypeOK, Progress, Working, memory, control
<1>1. current[w] \in Assets /\ current'[w] = current[w] /\ run'[w] = run[w]
  <2>1. current[w] \in Assets /\ ~ Synthesise(w) /\ ~ Fatal(w)
    BY DEF AtWork, Synthesise, Fatal
  <2>2. ~ FinishBatch(w) /\ \A a \in Assets : ~ SkipMissing(w, a) /\ ~ StartAsset(w, a)
    BY DEF FinishBatch, SkipMissing, StartAsset
  <2>3. ASSUME \/ ClearProfile(w) \/ StoreProfile(w) \/ RunStreams(w)
               \/ ClearEvidence(w) \/ StoreScore(w) \/ StoreEvidence(w)
        PROVE  current' = current /\ run' = run
    BY <2>3 DEF ClearProfile, StoreProfile, RunStreams, ClearEvidence, StoreEvidence,
       StoreScore, Fail
  <2>4. QED
    BY <2>1, <2>2, <2>3 DEF Process
<1>2. CASE ClearProfile(w)
  BY <1>1, <1>2 DEF ClearProfile, DeleteProfile, Fail, GoTo, Of, Without
<1>3. CASE StoreProfile(w)
  <2>1. CASE Fail(w, "score")
    BY <1>1, <1>3, <2>1 DEF StoreProfile, Fail, GoTo
  <2>2. CASE /\ SaveProfile(current[w], run[w])
             /\ profiled' = [profiled EXCEPT ![w] = TRUE]
             /\ GoTo(w, "run_streams", TRUE)
    <3>1. Of(profiles', current[w]) = {[asset |-> current[w], run |-> run[w]]}
      BY <2>2 DEF SaveProfile, Of
    <3>2. pc'[w] = "run_streams" /\ profiled'[w]
      BY <2>2 DEF GoTo
    <3>3. QED
      BY <1>1, <3>1, <3>2
  <2>3. QED
    BY <1>3, <2>1, <2>2 DEF StoreProfile
<1>4. CASE RunStreams(w)
  <2>1. PICK first \in [Streams -> Outcome], second \in [Streams -> Outcome],
             broader \in BOOLEAN :
          LET found == Adopted(first, second, broader) IN
          /\ results' = [results EXCEPT ![w] = found]
          /\ unsaved' = [unsaved EXCEPT ![w] = Attempted(found)]
          /\ GoTo(w, IF Attempted(found) = {} THEN "score" ELSE "clear_evidence",
                  ~ StreamErrors(first, second, broader))
    BY <1>4 DEF RunStreams
  <2> DEFINE found == Adopted(first, second, broader)
             failed == StreamErrors(first, second, broader)
  <2>2. found \in [Streams -> Outcome]
    BY AdoptedType
  <2>3. ~ failed => Attempted(found) = Streams
    BY CleanStreams
  <2>4. failed \in BOOLEAN /\ Useful(found) \subseteq Streams /\ Attempted(found) \subseteq Streams
    BY DEF StreamErrors, Requeried, Useful, Attempted
  <2>5. /\ results'[w] = found
        /\ unsaved'[w] = Attempted(found)
        /\ clean'[w] = (clean[w] /\ ~ failed)
        /\ pc'[w] = IF Attempted(found) = {} THEN "score" ELSE "clear_evidence"
        /\ profiled'[w] = profiled[w]
        /\ profiles' = profiles /\ evidence' = evidence
    BY <1>4, <2>1, <2>2, <2>4 DEF RunStreams, GoTo, storeVars
  <2>6. pc[w] = "run_streams"
    BY <1>4 DEF RunStreams
  <2> HIDE DEF found, failed
  <2>7. pc'[w] = "score" /\ clean'[w] => Written(w)'
    <3> SUFFICES ASSUME pc'[w] = "score", clean'[w]
                 PROVE  Written(w)'
      OBVIOUS
    <3>1. Streams = {}
      BY <2>3, <2>4, <2>5
    <3>2. Of(evidence, current[w]) = {} /\ Useful(found) = {}
      BY <3>1, <2>4 DEF TypeOK, StoreTypeOK, Evidence, Of
    <3>3. QED
      BY <1>1, <2>5, <3>2 DEF Written
  <2>8. QED
    BY <1>1, <2>3, <2>4, <2>5, <2>6, <2>7
<1>5. CASE ClearEvidence(w)
  <2>1. CASE Fail(w, "score")
    BY <1>1, <1>5, <2>1 DEF ClearEvidence, Fail, GoTo
  <2>2. CASE DeleteEvidence(current[w], unsaved[w]) /\ GoTo(w, "save_evidence", TRUE)
             /\ UNCHANGED memory
    <3>1. \A e \in Of(evidence', current[w]) : e.stream \notin unsaved[w]
      BY <2>2 DEF DeleteEvidence, Of
    <3>2. unsaved[w] = Streams => Of(evidence', current[w]) = {}
      BY <3>1, <2>2 DEF TypeOK, StoreTypeOK, Evidence, DeleteEvidence, Of
    <3>3. unsaved[w] = Streams => Written(w)'
      BY <1>1, <2>2, <3>2 DEF Written, Useful
    <3>4. QED
      BY <1>1, <1>5, <2>2, <3>1, <3>3 DEF ClearEvidence, DeleteEvidence, GoTo
  <2>3. QED
    BY <1>5, <2>1, <2>2 DEF ClearEvidence
<1>6. CASE StoreEvidence(w)
  <2>1. CASE Fail(w, "score")
    BY <1>1, <1>6, <2>1 DEF StoreEvidence, Fail, GoTo
  <2>2. ASSUME NEW s \in unsaved[w],
               IF results[w][s] = "useful"
                 THEN SaveStreamResult(current[w], s, run[w])
                 ELSE UNCHANGED storeVars,
               unsaved' = [unsaved EXCEPT ![w] = @ \ {s}],
               GoTo(w, IF unsaved[w] = {s} THEN "score" ELSE "save_evidence", TRUE),
               UNCHANGED <<profiled, results>>
        PROVE  Progress(w)'
    <3>1. pc[w] = "save_evidence" /\ s \in Streams
      BY <1>6 DEF StoreEvidence
    <3>2. profiles' = profiles /\ unsaved'[w] = unsaved[w] \ {s}
      BY <2>2 DEF SaveStreamResult, storeVars
    <3>3. Of(evidence', current[w]) =
            IF results[w][s] = "useful"
              THEN Of(evidence, current[w])
                     \cup {[asset |-> current[w], stream |-> s, run |-> run[w]]}
              ELSE Of(evidence, current[w])
      BY <2>2 DEF SaveStreamResult, storeVars, Of
    <3>4. Written(w) => Written(w)'
      <4>1. Useful(results[w]) \ unsaved'[w] =
              IF results[w][s] = "useful" THEN (Useful(results[w]) \ unsaved[w]) \cup {s}
                                          ELSE Useful(results[w]) \ unsaved[w]
        BY <3>1, <3>2 DEF Useful
      <4>2. QED
        BY <1>1, <2>2, <3>3, <4>1 DEF Written
    <3>5. \A e \in Of(evidence', current[w]) : e.stream \notin unsaved'[w]
      BY <3>1, <3>2, <3>3
    <3>6. QED
      BY <1>1, <2>2, <3>1, <3>2, <3>4, <3>5 DEF GoTo
  <2>3. QED
    BY <1>6, <2>1, <2>2 DEF StoreEvidence
<1>7. CASE StoreScore(w)
  <2>1. CASE Fail(w, "synthesise")
    BY <1>1, <1>7, <2>1 DEF StoreScore, Fail, GoTo
  <2>2. ASSUME NEW ok \in BOOLEAN, GoTo(w, "synthesise", ok), UNCHANGED memory,
               SaveScore([asset |-> current[w], run |-> run[w], profiled |-> profiled[w],
                          basis |-> Useful(results[w])])
        PROVE  Progress(w)'
    <3> DEFINE row == [asset |-> current[w], run |-> run[w], profiled |-> profiled[w],
                       basis |-> Useful(results[w])]
    <3>1. Of(scores', current[w]) = {row}
      BY <2>2 DEF SaveScore, Of, Without
    <3>2. profiles' = profiles /\ evidence' = evidence
      BY <2>2 DEF SaveScore
    <3>3. pc[w] = "score" /\ pc'[w] = "synthesise" /\ clean'[w] = (clean[w] /\ ok)
      BY <1>7, <2>2 DEF StoreScore, GoTo
    <3>4. clean[w] => Written(w)' /\ profiled[w] = TRUE
      BY <1>1, <2>2, <3>2, <3>3 DEF Written
    <3>5. QED
      BY <1>1, <2>2, <3>1, <3>2, <3>3, <3>4
  <2>3. QED
    BY <1>7, <2>1, <2>2 DEF StoreScore
<1>8. QED
  BY <1>2, <1>3, <1>4, <1>5, <1>6, <1>7
     DEF Process, SkipMissing, StartAsset, FinishBatch, Synthesise, Fatal

---------------------------------------------------------------------------
\* A step that writes nothing, after which every process is as before or idle.
LEMMA IdleStep ==
    ASSUME TypeOK, RecordInv, UNCHANGED storeVars, UNCHANGED history,
           \A v \in Workers : LocalKept(v) \/ current'[v] = NoAsset
    PROVE  RecordInv'
<1> USE DEF RecordInv
<1>1. \A v \in Workers : current'[v] # NoAsset => current'[v] = current[v]
  BY DEF LocalKept
<1>2. Exclusive' /\ Settlement'
  BY <1>1, PipelineAssumption DEF Exclusive, Settlement, storeVars, history
<1>3. \A a \in Assets : RowsKept(a)
  BY DEF RowsKept, Of, storeVars
<1>4. InProgress'
  <2> SUFFICES ASSUME NEW v \in Workers, current'[v] \in stored \ overlapped
               PROVE  Progress(v)'
    BY DEF InProgress, storeVars, history
  <2>1. current'[v] \in Assets /\ current'[v] # NoAsset
    BY PipelineAssumption DEF TypeOK, StoreTypeOK
  <2>2. LocalKept(v) /\ current[v] = current'[v] /\ Progress(v)
    BY <1>1, <2>1 DEF InProgress
  <2>3. QED
    BY <1>3, <2>1, <2>2, ProgressKept
<1>5. EvidenceOfOneRun' /\ CleanRunIsWhole'
  BY DEF EvidenceOfOneRun, CleanRunIsWhole, WholeRecord, Of, storeVars, history
<1>6. QED
  BY <1>2, <1>4, <1>5

\* Adding or deleting an asset.
LEMMA EnvironmentStep ==
    ASSUME TypeOK, RecordInv, NEW b \in Assets, AddAsset(b) \/ RemoveAsset(b)
    PROVE  RecordInv'
<1> USE DEF RecordInv
<1>1. UNCHANGED workerVars /\ issued \subseteq issued' /\ evidence' \subseteq evidence
  BY DEF AddAsset, RemoveAsset, SaveAsset, DeleteAsset, Without
<1>2. \A a \in issued : a \in stored' => a \in stored /\ a \in Assets /\ RowsKept(a)
  <2>1. \A a \in issued : a \in stored' => a \in stored /\ a \in Assets
    BY DEF AddAsset, RemoveAsset, SaveAsset, DeleteAsset, TypeOK, StoreTypeOK
  <2>2. QED
    BY <2>1, EnvironmentFrame DEF TypeOK
<1>3. Exclusive' /\ Settlement'
  BY <1>1 DEF Exclusive, Settlement, workerVars
<1>4. InProgress'
  <2> SUFFICES ASSUME NEW v \in Workers, current[v] \in stored' \ overlapped
               PROVE  Progress(v)'
    BY <1>1 DEF InProgress, workerVars
  <2>1. current[v] # NoAsset
    BY PipelineAssumption DEF TypeOK, StoreTypeOK, AddAsset, RemoveAsset, SaveAsset, DeleteAsset
  <2>2. current[v] \in stored /\ RowsKept(current[v])
    BY <1>2, <2>1 DEF Settlement
  <2>3. LocalKept(v)
    BY <1>1 DEF LocalKept, workerVars
  <2>4. QED
    BY <2>2, <2>3, ProgressKept DEF InProgress
<1>5. EvidenceOfOneRun'
  BY <1>1 DEF EvidenceOfOneRun, workerVars
<1>6. CleanRunIsWhole'
  <2> SUFFICES ASSUME NEW a \in stored' \ overlapped, settled[a] # 0
               PROVE  WholeRecord(a, settled[a])'
    BY <1>1 DEF CleanRunIsWhole, workerVars
  <2>1. a \in Assets
    BY DEF TypeOK, StoreTypeOK, AddAsset, RemoveAsset, SaveAsset, DeleteAsset
  <2>2. a \in stored /\ RowsKept(a)
    BY <1>2, <2>1 DEF Settlement
  <2>3. WholeRecord(a, settled[a])
    BY <2>2 DEF CleanRunIsWhole
  <2>4. settled'[a] = settled[a]
    BY <1>1 DEF workerVars
  <2>5. QED
    BY <2>1, <2>2, <2>3, <2>4, WholeRecordKept
<1>7. QED
  BY <1>3, <1>4, <1>5, <1>6

\* A process finds the next asset of its batch and begins to work on it.
LEMMA StartStep ==
    ASSUME TypeOK, RecordInv, NEW w \in Workers, NEW a \in Assets, StartAsset(w, a)
    PROVE  RecordInv'
<1> USE DEF RecordInv
<1>1. /\ UNCHANGED storeVars
      /\ current' = [current EXCEPT ![w] = a]
      /\ settled' = [settled EXCEPT ![a] = 0]
      /\ overlapped \subseteq overlapped'
      /\ overlapped' \subseteq overlapped \cup {a}
      /\ (\E v \in Workers \ {w} : current[v] = a) => a \in overlapped'
      /\ pc'[w] = "clear_profile"
      /\ a \in stored
  BY DEF StartAsset, TypeOK
<1>2. \A v \in Workers \ {w} : LocalKept(v)
  BY DEF StartAsset, LocalKept, memory, TypeOK
<1>3. Exclusive'
  BY <1>1 DEF Exclusive, TypeOK
<1>4. Settlement'
  BY <1>1 DEF Settlement, TypeOK, StoreTypeOK, storeVars
<1>5. \A b \in Assets : RowsKept(b)
  BY <1>1 DEF RowsKept, Of, storeVars
<1>6. InProgress'
  <2> SUFFICES ASSUME NEW v \in Workers, current'[v] \in stored \ overlapped'
               PROVE  Progress(v)'
    BY <1>1 DEF InProgress, storeVars
  <2>1. CASE v = w
    BY <1>1, <2>1 DEF Progress
  <2>2. CASE v # w
    <3>1. LocalKept(v) /\ Progress(v) /\ current[v] \in Assets
      BY <1>1, <1>2, <2>2 DEF InProgress, LocalKept, TypeOK, StoreTypeOK
    <3>2. QED
      BY <1>5, <3>1, ProgressKept
  <2>3. QED
    BY <2>1, <2>2
<1>7. EvidenceOfOneRun' /\ CleanRunIsWhole'
  <2>1. \A b \in Assets : settled'[b] # 0 => settled'[b] = settled[b]
    BY <1>1 DEF TypeOK
  <2>2. stored \subseteq Assets
    BY DEF TypeOK, StoreTypeOK
  <2>3. EvidenceOfOneRun'
    BY <1>1 DEF EvidenceOfOneRun, storeVars
  <2>4. ASSUME NEW b \in stored \ overlapped', settled'[b] # 0
        PROVE  WholeRecord(b, settled[b])'
    BY <1>1, <1>5, <2>1, <2>2, <2>4, WholeRecordKept DEF CleanRunIsWhole
  <2>5. QED
    BY <1>1, <2>3, <2>4 DEF CleanRunIsWhole, storeVars
<1>8. QED
  BY <1>3, <1>4, <1>6, <1>7

\* A step inside run_asset duplicates no evidence.
LEMMA EvidenceStep ==
    ASSUME TypeOK, WorkerTypeOK, AtWork, NEW w \in Workers, Process(w), Working(w),
           Working(w)', EvidenceOfOneRun,
           current[w] \in stored \ overlapped => Progress(w), overlapped' = overlapped
    PROVE  EvidenceOfOneRun'
<1>1. CASE evidence' \subseteq evidence
  BY <1>1 DEF EvidenceOfOneRun
<1>2. ASSUME NEW s \in Streams, SaveStreamResult(current[w], s, run[w])
      PROVE  EvidenceOfOneRun'
  <2>1. (pc[w] = "save_evidence" /\ s \in unsaved[w]) \/ evidence' \subseteq evidence
    <3>1. CASE StoreEvidence(w)
      <4>1. CASE Fail(w, "score")
        BY <4>1 DEF Fail, storeVars
      <4>2. ASSUME NEW t \in unsaved[w],
                   IF results[w][t] = "useful" THEN SaveStreamResult(current[w], t, run[w])
                                               ELSE UNCHANGED storeVars
            PROVE  s \in unsaved[w] \/ evidence' \subseteq evidence
        <5>1. CASE UNCHANGED storeVars
          BY <5>1 DEF storeVars
        <5>2. CASE SaveStreamResult(current[w], t, run[w])
          BY <1>2, <5>2 DEF SaveStreamResult
        <5>3. QED
          BY <4>2, <5>1, <5>2
      <4>3. QED
        BY <3>1, <4>1, <4>2 DEF StoreEvidence
    <3>2. CASE ~ StoreEvidence(w)
      BY <3>2 DEF Process, SkipMissing, StartAsset, FinishBatch, ClearProfile, DeleteProfile,
         StoreProfile, SaveProfile, RunStreams, ClearEvidence, DeleteEvidence, StoreScore,
         SaveScore, Synthesise, SaveSynthesis, Fatal, Fail, storeVars
    <3>3. QED
      BY <3>1, <3>2
  <2>2. CASE pc[w] = "save_evidence" /\ s \in unsaved[w]
    <3>1. current[w] \notin overlapped =>
            \A e \in evidence : e.asset = current[w] => e.stream # s
      BY <1>2, <2>2 DEF SaveStreamResult, Progress, Of
    <3>2. QED
      BY <1>2, <3>1 DEF EvidenceOfOneRun, SaveStreamResult
  <2>3. QED
    BY <1>1, <2>1, <2>2
<1>3. QED
  <2>1. CASE UNCHANGED evidence
    BY <1>1, <2>1
  <2>2. CASE \E streams \in SUBSET Streams : DeleteEvidence(current[w], streams)
    BY <1>1, <2>2 DEF DeleteEvidence
  <2>3. QED
    BY <1>2, <2>1, <2>2, ProcessTransaction
       DEF storeVars, DeleteProfile, SaveProfile, SaveScore, SaveSynthesis

\* The steps between the beginning and the end of run_asset.
LEMMA WorkStep ==
    ASSUME TypeOK, WorkerTypeOK, AtWork, RecordInv, NEW w \in Workers, Process(w),
           Working(w), Working(w)'
    PROVE  RecordInv'
<1> USE DEF RecordInv
<1>1. UNCHANGED <<current, overlapped, settled>> /\ current[w] \in Assets
  <2>1. ~ FinishBatch(w) /\ \A a \in Assets : ~ SkipMissing(w, a) /\ ~ StartAsset(w, a)
    BY DEF FinishBatch, SkipMissing, StartAsset, Working
  <2>2. ~ Synthesise(w) /\ ~ Fatal(w)
    BY DEF Synthesise, Fatal, Working, WorkerTypeOK
  <2>3. current[w] \in Assets
    BY DEF AtWork, WorkerTypeOK
  <2>4. QED
    BY <2>1, <2>2, <2>3 DEF Process, ClearProfile, StoreProfile, RunStreams, ClearEvidence,
       StoreEvidence, StoreScore, Fail, history
<1>2. stored' = stored /\ issued' = issued
  BY ProcessTransaction DEF storeVars, DeleteProfile, SaveProfile, DeleteEvidence,
     SaveStreamResult, SaveScore, SaveSynthesis
<1>3. \A a \in Assets : a # current[w] => RowsKept(a)
  BY ProcessFrame
<1>4. Exclusive' /\ Settlement'
  BY <1>1, <1>2 DEF Exclusive, Settlement
<1>5. InProgress'
  <2> SUFFICES ASSUME NEW v \in Workers, current[v] \in stored \ overlapped
               PROVE  Progress(v)'
    BY <1>1, <1>2 DEF InProgress
  <2>1. Progress(v) /\ current[v] \in Assets
    BY DEF InProgress, TypeOK, StoreTypeOK
  <2>2. CASE v = w
    BY <2>1, <2>2, OwnProgress
  <2>3. CASE v # w
    <3>1. current[v] # current[w]
      BY <1>1, <2>1, <2>3, PipelineAssumption DEF Exclusive
    <3>2. LocalKept(v) /\ RowsKept(current[v])
      BY <1>3, <2>1, <2>3, <3>1, ProcessLocal
    <3>3. QED
      BY <2>1, <3>2, ProgressKept
  <2>4. QED
    BY <2>2, <2>3
<1>6. EvidenceOfOneRun'
  BY <1>1, EvidenceStep DEF InProgress
<1>7. CleanRunIsWhole'
  <2> SUFFICES ASSUME NEW a \in stored \ overlapped, settled[a] # 0
               PROVE  WholeRecord(a, settled[a])'
    BY <1>1, <1>2 DEF CleanRunIsWhole
  <2>1. a \in Assets /\ a # current[w] /\ WholeRecord(a, settled[a])
    BY DEF Settlement, CleanRunIsWhole, TypeOK, StoreTypeOK
  <2>2. QED
    BY <1>1, <1>3, <2>1, WholeRecordKept
<1>8. QED
  BY <1>4, <1>5, <1>6, <1>7

\* The end of run_asset: without an error, the record is whole.
LEMMA SettleStep ==
    ASSUME TypeOK, WorkerTypeOK, AtWork, RecordInv, NEW w \in Workers, Synthesise(w)
    PROVE  RecordInv'
<1> USE DEF RecordInv
<1>1. /\ overlapped' = overlapped
      /\ current' = [current EXCEPT ![w] = NoAsset]
      /\ UNCHANGED <<profiles, evidence, scores>>
      /\ Process(w)
  BY DEF Synthesise, Forget, SaveSynthesis, storeVars, Process
<1>2. current[w] \in Assets /\ pc[w] = "synthesise" /\ stored' = stored /\ issued' = issued
  BY DEF AtWork, Working, WorkerTypeOK, Synthesise, SaveSynthesis, storeVars
<1>3. PICK ok \in BOOLEAN :
        settled' = [settled EXCEPT ![current[w]] = IF ok /\ clean[w] THEN run[w] ELSE 0]
  BY DEF Synthesise
<1>4. \A v \in Workers \ {w} : current'[v] = current[v] /\ LocalKept(v)
  BY <1>1, ProcessLocal DEF WorkerTypeOK
<1>5. Exclusive'
  BY <1>1, <1>4, PipelineAssumption DEF Exclusive, WorkerTypeOK
<1>6. Settlement'
  <2>1. \A v \in Workers : current'[v] # NoAsset => current'[v] \in issued'
    BY <1>1, <1>2, <1>4 DEF Settlement, WorkerTypeOK
  <2>2. ASSUME NEW a \in Assets, settled'[a] # 0
        PROVE  a \in issued' /\ (a \notin overlapped' => \A v \in Workers : current'[v] # a)
    <3>1. CASE a = current[w]
      BY <1>1, <1>2, <1>4, <3>1, PipelineAssumption
         DEF Settlement, Exclusive, WorkerTypeOK
    <3>2. CASE a # current[w]
      BY <1>1, <1>2, <1>3, <1>4, <2>2, <3>2, PipelineAssumption DEF Settlement, WorkerTypeOK
    <3>3. QED
      BY <3>1, <3>2
  <2>3. QED
    BY <2>1, <2>2 DEF Settlement
<1>7. InProgress'
  <2> SUFFICES ASSUME NEW v \in Workers, current'[v] \in stored \ overlapped
               PROVE  Progress(v)'
    BY <1>1, <1>2 DEF InProgress
  <2>1. v # w /\ current'[v] = current[v] /\ current[v] \in Assets
    BY <1>1, <1>4, PipelineAssumption DEF TypeOK, StoreTypeOK, WorkerTypeOK
  <2>2. LocalKept(v) /\ Progress(v)
    BY <1>4, <2>1 DEF InProgress
  <2>3. current[v] # current[w]
    BY <2>1, PipelineAssumption DEF Exclusive
  <2>4. RowsKept(current[v])
    BY <1>1, <2>1, <2>3, ProcessFrame
  <2>5. QED
    BY <2>2, <2>4, ProgressKept
<1>8. EvidenceOfOneRun'
  BY <1>1 DEF EvidenceOfOneRun
<1>9. CleanRunIsWhole'
  <2> SUFFICES ASSUME NEW a \in stored \ overlapped, settled'[a] # 0
               PROVE  WholeRecord(a, settled[a])'
    BY <1>1, <1>2 DEF CleanRunIsWhole
  <2>1. a \in Assets
    BY DEF TypeOK, StoreTypeOK
  <2>2. CASE a = current[w]
    <3>1. settled'[a] = run[w] /\ clean[w]
      BY <1>2, <1>3, <2>2 DEF WorkerTypeOK
    <3>2. Progress(w)
      BY <2>2 DEF InProgress
    <3>3. /\ Of(profiles, a) = {[asset |-> a, run |-> run[w]]}
          /\ Of(scores, a) = {[asset |-> a, run |-> run[w], profiled |-> TRUE,
                               basis |-> Useful(results[w])]}
          /\ Of(evidence, a) = {[asset |-> a, stream |-> s, run |-> run[w]] :
                                  s \in Useful(results[w])}
      BY <1>2, <2>2, <3>1, <3>2 DEF Progress, Written
    <3>4. Useful(results[w]) \in SUBSET Streams
      BY DEF Useful
    <3>5. WholeRecord(a, run[w])
      BY <3>3, <3>4 DEF WholeRecord
    <3>6. QED
      BY <1>1, <3>1, <3>5 DEF WholeRecord, Of
  <2>3. CASE a # current[w]
    <3>1. settled'[a] = settled[a] /\ RowsKept(a)
      BY <1>1, <1>3, <2>1, <2>3, ProcessFrame DEF WorkerTypeOK
    <3>2. QED
      BY <2>1, <3>1, WholeRecordKept DEF CleanRunIsWhole
  <2>4. QED
    BY <2>2, <2>3
<1>10. QED
  BY <1>5, <1>6, <1>7, <1>8, <1>9

---------------------------------------------------------------------------
\* Every step keeps the record invariant.
LEMMA RecordStep ==
    TypeOK /\ WorkerTypeOK /\ AtWork /\ AtWork' /\ RecordInv /\ [Next]_vars => RecordInv'
<1> SUFFICES ASSUME TypeOK, WorkerTypeOK, AtWork, AtWork', RecordInv, [Next]_vars
             PROVE  RecordInv'
  OBVIOUS
<1>1. CASE UNCHANGED vars
  BY <1>1, IdleStep DEF vars, workerVars, history, LocalKept
<1>2. ASSUME NEW a \in Assets, AddAsset(a) \/ RemoveAsset(a)
      PROVE  RecordInv'
  BY <1>2, EnvironmentStep
<1>3. ASSUME NEW w \in Workers, NEW batch \in SUBSET Assets, StartBatch(w, batch)
      PROVE  RecordInv'
  <2>1. \A v \in Workers : LocalKept(v) \/ current'[v] = NoAsset
    BY <1>3 DEF StartBatch, LocalKept, memory, AtWork, Working, WorkerTypeOK
  <2>2. QED
    BY <1>3, <2>1, IdleStep DEF StartBatch
<1>4. ASSUME NEW w \in Workers, Crash(w) \/ Restart(w)
      PROVE  RecordInv'
  <2>1. \A v \in Workers : LocalKept(v) \/ current'[v] = NoAsset
    BY <1>4 DEF Crash, Restart, Forget, LocalKept, memory, control, AtWork, Working,
       WorkerTypeOK
  <2>2. QED
    BY <1>4, <2>1, IdleStep DEF Crash, Restart
<1>5. ASSUME NEW w \in Workers, Process(w)
      PROVE  RecordInv'
  <2>1. CASE Working(w) /\ Working(w)'
    BY <1>5, <2>1, WorkStep
  <2>2. CASE Synthesise(w)
    BY <2>2, SettleStep
  <2>3. ASSUME NEW a \in Assets, StartAsset(w, a)
        PROVE  RecordInv'
    BY <2>3, StartStep
  <2>4. ASSUME NEW a \in Assets, SkipMissing(w, a)
        PROVE  RecordInv'
    <3>1. \A v \in Workers : LocalKept(v) \/ current'[v] = NoAsset
      BY <2>4 DEF SkipMissing, LocalKept, memory
    <3>2. QED
      BY <2>4, <3>1, IdleStep DEF SkipMissing
  <2>5. CASE FinishBatch(w)
    <3>1. \A v \in Workers : LocalKept(v) \/ current'[v] = NoAsset
      BY <2>5 DEF FinishBatch, LocalKept, memory, control, AtWork, Working, WorkerTypeOK
    <3>2. QED
      BY <2>5, <3>1, IdleStep DEF FinishBatch
  <2>6. CASE Fatal(w)
    <3>1. \A v \in Workers : LocalKept(v) \/ current'[v] = NoAsset
      BY <2>6 DEF Fatal, Forget, LocalKept, WorkerTypeOK
    <3>2. QED
      BY <2>6, <3>1, IdleStep DEF Fatal
  <2>7. ASSUME Process(w), ~ Synthesise(w), ~ Fatal(w), ~ FinishBatch(w),
               \A a \in Assets : ~ SkipMissing(w, a) /\ ~ StartAsset(w, a)
        PROVE  Working(w) /\ Working(w)'
    BY <2>7 DEF Process, Working, WorkerTypeOK, ClearProfile, StoreProfile, RunStreams,
       ClearEvidence, StoreEvidence, StoreScore, Fail, GoTo
  <2>8. QED
    BY <1>5, <2>1, <2>2, <2>3, <2>4, <2>5, <2>6, <2>7
<1>6. QED
  BY <1>1, <1>2, <1>3, <1>4, <1>5 DEF Next

\* The invariant holds of every execution.
THEOREM RecordInvariant == Spec => []RecordInv
<1>1. Init => RecordInv
  BY DEF Init, StoreInit, RecordInv, Exclusive, Settlement, InProgress, EvidenceOfOneRun,
     CleanRunIsWhole
<1>2. QED
  BY <1>1, RecordStep, PipelineTypes, WorkerTypes, PTL DEF Spec

\* "Replaced, not duplicated": the evidence of a stream for an asset comes from
\* one run, unless two processes have worked on the asset at once.
THEOREM PipelineEvidenceOfOneRun == Spec => []EvidenceOfOneRun
BY RecordInvariant, PTL DEF RecordInv

\* After an error-free run, and until the next, the profile, the score and the
\* evidence of an asset are those of that run and agree with one another.
THEOREM PipelineCleanRunIsWhole == Spec => []CleanRunIsWhole
BY RecordInvariant, PTL DEF RecordInv


---------------------------------------------------------------------------
(***************************************************************************)
(* The boot of the demo.  A boot adds to the steps of the pipeline only    *)
(* the death of a process that is not running it; so what the pipeline     *)
(* guarantees holds of every boot too.                                     *)
(***************************************************************************)
Phases == {"none", "seeding", "scoring"}

BootTypeInv ==
    /\ demo \in [Assets -> Demos \cup {NoDemo}]
    /\ boot \in [Workers -> [phase : Phases, pending : SUBSET Demos, new : SUBSET Assets]]
    /\ together \in BOOLEAN
    /\ untroubled \in [Workers -> BOOLEAN]

\* A process that saves demos does not run the pipeline, and one that scores them does.
PhaseInv ==
    \A w \in Workers :
        /\ boot[w].phase = "seeding" => pc[w] = "idle"
        /\ boot[w].phase = "scoring" => pc[w] \notin {"idle", "down"}

BaseInv == StoreTypeOK /\ WorkerTypeOK /\ AtWork /\ BootTypeInv /\ PhaseInv

\* A process that is not booting.
LEMMA NoBootType ==
    /\ NoBoot \in [phase : Phases, pending : SUBSET Demos, new : SUBSET Assets]
    /\ NoBoot.phase = "none" /\ NoBoot.pending = {} /\ NoBoot.new = {}
BY DEF NoBoot, Phases

\* What a step of the pipeline is in a boot.
PipelineAction ==
    \/ \E a \in Assets : RemoveAsset(a)
    \/ \E w \in Workers : Crash(w) \/ Restart(w) \/ Process(w)

\* What such a step does to the boots.
LEMMA PipelineStepFacts ==
    ASSUME BootTypeInv, PipelineStep
    PROVE  /\ PipelineAction /\ UNCHANGED <<demo, boots, together>>
           /\ \A w \in Workers :
                /\ boot'[w] = IF boot[w].phase = "scoring" /\ pc'[w] \in {"idle", "down"}
                                THEN NoBoot ELSE boot[w]
                /\ untroubled'[w] = (untroubled[w] /\ stored \subseteq stored' /\ ~ FailsToScore(w))
BY DEF PipelineStep, PipelineAction

\* To the variables of the pipeline, a step of the demo is one of the pipeline, no
\* step at all, or the death of a process.
LEMMA SeedStepKinds ==
    ASSUME StoreTypeOK, BootTypeInv, [SeedNext]_seedVars
    PROVE  [Next]_vars \/ \E w \in Workers : BootCrash(w)
<1>1. CASE UNCHANGED seedVars
  BY <1>1 DEF seedVars
<1>2. CASE PipelineStep
  BY <1>2 DEF PipelineStep, Next
<1>3. ASSUME NEW w \in Workers, BeginBoot(w) PROVE [Next]_vars
  BY <1>3 DEF BeginBoot
<1>4. ASSUME NEW w \in Workers, SeedOne(w) PROVE [Next]_vars
  BY <1>4 DEF SeedOne, Next, AddAsset
<1>5. ASSUME NEW w \in Workers, BeginScoring(w) PROVE [Next]_vars
  <2>1. ToScore(w) \in SUBSET Assets
    BY DEF ToScore, Unscored, StoreTypeOK, BootTypeInv
  <2>2. CASE UNCHANGED vars
    BY <2>2
  <2>3. CASE ToScore(w) # {} /\ StartBatch(w, ToScore(w))
    <3>1. ToScore(w) \in (SUBSET Assets) \ {{}}
      BY <2>1, <2>3
    <3>2. \E batch \in (SUBSET Assets) \ {{}} : StartBatch(w, batch)
      BY <2>3, <3>1
    <3>3. QED
      BY <3>2 DEF Next
  <2>4. QED
    BY <1>5, <2>2, <2>3 DEF BeginScoring
<1>6. QED
  BY <1>1, <1>2, <1>3, <1>4, <1>5 DEF SeedNext, SeedStep

\* The death of a process that saves demos.
LEMMA BootCrashFacts ==
    ASSUME BaseInv, NEW w \in Workers, BootCrash(w)
    PROVE  /\ UNCHANGED <<storeVars, current, memory, clean, history, run>>
           /\ pc[w] = "idle" /\ pc'[w] = "down"
           /\ \A v \in Workers \ {w} : pc'[v] = pc[v]
           /\ WorkerTypeOK' /\ AtWork'
<1>1. pc[w] = "idle" /\ pc'[w] = "down" /\ \A v \in Workers \ {w} : pc'[v] = pc[v]
  BY DEF BootCrash, BaseInv, PhaseInv, WorkerTypeOK
<1>2. WorkerTypeOK'
  BY DEF BootCrash, BaseInv, WorkerTypeOK, Steps, control, memory, history
<1>3. AtWork'
  BY <1>1 DEF BootCrash, BaseInv, AtWork, Working
<1>4. QED
  BY <1>1, <1>2, <1>3 DEF BootCrash, control

\* So it is a transaction of the store, or none, and the pipeline keeps its types.
LEMMA SeedKeepsStore ==
    BaseInv /\ [SeedNext]_seedVars
      => [StoreNext]_storeVars /\ StoreTypeOK' /\ WorkerTypeOK' /\ AtWork'
<1> SUFFICES ASSUME BaseInv, [SeedNext]_seedVars
             PROVE  [StoreNext]_storeVars /\ StoreTypeOK' /\ WorkerTypeOK' /\ AtWork'
  OBVIOUS
<1>1. CASE [Next]_vars
  BY <1>1, StepIsTransaction, StoreTypesStep, WorkerStep DEF BaseInv
<1>2. ASSUME NEW w \in Workers, BootCrash(w)
      PROVE  [StoreNext]_storeVars /\ StoreTypeOK' /\ WorkerTypeOK' /\ AtWork'
  BY <1>2, BootCrashFacts, StoreTypesStep DEF BaseInv
<1>3. QED
  BY <1>1, <1>2, SeedStepKinds DEF BaseInv

\* The variables of the boots keep their types.
LEMMA BootTypesStep == BootTypeInv /\ [SeedNext]_seedVars => BootTypeInv'
<1> SUFFICES ASSUME BootTypeInv, [SeedNext]_seedVars PROVE BootTypeInv'
  OBVIOUS
<1> USE DEF BootTypeInv
<1>1. CASE UNCHANGED seedVars
  BY <1>1 DEF seedVars, bootVars
<1>2. CASE PipelineStep
  <2>1. boot' \in [Workers -> [phase : Phases, pending : SUBSET Demos, new : SUBSET Assets]]
    BY <1>2, NoBootType DEF PipelineStep
  <2>2. untroubled' \in [Workers -> BOOLEAN]
    <3>1. \A w \in Workers : (untroubled[w] /\ stored \subseteq stored' /\ ~ FailsToScore(w)) \in BOOLEAN
      OBVIOUS
    <3>2. QED
      BY <1>2, <3>1 DEF PipelineStep
  <2>3. QED
    BY <1>2, <2>1, <2>2 DEF PipelineStep
<1>3. ASSUME NEW w \in Workers, BeginBoot(w) PROVE BootTypeInv'
  <2>1. [phase |-> "seeding", pending |-> Demos \ Existing, new |-> {}]
          \in [phase : Phases, pending : SUBSET Demos, new : SUBSET Assets]
    BY DEF Phases
  <2>2. boot' \in [Workers -> [phase : Phases, pending : SUBSET Demos, new : SUBSET Assets]]
    BY <1>3, <2>1 DEF BeginBoot
  <2>3. together' \in BOOLEAN /\ untroubled' \in [Workers -> BOOLEAN] /\ demo' = demo
    BY <1>3 DEF BeginBoot
  <2>4. QED
    BY <2>2, <2>3
<1>4. ASSUME NEW w \in Workers, SeedOne(w) PROVE BootTypeInv'
  <2>1. PICK d \in boot[w].pending :
          \/ \E a \in Assets :
               /\ demo' = [demo EXCEPT ![a] = d]
               /\ boot' = [boot EXCEPT ![w].pending = @ \ {d}, ![w].new = @ \cup {a}]
               /\ UNCHANGED <<together, untroubled>>
          \/ /\ boot' = [boot EXCEPT ![w].pending = @ \ {d}]
             /\ untroubled' = [untroubled EXCEPT ![w] = FALSE]
             /\ UNCHANGED <<demo, together>>
    BY <1>4 DEF SeedOne
  <2>2. d \in Demos
    OBVIOUS
  <2>3. CASE \E a \in Assets :
               /\ demo' = [demo EXCEPT ![a] = d]
               /\ boot' = [boot EXCEPT ![w].pending = @ \ {d}, ![w].new = @ \cup {a}]
               /\ UNCHANGED <<together, untroubled>>
    <3>1. PICK a \in Assets :
               /\ demo' = [demo EXCEPT ![a] = d]
               /\ boot' = [boot EXCEPT ![w].pending = @ \ {d}, ![w].new = @ \cup {a}]
      BY <2>3
    <3> DEFINE begun == [boot[w] EXCEPT !.pending = @ \ {d}, !.new = @ \cup {a}]
    <3>2. begun \in [phase : Phases, pending : SUBSET Demos, new : SUBSET Assets]
      OBVIOUS
    <3>3. boot' = [boot EXCEPT ![w] = begun]
      BY <3>1
    <3> HIDE DEF begun
    <3>4. boot' \in [Workers -> [phase : Phases, pending : SUBSET Demos, new : SUBSET Assets]]
      BY <3>2, <3>3
    <3>5. QED
      BY <2>2, <2>3, <3>1, <3>4
  <2>4. CASE /\ boot' = [boot EXCEPT ![w].pending = @ \ {d}]
             /\ untroubled' = [untroubled EXCEPT ![w] = FALSE]
             /\ UNCHANGED <<demo, together>>
    BY <2>4
  <2>5. QED
    BY <2>1, <2>3, <2>4
<1>5. ASSUME NEW w \in Workers, BeginScoring(w) PROVE BootTypeInv'
  BY <1>5, NoBootType DEF BeginScoring, Phases
<1>6. ASSUME NEW w \in Workers, BootCrash(w) PROVE BootTypeInv'
  BY <1>6, NoBootType DEF BootCrash
<1>7. QED
  BY <1>1, <1>2, <1>3, <1>4, <1>5, <1>6 DEF SeedNext, SeedStep

\* Only BeginScoring takes a process from idle into the pipeline.
LEMMA PipelinePlaces ==
    ASSUME WorkerTypeOK, PipelineAction, NEW w \in Workers
    PROVE  /\ pc[w] = "idle" => pc'[w] = "idle"
           /\ pc'[w] # pc[w] => \/ Crash(w) \/ Restart(w) \/ Process(w)
<1> USE DEF WorkerTypeOK
<1>1. ASSUME NEW v \in Workers \ {w}, Process(v) PROVE pc'[w] = pc[w]
  BY <1>1, ProcessLocal DEF LocalKept
<1>2. ASSUME NEW v \in Workers \ {w}, Crash(v) \/ Restart(v) PROVE pc'[w] = pc[w]
  BY <1>2 DEF Crash, Restart
<1>3. ASSUME NEW a \in Assets, RemoveAsset(a) PROVE pc'[w] = pc[w]
  BY <1>3 DEF RemoveAsset, workerVars
<1>4. CASE Crash(w) \/ Restart(w) \/ Process(w)
  BY <1>4 DEF Crash, Restart, Process, SkipMissing, StartAsset, FinishBatch, ClearProfile,
     StoreProfile, RunStreams, ClearEvidence, StoreEvidence, StoreScore, Synthesise, Fatal, Working
<1>5. QED
  BY <1>1, <1>2, <1>3, <1>4 DEF PipelineAction

\* A boot that scores is in its batch, and one that saves demos is not in any.
LEMMA PhasesStep == BaseInv /\ [SeedNext]_seedVars => PhaseInv'
<1> SUFFICES ASSUME BaseInv, [SeedNext]_seedVars PROVE PhaseInv'
  OBVIOUS
<1> USE DEF BaseInv
<1>1. CASE UNCHANGED seedVars
  BY <1>1 DEF seedVars, bootVars, vars, workerVars, PhaseInv
<1>2. CASE PipelineStep
  BY <1>2, PipelineStepFacts, PipelinePlaces, NoBootType DEF PhaseInv
<1>3. ASSUME NEW w \in Workers, BeginBoot(w) PROVE PhaseInv'
  BY <1>3 DEF BeginBoot, PhaseInv, BootTypeInv, vars, workerVars
<1>4. ASSUME NEW w \in Workers, SeedOne(w) PROVE PhaseInv'
  BY <1>4 DEF SeedOne, PhaseInv, BootTypeInv, vars, workerVars
<1>5. ASSUME NEW w \in Workers, BeginScoring(w) PROVE PhaseInv'
  BY <1>5, NoBootType DEF BeginScoring, StartBatch, PhaseInv, BootTypeInv, WorkerTypeOK, vars, workerVars
<1>6. ASSUME NEW w \in Workers, BootCrash(w) PROVE PhaseInv'
  BY <1>6, BootCrashFacts, NoBootType DEF BootCrash, PhaseInv, BootTypeInv
<1>7. QED
  BY <1>1, <1>2, <1>3, <1>4, <1>5, <1>6 DEF SeedNext, SeedStep

\* Types and phases hold throughout.
LEMMA BaseInvariant == SeedSpec => []BaseInv
<1>1. SeedInit => BaseInv
  <2> SUFFICES ASSUME SeedInit PROVE BaseInv
    OBVIOUS
  <2>1. StoreTypeOK
    BY DEF SeedInit, Init, StoreInit, StoreTypeOK
  <2>2. WorkerTypeOK /\ AtWork
    BY PipelineAssumption DEF SeedInit, Init, WorkerTypeOK, AtWork, Working, Steps, NoResult, Outcome
  <2>3. BootTypeInv /\ PhaseInv
    BY NoBootType DEF SeedInit, BootTypeInv, PhaseInv
  <2>4. QED
    BY <2>1, <2>2, <2>3 DEF BaseInv
<1>2. BaseInv /\ [SeedNext]_seedVars => BaseInv'
  BY SeedKeepsStore, BootTypesStep, PhasesStep DEF BaseInv
<1>3. QED
  BY <1>1, <1>2, PTL DEF SeedSpec

\* However many boots, batches, deletions and deaths, the tables change as the store's
\* own transactions allow.
THEOREM SeedImplementsStore == SeedSpec => StoreSpec
<1>1. SeedInit => StoreInit
  BY DEF SeedInit, Init
<1>2. QED
  BY <1>1, BaseInvariant, SeedKeepsStore, PTL DEF SeedSpec, StoreSpec

\* A boot spoils the record of no asset that it does not score.
THEOREM SeedOthersUntouched == SeedSpec => OthersUntouched
<1>1. BaseInv /\ [SeedNext]_seedVars =>
        [\A a \in stored \cap stored' : (\A w \in Workers : current[w] # a) => RowsKept(a)]_vars
  <2> SUFFICES ASSUME BaseInv, [SeedNext]_seedVars
               PROVE  [\A a \in stored \cap stored' :
                         (\A w \in Workers : current[w] # a) => RowsKept(a)]_vars
    OBVIOUS
  <2>1. CASE [Next]_vars
    BY <2>1, OthersStep DEF BaseInv, TypeOK, WorkerTypeOK
  <2>2. ASSUME NEW w \in Workers, BootCrash(w), NEW a \in stored
        PROVE  RowsKept(a)
    BY <2>2, BootCrashFacts DEF RowsKept, Of, storeVars
  <2>3. QED
    BY <2>1, <2>2, SeedStepKinds DEF BaseInv
<1>2. QED
  BY <1>1, BaseInvariant, PTL DEF SeedSpec, OthersUntouched, RowsKept

\* An error-free run of a boot leaves whole records, and evidence of one run per stream.
THEOREM SeedRecords == SeedSpec => [](EvidenceOfOneRun /\ CleanRunIsWhole)
<1>1. SeedInit => RecordInv
  BY DEF SeedInit, Init, StoreInit, RecordInv, Exclusive, Settlement, InProgress, EvidenceOfOneRun,
     CleanRunIsWhole
<1>2. BaseInv /\ AtWork' /\ RecordInv /\ [SeedNext]_seedVars => RecordInv'
  <2> SUFFICES ASSUME BaseInv, AtWork', RecordInv, [SeedNext]_seedVars PROVE RecordInv'
    OBVIOUS
  <2>1. TypeOK
    BY DEF BaseInv, TypeOK, WorkerTypeOK
  <2>2. CASE [Next]_vars
    BY <2>1, <2>2, RecordStep DEF BaseInv
  <2>3. ASSUME NEW w \in Workers, BootCrash(w) PROVE RecordInv'
    <3>1. current[w] = NoAsset
      BY <2>3, BootCrashFacts DEF BaseInv, AtWork, Working
    <3>2. \A v \in Workers : LocalKept(v) \/ current'[v] = NoAsset
      BY <2>3, <3>1, BootCrashFacts DEF LocalKept, memory
    <3>3. QED
      BY <2>1, <2>3, <3>2, BootCrashFacts, IdleStep
  <2>4. QED
    BY <2>2, <2>3, SeedStepKinds DEF BaseInv
<1>3. BaseInv => AtWork
  BY DEF BaseInv
<1>4. RecordInv => EvidenceOfOneRun /\ CleanRunIsWhole
  BY DEF RecordInv
<1>5. QED
  BY <1>1, <1>2, <1>3, <1>4, BaseInvariant, PTL DEF SeedSpec

---------------------------------------------------------------------------
(***************************************************************************)
(* No demo is stored twice, unless boots overlap: what a boot is about to  *)
(* save is not there, and nobody else saves it.                            *)
(***************************************************************************)
OneBoot == ~ together => \A v, w \in Workers : Booting(v) /\ Booting(w) => v = w

PendingIsMissing ==
    ~ together => \A w \in Workers : boot[w].phase = "seeding" =>
                    \A d \in boot[w].pending, a \in stored : demo[a] # d

OnceInv == OneBoot /\ PendingIsMissing /\ DemoStoredOnce

\* The pipeline adds no asset; others may delete one meanwhile.
LEMMA PipelineStored ==
    ASSUME WorkerTypeOK, AtWork, PipelineAction
    PROVE  stored' \subseteq stored /\ issued' = issued
<1>1. ASSUME NEW w \in Workers, Process(w) PROVE stored' = stored /\ issued' = issued
  BY <1>1, ProcessTransaction DEF storeVars, DeleteProfile, SaveProfile, DeleteEvidence,
     SaveStreamResult, SaveScore, SaveSynthesis
<1>2. ASSUME NEW a \in Assets, RemoveAsset(a) PROVE stored' \subseteq stored /\ issued' = issued
  BY <1>2 DEF RemoveAsset, DeleteAsset
<1>3. ASSUME NEW w \in Workers, Crash(w) \/ Restart(w) PROVE stored' = stored /\ issued' = issued
  BY <1>3 DEF Crash, Restart, storeVars
<1>4. QED
  BY <1>1, <1>2, <1>3 DEF PipelineAction

\* What SeedOne does when it succeeds.
SavesDemo(w, d, a) ==
    /\ a \notin issued
    /\ stored' = stored \cup {a} /\ issued' = issued \cup {a} /\ scores' = scores
    /\ demo' = [demo EXCEPT ![a] = d]
    /\ boot' = [boot EXCEPT ![w].pending = @ \ {d}, ![w].new = @ \cup {a}]
    /\ UNCHANGED <<workerVars, together, untroubled>>

MissesDemo(w, d) ==
    /\ boot' = [boot EXCEPT ![w].pending = @ \ {d}]
    /\ untroubled' = [untroubled EXCEPT ![w] = FALSE]
    /\ UNCHANGED <<vars, demo, together>>

\* A boot takes a pending demo, and saves it or fails to.
LEMMA SeedOneFacts ==
    ASSUME NEW w \in Workers, SeedOne(w)
    PROVE  /\ boot[w].phase = "seeding"
           /\ \E d \in boot[w].pending :
                (\E a \in Assets : SavesDemo(w, d, a)) \/ MissesDemo(w, d)
BY DEF SeedOne, SaveAsset, SavesDemo, MissesDemo

\* What the saving of a demo changes of the boots.
LEMMA SavingFacts ==
    ASSUME BaseInv, NEW w \in Workers, NEW d \in boot[w].pending, NEW a \in Assets,
           SavesDemo(w, d, a)
    PROVE  /\ a \notin stored /\ demo'[a] = d
           /\ \A b \in stored : demo'[b] = demo[b]
           /\ boot'[w].phase = boot[w].phase
           /\ boot'[w].pending = boot[w].pending \ {d} /\ boot'[w].new = boot[w].new \cup {a}
           /\ \A v \in Workers \ {w} : boot'[v] = boot[v]
<1>1. boot \in [Workers -> [phase : Phases, pending : SUBSET Demos, new : SUBSET Assets]]
  BY DEF BaseInv, BootTypeInv
<1>2. stored \subseteq issued /\ stored \subseteq Assets /\ demo \in [Assets -> Demos \cup {NoDemo}]
  BY DEF BaseInv, StoreTypeOK, BootTypeInv
<1>3. a \notin stored /\ demo'[a] = d /\ \A b \in stored : demo'[b] = demo[b]
  BY <1>2 DEF SavesDemo
<1>4. QED
  BY <1>1, <1>3 DEF SavesDemo

\* What the failure to save a demo changes of the boots.
LEMMA MissingFacts ==
    ASSUME BaseInv, NEW w \in Workers, NEW d \in boot[w].pending, MissesDemo(w, d)
    PROVE  /\ boot'[w].phase = boot[w].phase
           /\ boot'[w].pending = boot[w].pending \ {d} /\ boot'[w].new = boot[w].new
           /\ \A v \in Workers \ {w} : boot'[v] = boot[v] /\ untroubled'[v] = untroubled[v]
           /\ ~ untroubled'[w]
BY DEF BaseInv, BootTypeInv, MissesDemo

\* What a boot finds, when it begins, is what is stored.
LEMMA ExistingIsStored ==
    ASSUME BaseInv, SourcesResolve, NothingSurvivesDeletion
    PROVE  \A d \in Demos : d \in Existing <=> \E a \in stored : demo[a] = d
<1>1. ASSUME NEW d \in Demos, NEW a \in stored, demo[a] = d
      PROVE  d \in Existing
  <2>1. [asset |-> a] \in sources
    BY DEF SourcesResolve, Referenced
  <2>2. [asset |-> a] \in Provenance
    BY DEF BaseInv, StoreTypeOK, Provenance
  <2>3. QED
    BY <1>1, <2>1, <2>2 DEF Existing
<1>2. ASSUME NEW d \in Existing
      PROVE  \E a \in stored : demo[a] = d
  <2>1. PICK row \in sources : demo[row.asset] = d
    BY DEF Existing
  <2>2. row.asset \in stored
    BY DEF NothingSurvivesDeletion
  <2>3. QED
    BY <2>1, <2>2
<1>3. QED
  BY <1>1, <1>2

\* A boot begins with the demos that are not stored yet.
LEMMA BeginBootFacts ==
    ASSUME BaseInv, NEW w \in Workers, BeginBoot(w)
    PROVE  /\ UNCHANGED <<vars, demo>> /\ ~ Booting(w)
           /\ boot'[w].phase = "seeding"
           /\ boot'[w].pending = Demos \ Existing /\ boot'[w].new = {}
           /\ \A v \in Workers \ {w} : boot'[v] = boot[v] /\ untroubled'[v] = untroubled[v]
           /\ together' = (together \/ \E v \in Workers \ {w} : Booting(v))
BY DEF BaseInv, BootTypeInv, BeginBoot

\* A boot that has saved its demos scores those without a score, or is done.
LEMMA BeginScoringFacts ==
    ASSUME BaseInv, NEW w \in Workers, BeginScoring(w)
    PROVE  /\ boot[w].phase = "seeding" /\ boot[w].pending = {}
           /\ UNCHANGED <<storeVars, demo, together, untroubled>>
           /\ \A v \in Workers \ {w} : boot'[v] = boot[v]
           /\ \/ ToScore(w) = {} /\ boot'[w] = NoBoot /\ UNCHANGED vars
              \/ boot'[w].phase = "scoring" /\ StartBatch(w, ToScore(w))
BY DEF BaseInv, BootTypeInv, BeginScoring, StartBatch, vars

\* Whatever step is taken, boots one after the other store a demo once.
LEMMA OnceStep ==
    BaseInv /\ SourcesResolve /\ NothingSurvivesDeletion /\ OnceInv /\ [SeedNext]_seedVars => OnceInv'
<1> SUFFICES ASSUME BaseInv, SourcesResolve, NothingSurvivesDeletion, OnceInv, [SeedNext]_seedVars
             PROVE  OnceInv'
  OBVIOUS
<1> USE DEF OnceInv
<1>1. CASE UNCHANGED seedVars
  BY <1>1 DEF seedVars, bootVars, vars, storeVars, OneBoot, PendingIsMissing, DemoStoredOnce, Booting
<1>2. CASE PipelineStep
  <2>1. /\ PipelineAction /\ UNCHANGED <<demo, together>>
        /\ \A w \in Workers : boot'[w] = boot[w] \/ boot'[w].phase = "none"
    BY <1>2, PipelineStepFacts, NoBootType DEF BaseInv
  <2>2. stored' \subseteq stored
    BY <2>1, PipelineStored DEF BaseInv
  <2>3. OneBoot'
    BY <2>1 DEF OneBoot, Booting
  <2>4. PendingIsMissing' /\ DemoStoredOnce'
    BY <2>1, <2>2 DEF PendingIsMissing, DemoStoredOnce
  <2>5. QED
    BY <2>3, <2>4
<1>3. ASSUME NEW w \in Workers, BeginBoot(w) PROVE OnceInv'
  <2>1. /\ UNCHANGED <<vars, demo>> /\ boot'[w].phase = "seeding"
        /\ boot'[w].pending = Demos \ Existing
        /\ \A v \in Workers \ {w} : boot'[v] = boot[v]
        /\ together' = (together \/ \E v \in Workers \ {w} : Booting(v))
    BY <1>3, BeginBootFacts
  <2>2. stored' = stored
    BY <2>1 DEF vars, storeVars
  <2>3. OneBoot'
    BY <2>1 DEF OneBoot, Booting
  <2>4. PendingIsMissing'
    BY <2>1, <2>2, ExistingIsStored DEF PendingIsMissing
  <2>5. DemoStoredOnce'
    BY <2>1, <2>2 DEF DemoStoredOnce
  <2>6. QED
    BY <2>3, <2>4, <2>5
<1>4. ASSUME NEW w \in Workers, SeedOne(w) PROVE OnceInv'
  <2>1. PICK d \in boot[w].pending : (\E a \in Assets : SavesDemo(w, d, a)) \/ MissesDemo(w, d)
    BY <1>4, SeedOneFacts
  <2>2. boot[w].phase = "seeding"
    BY <1>4, SeedOneFacts
  <2>3. ASSUME NEW a \in Assets, SavesDemo(w, d, a) PROVE OnceInv'
    <3>1. /\ a \notin stored /\ demo'[a] = d
          /\ \A b \in stored : demo'[b] = demo[b]
          /\ boot'[w].phase = boot[w].phase /\ boot'[w].pending = boot[w].pending \ {d}
          /\ \A v \in Workers \ {w} : boot'[v] = boot[v]
      BY <2>3, SavingFacts
    <3>2. stored' = stored \cup {a} /\ together' = together
      BY <2>3 DEF SavesDemo
    <3>3. OneBoot'
      BY <3>1, <3>2 DEF OneBoot, Booting
    <3>4. ~ together => \A v \in Workers \ {w} : boot[v].phase # "seeding"
      BY <2>2 DEF OneBoot, Booting
    <3>5. PendingIsMissing'
      BY <3>1, <3>2, <3>4, <2>2 DEF PendingIsMissing
    <3>6. DemoStoredOnce'
      BY <3>1, <3>2, <2>2 DEF PendingIsMissing, DemoStoredOnce
    <3>7. QED
      BY <3>3, <3>5, <3>6
  <2>4. CASE MissesDemo(w, d)
    <3>1. /\ boot'[w].phase = boot[w].phase /\ boot'[w].pending \subseteq boot[w].pending
          /\ \A v \in Workers \ {w} : boot'[v] = boot[v]
      BY <2>4, MissingFacts
    <3>2. UNCHANGED <<stored, demo, together>>
      BY <2>4 DEF MissesDemo, vars, storeVars
    <3>3. QED
      BY <3>1, <3>2 DEF OneBoot, Booting, PendingIsMissing, DemoStoredOnce
  <2>5. QED
    BY <2>1, <2>3, <2>4
<1>5. ASSUME NEW w \in Workers, BeginScoring(w) \/ BootCrash(w) PROVE OnceInv'
  <2>1. /\ UNCHANGED <<stored, demo, together>> /\ boot[w].phase = "seeding"
        /\ boot'[w].phase \in {"none", "scoring"}
        /\ \A v \in Workers \ {w} : boot'[v] = boot[v]
    <3>1. CASE BeginScoring(w)
      BY <3>1, BeginScoringFacts, NoBootType DEF storeVars
    <3>2. CASE BootCrash(w)
      BY <3>2, NoBootType DEF BootCrash, storeVars, BaseInv, BootTypeInv
    <3>3. QED
      BY <1>5, <3>1, <3>2
  <2>2. QED
    BY <2>1 DEF OneBoot, Booting, PendingIsMissing, DemoStoredOnce
<1>6. QED
  BY <1>1, <1>2, <1>3, <1>4, <1>5 DEF SeedNext, SeedStep

\* "Idempotent: an asset whose synthetic locator is already stored is skipped"
\* (seed.py:316): for any number of boots, deaths and deletions, unless boots overlap.
THEOREM DemosAreStoredOnce == SeedSpec => []DemoStoredOnce
<1>1. SeedInit => OnceInv
  BY NoBootType DEF SeedInit, Init, StoreInit, OnceInv, OneBoot, PendingIsMissing, DemoStoredOnce, Booting
<1>2. OnceInv => DemoStoredOnce
  BY DEF OnceInv
<1>3. QED
  BY <1>1, <1>2, OnceStep, BaseInvariant, SeedImplementsStore, StoreSourcesResolve,
     StoreNothingSurvivesDeletion, PTL DEF SeedSpec

---------------------------------------------------------------------------
(***************************************************************************)
(* A boot in which nothing fails serves every demo.                        *)
(***************************************************************************)
\* The steps of run_asset that come before there is a new score.
Unserved == {"clear_profile", "save_profile", "run_streams", "clear_evidence", "save_evidence",
             "score"}

\* Process w has a still to score.
ToBeScored(w, a) == a \in todo[w] \/ (current[w] = a /\ pc[w] \in Unserved)

\* While nothing fails: every demo is stored or about to be saved, and then, scored or
\* about to be scored.
ServeInv(w) ==
    untroubled[w] =>
      /\ boot[w].phase = "seeding" =>
           /\ boot[w].new \subseteq stored
           /\ \A d \in Demos \ boot[w].pending : \E a \in stored : demo[a] = d
      /\ boot[w].phase = "scoring" =>
           \A d \in Demos : \E a \in stored :
             demo[a] = d /\ (Of(scores, a) # {} \/ ToBeScored(w, a))

AllServe == \A w \in Workers : ServeInv(w)

\* What another one, or the environment, does leaves w where it is.
LEMMA OthersLeave ==
    ASSUME WorkerTypeOK, PipelineAction, NEW w \in Workers, ~ Process(w), ~ Crash(w), ~ Restart(w)
    PROVE  pc'[w] = pc[w] /\ current'[w] = current[w] /\ todo'[w] = todo[w]
<1> USE DEF WorkerTypeOK
<1>1. ASSUME NEW v \in Workers \ {w}, Process(v)
      PROVE  pc'[w] = pc[w] /\ current'[w] = current[w] /\ todo'[w] = todo[w]
  <2>1. pc'[w] = pc[w] /\ current'[w] = current[w]
    BY <1>1, ProcessLocal DEF LocalKept
  <2>2. todo'[w] = todo[w]
    BY <1>1 DEF Process, SkipMissing, StartAsset, FinishBatch, ClearProfile, StoreProfile,
       RunStreams, ClearEvidence, StoreEvidence, StoreScore, Synthesise, Fatal, Fail, control
  <2>3. QED
    BY <2>1, <2>2
<1>2. ASSUME NEW v \in Workers \ {w}, Crash(v) \/ Restart(v)
      PROVE  pc'[w] = pc[w] /\ current'[w] = current[w] /\ todo'[w] = todo[w]
  BY <1>2 DEF Crash, Restart, Forget, control
<1>3. ASSUME NEW a \in Assets, RemoveAsset(a)
      PROVE  pc'[w] = pc[w] /\ current'[w] = current[w] /\ todo'[w] = todo[w]
  BY <1>3 DEF RemoveAsset, workerVars
<1>4. QED
  BY <1>1, <1>2, <1>3 DEF PipelineAction

\* What w has still to score it scores, unless it fails to.
LEMMA WorkIsKept ==
    ASSUME WorkerTypeOK, NEW w \in Workers, Process(w), pc'[w] # "idle", ~ FailsToScore(w),
           NEW a \in stored, ToBeScored(w, a)
    PROVE  Of(scores, a)' # {} \/ ToBeScored(w, a)'
<1> USE DEF WorkerTypeOK, Unserved
<1>1. ASSUME NEW b \in Assets, SkipMissing(w, b) PROVE ToBeScored(w, a)'
  BY <1>1 DEF SkipMissing, ToBeScored
<1>2. ASSUME NEW b \in Assets, StartAsset(w, b) PROVE ToBeScored(w, a)'
  BY <1>2 DEF StartAsset, ToBeScored
<1>3. ASSUME ClearProfile(w) \/ StoreProfile(w) \/ RunStreams(w) \/ ClearEvidence(w)
      PROVE  ToBeScored(w, a)'
  <2>1. pc'[w] \in Unserved /\ current' = current /\ todo' = todo
    BY <1>3 DEF ClearProfile, StoreProfile, RunStreams, ClearEvidence, Fail, GoTo, control
  <2>2. QED
    BY <2>1 DEF ToBeScored
<1>4. CASE StoreEvidence(w)
  <2>1. pc'[w] \in Unserved /\ current' = current /\ todo' = todo
    BY <1>4 DEF StoreEvidence, Fail, GoTo, control
  <2>2. QED
    BY <2>1 DEF ToBeScored
<1>5. CASE StoreScore(w)
  <2>1. pc[w] = "score" /\ pc'[w] = "synthesise" /\ current' = current /\ todo' = todo
    BY <1>5 DEF StoreScore, Fail, GoTo, control
  <2>2. Of(scores, current[w])' # {}
    BY <2>1 DEF FailsToScore
  <2>3. CASE current[w] = a
    BY <2>1, <2>2, <2>3 DEF Of
  <2>4. CASE current[w] # a
    BY <2>1, <2>4 DEF ToBeScored
  <2>5. QED
    BY <2>3, <2>4
<1>6. CASE Synthesise(w)
  BY <1>6 DEF Synthesise, ToBeScored
<1>7. CASE Fatal(w)
  <2>1. pc'[w] = "fetch" /\ todo' = todo /\ Working(w)
    BY <1>7 DEF Fatal
  <2>2. pc[w] = "synthesise"
    BY <2>1 DEF FailsToScore, Working
  <2>3. QED
    BY <2>1, <2>2 DEF ToBeScored
<1>8. ~ FinishBatch(w)
  BY DEF FinishBatch
<1>9. QED
  BY <1>1, <1>2, <1>3, <1>4, <1>5, <1>6, <1>7, <1>8 DEF Process

\* A step after which all that served a boot still does.
LEMMA ServedStays ==
    ASSUME NEW w \in Workers, ServeInv(w), untroubled'[w] => untroubled[w],
           boot'[w] = boot[w], stored \subseteq stored',
           \A a \in stored : demo'[a] = demo[a] /\ (Of(scores, a) # {} => Of(scores, a)' # {}),
           boot[w].phase = "scoring" /\ untroubled[w] =>
             \A a \in stored : ToBeScored(w, a) => Of(scores, a)' # {} \/ ToBeScored(w, a)'
    PROVE  ServeInv(w)'
<1> SUFFICES ASSUME untroubled'[w] PROVE ServeInv(w)'
  BY DEF ServeInv
<1>1. CASE boot[w].phase = "seeding"
  BY <1>1 DEF ServeInv
<1>2. CASE boot[w].phase = "scoring"
  <2> SUFFICES ASSUME NEW d \in Demos
               PROVE  \E a \in stored' : demo'[a] = d /\ (Of(scores, a)' # {} \/ ToBeScored(w, a)')
    BY <1>2 DEF ServeInv
  <2>1. PICK a \in stored : demo[a] = d /\ (Of(scores, a) # {} \/ ToBeScored(w, a))
    BY <1>2 DEF ServeInv
  <2>2. QED
    BY <1>2, <2>1
<1>3. CASE boot[w].phase \notin {"seeding", "scoring"}
  BY <1>3 DEF ServeInv
<1>4. QED
  BY <1>1, <1>2, <1>3

\* A step of the pipeline leaves every untroubled boot on its way to serving.
LEMMA PipelineServes ==
    ASSUME BaseInv, AllServe, PipelineStep, [StoreNext]_storeVars, NEW w \in Workers
    PROVE  ServeInv(w)'
<1>1. /\ PipelineAction /\ UNCHANGED demo
      /\ boot'[w] = IF boot[w].phase = "scoring" /\ pc'[w] \in {"idle", "down"} THEN NoBoot ELSE boot[w]
      /\ untroubled'[w] = (untroubled[w] /\ stored \subseteq stored' /\ ~ FailsToScore(w))
  BY PipelineStepFacts DEF BaseInv
<1> SUFFICES ASSUME untroubled'[w] PROVE ServeInv(w)'
  BY DEF ServeInv
<1>2. untroubled[w] /\ stored' = stored /\ ~ FailsToScore(w)
  BY <1>1, PipelineStored DEF BaseInv
<1>3. CASE boot'[w] = NoBoot
  BY <1>3, NoBootType DEF ServeInv
<1>4. CASE boot'[w] = boot[w] /\ (boot[w].phase = "scoring" => pc'[w] \notin {"idle", "down"})
  <2>1. \A a \in stored : Of(scores, a) # {} => Of(scores, a)' # {}
    BY <1>2, ScoreKeptStep DEF storeVars, Of
  <2>2. ASSUME boot[w].phase = "scoring", NEW a \in stored, ToBeScored(w, a)
        PROVE  Of(scores, a)' # {} \/ ToBeScored(w, a)'
    <3>1. pc'[w] \notin {"idle", "down"}
      BY <1>4, <2>2
    <3>2. ~ Crash(w) /\ ~ Restart(w)
      BY <3>1 DEF Crash, Restart, BaseInv, WorkerTypeOK
    <3>3. CASE Process(w)
      BY <1>2, <2>2, <3>1, <3>3, WorkIsKept DEF BaseInv
    <3>4. CASE ~ Process(w)
      BY <1>1, <2>2, <3>2, <3>4, OthersLeave DEF BaseInv, ToBeScored
    <3>5. QED
      BY <3>3, <3>4
  <2>3. QED
    BY <1>1, <1>2, <1>4, <2>1, <2>2, ServedStays DEF AllServe
<1>5. QED
  BY <1>1, <1>3, <1>4

\* So does every other step, of this boot and of the others.
LEMMA ServeStep ==
    BaseInv /\ SourcesResolve /\ NothingSurvivesDeletion /\ AllServe /\ [SeedNext]_seedVars => AllServe'
<1> SUFFICES ASSUME BaseInv, SourcesResolve, NothingSurvivesDeletion, AllServe, [SeedNext]_seedVars,
                    NEW v \in Workers
             PROVE  ServeInv(v)'
  BY DEF AllServe
<1>1. CASE UNCHANGED seedVars
  <2>1. UNCHANGED <<stored, scores, todo, current, pc, demo, boot, untroubled>>
    BY <1>1 DEF seedVars, bootVars, vars, storeVars, workerVars
  <2>2. QED
    BY <2>1, ServedStays DEF AllServe, Of, ToBeScored
<1>2. CASE PipelineStep
  BY <1>2, PipelineServes, SeedKeepsStore
<1>3. ASSUME NEW w \in Workers, BeginBoot(w) PROVE ServeInv(v)'
  <2>1. /\ UNCHANGED <<stored, scores, todo, current, pc, demo>>
        /\ boot'[w].phase = "seeding" /\ boot'[w].pending = Demos \ Existing /\ boot'[w].new = {}
        /\ \A u \in Workers \ {w} : boot'[u] = boot[u] /\ untroubled'[u] = untroubled[u]
    BY <1>3, BeginBootFacts DEF vars, storeVars, workerVars
  <2>2. CASE v = w
    BY <2>1, <2>2, ExistingIsStored DEF ServeInv
  <2>3. CASE v # w
    BY <2>1, <2>3, ServedStays DEF AllServe, Of, ToBeScored
  <2>4. QED
    BY <2>2, <2>3
<1>4. ASSUME NEW w \in Workers, SeedOne(w) PROVE ServeInv(v)'
  <2>1. PICK d \in boot[w].pending : (\E a \in Assets : SavesDemo(w, d, a)) \/ MissesDemo(w, d)
    BY <1>4, SeedOneFacts
  <2>2. boot[w].phase = "seeding"
    BY <1>4, SeedOneFacts
  <2>3. ASSUME NEW a \in Assets, SavesDemo(w, d, a) PROVE ServeInv(v)'
    <3>1. /\ a \notin stored /\ demo'[a] = d
          /\ \A b \in stored : demo'[b] = demo[b]
          /\ boot'[w].phase = boot[w].phase /\ boot'[w].pending = boot[w].pending \ {d}
          /\ boot'[w].new = boot[w].new \cup {a}
          /\ \A u \in Workers \ {w} : boot'[u] = boot[u]
      BY <2>3, SavingFacts
    <3>2. /\ stored' = stored \cup {a}
          /\ UNCHANGED <<scores, todo, current, pc, untroubled>>
      BY <2>3 DEF SavesDemo, workerVars
    <3>3. CASE v = w
      <4> SUFFICES ASSUME untroubled[w] PROVE ServeInv(w)'
        BY <3>2, <3>3 DEF ServeInv
      <4>1. /\ boot[w].new \subseteq stored
            /\ \A e \in Demos \ boot[w].pending : \E b \in stored : demo[b] = e
        BY <2>2 DEF AllServe, ServeInv
      <4>2. \A e \in Demos \ boot'[w].pending : \E b \in stored' : demo'[b] = e
        <5> SUFFICES ASSUME NEW e \in Demos \ boot'[w].pending
                     PROVE  \E b \in stored' : demo'[b] = e
          OBVIOUS
        <5>1. CASE e = d
          BY <3>1, <3>2, <5>1
        <5>2. CASE e # d
          BY <3>1, <3>2, <4>1, <5>2
        <5>3. QED
          BY <5>1, <5>2
      <4>3. QED
        BY <2>2, <3>1, <3>2, <4>1, <4>2 DEF ServeInv
    <3>4. CASE v # w
      BY <3>1, <3>2, <3>4, ServedStays DEF AllServe, Of, ToBeScored
    <3>5. QED
      BY <3>3, <3>4
  <2>4. CASE MissesDemo(w, d)
    <3>1. /\ \A u \in Workers \ {w} : boot'[u] = boot[u] /\ untroubled'[u] = untroubled[u]
          /\ ~ untroubled'[w]
      BY <2>4, MissingFacts
    <3>2. UNCHANGED <<stored, scores, todo, current, pc, demo>>
      BY <2>4 DEF MissesDemo, vars, storeVars, workerVars
    <3>3. CASE v = w
      BY <3>1, <3>3 DEF ServeInv
    <3>4. CASE v # w
      BY <3>1, <3>2, <3>4, ServedStays DEF AllServe, Of, ToBeScored
    <3>5. QED
      BY <3>3, <3>4
  <2>5. QED
    BY <2>1, <2>3, <2>4
<1>5. ASSUME NEW w \in Workers, BeginScoring(w) PROVE ServeInv(v)'
  <2>1. /\ boot[w].phase = "seeding" /\ boot[w].pending = {}
        /\ UNCHANGED <<stored, scores, demo, untroubled>>
        /\ \A u \in Workers \ {w} : boot'[u] = boot[u]
        /\ \/ boot'[w] = NoBoot /\ UNCHANGED vars
           \/ boot'[w].phase = "scoring" /\ StartBatch(w, ToScore(w))
    BY <1>5, BeginScoringFacts DEF storeVars
  <2>2. CASE boot'[w] = NoBoot /\ UNCHANGED vars
    <3>1. UNCHANGED <<todo, current, pc>>
      BY <2>2 DEF vars, workerVars
    <3>2. CASE v = w
      BY <2>2, <3>2, NoBootType DEF ServeInv
    <3>3. CASE v # w
      BY <2>1, <3>1, <3>3, ServedStays DEF AllServe, Of, ToBeScored
    <3>4. QED
      BY <3>2, <3>3
  <2>3. CASE boot'[w].phase = "scoring" /\ StartBatch(w, ToScore(w))
    <3>1. /\ todo'[w] = ToScore(w) /\ current' = current
          /\ \A u \in Workers \ {w} : todo'[u] = todo[u] /\ pc'[u] = pc[u]
      BY <2>3 DEF StartBatch, BaseInv, WorkerTypeOK
    <3>2. CASE v = w
      <4> SUFFICES ASSUME untroubled[w], NEW d \in Demos
                   PROVE  \E a \in stored : demo[a] = d /\ (Of(scores, a) # {} \/ a \in todo'[w])
        BY <2>1, <2>3, <3>2 DEF ServeInv, ToBeScored, Of
      <4>1. PICK a \in stored : demo[a] = d
        BY <2>1 DEF AllServe, ServeInv
      <4>2. Of(scores, a) = {} => a \in ToScore(w)
        BY <4>1 DEF ToScore, Unscored
      <4>3. QED
        BY <3>1, <4>1, <4>2
    <3>3. CASE v # w
      BY <2>1, <3>1, <3>3, ServedStays DEF AllServe, Of, ToBeScored
    <3>4. QED
      BY <3>2, <3>3
  <2>4. QED
    BY <2>1, <2>2, <2>3
<1>6. ASSUME NEW w \in Workers, BootCrash(w) PROVE ServeInv(v)'
  <2>1. /\ UNCHANGED <<stored, scores, todo, current, demo, untroubled>>
        /\ boot'[w] = NoBoot
        /\ \A u \in Workers \ {w} : boot'[u] = boot[u] /\ pc'[u] = pc[u]
    BY <1>6, BootCrashFacts DEF BootCrash, storeVars, control, BaseInv, BootTypeInv
  <2>2. CASE v = w
    BY <2>1, <2>2, NoBootType DEF ServeInv
  <2>3. CASE v # w
    BY <2>1, <2>3, ServedStays DEF AllServe, Of, ToBeScored
  <2>4. QED
    BY <2>2, <2>3
<1>7. QED
  BY <1>1, <1>2, <1>3, <1>4, <1>5, <1>6 DEF SeedNext, SeedStep

\* When a boot in which nothing failed ends, every demo is stored and scored, whatever
\* earlier boots have left behind (seed.py:347).
THEOREM CleanBootsServe == SeedSpec => CleanBootServes
<1>1. ASSUME BaseInv, AllServe, [SeedNext]_seedVars, NEW w \in Workers,
             Booting(w), boot'[w] = NoBoot, pc'[w] = "idle", untroubled'[w], NEW d \in Demos
      PROVE  \E a \in stored' : demo[a] = d /\ Of(scores, a)' # {}
  <2>1. boot[w].phase # "none" /\ boot'[w] # boot[w] /\ boot'[w].phase = "none"
    BY <1>1, NoBootType DEF Booting
  <2>2. CASE PipelineStep
    <3>1. PipelineAction /\ boot[w].phase = "scoring" /\ untroubled[w]
      BY <1>1, <2>1, <2>2, PipelineStepFacts DEF BaseInv
    <3>2. pc[w] \notin {"idle", "down"}
      BY <1>1, <3>1 DEF BaseInv, PhaseInv
    <3>3. Process(w)
      BY <1>1, <3>1, <3>2, PipelinePlaces DEF BaseInv, WorkerTypeOK, Crash, Restart
    <3>4. FinishBatch(w)
      BY <1>1, <3>2, <3>3 DEF Process, SkipMissing, StartAsset, ClearProfile, StoreProfile, RunStreams,
         ClearEvidence, StoreEvidence, StoreScore, Synthesise, Fatal, Fail, GoTo, BaseInv, WorkerTypeOK
    <3>5. /\ UNCHANGED <<stored, scores>> /\ todo[w] = {} /\ pc[w] = "fetch"
      BY <3>4 DEF FinishBatch, storeVars
    <3>6. PICK a \in stored : demo[a] = d /\ (Of(scores, a) # {} \/ ToBeScored(w, a))
      BY <1>1, <3>1 DEF AllServe, ServeInv
    <3>7. ~ ToBeScored(w, a)
      BY <3>5 DEF ToBeScored, Unserved
    <3>8. QED
      BY <3>5, <3>6, <3>7 DEF Of
  <2>3. CASE BeginScoring(w)
    <3>1. /\ boot[w].phase = "seeding" /\ boot[w].pending = {} /\ ToScore(w) = {}
          /\ UNCHANGED <<stored, scores, untroubled>>
      BY <1>1, <2>1, <2>3, BeginScoringFacts DEF storeVars
    <3>2. PICK a \in stored : demo[a] = d
      BY <1>1, <3>1 DEF AllServe, ServeInv
    <3>3. Of(scores, a) # {}
      BY <3>1, <3>2 DEF ToScore, Unscored
    <3>4. QED
      BY <3>1, <3>2, <3>3 DEF Of
  <2>4. ~ BootCrash(w)
    BY <1>1, BootCrashFacts
  <2>5. ~ BeginBoot(w)
    BY <1>1, <2>1, BeginBootFacts
  <2>6. ~ SeedOne(w)
    BY <1>1, <2>1, SeedOneFacts, SavingFacts, MissingFacts
  <2>7. \A v \in Workers \ {w} : ~ BeginBoot(v) /\ ~ SeedOne(v) /\ ~ BeginScoring(v) /\ ~ BootCrash(v)
    BY <1>1, <2>1 DEF BeginBoot, SeedOne, BeginScoring, BootCrash, BaseInv, BootTypeInv
  <2>8. ~ UNCHANGED seedVars
    BY <2>1 DEF seedVars, bootVars
  <2>9. QED
    BY <1>1, <2>2, <2>3, <2>4, <2>5, <2>6, <2>7, <2>8 DEF SeedNext, SeedStep
<1>2. BaseInv /\ AllServe /\ [SeedNext]_seedVars =>
        [ \A w \in Workers : (Booting(w) /\ boot'[w] = NoBoot /\ pc'[w] = "idle" /\ untroubled'[w])
            => \A d \in Demos : \E a \in stored' : demo[a] = d /\ Of(scores, a)' # {} ]_seedVars
  BY <1>1
<1>3. SeedInit => AllServe
  BY NoBootType DEF SeedInit, AllServe, ServeInv
<1>4. QED
  BY <1>2, <1>3, ServeStep, BaseInvariant, SeedImplementsStore, StoreSourcesResolve,
     StoreNothingSurvivesDeletion, PTL DEF SeedSpec, CleanBootServes

===========================================================================
