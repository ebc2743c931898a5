--------------------------- MODULE AssetPipeline ---------------------------
(***************************************************************************)
(* Pipeline.run and Pipeline.run_asset (src/forge/pipeline.py) executed by *)
(* several processes at once (the web front-end's worker threads, the CLI, *)
(* the seeding at boot), each with its own database session, over the      *)
(* shared AssetStore, while assets are added and deleted.                  *)
(*                                                                         *)
(* One action is one database commit of run_asset together with the        *)
(* computation in memory that leads to it; between two commits any other   *)
(* process may run.  A step may fail for any reason (an LLM or a source    *)
(* that raises, a refused insert, a lost connection): run_asset records    *)
(* the error and goes on as the code does.  A process may also die.        *)
(***************************************************************************)
EXTENDS AssetStore, Naturals, FiniteSets

CONSTANTS
    Workers,          \* processes that execute Pipeline.run
    StreamOrder,      \* position of a stream in _run_streams: S2, S4, S3, S1
    LiveStreams,      \* the streams with an injected client (S1, S2)
    CoverageFloor,    \* min_stream_coverage, in percent
    MaxBatches,       \* bound: calls of Pipeline.run
    NoAsset           \* an idle process's "current asset"

ASSUME PipelineAssumption ==
    /\ NoAsset \notin Assets
    /\ LiveStreams \subseteq Streams
    /\ StreamOrder \in [Streams -> Nat]
    /\ CoverageFloor \in Nat
    /\ MaxBatches \in Nat
    /\ 0 .. MaxBatches \subseteq Runs

VARIABLES
    batches,     \* number of calls of Pipeline.run so far
    run,         \* the call a process is executing; tags the rows it writes
    todo,        \* the asset ids of its call it has not yet looked up
    pc,          \* the step of run_asset it takes next
    current,     \* the asset it is working on
    profiled,    \* result.profile is not None
    results,     \* result.stream_results: what each stream returned
    unsaved,     \* streams whose records run_asset has still to persist
    clean,       \* result.errors is empty
    answered,    \* the assets of its call that have a result in the report
    overlapped,  \* history: assets two processes have worked on at once
    settled      \* history: the run an asset's last result came from, if clean

memory     == <<profiled, results, unsaved>>
control    == <<run, todo, answered>>
history    == <<overlapped, settled>>
workerVars == <<batches, run, todo, pc, current, profiled, results, unsaved,
                clean, answered, overlapped, settled>>
vars       == <<storeVars, workerVars>>

Steps == {"idle", "down", "fetch", "clear_profile", "save_profile",
          "run_streams", "clear_evidence", "save_evidence", "score", "synthesise"}

\* What run() of one stream comes to: it raised, it returned no record, or some.
Outcome  == {"failed", "empty", "useful"}
NoResult == [s \in Streams |-> "failed"]

TypeOK ==
    /\ StoreTypeOK
    /\ batches \in 0 .. MaxBatches
    /\ run \in [Workers -> 0 .. MaxBatches]
    /\ todo \in [Workers -> SUBSET Assets]
    /\ pc \in [Workers -> Steps]
    /\ current \in [Workers -> Assets \cup {NoAsset}]
    /\ profiled \in [Workers -> BOOLEAN]
    /\ results \in [Workers -> [Streams -> Outcome]]
    /\ unsaved \in [Workers -> SUBSET Streams]
    /\ clean \in [Workers -> BOOLEAN]
    /\ answered \in [Workers -> SUBSET Assets]
    /\ overlapped \subseteq Assets
    /\ settled \in [Assets -> 0 .. MaxBatches]

Init ==
    /\ StoreInit
    /\ batches = 0
    /\ run = [w \in Workers |-> 0]
    /\ todo = [w \in Workers |-> {}]
    /\ pc = [w \in Workers |-> "idle"]
    /\ current = [w \in Workers |-> NoAsset]
    /\ profiled = [w \in Workers |-> FALSE]
    /\ results = [w \in Workers |-> NoResult]
    /\ unsaved = [w \in Workers |-> {}]
    /\ clean = [w \in Workers |-> TRUE]
    /\ answered = [w \in Workers |-> {}]
    /\ overlapped = {}
    /\ settled = [a \in Assets |-> 0]

---------------------------------------------------------------------------
(***************************************************************************)
(* What the streams returned, and the re-query of a thin result.           *)
(***************************************************************************)
Useful(res)    == {s \in Streams : res[s] = "useful"}
Attempted(res) == {s \in Streams : res[s] # "failed"}

\* _stream_coverage is |Useful| / |Attempted|, 0 when no stream returned.
Thin(res) == 100 * Cardinality(Useful(res)) < CoverageFloor * Cardinality(Attempted(res))
             \/ (Attempted(res) = {} /\ CoverageFloor > 0)

CoversMore(new, old) ==
    /\ Useful(new) # {}
    /\ \/ Useful(old) = {}
       \/ Cardinality(Useful(new)) * Cardinality(Attempted(old))
            > Cardinality(Useful(old)) * Cardinality(Attempted(new))

\* _requery_if_thin runs all the streams again when a live one is wired in and
\* the profile has broader market terms to offer.
Requeried(first, broader) == LiveStreams # {} /\ Thin(first) /\ broader

\* The second result list replaces the first only if it covers more.
Adopted(first, second, broader) ==
    IF Requeried(first, broader) /\ CoversMore(second, first) THEN second ELSE first

\* Either pass appends a failing stream to result.errors, adopted or not.
StreamErrors(first, second, broader) ==
    \/ Attempted(first) # Streams
    \/ Requeried(first, broader) /\ Attempted(second) # Streams

---------------------------------------------------------------------------
(***************************************************************************)
(* The environment: assets are added and deleted, a batch is asked for, a  *)
(* process dies and is started again.                                      *)
(***************************************************************************)
Working(w) == pc[w] \notin {"idle", "down", "fetch"}

AddAsset(a) ==
    /\ SaveAsset(a)
    /\ UNCHANGED workerVars

RemoveAsset(a) ==
    /\ a \in issued
    /\ DeleteAsset(a)
    /\ UNCHANGED workerVars

\* A call of Pipeline.run: the seed, the CLI's `pipeline`, the web's _score_asset.
StartBatch(w, batch) ==
    /\ pc[w] = "idle"
    /\ batches < MaxBatches
    /\ batches' = batches + 1
    /\ run' = [run EXCEPT ![w] = batches + 1]
    /\ todo' = [todo EXCEPT ![w] = batch]
    /\ answered' = [answered EXCEPT ![w] = {}]
    /\ pc' = [pc EXCEPT ![w] = "fetch"]
    /\ UNCHANGED <<storeVars, current, memory, clean, history>>

\* The memory of a process that stops working on an asset.
Forget(w) ==
    /\ current' = [current EXCEPT ![w] = NoAsset]
    /\ profiled' = [profiled EXCEPT ![w] = FALSE]
    /\ results' = [results EXCEPT ![w] = NoResult]
    /\ unsaved' = [unsaved EXCEPT ![w] = {}]
    /\ clean' = [clean EXCEPT ![w] = TRUE]

\* The process dies between two commits and the open transaction rolls back; or
\* get_asset raises, which abandons the whole call of Pipeline.run.
Crash(w) ==
    /\ pc[w] \notin {"idle", "down"}
    /\ pc' = [pc EXCEPT ![w] = "down"]
    /\ todo' = [todo EXCEPT ![w] = {}]
    /\ Forget(w)
    /\ UNCHANGED <<storeVars, batches, run, answered, history>>

Restart(w) ==
    /\ pc[w] = "down"
    /\ pc' = [pc EXCEPT ![w] = "idle"]
    /\ UNCHANGED <<storeVars, batches, control, current, memory, clean, history>>

---------------------------------------------------------------------------
(***************************************************************************)
(* The loop of Pipeline.run.                                               *)
(***************************************************************************)
\* get_asset finds no row: "asset not found" is the result.
SkipMissing(w, a) ==
    /\ pc[w] = "fetch"
    /\ a \in todo[w] \ stored
    /\ todo' = [todo EXCEPT ![w] = @ \ {a}]
    /\ answered' = [answered EXCEPT ![w] = @ \cup {a}]
    /\ UNCHANGED <<storeVars, batches, run, pc, current, memory, clean, history>>

\* get_asset finds the row; run_asset begins with the dormancy assessment, which
\* reads the loaded asset only and may raise.
StartAsset(w, a) ==
    /\ pc[w] = "fetch"
    /\ a \in todo[w] \cap stored
    /\ todo' = [todo EXCEPT ![w] = @ \ {a}]
    /\ current' = [current EXCEPT ![w] = a]
    /\ \E ok \in BOOLEAN : clean' = [clean EXCEPT ![w] = ok]
    /\ pc' = [pc EXCEPT ![w] = "clear_profile"]
    /\ overlapped' = IF \E v \in Workers \ {w} : current[v] = a
                       THEN overlapped \cup {a} ELSE overlapped
    /\ settled' = [settled EXCEPT ![a] = 0]
    /\ UNCHANGED <<storeVars, batches, run, answered, memory>>

FinishBatch(w) ==
    /\ pc[w] = "fetch"
    /\ todo[w] = {}
    /\ pc' = [pc EXCEPT ![w] = "idle"]
    /\ UNCHANGED <<storeVars, batches, control, current, memory, clean, history>>

---------------------------------------------------------------------------
(***************************************************************************)
(* run_asset, commit by commit.                                            *)
(***************************************************************************)
\* Control passes to step next of run_asset; an exception is recorded.
GoTo(w, next, ok) ==
    /\ pc' = [pc EXCEPT ![w] = next]
    /\ clean' = [clean EXCEPT ![w] = @ /\ ok]

\* Mutant of Fail: the exception leaves Pipeline.run and the batch ends.
FailAndStop(w, next) ==
    /\ GoTo(w, "idle", FALSE)
    /\ UNCHANGED <<storeVars, batches, control, current, memory, history>>

\* The caught exception of a try block: roll back, record it, go to next.
Fail(w, next) ==
    /\ GoTo(w, next, FALSE)
    /\ UNCHANGED <<storeVars, batches, control, current, memory, history>>

\* get_profile and, when there is one, delete_profile with its own commit.
ClearProfile(w) ==
    /\ pc[w] = "clear_profile"
    /\ \/ /\ DeleteProfile(current[w])
          /\ GoTo(w, "save_profile", TRUE)
          /\ UNCHANGED <<batches, control, current, memory, history>>
       \/ Fail(w, "score")

\* Mutant of StoreProfile: the profile is committed before its Source is added.
StoreProfileBeforeSource(w) ==
    /\ pc[w] = "save_profile"
    /\ \/ /\ current[w] \in stored
          /\ profiles' = profiles \cup {[asset |-> current[w], run |-> run[w]]}
          /\ profiled' = [profiled EXCEPT ![w] = TRUE]
          /\ GoTo(w, "run_streams", TRUE)
          /\ UNCHANGED <<issued, stored, evidence, scores, syntheses, sources,
                         batches, control, current, results, unsaved, history>>
       \/ Fail(w, "score")

\* build_profile (the LLM call) and save_profile.
StoreProfile(w) ==
    /\ pc[w] = "save_profile"
    /\ \/ /\ SaveProfile(current[w], run[w])
          /\ profiled' = [profiled EXCEPT ![w] = TRUE]
          /\ GoTo(w, "run_streams", TRUE)
          /\ UNCHANGED <<batches, control, current, results, unsaved, history>>
       \/ Fail(w, "score")

\* _run_streams and _requery_if_thin; nothing is read from or written to the
\* store.  Without any result list there is no evidence step either.
RunStreams(w) ==
    /\ pc[w] = "run_streams"
    /\ \E first, second \in [Streams -> Outcome], broader \in BOOLEAN :
         LET found == Adopted(first, second, broader) IN
         /\ results' = [results EXCEPT ![w] = found]
         /\ unsaved' = [unsaved EXCEPT ![w] = Attempted(found)]
         /\ GoTo(w, IF Attempted(found) = {} THEN "score" ELSE "clear_evidence",
                 ~ StreamErrors(first, second, broader))
    /\ UNCHANGED <<storeVars, batches, control, current, profiled, history>>

\* Mutant of ClearEvidence: only the streams with records are cleared, so that a
\* stream which finds nothing any more keeps the evidence of an earlier run.
ClearEvidenceOfUsefulStreams(w) ==
    /\ pc[w] = "clear_evidence"
    /\ \/ /\ DeleteEvidence(current[w], Useful(results[w]))
          /\ GoTo(w, "save_evidence", TRUE)
          /\ UNCHANGED <<batches, control, current, memory, history>>
       \/ Fail(w, "score")

\* Mutant of ClearEvidence: the rows are saved although delete_evidence failed.
ClearEvidenceOrGoOn(w) ==
    /\ pc[w] = "clear_evidence"
    /\ \/ /\ DeleteEvidence(current[w], unsaved[w])
          /\ GoTo(w, "save_evidence", TRUE)
          /\ UNCHANGED <<batches, control, current, memory, history>>
       \/ Fail(w, "save_evidence")

\* delete_evidence of the streams that returned, with its own commit.
ClearEvidence(w) ==
    /\ pc[w] = "clear_evidence"
    /\ \/ /\ DeleteEvidence(current[w], unsaved[w])
          /\ GoTo(w, "save_evidence", TRUE)
          /\ UNCHANGED <<batches, control, current, memory, history>>
       \/ Fail(w, "score")

\* save_stream_result of the next stream of the list, one commit each; the first
\* that raises ends the step, and the streams after it are not persisted.
StoreEvidence(w) ==
    /\ pc[w] = "save_evidence"
    /\ \/ \E s \in unsaved[w] :
            /\ \A t \in unsaved[w] : StreamOrder[s] <= StreamOrder[t]
            /\ IF results[w][s] = "useful"
                 THEN SaveStreamResult(current[w], s, run[w])
                 ELSE UNCHANGED storeVars
            /\ unsaved' = [unsaved EXCEPT ![w] = @ \ {s}]
            /\ GoTo(w, IF unsaved[w] = {s} THEN "score" ELSE "save_evidence", TRUE)
            /\ UNCHANGED <<batches, control, current, profiled, results, history>>
       \/ Fail(w, "score")

\* Mutant of StoreScore: the replaced score is deleted in a commit of its own,
\* and the insert that follows may fail.
StoreScoreInTwoCommits(w) ==
    /\ pc[w] = "score"
    /\ \/ /\ SaveScore([asset |-> current[w], run |-> run[w], profiled |-> profiled[w],
                        basis |-> Useful(results[w])])
          /\ GoTo(w, "synthesise", TRUE)
       \/ /\ scores' = Without(scores, current[w])
          /\ GoTo(w, "synthesise", FALSE)
          /\ UNCHANGED <<issued, stored, profiles, evidence, syntheses, sources>>
    /\ UNCHANGED <<batches, control, current, memory, history>>

\* corroborate, score_ventureability and build_brief over the results in memory
\* (an asset without a profile is assessed too, over no results), then
\* save_score.  A score is written also when build_brief raises after it was
\* computed; when anything else raises, none is.
StoreScore(w) ==
    /\ pc[w] = "score"
    /\ \/ /\ SaveScore([asset |-> current[w], run |-> run[w], profiled |-> profiled[w],
                        basis |-> Useful(results[w])])
          /\ \E ok \in BOOLEAN : GoTo(w, "synthesise", ok)
          /\ UNCHANGED <<batches, control, current, memory, history>>
       \/ Fail(w, "synthesise")

\* build_synthesis, whose answer may be None, and save_synthesis; then the
\* result joins the report and the loop goes on.
Synthesise(w) ==
    /\ pc[w] = "synthesise"
    /\ \E ok \in BOOLEAN :
         /\ \/ ok /\ SaveSynthesis(current[w], run[w])
            \/ UNCHANGED storeVars
         /\ settled' = [settled EXCEPT ![current[w]] = IF ok /\ clean[w] THEN run[w] ELSE 0]
    /\ answered' = [answered EXCEPT ![w] = @ \cup {current[w]}]
    /\ pc' = [pc EXCEPT ![w] = "fetch"]
    /\ Forget(w)
    /\ UNCHANGED <<batches, run, todo, overlapped>>

\* An exception that no try block of run_asset catches (reading the asset's
\* provenance in _run_streams, a rollback that fails): Pipeline.run reports a
\* fatal error for the asset and goes on with the next.
Fatal(w) ==
    /\ Working(w)
    /\ answered' = [answered EXCEPT ![w] = @ \cup {current[w]}]
    /\ pc' = [pc EXCEPT ![w] = "fetch"]
    /\ Forget(w)
    /\ UNCHANGED <<storeVars, batches, run, todo, history>>

---------------------------------------------------------------------------
Process(w) ==
    \/ \E a \in Assets : SkipMissing(w, a) \/ StartAsset(w, a)
    \/ FinishBatch(w)
    \/ ClearProfile(w)
    \/ StoreProfile(w)
    \/ RunStreams(w)
    \/ ClearEvidence(w)
    \/ StoreEvidence(w)
    \/ StoreScore(w)
    \/ Synthesise(w)
    \/ Fatal(w)

Next ==
    \/ \E a \in Assets : AddAsset(a) \/ RemoveAsset(a)
    \/ \E w \in Workers :
         \/ \E batch \in (SUBSET Assets) \ {{}} : StartBatch(w, batch)
         \/ Crash(w)
         \/ Restart(w)
         \/ Process(w)

Spec == Init /\ [][Next]_vars

\* A live process goes on executing; nobody need ask for a batch, or restart.
FairSpec == Spec /\ \A w \in Workers : WF_vars(Process(w))

---------------------------------------------------------------------------
(***************************************************************************)
(* Properties.                                                             *)
(***************************************************************************)
\* "The streams' evidence [is] replaced, not duplicated" (pipeline.py), unless
\* two processes have worked on the asset at the same time.
EvidenceOfOneRun ==
    \A e, f \in evidence :
        (e.asset = f.asset /\ e.stream = f.stream /\ e.asset \notin overlapped) => e.run = f.run

\* What an error-free run of an asset leaves, for the dashboard and the audit to
\* read: one profile, one score, and evidence of exactly the streams it counts.
WholeRecord(a, r) ==
    /\ Of(profiles, a) = {[asset |-> a, run |-> r]}
    /\ \E basis \in SUBSET Streams :
         /\ Of(scores, a) = {[asset |-> a, run |-> r, profiled |-> TRUE, basis |-> basis]}
         /\ Of(evidence, a) = {[asset |-> a, stream |-> s, run |-> r] : s \in basis}

\* The record of the last run stays whole until the next run begins, whatever
\* happens to other assets meanwhile.
CleanRunIsWhole ==
    \A a \in stored \ overlapped :
        settled[a] # 0 => WholeRecord(a, settled[a])

\* "One asset never blocks the others": a step changes the rows of the asset its
\* process works on, and nothing of any other asset unless that is deleted.
OthersUntouched ==
    [][\A a \in stored \cap stored' :
         (\A w \in Workers : current[w] # a) =>
            /\ Of(profiles, a)' = Of(profiles, a)
            /\ Of(evidence, a)' = Of(evidence, a)
            /\ Of(scores, a)' = Of(scores, a)
            /\ Of(syntheses, a)' = Of(syntheses, a)]_vars

\* Every asset of a batch gets its result, however many others fail, unless the
\* process dies.
EveryAssetAnswered ==
    \A w \in Workers, a \in Assets :
        a \in todo[w] ~> (a \in answered[w] \/ pc[w] = "down")

===========================================================================
