# A verification project for the FORGE engine

The FORGE engine (`src/src/forge`) takes dormant patents and project results
through ingestion, LLM profiling, four cross-referencing streams,
corroboration and scoring to a committee that decides. Everything durable is in
one PostgreSQL store that several processes write at the same time: the web
front-end's worker threads, the command line, and the seeding at boot. This
directory models that store and the processes that write it, model-checks them
with TLC on small instances and proves the main results for every instance
with TLAPS.

Paths below are relative to `src/src/forge/` unless they begin with `src/`.

## 1. Inventory

| component | state | operations | what is hard | what makes it correct |
|---|---|---|---|---|
| L2 asset store (`repository.py`, `db/`) | tables asset, source, field_provenance, evidence, asset_profile, asset_score, asset_synthesis, committee_decision, asset_outcome | one commit per function: `save_asset`, `delete_asset`, `save_profile`, `delete_profile`, `save_stream_result`, `delete_evidence`, `save_score`, `save_synthesis`, `record_decision`, `record_outcome` | the table-wide sweep of Sources in `delete_asset`, cascades, foreign keys and unique keys that refuse a late insert | references resolve; nothing outlives its asset; a score is replaced, never lost |
| asset pipeline (`pipeline.py`) | in memory: the result of the asset at hand; nothing in common between processes but the store | `Pipeline.run`, `run_asset`, `_run_streams`, `_requery_if_thin` | up to a dozen commits per asset with LLM and network calls between them; every step may fail and the next goes on; overlapping runs; deletion in mid-run; process death | one asset never blocks the others; a run replaces what an earlier run left; score, evidence and profile agree after a clean run |
| connector framework (`connectors/base.py`) | in memory: `seen`, the report | `run`, `existing_locators`, `bundle_locator` | `seen` is read once; several references, one document; failures per stage; repetition after a crash | one document, one asset; a failed document is retried; the report is complete |
| EPO OPS (`connectors/epo_ops`, `connectors/http.py`) | token, its expiry, time of the last request | `fetch_biblio`, `fetch`, `_ensure_token`, `_throttle` | token expiry during the throttle's sleep, 401, 404 and fallback formats | at most one re-authentication per fetch; requests keep their distance |
| CORDIS (`connectors/cordis`) | none | `fetch_one`, `normalise` | as the framework | as the framework |
| seed (`seed.py`) | none | `seed_demo` | a boot that dies half-way, or overlaps with another | a demo asset is stored once; a clean boot leaves every one scored |
| web (`web/app.py`), CLI (`cli.py`) | none (a session per request) | create, upload, ingest, delete, decide, outcome; the same as commands | they are the concurrent actors | a snapshot at decision time is of the score that was shown |
| validation and two-axis routing (`validation/`, `routing.py`) | need_validation, inventor_trl_check, asset_routing | `record_need_validation`, `record_trl_check`, `compute_routing`, `save_routing` | stale rows, ties of timestamps, racing upserts | a READY suggestion follows from the latest records |
| decisions, dashboard, recalibration (`output/decisions.py`, `recalibration.py`) | recalibration_log | `capture_decision`, `capture_outcome`, `dashboard`, `run_recalibration` | latest-per-asset pairings, missing snapshots | what is ranked and calibrated is what was decided on |
| company graph (`graph/`) | company, relationship | `resolve_company`, `add_relationship`, `build_layer0` | merges by registry id or by name, racing inserts, rows locked in opposite orders, a transaction that fails half-way | a project is entered whole or not at all; known ids are kept; every builder ends |
| need matching (`matching/`) | need_hypothesis | `generate`, `save_need_hypotheses`, `build_company_lists` | replacement of a whole set while the graph it was computed from grows | the rows are of one matching, rest on the graph, and a growing graph loses no company |
| profiling and streams (`enrichment/`, `streams/s*.py`) | none (functions) | `build_profile`, `run` of S1-S4 | a profile of which one quote is not in the source; streams that fail, find nothing or are not asked | what is absent stays absent |
| corroboration, scoring, dormancy, clustering | none (functions) | `corroborate`, `score_ventureability`, `assess_asset`, `cluster_assets` | thresholds, missing data, ties | more or better evidence never turns against an asset, nor an outage in its favour |
| governance, brief, synthesis, audit | none (functions) | `authorize`, `build_brief`, `build_synthesis`, `audit_store` | | abstain instead of inventing |
| documents, configuration, migrations, templates | none | conversions | | not concurrency or state: not modelled |

How they interact: web, CLI and seed call `Connector.run` and `Pipeline.run`
with their own database session; both call `repository.py`, whose functions
commit. There are no queues, callbacks or shared objects: processes meet only
in the tables. Between two commits of one process any other may commit.

The hazards found while reading, each at its line and with the properties that
would catch it, are the list `hazards` of `PROJECT.json`.

## 2. Plan

Built in this order, the most important behaviour first:

1. `AssetStore`: the abstract store, one action per committed transaction.
   **Done**, with proofs.
2. `AssetPipeline`: composes any number of processes with the store, and
   implements it. **Done**, with proofs.
3. `Ingest`: `Connector.run` over the same store, implements it too. **Done**,
   with proofs.
4. `OpsClient`: token, throttle, 401 and 404 handling behind `Ingest`'s fetch and
   S2's searches. **Done**, with proofs.
5. `TwoAxisRouting`: validation records, the crossing, the stored suggestion.
   **Done**, with proofs.
6. `Seed`: boot, crash, boot again, composed with `AssetPipeline`. **Done**,
   with proofs.
7. `CompanyGraph`: entity resolution and Layer 0 under PostgreSQL's locking, and
   the abstract `ProjectLedger` it implements. **Done**, with proofs.
8. `Matching`: composes matchers with the graph's builders. **Done**, with proofs.
9. `Decisions`: decisions and outcomes over scores that change, the dashboard and
   the recalibration. **Done**, with proofs.
10. `Assessment`: streams, corroboration, scoring, dormancy and clustering as
   operators (`StreamAnswers`, `Corroboration`, `Scoring`, `Dormancy`, `Sectors`)
   and the behaviour of one asset's assessment over them. **Done**, with proofs.

Every safety property a run checks is a theorem as well. Left: the liveness
properties, which only TLC checks, and the parts of section 6.

Writers of the asset tables refine `StoreSpec`, so its theorems carry over to
them. Modules with theorems use no recursive operator.

## 3. The modules

### AssetStore

The tables as sets of rows. A row keeps what identifies it: its asset and the
pipeline run that wrote it (and the stream, for evidence; whether a profile was
there and which streams counted, for a score). Everything else in a row is data
no property depends on. One operator per committed function of `repository.py`;
its guards are the foreign keys (`a \in stored`) and unique keys
(`uq_asset_profile_asset`) that make the insert fail otherwise. A failing call
changes nothing, so it appears in the callers, not here. `DeleteAsset` is the
row, the cascades of the schema (`ondelete="CASCADE"`) and the sweep of every
Source no longer referenced. `issued` is a history variable: uuid keys are not
given out twice.

A Source is named by the row it was inserted with, because the code gives every
profile and evidence row a Source of its own and the provenance rows of one
asset share one. Two simplifications: one evidence row stands for all records
that one stream returned in one run (they are saved in one commit and deleted by
one statement), and committee decisions and outcomes are in `Decisions` (they cascade
as the score does).

### AssetPipeline

`Workers` processes execute `Pipeline.run`. One action is one commit of
`run_asset`, with the computation that leads to it:

| step (`pc`) | action | code |
|---|---|---|
| `fetch` | `StartAsset`, `SkipMissing`, `FinishBatch` | the loop of `run`, `get_asset`, dormancy |
| `clear_profile` | `ClearProfile` | `get_profile`, `delete_profile` |
| `save_profile` | `StoreProfile` | `build_profile`, `save_profile` |
| `run_streams` | `RunStreams` | `_run_streams`, `_requery_if_thin` |
| `clear_evidence` | `ClearEvidence` | `delete_evidence(streams=...)` |
| `save_evidence` | `StoreEvidence` | `save_stream_result`, one per stream, in list order |
| `score` | `StoreScore` | `corroborate`, `score_ventureability`, `build_brief`, `save_score` |
| `synthesise` | `Synthesise` | `build_synthesis`, `save_synthesis`, the report |

`Fail` is the `except` branch of a step's `try`: roll back, append to
`result.errors`, go where the code goes. `Fatal` is the outer `except` of
`Pipeline.run`. `Crash` is the death of the process between two commits (or
`get_asset` raising, which ends the call). Streams are abstracted to their
outcome: raised, returned without evidence, returned evidence; the re-query of
thin coverage compares coverage in exact fractions and adopts the second result
list only when it covers more, as the code does. `overlapped` and `settled` are
history variables: the assets two processes have worked on at once, and the run
an asset's last result came from if it had no error.

### Ingest

`Connector.run` over EPO OPS, by `Ingesters` processes: `StartIngest` reads the
locators once; `Fetch` and `FetchFails` handle a reference; `SkipBundle`,
`SaveBundle`, `SaveFails`, `LocatorRaises` a document of its answer. A document
is its publication id, which is the locator of its only Source. `Bare` documents
have no groundable field, hence no provenance and no locator. The environment
adds and deletes other assets and lets S2 store and drop evidence, whose Sources
carry the same `source_type` (`streams/s2_patents.py`). `raced` is a history
variable: documents stored while another run had already read its locators.

### OpsClient

One `OpsClient` object, which one thread uses, and a clock `now` that advances
while it is idle, sleeps in `_throttle` or waits for an answer. OPS answers as it
likes, a rejected token and a failing request included. `Ask` begins
`fetch_biblio` (or one of S2's searches, a reference with one candidate);
`UseCachedToken`, `Authenticate` and `AuthenticationFails` are `_ensure_token`;
the answers to a GET are `Found`, `Rejected` and `RejectedAgain` (401), `Missing`
(404), `Refused` (403, 429, any other status, or the transport raising). Sleep and
request of a GET are one action, since nothing else touches the object
meanwhile. A request is taken to end within `Timeout`: urllib applies the timeout
to each socket operation, so a server that trickles bytes may exceed it. That
OPS grants lifetimes longer than the skew is an assumption on `Lifetimes`; with
shorter ones the client would authenticate for every request.
`gets`, `tried`, `sent`, `answer` and the `after` of a token are history.

`Ingest` sees of all this only `Fetch` and `FetchFails`.

### TwoAxisRouting

The routing of one asset (assets share nothing here). `needs` and `checks` are the
two append-only histories; a record carries the time of the process that
recorded it, any member of `Times`, so records may tie or be stamped out of
order, and the database may return any of the latest. A router is a process in
`route_asset`, one action per query, because at READ COMMITTED each query sees
what is committed when it starts:

| step (`pc`) | action | code |
|---|---|---|
| `idle` | `ReadTrlCheck` | `get_asset`, `latest_trl_check` |
| `need` | `ReadHasNeed` | `has_any_need_validation`, the gate |
| `tracks` | `ReadConfirmedTracks` | `confirmed_tracks`, the crossing |
| `load` | `LoadRow` | the SELECT of `save_routing` |
| `save` | `Save` | the commit: INSERT, or UPDATE of the columns that differ from the loaded row |

`Abandon` is a refused INSERT (unique key, foreign key), an UPDATE whose row is gone,
any other error and the death of the process. `rationale` and `computed_at` are left
out: they change with the other columns and nothing reads them. Nobody writes
`committee_decision`. `quiet`, `current` and `mixed` are history: whether anything
was committed during a routing, since the last quiet one was saved, and between
the load and the commit of the last save.

### Seed

`seed_demo` at every boot, on top of `AssetPipeline`: `BeginBoot` reads which demo
locators the store has, `SeedOne` saves a missing one (or is refused), `BeginScoring`
starts the pipeline over what was saved and over the demo assets that have no
score, `BootCrash` is the death of the process in the seeding phase and the
pipeline's `Crash` in the scoring phase. `together` (two boots at once) and
`untroubled` (nothing failed and nothing was deleted since a boot began) are history.
Which stream clients the boot gives to the pipeline is of no account: streams may
come to anything.

### CompanyGraph and ProjectLedger

`Builders` are processes in `forge graph-cordis`. A project is one transaction of
several statements, each an action:

| step (`pc`) | action | code |
|---|---|---|
| `idle` | `StartProject` | `populate_from_cordis_project` up to the first statement |
| `registry` | `SkipOrganisation`, `ByRegistry` | `build_layer0`'s loop, the first query of `resolve_company` |
| `name` | `ByName` | the second query and `_fill_missing` |
| `insert`, `fill` | `WriteCompany` | the flushed INSERT or UPDATE |
| `select` | `SelectTie` | the dedup query of `add_relationship` |
| `tie` | `InsertTie` | its INSERT |
| `commit` | `Commit` | the commit of the project |

`written` holds what a builder has not committed. The database is external and is
modelled by what the code meets: READ COMMITTED (`Seen`), a writer that waits for
whoever holds the key or the row, `UniqueViolation` once that one has committed, and
`DeadlockDetected` for a circular wait. All of these, and `Crash`, end in `Abort`.
NULL topics and references compare equal in the dedup query and distinct in the
unique constraint, as in the code. Not modelled: the attributes country, size and
sector, which are filled like `registry_id` and which nothing looks up; the
staleness of SQLAlchemy's identity map; blank names, which are refused before.

`ProjectLedger` is what the graph promises to everyone else: a project is entered
in one step, with a company for each participant and a tie from each, and nothing
is lost. `LedgerSpec` maps committed companies and ties to it.

### Matching

`Matchers` are processes in `forge hypotheses --generate` over the graph of
`CompanyGraph` while builders extend it: companies and ties are read in two
statements, the DELETE takes the rows that were committed when it began and waits
for another one that has deleted them, the INSERTs are flushed by the commit and may
violate the unique key. `generate` is translated whole (terms, track, shared terms,
strength, the floor of shared terms); texts are sets of terms. `basis`, `alone` and
`crossed` are history: the profile an asset was last matched from, the matchers that
nobody has joined on their asset, and the assets whose rows were last replaced by one
that was joined.

### Decisions

Members of the committee decide and record outcomes through the web handler, which
reads the score in a transaction before the insert, or through the command, which
passes none; meanwhile assets are re-scored and deleted. The reader is a dashboard
(four queries) or a recalibration (two queries), one action per query. Scores are
integers and means are compared multiplied out, so no rounding decides. `standing`,
`tied` and `quiet` are history: the records committed last, whether timestamps were
equal, and whether a reader was undisturbed.

### StreamAnswers, Corroboration, Scoring, Dormancy, Sectors and Assessment

The first five are constant-level operators: `StreamAnswers` from a draft of the
model and the answers of the sources to sub-signals (the profile's grounding and query
terms; the trend, the neighbourhoods and the classified citations of S2; the retrieval
of S3; the categories of S4); `Corroboration` from these to indicators and a routing;
`Scoring` to the six dimensions and the venture score; `Dormancy` the conditions of a
ruleset, each passing, failing or unknown; `Sectors` the sector of a text.
`Assessment` is the asset they are about: the streams of a run answer, find nothing
or fail in the order of the pipeline, days pass, and a re-run writes another profile.

Numbers of [0, 1] are integers of 0..`Unit`, rounded down at each division. Snippets,
links, match strengths, the wording of levels and the confidence are left out, as are
the TF-IDF weights of S3: a document's score for a profile is an input. A text is the set
of the terms it contains, and any set may occur; that a term of several words brings along
a shorter one it contains (`clustering.py` counts each by itself) is left out, so
`StaysInSector` does not speak of a longer term of one sector that contains a term of
another. The shipped `src/config/sectors.yaml` has no such pair.

## 4. What is checked

| run | instance | checks |
|---|---|---|
| `overlap` | 1 asset, 2 processes, streams S2 (live) and S3, 2 calls | every row has its Source; nothing outlives its asset; evidence is of one run unless runs overlapped; an error-free run leaves one whole record; re-scoring never loses a score |
| `boot` | 2 demos, 3 asset keys, 1 process, no streams, 2 boots, fair | a demo is stored once unless boots overlap; a clean boot leaves every demo stored and scored, whatever earlier boots left behind; each step is a transaction of the abstract store; a run leaves other assets alone; every asset of a batch is answered |
| `ingest` | 2 processes, 2 references sharing a document, 3 documents, 2 asset keys, 2 calls | one asset per document; a skipped document was stored or cited; the report accounts for every document |
| `ops_client` | 2 references of up to 2 candidates, interval 1, timeout 2, skew 2, lifetimes 3 and 5 | GETs keep their distance also after a failure, a retry or a new token; how late a token can be; a reported 401 is of a new token; at most two GETs per candidate |
| `routing` | 2 routers, 2 companies, a high and a low band, 2 times, 6 commands | no ready row before both answers; each axis was reported; a row not saved over another's is one crossing; an undisturbed routing says what the latest records say |
| `decisions` | 2 assets, 1 member, 1 reader, 2 score values, 2 times, 2 decisions, 2 outcomes, 5 calls | no record outlives its asset; a cutoff is proposed only from a sample that supports it; whatever is committed while a dashboard reads, an asset whose live value is above everything on record for another is listed first; an undisturbed recalibration or dashboard says what was committed last |
| `graph` | 2 builders, 4 projects whose companies collide by id, by name and by an empty key, 3 project runs, fair | a project is whole or absent; a company never loses its registry id and, unless builders overlapped, keeps the one it has, which names no other; a repeated project adds nothing; every project ends; the graph implements the ledger |
| `matching` | 1 builder, 2 matchers, 1 asset, 3 profiles, 2 project runs, 3 matchings | hypotheses are of one matching unless another was at work when they were last replaced, and the next undisturbed matching clears what crossed ones left; each rests on ties the graph holds; a growing graph loses no company |
| `assessment` | the thresholds of `src/config`, every combination of what streams may answer, 11 days around the limits, all fields of patents and projects, 3 sectors over 4 terms | a sprint needs two streams; only the loss of S2 can promote; a better reading never scores less; knowing more never makes a verdict unknown; a further term of its sector leaves an asset there |
| `skipped_citation` | as `ingest` | **violated**: see below |
| `reruns_converge` | as `graph`, 4 project runs | **violated** |
| `decision_snapshots_score` | as `decisions` | **violated** |

Type correctness of every component is proved for every instance, so the runs do not check it again.

Bounds. `MaxBatches` and `MaxIngests` cap the number of calls: two are needed
for a re-run or an overlap, and a third adds no new pair. One asset is enough for
interference between runs of the same asset; two for interference between
assets and for the sweep (`boot` has three). Two streams let one be cleared and the other not.
`CoverageFloor` is the shipped 50 %. Every step may fail at any time and a
process may die anywhere, so retries and partial failures are all there. The
asset keys bound how many assets are ever stored: with two, a document can be
stored twice (the case the property is about). Processes (and, in `ingest`, asset
keys) are interchangeable, so the safety runs use symmetry; the fair run does
not. `CHECK_DEADLOCK FALSE` because the calls are bounded: when they are used
up and the processes are idle, the system rightly stops.

In `ops_client` the numbers keep the order of the shipped ones (interval 1 s below
timeout and skew, both 30 s; lifetimes above the skew), and two references with idle
time before them let a cached token be used, expire, and expire while the
throttle sleeps. The run's instance has the bounds `MaxFetches` and `MaxIdle`, which
the proofs leave open.

In `routing` six commands suffice for an answer of each human, a change of mind
and three routings, of which two overlap; it takes that many for two routers to
mix a row. Two companies let one deny what the other confirms.

In `boot` three asset keys let a demo be stored, deleted and stored again beside the
other one, and two boots let the second heal what the first left. It runs the pipeline
without streams, which `overlap` covers, so that steps fail and processes die at every
other point. Boots that overlap need a second process; `DemoStoredOnce` then promises
nothing, and `together` is false in the instance.

In `graph` three project runs are two that collide and one that repeats either; the
projects name the same two companies in opposite orders, which is what a deadlock
takes, and one project has neither an id nor a participant with Latin letters, so
that NULLs and the empty key occur. `matching` uses the same projects with one builder,
since matchers see only commits. Three matchings are two that overlap and one after.

In `decisions` two assets give the smallest sample with both a winner and a loser,
two score values and an absent one the three places in the ranking, and five calls a
decision and an outcome for each and one re-scoring, deletion or reader.

`assessment` explores three aspects separately (`MCNext`): what streams answer, in
every order of success and failure, for each legal status; what days do to patents
and projects with every combination of fields; and every pair of texts. They share no
state but the legal status, so no combination of them reaches anything else.

Fairness. `SeedSpec` and `FairSpec` ask weak fairness of each process's steps: a live
process goes on executing, which the operating system gives. An LLM or HTTP call
that hangs is ended by its timeout and counts as a failing step. `GraphSpec` asks the
same of each builder's statements, the database's answer (a violation, a deadlock
detected) included: PostgreSQL looks for deadlocks after `deadlock_timeout`. Nothing
is asked of users: nobody need call, delete, boot or restart a process.
`EveryAssetAnswered` allows for a dead process.

### Findings

* `skipped_citation`: `existing_locators` takes every Source of the connector's
  `source_type` (`connectors/base.py:96`), S2's evidence Sources included, so a
  patent that was only cited is skipped as "already ingested"; the Source
  outlives the evidence, until the next `delete_asset` sweeps.
* `reruns_converge`: the dedup key of a tie holds the company that resolution
  returned (`graph/repository.py:97`), and resolution changes as the graph grows. A
  participant with a registry id that is new resolves by name to a company with
  another id; a later project creates the company of that id; repeating the first
  project ties that one too. The docstring (`graph/repository.py:94`) says re-runs
  converge. A project repeated at once adds nothing (`RepeatAddsNothing`).
* `decision_snapshots_score`: `forge decide` passes no score (`cli.py:408`), where
  `db/models.py:360` says that a decision snapshots routing and score; recalibration
  leaves such decisions out.

### Known limits of the code

The conditions in the properties name what the code does not keep. Each is reachable
in the models:

* Two overlapping runs of an asset both clear, then both save its evidence
  (`pipeline.py:176-181`): `EvidenceOfOneRun` excepts `overlapped` assets.
* A re-run without a synthesis keeps the earlier one (`pipeline.py:230`).
* A bundle without provenance ends the ingest (`connectors/base.py:132`): `ReportComplete`
  speaks of the references handled until then.
* Ingests that overlap may store a document twice: `OneAssetPerDocument` excepts `raced`
  documents. Boots that overlap may store a demo twice (`together`).
* Two overlapping routers may mix their columns in one row, and a slow one may put a
  ready row back to pending (`routing.py:125`): `UnmixedRowIsCrossing` excepts `mixed` rows.
  The next undisturbed routing repairs it (`QuietRoutingIsCurrent`).
* Builders that overlap may give one registry id to two companies, or replace a company's
  id by another (`raced`); they never take it away (`RegistryKept`).
* Matchings that overlap may both leave rows (`crossed`), until the next one that nobody
  joins (`HypothesesOfOneRun`).
* Records with equal timestamps are ordered by a random id (`tied`).

## 5. What is proved

All theorems hold for any sets of assets, streams, processes, references and
documents, builders, projects, profiles, thresholds, rules and any bounds, under the
named assumptions `PipelineAssumption`, `IngestAssumption`, `OpsAssumption`,
`RoutingAssumption`, `GraphAssumption`, `MatchingAssumption`, `DecisionsAssumption`,
`CorroborationAssumption`, `ScoringAssumption`, `DormancyAssumption`, `SectorsAssumption`
and `AssessmentAssumption`, which give the constants their types and keep the "none"
values apart from the others. Three say a little more: `OpsAssumption` has the lifetimes
above the skew, `MatchingAssumption` has finite vocabularies and asks hypotheses for at
least one shared term, and `DecisionsAssumption` has finitely many assets, since the
recalibration sums over them.

* `AssetStore_proofs`: `SourcesResolve` and `NothingSurvivesDeletion` are
  inductive with `StoreTypeOK`. Per transaction: inserts add the Source with the
  row, deletions only shrink what is referenced, and the sweep keeps exactly the
  referenced ones. `ScoreKeptUntilDeletion` is an action property: only
  `DeleteAsset` and `SaveScore` shrink the score table.
* `AssetPipeline_proofs`, the pipeline: `PipelineImplementsStore`. `StepIsTransaction`
  shows each step to be a store transaction or a stutter, from the type invariant of
  the workers (a working process has an asset and a run tag). The three store
  properties follow from it. `OthersUntouched` rests on a frame lemma per kind
  of step. `EvidenceOfOneRun` and `CleanRunIsWhole` are not inductive: what is in the
  tables in mid-run must be tied to how far the process is. `RecordInv` adds `Exclusive`
  (an asset that was never shared has at most one process), `Settlement` (a settled asset
  is idle and whole) and `InProgress` (per step: which profile, which evidence and which
  score the run has left so far, and that they are of this run unless an error was
  recorded).
* `AssetPipeline_proofs`, the boot: to the pipeline's variables each step is one of its
  own, none, or the death of a process that seeds (`SeedStepKinds`), which the pipeline
  takes for idle and would not let die. The store, `OthersUntouched` and `RecordInv` are
  carried over step by step (`SeedImplementsStore`, `SeedOthersUntouched`, `SeedRecords`). `DemoStoredOnce`
  needs `OnceInv`: unless boots overlapped, only one process boots, and what it is about
  to save is missing from the store. `CleanBootServes` needs `AllServe`: while nothing
  fails, every demo is stored or about to be saved and, once scoring has begun, scored
  or still in the batch.
* `Ingest_proofs`: implementation of the store; `OneAssetPerDocument` from "every
  active run has the document of every stored asset in its `seen` set, unless it
  was raced"; `SkippedWasStoredOrCited` from "what a run has seen was stored
  or cited"; `ReportComplete` from "the rest of the answer plus the report is the
  whole answer".

* `OpsClient_proofs`: `OpsInv` strengthens the four properties by what connects
  the client's clock to OPS's (`TokenInv`: the expiry the client reckons with is at
  most `Timeout - Skew` after the real end), the throttle to the last GET
  (`LastInv`), a 401 to the token that follows it (`RetryInv`) and GETs to
  candidates (`CountInv`). `TokenNotLate` with the shipped values says: a token
  may be sent after its end, because the throttle sleeps after the check, but
  by less than the one second of the interval; the 401 that follows is then
  answered with a new token.

* `TwoAxisRouting_proofs`: `RoutingInv` adds what routers carry in memory:
  what they have read was reported, because records are only ever added
  (`ReadInv`); what they have computed is one crossing (`WholeInv`); what an
  undisturbed one has read is still what the records say (`QuietInv`). The save is
  the crux: column by column it takes values from the result or the row, both
  reported; and over the row it loaded it stores the whole result.

* `CompanyGraph_proofs`: `GraphInv` ties what a builder has written to how far it is:
  the companies and ties it would commit make its project whole
  (what it has passed has a tie of its own or of an earlier commit, whose company
  is there). `ProjectsAreWhole` follows,
  and `GraphImplementsLedger`: `Commit` is `Enter` with the companies of the builder's
  ties, every other step is a stutter.
  `RegistryNamesOneCompany`, `RegistryKept` and `RepeatAddsNothing` need `RunsInv`, which
  speaks of a builder during which nobody else has committed: it sees no two companies of
  one id, its own writes included, nor an id replaced (`AloneSees`); what it has passed is
  settled, that is, would be resolved to a company already tied if it came again
  (`AloneSettled`); and if it repeats the project committed last it has written nothing
  (`AloneRepeats`). That no id is lost even when builders overlap is `HoldInv`: a row one
  builder has written is held by nobody else, and one written without an id is of a company
  that is not there yet, so that a commit can put no blank over an id.

* `CompanyGraph_proofs`, the matchers: builders only add to the graph (`GraphGrows`), so
  what a matcher has read stays true. `MatchersInv` has it that drafts rest on
  committed ties (`DraftsInv`), that a matcher which nobody has joined deletes all rows of
  its asset, crossed ones included, and has a draft for each company of an uncrossed set
  (`SoloInv`), that nobody else is at work on its asset (`Crossing`), and what rows say of
  the profile they came from (`NeedsInv`). `RowsOfOneMatching`, `HypothesesAreGrounded` and
  `RematchingKeeps` follow; the last needs that shared terms of a company only become
  more when its ties do.

* `Decisions_proofs`: readers rest on `StandingIsLast` (while no timestamps were equal, the
  record committed last is the one of the latest timestamp) and `ReadIsCurrent` (what an
  undisturbed reader has read is what the tables hold), which give
  `QuietRecalibration` and `QuietDashboard`. `ProposalsAreSupported` rests on
  `LogIsOfATally`: a logged row is that of counts and sums that are natural numbers, so
  that the cutoff lies between the means. `DashboardIsRanked`, about dashboards that were
  disturbed, rests on `ReadIsOnRecord`: what a dashboard has read of an asset is still on
  record, or the asset is gone, since assets never come back and decisions go only with
  them. `RecordsStayOfLiveAssets` is about the cascades and the foreign keys.

* `Assessment_proofs`: the properties are about the state's readings, so type
  correctness is the only induction; the rest is the argument about the rules.
  `SprintsAreCrossStream`: each indicator is favourable only through its stream, and no
  stream has three. `LossPromotesOnlyIfS2`: without S2
  lost, a conflict can only go away together with favourable indicators, and what
  is left of them is too few for a sprint. `MoreIsNeverLess`: filling in a field
  changes no condition that was known, except by the date the asset goes by or by a use
  of it. `SectorsAreStable`: a term of the sector raises its overlap by one and any
  other's by at most one. `ScoresFollowReadings`: a score is a weighted mean over the
  dimensions that could be scored, and a dimension a mean over its components. A mean is
  at least `m` exactly when the weighted excess of its components over `m` is not
  negative (`QuotientAtLeast`), which turns the comparison of two rounded quotients into
  one of sums, component by component, those that appear or vanish included.

Sums over sets are folds over an order of the elements that is left open. That their order
does not matter is shown by a minimal counterexample (`SumIsAdder`), since induction
over sets is out of reach.

Only model-checked: `EveryAssetAnswered` and `ProjectsEnd`, which need fairness, out of the
prover's reach; and the three violations, which are counterexamples.

## 6. What is not modelled

* Governance: stateless permission checks against a table of the configuration; a
  property of them would restate the table.
* Document upload: regular expressions over free text, ending in `save_asset`.
* Configuration and schema migrations: their numbers are constants, their constraints
  guards.
* Within the modelled components: XML, JSON and HTML conversion; the LLM providers;
  the text of briefs; the audit and the `company_lists` view, which only read; the
  deletion of an asset while it is matched; CORDIS as an asset source, which runs the loop
  of `Ingest`; the order of rows where nothing depends on it; authorisation in front
  of the handlers (it refuses a call before anything happens); `skip_existing=False` and
  `run_pipeline=False`, which no production caller passes to these entry points.
