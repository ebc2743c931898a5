-------------------------------- MODULE Seed --------------------------------
(***************************************************************************)
(* seed_demo (src/forge/seed.py) at every boot of the demo, on top of the  *)
(* AssetPipeline: a process reads which demo patents the store knows by    *)
(* their synthetic locators, saves the missing ones one commit each, and   *)
(* runs the pipeline over those it saved and over the demo assets that an  *)
(* earlier boot has left without a score.  Assets are deleted meanwhile    *)
(* and processes die at any point.                                         *)
(*                                                                         *)
(* How the pipeline profiles and which stream clients it is given is of no *)
(* account here; RunStreams leaves open what the streams come to.          *)
(***************************************************************************)
EXTENDS AssetPipeline

CONSTANTS
    Demos,       \* the locators of _DEMO_SPECS
    MaxBoots,    \* bound: boots
    NoDemo

VARIABLES
    demo,        \* per asset: the locator of its provenance source, or NoDemo
    boot,        \* per process: how far its boot has come
    boots,       \* number of boots begun
    together,    \* history: two boots have been under way at once
    untroubled   \* history, per process: nothing of its boot has failed, and no
                 \*   asset was deleted since it began

bootVars == <<demo, boot, boots, together, untroubled>>
seedVars == <<vars, bootVars>>

NoBoot == [phase |-> "none", pending |-> {}, new |-> {}]

SeedInit ==
    /\ Init
    /\ demo = [a \in Assets |-> NoDemo]
    /\ boot = [w \in Workers |-> NoBoot]
    /\ boots = 0
    /\ together = FALSE
    /\ untroubled = [w \in Workers |-> TRUE]

Booting(w) == boot[w].phase # "none"

\* Mutant of Existing: only the demos that have been scored are looked up.
ExistingScored == {demo[row.asset] : row \in scores} \cap Demos

\* The locators among the synthetic Sources, whether or not their asset is stored.
Existing == {demo[row.asset] : row \in {r \in sources : r \in Provenance}} \cap Demos

\* The demo assets, found through their provenance, that have no score.
Unscored == {a \in stored : demo[a] \in Demos /\ Of(scores, a) = {}}

---------------------------------------------------------------------------
\* Within the bound there is a batch left, for those who are about to need one too.
BatchLeft == batches + Cardinality({w \in Workers : boot[w].phase = "seeding"}) < MaxBatches

\* The process looks up what is there.
BeginBoot(w) ==
    /\ pc[w] = "idle"
    /\ ~ Booting(w)
    /\ boots < MaxBoots /\ BatchLeft
    /\ boots' = boots + 1
    /\ boot' = [boot EXCEPT ![w] = [phase |-> "seeding", pending |-> Demos \ Existing, new |-> {}]]
    /\ together' = (together \/ \E v \in Workers \ {w} : Booting(v))
    /\ untroubled' = [untroubled EXCEPT ![w] = TRUE]
    /\ UNCHANGED <<vars, demo>>

\* save_asset of the next missing demo, which may raise: it is reported, and the
\* loop goes on.
SeedOne(w) ==
    /\ boot[w].phase = "seeding"
    /\ \E d \in boot[w].pending :
         \/ \E a \in Assets :
              /\ SaveAsset(a)
              /\ demo' = [demo EXCEPT ![a] = d]
              /\ boot' = [boot EXCEPT ![w].pending = @ \ {d}, ![w].new = @ \cup {a}]
              /\ UNCHANGED <<workerVars, boots, together, untroubled>>
         \/ /\ boot' = [boot EXCEPT ![w].pending = @ \ {d}]
            /\ untroubled' = [untroubled EXCEPT ![w] = FALSE]
            /\ UNCHANGED <<vars, demo, boots, together>>

\* Mutant of ToScore: only what this boot has saved.
ToScoreNewOnly(w) == boot[w].new

ToScore(w) == boot[w].new \cup Unscored

\* The pipeline is run when there is anything to score.
BeginScoring(w) ==
    /\ boot[w].phase = "seeding"
    /\ boot[w].pending = {}
    /\ IF ToScore(w) = {}
         THEN boot' = [boot EXCEPT ![w] = NoBoot] /\ UNCHANGED vars
         ELSE boot' = [boot EXCEPT ![w].phase = "scoring"] /\ StartBatch(w, ToScore(w))
    /\ UNCHANGED <<demo, boots, together, untroubled>>

\* The process dies while it seeds.
BootCrash(w) ==
    /\ boot[w].phase = "seeding"
    /\ boot' = [boot EXCEPT ![w] = NoBoot]
    /\ pc' = [pc EXCEPT ![w] = "down"]
    /\ UNCHANGED <<storeVars, batches, control, current, memory, clean, history>>
    /\ UNCHANGED <<demo, boots, together, untroubled>>

---------------------------------------------------------------------------
\* An asset of w's batch ends without a score.
FailsToScore(w) ==
    \/ pc[w] = "score" /\ pc'[w] = "synthesise" /\ Of(scores, current[w])' = {}
    \/ pc[w] \notin {"idle", "down", "fetch", "synthesise"} /\ pc'[w] = "fetch"

\* A step of the pipeline, the store or the environment, and what it means for the
\* boots under way; they end with their batch, or with their process.
PipelineStep ==
    /\ \/ \E a \in Assets : RemoveAsset(a)
       \/ \E w \in Workers :
            \/ Crash(w)
            \/ Restart(w)
            \/ Process(w)
    /\ boot' = [w \in Workers |-> IF boot[w].phase = "scoring" /\ pc'[w] \in {"idle", "down"}
                                    THEN NoBoot ELSE boot[w]]
    /\ untroubled' = [w \in Workers |->
                        untroubled[w] /\ stored \subseteq stored' /\ ~ FailsToScore(w)]
    /\ UNCHANGED <<demo, boots, together>>

SeedStep(w) == SeedOne(w) \/ BeginScoring(w)

SeedNext ==
    \/ PipelineStep
    \/ \E w \in Workers : BeginBoot(w) \/ SeedStep(w) \/ BootCrash(w)

\* A live process goes on executing.
SeedSpec ==
    /\ SeedInit /\ [][SeedNext]_seedVars
    /\ \A w \in Workers : WF_seedVars(SeedStep(w)) /\ WF_seedVars(PipelineStep /\ Process(w))

---------------------------------------------------------------------------
(***************************************************************************)
(* Properties.                                                             *)
(***************************************************************************)
\* "Idempotent: an asset whose synthetic locator is already stored is skipped"
\* (seed.py:316), unless two boots are under way at once.
DemoStoredOnce ==
    ~ together => \A a, b \in stored : (demo[a] = demo[b] /\ demo[a] # NoDemo) => a = b

\* A boot in which nothing fails heals whatever earlier ones have left behind, a
\* process dead between saving and scoring (seed.py:347) or a demo deleted since:
\* when it ends, every demo is stored and scored.
CleanBootServes ==
    [][ \A w \in Workers : (Booting(w) /\ boot'[w] = NoBoot /\ pc'[w] = "idle" /\ untroubled'[w])
          => \A d \in Demos : \E a \in stored' : demo[a] = d /\ Of(scores, a)' # {} ]_seedVars

==========================================================================
