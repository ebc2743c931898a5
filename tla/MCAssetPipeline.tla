-------------------------- MODULE MCAssetPipeline --------------------------
(***************************************************************************)
(* Small instances of AssetPipeline.  MCStreams is one live stream (S2)    *)
(* and one offline stream (S3), in the order _run_streams runs them.       *)
(***************************************************************************)
EXTENDS AssetPipeline, TLC

MCStreams == {"S2", "S3"}
MCLive    == {"S2"}
MCOrder   == [s \in MCStreams |-> IF s = "S2" THEN 1 ELSE 3]

MCRuns == 0 .. MaxBatches

\* Processes are interchangeable (no liveness property is checked with it).
MCSymmetry == Permutations(Workers)

===========================================================================
