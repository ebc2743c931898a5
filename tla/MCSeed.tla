-------------------------------- MODULE MCSeed --------------------------------
(***************************************************************************)
(* Instances of Seed for TLC, with the streams of MCAssetPipeline.         *)
(***************************************************************************)
EXTENDS Seed, MCAssetPipeline

\* No stream at all: a boot does not look at what the streams have come to.
MCNoStreams == {}
MCNoOrder   == [s \in MCNoStreams |-> 0]

==========================================================================
