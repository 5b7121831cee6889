------------------------- MODULE MCCapturePipeline -------------------------
(* Instances of CapturePipeline for TLC.                                   *)
EXTENDS CapturePipeline, TLC

CONSTANTS http, watcher
=============================================================================
