------------------------- MODULE MCGenerationStatus -------------------------
(* Instances of GenerationStatus for TLC.                                  *)
EXTENDS GenerationStatus
=============================================================================
