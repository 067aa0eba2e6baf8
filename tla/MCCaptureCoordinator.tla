------------------------ MODULE MCCaptureCoordinator ------------------------
(* The Flight coordinator as the tracer uses it, for TLC.                  *)
EXTENDS CaptureCoordinator
=============================================================================
