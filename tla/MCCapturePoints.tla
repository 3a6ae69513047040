-------------------------- MODULE MCCapturePoints ---------------------------
(* Three capture points and three changes of their list. *)
EXTENDS CapturePoints
=============================================================================
