--------------------------- MODULE MCCaptureRecords ---------------------------
(* CaptureRecords for TLC.                                                  *)
EXTENDS CaptureRecords
=============================================================================
