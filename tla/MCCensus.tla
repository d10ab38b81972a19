------------------------------ MODULE MCCensus -------------------------------
(* Census for TLC.                                                           *)
EXTENDS Census
=============================================================================
