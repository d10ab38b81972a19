---------------------------- MODULE MCOptionsFlow ----------------------------
(* OptionsFlow for TLC.                                                     *)
EXTENDS OptionsFlow
=============================================================================
