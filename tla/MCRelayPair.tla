---------------------------- MODULE MCRelayPair ----------------------------
(***************************************************************************)
(* Instance of RelayPair for TLC.                                          *)
(***************************************************************************)
EXTENDS RelayPair
=============================================================================
