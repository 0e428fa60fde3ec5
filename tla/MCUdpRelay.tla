----------------------------- MODULE MCUdpRelay -----------------------------
(* The instance of UdpRelay that TLC checks; its constants are in UdpRelay.cfg. *)
EXTENDS UdpRelay
=============================================================================
