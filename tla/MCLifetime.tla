----------------------------- MODULE MCLifetime -----------------------------
(* The instance of Lifetime that TLC checks; its constants are in Lifetime.cfg. *)
EXTENDS Lifetime
=============================================================================
