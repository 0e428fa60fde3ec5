---------------------------- MODULE MCHandshake ----------------------------
(***************************************************************************)
(* The instance of Handshake that TLC checks: credentials of up to four    *)
(* bytes, so that base64 groups of each length occur, with the smallest    *)
(* and largest byte; answers shorter than, as long as and longer than the  *)
(* ten bytes of one with an IPv4 address.                                  *)
(***************************************************************************)
EXTENDS Handshake, SequencesExt

MCCredentials == BoundedSeq({1, 58, 255}, 4)
MCSample == <<1, 58, 255>>
=============================================================================
