--------------------------- MODULE MCTcpRedirect ---------------------------
(* Instances of TcpRedirect for TLC; the constants are in the .cfg files.  *)
EXTENDS TcpRedirect
=============================================================================
