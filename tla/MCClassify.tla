----------------------------- MODULE MCClassify -----------------------------
(***************************************************************************)
(* A small instance of Classify and Patterns for TLC: a browser that the   *)
(* rule lists and the bridge, which its pattern matches too; addresses of  *)
(* two octets.                                                             *)
(***************************************************************************)
EXTENDS Classify

CONSTANTS browser, bridge

MCUpper == [A |-> "a"]
MCNumber == "0" :> 0 @@ "1" :> 1 @@ "2" :> 2
MCPath == browser :> <<"z", "\\", "A", "b">> @@ bridge :> <<"a", "b">>
MCProcessList == <<"z", ";", " ", "a", "*", "b", " ">>
=============================================================================
