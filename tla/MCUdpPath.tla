----------------------------- MODULE MCUdpPath -----------------------------
(***************************************************************************)
(* The instance of UdpPath that TLC checks: two IPv4 destinations, of      *)
(* which b is broadcast, and two in IPv6, of which d is multicast.         *)
(***************************************************************************)
EXTENDS UdpPath, TLC

CONSTANTS a, b, c, d

MCSpecial == {b, d}

MCRulings ==
  { (a :> "PROXY") @@ (b :> "PROXY") @@ (c :> "PROXY")  @@ (d :> "PROXY"),
    (a :> "CONE")  @@ (b :> "BLOCK") @@ (c :> "BLOCK")  @@ (d :> "BLOCK"),
    (a :> "PROXY") @@ (b :> "CONE")  @@ (c :> "CONE")   @@ (d :> "PROXY"),
    (a :> "BLOCK") @@ (b :> "PROXY") @@ (c :> "DIRECT") @@ (d :> "BLOCK") }

Symmetry == Permutations(Ports)
=============================================================================
