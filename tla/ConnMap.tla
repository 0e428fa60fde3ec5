------------------------------ MODULE ConnMap ------------------------------
(***************************************************************************)
(* What the connection table of ProxyBridge.c promises its callers: a map  *)
(* from source ports to entries, every call of which takes effect at once, *)
(* except that an add may be lost if the port has no entry.                *)
(***************************************************************************)
CONSTANTS Ports, Values, None

VARIABLES
  map,           \* the entry of each port
  call           \* the call that has just taken effect, with its result

NoCall == [op |-> "none"]

Init == map = [p \in Ports |-> None] /\ call = NoCall

Put(p, v) ==
  /\ call' = [op |-> "add", port |-> p, value |-> v]
  /\ map' = [map EXCEPT ![p] = v]

\* A new entry needs memory; the caller does not learn that there was none.  An
\* entry that exists is always overwritten.
PutLost(p, v) ==
  /\ map[p] = None
  /\ call' = [op |-> "add", port |-> p, value |-> v]
  /\ UNCHANGED map

Get(p) ==
  /\ call' = [op |-> "get", port |-> p, value |-> map[p]]
  /\ UNCHANGED map

Remove(p) ==
  /\ call' = [op |-> "remove", port |-> p]
  /\ map' = [map EXCEPT ![p] = None]

\* The cleanup drops an entry that exists.
Expire(p) ==
  /\ call' = [op |-> "expire", port |-> p]
  /\ map[p] # None
  /\ map' = [map EXCEPT ![p] = None]

\* Stop empties the table.
Clear == call' = [op |-> "clear"] /\ map' = [p \in Ports |-> None]

Next ==
  \/ \E p \in Ports : \/ Get(p) \/ Remove(p) \/ Expire(p)
                     \/ \E v \in Values : Put(p, v) \/ PutLost(p, v)
  \/ Clear

Spec == Init /\ [][Next]_<<map, call>>
=============================================================================
