--------------------------- MODULE DatagramOrder ---------------------------
(***************************************************************************)
(* What the full-cone UDP path promises a client socket: every datagram it *)
(* hands over is sent to the proxy at most once and in the order in which  *)
(* it was handed over.  Datagrams may be lost (UDP), and several may leave *)
(* in one step (the handshake buffer is flushed).  Datagrams of one client *)
(* are numbered 1, 2, 3, ... in the order the client sends them.           *)
(***************************************************************************)
EXTENDS Naturals, Sequences

CONSTANT Keys      \* client sockets: (client_port, is_ipv6) pairs

VARIABLES
  handed,          \* handed[k]: how many datagrams client k has handed over
  sent             \* sent[k]: the numbers passed on to the proxy, in order

vars == <<handed, sent>>

LastSent(k) == IF sent[k] = <<>> THEN 0 ELSE sent[k][Len(sent[k])]

Init ==
  /\ handed = [k \in Keys |-> 0]
  /\ sent = [k \in Keys |-> <<>>]

HandOver(k) ==
  /\ handed' = [handed EXCEPT ![k] = @ + 1]
  /\ UNCHANGED sent

\* A batch of datagrams, each newer than everything sent before it.
IsNewerBatch(k, batch) ==
  /\ \A i \in DOMAIN batch : batch[i] \in LastSent(k) + 1 .. handed[k]
  /\ \A i, j \in DOMAIN batch : i < j => batch[i] < batch[j]

\* sent[k] grows by a newer batch (possibly empty); the batch is read off the
\* next state, so that TLC need not enumerate batches.
PassOn(k) ==
  /\ UNCHANGED handed
  /\ \A c \in Keys \ {k} : sent'[c] = sent[c]
  /\ DOMAIN sent' = Keys
  /\ Len(sent'[k]) >= Len(sent[k])
  /\ SubSeq(sent'[k], 1, Len(sent[k])) = sent[k]
  /\ IsNewerBatch(k, SubSeq(sent'[k], Len(sent[k]) + 1, Len(sent'[k])))

Next == \E k \in Keys : HandOver(k) \/ PassOn(k)

Spec == Init /\ [][Next]_vars
=============================================================================
