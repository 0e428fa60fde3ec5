----------------------------- MODULE RelayPair -----------------------------
(***************************************************************************)
(* One redirected TCP connection in the local relay of ProxyBridge.c:      *)
(* connection_handler reaches the proxy, transfer_handler then pumps each  *)
(* direction in a thread of its own (one_way_relay), and the two threads   *)
(* share a RELAY_PAIR with a reference count.                              *)
(* Other connections matter in one way only: they open and close sockets   *)
(* too, and may get a number as soon as it has been closed here.           *)
(***************************************************************************)
EXTENDS Integers, FiniteSets

CONSTANTS
  Handles,       \* socket numbers the OS hands out
  None,          \* INVALID_SOCKET
  MaxChunks      \* bound: chunks each end writes

ASSUME RelayConstants == MaxChunks \in Nat /\ None \notin Handles

VARIABLES
  handler,       \* connection_handler and transfer_handler, up to the pumps
  sock,          \* the two socket numbers, as the threads know them
  owner,         \* the socket table: "free", "mine" or "other"
  pair,          \* the RELAY_PAIR: allocated or not, and its refs
  pump,          \* the thread of each direction
  peer,          \* what each end has done to its connection
  shut,          \* the sides shutdown(SD_BOTH) was called on
  src,           \* per direction: chunks written by its source
  taken,         \* per direction: chunks received by the pump
  put            \* per direction: chunks handed to the other side

vars == <<handler, sock, owner, pair, pump, peer, shut, src, taken, put>>
streams == <<src, taken, put>>

Sides == {"client", "proxy"}
Dirs == {"up", "down"}
From(d) == IF d = "up" THEN "client" ELSE "proxy"
To(d) == IF d = "up" THEN "proxy" ELSE "client"
Other(d) == IF d = "up" THEN "down" ELSE "up"

-----------------------------------------------------------------------------

HandlerPC == {"lookup", "connect", "setup", "abort", "run", "done"}
Ending == {"shutc", "shutp", "dec", "closec", "closep"}
PumpPC == {"none", "recv", "send", "done"} \cup Ending

\* Every variable has its type; refs never leaves the two references taken.
TypeOK ==
  /\ handler \in HandlerPC
  /\ sock \in [Sides -> Handles \cup {None}]
  /\ owner \in [Handles -> {"free", "mine", "other"}]
  /\ pair \in [live : BOOLEAN, refs : 0 .. 2]
  /\ pump \in [Dirs -> PumpPC]
  /\ peer \in [Sides -> {"open", "fin", "reset"}]
  /\ shut \subseteq Sides
  /\ src \in [Dirs -> Nat] /\ taken \in [Dirs -> Nat] /\ put \in [Dirs -> Nat]

Init ==
  /\ handler = "lookup"
  /\ \E h \in Handles :
       /\ sock = [s \in Sides |-> IF s = "client" THEN h ELSE None]
       /\ owner \in [Handles -> {"free", "mine", "other"}]
       /\ \A g \in Handles : owner[g] = "mine" <=> g = h
  /\ pair = [live |-> FALSE, refs |-> 0]
  /\ pump = [d \in Dirs |-> "none"]
  /\ peer = [s \in Sides |-> "open"]
  /\ shut = {}
  /\ src = [d \in Dirs |-> 0] /\ taken = [d \in Dirs |-> 0] /\ put = [d \in Dirs |-> 0]

Close(s) == owner' = [owner EXCEPT ![sock[s]] = "free"]

-----------------------------------------------------------------------------
(* connection_handler and transfer_handler *)

\* No usable proxy configuration, unknown host, or socket() fails.
LookupFails ==
  /\ handler = "lookup"
  /\ Close("client")
  /\ handler' = "done"
  /\ UNCHANGED <<sock, pair, pump, peer, shut, streams>>

OpenProxy ==
  /\ handler = "lookup"
  /\ \E h \in Handles : /\ owner[h] = "free"
                        /\ owner' = [owner EXCEPT ![h] = "mine"]
                        /\ sock' = [sock EXCEPT !["proxy"] = h]
  /\ handler' = "connect"
  /\ UNCHANGED <<pair, pump, peer, shut, streams>>

\* connect() and the SOCKS5 or HTTP handshake succeed.
Establish ==
  /\ handler = "connect"
  /\ handler' = "setup"
  /\ UNCHANGED <<sock, owner, pair, pump, peer, shut, streams>>

\* connect or handshake fails, or there is no memory or thread for the pumps:
\* both sockets are closed, one call after the other.
AbandonClient ==
  /\ handler \in {"connect", "setup"}
  /\ Close("client")
  /\ handler' = "abort"
  /\ UNCHANGED <<sock, pair, pump, peer, shut, streams>>

AbandonProxy ==
  /\ handler = "abort"
  /\ Close("proxy")
  /\ handler' = "done"
  /\ UNCHANGED <<sock, pair, pump, peer, shut, streams>>

\* Mutant: the reference of the thread that runs the download is forgotten.
Start_OneRef ==
  /\ handler = "setup"
  /\ pair' = [live |-> TRUE, refs |-> 1]
  /\ pump' \in [Dirs -> {"recv", "shutc"}]
  /\ handler' = "run"
  /\ UNCHANGED <<sock, owner, peer, shut, streams>>

\* Both pumps start; one that gets no buffer goes straight to its end.
Start ==
  /\ handler = "setup"
  /\ pair' = [live |-> TRUE, refs |-> 2]
  /\ pump' \in [Dirs -> {"recv", "shutc"}]
  /\ handler' = "run"
  /\ UNCHANGED <<sock, owner, peer, shut, streams>>

\* The download has run in this thread; then the upload is waited for.
Return ==
  /\ handler = "run" /\ \A d \in Dirs : pump[d] = "done"
  /\ handler' = "done"
  /\ UNCHANGED <<sock, owner, pair, pump, peer, shut, streams>>

-----------------------------------------------------------------------------
(* one_way_relay *)

Recv(d) ==
  /\ pump[d] = "recv" /\ From(d) \notin shut /\ peer[From(d)] # "reset"
  /\ \E n \in 1 .. src[d] - taken[d] : taken' = [taken EXCEPT ![d] = @ + n]
  /\ pump' = [pump EXCEPT ![d] = "send"]
  /\ UNCHANGED <<handler, sock, owner, pair, peer, shut, src, put>>

RecvEnds(d) ==
  /\ pump[d] = "recv"
  /\ \/ From(d) \in shut
     \/ peer[From(d)] = "reset"
     \/ peer[From(d)] = "fin" /\ taken[d] = src[d]
  /\ pump' = [pump EXCEPT ![d] = "shutc"]
  /\ UNCHANGED <<handler, sock, owner, pair, peer, shut, streams>>

\* Mutant: a short send is taken for a complete one.
Send_Short(d) ==
  /\ pump[d] = "send" /\ To(d) \notin shut /\ peer[To(d)] # "reset"
  /\ \E n \in 1 .. taken[d] - put[d] : put' = [put EXCEPT ![d] = @ + n]
  /\ pump' = [pump EXCEPT ![d] = "recv"]
  /\ UNCHANGED <<handler, sock, owner, pair, peer, shut, src, taken>>

\* One send() of send_all, which goes on until the buffer is empty.
Send(d) ==
  /\ pump[d] = "send" /\ To(d) \notin shut /\ peer[To(d)] # "reset"
  /\ \E n \in 1 .. taken[d] - put[d] :
       /\ put' = [put EXCEPT ![d] = @ + n]
       /\ pump' = [pump EXCEPT ![d] = IF put[d] + n = taken[d] THEN "recv" ELSE "send"]
  /\ UNCHANGED <<handler, sock, owner, pair, peer, shut, src, taken>>

SendFails(d) ==
  /\ pump[d] = "send"
  /\ To(d) \in shut \/ peer[To(d)] = "reset"
  /\ pump' = [pump EXCEPT ![d] = "shutc"]
  /\ UNCHANGED <<handler, sock, owner, pair, peer, shut, streams>>

\* Mutant: the thread leaves the proxy's socket open for both directions.
ShutProxy_Skips(d) ==
  /\ pump[d] = "shutp"
  /\ pump' = [pump EXCEPT ![d] = "dec"]
  /\ UNCHANGED <<handler, sock, owner, pair, peer, shut, streams>>

ShutClient(d) ==
  /\ pump[d] = "shutc"
  /\ shut' = shut \cup {"client"}
  /\ pump' = [pump EXCEPT ![d] = "shutp"]
  /\ UNCHANGED <<handler, sock, owner, pair, peer, streams>>

ShutProxy(d) ==
  /\ pump[d] = "shutp"
  /\ shut' = shut \cup {"proxy"}
  /\ pump' = [pump EXCEPT ![d] = "dec"]
  /\ UNCHANGED <<handler, sock, owner, pair, peer, streams>>

\* Mutant: the first thread out closes.
Decrement_FirstCloses(d) ==
  /\ pump[d] = "dec"
  /\ pair' = [pair EXCEPT !.refs = @ - 1]
  /\ pump' = [pump EXCEPT ![d] = IF pair.refs = 2 THEN "closec" ELSE "done"]
  /\ UNCHANGED <<handler, sock, owner, peer, shut, streams>>

\* Mutant: nobody closes.
Decrement_NobodyCloses(d) ==
  /\ pump[d] = "dec"
  /\ pair' = [pair EXCEPT !.refs = @ - 1]
  /\ pump' = [pump EXCEPT ![d] = "done"]
  /\ UNCHANGED <<handler, sock, owner, peer, shut, streams>>

\* The last thread out closes and frees.
Decrement(d) ==
  /\ pump[d] = "dec"
  /\ pair' = [pair EXCEPT !.refs = @ - 1]
  /\ pump' = [pump EXCEPT ![d] = IF pair.refs = 1 THEN "closec" ELSE "done"]
  /\ UNCHANGED <<handler, sock, owner, peer, shut, streams>>

CloseClient(d) ==
  /\ pump[d] = "closec"
  /\ Close("client")
  /\ pump' = [pump EXCEPT ![d] = "closep"]
  /\ UNCHANGED <<handler, sock, pair, peer, shut, streams>>

CloseProxyAndFree(d) ==
  /\ pump[d] = "closep"
  /\ Close("proxy")
  /\ pair' = [pair EXCEPT !.live = FALSE]
  /\ pump' = [pump EXCEPT ![d] = "done"]
  /\ UNCHANGED <<handler, sock, peer, shut, streams>>

-----------------------------------------------------------------------------
(* The two ends, and the other connections of the process *)

Write(d) ==
  /\ peer[From(d)] = "open" /\ src[d] < MaxChunks
  /\ handler \in IF d = "up" THEN HandlerPC \ {"done"} ELSE {"setup", "run"}
  /\ src' = [src EXCEPT ![d] = @ + 1]
  /\ UNCHANGED <<handler, sock, owner, pair, pump, peer, shut, taken, put>>

Finish(s, how) ==
  /\ peer[s] = "open" \/ (peer[s] = "fin" /\ how = "reset")
  /\ handler \in IF s = "client" THEN HandlerPC \ {"done"} ELSE {"setup", "run"}
  /\ peer' = [peer EXCEPT ![s] = how]
  /\ UNCHANGED <<handler, sock, owner, pair, pump, shut, streams>>

OtherOpens(h) ==
  /\ owner[h] = "free"
  /\ owner' = [owner EXCEPT ![h] = "other"]
  /\ UNCHANGED <<handler, sock, pair, pump, peer, shut, streams>>

OtherCloses(h) ==
  /\ owner[h] = "other"
  /\ owner' = [owner EXCEPT ![h] = "free"]
  /\ UNCHANGED <<handler, sock, pair, pump, peer, shut, streams>>

-----------------------------------------------------------------------------

HandlerStep ==
  LookupFails \/ OpenProxy \/ Establish \/ AbandonClient \/ AbandonProxy \/ Start \/ Return

PumpStep(d) ==
  \/ Recv(d) \/ RecvEnds(d) \/ SendFails(d)
  \/ ShutClient(d) \/ ShutProxy(d) \/ Decrement(d) \/ CloseClient(d) \/ CloseProxyAndFree(d)

Environment ==
  \/ \E d \in Dirs : Write(d)
  \/ \E s \in Sides, how \in {"fin", "reset"} : Finish(s, how)
  \/ \E h \in Handles : OtherOpens(h) \/ OtherCloses(h)

Next == HandlerStep \/ Environment \/ \E d \in Dirs : PumpStep(d) \/ Send(d)

Spec == Init /\ [][Next]_vars

\* Threads run; connect and handshake end by their timeouts.  A send may block
\* as long as the other end does not read, so Send is not fair.
FairSpec == Spec /\ WF_vars(HandlerStep) /\ \A d \in Dirs : WF_vars(PumpStep(d))

-----------------------------------------------------------------------------
(* Properties *)

\* The sockets somebody here still has to close.
Held ==
  {s \in Sides :
     \/ handler \in {"connect", "setup"}
     \/ handler = "lookup" /\ s = "client"
     \/ handler = "abort" /\ s = "proxy"
     \/ handler = "run" /\ \E d \in Dirs : pump[d] # "done" /\ (s = "client" => pump[d] # "closep")}

\* Every socket opened for the connection is closed exactly once, on every
\* path: what is open is what somebody still has to close, so nothing leaks,
\* and what somebody still uses or closes is open, so that no call ever hits a
\* number that another connection got meanwhile.
SocketsOwned ==
  {h \in Handles : owner[h] = "mine"} = {sock[s] : s \in Held}

\* The RELAY_PAIR is freed by the last thread out: as long as a thread can
\* touch it, it is allocated, and the handler does not leave it behind.
PairLive ==
  /\ \A d \in Dirs : pump[d] \notin {"none", "done"} => pair.live
  /\ handler = "done" => ~pair.live

\* A direction that has ended early, before delivering what its source wrote,
\* did so because an end was reset, because the other direction had ended, or
\* because it never got a buffer.
LossExplained ==
  \A d \in Dirs :
    pump[d] \in Ending \cup {"done"} /\ put[d] < src[d] =>
      \/ \E s \in Sides : peer[s] = "reset"
      \/ pump[Other(d)] \in Ending \cup {"done"}
      \/ taken[d] = 0

\* Whichever direction finishes first, the sibling exits too (comment above
\* one_way_relay) and the connection is closed, even if the sibling was blocked
\* in a send to an end that no longer reads.
EndsTogether ==
  \A d \in Dirs : pump[d] \in Ending ~> handler = "done"
=============================================================================
