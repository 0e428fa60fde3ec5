-------------------------- MODULE RelayPairProofs --------------------------
(***************************************************************************)
(* Proofs about RelayPair: the reference count is exact, the pair is never *)
(* used after it was freed, and every socket is closed exactly once, for   *)
(* any set of socket numbers and any amount of data.                       *)
(***************************************************************************)
EXTENDS RelayPair, TLAPS

\* A thread that has not given up its reference.
Before(d) == pump[d] \in {"recv", "send", "shutc", "shutp", "dec"}

References == (IF Before("up") THEN 1 ELSE 0) + (IF Before("down") THEN 1 ELSE 0)

\* Where the threads can be for each stage of the handler.
Control ==
  /\ handler \notin {"run", "done"} => /\ ~pair.live
                                       /\ \A d \in Dirs : pump[d] = "none"
  /\ handler = "run" =>
       /\ pair.refs = References
       /\ pair.live <=> \E d \in Dirs : pump[d] # "done"
       /\ \A d \in Dirs : pump[d] # "none"
       /\ \A d \in Dirs : pump[d] \in {"closec", "closep"} => pump[Other(d)] = "done"
  /\ handler = "done" => /\ ~pair.live
                         /\ \A d \in Dirs : pump[d] \in {"none", "done"}

\* The numbers still in use are known and distinct.
Numbers ==
  /\ \A s \in Held : sock[s] \in Handles
  /\ \A s, t \in Held : sock[s] = sock[t] => s = t

IInv == TypeOK /\ Control /\ Numbers /\ SocketsOwned

-----------------------------------------------------------------------------

\* The connection starts with one socket, the client's.
LEMMA InitInv == Init => IInv
<1> SUFFICES ASSUME Init PROVE IInv
  OBVIOUS
<1>1. PICK h \in Handles :
        /\ sock = [s \in Sides |-> IF s = "client" THEN h ELSE None]
        /\ owner \in [Handles -> {"free", "mine", "other"}]
        /\ \A g \in Handles : owner[g] = "mine" <=> g = h
  BY DEF Init
<1>2. Held = {"client"}
  BY DEF Init, Held, Sides
<1>3. TypeOK
  BY <1>1 DEF Init, TypeOK, HandlerPC, PumpPC, Sides, Dirs
<1>4. Control
  BY DEF Init, Control, Dirs
<1>5. Numbers /\ SocketsOwned
  BY <1>1, <1>2 DEF Numbers, SocketsOwned, Sides
<1> QED
  BY <1>3, <1>4, <1>5 DEF IInv

\* Closing a held socket takes exactly its number out of those open.
LEMMA CloseFacts ==
  ASSUME IInv, NEW s \in Held, Close(s)
  PROVE  /\ owner' \in [Handles -> {"free", "mine", "other"}]
         /\ {h \in Handles : owner'[h] = "mine"} = {sock[t] : t \in Held \ {s}}
BY DEF IInv, TypeOK, Numbers, SocketsOwned, Close

\* The handler opens the proxy's socket, starts the pumps, or closes what it
\* has opened when it cannot.
LEMMA HandlerInv == IInv /\ HandlerStep => IInv'
<1> SUFFICES ASSUME IInv, HandlerStep PROVE IInv'
  OBVIOUS
<1> USE DEF Sides, Dirs
<1>1. CASE LookupFails
  <2>1. "client" \in Held /\ Held = {"client"} /\ Held' = {}
    BY <1>1 DEF LookupFails, Held, IInv, Control
  <2>2. TypeOK'
    BY <1>1, <2>1, CloseFacts DEF LookupFails, streams, TypeOK, HandlerPC, IInv
  <2>3. Control'
    BY <1>1 DEF LookupFails, Control, IInv
  <2>4. Numbers' /\ SocketsOwned'
    BY <1>1, <2>1, CloseFacts DEF LookupFails, Numbers, SocketsOwned
  <2> QED
    BY <2>2, <2>3, <2>4 DEF IInv
<1>2. CASE OpenProxy
  <2>1. PICK h \in Handles : /\ owner[h] = "free"
                             /\ owner' = [owner EXCEPT ![h] = "mine"]
                             /\ sock' = [sock EXCEPT !["proxy"] = h]
    BY <1>2 DEF OpenProxy
  <2>2. Held = {"client"} /\ Held' = Sides
    BY <1>2 DEF OpenProxy, Held
  <2>3. TypeOK'
    BY <1>2, <2>1 DEF OpenProxy, streams, TypeOK, HandlerPC, IInv
  <2>4. Control'
    BY <1>2 DEF OpenProxy, Control, IInv
  <2>5. owner[sock["client"]] = "mine" /\ sock["client"] \in Handles
    BY <2>2 DEF IInv, Numbers, SocketsOwned
  <2>6. sock'["client"] = sock["client"] /\ sock'["proxy"] = h
    BY <2>1 DEF IInv, TypeOK
  <2>7. Numbers'
    BY <2>1, <2>2, <2>5, <2>6 DEF Numbers
  <2>8. {g \in Handles : owner'[g] = "mine"} = {sock["client"], h}
    BY <2>1, <2>2, <2>5 DEF IInv, TypeOK, SocketsOwned
  <2>9. SocketsOwned'
    BY <2>2, <2>6, <2>8 DEF SocketsOwned
  <2> QED
    BY <2>3, <2>4, <2>7, <2>9 DEF IInv
<1>3. CASE Establish
  <2>1. Held' = Held
    BY <1>3 DEF Establish, Held
  <2> QED
    BY <1>3, <2>1 DEF Establish, streams, IInv, TypeOK, HandlerPC, Control, Numbers, SocketsOwned
<1>4. CASE AbandonClient
  <2>1. Held = Sides /\ Held' = {"proxy"}
    BY <1>4 DEF AbandonClient, Held
  <2>2. TypeOK'
    BY <1>4, <2>1, CloseFacts DEF AbandonClient, streams, TypeOK, HandlerPC, IInv
  <2>3. Control'
    BY <1>4 DEF AbandonClient, Control, IInv
  <2>4. Numbers' /\ SocketsOwned'
    BY <1>4, <2>1, CloseFacts DEF AbandonClient, Numbers, SocketsOwned, IInv
  <2> QED
    BY <2>2, <2>3, <2>4 DEF IInv
<1>5. CASE AbandonProxy
  <2>1. Held = {"proxy"} /\ Held' = {}
    BY <1>5 DEF AbandonProxy, Held
  <2>2. TypeOK'
    BY <1>5, <2>1, CloseFacts DEF AbandonProxy, streams, TypeOK, HandlerPC, IInv
  <2>3. Control'
    BY <1>5 DEF AbandonProxy, Control, IInv
  <2>4. Numbers' /\ SocketsOwned'
    BY <1>5, <2>1, CloseFacts DEF AbandonProxy, Numbers, SocketsOwned
  <2> QED
    BY <2>2, <2>3, <2>4 DEF IInv
<1>6. CASE Start
  <2>1. Held = Sides /\ Held' = Sides
    BY <1>6 DEF Start, Held
  <2>2. TypeOK'
    BY <1>6 DEF Start, streams, TypeOK, HandlerPC, PumpPC, Ending, IInv
  <2>3. Control'
    BY <1>6 DEF Start, Control, References, Before, Other
  <2>4. Numbers' /\ SocketsOwned'
    BY <1>6, <2>1 DEF Start, Numbers, SocketsOwned, IInv
  <2> QED
    BY <2>2, <2>3, <2>4 DEF IInv
<1>7. CASE Return
  <2>1. Held = {} /\ Held' = {}
    BY <1>7 DEF Return, Held
  <2>2. TypeOK'
    BY <1>7 DEF Return, streams, TypeOK, HandlerPC, IInv
  <2>3. Control'
    BY <1>7 DEF Return, Control, IInv
  <2>4. Numbers' /\ SocketsOwned'
    BY <1>7, <2>1 DEF Return, Numbers, SocketsOwned, IInv
  <2> QED
    BY <2>2, <2>3, <2>4 DEF IInv
<1> QED
  BY <1>1, <1>2, <1>3, <1>4, <1>5, <1>6, <1>7 DEF HandlerStep

\* A thread that still counts moves on without giving its reference up.
LEMMA WorkingInv ==
  ASSUME IInv, NEW d \in Dirs, Before(d),
         NEW pc \in {"recv", "send", "shutc", "shutp", "dec"},
         pump' = [pump EXCEPT ![d] = pc],
         UNCHANGED <<handler, sock, owner, pair>>,
         shut' \subseteq Sides, peer' = peer,
         src' \in [Dirs -> Nat], taken' \in [Dirs -> Nat], put' \in [Dirs -> Nat]
  PROVE  IInv'
<1> USE DEF Sides, Dirs
<1>1. pump \in [Dirs -> PumpPC] /\ pc \in PumpPC
  BY DEF IInv, TypeOK, PumpPC, Ending
<1>2. handler = "run"
  BY DEF IInv, Control, TypeOK, HandlerPC, Before
<1>3. TypeOK'
  BY <1>1 DEF IInv, TypeOK
<1>4. pump'[d] = pc /\ pump'[Other(d)] = pump[Other(d)]
  BY <1>1 DEF Other
<1>5. Control'
  <2>1. References' = References
    BY <1>1 DEF References, Before
  <2> QED
    BY <1>2, <1>4, <2>1 DEF IInv, Control, Other, Before
<1>6. Held' = Held
  BY <1>1, <1>2 DEF Held, Before
<1> QED
  BY <1>3, <1>5, <1>6 DEF IInv, Numbers, SocketsOwned

\* The thread of one direction: it works, gives up its reference, or, the last
\* one out, closes the sockets and frees the pair.
LEMMA PumpInv ==
  ASSUME IInv, NEW d \in Dirs, PumpStep(d) \/ Send(d)
  PROVE  IInv'
<1> USE DEF Sides, Dirs
<1>0. /\ pump \in [Dirs -> PumpPC] /\ shut \subseteq Sides /\ pair \in [live : BOOLEAN, refs : 0 .. 2]
      /\ src \in [Dirs -> Nat] /\ taken \in [Dirs -> Nat] /\ put \in [Dirs -> Nat]
  BY DEF IInv, TypeOK
<1>1. CASE Recv(d)
  <2>1. taken' \in [Dirs -> Nat]
    BY <1>0, <1>1 DEF Recv
  <2> QED
    BY <1>0, <1>1, <2>1, WorkingInv DEF Recv, Before
<1>2. CASE RecvEnds(d)
  BY <1>0, <1>2, WorkingInv DEF RecvEnds, Before, streams
<1>3. CASE Send(d)
  <2>1. PICK n \in 1 .. taken[d] - put[d] :
          /\ put' = [put EXCEPT ![d] = @ + n]
          /\ pump' = [pump EXCEPT ![d] = IF put[d] + n = taken[d] THEN "recv" ELSE "send"]
    BY <1>3 DEF Send
  <2>2. put' \in [Dirs -> Nat]
    BY <1>0, <2>1
  <2>3. PICK pc \in {"recv", "send"} : pump' = [pump EXCEPT ![d] = pc]
    BY <2>1
  <2> QED
    BY <1>0, <1>3, <2>2, <2>3, WorkingInv DEF Send, Before
<1>4. CASE SendFails(d)
  BY <1>0, <1>4, WorkingInv DEF SendFails, Before, streams
<1>5. CASE ShutClient(d)
  BY <1>0, <1>5, WorkingInv DEF ShutClient, Before, streams
<1>6. CASE ShutProxy(d)
  BY <1>0, <1>6, WorkingInv DEF ShutProxy, Before, streams
<1>7. CASE Decrement(d)
  <2>1. handler = "run" /\ pair.refs \in {1, 2}
    BY <1>0, <1>7 DEF Decrement, IInv, Control, TypeOK, HandlerPC, References, Before
  <2>2. /\ pair'.refs = pair.refs - 1 /\ pair'.live = pair.live
        /\ pair' \in [live : BOOLEAN, refs : 0 .. 2]
    BY <1>0, <1>7, <2>1 DEF Decrement
  <2>3. pump'[d] \in {"closec", "done"} /\ pump'[Other(d)] = pump[Other(d)]
    BY <1>0, <1>7 DEF Decrement, Other
  <2>4. TypeOK'
    BY <1>0, <1>7, <2>2 DEF Decrement, streams, IInv, TypeOK, PumpPC, Ending
  <2>5. pump'[d] = "closec" <=> pump[Other(d)] = "done"
    BY <1>0, <1>7, <2>1 DEF Decrement, IInv, Control, References, Before, Other, PumpPC, Ending
  <2>6. Control'
    BY <1>0, <1>7, <2>1, <2>2, <2>3, <2>5
       DEF Decrement, IInv, Control, References, Before, Other
  <2>7. Held' = Sides /\ Held = Sides
    BY <1>0, <1>7, <2>1, <2>3, <2>5 DEF Decrement, Held, Other, IInv, Control
  <2> QED
    BY <1>7, <2>4, <2>6, <2>7 DEF Decrement, IInv, Numbers, SocketsOwned
<1>8. CASE CloseClient(d)
  <2>1. handler = "run" /\ pump[Other(d)] = "done"
    BY <1>8 DEF CloseClient, IInv, Control, TypeOK, HandlerPC
  <2>2. pump'[d] = "closep" /\ pump'[Other(d)] = "done"
    BY <1>0, <1>8, <2>1 DEF CloseClient, Other
  <2>3. Held = Sides /\ Held' = {"proxy"}
    BY <1>8, <2>1, <2>2 DEF CloseClient, Held, Other
  <2>4. TypeOK'
    BY <1>0, <1>8, <2>3, CloseFacts DEF CloseClient, streams, IInv, TypeOK, PumpPC, Ending
  <2>5. Control'
    BY <1>0, <1>8, <2>1, <2>2 DEF CloseClient, IInv, Control, References, Before, Other
  <2> QED
    BY <1>8, <2>3, <2>4, <2>5, CloseFacts DEF CloseClient, IInv, Numbers, SocketsOwned
<1>9. CASE CloseProxyAndFree(d)
  <2>1. handler = "run" /\ pump[Other(d)] = "done"
    BY <1>9 DEF CloseProxyAndFree, IInv, Control, TypeOK, HandlerPC
  <2>2. pump'[d] = "done" /\ pump'[Other(d)] = "done"
    BY <1>0, <1>9, <2>1 DEF CloseProxyAndFree, Other
  <2>3. Held = {"proxy"} /\ Held' = {}
    BY <1>9, <2>1, <2>2 DEF CloseProxyAndFree, Held, Other
  <2>4. TypeOK'
    BY <1>0, <1>9, <2>3, CloseFacts DEF CloseProxyAndFree, streams, IInv, TypeOK, PumpPC, Ending
  <2>5. Control'
    BY <1>0, <1>9, <2>1, <2>2 DEF CloseProxyAndFree, IInv, Control, References, Before, Other
  <2> QED
    BY <1>9, <2>3, <2>4, <2>5, CloseFacts DEF CloseProxyAndFree, IInv, Numbers, SocketsOwned
<1> QED
  BY <1>1, <1>2, <1>3, <1>4, <1>5, <1>6, <1>7, <1>8, <1>9 DEF PumpStep

\* The two ends write and close; other connections take and free other numbers.
LEMMA EnvironmentInv == IInv /\ (Environment \/ UNCHANGED vars) => IInv'
<1> SUFFICES ASSUME IInv, Environment \/ UNCHANGED vars PROVE IInv'
  OBVIOUS
<1> USE DEF Sides, Dirs
<1>1. UNCHANGED <<handler, sock, pair, pump>>
  BY DEF Environment, Write, Finish, OtherOpens, OtherCloses, vars
<1>2. /\ owner' \in [Handles -> {"free", "mine", "other"}]
      /\ \A h \in Handles : owner'[h] = "mine" <=> owner[h] = "mine"
  <2>1. CASE \E h \in Handles : OtherOpens(h) \/ OtherCloses(h)
    BY <2>1 DEF IInv, TypeOK, OtherOpens, OtherCloses
  <2>2. CASE owner' = owner
    BY <2>2 DEF IInv, TypeOK
  <2> QED
    BY <2>1, <2>2 DEF Environment, Write, Finish, vars
<1>3. /\ src' \in [Dirs -> Nat] /\ taken' \in [Dirs -> Nat] /\ put' \in [Dirs -> Nat]
      /\ peer' \in [Sides -> {"open", "fin", "reset"}] /\ shut' = shut
  BY DEF IInv, TypeOK, Environment, Write, Finish, OtherOpens, OtherCloses, vars, streams
<1>4. TypeOK'
  BY <1>1, <1>2, <1>3 DEF IInv, TypeOK
<1>5. Control' /\ Held' = Held
  BY <1>1 DEF IInv, Control, References, Before, Held
<1>6. SocketsOwned'
  BY <1>1, <1>2, <1>5 DEF IInv, SocketsOwned
<1> QED
  BY <1>1, <1>4, <1>5, <1>6 DEF IInv, Numbers

\* IInv holds at the start and every step keeps it.
LEMMA Invariance == Spec => []IInv
<1>1. IInv /\ [Next]_vars => IInv'
  BY HandlerInv, PumpInv, EnvironmentInv DEF Next
<1> QED
  BY <1>1, InitInv, PTL DEF Spec

\* Every variable keeps its type; in particular the count never drops below
\* zero (InterlockedDecrement in one_way_relay).
THEOREM TypeCorrect == Spec => []TypeOK
<1>1. IInv => TypeOK
  BY DEF IInv
<1> QED
  BY <1>1, Invariance, PTL

\* Every socket of a relayed connection is closed exactly once and not used
\* afterwards, on every path through connection_handler and transfer_handler.
THEOREM SocketsCorrect == Spec => []SocketsOwned
<1>1. IInv => SocketsOwned
  BY DEF IInv
<1> QED
  BY <1>1, Invariance, PTL

\* The RELAY_PAIR is allocated as long as one of the two threads can touch it,
\* and it is freed before the handler returns.
THEOREM PairCorrect == Spec => []PairLive
<1>1. IInv => PairLive
  BY DEF IInv, Control, PairLive, TypeOK, HandlerPC, Dirs
<1> QED
  BY <1>1, Invariance, PTL
-----------------------------------------------------------------------------
(* Why a direction ends *)

Ended(d) == pump[d] \in Ending \cup {"done"}

\* A thread receives only after it has handed on what it took, and only what
\* was written.
Streams ==
  \A d \in Dirs :
    /\ put[d] <= taken[d] /\ taken[d] <= src[d]
    /\ pump[d] = "recv" => put[d] = taken[d]
    /\ pump[d] = "none" => taken[d] = 0

Explained(d) ==
  \/ \E s \in Sides : peer[s] = "reset"
  \/ Ended(Other(d))
  \/ taken[d] = 0

\* Only a thread at its end shuts the sockets down; and it got there because
\* its source had finished and everything was delivered, or for one of the
\* reasons LossExplained names.  Without the source's end the first alternative
\* would be undone by its next write.
EndInv ==
  /\ Streams
  /\ shut # {} => \E d \in Dirs : Ended(d)
  /\ \A d \in Dirs :
       Ended(d) => Explained(d) \/ (peer[From(d)] = "fin" /\ put[d] = src[d])

\* The state variables the two invariants of the streams read, typed.
LEMMA StreamTypes ==
  ASSUME IInv
  PROVE  /\ pump \in [Dirs -> PumpPC] /\ peer \in [Sides -> {"open", "fin", "reset"}]
         /\ src \in [Dirs -> Nat] /\ taken \in [Dirs -> Nat] /\ put \in [Dirs -> Nat]
BY DEF IInv, TypeOK

\* A thread that goes towards its end, or further on its way out, for a reason.
LEMMA LeavingInv ==
  ASSUME IInv, EndInv, NEW d \in Dirs, NEW pc \in Ending \cup {"done"},
         pump' = [pump EXCEPT ![d] = pc],
         UNCHANGED <<peer, streams>>,
         shut' = shut \/ Ended(d),
         Explained(d) \/ (peer[From(d)] = "fin" /\ put[d] = src[d])
  PROVE  EndInv'
<1> USE StreamTypes DEF Dirs, Ending, Ended
<1>1. pump'[d] = pc /\ pump'[Other(d)] = pump[Other(d)] /\ Other(d) \in Dirs /\ Ended(d)'
  BY DEF Other
<1>2. Streams'
  BY <1>1 DEF EndInv, Streams, streams, Other
<1>3. shut' # {} => \E e \in Dirs : Ended(e)'
  BY <1>1
<1>4. ASSUME NEW e \in Dirs, Ended(e)'
      PROVE  Explained(e)' \/ (peer'[From(e)] = "fin" /\ put'[e] = src'[e])
  <2>1. Explained(e) \/ (peer[From(e)] = "fin" /\ put[e] = src[e])
    BY <1>1, <1>4 DEF EndInv, Other
  <2>2. Ended(Other(e)) => Ended(Other(e))'
    BY <1>1 DEF Other
  <2> QED
    BY <2>1, <2>2 DEF Explained, streams
<1> QED
  BY <1>2, <1>3, <1>4 DEF EndInv

\* A thread that takes data or hands it on has not ended, and nobody ends.
LEMMA MovingInv ==
  ASSUME IInv, EndInv, NEW d \in Dirs, NEW pc \in {"recv", "send"},
         pump[d] \in {"recv", "send"}, pump' = [pump EXCEPT ![d] = pc],
         UNCHANGED <<peer, shut, src>>,
         taken' \in [Dirs -> Nat], put' \in [Dirs -> Nat],
         \A e \in Dirs \ {d} : taken'[e] = taken[e] /\ put'[e] = put[e],
         put'[d] <= taken'[d] /\ taken'[d] <= src[d],
         pc = "recv" => put'[d] = taken'[d]
  PROVE  EndInv'
<1> USE StreamTypes DEF Dirs
<1>1. pump'[d] = pc /\ \A e \in Dirs \ {d} : pump'[e] = pump[e]
  OBVIOUS
<1>2. \A e \in Dirs : Ended(e)' = Ended(e)
  BY <1>1 DEF Ended, Ending
<1>3. Streams'
  BY <1>1 DEF EndInv, Streams
<1>4. ASSUME NEW e \in Dirs, Ended(e)'
      PROVE  Explained(e)' \/ (peer'[From(e)] = "fin" /\ put'[e] = src'[e])
  <2>1. e # d /\ Ended(e)
    BY <1>1, <1>2, <1>4 DEF Ended, Ending
  <2>2. Other(e) \in Dirs
    BY DEF Other
  <2> QED
    BY <1>2, <2>1, <2>2 DEF EndInv, Explained
<1> QED
  BY <1>2, <1>3, <1>4 DEF EndInv

\* The thread of one direction.
LEMMA PumpEnd ==
  ASSUME IInv, EndInv, NEW d \in Dirs, PumpStep(d) \/ Send(d)
  PROVE  EndInv'
<1> USE StreamTypes
<1>0. /\ put[d] \in Nat /\ taken[d] \in Nat /\ src[d] \in Nat
      /\ put[d] <= taken[d] /\ taken[d] <= src[d]
      /\ pump[d] = "recv" => put[d] = taken[d]
  BY DEF EndInv, Streams
<1>1. CASE Recv(d)
  <2>1. PICK n \in 1 .. src[d] - taken[d] : taken' = [taken EXCEPT ![d] = @ + n]
    BY <1>1 DEF Recv
  <2>2. /\ taken' \in [Dirs -> Nat] /\ taken'[d] = taken[d] + n
        /\ \A e \in Dirs \ {d} : taken'[e] = taken[e]
    BY <1>0, <2>1
  <2>3. pump[d] = "recv" /\ pump' = [pump EXCEPT ![d] = "send"] /\ UNCHANGED <<peer, shut, src, put>>
    BY <1>1 DEF Recv
  <2>4. put'[d] <= taken'[d] /\ taken'[d] <= src[d]
    BY <1>0, <2>2, <2>3
  <2> QED
    BY <2>2, <2>3, <2>4, MovingInv
<1>2. CASE Send(d)
  <2>1. PICK n \in 1 .. taken[d] - put[d] :
          /\ put' = [put EXCEPT ![d] = @ + n]
          /\ pump' = [pump EXCEPT ![d] = IF put[d] + n = taken[d] THEN "recv" ELSE "send"]
    BY <1>2 DEF Send
  <2>2. /\ put' \in [Dirs -> Nat] /\ put'[d] = put[d] + n
        /\ \A e \in Dirs \ {d} : put'[e] = put[e]
    BY <1>0, <2>1
  <2>3. PICK pc \in {"recv", "send"} :
          pump' = [pump EXCEPT ![d] = pc] /\ (pc = "recv" => put[d] + n = taken[d])
    BY <2>1
  <2>4. pump[d] = "send" /\ UNCHANGED <<peer, shut, src, taken>>
    BY <1>2 DEF Send
  <2>5. put'[d] <= taken'[d] /\ (pc = "recv" => put'[d] = taken'[d])
    BY <1>0, <2>1, <2>2, <2>3, <2>4
  <2> QED
    BY <1>0, <2>2, <2>3, <2>4, <2>5, MovingInv
<1>3. CASE RecvEnds(d)
  <2>1. From(d) \in shut => Ended(Other(d))
    BY <1>3 DEF RecvEnds, EndInv, Ended, Ending, Other, Dirs
  <2>2. Explained(d) \/ (peer[From(d)] = "fin" /\ put[d] = src[d])
    BY <1>0, <1>3, <2>1 DEF RecvEnds, Explained, From, Sides
  <2> QED
    BY <1>3, <2>2, LeavingInv DEF RecvEnds, Ending
<1>4. CASE SendFails(d)
  <2>1. To(d) \in shut => Ended(Other(d))
    BY <1>4 DEF SendFails, EndInv, Ended, Ending, Other, Dirs
  <2>2. Explained(d)
    BY <1>4, <2>1 DEF SendFails, Explained, To, Sides
  <2> QED
    BY <1>4, <2>2, LeavingInv DEF SendFails, Ending
<1>5. CASE ShutClient(d) \/ ShutProxy(d) \/ Decrement(d) \/ CloseClient(d) \/ CloseProxyAndFree(d)
  <2>1. Ended(d) /\ UNCHANGED <<peer, streams>>
    BY <1>5 DEF Ended, Ending, ShutClient, ShutProxy, Decrement, CloseClient, CloseProxyAndFree
  <2>2. PICK pc \in Ending \cup {"done"} : pump' = [pump EXCEPT ![d] = pc]
    BY <1>5 DEF Ending, ShutClient, ShutProxy, Decrement, CloseClient, CloseProxyAndFree
  <2> QED
    BY <2>1, <2>2, LeavingInv DEF EndInv
<1> QED
  BY <1>1, <1>2, <1>3, <1>4, <1>5 DEF PumpStep

\* Before the pumps start nothing was taken, and no socket was shut down.
LEMMA HandlerEnd == IInv /\ EndInv /\ HandlerStep => EndInv'
<1> SUFFICES ASSUME IInv, EndInv, HandlerStep PROVE EndInv'
  OBVIOUS
<1>1. UNCHANGED <<peer, shut, streams>>
  BY DEF HandlerStep, LookupFails, OpenProxy, Establish, AbandonClient, AbandonProxy, Start, Return
<1>2. CASE Start
  <2>1. \A d \in Dirs : pump[d] = "none" /\ pump'[d] \in {"recv", "shutc"}
    BY <1>2 DEF Start, IInv, Control
  <2>2. shut = {} /\ \A d \in Dirs : taken[d] = 0 /\ put[d] = 0
    BY <2>1, StreamTypes DEF EndInv, Streams, Ended, Ending
  <2> QED
    BY <1>1, <2>1, <2>2 DEF EndInv, Streams, Explained, streams
<1>3. CASE ~Start
  <2>1. pump' = pump
    BY <1>3 DEF HandlerStep, LookupFails, OpenProxy, Establish, AbandonClient, AbandonProxy, Return
  <2> QED
    BY <1>1, <2>1 DEF EndInv, Streams, Explained, Ended, streams
<1> QED
  BY <1>2, <1>3

\* An end that has finished writes no more, and a reset is for good.
LEMMA EnvironmentEnd == IInv /\ EndInv /\ (Environment \/ UNCHANGED vars) => EndInv'
<1> SUFFICES ASSUME IInv, EndInv, Environment \/ UNCHANGED vars PROVE EndInv'
  OBVIOUS
<1> USE StreamTypes
<1>1. UNCHANGED <<pump, shut, taken, put>>
  BY DEF Environment, Write, Finish, OtherOpens, OtherCloses, vars, streams
<1>2. \A d \in Dirs : Ended(d)' = Ended(d)
  BY <1>1 DEF Ended
<1>3. ASSUME NEW w \in Dirs, Write(w)
      PROVE  EndInv'
  <2>1. /\ peer' = peer /\ peer[From(w)] = "open"
        /\ src'[w] = src[w] + 1 /\ \A d \in Dirs \ {w} : src'[d] = src[d]
    BY <1>3 DEF Write
  <2>2. Streams'
    BY <1>1, <2>1 DEF EndInv, Streams
  <2> QED
    BY <1>1, <1>2, <2>1, <2>2 DEF EndInv, Explained, Other, Dirs
<1>4. ASSUME NEW s \in Sides, NEW how \in {"fin", "reset"}, Finish(s, how)
      PROVE  EndInv'
  <2>1. /\ src' = src /\ peer'[s] = how /\ \A t \in Sides \ {s} : peer'[t] = peer[t]
        /\ peer[s] # "reset"
    BY <1>4 DEF Finish, streams
  <2>2. \A t \in Sides : peer[t] = "reset" => peer'[t] = "reset"
    BY <2>1
  <2>3. \A t \in Sides : peer[t] = "fin" => peer'[t] = "fin" \/ peer'[s] = "reset"
    BY <1>4, <2>1 DEF Finish
  <2>4. Streams'
    BY <1>1, <2>1 DEF EndInv, Streams
  <2>5. \A d \in Dirs : From(d) \in Sides /\ Other(d) \in Dirs
    BY DEF From, Other, Sides, Dirs
  <2> QED
    BY <1>1, <1>2, <2>1, <2>2, <2>3, <2>4, <2>5 DEF EndInv, Explained
<1>5. CASE UNCHANGED <<src, peer>>
  BY <1>1, <1>5 DEF EndInv, Streams, Explained, Ended
<1> QED
  BY <1>3, <1>4, <1>5 DEF Environment, OtherOpens, OtherCloses, vars, streams

\* A direction ends early only for the reasons one_way_relay has: an end was
\* reset, the other direction had shut the sockets down, or there was no buffer.
THEOREM LossCorrect == Spec => []LossExplained
<1>1. Init => EndInv
  BY DEF Init, EndInv, Streams, Ended, Ending, Dirs
<1>2. IInv /\ EndInv /\ [Next]_vars => EndInv'
  BY HandlerEnd, PumpEnd, EnvironmentEnd DEF Next
<1>3. IInv /\ EndInv => LossExplained
  BY StreamTypes DEF EndInv, LossExplained, Explained, Ended
<1> QED
  BY <1>1, <1>2, <1>3, Invariance, PTL DEF Spec
=============================================================================
