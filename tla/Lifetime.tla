------------------------------ MODULE Lifetime ------------------------------
(***************************************************************************)
(* ProxyBridge_Start, ProxyBridge_Stop and DllMain of ProxyBridge.c, and   *)
(* the life of the threads they start.  A thread ends when it finds the    *)
(* flag `running` false; Stop waits for it for a bounded time only, so a   *)
(* thread may find the flag true again, set by the next Start.  The table  *)
(* and the caches that Stop empties are one variable here, and the two     *)
(* sockets of each relay one socket.                                       *)
(***************************************************************************)
EXTENDS Integers, FiniteSets

CONSTANTS
  MaxStarts,     \* bound: calls of Start that begin
  MaxLate        \* bound: threads of earlier runs that are alive when Start is called

ASSUME LifetimeConstants == MaxStarts \in Nat \ {0} /\ MaxLate \in Nat

VARIABLES
  running,
  caller,        \* the thread that calls Start and Stop
  gen,           \* calls of Start so far
  thr,           \* the thread of each kind that each Start created
  open,          \* the relay threads whose socket is open
  sock,          \* udp_relay_socket, fullcone_socket: whose socket, 0 for none
  learnt,        \* who filled the table and the caches
  socks,         \* any_socks5_config(); "late": since the run began
  crossed        \* history: a run began while a thread of an earlier one was alive

vars == <<running, caller, gen, thr, open, sock, learnt, socks, crossed>>

Kinds == {"proxy", "cleanup", "udp", "cone", "packet"}
Relays == {"udp", "cone"}
Gens == 1 .. MaxStarts

Alive == {t \in Kinds \X Gens : thr[t[1]][t[2]] \in {"init", "loop", "ends"}}

TypeOK ==
  /\ running \in BOOLEAN /\ crossed \in BOOLEAN
  /\ caller \in {"idle", "cleanup", "udp", "cone", "divert", "packet", "waitCleanup",
                 "waitProxy", "join", "free", "gone"}
  /\ gen \in 0 .. MaxStarts
  /\ thr \in [Kinds -> [Gens -> {"none", "init", "loop", "ends", "failed", "done"}]]
  /\ open \subseteq Relays \X Gens
  /\ sock \in [Relays -> 0 .. MaxStarts]
  /\ learnt \in {"nothing", "inRun", "afterStop"}
  /\ socks \in {"no", "yes", "late"}

Init ==
  /\ running = FALSE /\ caller = "idle" /\ gen = 0
  /\ thr = [k \in Kinds |-> [g \in Gens |-> "none"]]
  /\ open = {} /\ sock = [k \in Relays |-> 0]
  /\ learnt = "nothing" /\ socks \in {"no", "yes"} /\ crossed = FALSE

-----------------------------------------------------------------------------
(* ProxyBridge_Start *)

Starting(at) == caller = at /\ UNCHANGED <<gen, open, sock, learnt, socks, crossed>>

\* CreateThread: the sockets, if any, are opened by the thread itself.
Creates(k, g) ==
  thr' = [thr EXCEPT ![k][g] = IF k \in {"cleanup", "packet"} THEN "loop" ELSE "init"]

\* Refused while running.
Begin ==
  /\ caller = "idle" /\ ~running
  /\ gen < MaxStarts /\ Cardinality(Alive) <= MaxLate
  /\ gen' = gen + 1
  /\ crossed' = (crossed \/ Alive # {})
  /\ socks' = IF socks = "no" THEN "no" ELSE "yes"
  /\ \/ running' = TRUE /\ caller' = "cleanup" /\ Creates("proxy", gen + 1)
     \/ UNCHANGED <<running, caller, thr>>    \* no thread: FALSE
  /\ UNCHANGED <<open, sock, learnt>>

CreateCleanup ==
  /\ Starting("cleanup")
  /\ \/ Creates("cleanup", gen) /\ caller' = "udp" /\ UNCHANGED running
     \/ running' = FALSE /\ caller' = "waitProxy" /\ UNCHANGED thr

CreateRelay ==
  /\ Starting("udp")
  /\ \/ socks = "no" /\ caller' = "divert" /\ UNCHANGED <<running, thr>>
     \/ socks # "no" /\ Creates("udp", gen) /\ caller' = "cone" /\ UNCHANGED running
     \/ socks # "no" /\ running' = FALSE /\ caller' = "waitCleanup" /\ UNCHANGED thr

\* Not fatal.
CreateCone ==
  /\ Starting("cone") /\ caller' = "divert"
  /\ Creates("cone", gen) \/ thr' = [thr EXCEPT !["cone"][gen] = "failed"]
  /\ UNCHANGED running

\* Mutant: the flag stays set when the driver cannot be opened.
OpenDivert_KeepsRunning ==
  /\ Starting("divert") /\ caller' \in {"packet", "waitProxy"}
  /\ UNCHANGED <<running, thr>>

\* On failure the cleanup and relay threads are left to themselves.
OpenDivert ==
  /\ Starting("divert")
  /\ \/ caller' = "packet" /\ UNCHANGED running
     \/ caller' = "waitProxy" /\ running' = FALSE
  /\ UNCHANGED thr

CreatePacket ==
  /\ Starting("packet")
  /\ \/ Creates("packet", gen) /\ caller' = "idle" /\ UNCHANGED running
     \/ running' = FALSE /\ caller' = "waitProxy" /\ UNCHANGED thr

\* WaitForSingleObject(..., INFINITE) on a path of failure; Start returns FALSE.
WaitForThread(at, k, next) ==
  /\ Starting(at) /\ thr[k][gen] \in {"failed", "done"} /\ caller' = next
  /\ UNCHANGED <<running, thr>>

WaitCleanup == WaitForThread("waitCleanup", "cleanup", "waitProxy")
WaitProxy == WaitForThread("waitProxy", "proxy", "idle")

-----------------------------------------------------------------------------
(* ProxyBridge_Stop and DllMain *)

Stop ==
  /\ caller = "idle" /\ running
  /\ running' = FALSE /\ caller' = "join"
  /\ UNCHANGED <<gen, thr, open, sock, learnt, socks, crossed>>

\* Each wait ends with its thread or after 1 s, for the full-cone relay 4 s.
Join ==
  /\ caller = "join" /\ caller' = "free"
  /\ UNCHANGED <<running, gen, thr, open, sock, learnt, socks, crossed>>

\* Table, log, PID cache and decision bitmaps.
Free ==
  /\ caller = "free" /\ caller' = "idle"
  /\ learnt' = "nothing"
  /\ UNCHANGED <<running, gen, thr, open, sock, socks, crossed>>

\* DLL_PROCESS_DETACH at the end of the process, whose threads are gone: Stop,
\* and the sockets of the configurations and the rules are released.
Detach ==
  /\ caller = "idle" /\ caller' = "gone"
  /\ running' = FALSE
  /\ thr' = [k \in Kinds |-> [g \in Gens |-> IF thr[k][g] = "none" THEN "none" ELSE "done"]]
  /\ open' = {} /\ sock' = [k \in Relays |-> 0] /\ learnt' = "nothing"
  /\ UNCHANGED <<gen, socks, crossed>>

-----------------------------------------------------------------------------
(* The threads *)

Moves(k, g, from, to) ==
  /\ thr[k][g] = from /\ thr' = [thr EXCEPT ![k][g] = to]
  /\ UNCHANGED <<running, caller, gen, socks, crossed>>

\* A relay keeps its socket in a global; the listener's socket is its own.
Enters(k, g) ==
  /\ Moves(k, g, "init", "loop")
  /\ IF k \in Relays THEN open' = open \cup {<<k, g>>} /\ sock' = [sock EXCEPT ![k] = g]
                     ELSE UNCHANGED <<open, sock>>
  /\ UNCHANGED learnt

\* The socket cannot be made or bound: the thread ends and nobody is told.
EntersNot(k, g) ==
  /\ Moves(k, g, "init", "failed")
  /\ sock' = IF k \in Relays THEN [sock EXCEPT ![k] = 0] ELSE sock
  /\ UNCHANGED <<open, learnt>>

\* The packet thread fills the table and the caches.
Records(g) ==
  /\ running /\ Moves("packet", g, "loop", "loop")
  /\ learnt' = "inRun"
  /\ UNCHANGED <<open, sock>>

\* The packet that was being treated when Stop gave up waiting is recorded, and
\* the thread ends with the handle of the driver.
RecordsLate(g) ==
  /\ ~running /\ Moves("packet", g, "loop", "done")
  /\ learnt' = IF learnt = "inRun" THEN "inRun" ELSE "afterStop"
  /\ UNCHANGED <<open, sock>>

\* The flag is found false.
Leaves(k, g) ==
  /\ ~running /\ Moves(k, g, "loop", IF k \in Relays THEN "ends" ELSE "done")
  /\ UNCHANGED <<open, sock, learnt>>

\* Mutant: a relay leaves its socket open.
ClosedBy_Not(k) == open

\* A relay closes the socket that the global holds by now.
ClosedBy(k) == open \ {<<k, sock[k]>>}

Exits(k, g) ==
  /\ Moves(k, g, "ends", "done")
  /\ open' = ClosedBy(k) /\ sock' = [sock EXCEPT ![k] = 0]
  /\ UNCHANGED learnt

\* The user interface adds the first SOCKS5 configuration.
Configure ==
  /\ caller = "idle" /\ socks = "no"
  /\ socks' = IF running THEN "late" ELSE "yes"
  /\ UNCHANGED <<running, caller, gen, thr, open, sock, learnt, crossed>>

Thread(k, g) == Enters(k, g) \/ EntersNot(k, g) \/ Leaves(k, g) \/ Exits(k, g)

Caller ==
  CreateCleanup \/ CreateRelay \/ CreateCone \/ OpenDivert \/ CreatePacket
  \/ WaitCleanup \/ WaitProxy \/ Join \/ Free

Next ==
  \/ Begin \/ Caller \/ Stop \/ Detach \/ Configure
  \/ \E k \in Kinds, g \in Gens : Thread(k, g)
  \/ \E g \in Gens : Records(g) \/ RecordsLate(g)

Spec == Init /\ [][Next]_vars

\* A call goes on; a thread goes on, and once stopped looks at the flag.
FairSpec ==
  /\ Spec /\ WF_vars(Caller)
  /\ \A k \in Kinds, g \in Gens : WF_vars(Thread(k, g))

-----------------------------------------------------------------------------
(* Properties *)

\* Between calls, if no run ever began with a thread of an earlier one alive:
\* once stopped nothing learnt in the run is left, but for what a packet thread
\* records after Stop gave up waiting for it; and while running, each thread of
\* this run is there unless it could not be set up, and no other; the relays
\* exist if there is a SOCKS5 configuration that was not added since, and the
\* sockets in the globals are theirs, the only ones open.
Served ==
  /\ TypeOK
  /\ caller = "idle" /\ ~running /\ ~crossed => learnt # "inRun"
  /\ caller = "idle" /\ running /\ ~crossed =>
       /\ \A t \in Alive : t[2] = gen
       /\ \A k \in {"cleanup", "packet"} : thr[k][gen] = "loop"
       /\ thr["proxy"][gen] \in {"init", "loop", "failed"}
       /\ \A k \in Relays :
            /\ socks = "yes" => thr[k][gen] \in {"init", "loop", "failed"}
            /\ thr[k][gen] = "loop" => sock[k] = gen /\ <<k, gen>> \in open
       /\ \A s \in open : s[2] = gen

\* Start and Stop return; and when no Start follows, every thread that was ever
\* started ends and every relay's socket is closed, unless runs overlapped:
\* then the global may have lost a socket.
Quiesces ==
  /\ []<>(caller \in {"idle", "gone"})
  /\ <>[]~running => <>[](/\ Alive = {} /\ \A k \in Relays : sock[k] = 0
                          /\ crossed \/ open = {})
=============================================================================
