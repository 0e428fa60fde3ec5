--------------------------- MODULE LifetimeProofs --------------------------
(***************************************************************************)
(* Proofs about Lifetime: as long as no run begins with a thread of an     *)
(* earlier one alive, Start leaves a complete set of threads and Stop      *)
(* leaves nothing learnt, for any number of runs.                          *)
(***************************************************************************)
EXTENDS Lifetime, TLAPS

StartPC == {"cleanup", "udp", "cone", "divert", "packet"}
FailPC == {"waitCleanup", "waitProxy"}

\* The call of Start that is at pc has not created its thread of kind k.
NotYet(pc, k) ==
  \/ pc = "cleanup" /\ k # "proxy"
  \/ pc = "udp" /\ k \notin {"proxy", "cleanup"}
  \/ pc = "cone" /\ k \in {"cone", "packet"}
  \/ pc \in {"divert", "packet"} \cup FailPC /\ k = "packet"

\* The flag follows the calls.
Flag ==
  /\ caller \in StartPC => running
  /\ caller \notin StartPC \cup {"idle"} => ~running
  /\ running \/ caller \in StartPC \cup FailPC => gen > 0

\* A thread exists only once its Start has created it.
Unborn ==
  /\ \A k \in Kinds, g \in Gens : g > gen => thr[k][g] = "none"
  /\ gen > 0 => \A k \in Kinds : NotYet(caller, k) => thr[k][gen] = "none"

\* While the flag is true nobody whom this Start created leaves.
Present ==
  running =>
    /\ thr["proxy"][gen] \in {"init", "loop", "failed"}
    /\ \A k \in {"cleanup", "packet"} : ~NotYet(caller, k) => thr[k][gen] = "loop"
    /\ \A k \in Relays : ~NotYet(caller, k) /\ socks = "yes" =>
         thr[k][gen] \in {"init", "loop", "failed"}

\* Without overlap the sockets open are those of this run's relays, and the
\* globals hold them.
Sockets ==
  /\ \A k \in Kinds, g \in Gens : thr[k][g] \in {"init", "loop", "ends"} => g = gen
  /\ \A k \in Relays, g \in Gens : <<k, g>> \in open <=> thr[k][g] \in {"loop", "ends"}
  /\ \A k \in Relays, g \in Gens : <<k, g>> \in open => sock[k] = g

\* Without overlap only this run's packet thread learns, and Stop forgets it.
Learning ==
  learnt = "inRun" => (caller = "idle" /\ running) \/ caller \in {"join", "free"}

IInv == TypeOK /\ Flag /\ Unborn /\ Present /\ (~crossed => Sockets /\ Learning)

-----------------------------------------------------------------------------

LEMMA Types ==
  ASSUME TypeOK
  PROVE  /\ gen \in 0 .. MaxStarts /\ MaxStarts \in Nat \ {0}
         /\ thr \in [Kinds -> [Gens -> {"none", "init", "loop", "ends", "failed", "done"}]]
         /\ open \subseteq Relays \X Gens /\ sock \in [Relays -> 0 .. MaxStarts]
         /\ gen > 0 => gen \in Gens
         /\ Gens \subseteq Nat \ {0}
BY LifetimeConstants DEF TypeOK, Gens

\* A pair is alive as its thread's state says.
LEMMA AliveFacts ==
  ASSUME TypeOK, NEW k \in Kinds, NEW g \in Gens
  PROVE  <<k, g>> \in Alive <=> thr[k][g] \in {"init", "loop", "ends"}
BY DEF Alive

\* One thread changes its state.
LEMMA ThreadFacts ==
  ASSUME TypeOK, NEW k \in Kinds, NEW g \in Gens,
         NEW to \in {"none", "init", "loop", "ends", "failed", "done"},
         thr' = [thr EXCEPT ![k][g] = to]
  PROVE  /\ thr' \in [Kinds -> [Gens -> {"none", "init", "loop", "ends", "failed", "done"}]]
         /\ thr'[k][g] = to
         /\ \A j \in Kinds, h \in Gens : <<j, h>> # <<k, g>> => thr'[j][h] = thr[j][h]
BY DEF TypeOK

LEMMA InitInv == Init => IInv
<1> SUFFICES ASSUME Init PROVE IInv
  OBVIOUS
<1>0. \A k \in Kinds, g \in Gens : thr[k][g] = "none"
  BY DEF Init
<1>1. TypeOK
  <2>1. 0 \in 0 .. MaxStarts
    BY LifetimeConstants
  <2>2. thr \in [Kinds -> [Gens -> {"none", "init", "loop", "ends", "failed", "done"}]]
    BY DEF Init
  <2>3. open \subseteq Relays \X Gens /\ sock \in [Relays -> 0 .. MaxStarts]
    BY <2>1 DEF Init
  <2> QED
    BY <2>1, <2>2, <2>3 DEF Init, TypeOK
<1>2. Flag /\ Unborn /\ Present
  BY DEF Init, Flag, Unborn, Present, StartPC, FailPC
<1>3. Sockets /\ Learning
  BY <1>0 DEF Init, Sockets, Learning, Relays, Kinds
<1> QED
  BY <1>1, <1>2, <1>3 DEF IInv

\* A thread of kind k and run g is created by the call of Start, which goes on.
LEMMA CreateInv ==
  ASSUME IInv, caller \in StartPC, NEW k \in Kinds, NotYet(caller, k),
         NEW to \in {"init", "loop", "failed"}, to = "loop" => k \notin Relays,
         thr' = [thr EXCEPT ![k][gen] = to],
         UNCHANGED <<gen, open, sock, learnt, socks, crossed, running>>,
         caller' \in StartPC \cup {"idle"},
         \A j \in Kinds : NotYet(caller', j) => NotYet(caller, j) /\ j # k,
         \A j \in Kinds \ {k} : ~NotYet(caller', j) => ~NotYet(caller, j),
         k \in {"cleanup", "packet"} => to = "loop"
  PROVE  IInv'
<1> USE Types DEF IInv
<1>1. gen \in Gens /\ running
  BY DEF Flag, StartPC
<1>2. /\ thr' \in [Kinds -> [Gens -> {"none", "init", "loop", "ends", "failed", "done"}]]
      /\ thr'[k][gen] = to
      /\ \A j \in Kinds, h \in Gens : <<j, h>> # <<k, gen>> => thr'[j][h] = thr[j][h]
  BY <1>1, ThreadFacts
<1>3. thr[k][gen] = "none"
  BY <1>1 DEF Unborn
<1>4. TypeOK'
  BY <1>2 DEF TypeOK, StartPC
<1>5. Flag'
  BY <1>1 DEF Flag, StartPC
<1>6. Unborn'
  BY <1>1, <1>2 DEF Unborn
<1>7. Present'
  BY <1>1, <1>2 DEF Present, NotYet, Kinds, Relays, StartPC, FailPC
<1>8. ASSUME ~crossed PROVE Sockets'
  BY <1>1, <1>2, <1>3, <1>8 DEF Sockets, Relays, Kinds
<1>9. ASSUME ~crossed PROVE Learning'
  BY <1>9 DEF Learning, StartPC
<1> QED
  BY <1>4, <1>5, <1>6, <1>7, <1>8, <1>9

\* The call goes on, or fails, without a thread.
LEMMA CallInv ==
  ASSUME IInv, caller \in StartPC \cup FailPC,
         UNCHANGED <<gen, open, sock, learnt, socks, crossed, thr>>,
         \/ caller' \in StartPC /\ running' = running /\ caller \in StartPC
         \/ caller' \in FailPC \cup {"idle"} /\ ~running' /\ running' \in BOOLEAN,
         \A j \in Kinds : NotYet(caller', j) => NotYet(caller, j),
         running' => \A j \in Kinds \ Relays : ~NotYet(caller', j) => ~NotYet(caller, j),
         running' /\ socks = "yes" =>
           \A j \in Relays : ~NotYet(caller', j) => ~NotYet(caller, j)
  PROVE  IInv'
<1> USE Types DEF IInv
<1>1. TypeOK'
  BY DEF TypeOK, StartPC, FailPC
<1>2. Flag' /\ Unborn'
  BY DEF Flag, Unborn, StartPC, FailPC
<1>3. Present'
  BY DEF Present, Kinds, Relays
<1>4. ASSUME ~crossed PROVE Sockets' /\ Learning'
  BY <1>4 DEF Sockets, Learning, StartPC, FailPC
<1> QED
  BY <1>1, <1>2, <1>3, <1>4

LEMMA CallerInv == IInv /\ Caller => IInv'
<1> SUFFICES ASSUME IInv, Caller PROVE IInv'
  OBVIOUS
<1> USE DEF Kinds, Relays, NotYet, StartPC, FailPC
<1>0. gen \in 0 .. MaxStarts /\ (caller \in StartPC => running) /\ running \in BOOLEAN
  BY DEF IInv, TypeOK, Flag
<1>1. CASE CreateCleanup
  <2>1. CASE Creates("cleanup", gen) /\ caller' = "udp" /\ UNCHANGED running
    BY <1>1, <2>1, CreateInv DEF CreateCleanup, Starting, Creates
  <2>2. CASE running' = FALSE /\ caller' = "waitProxy" /\ UNCHANGED thr
    BY <1>1, <2>2, CallInv DEF CreateCleanup, Starting
  <2> QED
    BY <1>1, <2>1, <2>2 DEF CreateCleanup
<1>2. CASE CreateRelay
  <2>1. CASE socks = "no" /\ caller' = "divert" /\ UNCHANGED <<running, thr>>
    BY <1>2, <2>1, CallInv DEF CreateRelay, Starting
  <2>2. CASE Creates("udp", gen) /\ caller' = "cone" /\ UNCHANGED running
    BY <1>2, <2>2, CreateInv DEF CreateRelay, Starting, Creates
  <2>3. CASE running' = FALSE /\ caller' = "waitCleanup" /\ UNCHANGED thr
    BY <1>2, <2>3, CallInv DEF CreateRelay, Starting
  <2> QED
    BY <1>2, <2>1, <2>2, <2>3 DEF CreateRelay
<1>3. CASE CreateCone
  <2>1. PICK to \in {"init", "failed"} : thr' = [thr EXCEPT !["cone"][gen] = to]
    BY <1>3 DEF CreateCone, Creates
  <2> QED
    BY <1>3, <2>1, CreateInv DEF CreateCone, Starting
<1>4. CASE OpenDivert
  BY <1>0, <1>4, CallInv DEF OpenDivert, Starting
<1>5. CASE CreatePacket
  <2>1. CASE Creates("packet", gen) /\ caller' = "idle" /\ UNCHANGED running
    BY <1>5, <2>1, CreateInv DEF CreatePacket, Starting, Creates
  <2>2. CASE running' = FALSE /\ caller' = "waitProxy" /\ UNCHANGED thr
    BY <1>5, <2>2, CallInv DEF CreatePacket, Starting
  <2> QED
    BY <1>5, <2>1, <2>2 DEF CreatePacket
<1>6. CASE WaitCleanup \/ WaitProxy
  <2>1. ~running
    BY <1>6 DEF WaitCleanup, WaitProxy, WaitForThread, Starting, IInv, Flag
  <2> QED
    BY <1>0, <1>6, <2>1, CallInv DEF WaitCleanup, WaitProxy, WaitForThread, Starting
<1>7. CASE Join
  BY <1>7 DEF Join, IInv, TypeOK, Flag, Unborn, Present, Sockets, Learning
<1>8. CASE Free
  BY <1>8 DEF Free, IInv, TypeOK, Flag, Unborn, Present, Sockets, Learning
<1> QED
  BY <1>1, <1>2, <1>3, <1>4, <1>5, <1>6, <1>7, <1>8 DEF Caller

\* A run begins: with no thread of an earlier one alive no socket is open.
LEMMA BeginInv == IInv /\ Begin => IInv'
<1> SUFFICES ASSUME IInv, Begin PROVE IInv'
  OBVIOUS
<1> USE Types DEF IInv
<1>1. /\ caller = "idle" /\ ~running /\ gen' = gen + 1 /\ gen' \in Gens
      /\ gen' \in 0 .. MaxStarts
      /\ crossed' = (crossed \/ Alive # {}) /\ crossed' \in BOOLEAN
      /\ socks' \in {"no", "yes"} /\ UNCHANGED <<open, sock, learnt>>
  BY DEF Begin, Gens, TypeOK
<1>2. \A k \in Kinds : thr[k][gen'] = "none"
  BY <1>1 DEF Unborn
<1>3. ASSUME ~crossed', Sockets
      PROVE  /\ \A k \in Kinds, g \in Gens : thr[k][g] \notin {"init", "loop", "ends"}
             /\ \A k \in Relays, g \in Gens : <<k, g>> \notin open
  <2>1. \A k \in Kinds, g \in Gens : <<k, g>> \notin Alive
    BY <1>1, <1>3
  <2>2. \A k \in Kinds, g \in Gens : thr[k][g] \notin {"init", "loop", "ends"}
    BY <2>1, AliveFacts
  <2> QED
    BY <1>3, <2>2 DEF Sockets, Relays, Kinds
<1>4. CASE running' = TRUE /\ caller' = "cleanup" /\ Creates("proxy", gen + 1)
  <2>1. /\ thr' \in [Kinds -> [Gens -> {"none", "init", "loop", "ends", "failed", "done"}]]
        /\ thr'["proxy"][gen'] = "init"
        /\ \A j \in Kinds, h \in Gens : <<j, h>> # <<"proxy", gen'>> => thr'[j][h] = thr[j][h]
    <3>1. thr' = [thr EXCEPT !["proxy"][gen'] = "init"]
      BY <1>1, <1>4 DEF Creates
    <3>2. "proxy" \in Kinds
      BY DEF Kinds
    <3> QED
      BY <1>1, <3>1, <3>2, ThreadFacts
  <2>2. TypeOK'
    BY <1>1, <1>4, <2>1 DEF TypeOK
  <2>3. Flag'
    BY <1>1, <1>4 DEF Flag, StartPC, FailPC
  <2>4. Unborn'
    BY <1>1, <1>2, <1>4, <2>1 DEF Unborn, NotYet, Kinds
  <2>5. Present'
    BY <1>4, <2>1 DEF Present, NotYet, StartPC, Relays
  <2>6. ASSUME ~crossed' PROVE Sockets' /\ Learning'
    <3>1. ~crossed /\ Sockets /\ Learning
      BY <1>1, <2>6
    <3>2. Sockets'
      BY <1>1, <1>3, <2>1, <2>6, <3>1 DEF Sockets, Relays, Kinds
    <3> QED
      BY <1>1, <3>1, <3>2 DEF Learning
  <2> QED
    BY <2>2, <2>3, <2>4, <2>5, <2>6
<1>5. CASE UNCHANGED <<running, caller, thr>>
  <2>1. TypeOK' /\ Flag' /\ Present'
    BY <1>1, <1>5 DEF TypeOK, Flag, Present, StartPC, FailPC
  <2>2. Unborn'
    BY <1>1, <1>2, <1>5 DEF Unborn
  <2>3. ASSUME ~crossed' PROVE Sockets' /\ Learning'
    <3>1. ~crossed /\ Sockets /\ Learning
      BY <1>1, <2>3
    <3>2. Sockets'
      BY <1>1, <1>3, <1>5, <2>3, <3>1 DEF Sockets
    <3> QED
      BY <1>1, <1>5, <3>1, <3>2 DEF Learning
  <2> QED
    BY <2>1, <2>2, <2>3
<1> QED
  BY <1>4, <1>5 DEF Begin

LEMMA StopInv == IInv /\ (Stop \/ Detach \/ Configure \/ UNCHANGED vars) => IInv'
<1> SUFFICES ASSUME IInv, Stop \/ Detach \/ Configure \/ UNCHANGED vars PROVE IInv'
  OBVIOUS
<1> USE Types DEF IInv
<1>1. CASE Stop
  BY <1>1 DEF Stop, TypeOK, Flag, Unborn, NotYet, Kinds, StartPC, FailPC, Present, Sockets, Learning
<1>2. CASE Detach
  <2>1. \A k \in Kinds, g \in Gens : thr'[k][g] = IF thr[k][g] = "none" THEN "none" ELSE "done"
    BY <1>2 DEF Detach
  <2>2. thr' \in [Kinds -> [Gens -> {"none", "init", "loop", "ends", "failed", "done"}]]
    BY <1>2 DEF Detach
  <2>3. sock' \in [Relays -> 0 .. MaxStarts] /\ open' = {} /\ learnt' = "nothing"
    BY <1>2 DEF Detach
  <2>4. /\ caller' = "gone" /\ running' = FALSE
        /\ UNCHANGED <<gen, socks, crossed>>
    BY <1>2 DEF Detach
  <2>5. TypeOK'
    BY <2>2, <2>3, <2>4 DEF TypeOK
  <2>6. Flag' /\ Unborn' /\ Present' /\ Learning'
    BY <2>1, <2>3, <2>4 DEF Flag, Unborn, Present, Learning, NotYet, Kinds, StartPC, FailPC
  <2>7. Sockets'
    BY <2>1, <2>3 DEF Sockets, Relays, Kinds
  <2> QED
    BY <2>5, <2>6, <2>7
<1>3. CASE Configure
  BY <1>3 DEF Configure, TypeOK, Flag, Unborn, Present, Sockets, Learning
<1>4. CASE UNCHANGED vars
  BY <1>4 DEF vars, TypeOK, Flag, Unborn, Present, Sockets, Learning
<1> QED
  BY <1>1, <1>2, <1>3, <1>4

-----------------------------------------------------------------------------
(* The threads *)

\* A thread that goes from one state to another leaves the calls as they are.
LEMMA MovesFacts ==
  ASSUME IInv, NEW k \in Kinds, NEW g \in Gens, NEW from, NEW to, Moves(k, g, from, to),
         from # "none", to \in {"loop", "ends", "failed", "done"}
  PROVE  /\ thr' \in [Kinds -> [Gens -> {"none", "init", "loop", "ends", "failed", "done"}]]
         /\ thr[k][g] = from /\ thr'[k][g] = to
         /\ \A j \in Kinds, h \in Gens : <<j, h>> # <<k, g>> => thr'[j][h] = thr[j][h]
         /\ UNCHANGED <<running, caller, gen, socks, crossed>>
         /\ Flag' /\ Unborn'
<1> USE Types DEF IInv
<1>1. /\ thr' = [thr EXCEPT ![k][g] = to] /\ thr[k][g] = from
      /\ UNCHANGED <<running, caller, gen, socks, crossed>>
  BY DEF Moves
<1>2. /\ thr' \in [Kinds -> [Gens -> {"none", "init", "loop", "ends", "failed", "done"}]]
      /\ thr'[k][g] = to
      /\ \A j \in Kinds, h \in Gens : <<j, h>> # <<k, g>> => thr'[j][h] = thr[j][h]
  BY <1>1, ThreadFacts
<1>3. Flag'
  BY <1>1 DEF Flag
<1>4. Unborn'
  BY <1>1, <1>2 DEF Unborn
<1> QED
  BY <1>1, <1>2, <1>3, <1>4

\* A thread of a run that goes on starts its loop or fails to.
LEMMA EntersInv ==
  ASSUME IInv, NEW k \in Kinds, NEW g \in Gens, Enters(k, g) \/ EntersNot(k, g)
  PROVE  IInv'
<1> USE Types DEF IInv
<1>1. PICK to \in {"loop", "failed"} : Moves(k, g, "init", to)
  BY DEF Enters, EntersNot
<1>2. /\ thr' \in [Kinds -> [Gens -> {"none", "init", "loop", "ends", "failed", "done"}]]
      /\ thr[k][g] = "init" /\ thr'[k][g] = to
      /\ \A j \in Kinds, h \in Gens : <<j, h>> # <<k, g>> => thr'[j][h] = thr[j][h]
      /\ UNCHANGED <<running, caller, gen, socks, crossed, learnt>>
      /\ Flag' /\ Unborn'
  BY <1>1, MovesFacts DEF Enters, EntersNot
<1>3. Present'
  <2>1. running => gen \in Gens
    BY DEF Flag
  <2>2. k \in {"cleanup", "packet"} /\ g = gen /\ running => NotYet(caller, k)
    BY <1>2 DEF Present
  <2>3. k \notin {"cleanup", "packet"} => k = "proxy" \/ k \in Relays
    BY DEF Kinds, Relays
  <2> QED
    BY <1>2, <2>1, <2>2, <2>3 DEF Present, Kinds, Relays
<1>4. CASE Enters(k, g)
  <2>1. to = "loop"
    BY <1>2, <1>4 DEF Enters, Moves
  <2>2. /\ k \in Relays => open' = open \cup {<<k, g>>} /\ sock' = [sock EXCEPT ![k] = g]
        /\ k \notin Relays => UNCHANGED <<open, sock>>
    BY <1>4 DEF Enters
  <2>3. TypeOK'
    <3>1. g \in 0 .. MaxStarts
      BY DEF Gens
    <3>2. open' \subseteq Relays \X Gens /\ sock' \in [Relays -> 0 .. MaxStarts]
      BY <2>2, <3>1
    <3> QED
      BY <1>2, <3>2 DEF TypeOK
  <2>4. ASSUME ~crossed PROVE Sockets' /\ Learning'
    BY <1>2, <2>1, <2>2, <2>4 DEF Sockets, Learning, Relays, Kinds
  <2> QED
    BY <1>2, <1>3, <2>3, <2>4
<1>5. CASE EntersNot(k, g)
  <2>1. to = "failed"
    BY <1>2, <1>5 DEF EntersNot, Moves
  <2>2. /\ open' = open
        /\ k \in Relays => sock' = [sock EXCEPT ![k] = 0]
        /\ k \notin Relays => sock' = sock
    BY <1>5 DEF EntersNot
  <2>3. TypeOK'
    <3>1. sock' \in [Relays -> 0 .. MaxStarts]
      BY <2>2
    <3> QED
      BY <1>2, <2>2, <3>1 DEF TypeOK
  <2>4. ASSUME ~crossed PROVE Sockets' /\ Learning'
    BY <1>2, <2>1, <2>2, <2>4 DEF Sockets, Learning, Relays, Kinds
  <2> QED
    BY <1>2, <1>3, <2>3, <2>4
<1> QED
  BY <1>4, <1>5

\* Once the flag is false a thread leaves, closing the socket of its run.
LEMMA LeavesInv ==
  ASSUME IInv, NEW k \in Kinds, NEW g \in Gens, Leaves(k, g) \/ Exits(k, g)
  PROVE  IInv'
<1> USE Types DEF IInv
<1>1. CASE Leaves(k, g)
  <2>1. /\ thr' \in [Kinds -> [Gens -> {"none", "init", "loop", "ends", "failed", "done"}]]
        /\ thr[k][g] = "loop" /\ thr'[k][g] = IF k \in Relays THEN "ends" ELSE "done"
        /\ \A j \in Kinds, h \in Gens : <<j, h>> # <<k, g>> => thr'[j][h] = thr[j][h]
        /\ UNCHANGED <<running, caller, gen, socks, crossed, learnt, open, sock>>
        /\ Flag' /\ Unborn' /\ ~running
    BY <1>1, MovesFacts DEF Leaves
  <2>2. TypeOK' /\ Present'
    BY <2>1 DEF TypeOK, Present
  <2>3. ASSUME ~crossed PROVE Sockets' /\ Learning'
    BY <2>1, <2>3 DEF Sockets, Learning, Relays, Kinds
  <2> QED
    BY <2>1, <2>2, <2>3
<1>2. CASE Exits(k, g)
  <2>1. /\ thr' \in [Kinds -> [Gens -> {"none", "init", "loop", "ends", "failed", "done"}]]
        /\ thr[k][g] = "ends" /\ thr'[k][g] = "done"
        /\ \A j \in Kinds, h \in Gens : <<j, h>> # <<k, g>> => thr'[j][h] = thr[j][h]
        /\ UNCHANGED <<running, caller, gen, socks, crossed, learnt>>
        /\ Flag' /\ Unborn'
        /\ open' = open \ {<<k, sock[k]>>} /\ sock' = [sock EXCEPT ![k] = 0]
    BY <1>2, MovesFacts DEF Exits, ClosedBy
  <2>2. TypeOK'
    <3>1. open \subseteq Relays \X Gens /\ sock \in [Relays -> 0 .. MaxStarts] /\ MaxStarts \in Nat
      OBVIOUS
    <3>2. open' \subseteq Relays \X Gens
      BY <2>1, <3>1
    <3>3. 0 \in 0 .. MaxStarts
      BY <3>1
    <3>4. sock' \in [Relays -> 0 .. MaxStarts]
      BY <2>1, <3>1, <3>3
    <3> QED
      BY <2>1, <3>2, <3>4 DEF TypeOK
  <2>3. Present'
    <3>1. running => gen \in Gens
      BY DEF Flag
    <3>2. running => g # gen \/ (k \in {"cleanup", "packet"} /\ NotYet(caller, k))
                     \/ (k \in Relays /\ (NotYet(caller, k) \/ socks # "yes"))
      BY <2>1 DEF Present, Kinds, Relays
    <3> QED
      BY <2>1, <3>1, <3>2 DEF Present, Kinds, Relays
  <2>4. ASSUME ~crossed PROVE Sockets' /\ Learning'
    BY <2>1, <2>4 DEF Sockets, Learning, Relays, Kinds
  <2> QED
    BY <2>1, <2>2, <2>3, <2>4
<1> QED
  BY <1>1, <1>2

\* The packet thread records what it learns.
LEMMA RecordsInv ==
  ASSUME IInv, NEW g \in Gens, Records(g) \/ RecordsLate(g)
  PROVE  IInv'
<1> USE Types DEF IInv
<1>0. "packet" \in Kinds /\ "packet" \notin Relays
  BY DEF Kinds, Relays
<1>1. PICK to \in {"loop", "done"} : Moves("packet", g, "loop", to) /\ (to = "done" => ~running)
  BY DEF Records, RecordsLate
<1>2. /\ thr' \in [Kinds -> [Gens -> {"none", "init", "loop", "ends", "failed", "done"}]]
      /\ thr["packet"][g] = "loop" /\ thr'["packet"][g] = to
      /\ \A j \in Kinds, h \in Gens : <<j, h>> # <<"packet", g>> => thr'[j][h] = thr[j][h]
      /\ UNCHANGED <<running, caller, gen, socks, crossed>>
      /\ Flag' /\ Unborn'
  BY <1>0, <1>1, MovesFacts
<1>3. UNCHANGED <<open, sock>> /\ learnt' \in {"inRun", "afterStop"}
  BY DEF Records, RecordsLate
<1>4. TypeOK' /\ Present'
  BY <1>1, <1>2, <1>3 DEF TypeOK, Present, Kinds, Relays
<1>5. ASSUME ~crossed PROVE Sockets' /\ Learning'
  <2>1. Sockets'
    BY <1>2, <1>3, <1>5 DEF Sockets, Relays, Kinds
  <2>2. g = gen
    BY <1>0, <1>2, <1>5 DEF Sockets
  <2>3. running => caller = "idle"
    BY <1>0, <1>2, <2>2 DEF Unborn, Flag, NotYet, StartPC
  <2>4. learnt' = "inRun" => running \/ learnt = "inRun"
    BY DEF Records, RecordsLate
  <2> QED
    BY <1>2, <1>5, <2>1, <2>3, <2>4 DEF Learning
<1> QED
  BY <1>2, <1>4, <1>5

LEMMA Invariance == Spec => []IInv
<1>1. IInv /\ [Next]_vars => IInv'
  BY CallerInv, BeginInv, StopInv, EntersInv, LeavesInv, RecordsInv DEF Next, Thread
<1> QED
  BY <1>1, InitInv, PTL DEF Spec

\* Unless runs overlapped: after Start the threads of this run are there, its
\* relays' sockets are the ones in the globals, and nothing of an earlier run is
\* left; after Stop no cache or table entry of the run is left
\* (ProxyBridge_Start, ProxyBridge_Stop).
THEOREM ServedCorrect == Spec => []Served
<1>1. ASSUME IInv PROVE Served
  <2> USE Types DEF IInv
  <2>1. caller = "idle" /\ ~running /\ ~crossed => learnt # "inRun"
    BY <1>1 DEF Learning
  <2>2. ASSUME caller = "idle", running, ~crossed
        PROVE  /\ \A t \in Alive : t[2] = gen
               /\ \A k \in {"cleanup", "packet"} : thr[k][gen] = "loop"
               /\ thr["proxy"][gen] \in {"init", "loop", "failed"}
               /\ \A k \in Relays :
                    /\ socks = "yes" => thr[k][gen] \in {"init", "loop", "failed"}
                    /\ thr[k][gen] = "loop" => sock[k] = gen /\ <<k, gen>> \in open
               /\ \A s \in open : s[2] = gen
    <3>1. \A k \in Kinds : ~NotYet(caller, k)
      BY <2>2 DEF NotYet, FailPC
    <3>2. Sockets /\ Present /\ gen \in Gens /\ Relays \subseteq Kinds
      BY <1>1, <2>2 DEF Flag, Relays, Kinds
    <3>3. \A t \in Alive : t[2] = gen
      BY <3>2 DEF Alive, Sockets
    <3>4. \A s \in open : s[2] = gen
      BY <1>1, <3>2 DEF Sockets
    <3> QED
      BY <2>2, <3>1, <3>2, <3>3, <3>4 DEF Sockets, Present, Kinds
  <2> QED
    BY <1>1, <2>1, <2>2 DEF Served
<1> QED
  BY <1>1, Invariance, PTL
=============================================================================
