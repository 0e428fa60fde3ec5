--------------------------- MODULE ClassifyProofs --------------------------
(***************************************************************************)
(* Proofs about Classify: a packet is proxied for a process only if it had *)
(* the port lately, and a listed process that keeps its port is not        *)
(* missed, for any processes, rule, lifetime of the cache and delays.      *)
(* There the matchers of Patterns stay unexpanded: any rule will do.       *)
(* Then that they read filters as they are meant, for any alphabet, length *)
(* of the texts, and size of octets and addresses.                         *)
(***************************************************************************)
EXTENDS Classify, SequenceTheorems, FiniteSetTheorems, NaturalsInduction,
  WellFoundedInduction, TLAPS

\* The table a packet's protocol asks first.
First == IF packet.udp THEN "udp" ELSE "tcp"

\* The largest age of an entry that is used, when it was right.
Usable == TTL - 1 + MaxLag

\* Whoever is taken for the owner of a port had it when the answer was given,
\* which is as long ago as the answer has been kept.
HadIt ==
  /\ \A k \in Kinds : owner[k] \in Listed => since[k] = 0
  /\ \A k \in Kinds : cache[k] # None /\ cache[k].pid \in Listed =>
       since[k] <= cache[k].age + MaxLag
  /\ packet.pc = "store" /\ packet.pid \in Listed => since[packet.table] <= packet.lag
  /\ packet.pc = "match" /\ packet.pid \in Listed =>
       since[packet.table] <= Usable + packet.lag

\* An answer given since the owner has the port names the owner.
HasIt ==
  /\ \A k \in Kinds : held[k] > 0 => owner[k] \in Listed
  /\ \A k \in Kinds : cache[k] # None /\ held[k] > cache[k].age + MaxLag =>
       cache[k].pid = owner[k]
  /\ packet.pc = "store" /\ held[packet.table] > packet.lag =>
       packet.pid = owner[packet.table]
  /\ packet.pc = "match" /\ packet.pid # None /\ held[packet.table] > Usable + packet.lag =>
       packet.pid = owner[packet.table]

\* The second table, or none, is asked only when the first had no owner.
Order ==
  /\ packet.pc # "idle" => packet.table = First \/ (packet.udp /\ ~v6)
  /\ packet.pc = "store" => packet.pid # None
  /\ packet.pc \in {"lookup", "store", "match"} /\ ~packet.failed
     /\ (packet.table # First \/ (packet.pc = "match" /\ packet.pid = None)) =>
       held[First] <= packet.lag

IInv == TypeOK /\ HadIt /\ HasIt /\ Order

-----------------------------------------------------------------------------

Checks == [pc : {"idle", "lookup", "store", "match", "done"}, udp : BOOLEAN,
           table : Kinds, pid : Procs \cup {None}, lag : 0 .. MaxLag,
           failed : BOOLEAN, config : Configs, verdict : {"none", "DIRECT", "PROXY"}]

\* What the type invariant says, variable by variable.
LEMMA Types ==
  ASSUME TypeOK
  PROVE  /\ v6 \in BOOLEAN /\ old \in BOOLEAN
         /\ owner \in [Kinds -> Procs \cup {None}]
         /\ since \in [Kinds -> 0 .. AgeCap] /\ held \in [Kinds -> 0 .. AgeCap]
         /\ cache \in [Kinds -> [pid : Procs, age : 0 .. AgeCap] \cup {None}]
         /\ packet \in Checks
         /\ TTL \in Nat /\ MaxLag \in Nat /\ AgeCap \in Nat /\ Usable \in Nat
         /\ TTL > 0 /\ Usable = TTL - 1 + MaxLag /\ AgeCap = TTL + 2 * MaxLag
         /\ None \notin Procs
BY ClassifyConstants DEF TypeOK, Checks, AgeCap, Bound, Usable

LEMMA ListedFacts == Listed \subseteq Procs /\ None \notin Listed /\ Self \notin Listed
BY ClassifyConstants DEF Listed

LEMMA NoPacketFacts ==
  ASSUME TypeOK
  PROVE  NoPacket \in Checks /\ NoPacket.pc = "idle"
BY Types DEF NoPacket, Checks, Kinds, Configs

\* A check that asks the cache of table k gets an answer that is good still, or
\* goes on to the table of the system.
LEMMA AskedFacts ==
  ASSUME IInv, NEW c \in Checks, NEW k \in Kinds
  PROVE  /\ Asked(c, k) \in Checks /\ Asked(c, k).table = k
         /\ Asked(c, k).udp = c.udp /\ Asked(c, k).lag = c.lag /\ Asked(c, k).failed = c.failed
         /\ \/ Asked(c, k).pc = "lookup" /\ Asked(c, k).pid = None
            \/ /\ Asked(c, k).pc = "match" /\ Asked(c, k).pid \in Procs
               /\ Asked(c, k).pid \in Listed => since[k] <= Usable
               /\ held[k] > Usable => Asked(c, k).pid = owner[k]
<1> DEFINE pid == IF v6 THEN None ELSE get_cached_pid(k)
<1> USE Types DEF IInv
<1>1. Asked(c, k) = [c EXCEPT !.table = k, !.pid = pid,
                       !.pc = IF pid # None THEN "match" ELSE "lookup"]
  BY DEF Asked
<1>2. ASSUME pid # None
      PROVE  /\ pid \in Procs
             /\ pid \in Listed => since[k] <= Usable
             /\ held[k] > Usable => pid = owner[k]
  <2>1. cache[k] # None /\ cache[k].age < TTL /\ pid = cache[k].pid
    BY <1>2 DEF get_cached_pid, Fresh
  <2>2. cache[k].pid \in Procs /\ cache[k].age \in 0 .. AgeCap
    BY <2>1
  <2>3. cache[k].age + MaxLag <= Usable
    BY <2>1, <2>2
  <2> QED
    BY <2>1, <2>2, <2>3 DEF HadIt, HasIt
<1>3. pid \in Procs \cup {None}
  BY <1>2
<1>4. Asked(c, k) \in Checks
  BY <1>1, <1>3 DEF Checks
<1> QED
  BY <1>1, <1>2, <1>4 DEF Checks

LEMMA InitInv == Init => IInv
<1> SUFFICES ASSUME Init PROVE IInv
  OBVIOUS
<1>1. TypeOK
  <2>1. AgeCap \in 0 .. AgeCap /\ 0 \in 0 .. AgeCap /\ 0 \in 0 .. MaxLag
    BY ClassifyConstants DEF AgeCap, Bound
  <2> QED
    BY <2>1 DEF Init, TypeOK, NoPacket, Configs, Kinds
<1>2. HadIt /\ HasIt /\ Order
  BY ListedFacts DEF Init, HadIt, HasIt, Order, NoPacket
<1> QED
  BY <1>1, <1>2 DEF IInv

\* A packet comes in.
LEMMA PacketInv ==
  ASSUME IInv, NEW udp \in BOOLEAN, Packet(udp)
  PROVE  IInv'
<1> USE Types DEF IInv
<1> DEFINE k == IF udp THEN "udp" ELSE "tcp"
           c == [NoPacket EXCEPT !.udp = udp]
<1>1. packet' = Asked(c, k) /\ UNCHANGED <<v6, old, owner, since, held, cache>>
  BY DEF Packet, Pass
<1>2. c \in Checks /\ c.udp = udp /\ c.lag = 0 /\ ~c.failed /\ k \in Kinds
  BY NoPacketFacts DEF NoPacket, Checks, Kinds
<1> HIDE DEF c, k
<1>3. /\ packet' \in Checks /\ packet'.table = k /\ packet'.udp = udp /\ packet'.lag = 0
      /\ \/ packet'.pc = "lookup" /\ packet'.pid = None
         \/ /\ packet'.pc = "match" /\ packet'.pid \in Procs
            /\ packet'.pid \in Listed => since[k] <= Usable
            /\ held[k] > Usable => packet'.pid = owner[k]
  BY <1>1, <1>2, AskedFacts
<1>4. First' = k
  BY <1>3 DEF First, k
<1>5. TypeOK'
  BY <1>1, <1>3 DEF TypeOK, Checks
<1>6. HadIt' /\ HasIt'
  BY <1>1, <1>2, <1>3 DEF HadIt, HasIt
<1>7. Order'
  BY <1>3, <1>4 DEF Order
<1> QED
  BY <1>5, <1>6, <1>7

\* The system's table is read: an owner found there has the port at this moment.
LEMMA LookUpInv == IInv /\ LookUp => IInv'
<1> SUFFICES ASSUME IInv, LookUp PROVE IInv'
  OBVIOUS
<1> USE Types DEF IInv
<1>1. packet.pc = "lookup" /\ UNCHANGED <<v6, old, owner, since, held, cache>>
  BY DEF LookUp, Pass
<1>2. PICK fails \in BOOLEAN :
        LET pid == IF fails THEN None ELSE owner[packet.table]
            found == [packet EXCEPT !.failed = @ \/ fails, !.pid = pid]
        IN  packet' =
              IF pid # None THEN [found EXCEPT !.pc = IF v6 THEN "match" ELSE "store"]
              ELSE IF packet.table = "udp" /\ ~v6 THEN Asked(found, "tcp")
              ELSE [found EXCEPT !.pc = "match"]
  BY DEF LookUp
<1> DEFINE pid == IF fails THEN None ELSE owner[packet.table]
           found == [packet EXCEPT !.failed = @ \/ fails, !.pid = pid]
           t == packet.table
<1>3. /\ t \in Kinds /\ pid \in Procs \cup {None} /\ packet.lag \in 0 .. MaxLag
      /\ packet.failed \in BOOLEAN
  BY DEF Checks
<1>4. /\ found \in Checks /\ found.pid = pid /\ found.table = t /\ found.udp = packet.udp
      /\ found.lag = packet.lag /\ found.failed = (packet.failed \/ fails)
  BY <1>3 DEF Checks
<1>5. pid # None => pid = owner[t]
  OBVIOUS
<1>6. ~fails /\ pid = None => held[t] = 0
  BY <1>3, ListedFacts DEF HasIt
<1>7. packet' = IF pid # None THEN [found EXCEPT !.pc = IF v6 THEN "match" ELSE "store"]
                ELSE IF t = "udp" /\ ~v6 THEN Asked(found, "tcp")
                ELSE [found EXCEPT !.pc = "match"]
  BY <1>2
<1> HIDE DEF pid, found
<1>8. CASE pid # None
  <2>1. packet' = [found EXCEPT !.pc = IF v6 THEN "match" ELSE "store"]
    BY <1>7, <1>8
  <2>2. /\ packet' \in Checks /\ packet'.pid = pid /\ packet'.table = t
        /\ packet'.udp = packet.udp /\ packet'.lag = packet.lag
        /\ packet'.failed = (packet.failed \/ fails) /\ packet'.pc \in {"match", "store"}
    BY <1>4, <2>1 DEF Checks
  <2>3. TypeOK'
    BY <1>1, <2>2 DEF TypeOK, Checks
  <2>4. HadIt'
    BY <1>1, <1>3, <1>5, <1>8, <2>2 DEF HadIt
  <2>5. HasIt'
    BY <1>1, <1>3, <1>5, <1>8, <2>2 DEF HasIt
  <2>6. Order'
    BY <1>1, <1>3, <1>8, <2>2 DEF Order, First
  <2> QED
    BY <2>3, <2>4, <2>5, <2>6
<1>9. CASE pid = None /\ t = "udp" /\ ~v6
  <2>1. packet' = Asked(found, "tcp") /\ "tcp" \in Kinds /\ "udp" \in Kinds
    BY <1>7, <1>9 DEF Kinds
  <2>2. /\ packet' \in Checks /\ packet'.table = "tcp" /\ packet'.udp = packet.udp
        /\ packet'.lag = packet.lag /\ packet'.failed = (packet.failed \/ fails)
        /\ \/ packet'.pc = "lookup" /\ packet'.pid = None
           \/ /\ packet'.pc = "match" /\ packet'.pid \in Procs
              /\ packet'.pid \in Listed => since["tcp"] <= Usable
              /\ held["tcp"] > Usable => packet'.pid = owner["tcp"]
    BY <1>4, <2>1, AskedFacts
  <2>3. packet.udp
    BY <1>1, <1>9 DEF Order, First
  <2>4. TypeOK'
    BY <1>1, <2>2 DEF TypeOK, Checks
  <2>5. HadIt' /\ HasIt'
    BY <1>1, <1>3, <2>1, <2>2 DEF HadIt, HasIt
  <2>6. ~packet'.failed => held["udp"] <= packet.lag
    BY <1>3, <1>6, <1>9, <2>2
  <2>7. Order'
    BY <1>1, <1>9, <2>2, <2>3, <2>6 DEF Order, First
  <2> QED
    BY <2>4, <2>5, <2>7
<1>10. CASE pid = None /\ ~(t = "udp" /\ ~v6)
  <2>1. packet' = [found EXCEPT !.pc = "match"]
    BY <1>7, <1>10
  <2>2. /\ packet' \in Checks /\ packet'.pid = None /\ packet'.table = t
        /\ packet'.udp = packet.udp /\ packet'.lag = packet.lag
        /\ packet'.failed = (packet.failed \/ fails) /\ packet'.pc = "match"
    BY <1>4, <1>10, <2>1 DEF Checks
  <2>3. TypeOK'
    BY <1>1, <2>2 DEF TypeOK, Checks
  <2>4. HadIt' /\ HasIt'
    BY <1>1, <2>2, ListedFacts DEF HadIt, HasIt
  <2>5. ~packet'.failed => held[First] <= packet.lag
    <3>1. CASE t = First
      BY <1>3, <1>6, <1>10, <2>2, <3>1
    <3>2. CASE t # First
      BY <1>1, <2>2, <3>2 DEF Order
    <3> QED
      BY <3>1, <3>2
  <2>6. Order'
    BY <1>1, <1>10, <2>2, <2>5 DEF Order, First
  <2> QED
    BY <2>3, <2>4, <2>6
<1> QED
  BY <1>8, <1>9, <1>10

LEMMA StoreInv == IInv /\ Store => IInv'
<1> SUFFICES ASSUME IInv, Store PROVE IInv'
  OBVIOUS
<1> USE Types DEF IInv
<1> DEFINE t == packet.table
<1>1. /\ packet.pc = "store" /\ UNCHANGED <<v6, old, owner, since, held>>
      /\ cache' = [cache EXCEPT ![t] = [pid |-> packet.pid, age |-> 0]]
      /\ packet' = [packet EXCEPT !.pc = "match"]
  BY DEF Store, cache_pid, Pass
<1>2. t \in Kinds /\ packet.pid \in Procs /\ packet.lag \in 0 .. MaxLag /\ 0 \in 0 .. AgeCap
  BY <1>1 DEF Checks, Order
<1>3. /\ packet' \in Checks /\ packet'.pid = packet.pid /\ packet'.table = t
      /\ packet'.udp = packet.udp /\ packet'.lag = packet.lag
      /\ packet'.failed = packet.failed /\ packet'.pc = "match"
  BY <1>1 DEF Checks
<1>4. /\ cache' \in [Kinds -> [pid : Procs, age : 0 .. AgeCap] \cup {None}]
      /\ cache'[t].pid = packet.pid /\ cache'[t].age = 0
      /\ \A k \in Kinds \ {t} : cache'[k] = cache[k]
  BY <1>1, <1>2
<1>5. TypeOK'
  BY <1>1, <1>3, <1>4 DEF TypeOK, Checks
<1>6. HadIt'
  BY <1>1, <1>2, <1>3, <1>4 DEF HadIt
<1>7. HasIt'
  BY <1>1, <1>2, <1>3, <1>4 DEF HasIt
<1>8. Order'
  BY <1>1, <1>2, <1>3 DEF Order, First
<1> QED
  BY <1>5, <1>6, <1>7, <1>8

LEMMA MatchInv == IInv /\ Match => IInv'
<1> SUFFICES ASSUME IInv, Match PROVE IInv'
  OBVIOUS
<1> USE Types DEF IInv
<1>1. UNCHANGED <<v6, old, owner, since, held, cache>> /\ packet.pc = "match"
  BY DEF Match, Pass
<1>2. PICK named \in BOOLEAN, config \in Configs :
        packet' = [packet EXCEPT !.pc = "done", !.failed = @ \/ ~named, !.config = config,
                     !.verdict = IF named THEN Judged(packet.pid, packet.udp, config) ELSE "DIRECT"]
  BY DEF Match
<1>3. /\ packet' \in Checks /\ packet'.pc = "done" /\ packet'.table = packet.table
      /\ packet'.udp = packet.udp
  BY <1>2 DEF Checks, Judged
<1>4. TypeOK'
  BY <1>1, <1>3 DEF TypeOK, Checks
<1>5. HadIt' /\ HasIt' /\ Order'
  BY <1>1, <1>3 DEF HadIt, HasIt, Order, First
<1> QED
  BY <1>4, <1>5

\* Entries go: nothing is said of one that is not there.
LEMMA PruneInv == IInv /\ (Prune \/ clear_pid_cache \/ UNCHANGED vars) => IInv'
<1> SUFFICES ASSUME IInv, Prune \/ clear_pid_cache \/ UNCHANGED vars PROVE IInv'
  OBVIOUS
<1> USE Types DEF IInv
<1>1. UNCHANGED <<v6, old, owner, since, held, packet>>
  BY DEF Prune, clear_pid_cache, vars
<1>2. /\ cache' \in [Kinds -> [pid : Procs, age : 0 .. AgeCap] \cup {None}]
      /\ \A k \in Kinds : cache'[k] = cache[k] \/ cache'[k] = None
  BY DEF Prune, clear_pid_cache, vars
<1>3. TypeOK'
  BY <1>1, <1>2 DEF TypeOK, Checks
<1>4. HadIt' /\ HasIt' /\ Order'
  BY <1>1, <1>2 DEF HadIt, HasIt, Order, First
<1> QED
  BY <1>3, <1>4

\* What is forgotten was finished.
LEMMA ForgottenFacts ==
  ASSUME IInv, Forgotten
  PROVE  /\ packet' \in Checks
         /\ packet' = packet \/ packet'.pc = "idle"
BY Types, NoPacketFacts DEF Forgotten, IInv

\* A process takes a port that nobody has, or gives its port up.
LEMMA BindInv ==
  ASSUME IInv, NEW k \in Kinds, Unbind(k) \/ \E p \in Procs : Bind(k, p)
  PROVE  IInv'
<1> USE Types DEF IInv
<1>1. /\ UNCHANGED <<v6, old, cache>> /\ packet' \in Checks
      /\ packet' = packet \/ packet'.pc = "idle"
  BY ForgottenFacts DEF Bind, Unbind
<1>2. CASE Unbind(k)
  <2>1. /\ owner' = [owner EXCEPT ![k] = None] /\ held' = [held EXCEPT ![k] = 0]
        /\ since' = since
    BY <1>2 DEF Unbind
  <2>2. TypeOK'
    BY <1>1, <2>1 DEF TypeOK, Checks
  <2>3. HadIt'
    BY <1>1, <2>1, ListedFacts DEF HadIt
  <2>4. HasIt'
    <3>1. \A j \in Kinds : held'[j] > 0 => held'[j] = held[j] /\ owner'[j] = owner[j]
      BY <2>1
    <3>2. \A j \in Kinds : held'[j] \in Nat
      BY <2>1
    <3>3. /\ packet'.pc \in {"store", "match"} => packet'.table \in Kinds /\ packet'.lag \in Nat
          /\ \A j \in Kinds : cache[j] # None => cache[j].age \in Nat
      BY <1>1 DEF Checks
    <3> QED
      BY <1>1, <3>1, <3>2, <3>3 DEF HasIt
  <2>5. Order'
    <3>1. \A j \in Kinds : held'[j] <= held[j]
      BY <2>1
    <3>2. First \in Kinds /\ held[First] \in Nat /\ packet.lag \in Nat
      BY DEF First, Kinds, Checks
    <3> QED
      BY <1>1, <2>1, <3>1, <3>2 DEF Order, First
  <2> QED
    BY <2>2, <2>3, <2>4, <2>5
<1>3. ASSUME NEW p \in Procs, Bind(k, p) PROVE IInv'
  <2>1. /\ owner[k] = None /\ owner' = [owner EXCEPT ![k] = p] /\ held' = held
        /\ since' = IF p \in Listed THEN [since EXCEPT ![k] = 0] ELSE since
    BY <1>3 DEF Bind
  <2>2. since' \in [Kinds -> 0 .. AgeCap] /\ \A j \in Kinds : since'[j] <= since[j]
    BY <2>1
  <2>3. TypeOK'
    BY <1>1, <2>1, <2>2 DEF TypeOK, Checks
  <2>4. HadIt'
    <3>1. \A j \in Kinds : owner'[j] \in Listed => since'[j] = 0
      BY <2>1 DEF HadIt
    <3>2. /\ packet'.pc \in {"store", "match"} => packet'.table \in Kinds /\ packet'.lag \in Nat
          /\ \A j \in Kinds : cache[j] # None => cache[j].age \in Nat
      BY <1>1 DEF Checks
    <3> QED
      BY <1>1, <2>2, <3>1, <3>2 DEF HadIt
  <2>5. held[k] = 0
    BY <2>1, ListedFacts DEF HasIt
  <2>6. HasIt'
    <3>1. \A j \in Kinds : held[j] > 0 => owner'[j] = owner[j]
      BY <2>1, <2>5
    <3>2. /\ packet'.pc \in {"store", "match"} => packet'.table \in Kinds /\ packet'.lag \in Nat
          /\ \A j \in Kinds : cache[j] # None => cache[j].age \in Nat
      BY <1>1 DEF Checks
    <3> QED
      BY <1>1, <2>1, <3>1, <3>2 DEF HasIt
  <2>7. Order'
    BY <1>1, <2>1 DEF Order, First
  <2> QED
    BY <2>3, <2>4, <2>6, <2>7
<1> QED
  BY <1>2, <1>3

\* All ages grow together, and a thread is not held up longer than the bound.
LEMMA TickInv == IInv /\ Tick => IInv'
<1> SUFFICES ASSUME IInv, Tick PROVE IInv'
  OBVIOUS
<1> USE Types DEF IInv
<1>1. /\ since' = [k \in Kinds |-> IF owner[k] \in Listed THEN 0 ELSE Older(since[k])]
      /\ held' = [k \in Kinds |-> IF owner[k] \in Listed THEN Older(held[k]) ELSE 0]
      /\ cache' = [k \in Kinds |->
           IF cache[k] = None THEN None ELSE [cache[k] EXCEPT !.age = Older(@)]]
      /\ UNCHANGED <<v6, old, owner>>
  BY DEF Tick
<1>2. \A n \in 0 .. AgeCap : /\ Older(n) \in 0 .. AgeCap /\ Older(n) <= n + 1 /\ n <= Older(n)
                             /\ n < AgeCap => Older(n) = n + 1
  BY DEF Older
<1>3. since' \in [Kinds -> 0 .. AgeCap] /\ held' \in [Kinds -> 0 .. AgeCap]
  <2>1. 0 \in 0 .. AgeCap
    OBVIOUS
  <2> QED
    BY <1>1, <1>2, <2>1
<1>4. ASSUME NEW k \in Kinds, cache[k] # None
      PROVE  /\ cache'[k] \in [pid : Procs, age : 0 .. AgeCap] /\ cache'[k].pid = cache[k].pid
             /\ cache'[k].age = Older(cache[k].age) /\ cache[k].age \in 0 .. AgeCap
  <2>1. /\ cache[k] \in [pid : Procs, age : 0 .. AgeCap]
        /\ cache'[k] = [cache[k] EXCEPT !.age = Older(@)]
    BY <1>1, <1>4
  <2> QED
    BY <1>2, <2>1
<1>5. \A k \in Kinds : cache[k] = None => cache'[k] = None
  BY <1>1
<1>6. cache' \in [Kinds -> [pid : Procs, age : 0 .. AgeCap] \cup {None}]
  BY <1>1, <1>4
<1>7. /\ packet' \in Checks
      /\ \/ packet'.pc = "idle"
         \/ /\ packet.pc \in {"lookup", "store", "match"} /\ packet'.pc = packet.pc
            /\ packet'.lag = packet.lag + 1
            /\ packet'.udp = packet.udp /\ packet'.table = packet.table
            /\ packet'.pid = packet.pid /\ packet'.failed = packet.failed
  <2>1. CASE packet.pc \in {"idle", "done"}
    BY <2>1, NoPacketFacts DEF Tick
  <2>2. CASE packet.pc \in {"lookup", "store", "match"}
    <3>1. packet' = [packet EXCEPT !.lag = @ + 1] /\ packet.lag < MaxLag
      BY <2>2 DEF Tick
    <3>2. packet.lag + 1 \in 0 .. MaxLag
      BY <3>1 DEF Checks
    <3> QED
      BY <2>2, <3>1, <3>2 DEF Checks
  <2> QED
    BY <2>1, <2>2 DEF Checks
<1>8. packet.lag \in 0 .. MaxLag /\ packet.table \in Kinds /\ First \in Kinds
  BY DEF Checks, First, Kinds
<1>9. TypeOK'
  BY <1>1, <1>3, <1>6, <1>7 DEF TypeOK, Checks
<1>10. \A k \in Kinds : /\ since[k] \in 0 .. AgeCap /\ held[k] \in 0 .. AgeCap
                        /\ since'[k] <= since[k] + 1 /\ since'[k] \in 0 .. AgeCap
                        /\ held'[k] <= held[k] + 1 /\ held'[k] \in 0 .. AgeCap
  BY <1>1, <1>2, <1>3
<1>11. HadIt'
  <2>1. \A k \in Kinds : owner'[k] \in Listed => since'[k] = 0
    BY <1>1
  <2>2. ASSUME NEW k \in Kinds, cache'[k] # None, cache'[k].pid \in Listed
        PROVE  since'[k] <= cache'[k].age + MaxLag
    <3>1. cache[k] # None /\ since[k] <= cache[k].age + MaxLag /\ cache[k].age \in 0 .. AgeCap
      BY <1>4, <1>5, <2>2 DEF HadIt
    <3>2. cache'[k].age = Older(cache[k].age)
      BY <1>4, <3>1
    <3>3. since'[k] \in 0 .. AgeCap /\ since'[k] <= since[k] + 1 /\ since[k] \in Nat
      BY <1>10
    <3>4. cache'[k].age = cache[k].age + 1 \/ (cache[k].age = AgeCap /\ cache'[k].age = AgeCap)
      BY <1>2, <3>1, <3>2
    <3> QED
      BY <3>1, <3>3, <3>4
  <2>3. packet'.pc \in {"store", "match"} => since'[packet.table] <= since[packet.table] + 1
    BY <1>8, <1>10
  <2>4. since[packet.table] \in Nat /\ since'[packet.table] \in Nat
    BY <1>8, <1>10
  <2> QED
    BY <1>7, <1>8, <2>1, <2>2, <2>3, <2>4 DEF HadIt
<1>12. HasIt'
  <2>1. \A k \in Kinds : held'[k] > 0 => owner'[k] \in Listed
    BY <1>1
  <2>2. ASSUME NEW k \in Kinds, cache'[k] # None, held'[k] > cache'[k].age + MaxLag
        PROVE  cache'[k].pid = owner'[k]
    <3>1. cache[k] # None /\ cache'[k].age = Older(cache[k].age) /\ cache[k].age \in 0 .. AgeCap
          /\ cache'[k].pid = cache[k].pid
      BY <1>4, <1>5, <2>2
    <3>2. held[k] > cache[k].age + MaxLag
      BY <1>2, <1>10, <2>2, <3>1
    <3> QED
      BY <1>1, <3>1, <3>2 DEF HasIt
  <2>3. /\ held[packet.table] \in Nat /\ held'[packet.table] \in Nat
        /\ held'[packet.table] <= held[packet.table] + 1
    BY <1>8, <1>10
  <2> QED
    BY <1>1, <1>7, <1>8, <2>1, <2>2, <2>3 DEF HasIt
<1>13. Order'
  <2>1. held[First] \in Nat /\ held'[First] \in Nat /\ held'[First] <= held[First] + 1
    BY <1>8, <1>10
  <2> QED
    BY <1>1, <1>7, <1>8, <2>1 DEF Order, First
<1> QED
  BY <1>9, <1>11, <1>12, <1>13

LEMMA StepInv == IInv /\ [Next]_vars => IInv'
BY PacketInv, LookUpInv, StoreInv, MatchInv, PruneInv, BindInv, TickInv DEF Next

\* The verdict rests on an answer that is not too old, and the answer for a
\* process that has had its port for longer than that is that process.
LEMMA MatchAttributed ==
  ASSUME IInv, Match
  PROVE  Attributed'
<1> USE Types DEF IInv
<1>1. UNCHANGED <<v6, old, owner, since, held, cache>> /\ packet.pc = "match"
  BY DEF Match, Pass
<1>2. PICK named \in BOOLEAN, config \in Configs :
        packet' = [packet EXCEPT !.pc = "done", !.failed = @ \/ ~named, !.config = config,
                     !.verdict = IF named THEN Judged(packet.pid, packet.udp, config) ELSE "DIRECT"]
  BY DEF Match
<1>3. /\ packet'.pc = "done" /\ packet'.udp = packet.udp
      /\ packet'.failed = (packet.failed \/ ~named) /\ packet'.config = config
      /\ packet'.verdict = IF named THEN Judged(packet.pid, packet.udp, config) ELSE "DIRECT"
  BY <1>2 DEF Checks
<1>4. /\ packet.table \in Kinds /\ packet.lag \in 0 .. MaxLag /\ First \in Kinds
      /\ packet.pid \in Procs \cup {None} /\ packet.failed \in BOOLEAN
      /\ Bound = Usable + MaxLag
  BY DEF Checks, First, Kinds, Bound
<1>5. \A k \in Kinds : since[k] \in Nat /\ held[k] \in Nat
  OBVIOUS
<1>6. ASSUME packet'.verdict = "PROXY"
      PROVE  since[packet.table] <= Bound
             /\ (packet.table = First \/ (packet.udp /\ ~v6))
  <2>1. packet.pid \in Listed
    BY <1>3, <1>4, <1>6 DEF Judged, Exempt, Listed
  <2>2. since[packet.table] <= Usable + packet.lag
    BY <1>1, <2>1 DEF HadIt
  <2> QED
    BY <1>1, <1>4, <1>5, <2>2 DEF Order
<1>7. ASSUME held[First] > Bound, ~packet'.failed, packet'.config = "socks5"
      PROVE  packet'.verdict = "PROXY"
  <2>1. named /\ ~packet.failed /\ config = "socks5"
    BY <1>3, <1>4, <1>7
  <2>2. ~(held[First] <= packet.lag) /\ held[First] > Usable + packet.lag /\ held[First] > 0
    BY <1>4, <1>5, <1>7
  <2>3. packet.table = First /\ packet.pid # None
    BY <1>1, <2>1, <2>2 DEF Order
  <2>4. packet.pid = owner[First] /\ owner[First] \in Listed
    BY <1>1, <1>4, <2>2, <2>3 DEF HasIt
  <2>5. Judged(packet.pid, packet.udp, config) = "PROXY"
    BY <2>1, <2>4, ListedFacts DEF Judged, Exempt, Listed
  <2> QED
    BY <1>3, <2>1, <2>5
<1>8. TypeOK'
  BY MatchInv
<1> QED
  BY <1>1, <1>3, <1>4, <1>6, <1>7, <1>8 DEF Attributed, First

\* A check under way gets no verdict but by Match.
LEMMA NotDone ==
  ASSUME IInv,
         \/ \E udp \in BOOLEAN : Packet(udp)
         \/ LookUp \/ Store \/ Tick
         \/ \E k \in Kinds : Unbind(k) \/ \E p \in Procs : Bind(k, p)
  PROVE  packet'.pc # "done"
<1> USE Types DEF IInv
<1>1. ASSUME NEW udp \in BOOLEAN, Packet(udp) PROVE packet'.pc # "done"
  <2> DEFINE c == [NoPacket EXCEPT !.udp = udp]
  <2>1. c \in Checks /\ "udp" \in Kinds /\ "tcp" \in Kinds
    BY NoPacketFacts DEF Checks, Kinds
  <2>2. packet' = Asked(c, "udp") \/ packet' = Asked(c, "tcp")
    BY <1>1 DEF Packet
  <2> HIDE DEF c
  <2> QED
    BY <2>1, <2>2, AskedFacts
<1>2. CASE LookUp
  <2>1. PICK pid \in Procs \cup {None}, failed \in BOOLEAN :
          LET found == [packet EXCEPT !.failed = failed, !.pid = pid]
          IN  \/ packet' = [found EXCEPT !.pc = "match"]
              \/ packet' = [found EXCEPT !.pc = "store"]
              \/ packet' = Asked(found, "tcp")
    <3>1. PICK fails \in BOOLEAN :
            LET pid == IF fails THEN None ELSE owner[packet.table]
                found == [packet EXCEPT !.failed = @ \/ fails, !.pid = pid]
            IN  packet' =
                  IF pid # None THEN [found EXCEPT !.pc = IF v6 THEN "match" ELSE "store"]
                  ELSE IF packet.table = "udp" /\ ~v6 THEN Asked(found, "tcp")
                  ELSE [found EXCEPT !.pc = "match"]
      BY <1>2 DEF LookUp
    <3>2. /\ (IF fails THEN None ELSE owner[packet.table]) \in Procs \cup {None}
          /\ (packet.failed \/ fails) \in BOOLEAN
      BY DEF Checks
    <3> QED
      BY <3>1, <3>2
  <2> DEFINE found == [packet EXCEPT !.failed = failed, !.pid = pid]
  <2>2. found \in Checks /\ "tcp" \in Kinds
    BY DEF Checks, Kinds
  <2>3. \/ packet' = [found EXCEPT !.pc = "match"]
        \/ packet' = [found EXCEPT !.pc = "store"]
        \/ packet' = Asked(found, "tcp")
    BY <2>1
  <2> HIDE DEF found
  <2>4. packet' = Asked(found, "tcp") => packet'.pc # "done"
    BY <2>2, AskedFacts
  <2> QED
    BY <2>2, <2>3, <2>4 DEF Checks
<1>3. CASE Store
  BY <1>3 DEF Store, Checks
<1>4. CASE Tick
  BY <1>4, NoPacketFacts DEF Tick, Checks
<1>5. CASE \E k \in Kinds : Unbind(k) \/ \E p \in Procs : Bind(k, p)
  BY <1>5, NoPacketFacts DEF Unbind, Bind, Forgotten
<1> QED
  BY <1>1, <1>2, <1>3, <1>4, <1>5

\* A packet is proxied only for a process of the list that had its port lately,
\* and a listed process that has kept its port is proxied
\* (check_process_rule with the PID cache); types are kept.
THEOREM AttributedCorrect == Spec => []Attributed
<1>1. Init => Attributed
  BY InitInv DEF Init, Attributed, NoPacket, IInv
<1>2. ASSUME IInv, Attributed, [Next]_vars PROVE Attributed'
  <2>1. TypeOK'
    BY <1>2, StepInv DEF IInv
  <2>2. CASE packet'.pc # "done"
    BY <2>1, <2>2 DEF Attributed
  <2>3. CASE packet'.pc = "done" /\ ~Match
    <3>1. Prune \/ clear_pid_cache \/ UNCHANGED vars
      BY <1>2, <2>3, NotDone DEF Next
    <3>2. UNCHANGED <<v6, since, held, packet>>
      BY <3>1 DEF Prune, clear_pid_cache, vars
    <3> QED
      BY <1>2, <2>1, <3>2 DEF Attributed
  <2> QED
    BY <1>2, <2>2, <2>3, MatchAttributed
<1> QED
  BY <1>1, <1>2, InitInv, StepInv, PTL DEF Spec

-----------------------------------------------------------------------------
(* wildcard_match: rows of the pattern against cuts of the text *)

\* A set of numbers has a least one: what stands for induction here.
LEMMA Least ==
  ASSUME NEW T, T \subseteq Nat, T # {}
  PROVE  \E x \in T : \A y \in T : x <= y
<1>1. PICK x \in T : \A y \in T : ~(<<y, x>> \in OpToRel(<, Nat))
  BY NatLessThanWellFounded, WFMin, Zenon
<1>2. ASSUME NEW y \in T PROVE x <= y
  <2>1. y \in Nat /\ x \in Nat
    OBVIOUS
  <2>2. ~(y < x)
    BY <1>1, <2>1 DEF OpToRel
  <2> QED
    BY <2>1, <2>2
<1> QED
  BY <1>2

\* What the loop does with one more letter of the pattern or of the text.
Row(P, T, g, i) ==
  {j \in 1 .. Len(T) + 1 :
     IF j = Len(T) + 1 THEN \A x \in i .. Len(P) : P[x] = "*"
     ELSE IF i = Len(P) + 1 THEN FALSE
     ELSE IF P[i] = "*"
          THEN LET past == {x \in i .. Len(P) : P[x] # "*"}
               IN  past = {} \/ \E y \in j .. Len(T) : y \in g[CHOOSE x \in past : \A z \in past : x <= z]
     ELSE tolower(P[i]) = tolower(T[j]) /\ j + 1 \in g[i + 1]}

Past(P, i) == {x \in i .. Len(P) : P[x] # "*"}
After(P, i) == CHOOSE x \in Past(P, i) : \A z \in Past(P, i) : x <= z

\* The letter that follows the stars.
LEMMA AfterFacts ==
  ASSUME NEW P, Len(P) \in Nat, NEW i \in Nat, Past(P, i) # {}
  PROVE  /\ After(P, i) \in i .. Len(P) /\ P[After(P, i)] # "*"
         /\ \A z \in i .. After(P, i) - 1 : P[z] = "*"
<1>1. \E x \in Past(P, i) : \A z \in Past(P, i) : x <= z
  <2>1. Past(P, i) \subseteq Nat
    BY DEF Past
  <2> QED
    BY <2>1, Least
<1>2. After(P, i) \in Past(P, i) /\ \A z \in Past(P, i) : After(P, i) <= z
  BY <1>1 DEF After
<1> QED
  BY <1>2 DEF Past

\* The places found for one letter, one rule at a time.
LEMMA RowIs ==
  ASSUME NEW P, NEW T, Len(P) \in Nat, Len(T) \in Nat, NEW g, NEW i \in 1 .. Len(P) + 1,
         NEW j \in 1 .. Len(T) + 1
  PROVE  /\ j = Len(T) + 1 => (j \in Row(P, T, g, i) <=> Past(P, i) = {})
         /\ j # Len(T) + 1 /\ i = Len(P) + 1 => j \notin Row(P, T, g, i)
         /\ j # Len(T) + 1 /\ i # Len(P) + 1 /\ P[i] = "*" =>
              (j \in Row(P, T, g, i) <=>
                 Past(P, i) = {} \/ \E y \in j .. Len(T) : y \in g[After(P, i)])
         /\ j # Len(T) + 1 /\ i # Len(P) + 1 /\ P[i] # "*" =>
              (j \in Row(P, T, g, i) <=> tolower(P[i]) = tolower(T[j]) /\ j + 1 \in g[i + 1])
<1>1. CASE j = Len(T) + 1
  BY <1>1 DEF Row, Past
<1>2. CASE j # Len(T) + 1 /\ i = Len(P) + 1
  BY <1>2 DEF Row
<1>3. CASE j # Len(T) + 1 /\ i # Len(P) + 1 /\ P[i] = "*"
  BY <1>3 DEF Row, Past, After
<1>4. CASE j # Len(T) + 1 /\ i # Len(P) + 1 /\ P[i] # "*"
  BY <1>4 DEF Row
<1> QED
  BY <1>1, <1>2, <1>3, <1>4

LEMMA RowSame ==
  ASSUME NEW P, NEW T, Len(P) \in Nat, Len(T) \in Nat, NEW i \in 1 .. Len(P) + 1, NEW f, NEW g,
         \A h \in i + 1 .. Len(P) + 1 : f[h] = g[h]
  PROVE  Row(P, T, f, i) = Row(P, T, g, i)
<1>1. ASSUME NEW j \in 1 .. Len(T) + 1 PROVE j \in Row(P, T, f, i) <=> j \in Row(P, T, g, i)
  <2>1. CASE j = Len(T) + 1 \/ i = Len(P) + 1
    BY <2>1, RowIs
  <2>2. CASE j # Len(T) + 1 /\ i # Len(P) + 1 /\ P[i] = "*" /\ Past(P, i) # {}
    <3>1. After(P, i) \in i + 1 .. Len(P) + 1
      BY <2>2, AfterFacts
    <3>2. f[After(P, i)] = g[After(P, i)]
      BY <3>1
    <3> QED
      BY <2>2, <3>2, RowIs
  <2>3. CASE j # Len(T) + 1 /\ i # Len(P) + 1 /\ P[i] = "*" /\ Past(P, i) = {}
    BY <2>3, RowIs
  <2>4. CASE j # Len(T) + 1 /\ i # Len(P) + 1 /\ P[i] # "*"
    <3>1. f[i + 1] = g[i + 1]
      BY <2>4
    <3> QED
      BY <2>4, <3>1, RowIs
  <2> QED
    BY <2>1, <2>2, <2>3, <2>4
<1>2. Row(P, T, f, i) \subseteq 1 .. Len(T) + 1 /\ Row(P, T, g, i) \subseteq 1 .. Len(T) + 1
  BY DEF Row
<1> QED
  BY <1>1, <1>2

\* The rows can be computed from the last one up.
LEMMA RowsExist ==
  ASSUME NEW P, NEW T, Len(P) \in Nat, Len(T) \in Nat
  PROVE  \E f : f = [i \in 1 .. Len(P) + 1 |-> Row(P, T, f, i)]
<1> DEFINE n == Len(P) + 1
           From_(d) == n - d .. n
           Built(d) == \E f : /\ f = [i \in From_(d) |-> f[i]]
                              /\ \A i \in From_(d) : f[i] = Row(P, T, f, i)
           Bad == {d \in 0 .. Len(P) : ~Built(d)}
<1>0. n \in Nat /\ n > 0
  OBVIOUS
<1>1. Built(0)
  <2> DEFINE e == [i \in {} |-> {}]
             f == [i \in From_(0) |-> Row(P, T, e, i)]
  <2>1. f = [i \in From_(0) |-> f[i]]
    OBVIOUS
  <2>2. ASSUME NEW i \in From_(0) PROVE f[i] = Row(P, T, f, i)
    <3>1. i = n
      BY <1>0, <2>2
    <3>2. Row(P, T, f, i) = Row(P, T, e, i)
      <4> HIDE DEF f
      <4>1. i \in 1 .. Len(P) + 1 /\ \A h \in i + 1 .. Len(P) + 1 : f[h] = e[h]
        BY <1>0, <3>1
      <4> QED
        BY <4>1, RowSame
    <3> QED
      BY <3>2
  <2> QED
    BY <2>1, <2>2
<1>2. ASSUME NEW d \in 1 .. Len(P), Built(d - 1) PROVE Built(d)
  <2>1. PICK f : /\ f = [i \in From_(d - 1) |-> f[i]]
                 /\ \A i \in From_(d - 1) : f[i] = Row(P, T, f, i)
    BY <1>2
  <2> DEFINE g == [i \in From_(d) |-> IF i = n - d THEN Row(P, T, f, i) ELSE f[i]]
  <2>2. g = [i \in From_(d) |-> g[i]]
    OBVIOUS
  <2>3. ASSUME NEW i \in From_(d) PROVE g[i] = Row(P, T, g, i)
    <3>1. i \in 1 .. Len(P) + 1
      BY <1>0
    <3>2. \A h \in i + 1 .. Len(P) + 1 : g[h] = f[h]
      BY <1>0
    <3>3. Row(P, T, g, i) = Row(P, T, f, i)
      <4> HIDE DEF g
      <4> QED
        BY <3>1, <3>2, RowSame
    <3>4. g[i] = IF i = n - d THEN Row(P, T, f, i) ELSE f[i]
      OBVIOUS
    <3>5. i # n - d => i \in From_(d - 1)
      BY <1>0
    <3> QED
      BY <2>1, <3>3, <3>4, <3>5
  <2> HIDE DEF g
  <2> QED
    BY <2>2, <2>3
<1> HIDE DEF Built
<1>3. Bad = {}
  <2> SUFFICES ASSUME Bad # {} PROVE FALSE
    OBVIOUS
  <2>1. Bad \subseteq Nat
    OBVIOUS
  <2>2. PICK d \in Bad : \A y \in Bad : d <= y
    BY <2>1, Least
  <2>3. d \in 1 .. Len(P) /\ ~Built(d)
    BY <1>1, <2>2
  <2>4. Built(d - 1)
    BY <2>2, <2>3
  <2> QED
    BY <1>2, <2>3, <2>4
<1>4. Built(Len(P))
  BY <1>3
<1>5. PICK f : /\ f = [i \in From_(Len(P)) |-> f[i]]
               /\ \A i \in From_(Len(P)) : f[i] = Row(P, T, f, i)
  BY <1>4 DEF Built
<1>6. From_(Len(P)) = 1 .. Len(P) + 1
  OBVIOUS
<1>7. f = [i \in 1 .. Len(P) + 1 |-> Row(P, T, f, i)]
  <2> HIDE DEF From_
  <2> QED
    BY <1>5, <1>6
<1> QED
  BY <1>7

\* wildcard_match is what the rows say.
LEMMA WildcardIs ==
  ASSUME NEW P, NEW T, Len(P) \in Nat, Len(T) \in Nat
  PROVE  \E m : /\ \A i \in 1 .. Len(P) + 1 : m[i] = Row(P, T, m, i)
                /\ wildcard_match(P, T) <=> 1 \in m[1]
<1> DEFINE m == CHOOSE g : g = [i \in 1 .. Len(P) + 1 |-> Row(P, T, g, i)]
<1>1. PICK f : f = [i \in 1 .. Len(P) + 1 |-> Row(P, T, f, i)]
  BY RowsExist
<1>2. m = [i \in 1 .. Len(P) + 1 |-> Row(P, T, m, i)]
  BY <1>1, Zenon
<1>3. wildcard_match(P, T) <=> 1 \in m[1]
  BY DEF wildcard_match, Row
<1> HIDE DEF m
<1>4. \A i \in 1 .. Len(P) + 1 : m[i] = Row(P, T, m, i)
  BY <1>2
<1> QED
  BY <1>3, <1>4

\* cut divides what follows a piece by piece, x being the letter of the pattern.
Piece(P, T, cut, x) ==
  IF P[x] = "*" THEN cut[x] >= cut[x - 1]
  ELSE cut[x] = cut[x - 1] + 1 /\ tolower(T[cut[x]]) = tolower(P[x])

Cut(P, T, cut, i, j) ==
  /\ cut \in [i - 1 .. Len(P) -> 0 .. Len(T)]
  /\ cut[i - 1] = j - 1 /\ cut[Len(P)] = Len(T)
  /\ \A x \in i .. Len(P) : Piece(P, T, cut, x)

Cuttable(P, T, i, j) == \E cut : Cut(P, T, cut, i, j)

\* Cuts do not go back.
LEMMA CutRises ==
  ASSUME NEW P, NEW T, Len(P) \in Nat, Len(T) \in Nat, NEW i \in 1 .. Len(P) + 1, NEW j,
         NEW cut, Cut(P, T, cut, i, j), NEW s \in i - 1 .. Len(P)
  PROVE  \A t \in s .. Len(P) : cut[s] <= cut[t]
<1> DEFINE Bad == {t \in s .. Len(P) : ~(cut[s] <= cut[t])}
<1>0. \A t \in i - 1 .. Len(P) : cut[t] \in Nat
  BY DEF Cut
<1> SUFFICES ASSUME Bad # {} PROVE FALSE
  OBVIOUS
<1>1. Bad \subseteq Nat
  OBVIOUS
<1>2. PICK t \in Bad : \A y \in Bad : t <= y
  BY <1>1, Least
<1>3. t # s
  BY <1>0
<1>4. t - 1 \in s .. Len(P) /\ t \in i .. Len(P) /\ t - 1 \in Nat
  BY <1>3
<1>5. t - 1 \notin Bad
  BY <1>2, <1>4
<1>6. cut[s] <= cut[t - 1]
  BY <1>4, <1>5
<1>7. cut[t - 1] <= cut[t]
  BY <1>0, <1>4 DEF Cut, Piece
<1> QED
  BY <1>0, <1>2, <1>4, <1>6, <1>7

\* At the end of the text only stars are left.
LEMMA CutAtEnd ==
  ASSUME NEW P, NEW T, Len(P) \in Nat, Len(T) \in Nat, NEW i \in 1 .. Len(P) + 1
  PROVE  Cuttable(P, T, i, Len(T) + 1) <=> Past(P, i) = {}
<1>1. ASSUME Past(P, i) = {} PROVE Cuttable(P, T, i, Len(T) + 1)
  <2> DEFINE cut == [x \in i - 1 .. Len(P) |-> Len(T)]
  <2>1. Cut(P, T, cut, i, Len(T) + 1)
    BY <1>1 DEF Cut, Piece, Past
  <2> QED
    BY <2>1 DEF Cuttable
<1>2. ASSUME Past(P, i) # {}, NEW cut, Cut(P, T, cut, i, Len(T) + 1) PROVE FALSE
  <2>1. PICK x \in i .. Len(P) : P[x] # "*"
    BY <1>2 DEF Past
  <2>2. cut[x] = cut[x - 1] + 1
    BY <1>2, <2>1 DEF Cut, Piece
  <2>3. cut[i - 1] <= cut[x - 1]
    BY <1>2, CutRises
  <2> QED
    BY <1>2, <2>2, <2>3 DEF Cut
<1> QED
  BY <1>1, <1>2 DEF Cuttable

\* With no pattern left, only the end of the text is reached.
LEMMA CutOfNothing ==
  ASSUME NEW P, NEW T, Len(P) \in Nat, Len(T) \in Nat, NEW j \in 1 .. Len(T)
  PROVE  ~Cuttable(P, T, Len(P) + 1, j)
BY DEF Cuttable, Cut

\* A letter takes itself.
LEMMA CutOfLetter ==
  ASSUME NEW P, NEW T, Len(P) \in Nat, Len(T) \in Nat, NEW i \in 1 .. Len(P), NEW j \in 1 .. Len(T),
         P[i] # "*"
  PROVE  Cuttable(P, T, i, j) <=>
           tolower(P[i]) = tolower(T[j]) /\ Cuttable(P, T, i + 1, j + 1)
<1>1. ASSUME NEW cut, Cut(P, T, cut, i, j)
      PROVE  tolower(P[i]) = tolower(T[j]) /\ Cuttable(P, T, i + 1, j + 1)
  <2>1. Piece(P, T, cut, i) /\ cut[i - 1] = j - 1
    BY <1>1 DEF Cut
  <2>2. cut[i] = j /\ tolower(P[i]) = tolower(T[j])
    BY <2>1 DEF Piece
  <2> DEFINE rest == [x \in i .. Len(P) |-> cut[x]]
  <2>3. Cut(P, T, rest, i + 1, j + 1)
    <3>1. rest \in [(i + 1) - 1 .. Len(P) -> 0 .. Len(T)]
      BY <1>1 DEF Cut
    <3>2. rest[(i + 1) - 1] = (j + 1) - 1 /\ rest[Len(P)] = Len(T)
      BY <1>1, <2>2 DEF Cut
    <3>3. ASSUME NEW x \in i + 1 .. Len(P) PROVE Piece(P, T, rest, x)
      <4>1. rest[x] = cut[x] /\ rest[x - 1] = cut[x - 1] /\ Piece(P, T, cut, x)
        BY <1>1 DEF Cut
      <4> HIDE DEF rest
      <4> QED
        BY <4>1 DEF Piece
    <3> QED
      BY <3>1, <3>2, <3>3 DEF Cut
  <2> QED
    BY <2>2, <2>3 DEF Cuttable
<1>2. ASSUME tolower(P[i]) = tolower(T[j]), NEW rest, Cut(P, T, rest, i + 1, j + 1)
      PROVE  Cuttable(P, T, i, j)
  <2> DEFINE cut == [x \in i - 1 .. Len(P) |-> IF x = i - 1 THEN j - 1 ELSE rest[x]]
  <2>1. /\ rest \in [i .. Len(P) -> 0 .. Len(T)]
        /\ rest[i] = j /\ rest[Len(P)] = Len(T)
        /\ \A x \in i + 1 .. Len(P) : Piece(P, T, rest, x)
    <3>1. (i + 1) - 1 = i /\ (j + 1) - 1 = j
      OBVIOUS
    <3> QED
      BY <1>2, <3>1 DEF Cut
  <2>2. cut \in [i - 1 .. Len(P) -> 0 .. Len(T)]
    BY <2>1
  <2>3. cut[i - 1] = j - 1 /\ cut[Len(P)] = Len(T)
    BY <2>1
  <2>4. ASSUME NEW x \in i .. Len(P) PROVE Piece(P, T, cut, x)
    <3>1. CASE x = i
      <4>1. cut[i] = j /\ cut[i - 1] = j - 1
        BY <2>1
      <4> HIDE DEF cut
      <4> QED
        BY <1>2, <3>1, <4>1 DEF Piece
    <3>2. CASE x # i
      <4>1. cut[x] = rest[x] /\ cut[x - 1] = rest[x - 1] /\ Piece(P, T, rest, x)
        BY <2>1, <3>2
      <4> HIDE DEF cut
      <4> QED
        BY <4>1 DEF Piece
    <3> QED
      BY <3>1, <3>2
  <2>5. Cut(P, T, cut, i, j)
    BY <2>2, <2>3, <2>4 DEF Cut
  <2> QED
    BY <2>5 DEF Cuttable
<1> QED
  BY <1>1, <1>2 DEF Cuttable

\* A row of stars takes any piece.
LEMMA CutOfStar ==
  ASSUME NEW P, NEW T, Len(P) \in Nat, Len(T) \in Nat, NEW i \in 1 .. Len(P), NEW j \in 1 .. Len(T),
         P[i] = "*"
  PROVE  Cuttable(P, T, i, j) <=>
           Past(P, i) = {} \/ \E y \in j .. Len(T) : Cuttable(P, T, After(P, i), y)
<1>1. ASSUME Past(P, i) = {} PROVE Cuttable(P, T, i, j)
  <2> DEFINE cut == [x \in i - 1 .. Len(P) |-> IF x = i - 1 THEN j - 1 ELSE Len(T)]
  <2>1. Cut(P, T, cut, i, j)
    BY <1>1 DEF Cut, Piece, Past
  <2> QED
    BY <2>1 DEF Cuttable
<1>2. ASSUME Past(P, i) # {} PROVE Cuttable(P, T, i, j) <=> \E y \in j .. Len(T) : Cuttable(P, T, After(P, i), y)
  <2> DEFINE a == After(P, i)
  <2>1. a \in i + 1 .. Len(P) /\ P[a] # "*" /\ \A z \in i .. a - 1 : P[z] = "*"
    BY <1>2, AfterFacts
  <2> HIDE DEF a
  <2>2. ASSUME NEW cut, Cut(P, T, cut, i, j) PROVE \E y \in j .. Len(T) : Cuttable(P, T, a, y)
    <3> DEFINE y == cut[a - 1] + 1
               rest == [x \in a - 1 .. Len(P) |-> cut[x]]
    <3>1. /\ cut \in [i - 1 .. Len(P) -> 0 .. Len(T)]
          /\ cut[i - 1] = j - 1 /\ cut[Len(P)] = Len(T)
          /\ \A x \in i .. Len(P) : Piece(P, T, cut, x)
      BY <2>2 DEF Cut
    <3>2. cut[i - 1] <= cut[a - 1]
      BY <2>1, <2>2, CutRises
    <3>3. cut[a] = cut[a - 1] + 1
      BY <2>1, <3>1 DEF Piece
    <3>4. y \in j .. Len(T)
      BY <2>1, <3>1, <3>2, <3>3
    <3>5. rest \in [a - 1 .. Len(P) -> 0 .. Len(T)]
      BY <2>1, <3>1
    <3>6. rest[a - 1] = y - 1 /\ rest[Len(P)] = Len(T)
      BY <2>1, <3>1
    <3>7. ASSUME NEW x \in a .. Len(P) PROVE Piece(P, T, rest, x)
      <4>1. rest[x] = cut[x] /\ rest[x - 1] = cut[x - 1] /\ Piece(P, T, cut, x)
        BY <2>1, <3>1
      <4> HIDE DEF rest
      <4> QED
        BY <4>1 DEF Piece
    <3>8. Cut(P, T, rest, a, y)
      <4> HIDE DEF y, rest
      <4> QED
        BY <3>5, <3>6, <3>7 DEF Cut
    <3> QED
      BY <3>4, <3>8 DEF Cuttable
  <2>3. ASSUME NEW y \in j .. Len(T), NEW rest, Cut(P, T, rest, a, y) PROVE Cuttable(P, T, i, j)
    <3> DEFINE cut == [x \in i - 1 .. Len(P) |->
                         IF x = i - 1 THEN j - 1 ELSE IF x < a THEN y - 1 ELSE rest[x]]
    <3>1. /\ rest \in [a - 1 .. Len(P) -> 0 .. Len(T)]
          /\ rest[a - 1] = y - 1 /\ rest[Len(P)] = Len(T)
          /\ \A x \in a .. Len(P) : Piece(P, T, rest, x)
      BY <2>3 DEF Cut
    <3>2. cut \in [i - 1 .. Len(P) -> 0 .. Len(T)]
      <4> SUFFICES ASSUME NEW x \in i - 1 .. Len(P) PROVE cut[x] \in 0 .. Len(T)
        OBVIOUS
      <4> QED
        BY <2>1, <3>1
    <3>3. cut[i - 1] = j - 1 /\ cut[Len(P)] = Len(T)
      BY <2>1, <3>1
    <3>4. ASSUME NEW x \in i .. Len(P) PROVE Piece(P, T, cut, x)
      <4>1. CASE x < a
        <5>1. cut[x] = y - 1 /\ cut[x - 1] \in {y - 1, j - 1} /\ P[x] = "*"
          BY <2>1, <4>1
        <5> HIDE DEF cut
        <5> QED
          BY <5>1 DEF Piece
      <4>2. CASE x >= a
        <5>1. cut[x] = rest[x] /\ Piece(P, T, rest, x)
          BY <2>1, <3>1, <4>2
        <5>2. cut[x - 1] = rest[x - 1]
          <6>1. CASE x = a
            BY <2>1, <3>1, <6>1
          <6>2. CASE x # a
            BY <2>1, <4>2, <6>2
          <6> QED
            BY <6>1, <6>2
        <5> HIDE DEF cut
        <5> QED
          BY <5>1, <5>2 DEF Piece
      <4> QED
        BY <2>1, <4>1, <4>2
    <3>5. Cut(P, T, cut, i, j)
      <4> HIDE DEF cut
      <4> QED
        BY <3>2, <3>3, <3>4 DEF Cut
    <3> QED
      BY <3>5 DEF Cuttable
  <2> QED
    BY <2>2, <2>3 DEF Cuttable, a
<1> QED
  BY <1>1, <1>2

\* The loop finds the places from which the text can be cut.
LEMMA RowsRight ==
  ASSUME NEW P, NEW T, Len(P) \in Nat, Len(T) \in Nat, NEW m,
         \A i \in 1 .. Len(P) + 1 : m[i] = Row(P, T, m, i)
  PROVE  \A i \in 1 .. Len(P) + 1, j \in 1 .. Len(T) + 1 : j \in m[i] <=> Cuttable(P, T, i, j)
<1> DEFINE Good(i) == \A j \in 1 .. Len(T) + 1 : j \in m[i] <=> Cuttable(P, T, i, j)
           Bad == {d \in 0 .. Len(P) : ~Good(Len(P) + 1 - d)}
<1>1. ASSUME NEW i \in 1 .. Len(P) + 1, \A h \in i + 1 .. Len(P) + 1 : Good(h) PROVE Good(i)
  <2> TAKE j \in 1 .. Len(T) + 1
  <2>0. m[i] = Row(P, T, m, i)
    OBVIOUS
  <2>1. CASE j = Len(T) + 1
    BY <2>0, <2>1, RowIs, CutAtEnd
  <2>2. CASE j # Len(T) + 1 /\ i = Len(P) + 1
    BY <2>0, <2>2, RowIs, CutOfNothing
  <2>3. CASE j # Len(T) + 1 /\ i # Len(P) + 1 /\ P[i] = "*" /\ Past(P, i) # {}
    <3>1. After(P, i) \in i + 1 .. Len(P) + 1
      BY <2>3, AfterFacts
    <3>2. \A y \in j .. Len(T) : y \in m[After(P, i)] <=> Cuttable(P, T, After(P, i), y)
      BY <1>1, <3>1
    <3> HIDE DEF Good
    <3>3. i \in 1 .. Len(P) /\ j \in 1 .. Len(T)
      BY <2>3
    <3> QED
      BY <2>0, <2>3, <3>2, <3>3, RowIs, CutOfStar
  <2>4. CASE j # Len(T) + 1 /\ i # Len(P) + 1 /\ P[i] = "*" /\ Past(P, i) = {}
    <3>3. i \in 1 .. Len(P) /\ j \in 1 .. Len(T)
      BY <2>4
    <3> QED
      BY <2>0, <2>4, <3>3, RowIs, CutOfStar
  <2>5. CASE j # Len(T) + 1 /\ i # Len(P) + 1 /\ P[i] # "*"
    <3>1. i \in 1 .. Len(P) /\ j \in 1 .. Len(T) /\ i + 1 \in i + 1 .. Len(P) + 1 /\ j + 1 \in 1 .. Len(T) + 1
      BY <2>5
    <3>2. j + 1 \in m[i + 1] <=> Cuttable(P, T, i + 1, j + 1)
      BY <1>1, <3>1
    <3> HIDE DEF Good
    <3> QED
      BY <2>0, <2>5, <3>1, <3>2, RowIs, CutOfLetter
  <2> QED
    BY <2>1, <2>2, <2>3, <2>4, <2>5
<1> HIDE DEF Good
<1>2. Bad = {}
  <2> SUFFICES ASSUME Bad # {} PROVE FALSE
    OBVIOUS
  <2>1. Bad \subseteq Nat
    OBVIOUS
  <2>2. PICK d \in Bad : \A y \in Bad : d <= y
    BY <2>1, Least
  <2> DEFINE i == Len(P) + 1 - d
  <2>3. i \in 1 .. Len(P) + 1 /\ ~Good(i)
    BY <2>2
  <2>4. ASSUME NEW h \in i + 1 .. Len(P) + 1 PROVE Good(h)
    <3>1. Len(P) + 1 - h \in 0 .. Len(P) /\ Len(P) + 1 - h < d /\ Len(P) + 1 - (Len(P) + 1 - h) = h
      BY <2>2
    <3>2. Len(P) + 1 - h \notin Bad
      BY <2>2, <3>1
    <3> QED
      BY <3>1, <3>2
  <2> HIDE DEF i
  <2> QED
    BY <1>1, <2>3, <2>4
<1>3. ASSUME NEW i \in 1 .. Len(P) + 1 PROVE Good(i)
  <2>1. Len(P) + 1 - i \in 0 .. Len(P) /\ Len(P) + 1 - (Len(P) + 1 - i) = i
    OBVIOUS
  <2> QED
    BY <1>2, <2>1
<1> QED
  BY <1>3 DEF Good

\* Texts have a length.
LEMMA LengthOfText ==
  ASSUME NEW letters, NEW n, NEW text \in Texts(letters, n)
  PROVE  Len(text) \in Nat
<1>1. PICK k \in 0 .. n : text \in [1 .. k -> letters]
  BY DEF Texts
<1>2. k \in Nat
  BY <1>1
<1>3. text \in Seq(letters)
  BY <1>1, <1>2
<1> QED
  BY <1>3

\* wildcard_match takes exactly the names that can be cut into pieces for the
\* letters of the pattern, for any alphabet and any lengths.
THEOREM WildcardsMatch == WildcardsRight
<1> SUFFICES ASSUME NEW pattern \in Texts(Letters \cup {"*"}, MaxLength), NEW text \in Texts(Letters, MaxLength)
    PROVE  wildcard_match(pattern, text) <=>
             \E cut \in [0 .. Len(pattern) -> 0 .. Len(text)] :
               /\ cut[0] = 0 /\ cut[Len(pattern)] = Len(text)
               /\ \A i \in 1 .. Len(pattern) : Piece(pattern, text, cut, i)
  BY DEF WildcardsRight, Piece
<1>1. Len(pattern) \in Nat /\ Len(text) \in Nat
  BY LengthOfText
<1>2. PICK m : /\ \A i \in 1 .. Len(pattern) + 1 : m[i] = Row(pattern, text, m, i)
               /\ wildcard_match(pattern, text) <=> 1 \in m[1]
  BY <1>1, WildcardIs
<1>3. 1 \in m[1] <=> Cuttable(pattern, text, 1, 1)
  <2>1. 1 \in 1 .. Len(pattern) + 1 /\ 1 \in 1 .. Len(text) + 1
    BY <1>1
  <2>2. \A i \in 1 .. Len(pattern) + 1, j \in 1 .. Len(text) + 1 : j \in m[i] <=> Cuttable(pattern, text, i, j)
    BY <1>1, <1>2, RowsRight
  <2> QED
    BY <2>1, <2>2
<1>4. 1 - 1 = 0
  OBVIOUS
<1> QED
  BY <1>2, <1>3, <1>4 DEF Cuttable, Cut

-----------------------------------------------------------------------------
(* parse_token_list and match_process_list: pieces of lists and their cleaning *)

\* The letters between entries and around them.
Blank == " "
Quote == "\""
Comma == ","
Semicolon == ";"

\* A piece of a list is the text t if it has its length and its letters.
LEMMA PieceIs ==
  ASSUME NEW S, NEW t \in Seq(S), NEW list, NEW s \in Int, NEW e \in Int,
         (e - s) + 1 = Len(t), \A i \in 1 .. Len(t) : list[(s + i) - 1] = t[i]
  PROVE  SubSeq(list, s, e) = t
<1>1. Len(t) \in Nat /\ \A i \in 1 .. Len(t) : t[i] \in S
  BY LenProperties, ElementOfSeq
<1>2. \A i \in s .. e : list[i] \in S
  <2> TAKE i \in s .. e
  <2> DEFINE j == (i - s) + 1
  <2>1. j \in 1 .. Len(t) /\ (s + j) - 1 = i
    BY <1>1
  <2> HIDE DEF j
  <2> QED
    BY <1>1, <2>1
<1> DEFINE u == SubSeq(list, s, e)
<1>3. /\ u \in Seq(S)
      /\ Len(u) = IF s <= e THEN e - s + 1 ELSE 0
      /\ \A i \in 1 .. e - s + 1 : u[i] = list[s + i - 1]
  BY <1>2, SubSeqProperties
<1> HIDE DEF u
<1>4. Len(u) = Len(t)
  BY <1>1, <1>3
<1>5. \A i \in 1 .. Len(u) : u[i] = t[i]
  BY <1>1, <1>3, <1>4
<1>6. u = t
  BY <1>3, <1>4, <1>5, SeqEqual
<1> QED
  BY <1>6 DEF u

\* The pieces of a list whose letters from s to e are no delimiters, and all
\* others are.
LEMMA TokenIs ==
  ASSUME NEW S, NEW list \in Seq(S), NEW D, NEW s \in 1 .. Len(list), NEW e \in s .. Len(list),
         \A i \in 1 .. Len(list) : list[i] \in D <=> i < s \/ i > e
  PROVE  Tokens(list, D) = {SubSeq(list, s, e)}
<1> DEFINE n == Len(list)
           bare(i, j) == \A x \in i .. j : list[x] \notin D
           edge(i) == i \in {0, n + 1} \/ list[i] \in D
           P == {q \in (1 .. n) \X (1 .. n) :
                   q[1] <= q[2] /\ bare(q[1], q[2]) /\ edge(q[1] - 1) /\ edge(q[2] + 1)}
<1>0. n \in Nat
  BY LenProperties
<1>1. Tokens(list, D) = {SubSeq(list, p[1], p[2]) : p \in P}
  BY DEF Tokens
<1>2. <<s, e>> \in P
  BY <1>0
<1>3. ASSUME NEW i \in 1 .. n, NEW j \in 1 .. n, i <= j, bare(i, j), edge(i - 1), edge(j + 1)
      PROVE  i = s /\ j = e
  <2>1. s <= i /\ i <= e /\ s <= j /\ j <= e
    BY <1>0, <1>3
  <2>2. i = s
    <3> SUFFICES ASSUME i # s PROVE FALSE
      OBVIOUS
    <3>1. i - 1 \in 1 .. n /\ ~(i - 1 < s) /\ ~(i - 1 > e) /\ i - 1 # 0 /\ i - 1 # n + 1
      BY <1>0, <2>1
    <3> QED
      BY <1>3, <3>1
  <2>3. j = e
    <3> SUFFICES ASSUME j # e PROVE FALSE
      OBVIOUS
    <3>1. j + 1 \in 1 .. n /\ ~(j + 1 < s) /\ ~(j + 1 > e) /\ j + 1 # 0 /\ j + 1 # n + 1
      BY <1>0, <2>1
    <3> QED
      BY <1>3, <3>1
  <2> QED
    BY <2>2, <2>3
<1>4. P = {<<s, e>>}
  <2>1. ASSUME NEW q \in P PROVE q = <<s, e>>
    <3>1. q[1] \in 1 .. n /\ q[2] \in 1 .. n /\ q = <<q[1], q[2]>>
      OBVIOUS
    <3>2. q[1] <= q[2] /\ bare(q[1], q[2]) /\ edge(q[1] - 1) /\ edge(q[2] + 1)
      OBVIOUS
    <3> QED
      BY <1>3, <3>1, <3>2
  <2> HIDE DEF P
  <2> QED
    BY <1>2, <2>1
<1> HIDE DEF P
<1> QED
  BY <1>1, <1>4

\* The same for two runs of letters that are no delimiters.
TwoRuns(list, D, s1, e1, s2, e2) ==
  /\ {s1, e1, s2, e2} \subseteq Int
  /\ 1 <= s1 /\ s1 <= e1 /\ e1 + 1 < s2 /\ s2 <= e2 /\ e2 <= Len(list)
  /\ \A i \in 1 .. Len(list) : list[i] \in D <=> i < s1 \/ (i > e1 /\ i < s2) \/ i > e2

LEMMA TwoTokensAre ==
  ASSUME NEW S, NEW list \in Seq(S), NEW D, NEW s1, NEW e1, NEW s2, NEW e2,
         TwoRuns(list, D, s1, e1, s2, e2)
  PROVE  \A t : t \in Tokens(list, D) <=> t = SubSeq(list, s1, e1) \/ t = SubSeq(list, s2, e2)
<1> DEFINE n == Len(list)
           bare(i, j) == \A x \in i .. j : list[x] \notin D
           edge(i) == i \in {0, n + 1} \/ list[i] \in D
           P == {q \in (1 .. n) \X (1 .. n) :
                   q[1] <= q[2] /\ bare(q[1], q[2]) /\ edge(q[1] - 1) /\ edge(q[2] + 1)}
<1>0. /\ n \in Nat /\ s1 \in Int /\ e1 \in Int /\ s2 \in Int /\ e2 \in Int
      /\ 1 <= s1 /\ s1 <= e1 /\ e1 + 1 < s2 /\ s2 <= e2 /\ e2 <= n
  BY LenProperties DEF TwoRuns
<1>9. \A i \in 1 .. n : list[i] \in D <=> i < s1 \/ (i > e1 /\ i < s2) \/ i > e2
  BY DEF TwoRuns
<1>1. Tokens(list, D) = {SubSeq(list, p[1], p[2]) : p \in P}
  BY DEF Tokens
<1>2. <<s1, e1>> \in P /\ <<s2, e2>> \in P
  <2>1. s1 \in 1 .. n /\ e1 \in 1 .. n /\ s1 <= e1 /\ s2 \in 1 .. n /\ e2 \in 1 .. n /\ s2 <= e2
    BY <1>0
  <2>2. bare(s1, e1)
    BY <1>0, <1>9
  <2>3. bare(s2, e2)
    BY <1>0, <1>9
  <2>4. edge(s1 - 1)
    BY <1>0, <1>9
  <2>5. edge(e1 + 1)
    BY <1>0, <1>9
  <2>6. edge(s2 - 1)
    BY <1>0, <1>9
  <2>7. edge(e2 + 1)
    BY <1>0, <1>9
  <2> HIDE DEF bare, edge
  <2> QED
    BY <2>1, <2>2, <2>3, <2>4, <2>5, <2>6, <2>7
<1>3. ASSUME NEW i \in 1 .. n, NEW j \in 1 .. n, i <= j, bare(i, j), edge(i - 1), edge(j + 1)
      PROVE  (i = s1 /\ j = e1) \/ (i = s2 /\ j = e2)
  <2>1. (s1 <= i /\ i <= e1) \/ (s2 <= i /\ i <= e2)
    BY <1>0, <1>3, <1>9
  <2>2. (s1 <= j /\ j <= e1) \/ (s2 <= j /\ j <= e2)
    BY <1>0, <1>3, <1>9
  <2>3. i = s1 \/ i = s2
    <3> SUFFICES ASSUME i # s1, i # s2 PROVE FALSE
      OBVIOUS
    <3>1. i - 1 \in 1 .. n /\ i - 1 # 0 /\ i - 1 # n + 1
      BY <1>0, <2>1
    <3>2. ~(i - 1 < s1 \/ (i - 1 > e1 /\ i - 1 < s2) \/ i - 1 > e2)
      BY <1>0, <2>1
    <3> QED
      BY <1>3, <1>9, <3>1, <3>2
  <2>4. j = e1 \/ j = e2
    <3> SUFFICES ASSUME j # e1, j # e2 PROVE FALSE
      OBVIOUS
    <3>1. j + 1 \in 1 .. n /\ j + 1 # 0 /\ j + 1 # n + 1
      BY <1>0, <2>2
    <3>2. ~(j + 1 < s1 \/ (j + 1 > e1 /\ j + 1 < s2) \/ j + 1 > e2)
      BY <1>0, <2>2
    <3> QED
      BY <1>3, <1>9, <3>1, <3>2
  <2>5. ~(i = s1 /\ j = e2)
    <3>1. e1 + 1 \in 1 .. n /\ list[e1 + 1] \in D
      BY <1>0, <1>9
    <3>2. i = s1 /\ j = e2 => e1 + 1 \in i .. j
      BY <1>0
    <3> QED
      BY <1>3, <3>1, <3>2
  <2>6. ~(i = s2 /\ j = e1)
    BY <1>0, <1>3
  <2> QED
    BY <2>3, <2>4, <2>5, <2>6
<1>4. P = {<<s1, e1>>, <<s2, e2>>}
  <2>1. ASSUME NEW q \in P PROVE q = <<s1, e1>> \/ q = <<s2, e2>>
    <3>1. q[1] \in 1 .. n /\ q[2] \in 1 .. n /\ q = <<q[1], q[2]>>
      OBVIOUS
    <3>2. q[1] <= q[2] /\ bare(q[1], q[2]) /\ edge(q[1] - 1) /\ edge(q[2] + 1)
      OBVIOUS
    <3> QED
      BY <1>3, <3>1, <3>2
  <2> HIDE DEF P
  <2> QED
    BY <1>2, <2>1
<1> HIDE DEF P
<1>5. {SubSeq(list, p[1], p[2]) : p \in P} = {SubSeq(list, s1, e1), SubSeq(list, s2, e2)}
  <2> DEFINE f(p) == SubSeq(list, p[1], p[2])
  <2>1. f(<<s1, e1>>) = SubSeq(list, s1, e1) /\ f(<<s2, e2>>) = SubSeq(list, s2, e2)
    OBVIOUS
  <2> HIDE DEF f
  <2>2. {f(p) : p \in P} = {f(<<s1, e1>>), f(<<s2, e2>>)}
    BY <1>4
  <2>3. {f(p) : p \in P} = {SubSeq(list, s1, e1), SubSeq(list, s2, e2)}
    BY <2>1, <2>2
  <2> QED
    BY <2>3 DEF f
<1> QED
  BY <1>1, <1>5

-----------------------------------------------------------------------------

\* The blanks in front go.
LEMMA SkipIs ==
  ASSUME NEW S, NEW t \in Seq(S), NEW n \in 0 .. Len(t),
         \A i \in 1 .. n : t[i] = Blank, n < Len(t) => t[n + 1] # Blank
  PROVE  skip_whitespace(t) = SubSeq(t, n + 1, Len(t))
<1>0. Len(t) \in Nat /\ DOMAIN t = 1 .. Len(t)
  BY LenProperties
<1>1. {i \in DOMAIN t : \A j \in 1 .. i : t[j] = Blank} = 1 .. n
  <2>1. ASSUME NEW i \in 1 .. Len(t), \A j \in 1 .. i : t[j] = Blank PROVE i \in 1 .. n
    <3> SUFFICES ASSUME i > n PROVE FALSE
      BY <1>0
    <3>1. n + 1 \in 1 .. i /\ n < Len(t)
      BY <1>0
    <3> QED
      BY <2>1, <3>1
  <2>2. ASSUME NEW i \in 1 .. n PROVE i \in 1 .. Len(t) /\ \A j \in 1 .. i : t[j] = Blank
    BY <1>0
  <2> QED
    BY <1>0, <2>1, <2>2
<1>2. Cardinality(1 .. n) = n
  <2>1. Cardinality(1 .. n) = IF 1 > n THEN 0 ELSE n - 1 + 1
    BY <1>0, FS_Interval
  <2> QED
    BY <1>0, <2>1
<1>3. skip_whitespace(t) = From(t, Cardinality({i \in DOMAIN t : \A j \in 1 .. i : t[j] = Blank}))
  BY Zenon DEF skip_whitespace, Blank
<1> QED
  BY <1>1, <1>2, <1>3 DEF From

\* The blanks at the end go.
LEMMA TrimIs ==
  ASSUME NEW S, NEW t \in Seq(S), NEW n \in 1 .. Len(t),
         t[n] # Blank, \A i \in n + 1 .. Len(t) : t[i] = Blank
  PROVE  Trimmed(t) = SubSeq(t, 1, n)
<1>0. Len(t) \in Nat /\ DOMAIN t = 1 .. Len(t)
  BY LenProperties
<1>1. {i \in DOMAIN t : i = 1 \/ \E j \in i .. Len(t) : t[j] # Blank} = 1 .. n
  <2>1. ASSUME NEW i \in 1 .. Len(t), i = 1 \/ \E j \in i .. Len(t) : t[j] # Blank PROVE i \in 1 .. n
    <3>1. CASE i = 1
      BY <3>1, <1>0
    <3>2. CASE \E j \in i .. Len(t) : t[j] # Blank
      <4>1. PICK j \in i .. Len(t) : t[j] # Blank
        BY <3>2
      <4> QED
        BY <1>0, <4>1
    <3> QED
      BY <2>1, <3>1, <3>2
  <2>2. ASSUME NEW i \in 1 .. n PROVE i \in 1 .. Len(t) /\ \E j \in i .. Len(t) : t[j] # Blank
    <3>1. n \in i .. Len(t)
      BY <1>0
    <3> QED
      BY <1>0, <3>1
  <2> QED
    BY <1>0, <2>1, <2>2
<1>2. Cardinality(1 .. n) = n
  <2>1. Cardinality(1 .. n) = IF 1 > n THEN 0 ELSE n - 1 + 1
    BY <1>0, FS_Interval
  <2> QED
    BY <1>0, <2>1
<1>3. Trimmed(t) = SubSeq(t, 1, Cardinality({i \in DOMAIN t : i = 1 \/ \E j \in i .. Len(t) : t[j] # Blank}))
  BY Zenon DEF Trimmed, Blank
<1> QED
  BY <1>1, <1>2, <1>3

\* What is between quotes stays.
LEMMA UnquoteIs ==
  ASSUME NEW S, NEW t \in Seq(S), Len(t) > 1, t[1] = Quote, NEW n \in 2 .. Len(t), t[n] = Quote,
         \A i \in 2 .. n - 1 : t[i] # Quote
  PROVE  Unquoted(t) = SubSeq(t, 2, n - 1)
<1> DEFINE rest == Tail(t)
           quotes == {i \in DOMAIN rest : rest[i] = Quote}
<1>0. Len(t) \in Nat /\ DOMAIN t = 1 .. Len(t) /\ t # <<>> /\ \A i \in 1 .. Len(t) : t[i] \in S
  BY LenProperties, ElementOfSeq, EmptySeq
<1>1. rest \in Seq(S) /\ Len(rest) = Len(t) - 1 /\ \A i \in 1 .. Len(rest) : rest[i] = t[i + 1]
  BY <1>0, HeadTailProperties
<1>2. DOMAIN rest = 1 .. Len(t) - 1
  BY <1>1, LenProperties
<1> HIDE DEF rest
<1>3. n - 1 \in quotes
  <2>1. n - 1 \in 1 .. Len(t) - 1 /\ (n - 1) + 1 = n
    BY <1>0
  <2> QED
    BY <1>1, <1>2, <2>1
<1>4. \A i \in quotes : n - 1 <= i
  <2> TAKE i \in quotes
  <2>1. i \in 1 .. Len(t) - 1 /\ rest[i] = t[i + 1]
    BY <1>1, <1>2
  <2> QED
    BY <1>0, <2>1
<1>5. quotes \subseteq Int
  BY <1>2
<1> HIDE DEF quotes
<1>6. (CHOOSE i \in quotes : \A j \in quotes : i <= j) = n - 1
  <2> DEFINE c == CHOOSE i \in quotes : \A j \in quotes : i <= j
  <2>1. c \in quotes /\ \A j \in quotes : c <= j
    BY <1>3, <1>4
  <2> HIDE DEF c
  <2>2. c = n - 1
    BY <1>3, <1>4, <1>5, <2>1
  <2> QED
    BY <2>2 DEF c
<1>7. Unquoted(t) = SubSeq(rest, 1, (CHOOSE i \in quotes : \A j \in quotes : i <= j) - 1)
  <2>1. quotes # {} /\ t[1] = Quote
    BY <1>3
  <2> QED
    BY <2>1, Zenon DEF Unquoted, rest, quotes, Quote
<1>8. Unquoted(t) = SubSeq(rest, 1, n - 2)
  <2>1. (n - 1) - 1 = n - 2
    OBVIOUS
  <2> QED
    BY <1>6, <1>7, <2>1, Zenon
<1> DEFINE u == SubSeq(t, 2, n - 1)
<1>9. u \in Seq(S) /\ Len(u) = n - 2 /\ \A i \in 1 .. n - 2 : u[i] = t[i + 1]
  <2>1. \A i \in 2 .. n - 1 : t[i] \in S
    BY <1>0
  <2>2. /\ u \in Seq(S)
        /\ Len(u) = IF 2 <= n - 1 THEN n - 1 - 2 + 1 ELSE 0
        /\ \A i \in 1 .. n - 1 - 2 + 1 : u[i] = t[2 + i - 1]
    BY <2>1, SubSeqProperties
  <2> HIDE DEF u
  <2> QED
    BY <1>0, <2>2
<1> HIDE DEF u
<1>10. SubSeq(rest, 1, n - 2) = u
  <2>1. ((n - 2) - 1) + 1 = Len(u)
    BY <1>9
  <2>2. \A i \in 1 .. Len(u) : rest[(1 + i) - 1] = u[i]
    <3> TAKE i \in 1 .. Len(u)
    <3>1. i \in 1 .. n - 2 /\ i \in 1 .. Len(t) - 1 /\ (1 + i) - 1 = i
      BY <1>0, <1>9
    <3> QED
      BY <1>1, <1>9, <3>1
  <2>3. n - 2 \in Int /\ u \in Seq(S)
    BY <1>9
  <2> QED
    BY <2>1, <2>2, <2>3, PieceIs
<1> QED
  BY <1>8, <1>10 DEF u

-----------------------------------------------------------------------------

Marks == Letters \cup {"*", Blank, Quote, Comma, Semicolon, "\\"}
Delimiters == {Comma, Semicolon}

\* Letters of entries are none of the marks, and the marks differ.
LEMMA MarksDiffer ==
  /\ \A c \in Letters \cup {"*"} : /\ c \notin Delimiters /\ c # Blank /\ c # Quote
                                   /\ c # "\\" /\ c # "/" /\ c \in Marks
  /\ {Blank, Quote, Comma, Semicolon, "\\"} \subseteq Marks
  /\ Blank \notin Delimiters /\ Quote \notin Delimiters /\ Quote # Blank
  /\ Comma \in Delimiters /\ Semicolon \in Delimiters
  BY PatternConstants, Zenon DEF Marks, Delimiters, Blank, Quote, Comma, Semicolon

LEMMA TextIs ==
  ASSUME NEW letters, NEW n \in Nat, NEW text \in Texts(letters, n)
  PROVE  text \in Seq(letters)
<1>1. PICK k \in 0 .. n : text \in [1 .. k -> letters]
  BY DEF Texts
<1> QED
  BY <1>1

\* The letters of an entry.
LEMMA EntryIs ==
  ASSUME NEW n \in Nat, NEW p \in Texts(Letters \cup {"*"}, n) \ {<<>>}
  PROVE  /\ p \in Seq(Letters \cup {"*"}) /\ p \in Seq(Marks) /\ Len(p) \in Nat \ {0}
         /\ \A i \in 1 .. Len(p) : /\ p[i] \in Letters \cup {"*"}
                                   /\ p[i] \notin Delimiters /\ p[i] # Blank /\ p[i] # Quote
<1>1. p \in Seq(Letters \cup {"*"}) /\ p # <<>>
  BY TextIs
<1>2. Len(p) \in Nat \ {0} /\ \A i \in 1 .. Len(p) : p[i] \in Letters \cup {"*"}
  BY <1>1, LenProperties, ElementOfSeq, EmptySeq
<1>3. Letters \cup {"*"} \subseteq Marks
  BY Zenon DEF Marks
<1>4. p \in Seq(Marks)
  BY <1>1, <1>3, SeqMonotonic
<1> QED
  BY <1>1, <1>2, <1>4, MarksDiffer

\* The letters of a file name.
LEMMA NameIs ==
  ASSUME NEW n \in Nat, NEW p \in Texts(Letters, n) \ {<<>>}
  PROVE  /\ p \in Seq(Marks) /\ Len(p) \in Nat \ {0}
         /\ \A i \in 1 .. Len(p) : p[i] # "\\"
<1>1. p \in Seq(Letters) /\ p # <<>>
  BY TextIs
<1>2. Len(p) \in Nat \ {0} /\ \A i \in 1 .. Len(p) : p[i] \in Letters
  BY <1>1, LenProperties, ElementOfSeq, EmptySeq
<1>3. Letters \subseteq Marks
  BY Zenon DEF Marks
<1>4. p \in Seq(Marks)
  BY <1>1, <1>3, SeqMonotonic
<1> QED
  BY <1>2, <1>4, MarksDiffer

\* Where the letters of a text between two others are.
LEMMA Around ==
  ASSUME NEW S, NEW a \in Seq(S), NEW p \in Seq(S), NEW b \in Seq(S)
  PROVE  /\ a \o p \o b \in Seq(S)
         /\ Len(a) \in Nat /\ Len(p) \in Nat /\ Len(b) \in Nat
         /\ Len(a \o p \o b) = Len(a) + Len(p) + Len(b)
         /\ \A i \in 1 .. Len(a \o p \o b) :
              (a \o p \o b)[i] =
                IF i <= Len(a) THEN a[i]
                ELSE IF i <= Len(a) + Len(p) THEN p[i - Len(a)] ELSE b[i - (Len(a) + Len(p))]
<1> DEFINE u == a \o p
<1>1. Len(a) \in Nat /\ Len(p) \in Nat /\ Len(b) \in Nat
  BY LenProperties
<1>2. /\ u \in Seq(S) /\ Len(u) = Len(a) + Len(p)
      /\ \A i \in 1 .. Len(a) + Len(p) : u[i] = IF i <= Len(a) THEN a[i] ELSE p[i - Len(a)]
  BY ConcatProperties
<1> HIDE DEF u
<1> DEFINE v == u \o b
<1>3. /\ v \in Seq(S) /\ Len(v) = Len(u) + Len(b)
      /\ \A i \in 1 .. Len(u) + Len(b) : v[i] = IF i <= Len(u) THEN u[i] ELSE b[i - Len(u)]
  <2>1. u \in Seq(S)
    BY <1>2
  <2> QED
    BY <2>1, ConcatProperties
<1> HIDE DEF v
<1>4. \A i \in 1 .. Len(v) :
        v[i] = IF i <= Len(a) THEN a[i]
               ELSE IF i <= Len(a) + Len(p) THEN p[i - Len(a)] ELSE b[i - (Len(a) + Len(p))]
  BY <1>1, <1>2, <1>3
<1>5. v \in Seq(S) /\ Len(v) = Len(a) + Len(p) + Len(b)
  BY <1>2, <1>3
<1> QED
  BY <1>1, <1>4, <1>5 DEF u, v

-----------------------------------------------------------------------------

\* What has no quote in front stays.
LEMMA UnquotePlain ==
  ASSUME NEW t, t[1] # Quote
  PROVE  Unquoted(t) = t
  BY Zenon DEF Unquoted, Quote

\* An entry is cleaned to itself,
LEMMA PlainCleaned ==
  ASSUME NEW S, NEW p \in Seq(S), Len(p) \in Nat \ {0},
         \A i \in 1 .. Len(p) : p[i] # Blank /\ p[i] # Quote
  PROVE  Cleaned(p) = p
<1>1. skip_whitespace(p) = SubSeq(p, 0 + 1, Len(p))
  BY SkipIs
<1>2. SubSeq(p, 1, Len(p)) = p
  BY SubSeqFull
<1>3. Trimmed(p) = SubSeq(p, 1, Len(p))
  BY TrimIs
<1>4. Unquoted(p) = p
  BY UnquotePlain
<1>5. 0 + 1 = 1
  OBVIOUS
<1> QED
  BY <1>1, <1>2, <1>3, <1>4, <1>5, Zenon DEF Cleaned

\* without the blanks around it,
LEMMA BlankCleaned ==
  ASSUME NEW S, NEW p \in Seq(S), Len(p) \in Nat \ {0},
         \A i \in 1 .. Len(p) : p[i] # Blank /\ p[i] # Quote,
         NEW t \in Seq(S), Len(t) = Len(p) + 2, t[1] = Blank, t[Len(t)] = Blank,
         \A i \in 1 .. Len(p) : t[i + 1] = p[i]
  PROVE  Cleaned(t) = p
<1> DEFINE n == Len(p)
           u == SubSeq(t, 2, n + 2)
<1>0. \A i \in 1 .. n + 2 : t[i] \in S
  BY ElementOfSeq
<1>1. skip_whitespace(t) = u
  <2>1. t[2] # Blank
    OBVIOUS
  <2>2. skip_whitespace(t) = SubSeq(t, 1 + 1, Len(t))
    BY <2>1, SkipIs
  <2> QED
    BY <2>2
<1>2. u \in Seq(S) /\ Len(u) = n + 1 /\ \A i \in 1 .. n + 1 : u[i] = t[i + 1]
  <2>1. \A i \in 2 .. n + 2 : t[i] \in S
    BY <1>0
  <2>2. /\ u \in Seq(S)
        /\ Len(u) = IF 2 <= n + 2 THEN (n + 2) - 2 + 1 ELSE 0
        /\ \A i \in 1 .. (n + 2) - 2 + 1 : u[i] = t[2 + i - 1]
    BY <2>1, SubSeqProperties
  <2> HIDE DEF u
  <2> QED
    BY <2>2
<1> HIDE DEF u
<1>3. Trimmed(u) = SubSeq(u, 1, n)
  <2>1. u[n] = p[n]
    BY <1>2
  <2>2. u[n + 1] = Blank
    BY <1>2
  <2>3. \A i \in n + 1 .. Len(u) : u[i] = Blank
    BY <1>2, <2>2
  <2>4. n \in 1 .. Len(u) /\ u[n] # Blank
    BY <1>2, <2>1
  <2> QED
    BY <1>2, <2>3, <2>4, TrimIs
<1>4. SubSeq(u, 1, n) = p
  <2>1. (n - 1) + 1 = Len(p) /\ n \in Int
    OBVIOUS
  <2>2. \A i \in 1 .. Len(p) : u[(1 + i) - 1] = p[i]
    <3> TAKE i \in 1 .. Len(p)
    <3>1. (1 + i) - 1 = i /\ i \in 1 .. n + 1
      OBVIOUS
    <3> QED
      BY <1>2, <3>1
  <2> QED
    BY <2>1, <2>2, PieceIs
<1>5. Unquoted(p) = p
  BY UnquotePlain
<1> QED
  BY <1>1, <1>3, <1>4, <1>5 DEF Cleaned

\* and without its quotes.
LEMMA QuoteCleaned ==
  ASSUME NEW S, NEW p \in Seq(S), Len(p) \in Nat \ {0},
         \A i \in 1 .. Len(p) : p[i] # Quote, Quote # Blank,
         NEW t \in Seq(S), Len(t) = Len(p) + 2, t[1] = Quote, t[Len(t)] = Quote,
         \A i \in 1 .. Len(p) : t[i + 1] = p[i]
  PROVE  Cleaned(t) = p
<1> DEFINE n == Len(p)
<1>1. skip_whitespace(t) = SubSeq(t, 0 + 1, Len(t))
  BY SkipIs
<1>2. SubSeq(t, 1, Len(t)) = t
  BY SubSeqFull
<1>3. Trimmed(t) = SubSeq(t, 1, Len(t))
  BY TrimIs
<1>4. Unquoted(t) = SubSeq(t, 2, (n + 2) - 1)
  <2>1. \A i \in 2 .. (n + 2) - 1 : t[i] # Quote
    <3> TAKE i \in 2 .. (n + 2) - 1
    <3> DEFINE j == i - 1
    <3>1. j \in 1 .. Len(p) /\ j + 1 = i
      OBVIOUS
    <3> HIDE DEF j
    <3>2. t[j + 1] = p[j] /\ p[j] # Quote
      BY <3>1
    <3> QED
      BY <3>1, <3>2
  <2>2. n + 2 \in 2 .. Len(t) /\ Len(t) > 1 /\ t[n + 2] = Quote
    OBVIOUS
  <2> QED
    BY <2>1, <2>2, UnquoteIs
<1>5. SubSeq(t, 2, n + 1) = p
  <2>1. ((n + 1) - 2) + 1 = Len(p) /\ n + 1 \in Int
    OBVIOUS
  <2>2. \A i \in 1 .. Len(p) : t[(2 + i) - 1] = p[i]
    <3> TAKE i \in 1 .. Len(p)
    <3>1. (2 + i) - 1 = i + 1
      OBVIOUS
    <3> QED
      BY <3>1
  <2> QED
    BY <2>1, <2>2, PieceIs
<1>6. (n + 2) - 1 = n + 1
  OBVIOUS
<1>7. 0 + 1 = 1
  OBVIOUS
<1> QED
  BY <1>1, <1>2, <1>3, <1>4, <1>5, <1>6, <1>7, Zenon DEF Cleaned

\* A pattern without separator is compared with the file name.
LEMMA FileOnly ==
  ASSUME NEW n \in Nat, NEW p \in Texts(Letters \cup {"*"}, n) \ {<<>>},
         NEW name \in Texts(Letters, n) \ {<<>>}, NEW dir \in Letters
  PROVE  match_process_pattern(p, <<dir, "\\">> \o name) <=> match_process_pattern(p, name)
<1> DEFINE path == <<dir, "\\">> \o name
           k == Len(name)
           cuts(t) == {i \in 1 .. Len(t) : t[i] = "\\"}
<1>1. name \in Seq(Marks) /\ k \in Nat \ {0} /\ \A i \in 1 .. k : name[i] # "\\"
  BY NameIs
<1>2. dir \in Marks /\ dir # "\\" /\ "\\" \in Marks
  BY MarksDiffer
<1>3. <<dir, "\\">> \in Seq(Marks) /\ Len(<<dir, "\\">>) = 2 /\ <<dir, "\\">>[1] = dir /\ <<dir, "\\">>[2] = "\\"
  BY <1>2
<1>4. /\ path \in Seq(Marks) /\ Len(path) = 2 + k
      /\ \A i \in 1 .. 2 + k : path[i] = IF i <= 2 THEN <<dir, "\\">>[i] ELSE name[i - 2]
  BY <1>1, <1>3, ConcatProperties
<1> HIDE DEF path
<1>5. cuts(path) = {2}
  <2>1. ASSUME NEW i \in 1 .. Len(path), path[i] = "\\" PROVE i = 2
    BY <1>1, <1>2, <1>3, <1>4, <2>1
  <2>2. 2 \in 1 .. Len(path) /\ path[2] = "\\"
    BY <1>1, <1>3, <1>4
  <2> QED
    BY <2>1, <2>2
<1>6. (CHOOSE i \in cuts(path) : \A j \in cuts(path) : j <= i) = 2
  BY <1>5
<1>7. From(path, 2) = name
  <2>1. (Len(path) - 3) + 1 = Len(name) /\ Len(path) \in Int
    BY <1>1, <1>4
  <2>2. \A i \in 1 .. Len(name) : path[(3 + i) - 1] = name[i]
    <3> TAKE i \in 1 .. Len(name)
    <3>1. (3 + i) - 1 = i + 2 /\ i + 2 \in 1 .. 2 + k /\ ~(i + 2 <= 2) /\ (i + 2) - 2 = i
      BY <1>1
    <3> QED
      BY <1>4, <3>1
  <2>3. SubSeq(path, 3, Len(path)) = name
    BY <1>1, <2>1, <2>2, PieceIs
  <2> QED
    BY <2>3 DEF From
<1>8. FileName(path) = name
  <2>1. cuts(path) # {}
    BY <1>5
  <2> QED
    BY <1>6, <1>7, <2>1, Zenon DEF FileName
<1>9. FileName(name) = name
  <2>1. cuts(name) = {}
    BY <1>1
  <2> QED
    BY <2>1, Zenon DEF FileName
<1>10. ~Contains(p, "\\") /\ ~Contains(p, "/")
  <2>1. \A i \in 1 .. Len(p) : p[i] \in Letters \cup {"*"}
    BY EntryIs
  <2> QED
    BY <2>1, MarksDiffer DEF Contains
<1>11. match_process_pattern(p, path) <=> match_process_pattern(p, name)
  BY <1>8, <1>9, <1>10, Zenon DEF match_process_pattern
<1> QED
  BY <1>11 DEF path

LEMMA ListIs ==
  ASSUME NEW list, NEW path
  PROVE  match_process_list(list, path) <=>
           AllMatch(list) \/ \E t \in Tokens(list, Delimiters) : match_process_pattern(Cleaned(t), path)
  BY Zenon DEF match_process_list, Delimiters, Comma, Semicolon

\* A list of one entry.
LEMMA AloneIs ==
  ASSUME NEW list, NEW path, NEW p, NEW t,
         ~AllMatch(list), Tokens(list, Delimiters) = {t}, Cleaned(t) = p
  PROVE  match_process_list(list, path) <=> match_process_pattern(p, path)
  BY ListIs, Zenon

\* A list of two entries.
LEMMA BothAre ==
  ASSUME NEW list, NEW path, NEW p, NEW q, NEW t, NEW u,
         ~AllMatch(list), \A x : x \in Tokens(list, Delimiters) <=> x = u \/ x = t,
         Cleaned(t) = p, Cleaned(u) = q
  PROVE  match_process_list(list, path) <=> match_process_pattern(p, path) \/ match_process_pattern(q, path)
  BY ListIs, Zenon

\* A longer list is not the star that stands for all.
LEMMA LongList ==
  ASSUME NEW list, Len(list) \in Nat, Len(list) > 1
  PROVE  ~AllMatch(list)
<1>1. Len(<<>>) = 0 /\ Len(<<"*">>) = 1
  OBVIOUS
<1> DEFINE k == Len(list)
<1>2. k \in Nat /\ k > 1
  OBVIOUS
<1> HIDE DEF k
<1>3. k # 0 /\ k # 1
  BY <1>2
<1>4. list # <<>> /\ list # <<"*">>
  BY <1>1, <1>3, Zenon DEF k
<1> QED
  BY <1>4, Zenon DEF AllMatch

\* An entry alone, with blanks and with quotes.
LEMMA PlainList ==
  ASSUME NEW n \in Nat, NEW p \in Texts(Letters \cup {"*"}, n) \ {<<>>}, NEW path
  PROVE  match_process_list(p, path) <=> match_process_pattern(p, path)
<1>1. /\ p \in Seq(Marks) /\ Len(p) \in Nat \ {0} /\ p # <<>>
      /\ \A i \in 1 .. Len(p) : p[i] \notin Delimiters /\ p[i] # Blank /\ p[i] # Quote
  BY EntryIs
<1>2. Tokens(p, Delimiters) = {SubSeq(p, 1, Len(p))}
  <2>1. \A i \in 1 .. Len(p) : p[i] \in Delimiters <=> i < 1 \/ i > Len(p)
    BY <1>1
  <2>2. 1 \in 1 .. Len(p) /\ Len(p) \in 1 .. Len(p)
    BY <1>1
  <2> QED
    BY <1>1, <2>1, <2>2, TokenIs
<1>3. SubSeq(p, 1, Len(p)) = p /\ Cleaned(p) = p
  BY <1>1, SubSeqFull, PlainCleaned
<1>4. CASE AllMatch(p)
  <2>1. p = <<"*">>
    BY <1>1, <1>4, Zenon DEF AllMatch
  <2> QED
    BY <1>4, <2>1, ListIs, Zenon DEF match_process_pattern
<1>5. CASE ~AllMatch(p)
  <2>1. Tokens(p, Delimiters) = {p}
    BY <1>2, <1>3
  <2> QED
    BY <1>3, <1>5, <2>1, AloneIs
<1> QED
  BY <1>4, <1>5

LEMMA BlankList ==
  ASSUME NEW n \in Nat, NEW p \in Texts(Letters \cup {"*"}, n) \ {<<>>}, NEW path
  PROVE  match_process_list(<<" ">> \o p \o <<" ">>, path) <=> match_process_pattern(p, path)
<1> DEFINE one == <<Blank>>
           list == one \o p \o one
           m == Len(p)
<1>1. /\ p \in Seq(Marks) /\ m \in Nat \ {0}
      /\ \A i \in 1 .. m : p[i] \notin Delimiters /\ p[i] # Blank /\ p[i] # Quote
  BY EntryIs
<1>2. Blank \in Marks /\ Blank \notin Delimiters
  BY MarksDiffer
<1>3. one \in Seq(Marks) /\ Len(one) = 1 /\ one[1] = Blank
  BY <1>2
<1> HIDE DEF one
<1>4. /\ list \in Seq(Marks) /\ Len(list) = Len(one) + Len(p) + Len(one)
      /\ \A i \in 1 .. Len(list) :
           list[i] = IF i <= Len(one) THEN one[i]
                     ELSE IF i <= Len(one) + Len(p) THEN p[i - Len(one)] ELSE one[i - (Len(one) + Len(p))]
  <2>1. one \in Seq(Marks) /\ p \in Seq(Marks)
    BY <1>1, <1>3
  <2> QED
    BY <2>1, Around
<1> HIDE DEF list
<1>5. Len(list) = m + 2 /\ Len(list) > 1 /\ list[1] = Blank /\ list[Len(list)] = Blank
  BY <1>1, <1>3, <1>4
<1>6. \A i \in 1 .. m : list[i + 1] = p[i]
  BY <1>1, <1>3, <1>4
<1>7. \A i \in 1 .. Len(list) : list[i] \notin Delimiters
  <2> TAKE i \in 1 .. Len(list)
  <2>1. i = 1 \/ i = Len(list) \/ (i - 1 \in 1 .. m /\ (i - 1) + 1 = i)
    BY <1>1, <1>5
  <2>2. i - 1 \in 1 .. m => list[(i - 1) + 1] = p[i - 1]
    BY <1>6
  <2> QED
    BY <1>1, <1>2, <1>5, <2>1, <2>2
<1>8. Tokens(list, Delimiters) = {SubSeq(list, 1, Len(list))}
  <2>1. \A i \in 1 .. Len(list) : list[i] \in Delimiters <=> i < 1 \/ i > Len(list)
    BY <1>1, <1>5, <1>7
  <2>2. 1 \in 1 .. Len(list) /\ Len(list) \in 1 .. Len(list)
    BY <1>1, <1>5
  <2>3. list \in Seq(Marks)
    BY <1>4
  <2> QED
    BY <2>1, <2>2, <2>3, TokenIs
<1>9. Tokens(list, Delimiters) = {list}
  BY <1>4, <1>8, SubSeqFull
<1>10. Cleaned(list) = p
  BY <1>1, <1>4, <1>5, <1>6, BlankCleaned
<1>11. ~AllMatch(list)
  <2>1. Len(list) \in Nat /\ Len(list) > 1
    BY <1>1, <1>5
  <2> QED
    BY <2>1, LongList
<1>12. match_process_list(list, path) <=> match_process_pattern(p, path)
  BY <1>9, <1>10, <1>11, AloneIs
<1>13. <<" ">> \o p \o <<" ">> = list
  BY Zenon DEF list, one, Blank
<1> QED
  BY <1>12, <1>13, Zenon

LEMMA QuoteList ==
  ASSUME NEW n \in Nat, NEW p \in Texts(Letters \cup {"*"}, n) \ {<<>>}, NEW path
  PROVE  match_process_list(<<"\"">> \o p \o <<"\"">>, path) <=> match_process_pattern(p, path)
<1> DEFINE one == <<Quote>>
           list == one \o p \o one
           m == Len(p)
<1>1. /\ p \in Seq(Marks) /\ m \in Nat \ {0}
      /\ \A i \in 1 .. m : p[i] \notin Delimiters /\ p[i] # Blank /\ p[i] # Quote
  BY EntryIs
<1>2. Quote \in Marks /\ Quote \notin Delimiters /\ Quote # Blank
  BY MarksDiffer
<1>3. one \in Seq(Marks) /\ Len(one) = 1 /\ one[1] = Quote
  BY <1>2
<1> HIDE DEF one
<1>4. /\ list \in Seq(Marks) /\ Len(list) = Len(one) + Len(p) + Len(one)
      /\ \A i \in 1 .. Len(list) :
           list[i] = IF i <= Len(one) THEN one[i]
                     ELSE IF i <= Len(one) + Len(p) THEN p[i - Len(one)] ELSE one[i - (Len(one) + Len(p))]
  <2>1. one \in Seq(Marks) /\ p \in Seq(Marks)
    BY <1>1, <1>3
  <2> QED
    BY <2>1, Around
<1> HIDE DEF list
<1>5. Len(list) = m + 2 /\ Len(list) > 1 /\ list[1] = Quote /\ list[Len(list)] = Quote
  BY <1>1, <1>3, <1>4
<1>6. \A i \in 1 .. m : list[i + 1] = p[i]
  BY <1>1, <1>3, <1>4
<1>7. \A i \in 1 .. Len(list) : list[i] \notin Delimiters
  <2> TAKE i \in 1 .. Len(list)
  <2>1. i = 1 \/ i = Len(list) \/ (i - 1 \in 1 .. m /\ (i - 1) + 1 = i)
    BY <1>1, <1>5
  <2>2. i - 1 \in 1 .. m => list[(i - 1) + 1] = p[i - 1]
    BY <1>6
  <2> QED
    BY <1>1, <1>2, <1>5, <2>1, <2>2
<1>8. Tokens(list, Delimiters) = {SubSeq(list, 1, Len(list))}
  <2>1. \A i \in 1 .. Len(list) : list[i] \in Delimiters <=> i < 1 \/ i > Len(list)
    BY <1>1, <1>5, <1>7
  <2>2. 1 \in 1 .. Len(list) /\ Len(list) \in 1 .. Len(list)
    BY <1>1, <1>5
  <2>3. list \in Seq(Marks)
    BY <1>4
  <2> QED
    BY <2>1, <2>2, <2>3, TokenIs
<1>9. Tokens(list, Delimiters) = {list}
  BY <1>4, <1>8, SubSeqFull
<1>10. Cleaned(list) = p
  BY <1>1, <1>2, <1>4, <1>5, <1>6, QuoteCleaned
<1>11. ~AllMatch(list)
  <2>1. Len(list) \in Nat /\ Len(list) > 1
    BY <1>1, <1>5
  <2> QED
    BY <2>1, LongList
<1>12. match_process_list(list, path) <=> match_process_pattern(p, path)
  BY <1>9, <1>10, <1>11, AloneIs
<1>13. <<"\"">> \o p \o <<"\"">> = list
  BY Zenon DEF list, one, Quote
<1> QED
  BY <1>12, <1>13, Zenon

\* Empty entries are passed over.
LEMMA EmptyEntries ==
  ASSUME NEW n \in Nat, NEW p \in Texts(Letters \cup {"*"}, n) \ {<<>>}, NEW path
  PROVE  match_process_list(<<";", ",">> \o p \o <<",">>, path) <=> match_process_pattern(p, path)
<1> DEFINE a == <<Semicolon, Comma>>
           b == <<Comma>>
           list == a \o p \o b
           m == Len(p)
<1>1. /\ p \in Seq(Marks) /\ m \in Nat \ {0}
      /\ \A i \in 1 .. m : p[i] \notin Delimiters /\ p[i] # Blank /\ p[i] # Quote
  BY EntryIs
<1>2. {Comma, Semicolon} \subseteq Marks /\ Comma \in Delimiters /\ Semicolon \in Delimiters
  BY MarksDiffer
<1>3. /\ a \in Seq(Marks) /\ Len(a) = 2 /\ a[1] = Semicolon /\ a[2] = Comma
      /\ b \in Seq(Marks) /\ Len(b) = 1 /\ b[1] = Comma
  BY <1>2
<1> HIDE DEF a, b
<1>4. /\ list \in Seq(Marks) /\ Len(list) = Len(a) + Len(p) + Len(b)
      /\ \A i \in 1 .. Len(list) :
           list[i] = IF i <= Len(a) THEN a[i]
                     ELSE IF i <= Len(a) + Len(p) THEN p[i - Len(a)] ELSE b[i - (Len(a) + Len(p))]
  <2>1. a \in Seq(Marks) /\ p \in Seq(Marks) /\ b \in Seq(Marks)
    BY <1>1, <1>3
  <2> QED
    BY <2>1, Around
<1> HIDE DEF list
<1>5. Len(list) = m + 3 /\ list[1] = Semicolon /\ list[2] = Comma /\ list[m + 3] = Comma
  BY <1>1, <1>3, <1>4
<1>6. \A i \in 1 .. m : list[i + 2] = p[i]
  BY <1>1, <1>3, <1>4
<1>7. \A i \in 1 .. Len(list) : list[i] \in Delimiters <=> i < 3 \/ i > m + 2
  <2> TAKE i \in 1 .. Len(list)
  <2>1. i = 1 \/ i = 2 \/ i = m + 3 \/ (i - 2 \in 1 .. m /\ (i - 2) + 2 = i)
    BY <1>1, <1>5
  <2>2. i - 2 \in 1 .. m => list[(i - 2) + 2] = p[i - 2] /\ ~(i < 3) /\ ~(i > m + 2)
    BY <1>1, <1>6
  <2> QED
    BY <1>1, <1>2, <1>5, <2>1, <2>2
<1>8. Tokens(list, Delimiters) = {SubSeq(list, 3, m + 2)}
  <2>1. 3 \in 1 .. Len(list) /\ m + 2 \in 3 .. Len(list)
    BY <1>1, <1>5
  <2>2. list \in Seq(Marks)
    BY <1>4
  <2> QED
    BY <1>7, <2>1, <2>2, TokenIs
<1>9. SubSeq(list, 3, m + 2) = p
  <2>1. ((m + 2) - 3) + 1 = Len(p) /\ m + 2 \in Int
    BY <1>1
  <2>2. \A i \in 1 .. Len(p) : list[(3 + i) - 1] = p[i]
    <3> TAKE i \in 1 .. Len(p)
    <3>1. (3 + i) - 1 = i + 2
      BY <1>1
    <3> QED
      BY <1>6, <3>1
  <2>3. p \in Seq(Marks)
    BY <1>1
  <2> QED
    BY <2>1, <2>2, <2>3, PieceIs
<1>10. Cleaned(p) = p
  BY <1>1, PlainCleaned
<1>11. ~AllMatch(list)
  <2>1. Len(list) \in Nat /\ Len(list) > 1
    BY <1>1, <1>5
  <2> QED
    BY <2>1, LongList
<1>12. match_process_list(list, path) <=> match_process_pattern(p, path)
  BY <1>8, <1>9, <1>10, <1>11, AloneIs
<1>13. <<";", ",">> \o p \o <<",">> = list
  BY Zenon DEF list, a, b, Comma, Semicolon
<1> QED
  BY <1>12, <1>13, Zenon

\* Two entries, and two with blanks and an empty one.
LEMMA TwoEntries ==
  ASSUME NEW n \in Nat, NEW p \in Texts(Letters \cup {"*"}, n) \ {<<>>},
         NEW q \in Texts(Letters \cup {"*"}, n) \ {<<>>}, NEW path
  PROVE  match_process_list(q \o <<";">> \o p, path) <=>
           match_process_pattern(p, path) \/ match_process_pattern(q, path)
<1> DEFINE a == <<Semicolon>>
           list == q \o a \o p
           m == Len(p)
           k == Len(q)
<1>1. /\ p \in Seq(Marks) /\ m \in Nat \ {0}
      /\ \A i \in 1 .. m : p[i] \notin Delimiters /\ p[i] # Blank /\ p[i] # Quote
  BY EntryIs
<1>2. /\ q \in Seq(Marks) /\ k \in Nat \ {0}
      /\ \A i \in 1 .. k : q[i] \notin Delimiters /\ q[i] # Blank /\ q[i] # Quote
  BY EntryIs
<1>3. Semicolon \in Marks /\ Semicolon \in Delimiters
  BY MarksDiffer
<1>4. a \in Seq(Marks) /\ Len(a) = 1 /\ a[1] = Semicolon
  BY <1>3
<1> HIDE DEF a
<1>5. /\ list \in Seq(Marks) /\ Len(list) = Len(q) + Len(a) + Len(p)
      /\ \A i \in 1 .. Len(list) :
           list[i] = IF i <= Len(q) THEN q[i]
                     ELSE IF i <= Len(q) + Len(a) THEN a[i - Len(q)] ELSE p[i - (Len(q) + Len(a))]
  <2>1. a \in Seq(Marks) /\ p \in Seq(Marks) /\ q \in Seq(Marks)
    BY <1>1, <1>2, <1>4
  <2> QED
    BY <2>1, Around
<1> HIDE DEF list
<1>6. Len(list) = k + m + 1 /\ list[k + 1] = Semicolon
  BY <1>1, <1>2, <1>4, <1>5
<1>7. \A i \in 1 .. k : list[i] = q[i]
  BY <1>1, <1>2, <1>4, <1>5
<1>8. \A i \in 1 .. m : list[i + (k + 1)] = p[i]
  BY <1>1, <1>2, <1>4, <1>5
<1>9. \A i \in 1 .. Len(list) : list[i] \in Delimiters <=> i < 1 \/ (i > k /\ i < k + 2) \/ i > k + m + 1
  <2> TAKE i \in 1 .. Len(list)
  <2> DEFINE j == i - (k + 1)
  <2>1. i \in 1 .. k \/ i = k + 1 \/ (j \in 1 .. m /\ j + (k + 1) = i /\ i > k + 1 /\ i <= k + m + 1)
    BY <1>1, <1>2, <1>6
  <2> HIDE DEF j
  <2>2. CASE i \in 1 .. k
    BY <1>1, <1>2, <1>7, <2>2
  <2>3. CASE i = k + 1
    BY <1>1, <1>2, <1>3, <1>6, <2>3
  <2>4. CASE j \in 1 .. m /\ j + (k + 1) = i /\ i > k + 1 /\ i <= k + m + 1
    <3>1. list[i] = p[j] /\ p[j] \notin Delimiters
      BY <1>1, <1>8, <2>4
    <3> QED
      BY <1>1, <1>2, <2>4, <3>1
  <2> QED
    BY <2>1, <2>2, <2>3, <2>4
<1>10. \A t : t \in Tokens(list, Delimiters) <=> t = SubSeq(list, 1, k) \/ t = SubSeq(list, k + 2, k + m + 1)
  <2>2. list \in Seq(Marks)
    BY <1>5
  <2>3. /\ k \in Int /\ k + 2 \in Int /\ k + m + 1 \in Int
        /\ 1 <= k /\ k + 1 < k + 2 /\ k + 2 <= k + m + 1 /\ k + m + 1 <= Len(list)
    BY <1>1, <1>2, <1>6
  <2>4. TwoRuns(list, Delimiters, 1, k, k + 2, k + m + 1)
    BY <1>9, <2>3 DEF TwoRuns
  <2> HIDE DEF k, m
  <2> QED
    BY <2>2, <2>4, TwoTokensAre
<1>11. SubSeq(list, 1, k) = q
  <2>1. (k - 1) + 1 = Len(q) /\ k \in Int
    BY <1>2
  <2>2. \A i \in 1 .. Len(q) : list[(1 + i) - 1] = q[i]
    <3> TAKE i \in 1 .. Len(q)
    <3>1. (1 + i) - 1 = i
      BY <1>2
    <3> QED
      BY <1>7, <3>1
  <2>3. q \in Seq(Marks)
    BY <1>2
  <2> QED
    BY <2>1, <2>2, <2>3, PieceIs
<1>12. SubSeq(list, k + 2, k + m + 1) = p
  <2>1. ((k + m + 1) - (k + 2)) + 1 = Len(p) /\ k + 2 \in Int /\ k + m + 1 \in Int
    BY <1>1, <1>2
  <2>2. \A i \in 1 .. Len(p) : list[((k + 2) + i) - 1] = p[i]
    <3> TAKE i \in 1 .. Len(p)
    <3>1. ((k + 2) + i) - 1 = i + (k + 1)
      BY <1>1, <1>2
    <3> QED
      BY <1>8, <3>1
  <2>3. p \in Seq(Marks)
    BY <1>1
  <2> QED
    BY <2>1, <2>2, <2>3, PieceIs
<1>13. Cleaned(p) = p
  BY <1>1, PlainCleaned
<1>14. Cleaned(q) = q
  BY <1>2, PlainCleaned
<1>15. ~AllMatch(list)
  <2>1. Len(list) \in Nat /\ Len(list) > 1
    BY <1>1, <1>2, <1>6
  <2> QED
    BY <2>1, LongList
<1>16. match_process_list(list, path) <=> match_process_pattern(p, path) \/ match_process_pattern(q, path)
  BY <1>10, <1>11, <1>12, <1>13, <1>14, <1>15, BothAre
<1>17. q \o <<";">> \o p = list
  BY Zenon DEF list, a, Semicolon
<1> QED
  BY <1>16, <1>17, Zenon

\* A piece with blanks around it is cleaned to what is between them.
LEMMA BlankPiece ==
  ASSUME NEW S, NEW p \in Seq(S), Len(p) \in Nat \ {0},
         \A i \in 1 .. Len(p) : p[i] # Blank /\ p[i] # Quote,
         NEW list \in Seq(S), NEW s \in Nat \ {0}, s + Len(p) + 1 <= Len(list),
         list[s] = Blank, list[s + Len(p) + 1] = Blank,
         \A i \in 1 .. Len(p) : list[s + i] = p[i]
  PROVE  Cleaned(SubSeq(list, s, s + Len(p) + 1)) = p
<1> DEFINE e == s + Len(p) + 1
           t == SubSeq(list, s, e)
<1>0. Len(list) \in Nat /\ e \in Nat /\ \A i \in 1 .. Len(list) : list[i] \in S
  BY LenProperties, ElementOfSeq
<1>1. t \in Seq(S) /\ Len(t) = Len(p) + 2 /\ \A i \in 1 .. Len(p) + 2 : t[i] = list[(s + i) - 1]
  <2>1. \A i \in s .. e : list[i] \in S
    BY <1>0
  <2>2. /\ t \in Seq(S)
        /\ Len(t) = IF s <= e THEN e - s + 1 ELSE 0
        /\ \A i \in 1 .. e - s + 1 : t[i] = list[s + i - 1]
    BY <1>0, <2>1, SubSeqProperties
  <2> HIDE DEF t
  <2> QED
    BY <2>2
<1> HIDE DEF t
<1>2. t[1] = Blank
  <2>1. (s + 1) - 1 = s /\ 1 \in 1 .. Len(p) + 2
    OBVIOUS
  <2> QED
    BY <1>1, <2>1
<1>3. t[Len(t)] = Blank
  <2>1. (s + (Len(p) + 2)) - 1 = s + Len(p) + 1 /\ Len(p) + 2 \in 1 .. Len(p) + 2
    OBVIOUS
  <2> QED
    BY <1>1, <2>1
<1>4. \A i \in 1 .. Len(p) : t[i + 1] = p[i]
  <2> TAKE i \in 1 .. Len(p)
  <2>1. (s + (i + 1)) - 1 = s + i /\ i + 1 \in 1 .. Len(p) + 2
    OBVIOUS
  <2> QED
    BY <1>1, <2>1
<1>5. Cleaned(t) = p
  BY <1>1, <1>2, <1>3, <1>4, BlankCleaned
<1> QED
  BY <1>5 DEF t

LEMMA BlankEntries ==
  ASSUME NEW n \in Nat, NEW p \in Texts(Letters \cup {"*"}, n) \ {<<>>},
         NEW q \in Texts(Letters \cup {"*"}, n) \ {<<>>}, NEW path
  PROVE  match_process_list(<<" ">> \o q \o <<" ", ",", " ">> \o p \o <<" ", ";">>, path) <=>
           match_process_pattern(p, path) \/ match_process_pattern(q, path)
<1> DEFINE a == <<Blank>>
           b == <<Blank, Comma, Blank>>
           c == <<Blank, Semicolon>>
           left == a \o q \o b
           list == left \o p \o c
           m == Len(p)
           k == Len(q)
<1>1. /\ p \in Seq(Marks) /\ m \in Nat \ {0}
      /\ \A i \in 1 .. m : p[i] \notin Delimiters /\ p[i] # Blank /\ p[i] # Quote
  BY EntryIs
<1>2. /\ q \in Seq(Marks) /\ k \in Nat \ {0}
      /\ \A i \in 1 .. k : q[i] \notin Delimiters /\ q[i] # Blank /\ q[i] # Quote
  BY EntryIs
<1>3. /\ {Comma, Semicolon, Blank} \subseteq Marks
      /\ Comma \in Delimiters /\ Semicolon \in Delimiters /\ Blank \notin Delimiters
  BY MarksDiffer
<1>4. /\ a \in Seq(Marks) /\ Len(a) = 1 /\ a[1] = Blank
      /\ b \in Seq(Marks) /\ Len(b) = 3 /\ b[1] = Blank /\ b[2] = Comma /\ b[3] = Blank
      /\ c \in Seq(Marks) /\ Len(c) = 2 /\ c[1] = Blank /\ c[2] = Semicolon
  BY <1>3
<1> HIDE DEF a, b, c
<1>5. /\ left \in Seq(Marks) /\ Len(left) = Len(a) + Len(q) + Len(b)
      /\ \A i \in 1 .. Len(left) :
           left[i] = IF i <= Len(a) THEN a[i]
                     ELSE IF i <= Len(a) + Len(q) THEN q[i - Len(a)] ELSE b[i - (Len(a) + Len(q))]
  <2>1. a \in Seq(Marks) /\ b \in Seq(Marks) /\ q \in Seq(Marks)
    BY <1>2, <1>4
  <2> QED
    BY <2>1, Around
<1> HIDE DEF left
<1>6. /\ list \in Seq(Marks) /\ Len(list) = Len(left) + Len(p) + Len(c)
      /\ \A i \in 1 .. Len(list) :
           list[i] = IF i <= Len(left) THEN left[i]
                     ELSE IF i <= Len(left) + Len(p) THEN p[i - Len(left)] ELSE c[i - (Len(left) + Len(p))]
  <2>1. left \in Seq(Marks) /\ c \in Seq(Marks) /\ p \in Seq(Marks)
    BY <1>1, <1>4, <1>5
  <2> QED
    BY <2>1, Around
<1> HIDE DEF list
<1> HIDE DEF m, k
<1>7. /\ Len(left) = k + 4 /\ left[1] = Blank /\ left[k + 2] = Blank /\ left[k + 3] = Comma /\ left[k + 4] = Blank
      /\ \A i \in 1 .. k : left[i + 1] = q[i]
  <2>1. Len(left) = k + 4
    BY <1>2, <1>4, <1>5 DEF k
  <2>2. \A i \in 1 .. k + 4 : left[i] = IF i <= 1 THEN a[i] ELSE IF i <= 1 + k THEN q[i - 1] ELSE b[i - (1 + k)]
    BY <1>2, <1>4, <1>5, <2>1 DEF k
  <2>3. left[1] = Blank
    BY <1>2, <1>4, <2>2
  <2>4. left[k + 2] = Blank /\ left[k + 3] = Comma /\ left[k + 4] = Blank
    BY <1>2, <1>4, <2>2
  <2>5. \A i \in 1 .. k : left[i + 1] = q[i]
    BY <1>2, <2>2
  <2> QED
    BY <2>1, <2>3, <2>4, <2>5
<1>8. /\ Len(list) = k + m + 6 /\ list[k + m + 5] = Blank /\ list[k + m + 6] = Semicolon
      /\ \A i \in 1 .. k + 4 : list[i] = left[i]
      /\ \A i \in 1 .. m : list[(k + 4) + i] = p[i]
  <2>1. Len(list) = k + m + 6
    BY <1>1, <1>2, <1>4, <1>6, <1>7 DEF m
  <2>2. \A i \in 1 .. k + m + 6 :
          list[i] = IF i <= k + 4 THEN left[i] ELSE IF i <= (k + 4) + m THEN p[i - (k + 4)] ELSE c[i - ((k + 4) + m)]
    BY <1>1, <1>2, <1>6, <1>7, <2>1 DEF m
  <2>3. list[k + m + 5] = Blank /\ list[k + m + 6] = Semicolon
    <3> DEFINE x == k + m + 5
               y == k + m + 6
    <3>1. /\ x \in 1 .. k + m + 6 /\ ~(x <= k + 4) /\ ~(x <= (k + 4) + m) /\ x - ((k + 4) + m) = 1
          /\ y \in 1 .. k + m + 6 /\ ~(y <= k + 4) /\ ~(y <= (k + 4) + m) /\ y - ((k + 4) + m) = 2
      BY <1>1, <1>2
    <3> HIDE DEF x, y
    <3>2. list[x] = c[1] /\ list[y] = c[2]
      BY <2>2, <3>1
    <3> QED
      BY <1>4, <3>2 DEF x, y
  <2>4. \A i \in 1 .. k + 4 : list[i] = left[i]
    BY <1>1, <1>2, <2>2
  <2>5. \A i \in 1 .. m : list[(k + 4) + i] = p[i]
    BY <1>1, <1>2, <2>2
  <2> QED
    BY <2>1, <2>3, <2>4, <2>5
<1>9. /\ list[1] = Blank /\ list[k + 2] = Blank /\ list[k + 3] = Comma /\ list[k + 4] = Blank
      /\ \A i \in 1 .. k : list[1 + i] = q[i]
  <2>1. list[1] = Blank /\ list[k + 2] = Blank /\ list[k + 3] = Comma /\ list[k + 4] = Blank
    BY <1>2, <1>7, <1>8
  <2>2. ASSUME NEW i \in 1 .. k PROVE list[1 + i] = q[i]
    <3>1. 1 + i = i + 1 /\ i + 1 \in 1 .. k + 4
      BY <1>2
    <3> QED
      BY <1>7, <1>8, <3>1
  <2> QED
    BY <2>1, <2>2
<1>10. TwoRuns(list, Delimiters, 1, k + 2, k + 4, k + m + 5)
  <2>1. ASSUME NEW i \in 1 .. Len(list)
        PROVE  list[i] \in Delimiters <=> i < 1 \/ (i > k + 2 /\ i < k + 4) \/ i > k + m + 5
    <3> DEFINE j == i - 1
               h == i - (k + 4)
    <3>1. \/ i = 1 \/ i = k + 2 \/ i = k + 3 \/ i = k + 4 \/ i = k + m + 5 \/ i = k + m + 6
          \/ j \in 1 .. k /\ 1 + j = i
          \/ h \in 1 .. m /\ (k + 4) + h = i
      <4>1. i \in 1 .. k + m + 6 /\ k \in Nat /\ m \in Nat
        BY <1>1, <1>2, <1>8
      <4> QED
        BY <4>1
    <3> HIDE DEF j, h
    <3>2. CASE i = 1 \/ i = k + 2 \/ i = k + 4 \/ i = k + m + 5
      <4>1. list[i] \notin Delimiters
        BY <1>3, <1>8, <1>9, <3>2
      <4> QED
        BY <1>1, <1>2, <3>2, <4>1
    <3>3. CASE i = k + 3 \/ i = k + m + 6
      <4>1. list[i] \in Delimiters
        BY <1>3, <1>8, <1>9, <3>3
      <4> QED
        BY <1>1, <1>2, <3>3, <4>1
    <3>4. CASE j \in 1 .. k /\ 1 + j = i
      <4>1. list[i] \notin Delimiters
        BY <1>2, <1>9, <3>4 DEF k
      <4> QED
        BY <1>1, <1>2, <3>4, <4>1
    <3>5. CASE h \in 1 .. m /\ (k + 4) + h = i
      <4>1. list[i] \notin Delimiters
        BY <1>1, <1>8, <3>5 DEF m
      <4> QED
        BY <1>1, <1>2, <3>5, <4>1
    <3> QED
      BY <3>1, <3>2, <3>3, <3>4, <3>5
  <2>2. {1, k + 2, k + 4, k + m + 5} \subseteq Int
    BY <1>1, <1>2
  <2>3. 1 <= k + 2 /\ k + 2 + 1 < k + 4 /\ k + 4 <= k + m + 5 /\ k + m + 5 <= Len(list)
    BY <1>1, <1>2, <1>8
  <2> QED
    BY <2>1, <2>2, <2>3 DEF TwoRuns
<1>11. \A t : t \in Tokens(list, Delimiters) <=>
                 t = SubSeq(list, 1, k + 2) \/ t = SubSeq(list, k + 4, k + m + 5)
  <2>1. list \in Seq(Marks)
    BY <1>6
  <2> QED
    BY <1>10, <2>1, TwoTokensAre
<1>12. Cleaned(SubSeq(list, 1, k + 2)) = q
  <2>1. 1 + Len(q) + 1 <= Len(list) /\ 1 + Len(q) + 1 = k + 2 /\ 1 \in Nat \ {0}
    BY <1>1, <1>2, <1>8 DEF k
  <2>2. q \in Seq(Marks) /\ Len(q) \in Nat \ {0} /\ \A i \in 1 .. Len(q) : q[i] # Blank /\ q[i] # Quote
    BY <1>2 DEF k
  <2>3. list \in Seq(Marks) /\ list[1] = Blank /\ list[1 + Len(q) + 1] = Blank
    BY <1>6, <1>9, <2>1
  <2>4. \A i \in 1 .. Len(q) : list[1 + i] = q[i]
    BY <1>9 DEF k
  <2>5. Cleaned(SubSeq(list, 1, 1 + Len(q) + 1)) = q
    BY <2>1, <2>2, <2>3, <2>4, BlankPiece
  <2> QED
    BY <2>1, <2>5
<1>13. Cleaned(SubSeq(list, k + 4, k + m + 5)) = p
  <2> DEFINE s == k + 4
  <2>1. s + Len(p) + 1 <= Len(list) /\ s + Len(p) + 1 = k + m + 5 /\ s \in Nat \ {0}
    BY <1>1, <1>2, <1>8 DEF m
  <2>2. p \in Seq(Marks) /\ Len(p) \in Nat \ {0} /\ \A i \in 1 .. Len(p) : p[i] # Blank /\ p[i] # Quote
    BY <1>1 DEF m
  <2>3. list \in Seq(Marks) /\ list[s] = Blank /\ list[s + Len(p) + 1] = Blank
    BY <1>6, <1>8, <1>9, <2>1
  <2>4. \A i \in 1 .. Len(p) : list[s + i] = p[i]
    BY <1>8 DEF m
  <2> HIDE DEF s
  <2>5. Cleaned(SubSeq(list, s, s + Len(p) + 1)) = p
    BY <2>1, <2>2, <2>3, <2>4, BlankPiece
  <2> QED
    BY <2>1, <2>5 DEF s
<1>14. ~AllMatch(list)
  <2>1. Len(list) \in Nat /\ Len(list) > 1
    BY <1>1, <1>2, <1>8
  <2> QED
    BY <2>1, LongList
<1>15. match_process_list(list, path) <=> match_process_pattern(p, path) \/ match_process_pattern(q, path)
  <2> DEFINE u == SubSeq(list, 1, k + 2)
             t == SubSeq(list, k + 4, k + m + 5)
  <2>1. \A x : x \in Tokens(list, Delimiters) <=> x = u \/ x = t
    BY <1>11
  <2>2. Cleaned(u) = q /\ Cleaned(t) = p
    BY <1>12, <1>13
  <2> HIDE DEF u, t
  <2> QED
    BY <1>14, <2>1, <2>2, BothAre
<1>16. <<" ">> \o q \o <<" ", ",", " ">> \o p \o <<" ", ";">> = list
  BY Zenon DEF list, left, a, b, c, Blank, Comma, Semicolon
<1> QED
  BY <1>15, <1>16, Zenon

\* The entries of a list of names are alternatives, cleaned of blanks and quotes,
\* and see the file name of the path (match_process_list, match_process_pattern),
\* for any alphabet and entries of any length.
THEOREM ListsMatch == ListsRight
<1>1. MaxEntry \in Nat
  BY PatternConstants
<1>2. ASSUME NEW p \in Texts(Letters \cup {"*"}, MaxEntry) \ {<<>>},
             NEW q \in Texts(Letters \cup {"*"}, MaxEntry) \ {<<>>},
             NEW name \in Texts(Letters, MaxEntry) \ {<<>>}, NEW dir \in Letters
      PROVE  LET path == <<dir, "\\">> \o name
             IN  /\ \A list \in {p, <<" ">> \o p \o <<" ">>, <<"\"">> \o p \o <<"\"">>,
                                 <<";", ",">> \o p \o <<",">>} :
                      match_process_list(list, path) <=> match_process_pattern(p, name)
                 /\ \A list \in {q \o <<";">> \o p,
                                 <<" ">> \o q \o <<" ", ",", " ">> \o p \o <<" ", ";">>} :
                      match_process_list(list, path) <=>
                        match_process_pattern(p, name) \/ match_process_pattern(q, name)
  <2> DEFINE path == <<dir, "\\">> \o name
  <2>1. match_process_pattern(p, path) <=> match_process_pattern(p, name)
    BY <1>1, <1>2, FileOnly, Zenon
  <2>2. match_process_pattern(q, path) <=> match_process_pattern(q, name)
    BY <1>1, <1>2, FileOnly, Zenon
  <2>3. match_process_list(p, path) <=> match_process_pattern(p, path)
    BY <1>1, PlainList, Zenon
  <2>4. match_process_list(<<" ">> \o p \o <<" ">>, path) <=> match_process_pattern(p, path)
    BY <1>1, BlankList, Zenon
  <2>5. match_process_list(<<"\"">> \o p \o <<"\"">>, path) <=> match_process_pattern(p, path)
    BY <1>1, QuoteList, Zenon
  <2>6. match_process_list(<<";", ",">> \o p \o <<",">>, path) <=> match_process_pattern(p, path)
    BY <1>1, EmptyEntries, Zenon
  <2>7. match_process_list(q \o <<";">> \o p, path) <=>
          match_process_pattern(p, path) \/ match_process_pattern(q, path)
    BY <1>1, TwoEntries, Zenon
  <2>8. match_process_list(<<" ">> \o q \o <<" ", ",", " ">> \o p \o <<" ", ";">>, path) <=>
          match_process_pattern(p, path) \/ match_process_pattern(q, path)
    BY <1>1, BlankEntries, Zenon
  <2>9. ASSUME NEW list \in {p, <<" ">> \o p \o <<" ">>, <<"\"">> \o p \o <<"\"">>,
                             <<";", ",">> \o p \o <<",">>}
        PROVE  match_process_list(list, path) <=> match_process_pattern(p, name)
    BY <2>1, <2>3, <2>4, <2>5, <2>6, Zenon
  <2>10. ASSUME NEW list \in {q \o <<";">> \o p,
                              <<" ">> \o q \o <<" ", ",", " ">> \o p \o <<" ", ";">>}
         PROVE  match_process_list(list, path) <=>
                  match_process_pattern(p, name) \/ match_process_pattern(q, name)
    BY <2>1, <2>2, <2>7, <2>8, Zenon
  <2> QED
    BY <2>9, <2>10, Zenon
<1> QED
  BY <1>2, Zenon DEF ListsRight

-----------------------------------------------------------------------------
(* match_port_pattern *)

Signs == DOMAIN Number \cup {Comma, Blank, "-"}

\* Letters of numbers are no separators and no dashes.
LEMMA SignsDiffer ==
  /\ \A c \in DOMAIN Number : c \notin Delimiters /\ c # Blank /\ c # "-" /\ c # "*" /\ c \in Signs
  /\ {Comma, Blank, "-"} \subseteq Signs /\ Comma \in Delimiters /\ Blank \notin Delimiters
  /\ "-" \notin Delimiters /\ "-" # Blank
  BY PatternConstants, Zenon DEF Signs, Delimiters, Blank, Comma, Semicolon

LEMMA NumberIs ==
  ASSUME NEW c \in DOMAIN Number
  PROVE  Number[c] \in Nat
  BY PatternConstants

\* The number at the beginning of a text.
LEMMA NumberRead ==
  ASSUME NEW S, NEW t \in Seq(S), Len(t) \in Nat \ {0}, t[1] \in DOMAIN Number, t[1] # "-"
  PROVE  atoi(t) = Number[t[1]]
<1>1. 1 \in DOMAIN t
  OBVIOUS
<1> QED
  BY <1>1, Zenon DEF atoi

LEMMA EmptyRead == atoi(<<>>) = 0
<1>1. 1 \notin DOMAIN <<>>
  OBVIOUS
<1> QED
  BY <1>1, Zenon DEF atoi

LEMMA NegativeRead ==
  ASSUME NEW b \in DOMAIN Number
  PROVE  atoi(<<"-", b>>) = -Number[b]
<1> DEFINE t == <<"-", b>>
<1>1. t # <<>> /\ t[1] = "-" /\ 2 \in DOMAIN t /\ t[2] = b
  OBVIOUS
<1> HIDE DEF t
<1>2. atoi(t) = -Number[b]
  BY <1>1, Zenon DEF atoi
<1> QED
  BY <1>2 DEF t

\* A token without dash, and one with a dash at place d.
LEMMA PlainPort ==
  ASSUME NEW t, \A i \in DOMAIN t : t[i] # "-", NEW port
  PROVE  match_port_pattern(t, port) <=> port = atoi(t)
<1>1. {i \in DOMAIN t : t[i] = "-"} = {}
  OBVIOUS
<1> QED
  BY <1>1, Zenon DEF match_port_pattern

LEMMA DashedPort ==
  ASSUME NEW t, NEW d \in Int, \A i : i \in DOMAIN t /\ t[i] = "-" <=> i = d, NEW port
  PROVE  match_port_pattern(t, port) <=> port >= atoi(t) /\ port <= atoi(From(t, d))
<1> DEFINE dashes == {i \in DOMAIN t : t[i] = "-"}
<1>1. dashes = {d}
  OBVIOUS
<1> HIDE DEF dashes
<1>2. (CHOOSE i \in dashes : \A j \in dashes : i <= j) = d
  BY <1>1
<1>3. dashes # {}
  BY <1>1
<1> QED
  BY <1>2, <1>3, Zenon DEF match_port_pattern, dashes

\* The tokens of lists without separator, and their ports.
LEMMA OneToken ==
  ASSUME NEW S, NEW t \in Seq(S), Len(t) \in Nat \ {0},
         \A i \in 1 .. Len(t) : t[i] \notin Delimiters /\ t[i] # Blank
  PROVE  parse_token_list(t, Delimiters) = {t}
<1>1. Tokens(t, Delimiters) = {SubSeq(t, 1, Len(t))}
  <2>1. \A i \in 1 .. Len(t) : t[i] \in Delimiters <=> i < 1 \/ i > Len(t)
    OBVIOUS
  <2>2. 1 \in 1 .. Len(t) /\ Len(t) \in 1 .. Len(t)
    OBVIOUS
  <2> QED
    BY <2>1, <2>2, TokenIs
<1>2. skip_whitespace(t) = SubSeq(t, 0 + 1, Len(t))
  BY SkipIs
<1>3. SubSeq(t, 1, Len(t)) = t
  BY SubSeqFull
<1>4. 0 + 1 = 1
  OBVIOUS
<1> QED
  BY <1>1, <1>2, <1>3, <1>4, Zenon DEF parse_token_list

PortMatches(list, port) ==
  AllMatch(list) \/ \E t \in parse_token_list(list, Delimiters) : match_port_pattern(t, port)

\* Two numbers, with a blank before the second.
LEMMA TwoPorts ==
  ASSUME NEW a \in DOMAIN Number, NEW b \in DOMAIN Number, NEW port \in Nat
  PROVE  PortMatches(<<a, Comma, Blank, b>>, port) <=> port \in {Number[a], Number[b]}
<1> DEFINE list == <<a, Comma, Blank, b>>
<1>1. /\ a \notin Delimiters /\ a # Blank /\ a # "-" /\ a \in Signs
      /\ b \notin Delimiters /\ b # Blank /\ b # "-" /\ b \in Signs
      /\ Comma \in Signs /\ Blank \in Signs /\ Comma \in Delimiters /\ Blank \notin Delimiters
  BY SignsDiffer
<1>2. /\ list \in Seq(Signs) /\ Len(list) = 4
      /\ list[1] = a /\ list[2] = Comma /\ list[3] = Blank /\ list[4] = b
  BY <1>1
<1> HIDE DEF list
<1>3. TwoRuns(list, Delimiters, 1, 1, 3, 4)
  <2>1. \A i \in 1 .. 4 : i = 1 \/ i = 2 \/ i = 3 \/ i = 4
    OBVIOUS
  <2>2. \A i \in 1 .. 4 : list[i] \in Delimiters <=> i < 1 \/ (i > 1 /\ i < 3) \/ i > 4
    BY <1>1, <1>2, <2>1
  <2> QED
    BY <1>2, <2>2 DEF TwoRuns
<1>4. \A t : t \in Tokens(list, Delimiters) <=> t = SubSeq(list, 1, 1) \/ t = SubSeq(list, 3, 4)
  <2>1. list \in Seq(Signs)
    BY <1>2
  <2> DEFINE s1 == 1
             e1 == 1
             s2 == 3
             e2 == 4
  <2>2. TwoRuns(list, Delimiters, s1, e1, s2, e2)
    BY <1>3
  <2> HIDE DEF s1, e1, s2, e2
  <2>3. \A t : t \in Tokens(list, Delimiters) <=> t = SubSeq(list, s1, e1) \/ t = SubSeq(list, s2, e2)
    BY <2>1, <2>2, TwoTokensAre
  <2> QED
    BY <2>3 DEF s1, e1, s2, e2
<1>5. SubSeq(list, 1, 1) = <<a>>
  <2>1. <<a>> \in Seq(Signs) /\ Len(<<a>>) = 1 /\ <<a>>[1] = a
    BY <1>1
  <2> DEFINE t == <<a>>
  <2> HIDE DEF t
  <2>2. t \in Seq(Signs) /\ (1 - 1) + 1 = Len(t) /\ \A i \in 1 .. Len(t) : list[(1 + i) - 1] = t[i]
    BY <1>2, <2>1 DEF t
  <2>3. SubSeq(list, 1, 1) = t
    BY <2>2, PieceIs
  <2> QED
    BY <2>3 DEF t
<1>6. SubSeq(list, 3, 4) = <<Blank, b>>
  <2> DEFINE t == <<Blank, b>>
  <2>1. t \in Seq(Signs) /\ Len(t) = 2 /\ t[1] = Blank /\ t[2] = b
    BY <1>1
  <2> HIDE DEF t
  <2>2. (4 - 3) + 1 = Len(t)
    BY <2>1
  <2>3. \A i \in 1 .. Len(t) : list[(3 + i) - 1] = t[i]
    BY <1>2, <2>1
  <2>4. SubSeq(list, 3, 4) = t
    BY <2>1, <2>2, <2>3, PieceIs
  <2> QED
    BY <2>4 DEF t
<1>7. skip_whitespace(<<a>>) = <<a>>
  <2> DEFINE t == <<a>>
  <2>1. t \in Seq(Signs) /\ Len(t) = 1 /\ t[1] = a
    BY <1>1
  <2> HIDE DEF t
  <2>2. skip_whitespace(t) = SubSeq(t, 0 + 1, Len(t))
    BY <1>1, <2>1, SkipIs
  <2>3. SubSeq(t, 1, Len(t)) = t
    BY <2>1, SubSeqFull
  <2> QED
    BY <2>2, <2>3 DEF t
<1>8. skip_whitespace(<<Blank, b>>) = <<b>>
  <2> DEFINE t == <<Blank, b>>
             u == <<b>>
  <2>1. t \in Seq(Signs) /\ Len(t) = 2 /\ t[1] = Blank /\ t[2] = b
    BY <1>1
  <2>2. u \in Seq(Signs) /\ Len(u) = 1 /\ u[1] = b
    BY <1>1
  <2> HIDE DEF t, u
  <2>3. skip_whitespace(t) = SubSeq(t, 1 + 1, Len(t))
    <3>1. 1 \in 0 .. Len(t) /\ \A i \in 1 .. 1 : t[i] = Blank
      BY <2>1
    <3>2. 1 < Len(t) => t[1 + 1] # Blank
      BY <1>1, <2>1
    <3> QED
      BY <2>1, <3>1, <3>2, SkipIs
  <2>4. SubSeq(t, 2, 2) = u
    <3>1. (2 - 2) + 1 = Len(u)
      BY <2>2
    <3>2. \A i \in 1 .. Len(u) : t[(2 + i) - 1] = u[i]
      BY <2>1, <2>2
    <3> QED
      BY <2>2, <3>1, <3>2, PieceIs
  <2> QED
    BY <2>1, <2>3, <2>4 DEF t, u
<1>9. \A t : t \in parse_token_list(list, Delimiters) <=> t = <<a>> \/ t = <<b>>
  <2> DEFINE x == <<a>>
             y == <<b>>
             z == <<Blank, b>>
             T == Tokens(list, Delimiters)
  <2>1. \A t : t \in T <=> t = x \/ t = z
    BY <1>4, <1>5, <1>6
  <2>2. skip_whitespace(x) = x /\ skip_whitespace(z) = y
    BY <1>7, <1>8
  <2>3. parse_token_list(list, Delimiters) = {skip_whitespace(t) : t \in T}
    BY DEF parse_token_list
  <2> HIDE DEF x, y, z, T
  <2>4. \A t : t \in {skip_whitespace(s) : s \in T} <=> \E s \in T : t = skip_whitespace(s)
    BY Zenon
  <2>5. \A t : t \in parse_token_list(list, Delimiters) <=> t = x \/ t = y
    BY <2>1, <2>2, <2>3, <2>4
  <2> QED
    BY <2>5 DEF x, y
<1>10. ASSUME NEW c \in DOMAIN Number PROVE match_port_pattern(<<c>>, port) <=> port = Number[c]
  <2> DEFINE t == <<c>>
  <2>1. t \in Seq(Signs) /\ Len(t) = 1 /\ t[1] = c /\ DOMAIN t = {1} /\ c # "-"
    BY SignsDiffer
  <2> HIDE DEF t
  <2>2. atoi(t) = Number[c]
    <3>1. t \in Seq(Signs) /\ Len(t) \in Nat \ {0} /\ t[1] \in DOMAIN Number /\ t[1] # "-"
      BY <2>1
    <3> QED
      BY <2>1, <3>1, NumberRead
  <2>3. match_port_pattern(t, port) <=> port = atoi(t)
    BY <2>1, PlainPort
  <2> QED
    BY <2>2, <2>3 DEF t
<1>11. ~AllMatch(list)
  <2>1. Len(list) \in Nat /\ Len(list) > 1
    BY <1>2
  <2> QED
    BY <2>1, LongList
<1>12. PortMatches(list, port) <=> port = Number[a] \/ port = Number[b]
  <2>1. /\ match_port_pattern(<<a>>, port) <=> port = Number[a]
        /\ match_port_pattern(<<b>>, port) <=> port = Number[b]
    BY <1>10
  <2> QED
    BY <1>9, <1>11, <2>1, Zenon DEF PortMatches
<1> QED
  BY <1>12 DEF list

\* A list of one interval is read as its only entry.
LEMMA OneInterval ==
  ASSUME NEW t \in Seq(Signs), Len(t) \in Nat, Len(t) > 1,
         \A i \in 1 .. Len(t) : t[i] \in DOMAIN Number \cup {"-"}, NEW port
  PROVE  PortMatches(t, port) <=> match_port_pattern(t, port)
<1>1. \A i \in 1 .. Len(t) : t[i] \notin Delimiters /\ t[i] # Blank
  BY SignsDiffer, Zenon
<1>2. parse_token_list(t, Delimiters) = {t}
  BY <1>1, OneToken
<1>3. ~AllMatch(t)
  BY LongList
<1> QED
  BY <1>2, <1>3, Zenon DEF PortMatches

\* Intervals with both ends, without start and without end.
LEMMA Interval ==
  ASSUME NEW a \in DOMAIN Number, NEW b \in DOMAIN Number, NEW port \in Nat
  PROVE  PortMatches(<<a, "-", b>>, port) <=> port \in Number[a] .. Number[b]
<1> DEFINE t == <<a, "-", b>>
           u == <<b>>
<1>1. a \in Signs /\ b \in Signs /\ "-" \in Signs /\ a # "-" /\ b # "-"
  BY SignsDiffer
<1>2. /\ t \in Seq(Signs) /\ Len(t) = 3 /\ t[1] = a /\ t[2] = "-" /\ t[3] = b /\ DOMAIN t = 1 .. 3
      /\ u \in Seq(Signs) /\ Len(u) = 1 /\ u[1] = b
  BY <1>1
<1> HIDE DEF t, u
<1>3. PortMatches(t, port) <=> match_port_pattern(t, port)
  <2>1. \A i \in 1 .. Len(t) : t[i] \in DOMAIN Number \cup {"-"}
    BY <1>2
  <2>2. t \in Seq(Signs) /\ Len(t) \in Nat /\ Len(t) > 1
    BY <1>2
  <2> QED
    BY <2>1, <2>2, OneInterval
<1>4. match_port_pattern(t, port) <=> port >= atoi(t) /\ port <= atoi(From(t, 2))
  <2>1. \A i : i \in DOMAIN t /\ t[i] = "-" <=> i = 2
    BY <1>1, <1>2
  <2> QED
    BY <2>1, DashedPort
<1>5. atoi(t) = Number[a]
  <2>1. t \in Seq(Signs) /\ Len(t) \in Nat \ {0} /\ t[1] \in DOMAIN Number /\ t[1] # "-"
    BY <1>1, <1>2
  <2> QED
    BY <1>2, <2>1, NumberRead
<1>6. From(t, 2) = u
  <2>1. (3 - 3) + 1 = Len(u)
    BY <1>2
  <2>2. \A i \in 1 .. Len(u) : t[(3 + i) - 1] = u[i]
    BY <1>2
  <2>3. SubSeq(t, 3, 3) = u
    BY <1>2, <2>1, <2>2, PieceIs
  <2> QED
    BY <1>2, <2>3 DEF From
<1>7. atoi(u) = Number[b]
  <2>1. u \in Seq(Signs) /\ Len(u) \in Nat \ {0} /\ u[1] \in DOMAIN Number /\ u[1] # "-"
    BY <1>1, <1>2
  <2> QED
    BY <1>2, <2>1, NumberRead
<1>8. Number[a] \in Nat /\ Number[b] \in Nat
  BY NumberIs
<1>9. PortMatches(t, port) <=> port >= Number[a] /\ port <= Number[b]
  BY <1>3, <1>4, <1>5, <1>6, <1>7, Zenon
<1> QED
  BY <1>8, <1>9 DEF t

LEMMA NoStart ==
  ASSUME NEW b \in DOMAIN Number, NEW port \in Nat
  PROVE  PortMatches(<<"-", b>>, port) <=> port \in 0 .. Number[b]
<1> DEFINE t == <<"-", b>>
           u == <<b>>
<1>1. b \in Signs /\ "-" \in Signs /\ b # "-"
  BY SignsDiffer
<1>2. /\ t \in Seq(Signs) /\ Len(t) = 2 /\ t[1] = "-" /\ t[2] = b /\ DOMAIN t = 1 .. 2
      /\ u \in Seq(Signs) /\ Len(u) = 1 /\ u[1] = b
  BY <1>1
<1>3. atoi(t) = -Number[b]
  BY NegativeRead
<1> HIDE DEF t, u
<1>4. PortMatches(t, port) <=> match_port_pattern(t, port)
  <2>1. \A i \in 1 .. Len(t) : t[i] \in DOMAIN Number \cup {"-"}
    BY <1>2
  <2>2. t \in Seq(Signs) /\ Len(t) \in Nat /\ Len(t) > 1
    BY <1>2
  <2> QED
    BY <2>1, <2>2, OneInterval
<1>5. match_port_pattern(t, port) <=> port >= atoi(t) /\ port <= atoi(From(t, 1))
  <2>1. \A i : i \in DOMAIN t /\ t[i] = "-" <=> i = 1
    BY <1>1, <1>2
  <2> QED
    BY <2>1, DashedPort
<1>6. From(t, 1) = u
  <2>1. (2 - 2) + 1 = Len(u)
    BY <1>2
  <2>2. \A i \in 1 .. Len(u) : t[(2 + i) - 1] = u[i]
    BY <1>2
  <2>3. SubSeq(t, 2, 2) = u
    BY <1>2, <2>1, <2>2, PieceIs
  <2> QED
    BY <1>2, <2>3 DEF From
<1>7. atoi(u) = Number[b]
  <2>1. u \in Seq(Signs) /\ Len(u) \in Nat \ {0} /\ u[1] \in DOMAIN Number /\ u[1] # "-"
    BY <1>1, <1>2
  <2> QED
    BY <1>2, <2>1, NumberRead
<1>8. Number[b] \in Nat
  BY NumberIs
<1>9. PortMatches(t, port) <=> port >= -Number[b] /\ port <= Number[b]
  BY <1>3, <1>4, <1>5, <1>6, <1>7, Zenon
<1> QED
  BY <1>8, <1>9 DEF t

LEMMA NoEnd ==
  ASSUME NEW a \in DOMAIN Number, NEW port \in Nat
  PROVE  PortMatches(<<a, "-">>, port) <=> port = 0 /\ Number[a] = 0
<1> DEFINE t == <<a, "-">>
<1>1. a \in Signs /\ "-" \in Signs /\ a # "-"
  BY SignsDiffer
<1>2. t \in Seq(Signs) /\ Len(t) = 2 /\ t[1] = a /\ t[2] = "-" /\ DOMAIN t = 1 .. 2
  BY <1>1
<1> HIDE DEF t
<1>3. PortMatches(t, port) <=> match_port_pattern(t, port)
  <2>1. \A i \in 1 .. Len(t) : t[i] \in DOMAIN Number \cup {"-"}
    BY <1>2
  <2>2. t \in Seq(Signs) /\ Len(t) \in Nat /\ Len(t) > 1
    BY <1>2
  <2> QED
    BY <2>1, <2>2, OneInterval
<1>4. match_port_pattern(t, port) <=> port >= atoi(t) /\ port <= atoi(From(t, 2))
  <2>1. \A i : i \in DOMAIN t /\ t[i] = "-" <=> i = 2
    BY <1>1, <1>2
  <2> QED
    BY <2>1, DashedPort
<1>5. atoi(t) = Number[a]
  <2>1. t \in Seq(Signs) /\ Len(t) \in Nat \ {0} /\ t[1] \in DOMAIN Number /\ t[1] # "-"
    BY <1>1, <1>2
  <2> QED
    BY <1>2, <2>1, NumberRead
<1>6. From(t, 2) = <<>>
  <2>1. SubSeq(t, 3, 2) = <<>>
    BY SubSeqEmpty
  <2> QED
    BY <1>2, <2>1 DEF From
<1>7. Number[a] \in Nat
  BY NumberIs
<1>8. PortMatches(t, port) <=> port >= Number[a] /\ port <= 0
  BY <1>3, <1>4, <1>5, <1>6, EmptyRead, Zenon
<1> QED
  BY <1>7, <1>8 DEF t

\* A list of ports is the union of its numbers and intervals (parse_token_list,
\* match_port_pattern), for any numbers.
THEOREM PortsMatch == PortsRight
<1>1. ASSUME NEW a \in DOMAIN Number, NEW b \in DOMAIN Number, NEW port \in 0 .. MaxLength
      PROVE  LET matches(list) ==
                   \/ AllMatch(list)
                   \/ \E t \in parse_token_list(list, {",", ";"}) : match_port_pattern(t, port)
             IN  /\ matches(<<a, ",", " ", b>>) <=> port \in {Number[a], Number[b]}
                 /\ matches(<<a, "-", b>>) <=> port \in Number[a] .. Number[b]
                 /\ matches(<<"-", b>>) <=> port \in 0 .. Number[b]
                 /\ matches(<<a, "-">>) <=> port = 0 /\ Number[a] = 0
  <2> DEFINE matches(list) ==
               \/ AllMatch(list)
               \/ \E t \in parse_token_list(list, {",", ";"}) : match_port_pattern(t, port)
  <2>1. port \in Nat
    OBVIOUS
  <2>2. \A list : matches(list) <=> PortMatches(list, port)
    BY Zenon DEF PortMatches, Delimiters, Comma, Semicolon
  <2>3. <<a, ",", " ", b>> = <<a, Comma, Blank, b>>
    BY Zenon DEF Comma, Blank
  <2> HIDE DEF matches
  <2>4. matches(<<a, ",", " ", b>>) <=> port \in {Number[a], Number[b]}
    BY <2>1, <2>2, <2>3, TwoPorts, Zenon
  <2>5. matches(<<a, "-", b>>) <=> port \in Number[a] .. Number[b]
    BY <2>1, <2>2, Interval, Zenon
  <2>6. matches(<<"-", b>>) <=> port \in 0 .. Number[b]
    BY <2>1, <2>2, NoStart, Zenon
  <2>7. matches(<<a, "-">>) <=> port = 0 /\ Number[a] = 0
    BY <2>1, <2>2, NoEnd, Zenon
  <2> QED
    BY <2>4, <2>5, <2>6, <2>7, Zenon DEF matches
<1> QED
  BY <1>1, Zenon DEF PortsRight

-----------------------------------------------------------------------------
(* match_ip_pattern and match_ip_pattern_v6 *)

-----------------------------------------------------------------------------
(* Numbers digit by digit *)

LEMMA Quotient ==
  ASSUME NEW d \in Nat \ {0}, NEW q \in Nat, NEW r \in 0 .. d - 1
  PROVE  (d * q + r) \div d = q /\ (d * q + r) % d = r
OBVIOUS

LEMMA Division ==
  ASSUME NEW d \in Nat \ {0}, NEW x \in Nat
  PROVE  /\ x \div d \in Nat /\ x % d \in 0 .. d - 1
         /\ x = d * (x \div d) + (x % d)
OBVIOUS

LEMMA Times ==
  ASSUME NEW d \in Nat, NEW p \in Nat, NEW q \in Nat, p < q
  PROVE  d * p + d <= d * q
OBVIOUS

\* A larger number stays larger whatever the next digit is.
LEMMA Digit ==
  ASSUME NEW m \in Nat, NEW n \in Nat, NEW base \in Nat, NEW x \in 0 .. base - 1, NEW y \in 0 .. base - 1, m < n
  PROVE  m * base + x < n * base + y
<1>1. m * base + base <= n * base
  OBVIOUS
<1>2. m * base \in Nat /\ n * base \in Nat
  OBVIOUS
<1> QED
  BY <1>1, <1>2

SumsOf(base, N, b, f) ==
  f = [i \in 0 .. N |-> IF i = 0 THEN 0 ELSE f[i - 1] * base + b[i]]

\* f adds up the digits b one by one.
Sums(base, N, b, f) ==
  \A i \in 0 .. N : f[i] = IF i = 0 THEN 0 ELSE f[i - 1] * base + b[i]

\* The sums of digits are numbers, and there are such sums.
LEMMA SumsType ==
  ASSUME NEW base \in Nat, NEW N \in Nat, NEW b, \A i \in 1 .. N : b[i] \in Nat,
         NEW f, Sums(base, N, b, f)
  PROVE  \A i \in 0 .. N : f[i] \in Nat
<1> DEFINE Bad == {i \in 0 .. N : f[i] \notin Nat}
<1> SUFFICES ASSUME Bad # {} PROVE FALSE
  OBVIOUS
<1>1. Bad \subseteq Nat
  OBVIOUS
<1>2. PICK i \in Bad : \A y \in Bad : i <= y
  BY <1>1, Least
<1>3. f[0] = 0
  BY DEF Sums
<1>4. i \in 1 .. N
  BY <1>3
<1>5. f[i - 1] \in Nat
  BY <1>2, <1>4
<1>6. f[i - 1] * base \in Nat
  BY <1>5
<1>7. f[i] = f[i - 1] * base + b[i]
  BY <1>4 DEF Sums
<1> QED
  BY <1>4, <1>6, <1>7

LEMMA SumsExist ==
  ASSUME NEW base \in Nat, NEW N \in Nat, NEW b, \A i \in 1 .. N : b[i] \in Nat
  PROVE  \E f : SumsOf(base, N, b, f)
<1> DEFINE Built(k) == \E f : Sums(base, k, b, f)
           Bad == {k \in 0 .. N : ~Built(k)}
<1>1. Built(0)
  <2> DEFINE f == [i \in 0 .. 0 |-> 0]
  <2>1. Sums(base, 0, b, f)
    BY DEF Sums
  <2> QED
    BY <2>1
<1>2. ASSUME NEW k \in 1 .. N, Built(k - 1) PROVE Built(k)
  <2>1. PICK f : Sums(base, k - 1, b, f)
    BY <1>2
  <2> DEFINE top == f[k - 1] * base + b[k]
             g == [i \in 0 .. k |-> IF i = k THEN top ELSE f[i]]
  <2>5. \A i \in 0 .. k : g[i] = IF i = k THEN top ELSE f[i]
    OBVIOUS
  <2>7. ASSUME NEW i \in 0 .. k PROVE g[i] = IF i = 0 THEN 0 ELSE g[i - 1] * base + b[i]
    <3>1. CASE i = k
      <4>1. g[i] = top /\ g[i - 1] = f[k - 1]
        BY <2>5, <3>1
      <4> HIDE DEF g
      <4> QED
        BY <3>1, <4>1
    <3>2. CASE i # k
      <4>1. i \in 0 .. k - 1 /\ g[i] = f[i] /\ (i # 0 => g[i - 1] = f[i - 1])
        BY <2>5, <3>2
      <4> HIDE DEF g
      <4> QED
        BY <2>1, <4>1 DEF Sums
    <3> QED
      BY <3>1, <3>2
  <2> HIDE DEF g
  <2> QED
    BY <2>7 DEF Sums
<1> HIDE DEF Built
<1>3. Bad = {}
  <2> SUFFICES ASSUME Bad # {} PROVE FALSE
    OBVIOUS
  <2>1. Bad \subseteq Nat
    OBVIOUS
  <2>2. PICK k \in Bad : \A y \in Bad : k <= y
    BY <2>1, Least
  <2>3. k \in 1 .. N /\ ~Built(k)
    BY <1>1, <2>2
  <2>4. Built(k - 1)
    BY <2>2, <2>3
  <2> QED
    BY <1>2, <2>3, <2>4
<1>4. Built(N)
  BY <1>3
<1>5. PICK f : Sums(base, N, b, f)
  BY <1>4 DEF Built
<1> DEFINE h == [i \in 0 .. N |-> f[i]]
<1>6. \A i \in 0 .. N : h[i] = IF i = 0 THEN 0 ELSE h[i - 1] * base + b[i]
  <2> SUFFICES ASSUME NEW i \in 0 .. N PROVE h[i] = IF i = 0 THEN 0 ELSE h[i - 1] * base + b[i]
    OBVIOUS
  <2>1. h[i] = f[i] /\ (i # 0 => h[i - 1] = f[i - 1])
    OBVIOUS
  <2> HIDE DEF h
  <2> QED
    BY <1>5, <2>1 DEF Sums
<1>7. h = [i \in 0 .. N |-> IF i = 0 THEN 0 ELSE h[i - 1] * base + b[i]]
  <2>1. h = [i \in 0 .. N |-> h[i]]
    OBVIOUS
  <2> HIDE DEF h
  <2> QED
    BY <1>6, <2>1
<1> QED
  BY <1>7 DEF SumsOf

\* The first digit that differs decides.
LEMMA SumsOrder ==
  ASSUME NEW base \in Nat \ {0}, NEW N \in Nat, NEW a, NEW b, NEW f, NEW g,
         Sums(base, N, a, f), Sums(base, N, b, g),
         \A i \in 1 .. N : a[i] \in 0 .. base - 1 /\ b[i] \in 0 .. base - 1,
         NEW i \in 1 .. N, \A j \in 1 .. i - 1 : a[j] = b[j], a[i] < b[i]
  PROVE  f[N] < g[N]
<1>0. /\ \A j \in 0 .. N : f[j] \in Nat /\ g[j] \in Nat
      /\ \A j \in 1 .. N : f[j] = f[j - 1] * base + a[j] /\ g[j] = g[j - 1] * base + b[j]
      /\ f[0] = 0 /\ g[0] = 0
  <2>1. \A j \in 0 .. N : f[j] \in Nat /\ g[j] \in Nat
    BY SumsType
  <2>2. \A j \in 1 .. N : f[j] = f[j - 1] * base + a[j] /\ g[j] = g[j - 1] * base + b[j]
    BY DEF Sums
  <2>3. f[0] = 0 /\ g[0] = 0
    BY DEF Sums
  <2> QED
    BY <2>1, <2>2, <2>3
<1> DEFINE Wrong == {j \in 0 .. i - 1 : f[j] # g[j]}
           Bad == {j \in i .. N : ~(f[j] < g[j])}
<1>1. Wrong = {}
  <2> SUFFICES ASSUME Wrong # {} PROVE FALSE
    OBVIOUS
  <2>1. Wrong \subseteq Nat
    OBVIOUS
  <2>2. PICK j \in Wrong : \A y \in Wrong : j <= y
    BY <2>1, Least
  <2>3. j \in 1 .. i - 1 /\ j \in 1 .. N /\ f[j] # g[j]
    BY <1>0, <2>2
  <2>4. f[j - 1] = g[j - 1]
    BY <2>2, <2>3
  <2> QED
    BY <1>0, <2>3, <2>4
<1>2. f[i - 1] = g[i - 1]
  BY <1>1
<1>3. f[i] < g[i]
  <2>1. f[i - 1] * base \in Nat
    BY <1>0
  <2> QED
    BY <1>0, <1>2, <2>1
<1>4. Bad = {}
  <2> SUFFICES ASSUME Bad # {} PROVE FALSE
    OBVIOUS
  <2>1. Bad \subseteq Nat
    OBVIOUS
  <2>2. PICK j \in Bad : \A y \in Bad : j <= y
    BY <2>1, Least
  <2>3. j \in i + 1 .. N /\ j - 1 \in i .. N /\ ~(f[j] < g[j])
    BY <1>3, <2>2
  <2>4. f[j - 1] < g[j - 1]
    BY <2>2, <2>3
  <2>5. f[j - 1] \in Nat /\ g[j - 1] \in Nat /\ a[j] \in 0 .. base - 1 /\ b[j] \in 0 .. base - 1
    BY <1>0, <2>3
  <2>6. f[j - 1] * base + a[j] < g[j - 1] * base + b[j]
    BY <2>4, <2>5, Digit
  <2> QED
    BY <1>0, <2>3, <2>6
<1> QED
  BY <1>4

-----------------------------------------------------------------------------
(* IPv4 *)

\* Sizes are positive.
LEMMA Sizes ==
  Octet \in Nat \ {0} /\ Octets \in Nat \ {0} /\ Bits \in Nat \ {0}
BY PatternConstants

\* The number that is compared is the sum of the octets.
LEMMA SwappedIs ==
  ASSUME NEW ip \in Address
  PROVE  \E f : Sums(Octet, Octets, ip, f) /\ Swapped(ip) = f[Octets]
<1>1. Octet \in Nat /\ Octets \in Nat /\ \A i \in 1 .. Octets : ip[i] \in Nat
  BY Sizes DEF Address
<1>2. \E f : SumsOf(Octet, Octets, ip, f)
  BY <1>1, SumsExist
<1> DEFINE n == CHOOSE g : SumsOf(Octet, Octets, ip, g)
<1>3. SumsOf(Octet, Octets, ip, n)
  BY <1>2, Zenon
<1>4. Swapped(ip) = n[Octets]
  BY DEF Swapped, SumsOf
<1> HIDE DEF n
<1>5. Sums(Octet, Octets, ip, n)
  BY <1>3 DEF Sums, SumsOf
<1> QED
  BY <1>4, <1>5

\* The order of addresses, octet by octet.
Before(a, b) ==
  \/ a = b
  \/ \E i \in 1 .. Octets : /\ \A j \in 1 .. i - 1 : a[j] = b[j]
                            /\ a[i] < b[i]

\* Two addresses are the same, or there is a first octet that differs.
LEMMA Differ ==
  ASSUME NEW a \in Address, NEW b \in Address, a # b
  PROVE  \E i \in 1 .. Octets : a[i] # b[i] /\ \A j \in 1 .. i - 1 : a[j] = b[j]
<1> DEFINE Bad == {i \in 1 .. Octets : a[i] # b[i]}
<1>1. Bad # {}
  <2> SUFFICES ASSUME \A i \in 1 .. Octets : a[i] = b[i] PROVE FALSE
    OBVIOUS
  <2>1. a \in [1 .. Octets -> 0 .. Octet - 1] /\ b \in [1 .. Octets -> 0 .. Octet - 1]
    BY DEF Address
  <2>2. a = [i \in 1 .. Octets |-> a[i]] /\ b = [i \in 1 .. Octets |-> b[i]]
    BY <2>1
  <2>3. [i \in 1 .. Octets |-> a[i]] = [i \in 1 .. Octets |-> b[i]]
    OBVIOUS
  <2> QED
    BY <2>2, <2>3, Zenon
<1>2. Bad \subseteq Nat
  OBVIOUS
<1>3. PICK i \in Bad : \A y \in Bad : i <= y
  BY <1>1, <1>2, Least
<1>4. \A j \in 1 .. i - 1 : j \in 1 .. Octets /\ j < i /\ ~(i <= j)
  BY Sizes
<1>5. \A j \in 1 .. i - 1 : a[j] = b[j]
  BY <1>3, <1>4
<1> QED
  BY <1>5

\* The numbers are in the order of the addresses.
LEMMA OrderIs ==
  ASSUME NEW a \in Address, NEW b \in Address
  PROVE  Swapped(a) <= Swapped(b) <=> Before(a, b)
<1>0. \A i \in 1 .. Octets : a[i] \in 0 .. Octet - 1 /\ b[i] \in 0 .. Octet - 1
  BY DEF Address
<1>00. \A i \in 1 .. Octets : a[i] \in Nat /\ b[i] \in Nat
  BY <1>0, Sizes
<1>1. PICK f : Sums(Octet, Octets, a, f) /\ Swapped(a) = f[Octets]
  BY SwappedIs
<1>2. PICK g : Sums(Octet, Octets, b, g) /\ Swapped(b) = g[Octets]
  BY SwappedIs
<1>3. f[Octets] \in Nat /\ g[Octets] \in Nat
  <2>1. Octets \in 0 .. Octets
    BY Sizes
  <2> QED
    BY <1>00, <1>1, <1>2, <2>1, Sizes, SumsType
<1>4. CASE a = b
  BY <1>1, <1>3, <1>4 DEF Before
<1>5. CASE a # b
  <2>1. PICK i \in 1 .. Octets : a[i] # b[i] /\ \A j \in 1 .. i - 1 : a[j] = b[j]
    BY <1>5, Differ
  <2>2. CASE a[i] < b[i]
    <3>1. f[Octets] < g[Octets]
      BY <1>0, <1>1, <1>2, <2>1, <2>2, Sizes, SumsOrder
    <3> QED
      BY <1>1, <1>2, <1>3, <2>1, <2>2, <3>1 DEF Before
  <2>3. CASE b[i] < a[i]
    <3>1. \A j \in 1 .. i - 1 : b[j] = a[j]
      BY <2>1
    <3>2. g[Octets] < f[Octets]
      BY <1>0, <1>1, <1>2, <2>3, <3>1, Sizes, SumsOrder
    <3>3. ~Before(a, b)
      <4> SUFFICES ASSUME NEW k \in 1 .. Octets, \A j \in 1 .. k - 1 : a[j] = b[j], a[k] < b[k] PROVE FALSE
        BY <1>5 DEF Before
      <4>1. k \in Nat /\ i \in Nat
        OBVIOUS
      <4>2. ~(k < i) /\ ~(i < k) /\ k # i
        BY <1>00, <2>1, <2>3, <4>1
      <4> QED
        BY <4>1, <4>2
    <3> QED
      BY <1>1, <1>2, <1>3, <3>2, <3>3
  <2> QED
    BY <1>00, <2>1, <2>2, <2>3
<1> QED
  BY <1>4, <1>5

\* The IPv4 part of HostsRight.
LEMMA RangeIs ==
  ASSUME NEW s \in Address, NEW e \in Address, NEW ip \in Address
  PROVE  match_ip_range(s, e, ip) <=> Before(s, ip) /\ Before(ip, e)
<1>1. \A a \in Address : Swapped(a) \in Nat
  <2> SUFFICES ASSUME NEW a \in Address PROVE Swapped(a) \in Nat
    OBVIOUS
  <2>1. PICK f : Sums(Octet, Octets, a, f) /\ Swapped(a) = f[Octets]
    BY SwappedIs
  <2>2. \A i \in 1 .. Octets : a[i] \in Nat
    BY Sizes DEF Address
  <2>3. Octets \in 0 .. Octets
    BY Sizes
  <2> QED
    BY <2>1, <2>2, <2>3, Sizes, SumsType
<1>2. match_ip_range(s, e, ip) <=> Swapped(s) <= Swapped(ip) /\ Swapped(ip) <= Swapped(e)
  BY <1>1 DEF match_ip_range
<1> QED
  BY <1>2, OrderIs

\* The text of an octet is read as that octet.
OctetText(n) == CHOOSE c \in DOMAIN Number : Number[c] = n

LEMMA OctetRead ==
  ASSUME NEW n \in 0 .. Octet - 1
  PROVE  OctetText(n) # "*" /\ atoi(<<OctetText(n)>>) = n
<1>1. \E c \in DOMAIN Number : Number[c] = n
  BY PatternConstants
<1>2. OctetText(n) \in DOMAIN Number /\ Number[OctetText(n)] = n
  BY <1>1 DEF OctetText
<1>3. OctetText(n) # "*" /\ OctetText(n) # "-"
  BY <1>2, PatternConstants
<1> DEFINE c == OctetText(n)
<1>4. <<c>>[1] = c /\ DOMAIN <<c>> = {1} /\ <<c>> # <<>>
  OBVIOUS
<1> HIDE DEF c
<1>5. atoi(<<c>>) = Number[c]
  BY <1>2, <1>3, <1>4 DEF atoi, c
<1> QED
  BY <1>2, <1>3, <1>5 DEF c

\* Stars for the last octets are the range of all their values.
LEMMA OctetsAre ==
  ASSUME NEW ip \in Address, NEW a \in Address, NEW k \in 0 .. Octets, NEW parts, NEW low, NEW high,
         Len(parts) = Octets, low \in Address, high \in Address,
         \A i \in 1 .. Octets : /\ parts[i] = IF i <= k THEN OctetText(a[i]) ELSE "*"
                                /\ low[i] = IF i <= k THEN a[i] ELSE 0
                                /\ high[i] = IF i <= k THEN a[i] ELSE Octet - 1
  PROVE  match_ip_octets(parts, ip) <=> match_ip_range(low, high, ip)
<1>0. /\ \A i \in 1 .. Octets : a[i] \in 0 .. Octet - 1 /\ ip[i] \in 0 .. Octet - 1
      /\ k \in Nat /\ Octet - 1 \in Nat
  BY Sizes DEF Address
<1>3. match_ip_octets(parts, ip) <=> \A i \in 1 .. Octets : i <= k => a[i] = ip[i]
  <2>1. ASSUME NEW i \in 1 .. Octets
        PROVE  parts[i] = "*" \/ atoi(<<parts[i]>>) = ip[i] <=> (i <= k => a[i] = ip[i])
    <3>1. CASE i <= k
      <4>1. parts[i] = OctetText(a[i]) /\ a[i] \in 0 .. Octet - 1
        BY <1>0, <3>1
      <4> QED
        BY <3>1, <4>1, OctetRead
    <3>2. CASE ~(i <= k)
      BY <3>2
    <3> QED
      BY <3>1, <3>2
  <2>2. Len(parts) >= Octets
    BY Sizes
  <2> HIDE DEF OctetText
  <2> QED
    BY <2>1, <2>2 DEF match_ip_octets
<1>4. ASSUME \A i \in 1 .. Octets : i <= k => a[i] = ip[i]
      PROVE  Before(low, ip) /\ Before(ip, high)
  <2>1. Before(low, ip)
    <3> SUFFICES ASSUME low # ip PROVE Before(low, ip)
      BY DEF Before
    <3>1. PICK i \in 1 .. Octets : low[i] # ip[i] /\ \A j \in 1 .. i - 1 : low[j] = ip[j]
      BY Differ
    <3>2. low[i] < ip[i]
      BY <1>0, <1>4, <3>1
    <3> QED
      BY <3>1, <3>2 DEF Before
  <2>2. Before(ip, high)
    <3> SUFFICES ASSUME ip # high PROVE Before(ip, high)
      BY DEF Before
    <3>1. PICK i \in 1 .. Octets : ip[i] # high[i] /\ \A j \in 1 .. i - 1 : ip[j] = high[j]
      BY Differ
    <3>2. ip[i] < high[i]
      BY <1>0, <1>4, <3>1, Sizes
    <3> QED
      BY <3>1, <3>2 DEF Before
  <2> QED
    BY <2>1, <2>2
<1>5. ASSUME Before(low, ip), Before(ip, high), NEW i \in 1 .. Octets, i <= k, a[i] # ip[i]
      PROVE  FALSE
  <2> DEFINE Bad == {x \in 1 .. Octets : x <= k /\ a[x] # ip[x]}
  <2>1. Bad # {} /\ Bad \subseteq Nat
    BY <1>5
  <2>2. PICK x \in Bad : \A y \in Bad : x <= y
    BY <2>1, Least
  <2>3. x \in 1 .. Octets /\ x <= k /\ low[x] = a[x] /\ high[x] = a[x] /\ a[x] # ip[x]
    BY <2>2
  <2>4. \A y \in 1 .. x - 1 : low[y] = ip[y] /\ ip[y] = high[y]
    <3> SUFFICES ASSUME NEW y \in 1 .. x - 1 PROVE low[y] = ip[y] /\ ip[y] = high[y]
      OBVIOUS
    <3>1. y \in 1 .. Octets /\ y <= k /\ ~(x <= y)
      BY <1>0, <2>3, Sizes
    <3>2. a[y] = ip[y]
      BY <2>2, <3>1
    <3> QED
      BY <3>1, <3>2
  <2>5. a[x] < ip[x]
    <3>1. PICK y \in 1 .. Octets : (\A j \in 1 .. y - 1 : low[j] = ip[j]) /\ low[y] < ip[y]
      BY <1>5, <2>3 DEF Before
    <3>2. low[y] \in Nat /\ ip[y] \in Nat
      BY <1>0 DEF Address
    <3>3. ~(y < x) /\ ~(x < y)
      BY <2>3, <2>4, <3>1, <3>2, Sizes
    <3> QED
      BY <2>3, <3>1, <3>3
  <2>6. ip[x] < a[x]
    <3>1. PICK y \in 1 .. Octets : (\A j \in 1 .. y - 1 : ip[j] = high[j]) /\ ip[y] < high[y]
      BY <1>5, <2>3 DEF Before
    <3>2. high[y] \in Nat /\ ip[y] \in Nat
      BY <1>0 DEF Address
    <3>3. ~(y < x) /\ ~(x < y)
      BY <2>3, <2>4, <3>1, <3>2, Sizes
    <3> QED
      BY <2>3, <3>1, <3>3
  <2> QED
    BY <1>0, <2>3, <2>5, <2>6
<1>6. match_ip_range(low, high, ip) <=> Before(low, ip) /\ Before(ip, high)
  BY RangeIs
<1> QED
  BY <1>3, <1>4, <1>5, <1>6

-----------------------------------------------------------------------------
(* IPv6 *)

BitOf(a, i) == a[1 + ((i - 1) \div Bits)][1 + ((i - 1) % Bits)]

\* A prefix is compared bit by bit.
LEMMA PrefixIs ==
  ASSUME NEW n \in Address6, NEW ip \in Address6, NEW prefix \in 0 .. Octets * Bits
  PROVE  match_cidr_v6(n, prefix, ip) <=> \A i \in 1 .. prefix : BitOf(ip, i) = BitOf(n, i)
<1> DEFINE full == prefix \div Bits
           rem == prefix % Bits
           masked(byte) == [i \in 1 .. Bits |-> IF i <= rem THEN byte[i] ELSE 0]
<1>0. Octets * Bits \in Nat /\ prefix \in Nat /\ prefix <= Octets * Bits
  BY Sizes
<1>1. full \in Nat /\ rem \in 0 .. Bits - 1 /\ prefix = Bits * full + rem
  BY <1>0, Sizes, Division
<1>2. match_cidr_v6(n, prefix, ip) <=>
        /\ \A q \in 1 .. full : ip[q] = n[q]
        /\ rem > 0 => masked(ip[full + 1]) = masked(n[full + 1])
  BY DEF match_cidr_v6
<1>3. rem > 0 => (masked(ip[full + 1]) = masked(n[full + 1]) <=>
                    \A x \in 1 .. rem : ip[full + 1][x] = n[full + 1][x])
  <2>1. rem > 0 => 1 .. rem \subseteq 1 .. Bits
    BY <1>1, Sizes
  <2> HIDE DEF rem, full
  <2>2. ASSUME rem > 0, masked(ip[full + 1]) = masked(n[full + 1]), NEW x \in 1 .. rem
        PROVE  ip[full + 1][x] = n[full + 1][x]
    <3>1. masked(ip[full + 1])[x] = ip[full + 1][x] /\ masked(n[full + 1])[x] = n[full + 1][x]
      BY <1>1, <2>1, <2>2
    <3> QED
      BY <2>2, <3>1
  <2>3. ASSUME rem > 0, \A x \in 1 .. rem : ip[full + 1][x] = n[full + 1][x]
        PROVE  masked(ip[full + 1]) = masked(n[full + 1])
    <3>1. \A x \in 1 .. Bits : (IF x <= rem THEN ip[full + 1][x] ELSE 0) = (IF x <= rem THEN n[full + 1][x] ELSE 0)
      BY <1>1, <2>3
    <3> QED
      BY <3>1
  <2> QED
    BY <2>2, <2>3
<1> HIDE DEF full, rem, masked
<1>4. ASSUME NEW q \in Nat, NEW x \in 1 .. Bits
      PROVE  \A a : BitOf(a, Bits * q + x) = a[1 + q][x]
  <2>1. Bits * q \in Nat
    BY Sizes
  <2>2. (Bits * q + x) - 1 = Bits * q + (x - 1) /\ x - 1 \in 0 .. Bits - 1
    BY <2>1, Sizes
  <2>3. ((Bits * q + x) - 1) \div Bits = q /\ ((Bits * q + x) - 1) % Bits = x - 1
    BY <2>2, Sizes, Quotient
  <2>4. 1 + (x - 1) = x
    OBVIOUS
  <2> QED
    BY <2>3, <2>4 DEF BitOf
<1>5. ASSUME \A q \in 1 .. full : ip[q] = n[q],
             rem > 0 => \A x \in 1 .. rem : ip[full + 1][x] = n[full + 1][x],
             NEW i \in 1 .. prefix
      PROVE  BitOf(ip, i) = BitOf(n, i)
  <2> DEFINE q == (i - 1) \div Bits
             r == (i - 1) % Bits
  <2>0. i - 1 \in Nat
    BY <1>0
  <2>1. q \in Nat /\ r \in 0 .. Bits - 1 /\ i - 1 = Bits * q + r
    BY <2>0, Sizes, Division
  <2>2. BitOf(ip, i) = ip[1 + q][1 + r] /\ BitOf(n, i) = n[1 + q][1 + r]
    BY DEF BitOf
  <2> HIDE DEF q, r
  <2>3. CASE q < full
    <3>1. 1 + q \in 1 .. full
      BY <1>1, <2>1, <2>3
    <3> QED
      BY <1>5, <2>2, <3>1
  <2>4. CASE q >= full
    <3>1. ~(full < q)
      <4> SUFFICES ASSUME full < q PROVE FALSE
        OBVIOUS
      <4>1. Bits * full + Bits <= Bits * q
        BY <1>1, <2>1, Sizes, Times
      <4>2. Bits * full \in Nat /\ Bits * q \in Nat
        BY <1>1, <2>1, Sizes
      <4> QED
        BY <1>0, <1>1, <2>1, <4>1, <4>2, Sizes
    <3>2. q = full
      BY <1>1, <2>1, <2>4, <3>1
    <3>3. r < rem
      <4>1. Bits * full \in Nat /\ Bits * q = Bits * full
        BY <1>1, <3>2, Sizes
      <4> QED
        BY <1>0, <1>1, <2>1, <4>1, Sizes
    <3>4. 1 + r \in 1 .. rem /\ rem > 0 /\ 1 + q = full + 1
      BY <1>1, <2>1, <3>2, <3>3
    <3> QED
      BY <1>5, <2>2, <3>4
  <2> QED
    BY <1>1, <2>1, <2>3, <2>4
<1>6. ASSUME \A i \in 1 .. prefix : BitOf(ip, i) = BitOf(n, i), NEW q \in 1 .. full
      PROVE  ip[q] = n[q]
  <2>0. q - 1 \in Nat /\ q - 1 < full
    BY <1>1
  <2>1. Bits * (q - 1) + Bits <= Bits * full
    BY <1>1, <2>0, Sizes, Times
  <2>2. Bits * (q - 1) \in Nat /\ Bits * full \in Nat
    BY <1>1, <2>0, Sizes
  <2>3. ASSUME NEW x \in 1 .. Bits PROVE ip[q][x] = n[q][x]
    <3>1. Bits * (q - 1) + x \in 1 .. prefix
      BY <1>1, <2>1, <2>2, Sizes
    <3>2. BitOf(ip, Bits * (q - 1) + x) = BitOf(n, Bits * (q - 1) + x)
      BY <1>6, <3>1
    <3>3. 1 + (q - 1) = q
      OBVIOUS
    <3> QED
      BY <1>4, <2>0, <3>2, <3>3
  <2>4. q \in 1 .. Octets
    <3> SUFFICES ASSUME Octets < q PROVE FALSE
      BY Sizes
    <3>1. Bits * Octets + Bits <= Bits * q
      BY Sizes, Times
    <3> QED
      BY <1>0, <1>1, <2>1, <3>1, Sizes
  <2>5. ip[q] \in [1 .. Bits -> {0, 1}] /\ n[q] \in [1 .. Bits -> {0, 1}]
    BY <2>4 DEF Address6
  <2>6. ip[q] = [x \in 1 .. Bits |-> ip[q][x]] /\ n[q] = [x \in 1 .. Bits |-> n[q][x]]
    BY <2>5
  <2>7. [x \in 1 .. Bits |-> ip[q][x]] = [x \in 1 .. Bits |-> n[q][x]]
    BY <2>3
  <2> QED
    BY <2>6, <2>7, Zenon
<1>7. ASSUME \A i \in 1 .. prefix : BitOf(ip, i) = BitOf(n, i), rem > 0, NEW x \in 1 .. rem
      PROVE  ip[full + 1][x] = n[full + 1][x]
  <2>1. Bits * full \in Nat
    BY <1>1, Sizes
  <2>2. Bits * full + x \in 1 .. prefix /\ x \in 1 .. Bits
    BY <1>1, <2>1, Sizes
  <2>3. BitOf(ip, Bits * full + x) = BitOf(n, Bits * full + x)
    BY <1>7, <2>2
  <2>4. 1 + full = full + 1
    BY <1>1
  <2> QED
    BY <1>1, <1>4, <2>2, <2>3, <2>4
<1> QED
  BY <1>1, <1>2, <1>3, <1>5, <1>6, <1>7

\* The value of a byte is a number.
LEMMA ValueType ==
  ASSUME NEW byte \in [1 .. Bits -> {0, 1}]
  PROVE  Value(byte) \in Nat
<1>1. 2 \in Nat /\ Bits \in Nat /\ \A i \in 1 .. Bits : byte[i] \in Nat
  BY Sizes
<1>2. \E f : SumsOf(2, Bits, byte, f)
  BY <1>1, SumsExist
<1> DEFINE n == CHOOSE g : SumsOf(2, Bits, byte, g)
<1>3. SumsOf(2, Bits, byte, n)
  BY <1>2, Zenon
<1>4. Value(byte) = n[Bits]
  BY DEF Value, SumsOf
<1> HIDE DEF n
<1>5. Sums(2, Bits, byte, n) /\ Bits \in 0 .. Bits
  BY <1>3, Sizes DEF Sums, SumsOf
<1> QED
  BY <1>1, <1>4, <1>5, SumsType

\* Addresses are the same if their bytes are.
LEMMA SameBytes ==
  ASSUME NEW n \in Address6, NEW ip \in Address6, \A i \in 1 .. Octets : ip[i] = n[i]
  PROVE  ip = n
<1>1. n = [i \in 1 .. Octets |-> n[i]] /\ ip = [i \in 1 .. Octets |-> ip[i]]
  BY DEF Address6
<1>2. [i \in 1 .. Octets |-> n[i]] = [i \in 1 .. Octets |-> ip[i]]
  OBVIOUS
<1> QED
  BY <1>1, <1>2, Zenon

\* A range from an address to itself holds that address.
LEMMA SelfRange ==
  ASSUME NEW n \in Address6, NEW ip \in Address6
  PROVE  match_range_v6(n, n, ip) <=> ip = n
<1> DEFINE differ == {i \in 1 .. Octets : n[i] # ip[i]}
           i == CHOOSE x \in differ : \A y \in differ : x <= y
<1>1. {x \in 1 .. Octets : ip[x] # n[x]} = differ
  OBVIOUS
<1>2. NotAfter(n, ip) <=> differ = {} \/ Value(n[i]) < Value(ip[i])
  BY DEF NotAfter
<1>3. NotAfter(ip, n) <=> differ = {} \/ Value(ip[i]) < Value(n[i])
  BY <1>1 DEF NotAfter
<1>4. differ = {} <=> ip = n
  BY SameBytes
<1>5. ASSUME differ # {} PROVE ~(Value(n[i]) < Value(ip[i]) /\ Value(ip[i]) < Value(n[i]))
  <2>1. differ \subseteq Nat
    OBVIOUS
  <2>2. \E x \in differ : \A y \in differ : x <= y
    BY <1>5, <2>1, Least
  <2>3. i \in differ
    BY <2>2
  <2>4. n[i] \in [1 .. Bits -> {0, 1}] /\ ip[i] \in [1 .. Bits -> {0, 1}]
    BY <2>3 DEF Address6
  <2>5. Value(n[i]) \in Nat /\ Value(ip[i]) \in Nat
    BY <2>4, ValueType
  <2> HIDE DEF i
  <2> QED
    BY <2>5
<1> HIDE DEF differ, i
<1> QED
  BY <1>2, <1>3, <1>4, <1>5 DEF match_range_v6

\* The longest prefix is the whole address.
LEMMA WholePrefix ==
  ASSUME NEW n \in Address6, NEW ip \in Address6
  PROVE  match_cidr_v6(n, Octets * Bits, ip) <=> ip = n
<1>1. Octets * Bits = Bits * Octets + 0 /\ 0 \in 0 .. Bits - 1 /\ Octets * Bits \in Nat
  BY Sizes
<1>2. (Octets * Bits) \div Bits = Octets /\ (Octets * Bits) % Bits = 0
  BY <1>1, Sizes, Quotient
<1>3. Octets * Bits \in 0 .. Octets * Bits
  BY <1>1
<1>4. match_cidr_v6(n, Octets * Bits, ip) <=> \A i \in 1 .. Octets : ip[i] = n[i]
  BY <1>2, <1>3 DEF match_cidr_v6
<1> QED
  BY <1>4, SameBytes

\* Octet patterns, ranges and prefixes take exactly the addresses that
\* HostsRight says, for any octets, addresses of any length and any prefixes.
THEOREM HostsMatch == HostsRight
<1>1. ASSUME NEW ip \in Address, NEW k \in 0 .. Octets, NEW a \in Address
      PROVE  match_ip_octets([i \in 1 .. Octets |-> IF i <= k THEN OctetText(a[i]) ELSE "*"], ip)
             <=> match_ip_range([i \in 1 .. Octets |-> IF i <= k THEN a[i] ELSE 0],
                                [i \in 1 .. Octets |-> IF i <= k THEN a[i] ELSE Octet - 1], ip)
  <2> DEFINE parts == [i \in 1 .. Octets |-> IF i <= k THEN OctetText(a[i]) ELSE "*"]
             low == [i \in 1 .. Octets |-> IF i <= k THEN a[i] ELSE 0]
             high == [i \in 1 .. Octets |-> IF i <= k THEN a[i] ELSE Octet - 1]
  <2>1. \A i \in 1 .. Octets : a[i] \in 0 .. Octet - 1
    BY DEF Address
  <2>2. low \in Address /\ high \in Address
    BY <2>1, Sizes DEF Address
  <2>3. Len(parts) = Octets
    <3>1. parts \in Seq({OctetText(n) : n \in 0 .. Octet - 1} \cup {"*"})
      BY <2>1, Sizes
    <3> QED
      BY <3>1, Sizes
  <2>4. \A i \in 1 .. Octets : /\ parts[i] = IF i <= k THEN OctetText(a[i]) ELSE "*"
                               /\ low[i] = IF i <= k THEN a[i] ELSE 0
                               /\ high[i] = IF i <= k THEN a[i] ELSE Octet - 1
    OBVIOUS
  <2> HIDE DEF parts, low, high
  <2>5. match_ip_octets(parts, ip) <=> match_ip_range(low, high, ip)
    BY <2>2, <2>3, <2>4, OctetsAre
  <2> QED
    BY <2>5 DEF parts, low, high
<1>2. ASSUME NEW s \in Address, NEW e \in Address, NEW ip \in Address
      PROVE  match_ip_range(s, e, ip) <=> Before(s, ip) /\ Before(ip, e)
  BY RangeIs
<1>3. ASSUME NEW n \in Address6, NEW ip \in Address6, NEW prefix \in 0 .. Octets * Bits
      PROVE  /\ match_cidr_v6(n, prefix, ip) <=> \A i \in 1 .. prefix : BitOf(ip, i) = BitOf(n, i)
             /\ match_range_v6(n, n, ip) <=> match_cidr_v6(n, Octets * Bits, ip)
  BY PrefixIs, SelfRange, WholePrefix
<1> QED
  BY <1>1, <1>2, <1>3 DEF HostsRight, Before, BitOf, OctetText

\* Every verdict rests on matchers that read names, lists, ports and hosts as the
\* user interface promises (the matchers of check_process_rule and match_rule),
\* whatever the constants are.
THEOREM FiltersCorrect == Spec => []FiltersRight
<1>1. FiltersRight
  BY WildcardsMatch, ListsMatch, PortsMatch, HostsMatch DEF FiltersRight, PatternsRight
<1> QED
  BY <1>1, PTL
=============================================================================
