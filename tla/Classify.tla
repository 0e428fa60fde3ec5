------------------------------ MODULE Classify ------------------------------
(***************************************************************************)
(* check_process_rule of ProxyBridge.c: which process a packet belongs to  *)
(* and what its rule says.  The packet thread asks the PID cache and then  *)
(* the system's tables of sockets; the cleanup thread prunes the cache and *)
(* Stop empties it; meanwhile the process may close its socket and another *)
(* may get the same port number.  One port number of one local address is  *)
(* followed, in the TCP and in the UDP table.  The user has one rule, a    *)
(* list of processes to proxy, read with the matcher of Patterns.          *)
(***************************************************************************)
EXTENDS Patterns

CONSTANTS
  Procs,         \* processes
  Self,          \* the process that loaded the DLL, g_current_process_id
  None,          \* process 0: unknown
  Path,          \* function: process -> its full path
  ProcessList,   \* the rule's process names
  TTL,           \* PID_CACHE_TTL_MS in ticks
  PruneAge,      \* the 10000 ms of the cleanup, in ticks
  MaxLag,        \* bound: ticks between two steps of one thread
  Word           \* the modulus of unsigned tick arithmetic (2^64 in the code)

\* An answer can be this old: stored up to MaxLag after the system gave it, and
\* used up to MaxLag after the cache gave it.
Bound == TTL - 1 + 2 * MaxLag
AgeCap == Bound + 1

ASSUME ClassifyConstants ==
  /\ {TTL, PruneAge, MaxLag, Word} \subseteq Nat
  /\ TTL > 0 /\ Word > 2 * AgeCap + PruneAge
  /\ Self \in Procs /\ None \notin Procs

VARIABLES
  v6,            \* the local address is an IPv6 one (does not change)
  old,           \* the machine has been up for 2^32 ms, more than 49 days
  owner,         \* the process that has the socket, per table
  since,         \* history: ticks since a process of the list last had it
  held,          \* history: ticks its owner has had it, if of the list
  cache,         \* the port's entries of pid_cache
  packet         \* the packet thread's check

vars == <<v6, old, owner, since, held, cache, packet>>

Kinds == {"tcp", "udp"}
Configs == {"none", "http", "socks5"}      \* find_proxy_config: no configuration, or its type
NoPacket == [pc |-> "idle", udp |-> FALSE, table |-> "tcp", pid |-> None, lag |-> 0,
             failed |-> FALSE, config |-> "none", verdict |-> "none"]

\* The processes the rule proxies.
Listed == {p \in Procs \ {Self} : match_process_list(ProcessList, Path[p])}

TypeOK ==
  /\ {v6, old} \subseteq BOOLEAN
  /\ owner \in [Kinds -> Procs \cup {None}]
  /\ since \in [Kinds -> 0 .. AgeCap] /\ held \in [Kinds -> 0 .. AgeCap]
  /\ cache \in [Kinds -> [pid : Procs, age : 0 .. AgeCap] \cup {None}]
  /\ packet \in [pc : {"idle", "lookup", "store", "match", "done"}, udp : BOOLEAN,
                 table : Kinds, pid : Procs \cup {None}, lag : 0 .. MaxLag,
                 failed : BOOLEAN, config : Configs, verdict : {"none", "DIRECT", "PROXY"}]

Init ==
  /\ v6 \in BOOLEAN /\ old \in BOOLEAN
  /\ owner = [k \in Kinds |-> None]
  /\ since = [k \in Kinds |-> AgeCap] /\ held = [k \in Kinds |-> 0]
  /\ cache = [k \in Kinds |-> None]
  /\ packet = NoPacket

-----------------------------------------------------------------------------
(* The PID cache *)

\* Mutant: an entry is good as long as it is there.
Fresh_Always(entry) == entry # None

\* The stamp has 32 bits, the clock 64: once the machine is old the difference
\* is never small.
Fresh(entry) == entry # None /\ ~old /\ entry.age < TTL

get_cached_pid(k) == IF Fresh(cache[k]) THEN cache[k].pid ELSE None

cache_pid(k, pid) == cache' = [cache EXCEPT ![k] = [pid |-> pid, age |-> 0]]

\* The pass over the buckets reads the clock once; an entry that was stored
\* since looks older than any other.
Prune ==
  /\ \E k \in Kinds, lag \in 0 .. MaxLag :
       /\ cache[k] # None
       /\ old \/ (cache[k].age - lag) % Word > PruneAge
       /\ cache' = [cache EXCEPT ![k] = None]
  /\ UNCHANGED <<v6, old, owner, since, held, packet>>

\* Stop, between two packets.
clear_pid_cache ==
  /\ packet.pc \in {"idle", "done"}
  /\ cache' = [k \in Kinds |-> None]
  /\ UNCHANGED <<v6, old, owner, since, held, packet>>

-----------------------------------------------------------------------------
(* get_process_id_from_connection, get_process_id_from_udp_connection and  *)
(* their IPv6 twins, which have no cache                                   *)

Pass == UNCHANGED <<v6, old, owner, since, held>>

\* The cache of table k is asked; the check c goes to the table without an answer.
Asked(c, k) ==
  LET pid == IF v6 THEN None ELSE get_cached_pid(k)
  IN  [c EXCEPT !.table = k, !.pid = pid, !.pc = IF pid # None THEN "match" ELSE "lookup"]

Packet(udp) ==
  /\ packet.pc \in {"idle", "done"}
  /\ packet' = Asked([NoPacket EXCEPT !.udp = udp], IF udp THEN "udp" ELSE "tcp")
  /\ UNCHANGED cache /\ Pass

\* The owner in the system's table, None also when a call fails: GetExtendedTcpTable
\* again when the table grew between its two calls, malloc.
LookUp ==
  /\ packet.pc = "lookup"
  /\ \E fails \in BOOLEAN :
       LET pid == IF fails THEN None ELSE owner[packet.table]
           found == [packet EXCEPT !.failed = @ \/ fails, !.pid = pid]
       IN  packet' =
             IF pid # None THEN [found EXCEPT !.pc = IF v6 THEN "match" ELSE "store"]
             ELSE IF packet.table = "udp" /\ ~v6 THEN Asked(found, "tcp")  \* pid == 0 && is_udp
             ELSE [found EXCEPT !.pc = "match"]
  /\ UNCHANGED cache /\ Pass

Store ==
  /\ packet.pc = "store"
  /\ cache_pid(packet.table, packet.pid)
  /\ packet' = [packet EXCEPT !.pc = "match"]
  /\ Pass

-----------------------------------------------------------------------------
(* The rest of check_process_rule *)

Exempt(pid) == pid \in {None, Self}

\* PROXY needs a configuration, and UDP one that is not HTTP.
Judged(pid, udp, config) ==
  IF /\ ~Exempt(pid)
     /\ match_process_list(ProcessList, Path[pid])
     /\ config # "none" /\ ~(udp /\ config = "http")
  THEN "PROXY" ELSE "DIRECT"

\* get_process_name_from_pid fails for a process that cannot be opened.
Match ==
  /\ packet.pc = "match"
  /\ \E named \in BOOLEAN, config \in Configs :
       packet' = [packet EXCEPT !.pc = "done", !.failed = @ \/ ~named, !.config = config,
                    !.verdict = IF named THEN Judged(packet.pid, packet.udp, config) ELSE "DIRECT"]
  /\ UNCHANGED cache /\ Pass

-----------------------------------------------------------------------------
(* The system and time.  They forget the last verdict. *)

Forgotten == packet' = IF packet.pc = "done" THEN NoPacket ELSE packet

Bind(k, p) ==
  /\ owner[k] = None
  /\ owner' = [owner EXCEPT ![k] = p]
  /\ since' = IF p \in Listed THEN [since EXCEPT ![k] = 0] ELSE since
  /\ Forgotten /\ UNCHANGED <<v6, old, held, cache>>

Unbind(k) ==
  /\ owner[k] # None
  /\ owner' = [owner EXCEPT ![k] = None] /\ held' = [held EXCEPT ![k] = 0]
  /\ Forgotten /\ UNCHANGED <<v6, old, since, cache>>

Older(age) == IF age < AgeCap THEN age + 1 ELSE age

Tick ==
  /\ packet.pc \in {"lookup", "store", "match"} => packet.lag < MaxLag
  /\ since' = [k \in Kinds |-> IF owner[k] \in Listed THEN 0 ELSE Older(since[k])]
  /\ held' = [k \in Kinds |-> IF owner[k] \in Listed THEN Older(held[k]) ELSE 0]
  /\ cache' = [k \in Kinds |-> IF cache[k] = None THEN None ELSE [cache[k] EXCEPT !.age = Older(@)]]
  /\ packet' = IF packet.pc \in {"idle", "done"} THEN NoPacket ELSE [packet EXCEPT !.lag = @ + 1]
  /\ UNCHANGED <<v6, old, owner>>

Next ==
  \/ \E udp \in BOOLEAN : Packet(udp)
  \/ LookUp \/ Store \/ Match
  \/ Prune \/ clear_pid_cache
  \/ \E k \in Kinds : Unbind(k) \/ \E p \in Procs : Bind(k, p)
  \/ Tick

Spec == Init /\ [][Next]_vars

-----------------------------------------------------------------------------
(* Properties *)

\* A packet is proxied only for a process of the rule's list that had the port
\* number, in the table of the packet's protocol or for UDP over IPv4 in that of
\* TCP, at most the cache's lifetime and one check ago: a port that another
\* process, or the bridge itself, has taken over is not mistaken for longer.
\* And the other way round: the packets of a listed process that has had its
\* socket for so long are proxied if a configuration can do it, unless the
\* system gave no answer.
Attributed ==
  /\ TypeOK
  /\ packet.pc = "done" =>
       LET asked == IF packet.udp THEN "udp" ELSE "tcp"
           tables == IF packet.udp /\ ~v6 THEN Kinds ELSE {asked}
       IN  /\ packet.verdict = "PROXY" =>
                \E k \in tables : since[k] <= Bound
           /\ held[asked] > Bound /\ ~packet.failed /\ packet.config = "socks5" =>
                packet.verdict = "PROXY"

\* Whatever the rule's filters are, the verdict on a packet rests on matchers that
\* read them as the user interface promises; see the parts in Patterns.
FiltersRight == packet.verdict # "none" => PatternsRight
=============================================================================
