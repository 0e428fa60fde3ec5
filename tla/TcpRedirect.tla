---------------------------- MODULE TcpRedirect ----------------------------
(***************************************************************************)
(* TCP interception in ProxyBridge.c: the packet thread with its per-port  *)
(* decision cache (two bitmaps), the connection table it shares with the   *)
(* listener of the local relay and with the cleanup thread, and the rules  *)
(* the GUI edits meanwhile.                                                *)
(* One outbound segment is one step.  The packet thread is the only one    *)
(* that writes the bitmaps or adds entries; the others remove entries or   *)
(* refresh them, so what they do in the middle of a segment has the same   *)
(* effect just after it.                                                   *)
(***************************************************************************)
EXTENDS Integers, FiniteSets

CONSTANTS
  Ports,         \* client TCP ports (none of them is LOCAL_PROXY_PORT)
  Procs,         \* processes that own client sockets
  Dests,         \* original destinations, address and port
  None,          \* no entry / no destination
  IdleLimit,     \* the 120000 ms of cleanup_stale_connections, in ticks
  MaxLag,        \* ticks that may pass between cleanup's GetTickCount64 and its use
  Word,          \* the modulus of unsigned tick arithmetic (2^64 in the code)
  Watched,       \* a connection callback is registered
  Unanswered,    \* a client may give up on a connection nobody answers
  LookupFails,   \* the owner of a socket may be unknown when its rule is looked up
  RulesChange    \* the user edits rules while connections are open

AgeCap == IdleLimit + MaxLag + 1

ASSUME TcpConstants ==
  /\ IdleLimit \in Nat /\ MaxLag \in Nat
  /\ Word \in Nat /\ Word > AgeCap + IdleLimit + MaxLag
  /\ {Watched, Unanswered, LookupFails, RulesChange} \subseteq BOOLEAN
  /\ None \notin Dests \cup Procs
  /\ None \notin [dest : Dests, age : 0 .. AgeCap]

VARIABLES
  rules,         \* what the enabled rules say of a process and a destination
  cache,         \* the port_decided and port_direct bitmaps
  table,         \* the TCP entries of connection_hash_table, by source port
  client,        \* the client's connection on each port
  backlog,       \* connections the listener has not accepted yet
  upstream,      \* the destination connection_handler serves a connection with
  cleaner        \* the cleanup thread: age of its `now`, buckets left to scan

vars == <<rules, cache, table, client, backlog, upstream, cleaner>>

-----------------------------------------------------------------------------
(* Types *)

Age == 0 .. AgeCap

\* "none": no enabled rule matches.
Verdict == {"none", "DIRECT", "PROXY", "BLOCK"}

Entry == [dest : Dests, age : Age]

\* route is where the last segment went.  settled is history: the route was
\* chosen by a rule, and the entry it relies on has not been removed since.
Client ==
  [pc : {"closed"}, proc : {None}, dest : {None},
   route : {"direct", "relay", "dropped"}, settled : BOOLEAN]
  \cup
  [pc : {"syn", "open", "closing"}, proc : Procs, dest : Dests,
   route : {"direct", "relay", "dropped"}, settled : BOOLEAN]

NoClient == [pc |-> "closed", proc |-> None, dest |-> None, route |-> "dropped",
             settled |-> FALSE]

\* The two bits encode three states per port (comment at ProxyBridge.c:209).
Cache == {c \in [decided : SUBSET Ports, direct : SUBSET Ports] : c.direct \subseteq c.decided}

\* Every variable has its type; in particular the direct bit of a port is set
\* only with its decided bit.
TypeOK ==
  /\ rules \in [Procs \X Dests -> Verdict]
  /\ cache \in Cache
  /\ table \in [Ports -> Entry \cup {None}]
  /\ client \in [Ports -> Client]
  /\ backlog \subseteq Ports
  /\ upstream \in [Ports -> Dests \cup {None}]
  /\ cleaner \in [lag : 0 .. MaxLag, scan : SUBSET Ports]

Init ==
  /\ rules \in [Procs \X Dests -> Verdict]
  /\ cache = [decided |-> {}, direct |-> {}]
  /\ table = [p \in Ports |-> None]
  /\ client = [p \in Ports |-> NoClient]
  /\ backlog = {}
  /\ upstream = [p \in Ports |-> None]
  /\ cleaner = [lag |-> 0, scan |-> {}]

-----------------------------------------------------------------------------
(* The decision cache and the connection table *)

\* Mutant: the direct bit is forgotten, the port looks proxied.
port_set_direct_DecidedOnly(c, p) == [c EXCEPT !.decided = @ \cup {p}]

port_set_direct(c, p) == [decided |-> c.decided \cup {p}, direct |-> c.direct \cup {p}]

port_set_decided(c, p) == [c EXCEPT !.decided = @ \cup {p}]

\* Mutant: only the decided bit is cleared.
port_clear_DecidedOnly(c, p) == [c EXCEPT !.decided = @ \ {p}]

port_clear(c, p) == [decided |-> c.decided \ {p}, direct |-> c.direct \ {p}]

is_connection_tracked(p) == table[p] # None

\* get_connection, get_connection_full: finding an entry refreshes it.
Refreshed(p) == [table EXCEPT ![p] = IF @ = None THEN None ELSE [@ EXCEPT !.age = 0]]

\* `now - last_activity` in unsigned arithmetic, `now` read before the scan.
Elapsed(age) == (age - cleaner.lag) % Word

Older(age) == IF age < AgeCap THEN age + 1 ELSE age

g_has_active_rules == \E x \in Procs \X Dests : rules[x] # "none"

\* check_process_rule: without an owner the answer is DIRECT.
RuleAction(proc, dest) ==
  IF proc = None \/ rules[<<proc, dest>>] = "none" THEN "DIRECT" ELSE rules[<<proc, dest>>]

Owners(proc) == {proc} \cup (IF LookupFails THEN {None} ELSE {})

-----------------------------------------------------------------------------
(* Packet thread: an outbound segment of connection c on port p.  fin stands *)
(* for FIN or RST.                                                           *)

\* The bitmaps once the segment's flags have been looked at.
Kept(p, fin) == IF fin /\ p \in cache.decided THEN port_clear(cache, p) ELSE cache

OnFastPath(p, fin) == p \in cache.decided /\ p \in Kept(p, fin).direct

Route(p, c, route, settled) ==
  client' = [client EXCEPT ![p] = [c EXCEPT !.route = route, !.settled = settled]]

FastPath(p, c, fin) ==
  /\ OnFastPath(p, fin)
  /\ Route(p, c, "direct", TRUE)
  /\ cache' = Kept(p, fin)
  /\ UNCHANGED table

\* Mutant: a FIN clears the cached decision but the entry stays.
Redirect_KeepsEntry(p, c, fin) ==
  /\ ~OnFastPath(p, fin) /\ is_connection_tracked(p)
  /\ Route(p, c, "relay", ~fin)
  /\ cache' = IF fin THEN port_clear(cache, p) ELSE cache
  /\ UNCHANGED table

Redirect(p, c, fin) ==
  /\ ~OnFastPath(p, fin) /\ is_connection_tracked(p)
  /\ Route(p, c, "relay", ~fin)
  /\ cache' = IF fin THEN port_clear(cache, p) ELSE cache
  /\ table' = [table EXCEPT ![p] = IF fin THEN None ELSE @]

\* No rules: sent unchanged, and nothing is cached.
PassUnruled(p, c, fin) ==
  /\ ~OnFastPath(p, fin) /\ ~is_connection_tracked(p)
  /\ ~g_has_active_rules /\ ~Watched
  /\ Route(p, c, "direct", FALSE)
  /\ cache' = Kept(p, fin)
  /\ UNCHANGED table

\* The rule check and its three outcomes; add_connection may lack memory.
Decide(p, c, fin) ==
  /\ ~OnFastPath(p, fin) /\ ~is_connection_tracked(p)
  /\ g_has_active_rules \/ Watched
  /\ \E owner \in Owners(c.proc) :
       \/ /\ RuleAction(owner, c.dest) = "DIRECT"
          /\ Route(p, c, "direct", TRUE)
          /\ cache' = port_set_direct(Kept(p, fin), p)
          /\ UNCHANGED table
       \/ /\ RuleAction(owner, c.dest) = "BLOCK"
          /\ Route(p, c, "dropped", FALSE)
          /\ cache' = port_set_decided(Kept(p, fin), p)
          /\ UNCHANGED table
       \/ /\ RuleAction(owner, c.dest) = "PROXY"
          /\ cache' = port_set_decided(Kept(p, fin), p)
          /\ \/ /\ table' = [table EXCEPT ![p] = [dest |-> c.dest, age |-> 0]]
                /\ Route(p, c, "relay", TRUE)
             \/ /\ UNCHANGED table
                /\ Route(p, c, "relay", FALSE)

Segment(p, c, fin) ==
  /\ FastPath(p, c, fin) \/ Redirect(p, c, fin) \/ PassUnruled(p, c, fin) \/ Decide(p, c, fin)
  /\ UNCHANGED <<rules, cleaner>>

-----------------------------------------------------------------------------
(* Clients *)

\* A process opens a connection: its SYN.  A port is used again only after the
\* relay is done with its previous connection.
Connect(p, proc, dest) ==
  /\ client[p].pc = "closed" /\ p \notin backlog /\ upstream[p] = None
  /\ Segment(p, [NoClient EXCEPT !.pc = "syn", !.proc = proc, !.dest = dest], FALSE)
  /\ UNCHANGED <<backlog, upstream>>

\* A repeated SYN, or data of an open connection.
Send(p) ==
  /\ client[p].pc \in {"syn", "open"}
  /\ Segment(p, client[p], FALSE)
  /\ UNCHANGED <<backlog, upstream>>

\* The SYN is answered: by the destination, or by the local relay, whose
\* answer is restored from the entry.
EstablishDirect(p) ==
  /\ client[p].pc = "syn" /\ client[p].route = "direct"
  /\ client' = [client EXCEPT ![p].pc = "open"]
  /\ UNCHANGED <<rules, cache, table, backlog, upstream, cleaner>>

EstablishRelay(p) ==
  /\ client[p].pc = "syn" /\ client[p].route = "relay" /\ table[p] # None
  /\ client' = [client EXCEPT ![p].pc = "open"]
  /\ table' = Refreshed(p)
  /\ backlog' = backlog \cup {p}
  /\ UNCHANGED <<rules, cache, upstream, cleaner>>

Finish(p) ==
  /\ client[p].pc = "open"
  /\ Segment(p, [client[p] EXCEPT !.pc = "closing"], TRUE)
  /\ UNCHANGED <<backlog, upstream>>

\* After its FIN the client still acknowledges, or repeats the FIN.
Late(p, fin) ==
  /\ client[p].pc = "closing"
  /\ Segment(p, client[p], fin)
  /\ UNCHANGED <<backlog, upstream>>

\* Nobody listens on the port any more: the stack answers the relay with RST.
Reset(p) ==
  /\ client[p].pc = "closed" /\ upstream[p] # None
  /\ Segment(p, NoClient, TRUE)
  /\ UNCHANGED <<backlog, upstream>>

\* The connection is forgotten; one that was never answered has sent no FIN.
Gone(p) ==
  /\ \/ client[p].pc = "closing"
     \/ client[p].pc = "syn" /\ (Unanswered \/ client[p].route = "dropped")
  /\ client' = [client EXCEPT ![p] = NoClient]
  /\ UNCHANGED <<rules, cache, table, backlog, upstream, cleaner>>

-----------------------------------------------------------------------------
(* The local relay *)

Dropped(p) == /\ table' = [table EXCEPT ![p] = None]
              /\ client' = [client EXCEPT ![p].settled = FALSE]

\* local_proxy_server accepts a redirected connection and looks it up by port.
Accept(p) ==
  /\ p \in backlog /\ table[p] # None
  /\ upstream' = [upstream EXCEPT ![p] = table[p].dest]
  /\ table' = Refreshed(p)
  /\ backlog' = backlog \ {p}
  /\ UNCHANGED <<rules, cache, client, cleaner>>

\* Not found, or no memory or thread: the socket is closed and its FIN or RST
\* passes the packet thread.
Refuse(p) ==
  /\ p \in backlog
  /\ Dropped(p)
  /\ backlog' = backlog \ {p}
  /\ UNCHANGED <<rules, cache, upstream, cleaner>>

\* A segment from the relay to the client.
Reply(p) ==
  /\ upstream[p] # None
  /\ table' = Refreshed(p)
  /\ UNCHANGED <<rules, cache, client, backlog, upstream, cleaner>>

\* connection_handler ends; the FIN of its socket removes the entry, but the
\* cached decision stays.
RelayClose(p) ==
  /\ upstream[p] # None
  /\ Dropped(p)
  /\ upstream' = [upstream EXCEPT ![p] = None]
  /\ UNCHANGED <<rules, cache, backlog, cleaner>>

-----------------------------------------------------------------------------
(* Cleanup thread, clock and user; one hash bucket per port *)

CleanupBegin ==
  /\ cleaner.scan = {}
  /\ cleaner' = [lag |-> 0, scan |-> Ports]
  /\ UNCHANGED <<rules, cache, table, client, backlog, upstream>>

Scanned(p) ==
  /\ p \in cleaner.scan
  /\ cleaner' = [scan |-> cleaner.scan \ {p},
                 lag |-> IF cleaner.scan = {p} THEN 0 ELSE cleaner.lag]

\* Mutant: the limit is tested with >=.
Stale_Early(p) == table[p] # None /\ Elapsed(table[p].age) >= IdleLimit

Stale(p) == table[p] # None /\ Elapsed(table[p].age) > IdleLimit

\* Mutant: the stale entry is passed over.
CleanupRemove_Skips(p) ==
  /\ Scanned(p) /\ Stale(p)
  /\ UNCHANGED <<rules, cache, table, client, backlog, upstream>>

CleanupRemove(p) ==
  /\ Scanned(p) /\ Stale(p)
  /\ Dropped(p)
  /\ UNCHANGED <<rules, cache, backlog, upstream>>

CleanupKeep(p) ==
  /\ Scanned(p) /\ ~Stale(p)
  /\ UNCHANGED <<rules, cache, table, client, backlog, upstream>>

CleanerStep == CleanupBegin \/ \E p \in Ports : CleanupRemove(p) \/ CleanupKeep(p)

Tick ==
  /\ cleaner.scan # {} => cleaner.lag < MaxLag
  /\ table' = [p \in Ports |-> IF table[p] = None THEN None
                               ELSE [table[p] EXCEPT !.age = Older(@)]]
  /\ cleaner' = IF cleaner.scan = {} THEN cleaner ELSE [cleaner EXCEPT !.lag = @ + 1]
  /\ UNCHANGED <<rules, cache, client, backlog, upstream>>

\* A rule is added, edited, enabled, disabled, moved or deleted.
EditRules(proc, dest, verdict) ==
  /\ RulesChange
  /\ rules' = [rules EXCEPT ![<<proc, dest>>] = verdict]
  /\ UNCHANGED <<cache, table, client, backlog, upstream, cleaner>>

-----------------------------------------------------------------------------

ClientStep(p) ==
  \/ \E proc \in Procs, dest \in Dests : Connect(p, proc, dest)
  \/ Send(p) \/ EstablishDirect(p) \/ EstablishRelay(p) \/ Finish(p)
  \/ \E fin \in BOOLEAN : Late(p, fin)
  \/ Reset(p) \/ Gone(p)

RelayStep(p) == Accept(p) \/ Refuse(p) \/ Reply(p) \/ RelayClose(p)

Next ==
  \/ Tick \/ CleanerStep
  \/ \E p \in Ports : ClientStep(p) \/ RelayStep(p)
  \/ \E proc \in Procs, dest \in Dests, v \in Verdict : EditRules(proc, dest, v)

Spec == Init /\ [][Next]_vars

\* Time passes and the cleanup thread wakes again and again.
FairSpec == Spec /\ WF_vars(Tick) /\ WF_vars(CleanerStep)

-----------------------------------------------------------------------------
(* Properties *)

\* The cache and the table agree: a port with an entry is marked decided and
\* not direct, so the fast path never takes a segment away from the relay,
\* whatever FINs, cleanups and reuses of the port came before.
TrackedNeverDirect ==
  \A p \in Ports : is_connection_tracked(p) => p \in cache.decided \ cache.direct

\* Once a rule has settled the route of a connection, editing rules does not
\* move it: until the client sends FIN or RST, its segments keep that route
\* unless the relay has closed it or the entry was cleaned up.
RouteKept ==
  [][\A p \in Ports :
       /\ client[p].pc \in {"syn", "open"} /\ client[p].settled
       /\ client'[p].pc \in {"syn", "open"}
       => client'[p].route = client[p].route]_vars

\* The cleanup thread takes the entry of p away.
CleanedUp(p) == p \in cleaner.scan \ cleaner'.scan /\ table[p] # None /\ table'[p] = None

\* A refreshed entry survives (comment at 4634): cleanup removes only entries
\* without activity for the limit, or entries refreshed after it read the clock,
\* where the unsigned difference wrapped.
CleanupUnlessWrapped ==
  [][\A p \in Ports : CleanedUp(p) =>
       table[p].age > IdleLimit \/ table[p].age < cleaner.lag]_vars

\* The entry of a connection that is over, on both sides, does not stay for
\* ever, however the connection ended (cleanup_stale_connections).
EntryReclaimed ==
  \A p \in Ports :
    LET Over == client[p].pc = "closed" /\ backlog = {} /\ upstream[p] = None
    IN  Over /\ table[p] # None ~> ~Over \/ table[p] = None

\* The relay connects an open connection to the destination its client asked
\* for, whatever used the port before.
OwnDestination ==
  \A p \in Ports : client[p].pc = "open" /\ upstream[p] # None
                     => upstream[p] = client[p].dest
=============================================================================
