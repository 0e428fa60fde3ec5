------------------------------ MODULE UdpPath ------------------------------
(***************************************************************************)
(* The way of a UDP datagram through ProxyBridge.c: the UDP branches of    *)
(* the packet thread, the connection table they share with TCP, and the    *)
(* shared relay's use of that table in both directions.  The table is      *)
(* keyed by the source port alone, and a tracked port is neither looked up *)
(* in the rules again nor given a new destination.                         *)
(* The packet thread treats one datagram in one step: it alone adds        *)
(* entries, and an entry removed meanwhile costs the datagram only.  What  *)
(* becomes of a datagram handed to the full-cone relay is FullCone's, and  *)
(* of the associations UdpRelay's, matter: here they work.                 *)
(***************************************************************************)
EXTENDS Integers, FiniteSets

CONSTANTS
  Ports,         \* client ports; a port number serves an IPv4 and an IPv6 socket
  Dests4, Dests6,
  Special,       \* never proxied: loopback, broadcast, multicast, DHCP
  Unruled,       \* of these, IPv6 multicast and link-local: no rule is asked
  None,
  Rulings,       \* what the rules may say of the destinations, over time
  Limit,         \* the 120000 ms of cleanup_stale_connections, in ticks
  MaxLag,        \* ticks between cleanup's GetTickCount64 and its last use
  Word,          \* the modulus of tick arithmetic (2^64 in the code)
  MaxAsked       \* bound: different uses of a port

Dests == Dests4 \cup Dests6
Actions == {"DIRECT", "BLOCK", "PROXY", "CONE"}
AgeCap == Limit + MaxLag + 1

ASSUME UdpPathConstants ==
  /\ Dests4 \cap Dests6 = {} /\ Special \subseteq Dests
  /\ Unruled \subseteq Special \cap Dests6
  /\ Rulings \subseteq [Dests -> Actions]
  /\ None \notin [port : Ports, want : Dests]
  /\ {Limit, MaxLag, Word, MaxAsked} \subseteq Nat /\ Word > 2 * AgeCap

VARIABLES
  rules,         \* what check_process_rule says; CONE is PROXY with full cone
  table,         \* connection_hash_table, by source port
  up,            \* a redirected datagram in a socket of the relay
  down,          \* a reply the relay has sent and the packet thread not seen
  wire,          \* destinations the relay has asked; they may answer at any time
  tcp,           \* ports with a proxied TCP connection
  sweep,         \* cleanup: ticks since it read the clock, entries left
  quiet,         \* per port: ticks since a datagram that should use its entry
  asked,         \* history: uses of the ports
  said,          \* history: what the rules have said
  seen           \* what the last step made visible outside

vars == <<rules, table, up, down, wire, tcp, sweep, quiet, asked, said, seen>>

\* Zero: the 0.0.0.0 of the IPv4 fields of an IPv6 entry.
Zero == "zero"
Own == "relay"   \* the relay's own port as the source of a reply

Fam(d) == IF d \in Dests4 THEN "v4" ELSE "v6"
Entry == [dest : Dests, cone : BOOLEAN, age : 0 .. AgeCap]
Asks == Ports \X Dests \X {"udp", "tcp"}
Nothing == [kind |-> "nothing"]

TypeOK ==
  /\ rules \in Rulings
  /\ table \in [Ports -> Entry \cup {None}]
  /\ up \in [port : Ports, want : Dests] \cup {None}
  /\ down \in [port : Ports, origin : Dests] \cup {None}
  /\ wire \subseteq Dests /\ tcp \subseteq Ports
  /\ sweep \in [lag : 0 .. MaxLag, todo : SUBSET Ports]
  /\ quiet \in [Ports -> 0 .. AgeCap]
  /\ asked \subseteq Asks /\ Cardinality(asked) <= MaxAsked
  /\ said \subseteq Dests \X Actions
  /\ seen.kind \in {"nothing", "reached", "delivered"}

Init ==
  /\ rules \in Rulings
  /\ table = [p \in Ports |-> None]
  /\ up = None /\ down = None /\ wire = {} /\ tcp = {}
  /\ sweep = [lag |-> 0, todo |-> {}]
  /\ quiet = [p \in Ports |-> AgeCap]
  /\ asked = {} /\ said = {<<d, rules[d]>> : d \in Dests}
  /\ seen = Nothing

-----------------------------------------------------------------------------
(* The table *)

add_connection(d, cone) == [dest |-> d, cone |-> cone, age |-> 0]

\* The entry of a port that has none; lost if there is no memory for it.
Added(p, d, cone) ==
  \/ table' = [table EXCEPT ![p] = add_connection(d, cone)]
  \/ UNCHANGED table

\* What each lookup finds at port p.  get_connection asks for no family.
get_connection(p) == IF Fam(table[p].dest) = "v4" THEN table[p].dest ELSE Zero
full_v6(p) == table[p] # None /\ Fam(table[p].dest) = "v6"

\* Mutant: the lookup leaves last_activity alone.
Refreshed_Not(p) == table

\* Every lookup that finds an entry refreshes it.
Refreshed(p) == [table EXCEPT ![p].age = 0]

Reached(via, p, want, got) ==
  seen' = [kind |-> "reached", via |-> via, port |-> p, want |-> want, got |-> got]

-----------------------------------------------------------------------------
(* Packet thread: a datagram from the socket of port p and d's family to d *)

Uses(p, d, proto) ==
  /\ asked' = asked \cup {<<p, d, proto>>}
  /\ Cardinality(asked') <= MaxAsked
  /\ UNCHANGED <<rules, wire, tcp, sweep, said>>

\* Mutant: loopback and the others are proxied as well.
Action_NoOverride(d) == rules[d]

Action(d) ==
  IF d \in Unruled \/ (d \in Special /\ rules[d] # "BLOCK") THEN "DIRECT" ELSE rules[d]

\* A port with an entry: no rule is asked, the entry stays as it is.
Tracked(p, d) ==
  /\ table[p] # None
  /\ IF table[p].cone
       THEN Reached("cone", p, d, d) /\ UNCHANGED up
       ELSE up' = [port |-> p, want |-> d] /\ seen' = Nothing
  /\ UNCHANGED table

\* The configuration is looked up once more after the check: if the user has just
\* changed it to an HTTP one, full cone is not used and IPv6 is dropped.  Without
\* memory for the entry the datagram goes its way all the same.
Untracked(p, d) ==
  /\ table[p] = None
  /\ \/ /\ Action(d) = "DIRECT"
        /\ Reached("direct", p, d, d) /\ UNCHANGED <<table, up>>
     \/ /\ Action(d) = "BLOCK" \/ (Action(d) # "DIRECT" /\ Fam(d) = "v6")
        /\ seen' = Nothing /\ UNCHANGED <<table, up>>
     \/ /\ Action(d) = "PROXY" \/ (Action(d) = "CONE" /\ Fam(d) = "v4")
        /\ Added(p, d, FALSE)
        /\ up' = [port |-> p, want |-> d] /\ seen' = Nothing
     \/ /\ Action(d) = "CONE"
        /\ Added(p, d, TRUE)
        /\ Reached("cone", p, d, d) /\ UNCHANGED up

ClientSends(p, d) ==
  /\ up = None
  /\ Uses(p, d, "udp")
  /\ Tracked(p, d) \/ Untracked(p, d)
  /\ quiet' = [quiet EXCEPT ![p] =
       IF table[p] = None \/ Fam(table[p].dest) = Fam(d) THEN 0 ELSE @]
  /\ UNCHANGED down

\* Mutant: a reply keeps the relay's port.
RestoreSource_Label(r) == Own

\* The source a reply shows to the client.
RestoreSource(r) ==
  IF Fam(r.origin) = "v4" THEN get_connection(r.port)
  ELSE IF full_v6(r.port) THEN table[r.port].dest ELSE Own

\* A reply of the relay on its way to the client.
Restore ==
  /\ down # None /\ down' = None
  /\ IF table[down.port] = None /\ Fam(down.origin) = "v4"
       THEN seen' = Nothing
       ELSE seen' = [kind |-> "delivered", port |-> down.port, origin |-> down.origin,
                     label |-> RestoreSource(down)]
  /\ table' = IF table[down.port] # None
                   /\ (Fam(down.origin) = "v4" \/ full_v6(down.port))
                THEN Refreshed(down.port) ELSE table
  /\ UNCHANGED <<rules, up, wire, tcp, sweep, quiet, asked, said>>

\* TCP keeps its connections in the same table (TcpRedirect).
TcpOpen(p, d) ==
  /\ p \notin tcp /\ tcp' = tcp \cup {p}
  /\ asked' = asked \cup {<<p, d, "tcp">>} /\ Cardinality(asked') <= MaxAsked
  /\ IF table[p] = None THEN Added(p, d, FALSE) ELSE UNCHANGED table
  /\ seen' = Nothing
  /\ UNCHANGED <<rules, up, down, wire, sweep, quiet, said>>

TcpClose(p) ==
  /\ p \in tcp /\ tcp' = tcp \ {p}
  /\ table' = [table EXCEPT ![p] = None]
  /\ seen' = Nothing
  /\ UNCHANGED <<rules, up, down, wire, sweep, quiet, asked, said>>

-----------------------------------------------------------------------------
(* udp_relay_server *)

\* A datagram for the proxy: to wherever the entry of its port says, if there is
\* a SOCKS5 configuration for it by now.
ToProxy ==
  /\ up # None /\ up' = None
  /\ LET p == up.port
         found == IF Fam(up.want) = "v4" THEN table[p] # None ELSE full_v6(p)
         dest == IF Fam(up.want) = "v4" THEN get_connection(p) ELSE table[p].dest
     IN IF found
          THEN /\ table' = Refreshed(p)
               /\ \/ seen' = Nothing /\ UNCHANGED wire
                  \/ /\ Reached("relay", p, up.want, dest)
                     /\ wire' = wire \cup ({dest} \ {Zero})
          ELSE seen' = Nothing /\ UNCHANGED <<table, wire>>
  /\ UNCHANGED <<rules, down, tcp, sweep, quiet, asked, said>>

Candidates(d) == {p \in Ports : table[p] # None /\ table[p].dest = d}

\* Of the entries for a destination, those used last.
Youngest(ps) == {p \in ps : \A q \in ps : table[p].age <= table[q].age}

\* The answer of d goes to the client that used d last; in IPv4 that keeps
\* the client's entry young.
FromProxy(d) ==
  /\ d \in wire /\ down = None
  /\ \E p \in Youngest(Candidates(d)) :
       /\ down' = [port |-> p, origin |-> d]
       /\ table' = IF Fam(d) = "v4" THEN Refreshed(p) ELSE table
  /\ seen' = Nothing
  /\ UNCHANGED <<rules, up, wire, tcp, sweep, quiet, asked, said>>

-----------------------------------------------------------------------------
(* cleanup_stale_connections, the user's rules, time *)

CleanupBegin ==
  /\ sweep.todo = {}
  /\ sweep' = [lag |-> 0, todo |-> {p \in Ports : table[p] # None}]
  /\ sweep'.todo # {} /\ seen' = Nothing
  /\ UNCHANGED <<rules, table, up, down, wire, tcp, quiet, asked, said>>

\* `now - last_activity`, unsigned; now was read when the pass began.
Elapsed(p) == (table[p].age - sweep.lag) % Word

CleanupScan(p) ==
  /\ p \in sweep.todo
  /\ sweep' = LET todo == sweep.todo \ {p}
              IN [lag |-> IF todo = {} THEN 0 ELSE sweep.lag, todo |-> todo]
  /\ table' = IF table[p] # None /\ Elapsed(p) > Limit
                THEN [table EXCEPT ![p] = None] ELSE table
  /\ seen' = Nothing
  /\ UNCHANGED <<rules, up, down, wire, tcp, quiet, asked, said>>

EditRules ==
  /\ rules' \in Rulings /\ rules' # rules
  /\ said' = said \cup {<<d, rules'[d]>> : d \in Dests}
  /\ seen' = Nothing
  /\ UNCHANGED <<table, up, down, wire, tcp, sweep, quiet, asked>>

Older(age) == IF age < AgeCap THEN age + 1 ELSE age

\* What is in a queue is taken within a tick.
Tick ==
  /\ up = None /\ down = None
  /\ sweep.todo # {} => sweep.lag < MaxLag
  /\ table' = [p \in Ports |->
       IF table[p] = None THEN None ELSE [table[p] EXCEPT !.age = Older(@)]]
  /\ quiet' = [p \in Ports |-> Older(quiet[p])]
  /\ sweep' = IF sweep.todo # {} THEN [sweep EXCEPT !.lag = @ + 1] ELSE sweep
  /\ seen' = Nothing
  /\ UNCHANGED <<rules, up, down, wire, tcp, asked, said>>

Next ==
  \/ \E p \in Ports, d \in Dests : ClientSends(p, d) \/ TcpOpen(p, d)
  \/ \E p \in Ports : TcpClose(p) \/ CleanupScan(p)
  \/ \E d \in Dests : FromProxy(d)
  \/ Restore \/ ToProxy \/ CleanupBegin \/ EditRules \/ Tick

Spec == Init /\ [][Next]_vars

-----------------------------------------------------------------------------
(* Properties *)

\* Port p has never been used for anything but datagrams to d.
Alone(p, d) == {a \in asked : a[1] = p} = {<<p, d, "udp">>}

\* Nobody else has used d.
Sole(p, d) == {a \in asked : a[2] = d} = {<<p, d, "udp">>}

\* The table has one entry per port number and one destination per entry.  For
\* a socket that needs no more, whatever other clients, protocols, rules and
\* the cleanup do, its datagrams reach the destination they were sent to, and
\* the answers of a destination that it alone uses come to it and to no other
\* socket, showing that destination as their source; in IPv6 they show the
\* relay's port if the entry has just been removed.  Every variable keeps its type.
RightWhenAlone ==
  /\ TypeOK
  /\ \A p \in Ports, d \in Dests : Alone(p, d) =>
       /\ seen.kind = "reached" /\ seen.port = p => seen.got = d
       /\ seen.kind = "delivered" /\ seen.port = p => seen.origin = d
       /\ seen.kind = "delivered" /\ seen.origin = d /\ Sole(p, d) =>
            /\ seen.port = p
            /\ \/ seen.label = d
               \/ seen.label = Own /\ Fam(d) = "v6" /\ table[p] = None

\* A destination gets a datagram directly only if the rules have said so at
\* some time or it is never proxied, and by the shared relay only if a rule or
\* a TCP connection has sent traffic for it to a proxy: a stale entry neither
\* leaks what was to be proxied nor proxies what was not.
RuleKept ==
  seen.kind = "reached" /\ seen.got # Zero =>
    \/ seen.via = "direct" /\ (<<seen.got, "DIRECT">> \in said \/ seen.got \in Special)
    \/ seen.via = "relay"
       /\ \/ \E p \in Ports : <<p, seen.got, "tcp">> \in asked
          \/ seen.got \notin Special
             /\ \E a \in {"PROXY", "CONE"} : <<seen.got, a>> \in said
    \/ seen.via = "cone" /\ \E d \in Dests : <<d, "CONE">> \in said

\* The cleanup takes the entry of a client of the shared relay only after its
\* socket has been silent for the limit, unless its datagram is just on its
\* way or the clock was read before the last use and the difference wrapped.
ActiveKept ==
  [][\A p \in Ports :
       p \in sweep.todo /\ p \notin sweep'.todo /\ table[p] # None /\ table'[p] = None =>
         \/ table[p].cone
         \/ quiet[p] > Limit
         \/ up # None /\ up.port = p
         \/ table[p].age < sweep.lag]_vars
=============================================================================
