# TLA+ models of ProxyBridge

ProxyBridge (Windows) intercepts the traffic of chosen processes with WinDivert and carries it
through SOCKS5 or HTTP proxies, among them an XRay process that its GUI supervises. The core is
one C file, `Windows/src/ProxyBridge.c` (line numbers without a file name below refer to it);
the GUI is C#. This directory models the core's concurrent parts in TLA+, checks them with TLC
and proves their main invariants with TLAPS.

## 1. Inventory

| Component | State | Operations | Talks to |
|---|---|---|---|
| Packet thread (`packet_processor`, 470-1330) | per-port bitmaps `port_decided_bitmap`, `port_direct_bitmap` | one intercepted packet: fast path, redirect, rule check, reinjection | connection table, rules, PID cache, relays (by port 34010, 34011, 34012) |
| Connection table (4387-4745) | hash table of `CONNECTION_INFO`, keyed by source port, one SRW lock | add, tracked?, get (refreshes), remove, stale cleanup | packet thread, all relays, cleanup thread |
| TCP relay (4000-4385) | listener, one handler thread per connection, `RELAY_PAIR` with a reference count | accept, look up, connect to proxy, pump both ways | table, proxy configurations, handshakes |
| Full-cone UDP relay (3440-3972) | session table, one worker and one reader thread per session, sockets, clocks | dispatch, handshake, reset, sweep, destroy, shutdown | table (flag `full_cone`), proxy configurations |
| Legacy UDP relay (2954-3436) | one shared SOCKS5 association per configuration, retry guard | establish, send, receive, map replies to clients, reconnect | table, proxy configurations |
| Rules (1639-2204, 4771-5078) | linked list without a lock, `g_has_active_rules` | match; add, edit, enable, move, delete | GUI thread, packet thread |
| Proxy configurations (2208-2250, 5080-5243) | array, next identifier | add, edit, delete (moves the array), find | GUI thread, relays |
| PID cache, connection log, DNS cache (2255-2480, 5275-5444) | bounded hash tables and lists with time stamps | look up, insert, expire | packet thread, cleanup thread |
| Handshakes (2481-2950) | none (one socket) | SOCKS5 connect / associate, HTTP CONNECT | relays, proxy |
| Lifetime (5475-5770) | `running`, thread handles, sockets | Start, Stop, DLL attach/detach | everything |
| XRay supervision (`gui/Services/XRayService.cs`) | process, `_isRunning`, pid file | start, stop, `Exited` callback | operating system |
| Profiles (`gui/Services/ProfileManager.cs`) | profile files, identifier maps | load, save (normalise, write, replace) | GUI view models, native identifiers |
| GUI, CLI, views, installer | data binding, wording, packaging | | |

Where it is hard:

- *Interleaving.* A session is shared by the relay thread, its worker and its reader; the
  connection table by the packet thread, three relays and the cleanup thread; the rule list by
  the GUI and the packet thread with no lock at all.
- *Stale values.* The per-port decision outlives its connection; socket numbers and ports are
  reused by the system; `now` is read once and compared later in unsigned arithmetic.
- *Failure.* Proxies refuse, handshakes time out, `CreateThread` and `malloc` fail half-way.
- *Termination.* Shutdown and teardown join threads without a limit.

What makes each component correct: sessions are never used after they are freed, have one owner
and exact count (full-cone); datagrams keep their order across the handshake buffer; the decision
cache and the table agree, a connection keeps its route, a reused port starts afresh (TCP); replies
reach the client that asked (UDP relays); readers of the rule list see old or new rules only; stop
leaves no thread behind; saved rules refer to saved configurations.

`PROJECT.json` lists the hazards line by line, with the properties that cover them.

## 2. Plan

| Order | Module | Content | State |
|---|---|---|---|
| 1 | `DatagramOrder`, `FullCone`, `FullConeProofs` | promise of the UDP path; the full-cone relay that implements it; safety and refinement proved | done |
| 2 | `TcpRedirect`, `TcpRedirectProofs` | decision cache, TCP entries, listener, cleanup | done |
| 3 | `RelayPair`, `RelayPairProofs` | the two one-way pumps, the reference count, half-close, reused socket numbers | done |
| 4 | `RuleList`, `RuleListProofs`, `Patterns` | unlocked edits against the matching thread; the filters as functions | done |
| 5 | `ConnMap`, `ConnTable` | the table as a map, and the hash chains that implement it until cleanup, which drops the lock in mid-chain, reads a freed cell; both proved, in `TcpRedirectProofs` | done |
| 6 | `UdpPath`, `UdpPathProofs` | a UDP datagram and its answer through packet thread, table and shared relay; IPv4, IPv6 and TCP under one port number | done |
| 7 | `UdpRelay` | shared associations, retry guard, configurations edited under the relay; proved in `UdpPathProofs` | done |
| 8 | `Handshake`, `HandshakeProofs` | names of addresses from the DNS cache; SOCKS5 and HTTP exchanges with a proxy whose answers come in pieces | done |
| 9 | `Lifetime`, `LifetimeProofs` | Start/Stop with timed joins, restart with threads left over | done |
| 10 | `Classify`, `ClassifyProofs` | PID cache with 32-bit stamps, process lookup, a port that changes its owner | done |
| 11 | `XRayService`, `Profile` | `Exited` of a replaced process; identifiers renumbered on save and mapped on load | open |

Abstract specifications: `DatagramOrder` (implemented by `FullCone`) and `ConnMap` (implemented by
`ConnTable`), both proved. Every safety property that a run checks is proved (section 16).

## 3. The full-cone UDP relay: `FullCone`

Three kinds of thread share sessions. The structure is split by who owns what (3440-3451), and
`g_fullcone_lock` protects the table and the hand-over from worker to relay.

| Model | Code |
|---|---|
| `sess`, `table`, `count` | `FULLCONE_SESSION` structures, those linked in `g_fullcone_sessions`, `g_fullcone_session_count`. A structure that is not allocated is `FREE`, with its fields reset; using it is the error `NoUseAfterFree` excludes |
| `worker`, `reader` | program counters and locals of `fullcone_connect_worker` and `fullcone_session_reader` |
| `relay`, `frame` | `udp_fullcone_relay_server`, and the locals of the one `fullcone_destroy_session` in progress |
| `owner` | the operating system's socket table: which session opened a number. A closed number may be handed out again at once (`HandleReuse`) |
| `handed`, `sent` | history: datagrams per client, those passed to `sendto` |

One step is one hold of the lock, or the code between two holds, so all orders of the code's lock
acquisitions are explored. `LoopTest`, `SelectTimeout`, `Receive` are the relay's loop;
`LookupActive` ... `LookupNone`, `SendOk`, `SendError`, `CapCheck`, `Insert`, `InsertFails` are
`fullcone_dispatch_v4/v6` (the same control twice in the code, once here); `Destroy` starts
`fullcone_destroy_session`, whose stages are `Unlink`, `CloseBoth`, `JoinWorker`,
`JoinReaderAndFree`; `BeginSweep`, `SweepVictim`, `SweepBucket`, `SweepEnd` are `fullcone_sweep`;
`DrainOne`, `DrainEnd` the end of the relay thread. `Handshake`, `WorkerBail`, `WorkerFails`,
`WorkerPublishes`, `WorkerExit` are the worker, with failing handshakes and failing
`CreateThread`; `ReaderEnter`, `ReaderRecv`, `ReaderBreak` the reader. `Stop` clears `running`.

Time is a `Tick` that ages every time stamp. The relay's `now` is read at the top of an operation
and used later, so `relay.lag` counts the ticks that passed in between, and `Elapsed` subtracts
modulo `Word` as the code's `ULONGLONG` does.

Abstractions: one hash bucket per key (a bucket's chain matters only by its first match, and
`OneSessionPerKey` shows there is one); a datagram is its number; the bytes of the SOCKS5 exchange
are a success or a failure after any delay; connection-table lookups at session creation succeed
or fail freely (`InsertFails`).

Properties: `NoUseAfterFree`, `OneSessionPerKey`, `SocketsOwned`,
`NoHalfBuiltSession`, `CountIsTableSize`, `TimersUnlessWrapped`, the refinement `PromisedOrder` of
`DatagramOrder`, and the liveness properties `DestroyCompletes`, `IdleIsSwept`, `ShutdownCompletes`. A
handshake whose worker never reported would keep its session PENDING and violate `ShutdownCompletes`.

## 4. TCP interception: `TcpRedirect`

| Model | Code |
|---|---|
| `cache` | the two bitmaps; `port_set_direct`, `port_set_decided`, `port_clear` are operators of the same names |
| `table` | TCP entries of `connection_hash_table`: destination and age of `last_activity` |
| `rules` | the verdict of the enabled rules on a process and a destination |
| `client` | external: the application's connection per port, and `route`, where its last segment went. `settled` is history |
| `backlog`, `upstream` | connections waiting in the listener, and the destination `connection_handler` serves each accepted one with |
| `cleaner` | the cleanup thread's scan and the age of the `now` it read before it |

`Segment` is the outbound branch of `packet_processor` for TCP, with the alternatives in the code's
order: `FastPath`, `Redirect`, `PassUnruled`, `Decide`. It is one step: only this thread writes the
bitmaps or adds entries (`NUM_PACKET_THREADS` is 1), and the others remove or refresh entries,
which commutes to just after the segment. Clients (`Connect`, `Send`, `Finish`, `Late`, `Reset`,
`Gone`) send it what a TCP stack sends, including segments after the first FIN, repeated SYNs and the RST of a port
nobody uses. `EstablishRelay`, `Reply`, `RelayClose` are the branch for segments of the relay,
`Accept` and `Refuse` the listener, `CleanupBegin`, `CleanupRemove`, `CleanupKeep` the cleanup
thread.

Abstractions: one bucket per port; the PID lookup returns the owner or nothing (`LookupFails`); a
rule edit is one step (its inner steps belong to `RuleList`); a port is used again only after the
relay has finished with its previous connection; IPv4 and IPv6 have the same control and are
modelled once; entries shared by two families or by TCP and UDP are in `UdpPath`.

Properties: `TrackedNeverDirect`, `RouteKept`, `CleanupUnlessWrapped`, `EntryReclaimed`, and
`OwnDestination`, which a comment of the code states and the code does not keep (section 14).

## 5. One relayed connection: `RelayPair`

| Model | Code |
|---|---|
| `handler` | `connection_handler` and, once both sockets are there, `transfer_handler` |
| `pump` | the two threads in `one_way_relay`: `up` from client to proxy, `down` back |
| `pair` | `RELAY_PAIR`: allocated or not, and `refs` |
| `sock`, `owner` | the socket numbers the threads hold, and the system's table of open numbers; `OtherOpens` and `OtherCloses` are the process's other connections, which get a number as soon as it is closed |
| `peer`, `shut` | what the two ends have done (FIN, RST), and the sides shut down with `SD_BOTH` |
| `src`, `taken`, `put` | chunks written by the source, received by the pump, handed to the other side |

`Send` is one `send()` of `send_all`, so a buffer may go out in several steps and fail between
them; a pump that gets no buffer goes straight to its end; `Start` is where `transfer_handler` has
everything it needs, `AbandonClient` and `AbandonProxy` every earlier failure. A `send` may block as
long as the other end does not read, so it has no fairness.

Properties: `SocketsOwned`, `PairLive`, `LossExplained`, and the liveness property `EndsTogether`.
The price of the design shows in `LossExplained`: the second disjunct is needed. Either direction's end
shuts both sockets for both directions, so a client that half-closes after its request loses
what the proxy has not yet sent.

## 6. The rules: `RuleList`

| Model | Code |
|---|---|
| `cell`, `head` | `PROCESS_RULE` structures with their `next`, and `rules_list`; a freed cell may be allocated again |
| `hasActive` | `g_has_active_rules` |
| `editor` | the thread in `ProxyBridge_AddRule` ... `ProxyBridge_MoveRuleToPosition` (the user interface makes these calls one at a time), between two of its stores |
| `matcher` | the packet thread: the test of the flag, then `match_rule` rule by rule |
| `order` | history: the list the user sees |

Steps are single stores and reads in program order: the accesses have no lock, and on x86 a thread sees another's stores
in the order they were made. `matcher.overlap` and `matcher.allowed` are history: what
kind of edit has overlapped the check, and the verdicts of the lists it may have seen.

Abstractions: a rule's hosts and ports are one filter that matches the flow, does not, is `*`, is NULL
(after a failed edit) or freed; `full_cone` and the configuration are part of the action (`CONE` is
`PROXY` with `full_cone` set; an added rule has it off, an edit leaves it as it is, and in a rule that is not `PROXY` it is left open
until the rule becomes one); an edit writes action, protocol and configuration in one step;
`match_rule` and `match_rule_v6` have the same control and are modelled once; the PID lookup before the walk is left out.

Properties: `ListIsSequence`, `FlagExact`, `VerdictRight`, `FreedExplained`, `CheckEnds`. Each says
exactly how far the unlocked list can be trusted. What they leave room for does happen in the model:

- while any rule is added, switched, edited or deleted, packets of new flows pass unchecked for the time between the two
  stores of `update_has_active_rules`, unless a connection callback is set;
- a check that a `MoveRuleToPosition` overlaps can miss the moved rule, or those between its places;
- a check that a deletion or an edit overlaps can read freed memory;
- an edit that runs out of memory leaves a rule that matches every host, or, for `*`, ends the program at the next check.

A rule without any filter is matched after all others, wherever it stands in the list (2045-2049);
`VerdictOf` says so. Moving the only rule to a later position dereferences NULL (5063-5064); no caller does it, the model leaves it out.

## 7. The filters of a rule: `Patterns`

Pure functions, one per function of the code (`wildcard_match`, `match_process_pattern`, `match_process_list`,
`parse_token_list`, `match_port_pattern`; `match_ip_pattern` and `match_ip_pattern_v6` in the parts
`match_ip_octets`, `match_ip_range`, `match_range_v6`, `match_cidr_v6`). `wildcard_match` is a recursive function over
the places of the pattern, whose value is the set of places from which the text matches the rest. A text is a sequence of letters, a number one letter, an address the value that `sscanf` or
`inet_pton` returned. `WildcardsRight`, `ListsRight`, `PortsRight` and `HostsRight` compare each with a declarative
definition over all inputs of the instance (names of up to `MaxLength` letters, list entries of up to `MaxEntry`);
`FiltersRight` of `Classify` evaluates them in that module's run. Proved for all constants (section 16).
What they show besides: a port interval without its end (`80-`) has no port but 0, and parts of an IPv4 pattern
after the fourth octet are not looked at. Not modelled: the failure of `malloc` in the list matchers.

## 8. The connection table in memory: `ConnTable` and `ConnMap`

`ConnMap` is what callers rely on: a map from port to entry whose calls take effect at once. One call may have no effect: the add of a port
without an entry needs memory and returns silently when there is none (4412-4416, 4456-4460), which is `PutLost` there and `AddFails` here, possible at any
time. The overwriting of an entry that exists cannot be lost. (The callers go on as if it had worked: `TcpRedirect.Decide` and
`UdpPath.Added` have the same failure and show what follows.) `ConnTable` is
`connection_hash_table`: `head` and `cell` with `next` pointers, a call as one step because it holds the lock, and the cleanup
entry by entry. `Walk` is what the loop over a chain comes to: the least set of cells that holds the head and, after each cell
of another port, the next one. `sweeper.at` is the cell in which `conn_ptr` points; `FreeVictim` happens without the lock, so
that other calls run between `Expire` and `Resume` and may free that very cell. The next step of the cleanup is then
`Dangling`: what the code does from there is undefined, `undefined` is set and the system stops.
`ChainsSound` and `ImplementsMap` say that everything is right up to that step, with lost adds of new ports as the only exception: the
defect has no earlier effect.
The PID cache has the same loop (4722-4743). The value of an entry is one unit, and a stamp is what the cleanup will find it to
be: old, recent, or later than its `now`, which the unsigned difference makes old too.

## 9. A UDP datagram and its answer: `UdpPath`

| Model | Code |
|---|---|
| `table` | `connection_hash_table` with destination, `full_cone` and age; its key is the port alone |
| `ClientSends` | the outbound UDP branches of the packet thread for IPv4 and IPv6: `Tracked` for a port with an entry, `Untracked` with the rule check, broadcast and other overrides, the second look-up of the configuration, and an entry that may not be made for want of memory (`Added`) |
| `ToProxy`, `FromProxy` | `udp_relay_server` with a client's datagram and with a proxy's answer, `find_v6_udp_sender` and its IPv4 loop as `Youngest` |
| `Restore` | the packet thread with a reply of the relay, whose source it restores from the table |
| `TcpOpen`, `TcpClose` | the packet thread adding and removing an entry for a TCP connection from the same port number |
| `sweep`, `CleanupScan` | the cleanup, with the age of its `now` |
| `asked`, `said`, `quiet`, `seen` | history the properties speak of |

The packet thread treats one datagram in one step: it alone adds entries, and an entry removed between two of its look-ups costs the
datagram only. Queues are emptied within a tick.

`RightWhenAlone` is the exact promise: a socket that uses one destination only, on a port number
nobody else uses, gets what it asked for. The premises are needed, each because of something the model does:

- a second destination from the same socket goes to the first one's, since a tracked port keeps its destination;
- a TCP connection or a socket of the other family with the same port number takes over, or removes, the entry;
- an IPv4 datagram on an IPv6 entry is relayed to 0.0.0.0, since `get_connection` asks for no family;
- answers of a destination that two clients use all go to the one that used it last.

`RuleKept` is about leaks: neither stale entries nor the cleanup send directly what was to be proxied.
`ActiveKept` is about cleanup. Its exceptions are real too: entries of full-cone clients are refreshed when a session is
created only, and an entry refreshed after the cleanup read the clock is removed. A port tracked as full-cone also passes BLOCK rules for
other destinations. A comment (2221-2225) says that the UDP paths "drop + log" an HTTP configuration;
`check_process_rule` returns DIRECT for it (2193-2202), so such UDP is sent directly.

## 10. The shared UDP relay and the proxy configurations: `UdpRelay`

| Model | Code |
|---|---|
| `slot`, `count`, `nextId` | `g_proxy_configs` with the slots past its end, which keep what they held |
| `relay` | `udp_relay_server` and, in it, `establish_udp_associate_for_config`: `pc`, the slot it holds, who called it |
| `net` | associations: control connection and UDP socket as one handle, opened and closed together |
| `editor` | `ProxyBridge_AddProxyConfig`, `EditProxyConfig`, `DeleteProxyConfig`, whose halves the relay may fall between |
| `inbox` | a client's datagram; the entry that names its configuration is read when it is taken |

`Reconnect`, `Control`, `TakeV4`, `SendV4`, `Replies`, `TakeV6`, `SendV6` are one turn of the loop after `SelectReturns`;
`SelectTimeout` is its other outcome, also for errors (a closed socket in the set). Slots a loop passes
without acting are one step with the next one; readiness is evaluated when a loop looks.
`raced` records that the editor changed or moved a slot while the relay held a pointer into it. `OwnAssociation` is
claimed only without such a race, which names the missing lock exactly; with it, the model shows
associations stored in the wrong configuration or lost. `ServedAgain` is liveness, and speaks of one slot, the one `find_udp_proxy_config(1)` finds:
if datagrams for configuration 1 pass the type check again and again, that slot has an open association again and again. Hang-ups, refusals and the retry
guard only delay it, and the service of another configuration does not count. The strong fairness of the server is per slot accordingly.
A datagram that the relay takes may be too long, or stand behind an error of the socket: both end the turn of the loop (`Take`).

## 11. The DNS cache and the handshakes: `Handshake`

One connection. While `pc` is `resolve`, answers pass the packet thread (`snoop_dns_response`) or escape it (`ResolvesUnseen`) and `entry` is what
`g_dns_cache` holds for the address; then `connection_handler` picks one of six forms, with the name it finds or without. `AskedForHost` is what
the comment at 1087-1089 ("SOCKS5 proxies receive the original hostname") comes to: the last name seen for the address wins, so of two names for one address
(two sites of one provider) one is asked for under the other. Which tables there are and how they are chained is left out, and so are the bytes
of an answer: it is its question and whether the address is in it.

Then one exchange over a stream: `rx` counts the bytes of the answer and of the tunnel that follows; every `Recv`
returns any non-empty prefix up to what is asked for. `proxy` is what the proxy is going to do: its method, whether it accepts the login,
grants the request, with which bound address, and how many bytes of the tunnel come with the answer. `Breaks` is a failing `send` or `recv`, or a
timeout, at any point. `base64_encode` is a function and `told` what the proxy decodes.

`SuccessIsTunnel` and `FailureExplained` list the exceptions: only the form with a host name
(2481-2556) reads answers to their end. The others call `recv` once and take what comes for the whole answer: an answer in pieces
is a failure (or, with HTTP and IPv6, a success that leaves the rest to the client), a bound address that is not IPv4 leaves bytes in
the stream, and tunnel data that arrives with the head of an HTTP answer is lost. Requests longer than `HTTP_BUFFER_SIZE` are not modelled.

## 12. Start, Stop and the threads: `Lifetime`

`caller` is the place in `ProxyBridge_Start` or `Stop`, with every path of failure; `thr` the five kinds of thread of each start: created,
in its loop, leaving, ended. `Join` may end before the threads do, as its timeouts of 1 and 4 s allow, so `Begin` may meet
threads of an earlier run (at most `MaxLate`), which find `running` true again. `sock` is the global that a relay keeps its socket in;
`ClosedBy` closes what the global holds by then. `learnt` stands for the table and the caches, `socks` for whether a SOCKS5
configuration exists and since when.

`Served` describes the state between calls for runs that do not overlap; `Quiesces` that all calls return and, when no start follows, all threads end,
also those a failed start abandoned. If runs overlap (`crossed`) a socket may be lost, and two cleanup threads may run. A SOCKS5 configuration added while running
is not served before the next start. Not modelled: thread handles that a failed start does not close, the handle of WinDivert, and the lock, which
`Start` initialises again (5483) while a thread left over may hold it.

## 13. Whose packet is it: `Classify`

One port number of one local address: `owner` per kernel table, which processes `Bind` and `Unbind`; `cache`, the entries of `pid_cache`;
`packet`, the packet thread in `check_process_rule`, with a failing look-up at each stage. Stamps are 32-bit ticks compared with 64-bit ones:
`old` is a machine up for more than 49 days, whose cache never hits. `Attributed` bounds from above how old an attribution can be (`Bound`: the life of
an entry and the duration of two checks) and, from below, that a listed process that has had its socket for so long is proxied. For UDP over
IPv4 the bound covers both tables: a UDP packet without an owner is given to the owner of the TCP port of the same number (2167-2168).

## 14. Runs

| Run | Instance | Shows |
|---|---|---|
| `fullcone_safety` | 2 clients, 2 cells, 4 socket numbers, ring 1, 2 datagrams each, Stop at any time | memory, table, socket and hand-over safety under every interleaving |
| `fullcone_live` | 2 clients, cap 1, ring 2, 2 datagrams each, `MaxLag` 1, fair | counter and cap; `DatagramOrder`; timers right except where the difference wraps; teardown, sweeps and shutdown finish if socket numbers are not reused too early |
| `tcp` | 1 port, 2 processes, 2 destinations, failing lookups, rule edits, `MaxLag` 1, fair | cache agrees with table; routes are kept; cleanup; entries left behind are reclaimed |
| `relay_pair` | 3 socket numbers, 2 chunks each way, fair | sockets and pair are released once, on every path; losses have a cause; both directions end together |
| `rules` | 3 rules, checks against lists of at most 2, two kinds of rule, no callback, fair | what list, flag and verdict can be while the list is edited |
| `udp_relay` | 2 slots, 2 servers, 2 associations, one addition or edit and any deletions, fair | associations and configurations under edits and hang-ups; the configuration in use is served again |
| `udp_path` | 2 ports, 2 destinations of each family, 4 rulings, at most 2 uses, `MaxLag` 1 | what one entry per port number confuses and what not |
| `conn_table` | 3 ports, 2 of them in one bucket, 3 cells, 2 values | chains and map, with the cleanup's released lock and adds without memory |
| `handshake` | 2 names of one address, a life of 2 ticks; all forms, answers of 8 to 137 bytes (HTTP: 14), credentials of up to 4 bytes | the host asked for, success, failure and the place in the stream |
| `lifetime` | 2 starts, 1 thread left over, fair | threads, sockets and flags |
| `classify` | 2 processes and the two tables, TTL 2, `MaxLag` 1; names of up to 3 letters, addresses of 2 octets | attribution; filters |

Two clients and two cells suffice for the session protocol because threads of different sessions
interact only through the relay thread, the lock, the counter and socket numbers: pairs show every
conflict. A ring of 1 and 2 distinguishes empty, partly filled and full; with a ring of 2 a session can buffer both datagrams, or buffer
one and send the other directly. `MaxLag` 1 is one tick between reading the clock
and using it, which is what the wrap needs; `MaxLag` 0 in `fullcone_safety` only saves states. Ages
stop at `AgeCap`, past every limit. `Word` stands for 2^64: any value above the ages gives the same
comparisons. One port suffices for `TcpRedirect` because ports meet only in the cleanup scan and in
`g_has_active_rules`. `Watched` (a connection callback is registered) is FALSE in `tcp`, where
both values of `g_has_active_rules` matter, and TRUE in `tcp_dest`.

Three socket numbers are the two of the
connection and one that others can swap in; two chunks distinguish a short send from a complete one. Three rules give an
insertion between two others; two are enough for a check, which meets each rule on its own and keeps at most one
(the rule without filters); the third cell lets freed memory be reused or not.

Two uses of ports (`MaxAsked`) are any pair that can meet in `UdpPath`: two clients, two destinations, two families, UDP and TCP. Two slots of
`UdpRelay` let a deletion move one under the relay; the unused slot past the end is read as well. Three ports and cells give `ConnTable` a chain
of two with a new cell at hand, and a second bucket that must not be touched. Answers shorter than, as long as and longer
than the ten and 22 bytes the code expects occur in `Handshake`. Two starts are what overlapping runs need.

Deadlock is not checked where the system may stop: a relay or a process that has ended (`udp_relay`, `lifetime`), a finished handshake, a table after
the read of freed memory.

One run ends in a counterexample (the code does not do what a comment says):

| Run | Claim | What happens |
|---|---|---|
| `tcp_dest` | FIN/RST clears the entry so the port can be reused safely (1118) | the relay's FIN removes the entry, the client's FIN runs the rule check and adds it again; the next connection of the port is relayed to the old destination. For a DIRECT connection the same FIN caches DIRECT again (1263), and the next connection bypasses its rule |

Fairness. `FullCone!FairSpec` is weak fairness of the threads' steps and of time: Windows schedules every
runnable thread, the loop polls with a timeout, connects and receives have timeouts in the
handshake, a closed socket ends a blocked `recvfrom`. No fairness is assumed of clients, of
replies or of Stop. `TcpRedirect!FairSpec` assumes that time passes and that the cleanup thread
wakes, which its `Sleep(30000)` loop gives. `RelayPair!FairSpec` assumes that threads run and that connecting and the handshake end, which
their timeouts give; `RuleList!FairSpec` that both threads run. `UdpRelay!FairSpec` assumes that the threads run and time passes, and, strongly, that
a server asked again and again answers at last; without that nobody could be served. `Lifetime!FairSpec` assumes that a call goes on and each thread looks at
the flag again: their waits have timeouts, or end because a socket or the driver's handle is closed.

## 15. Where the code differs from its documents

Besides `tcp_dest`, seen while modelling and built into the exceptions of the properties:

- "idle timeout 120 s" (design note, line 73): a reply recorded after the sweep read the clock makes the unsigned difference (3694) huge, and a busy
  session is closed. `TimersUnlessWrapped` allows exactly this; the retry guard at 3744 wraps in the same way, and so do 4706 (`CleanupUnlessWrapped`, `ActiveKept`).
- the reader "lives during ACTIVE" (3483): an empty datagram ends it (3629); the session keeps sending and loses every reply.
- the join in teardown is "bounded" (3659-3661): if the number of the closed socket is handed out again before the reader calls `recvfrom`, the reader waits on
  another session's socket and the relay waits for the reader. `fullcone_live` therefore sets `HandleReuse` to FALSE; the safety run does not.
- "the connection entry survives while the session is alive" (4633): the function is called when a session is created only, so cleanup removes the entry of a busy
  full-cone client after 120 s and the rules are asked again. `ActiveKept` exempts these entries.
- "drop + log" (2221-2225): see section 9. "SOCKS5 proxies receive the original hostname" (1087-1089): see section 11.

## 16. Proofs

`FullConeProofs` proves for any sets of clients, cells and sockets and any limits:

- `TypeCorrect`, `SafeFree` (`NoUseAfterFree`), `UniqueSession` (`OneSessionPerKey`): from
  `TypeOK /\ ControlInv`. `NoUseAfterFree` alone is not inductive: whether the final free is safe depends on
  where the worker and the reader were when the session was unlinked. `Ownership` records, for each place the relay
  can be in `fullcone_destroy_session`, what is already known of the session and its threads;
  `KeyReserved` records that between the lookup and the insertion no session of the key exists although the lock was released.
- `CountCorrect` (`CountIsTableSize`): adds that the table is finite and that the cap test still
  holds at the insertion; it holds because only the relay thread changes the table.
- `SocketsCorrect` (`SocketsOwned`): adds that two sessions never hold the same number, that a
  session's two sockets differ, and that what a thread closes is still its own.
- `SessionsBuilt` (`NoHalfBuiltSession`): adds, with `BuiltInv`, that a worker which has succeeded holds both sockets, and what a session has in each state.
- `TimersRight` (`TimersUnlessWrapped`), an action property: `ElapsedFacts` says that the modular difference is the real one unless the
  stamp is later than `now`; `WhoCondemns`, that only the sweep and the retry guard begin to destroy a session for its age.
- `OrderKept` (`PromisedOrder`): `FullCone` implements `DatagramOrder`, with `handed` and `sent` as the abstract variables.
  `OrderInv` is the inductive invariant: the ring of a linked session holds increasing numbers between the last one sent for its client and the last one
  handed over, and the datagram the relay has in hand is newer than both. With it each step of `FullCone` is a
  step of `DatagramOrder` or changes neither variable.

`TcpRedirectProofs` proves `TypeCorrect` and `CacheCorrect` (`TrackedNeverDirect`) for any sets of ports,
processes, destinations and any rules. The two are inductive together: adding an entry marks the
port decided, and the port cannot be direct at that point, since a direct port does not reach the
rule check, and a FIN that clears it clears both bits. `RouteIsKept` (`RouteKept`) needs `SettledBacked` as well: the route of a settled connection is
held by its entry or by its DIRECT bit, so that no segment of it asks the rules. `CleanupIsRight` (`CleanupUnlessWrapped`) rests on the module's
own `ElapsedFacts`.

`RelayPairProofs` proves `TypeCorrect`, `SocketsCorrect` (`SocketsOwned`) and `PairCorrect` (`PairLive`)
for any set of socket numbers and any number of chunks. `Control` ties the reference count to the places of the two threads
(it is the number of those that have not decremented it, and a thread that closes is alone); `Numbers` says that the
socket numbers in use are known and distinct. `LossCorrect` (`LossExplained`) needs `EndInv`: what is
true of the streams at each place of a pump, that nobody shuts a socket down before some direction has ended, and
that a direction which has ended either delivered everything up to a FIN or has one of the listed reasons. Without
the middle part a direction could find its socket shut by a neighbour that has not ended.

`RuleListProofs` proves `ListCorrect` (`ListIsSequence`), `FlagCorrect` (`FlagExact`), `FreedCorrect` (`FreedExplained`) and
`VerdictCorrect` (`VerdictRight`) for any finite memory, any rules and lists of any length.

- The list is computed by following pointers, a recursive function. `Least` (every set of numbers that is not empty has a least one) stands
  in for induction, and `NodeIs` and `ListedIs` conclude that following the pointers of a list linked in the order of a sequence finds that
  sequence. `RemoveFacts`, `InsertFacts` and `InsertRemoved` do the same for the community modules' operators on sequences.
- `ListInv` is inductive where `ListIsSequence` is not: between the two stores of a move the list is the
  user's without one rule (`TakenOut`), or the user's with an open end (`OpenEnded`), and a rule not yet freed is already out of it. One lemma per
  edit (`AddFacts` to `LinkStepFacts`) says what it does to both.
- `FlagInv` speaks of the rules of the user's list, `ReadInv` of where a check can be that no deletion and no edit has
  overlapped (`InsideFacts`: also in the middle of a move no pointer leaves the list).
- `WalkInv` says that a check is, so far, the walk of one list whose verdict is allowed. That list is the present one or, since a rule may be
  switched behind the walk, the present one as it was before the one switch (`Readings`); `WalkUpdate` shows
  that a switch before the walk's place leaves the old list possible, and one after it the new list.

`TcpRedirectProofs` also holds what is proved of the same table in memory, `ConnTable`, for any ports, buckets, cells and values;
it extends both modules, whose names do not clash for that reason. `ChainsCorrect` is `ChainsSound`, `MapImplemented` the refinement of `ConnMap`.
`ChainsSound` speaks of what a walk finds, from which no step can be computed. `Sound` says the same of the pointers alone: each live cell except
the victim of the cleanup has one predecessor, the head of its bucket or another such cell, and each cell has a number that rises along the chain,
so that there are no cycles. `WalkReaches` and `ChainIs` lead from `Sound` to the walks (the unreached cell nearest to its head
contradicts itself), `Bypassed` and `Headed` keep `Sound` over the unlinking of a cell anywhere in a chain and over a new head.
`Entries` is the map as `Sound` sees it, and each call makes on it a step of `ConnMap` (`PutIs` to `ClearIs`; an add without memory is `PutLostIs`,
since a port that `Find` does not find has no entry). Where the
cleanup may point, the invariant `TableInv` records only for the victim: that `conn_ptr` may lie in a freed cell is what `Dangling` stands for.

`UdpPathProofs` proves `RuleIsKept` (`RuleKept`), `AloneIsRight` (`RightWhenAlone`) and the action property
`ActiveIsKept` (`ActiveKept`) for any ports, destinations of either family, rulings and timeouts. None is inductive: each
speaks of a datagram, and the datagram got its address from the entry of its port. `Known` says that entries, redirected
datagrams and replies name only what their port asked for; `Justified`, that an entry exists only because of a verdict recorded in `said` or a
proxied TCP connection; `Fresh`, that an entry is no older than its client's silence unless the lookup that
will make it young is already on its way.

It also proves `AssociationsOwned` (`OwnAssociation` of `UdpRelay`) for any number of configurations, servers, sockets and edits. The property is not
inductive: it says nothing of a slot whose edit or deletion is half done, nor of the relay while it connects. `RelayInv`
adds, as long as nothing has raced, that the slot to which the result of a handshake goes still exists, has no association and names
the server that the relay read before it connected (`Aims`); that a slot being edited holds no association; and that the slots that count
(`Live`: all but the one being deleted, whose socket is closed but still noted) own the open associations, one each (`Owned`).
`OwnedClosed` to `OwnedMoved` say what each kind of store does to this; the last one moves the array down by one.

`LifetimeProofs` proves `ServedCorrect` (`Served`) for any number of runs. `Unborn` says which threads a call of Start has not
created yet, `Present` that none it created leaves while the flag is true, and `Sockets` and `Learning`,
which hold only as long as no run overlapped an earlier one, that the globals hold this run's sockets and that only its packet thread learns.

`ClassifyProofs` proves `AttributedCorrect` (`Attributed`) for any processes, lifetime of the cache entries, delays and
any rule: this proof does not expand the matchers of `Patterns`. The two halves of the property need two
invariants of the cached answer, `HadIt` (a listed process named by an entry had the port when the entry was written) and
`HasIt` (an entry younger than the tenure of the port's owner names it), and `Order`, that the second table is asked only
when the first one had no owner. The case where the 32-bit stamps have wrapped is the property's own exception.

It also proves what the matchers compute, `FiltersCorrect` (`FiltersRight`), from one theorem per kind of filter, for any alphabet, texts of any
length, and octets, addresses and bytes of any size. `Least` stands in for induction again: the last row, octet or letter where a
claim fails has a neighbour where it holds.

- `WildcardsMatch`: `RowsRight` says that a place of the text is in a row of `wildcard_match` exactly if the rest of the text can be cut into pieces for
  the rest of the pattern; one lemma for a letter (`CutOfLetter`), one for a run of stars (`CutOfStar`), which the code collapses, and
  the ends (`CutAtEnd`, `CutOfNothing`).
- `ListsMatch`, `PortsMatch`: `TokenIs` and `TwoTokensAre` find the pieces of a list from the places of its delimiters, `SkipIs`, `TrimIs` and
  `UnquoteIs` what the cleaning leaves of a piece; the rest is where the letters of a concatenation are (`Around`, `PieceIs`).
- `HostsMatch`: `SumsOrder` says that numbers written with the same number of digits are ordered by the first digit that
  differs, whence `OrderIs` for the swapped words of IPv4 addresses and `SameBytes` for `memcmp`; `OctetsAre` turns stars into the range of their
  values, and `PrefixIs` takes a prefix apart into whole bytes and masked bits.

`HandshakeProofs` proves `HostCorrect` (`AskedForHost`), `SuccessCorrect` (`SuccessIsTunnel`) and `FailureCorrect`
(`FailureExplained`) for any credentials the buffers of the code can hold, any names, any lifetime of the DNS cache and any lengths of the
answers. `Stages` says, for each place of a handshake, which request the proxy still owes an answer to and how many bytes of that
answer are unread; `Cached` ties the entry of the DNS cache to the last answer the application got. `DecodedIsEncoded` is the lemma on
`base64_encode`: what the proxy decodes is the byte sequence encoded, for every length that fits,
proved position by position from the arithmetic of three bytes in four letters.

Assumptions are those on the constants (`FullConeConstants`, `TcpConstants`, `RelayConstants`, `RuleConstants`, `ConnTableConstants`, `UdpPathConstants`,
`UdpRelayConstants`, `LifetimeConstants`, `ClassifyConstants`, `PatternConstants`, `HandshakeConstants`); TLC evaluates each in a run. They say that limits are
numbers, that `None` is no value, that the memory for rules is finite, that the modulus of a clock is larger than the differences compared, for
`Handshake` that encoded credentials fit `encoded[1024]`, which `username` and `password` of 256 bytes do (ProxyBridge.c:157-158, 2743), and for
`Patterns` that separators, blanks, quotes and stars are no letters of names, that numbers are written without them, and that every octet can be written.

Model-checked only: all liveness, which with ENABLED is beyond the prover.

## 17. Not modelled

The connection log (5275-5358): it only suppresses log lines. The reading of a DNS message (`dns_parse_name`, 2383-2421). XRay supervision and profile storage of the GUI: open in the plan. For good: drawing and data binding, localisation, the
installer, downloads, the command line's parsing, wording of log lines, checksums and header layout. WinDivert, Winsock, the TCP/IP stack and the process
tables are external and appear only through what the code can observe of them.
