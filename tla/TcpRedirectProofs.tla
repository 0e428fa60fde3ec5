------------------------- MODULE TcpRedirectProofs -------------------------
(***************************************************************************)
(* Machine-checked facts about TcpRedirect, for any number of ports,       *)
(* processes and destinations: IInv is inductive as it stands.  The last   *)
(* parts are about ConnTable, the structure behind TcpRedirect's table:    *)
(* its chains stay sound, and they implement ConnMap, for any number of    *)
(* ports, buckets and cells.                                               *)
(***************************************************************************)
EXTENDS TcpRedirect, ConnTable, NaturalsInduction, WellFoundedInduction, TLAPS

IInv == TypeOK /\ TrackedNeverDirect

-----------------------------------------------------------------------------
(* Helpers *)

\* The three operations on a port's two bits, and the clearing that a FIN or
\* RST does first, keep the pair one of the three states.
LEMMA CacheFacts ==
  ASSUME NEW c \in Cache, NEW p \in Ports
  PROVE  /\ port_set_direct(c, p) \in Cache
         /\ port_set_decided(c, p) \in Cache
         /\ port_clear(c, p) \in Cache
         /\ cache = c => \A fin \in BOOLEAN : Kept(p, fin) \in Cache
BY DEF Cache, port_set_direct, port_set_decided, port_clear, Kept

\* Ages stay in range.
LEMMA AgeFacts ==
  /\ 0 \in Age /\ \A a \in Age : Older(a) \in Age
BY TcpConstants DEF AgeCap, Age, Older

\* Looking an entry up changes its age only.
LEMMA RefreshedFacts ==
  ASSUME IInv, NEW p \in Ports
  PROVE  /\ Refreshed(p) \in [Ports -> Entry \cup {None}]
         /\ \A q \in Ports : Refreshed(p)[q] = None <=> table[q] = None
<1>1. table \in [Ports -> Entry \cup {None}]
  BY DEF IInv, TypeOK
<1>2. \A e \in Entry : e # None
  BY TcpConstants DEF Entry, Age
<1>3. ASSUME table[p] # None
      PROVE  [table[p] EXCEPT !.age = 0] \in Entry
  BY <1>1, <1>3, AgeFacts DEF Entry
<1> QED
  BY <1>1, <1>2, <1>3 DEF Refreshed

-----------------------------------------------------------------------------
(* The packet thread *)

\* Whatever a client sends, and whatever the rules answer, the port's entry and
\* its two bits keep agreeing.
LEMMA SegmentStep ==
  ASSUME IInv, NEW p \in Ports, NEW c \in Client, NEW fin \in BOOLEAN,
         Segment(p, c, fin), UNCHANGED <<backlog, upstream>>
  PROVE  IInv'
<1> DEFINE kept == Kept(p, fin)
<1>1. /\ cache \in Cache /\ client \in [Ports -> Client]
      /\ table \in [Ports -> Entry \cup {None}]
  BY DEF IInv, TypeOK
<1>2. kept \in Cache
  BY <1>1, CacheFacts
<1>3. \A q \in Ports \ {p} : (q \in kept.decided <=> q \in cache.decided)
                            /\ (q \in kept.direct <=> q \in cache.direct)
  BY <1>1 DEF Kept, port_clear, Cache
<1>4. UNCHANGED <<rules, backlog, upstream, cleaner>>
  BY DEF Segment
<1>5. \A route \in {"direct", "relay", "dropped"}, settled \in BOOLEAN :
        Route(p, c, route, settled) => client' \in [Ports -> Client]
  <2>1. \A route \in {"direct", "relay", "dropped"}, settled \in BOOLEAN :
          [c EXCEPT !.route = route, !.settled = settled] \in Client
    BY DEF Client
  <2> QED
    BY <1>1, <2>1 DEF Route
<1>6. ~OnFastPath(p, fin) => p \notin kept.direct
  BY <1>1 DEF OnFastPath, Kept, port_clear, Cache
<1>7. SUFFICES /\ client' \in [Ports -> Client]
               /\ cache' \in Cache
               /\ table' \in [Ports -> Entry \cup {None}]
               /\ TrackedNeverDirect'
  BY <1>4, <1>7 DEF IInv, TypeOK
<1>8. CASE FastPath(p, c, fin)
  <2>1. kept = cache
    BY <1>1, <1>8 DEF FastPath, OnFastPath, Kept, port_clear
  <2> QED
    BY <1>1, <1>5, <1>8, <2>1 DEF FastPath, IInv, TrackedNeverDirect, is_connection_tracked
<1>9. CASE Redirect(p, c, fin)
  <2>1. cache' \in Cache
    BY <1>1, <1>9, CacheFacts DEF Redirect
  <2>2. TrackedNeverDirect'
    BY <1>1, <1>9 DEF Redirect, IInv, TrackedNeverDirect, is_connection_tracked, port_clear, Cache
  <2> QED
    BY <1>1, <1>5, <1>9, <2>1, <2>2 DEF Redirect
<1>10. CASE PassUnruled(p, c, fin)
  <2>1. TrackedNeverDirect'
    BY <1>1, <1>3, <1>10 DEF PassUnruled, IInv, TrackedNeverDirect, is_connection_tracked
  <2> QED
    BY <1>1, <1>2, <1>5, <1>10, <2>1 DEF PassUnruled
<1>11. CASE Decide(p, c, fin)
  <2>1. table[p] = None /\ p \notin kept.direct
    BY <1>6, <1>11 DEF Decide, is_connection_tracked
  <2>2. PICK owner \in Owners(c.proc) :
          \/ /\ RuleAction(owner, c.dest) = "DIRECT"
             /\ Route(p, c, "direct", TRUE)
             /\ cache' = port_set_direct(kept, p)
             /\ UNCHANGED table
          \/ /\ RuleAction(owner, c.dest) = "BLOCK"
             /\ Route(p, c, "dropped", FALSE)
             /\ cache' = port_set_decided(kept, p)
             /\ UNCHANGED table
          \/ /\ RuleAction(owner, c.dest) = "PROXY"
             /\ cache' = port_set_decided(kept, p)
             /\ \/ /\ table' = [table EXCEPT ![p] = [dest |-> c.dest, age |-> 0]]
                   /\ Route(p, c, "relay", TRUE)
                \/ /\ UNCHANGED table
                   /\ Route(p, c, "relay", FALSE)
    BY <1>11 DEF Decide
  <2>3. cache' \in Cache /\ client' \in [Ports -> Client]
    BY <1>2, <1>5, <2>2, CacheFacts
  <2>4. RuleAction(owner, c.dest) = "PROXY" => c.dest \in Dests
    BY <2>2 DEF RuleAction, Owners, Client
  <2>5. table' \in [Ports -> Entry \cup {None}]
    <3>1. c.dest \in Dests => [dest |-> c.dest, age |-> 0] \in Entry
      BY AgeFacts DEF Entry
    <3> QED
      BY <1>1, <2>2, <2>4, <3>1
  <2>6. TrackedNeverDirect'
    <3>1. UNCHANGED table /\ (cache' = port_set_direct(kept, p) \/ cache' = port_set_decided(kept, p))
          => TrackedNeverDirect'
      BY <1>1, <1>2, <1>3, <2>1
      DEF IInv, TrackedNeverDirect, is_connection_tracked, port_set_direct, port_set_decided, Cache
    <3>2. table' = [table EXCEPT ![p] = [dest |-> c.dest, age |-> 0]]
          /\ cache' = port_set_decided(kept, p) => TrackedNeverDirect'
      BY <1>1, <1>2, <1>3, <2>1
      DEF IInv, TrackedNeverDirect, is_connection_tracked, port_set_decided, Cache
    <3> QED
      BY <2>2, <3>1, <3>2
  <2> QED
    BY <2>3, <2>5, <2>6
<1> QED
  BY <1>8, <1>9, <1>10, <1>11 DEF Segment

-----------------------------------------------------------------------------
(* The other steps *)

\* Only the packet thread writes the bitmaps, and nobody else adds an entry.
LEMMA OthersKeepTracked ==
  ASSUME IInv, UNCHANGED cache, \A p \in Ports : table'[p] # None => table[p] # None
  PROVE  TrackedNeverDirect'
BY DEF IInv, TrackedNeverDirect, is_connection_tracked

\* Taking an entry away keeps the types.
LEMMA DroppedFacts ==
  ASSUME IInv, NEW p \in Ports, Dropped(p)
  PROVE  /\ table' \in [Ports -> Entry \cup {None}]
         /\ client' \in [Ports -> Client]
         /\ \A q \in Ports : table'[q] # None => table[q] # None
<1>1. table \in [Ports -> Entry \cup {None}] /\ client \in [Ports -> Client]
  BY DEF IInv, TypeOK
<1>2. [client[p] EXCEPT !.settled = FALSE] \in Client
  <2>1. client[p] \in Client
    BY <1>1
  <2> QED
    BY <2>1 DEF Client
<1> QED
  BY <1>1, <1>2 DEF Dropped

\* Clients: a step that sends a segment, or one the packet thread does not see.
LEMMA ClientStepInv ==
  ASSUME IInv, NEW p \in Ports, ClientStep(p)
  PROVE  IInv'
<1>1. client[p] \in Client /\ NoClient \in Client
  BY DEF IInv, TypeOK, NoClient, Client
<1>2. \A pc \in {"syn", "open", "closing"} : client[p].pc # "closed"
        => [client[p] EXCEPT !.pc = pc] \in Client
  BY <1>1 DEF Client
<1>3. ASSUME NEW proc \in Procs, NEW dest \in Dests, Connect(p, proc, dest)
      PROVE  IInv'
  <2>1. [NoClient EXCEPT !.pc = "syn", !.proc = proc, !.dest = dest] \in Client
    BY DEF NoClient, Client
  <2> QED
    BY <1>3, <2>1, SegmentStep DEF Connect
<1>4. CASE Send(p)
  BY <1>1, <1>4, SegmentStep DEF Send
<1>5. CASE EstablishDirect(p)
  <2>1. client' \in [Ports -> Client]
    BY <1>2, <1>5 DEF EstablishDirect, IInv, TypeOK
  <2> QED
    BY <1>5, <2>1 DEF EstablishDirect, IInv, TypeOK, TrackedNeverDirect, is_connection_tracked
<1>6. CASE EstablishRelay(p)
  <2>1. client' \in [Ports -> Client]
    BY <1>2, <1>6 DEF EstablishRelay, IInv, TypeOK
  <2>2. backlog' \subseteq Ports
    BY <1>6 DEF EstablishRelay, IInv, TypeOK
  <2>3. TrackedNeverDirect'
    BY <1>6, RefreshedFacts, OthersKeepTracked DEF EstablishRelay
  <2> QED
    BY <1>6, <2>1, <2>2, <2>3, RefreshedFacts DEF EstablishRelay, IInv, TypeOK
<1>7. CASE Finish(p)
  <2>1. [client[p] EXCEPT !.pc = "closing"] \in Client
    BY <1>2, <1>7 DEF Finish
  <2> QED
    BY <1>7, <2>1, SegmentStep DEF Finish
<1>8. ASSUME NEW fin \in BOOLEAN, Late(p, fin)
      PROVE  IInv'
  BY <1>1, <1>8, SegmentStep DEF Late
<1>9. CASE Reset(p)
  BY <1>1, <1>9, SegmentStep DEF Reset
<1>10. CASE Gone(p)
  <2>1. client' \in [Ports -> Client]
    BY <1>1, <1>10 DEF Gone, IInv, TypeOK
  <2> QED
    BY <1>10, <2>1 DEF Gone, IInv, TypeOK, TrackedNeverDirect, is_connection_tracked
<1> QED
  BY <1>3, <1>4, <1>5, <1>6, <1>7, <1>8, <1>9, <1>10 DEF ClientStep

\* The relay refreshes entries and removes them.
LEMMA RelayStepInv ==
  ASSUME IInv, NEW p \in Ports, RelayStep(p)
  PROVE  IInv'
<1>1. CASE Accept(p)
  <2>1. table[p].dest \in Dests
    BY <1>1 DEF Accept, IInv, TypeOK, Entry
  <2>2. upstream' \in [Ports -> Dests \cup {None}] /\ backlog' \subseteq Ports
    BY <1>1, <2>1 DEF Accept, IInv, TypeOK
  <2>3. TrackedNeverDirect'
    BY <1>1, RefreshedFacts, OthersKeepTracked DEF Accept
  <2> QED
    BY <1>1, <2>2, <2>3, RefreshedFacts DEF Accept, IInv, TypeOK
<1>2. CASE Refuse(p)
  <2>1. backlog' \subseteq Ports
    BY <1>2 DEF Refuse, IInv, TypeOK
  <2> QED
    BY <1>2, <2>1, DroppedFacts, OthersKeepTracked DEF Refuse, IInv, TypeOK
<1>3. CASE Reply(p)
  BY <1>3, RefreshedFacts, OthersKeepTracked DEF Reply, IInv, TypeOK
<1>4. CASE RelayClose(p)
  <2>1. upstream' \in [Ports -> Dests \cup {None}]
    BY <1>4 DEF RelayClose, IInv, TypeOK
  <2> QED
    BY <1>4, <2>1, DroppedFacts, OthersKeepTracked DEF RelayClose, IInv, TypeOK
<1> QED
  BY <1>1, <1>2, <1>3, <1>4 DEF RelayStep

\* Cleanup removes entries, the clock ages them.
LEMMA CleanerTickInv ==
  ASSUME IInv, CleanerStep \/ Tick
  PROVE  IInv'
<1>1. cleaner \in [lag : 0 .. MaxLag, scan : SUBSET Ports] /\ 0 \in 0 .. MaxLag
  BY TcpConstants DEF IInv, TypeOK
<1>2. CASE CleanupBegin
  <2>1. cleaner' \in [lag : 0 .. MaxLag, scan : SUBSET Ports]
    BY <1>1, <1>2 DEF CleanupBegin
  <2> QED
    BY <1>2, <2>1 DEF CleanupBegin, IInv, TypeOK, TrackedNeverDirect, is_connection_tracked
<1>3. ASSUME NEW p \in Ports, Scanned(p)
      PROVE  cleaner' \in [lag : 0 .. MaxLag, scan : SUBSET Ports]
  BY <1>1, <1>3 DEF Scanned
<1>4. ASSUME NEW p \in Ports, CleanupRemove(p)
      PROVE  IInv'
  <2>1. cleaner' \in [lag : 0 .. MaxLag, scan : SUBSET Ports] /\ Dropped(p)
    BY <1>3, <1>4 DEF CleanupRemove
  <2>2. TrackedNeverDirect'
    BY <1>4, <2>1, DroppedFacts, OthersKeepTracked DEF CleanupRemove
  <2> QED
    BY <1>4, <2>1, <2>2, DroppedFacts DEF CleanupRemove, IInv, TypeOK
<1>5. ASSUME NEW p \in Ports, CleanupKeep(p)
      PROVE  IInv'
  BY <1>3, <1>5 DEF CleanupKeep, IInv, TypeOK, TrackedNeverDirect, is_connection_tracked
<1>6. CASE Tick
  <2>1. table \in [Ports -> Entry \cup {None}]
    BY DEF IInv, TypeOK
  <2>2. \A e \in Entry : [e EXCEPT !.age = Older(@)] \in Entry
    BY AgeFacts DEF Entry
  <2>3. table' \in [Ports -> Entry \cup {None}]
    BY <1>6, <2>1, <2>2 DEF Tick
  <2>4. \A p \in Ports : table'[p] # None => table[p] # None
    BY <1>6 DEF Tick
  <2>5. cleaner' \in [lag : 0 .. MaxLag, scan : SUBSET Ports]
    BY <1>1, <1>6, TcpConstants DEF Tick
  <2> QED
    BY <1>6, <2>3, <2>4, <2>5, OthersKeepTracked DEF Tick, IInv, TypeOK
<1> QED
  BY <1>2, <1>4, <1>5, <1>6 DEF CleanerStep

\* The user's edits touch the rules only.
LEMMA EditRulesInv ==
  ASSUME IInv, NEW proc \in Procs, NEW dest \in Dests, NEW v \in Verdict,
         EditRules(proc, dest, v)
  PROVE  IInv'
<1>1. rules' \in [Procs \X Dests -> Verdict]
  BY DEF EditRules, IInv, TypeOK
<1> QED
  BY <1>1 DEF EditRules, IInv, TypeOK, TrackedNeverDirect, is_connection_tracked

-----------------------------------------------------------------------------
(* The route of a settled connection *)

\* What holds a settled route in place: the bit that the fast path tests, or the
\* entry that the redirection finds.
SettledBacked ==
  \A p \in Ports : client[p].settled =>
    \/ client[p].route = "direct" /\ p \in cache.direct
    \/ client[p].route = "relay" /\ table[p] # None

RInv == IInv /\ SettledBacked

\* A segment of p changes p's connection only: its route and whether that is settled.
LEMMA RouteFacts ==
  ASSUME IInv, NEW p \in Ports, NEW c \in Client,
         NEW route \in {"direct", "relay", "dropped"}, NEW settled \in BOOLEAN,
         Route(p, c, route, settled)
  PROVE  /\ client'[p].route = route /\ client'[p].settled = settled
         /\ client'[p].pc = c.pc
         /\ \A q \in Ports \ {p} : client'[q] = client[q]
<1>1. client \in [Ports -> Client]
  BY DEF IInv, TypeOK
<1> QED
  BY <1>1 DEF Route, Client

\* A segment leaves the other clients alone.
LEMMA SegmentFacts ==
  ASSUME IInv, NEW p \in Ports, NEW c \in Client, NEW fin \in BOOLEAN, Segment(p, c, fin)
  PROVE  /\ client'[p].pc = c.pc
         /\ \A q \in Ports \ {p} : client'[q] = client[q]
<1>1. \E route \in {"direct", "relay", "dropped"}, settled \in BOOLEAN :
        Route(p, c, route, settled)
  <2>1. CASE FastPath(p, c, fin)
    BY <2>1 DEF FastPath
  <2>2. CASE Redirect(p, c, fin)
    BY <2>2 DEF Redirect
  <2>3. CASE PassUnruled(p, c, fin)
    BY <2>3 DEF PassUnruled
  <2>4. CASE Decide(p, c, fin)
    BY <2>4 DEF Decide
  <2> QED
    BY <2>1, <2>2, <2>3, <2>4 DEF Segment
<1> QED
  BY <1>1, RouteFacts

\* A segment settles the route only together with what holds it in place.
LEMMA SegmentSettles ==
  ASSUME RInv, NEW p \in Ports, NEW c \in Client, NEW fin \in BOOLEAN, Segment(p, c, fin)
  PROVE  SettledBacked'
<1> DEFINE kept == Kept(p, fin)
<1>1. /\ cache \in Cache /\ client \in [Ports -> Client]
      /\ table \in [Ports -> Entry \cup {None}]
  BY DEF RInv, IInv, TypeOK
<1>2. kept \in Cache /\ \A q \in Ports \ {p} : q \in kept.direct <=> q \in cache.direct
  BY <1>1, CacheFacts DEF Kept, port_clear, Cache
<1>3. \A route \in {"direct", "relay", "dropped"}, settled \in BOOLEAN :
        Route(p, c, route, settled) =>
          /\ client'[p].route = route /\ client'[p].settled = settled
          /\ \A q \in Ports \ {p} : client'[q] = client[q]
  BY RouteFacts DEF RInv
<1>4. SUFFICES /\ \A q \in Ports \ {p} : /\ client'[q] = client[q] /\ table'[q] = table[q]
                                         /\ q \in cache'.direct <=> q \in cache.direct
               /\ client'[p].settled =>
                    \/ client'[p].route = "direct" /\ p \in cache'.direct
                    \/ client'[p].route = "relay" /\ table'[p] # None
  BY <1>4 DEF RInv, SettledBacked
<1>5. CASE FastPath(p, c, fin)
  BY <1>1, <1>2, <1>3, <1>5 DEF FastPath, OnFastPath
<1>6. CASE Redirect(p, c, fin)
  BY <1>1, <1>3, <1>6 DEF Redirect, is_connection_tracked, port_clear
<1>7. CASE PassUnruled(p, c, fin)
  BY <1>1, <1>2, <1>3, <1>7 DEF PassUnruled
<1>8. CASE Decide(p, c, fin)
  <2>1. CASE Route(p, c, "direct", TRUE) /\ cache' = port_set_direct(kept, p) /\ UNCHANGED table
    BY <1>1, <1>2, <1>3, <2>1 DEF port_set_direct, Cache
  <2>2. CASE /\ \E route \in {"dropped", "relay"} : Route(p, c, route, FALSE)
             /\ cache' = port_set_decided(kept, p) /\ UNCHANGED table
    BY <1>1, <1>2, <1>3, <2>2 DEF port_set_decided, Cache
  <2>3. CASE /\ Route(p, c, "relay", TRUE) /\ cache' = port_set_decided(kept, p)
             /\ c.dest \in Dests
             /\ table' = [table EXCEPT ![p] = [dest |-> c.dest, age |-> 0]]
    <3>1. [dest |-> c.dest, age |-> 0] # None
      BY <2>3, TcpConstants DEF AgeCap
    <3> QED
      BY <1>1, <1>2, <1>3, <2>3, <3>1 DEF port_set_decided, Cache
  <2>4. \A owner \in Owners(c.proc) : RuleAction(owner, c.dest) = "PROXY" => c.dest \in Dests
    BY DEF RuleAction, Owners, Client
  <2> QED
    BY <1>8, <2>1, <2>2, <2>3, <2>4 DEF Decide
<1> QED
  BY <1>5, <1>6, <1>7, <1>8 DEF Segment

\* The other steps remove an entry only together with the claim that the route
\* is settled, and leave the bitmaps alone.
LEMMA OthersKeepBacked ==
  ASSUME RInv, UNCHANGED cache,
         \A p \in Ports : client'[p].settled =>
           /\ client[p].settled /\ client'[p].route = client[p].route
           /\ table[p] # None => table'[p] # None
  PROVE  SettledBacked'
BY DEF RInv, SettledBacked

\* Nobody's route is settled by an entry that is dropped.
LEMMA DroppedSettles ==
  ASSUME RInv, NEW p \in Ports, Dropped(p)
  PROVE  \A q \in Ports :
           /\ client'[q].pc = client[q].pc /\ client'[q].route = client[q].route
           /\ client'[q].settled =>
                client[q].settled /\ (table[q] # None => table'[q] # None)
<1>1. table \in [Ports -> Entry \cup {None}] /\ client \in [Ports -> Client]
  BY DEF RInv, IInv, TypeOK
<1>2. client[p] \in Client
  BY <1>1
<1> QED
  BY <1>1, <1>2 DEF Dropped, Client

\* The steps in which a client sends a segment.
Sends(p) ==
  \/ \E proc \in Procs, dest \in Dests : Connect(p, proc, dest)
  \/ Send(p) \/ Finish(p) \/ Reset(p)
  \/ \E fin \in BOOLEAN : Late(p, fin)

\* Steps without a segment leave a settled route where it is.
LEMMA QuietStep ==
  ASSUME RInv, [Next]_vars, \A p \in Ports : ~Sends(p)
  PROVE  /\ SettledBacked'
         /\ \A p \in Ports : client'[p].pc \in {"syn", "open"} =>
              client'[p].route = client[p].route
<1>1. table \in [Ports -> Entry \cup {None}] /\ client \in [Ports -> Client]
  BY DEF RInv, IInv, TypeOK
<1>2. \A p \in Ports : ClientStep(p) => EstablishDirect(p) \/ EstablishRelay(p) \/ Gone(p)
  BY DEF ClientStep, Sends
<1>3. ASSUME NEW p \in Ports, EstablishDirect(p)
      PROVE  SettledBacked' /\ \A q \in Ports : client'[q].route = client[q].route
  BY <1>1, <1>3, OthersKeepBacked DEF EstablishDirect, Client
<1>4. ASSUME NEW p \in Ports, EstablishRelay(p)
      PROVE  SettledBacked' /\ \A q \in Ports : client'[q].route = client[q].route
  BY <1>1, <1>4, RefreshedFacts, OthersKeepBacked DEF EstablishRelay, RInv, Client
<1>5. ASSUME NEW p \in Ports, Gone(p)
      PROVE  /\ SettledBacked'
             /\ \A q \in Ports : client'[q].pc # "closed" => client'[q].route = client[q].route
  BY <1>1, <1>5, OthersKeepBacked DEF Gone, NoClient
<1>6. ASSUME NEW p \in Ports, Dropped(p), UNCHANGED cache
      PROVE  SettledBacked' /\ \A q \in Ports : client'[q].route = client[q].route
  BY <1>6, DroppedSettles, OthersKeepBacked
<1>7. ASSUME NEW p \in Ports, table' = Refreshed(p), UNCHANGED <<cache, client>>
      PROVE  SettledBacked' /\ \A q \in Ports : client'[q].route = client[q].route
  BY <1>7, RefreshedFacts, OthersKeepBacked DEF RInv
<1>8. ASSUME UNCHANGED <<cache, client>>, \A p \in Ports : table[p] # None => table'[p] # None
      PROVE  SettledBacked' /\ \A q \in Ports : client'[q].route = client[q].route
  BY <1>8, OthersKeepBacked
<1>9. Tick => \A p \in Ports : table[p] # None => table'[p] # None
  <2>1. \A e \in Entry : [e EXCEPT !.age = Older(@)] \in Entry
    BY AgeFacts DEF Entry
  <2>2. None \notin Entry
    BY TcpConstants DEF Entry, Age
  <2> QED
    BY <1>1, <2>1, <2>2 DEF Tick
<1> QED
  <2>1. CASE \E p \in Ports : ClientStep(p)
    BY <1>2, <1>3, <1>4, <1>5, <2>1
  <2>2. CASE \E p \in Ports : RelayStep(p)
    BY <1>6, <1>7, <2>2 DEF RelayStep, Accept, Refuse, Reply, RelayClose
  <2>3. CASE CleanerStep
    BY <1>6, <1>8, <2>3 DEF CleanerStep, CleanupBegin, CleanupRemove, CleanupKeep
  <2>4. CASE Tick
    BY <1>8, <1>9, <2>4 DEF Tick
  <2>5. CASE \E proc \in Procs, dest \in Dests, v \in Verdict : EditRules(proc, dest, v)
    BY <1>8, <2>5 DEF EditRules
  <2>6. CASE UNCHANGED vars
    BY <1>8, <2>6 DEF vars
  <2> QED
    BY <2>1, <2>2, <2>3, <2>4, <2>5, <2>6 DEF Next

\* A segment sets the route again, and keeps the one that is settled.
LEMMA SendsKeepRoute ==
  ASSUME RInv, NEW p \in Ports, Sends(p)
  PROVE  /\ SettledBacked'
         /\ \A q \in Ports :
              /\ client[q].pc \in {"syn", "open"} /\ client[q].settled
              /\ client'[q].pc \in {"syn", "open"}
              => client'[q].route = client[q].route
<1>1. /\ cache \in Cache /\ client \in [Ports -> Client]
      /\ table \in [Ports -> Entry \cup {None}]
  BY DEF RInv, IInv, TypeOK
<1>2. client[p] \in Client /\ NoClient \in Client
  BY <1>1 DEF NoClient, Client
<1>3. \A c \in Client, fin \in BOOLEAN : Segment(p, c, fin) =>
        /\ \A q \in Ports \ {p} : client'[q] = client[q]
        /\ client'[p].pc = c.pc
  BY SegmentFacts DEF RInv
<1>4. CASE Send(p)
  <2>1. Segment(p, client[p], FALSE)
    BY <1>4 DEF Send
  <2>2. client[p].settled => client'[p].route = client[p].route
    <3>1. SUFFICES ASSUME client[p].settled PROVE client'[p].route = client[p].route
      OBVIOUS
    <3>2. CASE client[p].route = "direct" /\ p \in cache.direct
      <4>1. OnFastPath(p, FALSE)
        BY <1>1, <3>2 DEF OnFastPath, Kept, Cache
      <4>2. FastPath(p, client[p], FALSE)
        BY <2>1, <4>1 DEF Segment, Redirect, PassUnruled, Decide
      <4> QED
        BY <1>2, <3>2, <4>2, RouteFacts DEF FastPath, RInv
    <3>3. CASE client[p].route = "relay" /\ table[p] # None
      <4>1. ~OnFastPath(p, FALSE) /\ is_connection_tracked(p)
        BY <1>1, <3>3
        DEF RInv, IInv, TrackedNeverDirect, is_connection_tracked, OnFastPath, Kept, Cache
      <4>2. Redirect(p, client[p], FALSE)
        BY <2>1, <4>1 DEF Segment, FastPath, PassUnruled, Decide
      <4> QED
        BY <1>2, <3>3, <4>2, RouteFacts DEF Redirect, RInv
    <3> QED
      BY <3>1, <3>2, <3>3 DEF RInv, SettledBacked
  <2> QED
    BY <1>2, <1>3, <2>1, <2>2, SegmentSettles
<1>5. ASSUME NEW proc \in Procs, NEW dest \in Dests, Connect(p, proc, dest)
      PROVE  /\ SettledBacked' /\ client[p].pc = "closed"
             /\ \A q \in Ports \ {p} : client'[q] = client[q]
  <2>1. [NoClient EXCEPT !.pc = "syn", !.proc = proc, !.dest = dest] \in Client
    BY DEF NoClient, Client
  <2> QED
    BY <1>3, <1>5, <2>1, SegmentSettles DEF Connect
<1>6. CASE Finish(p)
  <2>1. [client[p] EXCEPT !.pc = "closing"] \in Client
    BY <1>2, <1>6 DEF Finish, Client
  <2>2. client'[p].pc = "closing"
    BY <1>2, <1>3, <1>6, <2>1 DEF Finish, Client
  <2> QED
    BY <1>3, <1>6, <2>1, <2>2, SegmentSettles DEF Finish
<1>7. ASSUME NEW fin \in BOOLEAN, Late(p, fin)
      PROVE  /\ SettledBacked' /\ client[p].pc = "closing"
             /\ \A q \in Ports \ {p} : client'[q] = client[q]
  BY <1>2, <1>3, <1>7, SegmentSettles DEF Late
<1>8. CASE Reset(p)
  BY <1>2, <1>3, <1>8, SegmentSettles DEF Reset
<1> QED
  BY <1>4, <1>5, <1>6, <1>7, <1>8 DEF Sends

-----------------------------------------------------------------------------
(* Theorems *)

\* TypeOK and TrackedNeverDirect hold at the start and every step keeps them.
LEMMA Invariance == Spec => []IInv
<1>1. Init => IInv
  <2>1. ASSUME Init PROVE TypeOK
    BY <2>1, TcpConstants DEF Init, TypeOK, Cache, NoClient, Client
  <2>2. ASSUME Init PROVE TrackedNeverDirect
    BY <2>2 DEF Init, TrackedNeverDirect, is_connection_tracked
  <2> QED
    BY <2>1, <2>2 DEF IInv
<1>2. IInv /\ [Next]_vars => IInv'
  <2>1. CASE UNCHANGED vars
    BY <2>1 DEF vars, IInv, TypeOK, TrackedNeverDirect, is_connection_tracked
  <2> QED
    BY <2>1, ClientStepInv, RelayStepInv, CleanerTickInv, EditRulesInv DEF Next
<1> QED
  BY <1>1, <1>2, PTL DEF Spec

\* Every variable keeps its type, and the two bits of a port never leave their
\* three states (comment at ProxyBridge.c:209).
THEOREM TypeCorrect == Spec => []TypeOK
<1>1. IInv => TypeOK
  BY DEF IInv
<1> QED
  BY <1>1, Invariance, PTL

\* A port with a table entry is never on the DIRECT fast path, for any number
\* of ports and connections and whatever the rules, the relay and the cleanup
\* thread do.
THEOREM CacheCorrect == Spec => []TrackedNeverDirect
<1>1. IInv => TrackedNeverDirect
  BY DEF IInv
<1> QED
  BY <1>1, Invariance, PTL

\* Editing rules does not move a connection whose route is settled: it keeps
\* the DIRECT bit or the entry that made the route until its own FIN or RST, the
\* end of its relay, or a cleanup.
LEMMA RouteInvariance == Spec => []RInv
<1>1. Init => SettledBacked
  BY DEF Init, SettledBacked, NoClient
<1>2. RInv /\ IInv' /\ [Next]_vars => RInv'
  BY QuietStep, SendsKeepRoute DEF RInv
<1> QED
  BY <1>1, <1>2, Invariance, PTL DEF Spec, RInv

\* The segments of a connection all take the route the first one settled
\* (the fast path and the entry lookups of packet_processor).
THEOREM RouteIsKept == Spec => RouteKept
<1>1. RInv /\ [Next]_vars =>
        [\A p \in Ports :
           /\ client[p].pc \in {"syn", "open"} /\ client[p].settled
           /\ client'[p].pc \in {"syn", "open"}
           => client'[p].route = client[p].route]_vars
  BY QuietStep, SendsKeepRoute
<1> QED
  BY <1>1, RouteInvariance, PTL DEF Spec, RouteKept

\* What is left of the age of an entry after the clock was read does not wrap
\* unless the entry was refreshed since.
LEMMA ElapsedFacts ==
  ASSUME NEW age \in Age, IInv, Elapsed(age) > IdleLimit
  PROVE  age > IdleLimit \/ age < cleaner.lag
<1>1. cleaner.lag \in 0 .. MaxLag /\ age \in 0 .. AgeCap
  BY DEF IInv, TypeOK, Age
<1>2. SUFFICES ASSUME age >= cleaner.lag PROVE age > IdleLimit
  BY <1>1, TcpConstants DEF AgeCap
<1>3. age - cleaner.lag \in 0 .. Word - 1
  BY <1>1, <1>2, TcpConstants DEF AgeCap
<1>4. \A w \in Nat : \A x \in 0 .. w - 1 : x % w = x
  BY SMT
<1>5. Elapsed(age) = age - cleaner.lag
  BY <1>3, <1>4, TcpConstants DEF Elapsed
<1> QED
  BY <1>1, <1>5, TcpConstants DEF AgeCap

\* Cleanup takes away only entries past the limit, or those that were refreshed
\* after it read the clock.
THEOREM CleanupIsRight == Spec => CleanupUnlessWrapped
<1>1. ASSUME IInv, [Next]_vars, NEW p \in Ports, CleanedUp(p)
      PROVE  table[p].age > IdleLimit \/ table[p].age < cleaner.lag
  <2>1. cleaner' # cleaner /\ cleaner.scan # {} /\ table' # table
    BY <1>1 DEF CleanedUp
  <2>2. ~Tick
    <3>1. Tick => cleaner'.scan = cleaner.scan
      BY <1>1 DEF Tick, IInv, TypeOK
    <3> QED
      BY <1>1, <3>1 DEF CleanedUp
  <2>3. \A q \in Ports : ~ClientStep(q) /\ ~RelayStep(q)
    BY <2>1 DEF ClientStep, Connect, Send, Finish, Late, Reset, Segment, EstablishDirect,
      EstablishRelay, Gone, RelayStep, Accept, Refuse, Reply, RelayClose
  <2>4. PICK q \in Ports : CleanupRemove(q)
    BY <1>1, <2>1, <2>2, <2>3 DEF Next, vars, CleanerStep, CleanupBegin, CleanupKeep, EditRules
  <2>5. q = p /\ Stale(p) /\ table[p].age \in Age
    BY <1>1, <2>4 DEF CleanupRemove, Scanned, CleanedUp, Dropped, IInv, TypeOK, Entry
  <2> QED
    BY <1>1, <2>5, ElapsedFacts DEF Stale
<1>2. IInv /\ [Next]_vars =>
        [\A p \in Ports : CleanedUp(p) =>
           table[p].age > IdleLimit \/ table[p].age < cleaner.lag]_vars
  BY <1>1
<1> QED
  BY <1>2, Invariance, PTL DEF Spec, CleanupUnlessWrapped

-----------------------------------------------------------------------------
(* The table as it lies in memory: heads hd and cells mem, L those linked *)

\* Every set of numbers that is not empty has a least one.
LEMMA Least ==
  ASSUME NEW T, T \subseteq Nat, T # {}
  PROVE  \E x \in T : \A y \in T : x <= y
<1>1. PICK x \in T : \A y \in T : ~(<<y, x>> \in OpToRel(<, Nat))
  BY NatLessThanWellFounded, WFMin, Zenon
<1>2. ASSUME NEW y \in T PROVE x <= y
  <2>1. y \in Nat /\ x \in Nat
    OBVIOUS
  <2>2. ~(y < x)
    BY <1>1, <2>1 DEF OpToRel
  <2> QED
    BY <2>1, <2>2
<1> QED
  BY <1>2

\* The bucket a cell belongs to.
Home(mem, c) == Hash(mem[c].port)

\* Each linked cell is found once, from the head of its own bucket or from one
\* other cell, and following the pointers does not go round.
Sound(L, hd, mem) ==
  /\ L \subseteq Cells
  /\ \A c \in L : mem[c].port \in SrcPorts /\ mem[c].value \in Values
  /\ \A b \in Buckets : hd[b] # NULL => hd[b] \in L /\ Home(mem, hd[b]) = b
  /\ \A c \in L : mem[c].next # NULL =>
       mem[c].next \in L /\ Home(mem, mem[c].next) = Home(mem, c)
  /\ \A c \in L : c = hd[Home(mem, c)] \/ \E d \in L : mem[d].next = c
  /\ \A c, d \in L : mem[c].next = mem[d].next /\ mem[c].next # NULL => c = d
  /\ \A c \in L, b \in Buckets : mem[c].next # NULL => hd[b] # mem[c].next
  /\ \A c, d \in L : mem[c].port = mem[d].port => c = d
  /\ \E rank \in [Cells -> Nat] : \A c \in L : mem[c].next # NULL => rank[c] < rank[mem[c].next]

\* The sets a walk that ends at port p does not leave.
Closed(h, mem, p) ==
  {S \in SUBSET Cells : /\ h \in S \cup {NULL}
                        /\ \A d \in S : mem[d].port = p \/ mem[d].next \in S \cup {NULL}}

\* What a walk comes to is linked.
LEMMA WalkInside ==
  ASSUME NEW L, NEW hd, NEW mem, Sound(L, hd, mem),
         NEW b \in Buckets, NEW p
  PROVE  {c \in L : Home(mem, c) = b} \in Closed(hd[b], mem, p)
<1> DEFINE S == {c \in L : Home(mem, c) = b}
<1>1. S \in SUBSET Cells
  BY DEF Sound
<1>2. hd[b] \in S \cup {NULL}
  BY DEF Sound
<1>3. \A d \in S : mem[d].next \in S \cup {NULL}
  BY DEF Sound
<1> QED
  BY <1>1, <1>2, <1>3 DEF Closed

\* It comes to every linked cell of the bucket, if no other one ends it.
LEMMA WalkReaches ==
  ASSUME NEW L, NEW hd, NEW mem, Sound(L, hd, mem),
         NEW p, NEW c \in L, \A d \in L : mem[d].port = p => d = c,
         NEW S \in Closed(hd[Home(mem, c)], mem, p)
  PROVE  c \in S
<1>1. PICK rank \in [Cells -> Nat] :
        \A d \in L : mem[d].next # NULL => rank[d] < rank[mem[d].next]
  BY DEF Sound
<1> DEFINE Out == {d \in L : Home(mem, d) = Home(mem, c) /\ rank[d] <= rank[c] /\ d \notin S}
           T == {rank[d] : d \in Out}
<1>2. L \subseteq Cells
  BY DEF Sound
<1>3. ASSUME c \notin S PROVE FALSE
  <2>1. rank[c] \in Nat
    BY <1>1, <1>2
  <2>2. c \in Out
    BY <1>3, <2>1
  <2>3. T \subseteq Nat /\ T # {}
    BY <1>1, <1>2, <2>2
  <2>4. PICK x \in T : \A y \in T : x <= y
    BY <2>3, Least
  <2>5. PICK d \in Out : x = rank[d]
    OBVIOUS
  <2>6. d # NULL
    BY <1>2, ConnTableConstants
  <2>7. CASE d = hd[Home(mem, d)]
    BY <2>5, <2>6, <2>7 DEF Closed
  <2>8. CASE \E e \in L : mem[e].next = d
    <3>1. PICK e \in L : mem[e].next = d
      BY <2>8
    <3>2. rank[e] < rank[d] /\ Home(mem, e) = Home(mem, d)
      BY <1>1, <2>6, <3>1 DEF Sound
    <3>3. rank[e] \in Nat /\ rank[d] \in Nat
      BY <1>1, <1>2
    <3>4. rank[e] <= rank[c] /\ ~(rank[d] <= rank[e])
      BY <2>1, <2>5, <3>2, <3>3
    <3>5. e \in S
      <4>1. e \notin Out
        BY <2>4, <2>5, <3>4
      <4> QED
        BY <2>5, <3>2, <3>4, <4>1
    <3>6. mem[e].port # p
      <4>1. e # c
        BY <2>5, <3>4
      <4> QED
        BY <4>1
    <3> QED
      BY <2>5, <2>6, <3>1, <3>5, <3>6 DEF Closed
  <2> QED
    BY <2>5, <2>7, <2>8 DEF Sound
<1> QED
  BY <1>3

\* What Walk, Find and Chain are, in terms of the linked cells.
WalkOf(h, mem, p) == {c \in Cells : \A S \in Closed(h, mem, p) : c \in S}

FindOf(hd, mem, p) ==
  LET found == {c \in WalkOf(hd[Hash(p)], mem, p) : mem[c].port = p}
  IN  IF found = {} THEN NULL ELSE CHOOSE c \in found : TRUE

\* Every port has a bucket.
LEMMA HashFacts ==
  ASSUME NEW p \in SrcPorts
  PROVE  Hash(p) \in Buckets
<1>1. p \in Nat /\ CONNECTION_HASH_SIZE \in Nat /\ CONNECTION_HASH_SIZE > 0
  BY ConnTableConstants
<1>2. p % CONNECTION_HASH_SIZE \in 0 .. CONNECTION_HASH_SIZE - 1
  BY <1>1
<1> QED
  BY <1>2 DEF Hash, Buckets

\* A look-up finds the linked cell of its port, if there is one.
LEMMA FindIs ==
  ASSUME NEW L, NEW hd, NEW mem, Sound(L, hd, mem), NEW p \in SrcPorts
  PROVE  /\ \A c \in L : mem[c].port = p => FindOf(hd, mem, p) = c
         /\ FindOf(hd, mem, p) # NULL =>
              FindOf(hd, mem, p) \in L /\ mem[FindOf(hd, mem, p)].port = p
<1> DEFINE W == WalkOf(hd[Hash(p)], mem, p)
           found == {c \in W : mem[c].port = p}
<1>1. found \subseteq L
  <2>1. {c \in L : Home(mem, c) = Hash(p)} \in Closed(hd[Hash(p)], mem, p)
    BY WalkInside, HashFacts
  <2> QED
    BY <2>1 DEF WalkOf
<1>2. ASSUME NEW c \in L, mem[c].port = p PROVE found = {c}
  <2>1. \A d \in L : mem[d].port = p => d = c
    BY <1>2 DEF Sound
  <2>2. Home(mem, c) = Hash(p)
    BY <1>2 DEF Home
  <2>3. \A S \in Closed(hd[Hash(p)], mem, p) : c \in S
    BY <2>1, <2>2, WalkReaches
  <2>4. c \in W
    BY <2>3 DEF WalkOf, Sound
  <2> QED
    BY <1>1, <1>2, <2>1, <2>4
<1>3. FindOf(hd, mem, p) = IF found = {} THEN NULL ELSE CHOOSE c \in found : TRUE
  BY DEF FindOf
<1> HIDE DEF found
<1>4. FindOf(hd, mem, p) # NULL => FindOf(hd, mem, p) \in found
  BY <1>3
<1>5. \A c \in L : mem[c].port = p => FindOf(hd, mem, p) = c
  BY <1>2, <1>3
<1> QED
  BY <1>1, <1>4, <1>5 DEF found

\* The chain of a bucket is the linked cells that hash to it.
LEMMA ChainIs ==
  ASSUME NEW L, NEW hd, NEW mem, Sound(L, hd, mem),
         NEW b \in Buckets
  PROVE  WalkOf(hd[b], mem, NULL) = {c \in L : Home(mem, c) = b}
<1>1. {c \in L : Home(mem, c) = b} \in Closed(hd[b], mem, NULL)
  BY WalkInside
<1>2. ASSUME NEW c \in L, Home(mem, c) = b PROVE c \in WalkOf(hd[b], mem, NULL)
  <2>1. \A d \in L : mem[d].port # NULL
    BY ConnTableConstants DEF Sound
  <2>2. \A S \in Closed(hd[b], mem, NULL) : c \in S
    BY <1>2, <2>1, WalkReaches
  <2> QED
    BY <2>2 DEF WalkOf, Sound
<1> QED
  BY <1>1, <1>2 DEF WalkOf

\* The operators of ConnTable, in these terms.
LEMMA WalksAre ==
  /\ \A p \in SrcPorts : Find(p) = FindOf(head, cell, p)
  /\ \A b \in Buckets : Chain(b) = WalkOf(head[b], cell, NULL)
  /\ \A p \in SrcPorts : Find(p)' = FindOf(head', cell', p)
BY DEF Find, Chain, Walk, WalkOf, FindOf, Closed

\* A step that leaves links, ports and heads alone.
LEMMA SameLinks ==
  ASSUME NEW L, NEW hd, NEW mem, NEW mem2, Sound(L, hd, mem),
         \A c \in L : /\ mem2[c].port = mem[c].port /\ mem2[c].next = mem[c].next
                      /\ mem2[c].value \in Values
  PROVE  Sound(L, hd, mem2)
<1>1. \A c \in L : Home(mem2, c) = Home(mem, c)
  BY DEF Home
<1>2. PICK rank \in [Cells -> Nat] :
        \A c \in L : mem[c].next # NULL => rank[c] < rank[mem[c].next]
  BY DEF Sound
<1>3. \A c \in L : mem2[c].next # NULL => rank[c] < rank[mem2[c].next]
  BY <1>2
<1>4. \A b \in Buckets : hd[b] # NULL => hd[b] \in L /\ Home(mem2, hd[b]) = b
  BY <1>1 DEF Sound
<1>5. \A c \in L : mem2[c].next # NULL =>
        mem2[c].next \in L /\ Home(mem2, mem2[c].next) = Home(mem2, c)
  BY <1>1 DEF Sound
<1>6. \A c \in L : c = hd[Home(mem2, c)] \/ \E d \in L : mem2[d].next = c
  BY <1>1 DEF Sound
<1> QED
  BY <1>3, <1>4, <1>5, <1>6 DEF Sound

\* A chain without one of its cells: what pointed to it points to its next.
LEMMA Bypassed ==
  ASSUME NEW L, NEW hd, NEW mem, NEW hd2, NEW mem2,
         Sound(L, hd, mem), NEW c \in L,
         \A d \in L \ {c} :
           /\ mem2[d].port = mem[d].port /\ mem2[d].value = mem[d].value
           /\ mem2[d].next = IF mem[d].next = c THEN mem[c].next ELSE mem[d].next,
         \A b \in Buckets : hd2[b] = IF hd[b] = c THEN mem[c].next ELSE hd[b]
  PROVE  Sound(L \ {c}, hd2, mem2)
<1> DEFINE M == L \ {c}
<1>0. c # NULL
  BY ConnTableConstants DEF Sound
<1>1. \A d \in M : Home(mem2, d) = Home(mem, d)
  BY DEF Home
<1>2. PICK rank \in [Cells -> Nat] :
        \A d \in L : mem[d].next # NULL => rank[d] < rank[mem[d].next]
  BY DEF Sound
<1>3. \A d \in L : rank[d] \in Nat
  BY <1>2 DEF Sound
<1>4. \A d \in L : mem[d].next # d
  <2> SUFFICES ASSUME NEW d \in L, mem[d].next = d PROVE FALSE
    OBVIOUS
  <2>1. d # NULL
    BY ConnTableConstants DEF Sound
  <2>2. rank[d] < rank[d]
    BY <1>2, <2>1
  <2> QED
    BY <1>3, <2>2
<1>5. \A b \in Buckets : hd2[b] # NULL => hd2[b] \in M /\ Home(mem2, hd2[b]) = b
  BY <1>0, <1>1, <1>4 DEF Sound
<1>6. ASSUME NEW d \in M, mem2[d].next # NULL
      PROVE  mem2[d].next \in M /\ Home(mem2, mem2[d].next) = Home(mem2, d)
  <2>1. CASE mem[d].next = c
    BY <1>0, <1>1, <1>4, <1>6, <2>1 DEF Sound
  <2>2. CASE mem[d].next # c
    BY <1>1, <1>6, <2>2 DEF Sound
  <2> QED
    BY <2>1, <2>2
<1>7. ASSUME NEW d \in M PROVE d = hd2[Home(mem2, d)] \/ \E e \in M : mem2[e].next = d
  <2>1. d \in L /\ Home(mem2, d) = Home(mem, d)
    BY <1>1
  <2>2. \A e \in L : Home(mem, e) \in Buckets
    BY HashFacts DEF Sound, Home
  <2>3. CASE d = hd[Home(mem, d)]
    BY <2>1, <2>2, <2>3
  <2>4. CASE \E e \in M : mem[e].next = d
    BY <2>4
  <2>5. CASE mem[c].next = d
    <3>1. d # NULL
      BY ConnTableConstants DEF Sound
    <3>2. Home(mem, d) = Home(mem, c)
      BY <2>5, <3>1 DEF Sound
    <3>3. CASE c = hd[Home(mem, c)]
      BY <2>1, <2>2, <2>5, <3>2, <3>3
    <3>4. CASE \E e \in L : mem[e].next = c
      BY <1>4, <2>5, <3>4
    <3> QED
      BY <3>3, <3>4 DEF Sound
  <2> QED
    BY <2>1, <2>3, <2>4, <2>5 DEF Sound
<1>8. ASSUME NEW d \in M, NEW e \in M, mem2[d].next = mem2[e].next, mem2[d].next # NULL
      PROVE  d = e
  <2>1. CASE mem[d].next = c /\ mem[e].next = c
    BY <1>0, <2>1 DEF Sound
  <2>2. CASE mem[d].next = c /\ mem[e].next # c
    BY <1>8, <2>2 DEF Sound
  <2>3. CASE mem[d].next # c /\ mem[e].next = c
    BY <1>8, <2>3 DEF Sound
  <2>4. CASE mem[d].next # c /\ mem[e].next # c
    BY <1>8, <2>4 DEF Sound
  <2> QED
    BY <2>1, <2>2, <2>3, <2>4
<1>9. ASSUME NEW d \in M, NEW b \in Buckets, mem2[d].next # NULL
      PROVE  hd2[b] # mem2[d].next
  <2>1. CASE mem[d].next = c
    BY <1>0, <1>9, <2>1 DEF Sound
  <2>2. CASE mem[d].next # c /\ hd[b] = c
    BY <1>9, <2>2 DEF Sound
  <2>3. CASE mem[d].next # c /\ hd[b] # c
    BY <1>9, <2>3 DEF Sound
  <2> QED
    BY <2>1, <2>2, <2>3
<1>10. ASSUME NEW d \in M, mem2[d].next # NULL PROVE rank[d] < rank[mem2[d].next]
  <2>1. CASE mem[d].next = c
    <3>1. rank[d] < rank[c] /\ rank[c] < rank[mem[c].next] /\ mem[c].next \in L
      BY <1>0, <1>2, <1>10, <2>1 DEF Sound
    <3> QED
      BY <1>3, <2>1, <3>1
  <2>2. CASE mem[d].next # c
    BY <1>2, <1>10, <2>2
  <2> QED
    BY <2>1, <2>2
<1>11. /\ M \subseteq Cells
       /\ \A d \in M : mem2[d].port \in SrcPorts /\ mem2[d].value \in Values
       /\ \A d, e \in M : mem2[d].port = mem2[e].port => d = e
  BY DEF Sound
<1> QED
  BY <1>2, <1>5, <1>6, <1>7, <1>8, <1>9, <1>10, <1>11 DEF Sound

\* A new cell at the head of its chain.
LEMMA Headed ==
  ASSUME NEW L, NEW hd, NEW mem, NEW hd2, NEW mem2,
         Sound(L, hd, mem), NEW c \in Cells \ L, NEW p \in SrcPorts, NEW v \in Values,
         \A d \in L : mem[d].port # p,
         mem2[c].port = p, mem2[c].value = v, mem2[c].next = hd[Hash(p)],
         \A d \in L : mem2[d] = mem[d],
         \A b \in Buckets : hd2[b] = IF b = Hash(p) THEN c ELSE hd[b]
  PROVE  Sound(L \cup {c}, hd2, mem2)
<1> DEFINE M == L \cup {c}
           h == hd[Hash(p)]
<1>0. c # NULL /\ Hash(p) \in Buckets
  BY HashFacts, ConnTableConstants
<1>1. Home(mem2, c) = Hash(p) /\ \A d \in L : Home(mem2, d) = Home(mem, d)
  BY DEF Home
<1>2. h # NULL => h \in L /\ Home(mem, h) = Hash(p)
  BY <1>0 DEF Sound
<1>3. PICK rank \in [Cells -> Nat] :
        \A d \in L : mem[d].next # NULL => rank[d] < rank[mem[d].next]
  BY DEF Sound
<1> DEFINE rank2 == [d \in Cells |-> IF d = c THEN 0 ELSE rank[d] + 1]
<1>4. rank2 \in [Cells -> Nat]
  BY <1>3
<1>5. ASSUME NEW d \in M, mem2[d].next # NULL PROVE rank2[d] < rank2[mem2[d].next]
  <2>1. mem2[d].next \in L
    <3>1. CASE d = c
      BY <1>2, <1>5, <3>1
    <3>2. CASE d \in L
      BY <1>5, <3>2 DEF Sound
    <3> QED
      BY <3>1, <3>2
  <2>2. \A e \in L : e \in Cells /\ e # c /\ rank2[e] = rank[e] + 1 /\ rank[e] \in Nat
    BY <1>3 DEF Sound
  <2>3. CASE d = c
    <3>1. rank2[d] = 0
      BY <2>3
    <3> QED
      BY <2>1, <2>2, <3>1
  <2>4. CASE d \in L
    <3>1. rank[d] < rank[mem2[d].next]
      BY <1>3, <1>5, <2>4
    <3> QED
      BY <2>1, <2>2, <2>4, <3>1
  <2> QED
    BY <2>3, <2>4
<1> HIDE DEF rank2
<1>6. \A b \in Buckets : hd2[b] # NULL => hd2[b] \in M /\ Home(mem2, hd2[b]) = b
  BY <1>1 DEF Sound
<1>7. \A d \in M : mem2[d].next # NULL =>
        mem2[d].next \in M /\ Home(mem2, mem2[d].next) = Home(mem2, d)
  BY <1>1, <1>2 DEF Sound
<1>8. ASSUME NEW d \in M PROVE d = hd2[Home(mem2, d)] \/ \E e \in M : mem2[e].next = d
  <2>1. CASE d = c
    BY <1>0, <1>1, <2>1
  <2>2. CASE d \in L
    <3>1. Home(mem, d) \in Buckets
      BY <2>2, HashFacts DEF Sound, Home
    <3>2. CASE d = hd[Home(mem, d)]
      BY <1>1, <2>2, <3>1, <3>2
    <3>3. CASE \E e \in L : mem[e].next = d
      BY <3>3
    <3> QED
      BY <2>2, <3>2, <3>3 DEF Sound
  <2> QED
    BY <2>1, <2>2
<1>9. ASSUME NEW d \in M, NEW e \in M, mem2[d].next = mem2[e].next, mem2[d].next # NULL
      PROVE  d = e
  <2>1. \A f \in L : mem[f].next # NULL => mem[f].next # h
    BY <1>0 DEF Sound
  <2>2. CASE d \in L /\ e \in L
    BY <1>9, <2>2 DEF Sound
  <2>3. CASE d = c \/ e = c
    BY <1>9, <2>1, <2>3
  <2> QED
    BY <2>2, <2>3
<1>10. ASSUME NEW d \in M, NEW b \in Buckets, mem2[d].next # NULL
       PROVE  hd2[b] # mem2[d].next
  <2>1. CASE d = c
    BY <1>0, <1>2, <1>10, <2>1 DEF Sound
  <2>2. CASE d \in L
    BY <1>10, <2>2 DEF Sound
  <2> QED
    BY <2>1, <2>2
<1>11. /\ M \subseteq Cells
       /\ \A d \in M : mem2[d].port \in SrcPorts /\ mem2[d].value \in Values
       /\ \A d, e \in M : mem2[d].port = mem2[e].port => d = e
  BY DEF Sound
<1> QED
  BY <1>4, <1>5, <1>6, <1>7, <1>8, <1>9, <1>10, <1>11 DEF Sound

-----------------------------------------------------------------------------
(* What the table maps the ports to *)

\* ConnTable's Value and map, of any heads and cells.
ValueOf(hd, mem, p) ==
  LET c == FindOf(hd, mem, p) IN IF c = NULL THEN NULL ELSE mem[c].value

Entries(hd, mem) == [p \in SrcPorts |-> ValueOf(hd, mem, p)]

\* What a port is mapped to is in its cell.
LEMMA ValueIs ==
  ASSUME NEW L, NEW hd, NEW mem, Sound(L, hd, mem), NEW p \in SrcPorts
  PROVE  /\ \A c \in L : mem[c].port = p => ValueOf(hd, mem, p) = mem[c].value
         /\ (\A c \in L : mem[c].port # p) => ValueOf(hd, mem, p) = NULL
         /\ ValueOf(hd, mem, p) \in Values \cup {NULL}
<1>1. \A c \in L : c # NULL /\ mem[c].value \in Values
  BY ConnTableConstants DEF Sound
<1>2. \A c \in L : mem[c].port = p => ValueOf(hd, mem, p) = mem[c].value
  BY <1>1, FindIs DEF ValueOf
<1>3. (\A c \in L : mem[c].port # p) => ValueOf(hd, mem, p) = NULL
  BY FindIs DEF ValueOf
<1> QED
  BY <1>1, <1>2, <1>3

\* The same cells hold the same: the entries are the same.
LEMMA SameEntries ==
  ASSUME NEW L, NEW hd, NEW mem, NEW hd2, NEW mem2,
         Sound(L, hd, mem), Sound(L, hd2, mem2),
         \A c \in L : mem2[c].port = mem[c].port /\ mem2[c].value = mem[c].value
  PROVE  Entries(hd2, mem2) = Entries(hd, mem)
<1>1. ASSUME NEW p \in SrcPorts PROVE ValueOf(hd2, mem2, p) = ValueOf(hd, mem, p)
  <2>1. CASE \E c \in L : mem[c].port = p
    BY <2>1, ValueIs
  <2>2. CASE \A c \in L : mem[c].port # p
    BY <2>2, ValueIs
  <2> QED
    BY <2>1, <2>2
<1> QED
  BY <1>1 DEF Entries

\* One entry less.
LEMMA EntryGone ==
  ASSUME NEW L, NEW hd, NEW mem, NEW hd2, NEW mem2, NEW c \in L,
         Sound(L, hd, mem), Sound(L \ {c}, hd2, mem2), NEW p \in SrcPorts, mem[c].port = p,
         \A d \in L \ {c} : mem2[d].port = mem[d].port /\ mem2[d].value = mem[d].value
  PROVE  /\ Entries(hd2, mem2) = [Entries(hd, mem) EXCEPT ![p] = NULL]
         /\ Entries(hd, mem)[p] # NULL
<1>1. mem[c].value \in Values /\ \A d \in L \ {c} : mem[d].port # p
  BY DEF Sound
<1>2. ValueOf(hd2, mem2, p) = NULL
  <2>1. \A d \in L \ {c} : mem2[d].port # p
    BY <1>1
  <2> QED
    BY <2>1, ValueIs
<1>3. ASSUME NEW q \in SrcPorts, q # p PROVE ValueOf(hd2, mem2, q) = ValueOf(hd, mem, q)
  <2>1. CASE \E d \in L \ {c} : mem[d].port = q
    BY <2>1, ValueIs
  <2>2. CASE \A d \in L : mem[d].port # q
    <3>1. \A d \in L \ {c} : mem2[d].port # q
      BY <2>2
    <3>2. ValueOf(hd2, mem2, q) = NULL
      BY <3>1, ValueIs
    <3> QED
      BY <2>2, <3>2, ValueIs
  <2> QED
    BY <1>3, <2>1, <2>2
<1>4. ValueOf(hd, mem, p) # NULL
  BY <1>1, ValueIs, ConnTableConstants
<1> QED
  BY <1>2, <1>3, <1>4 DEF Entries

\* One entry written, in a cell it had or in a new one.
LEMMA EntryPut ==
  ASSUME NEW L, NEW hd, NEW mem, NEW hd2, NEW mem2,
         NEW c, Sound(L, hd, mem), Sound(L \cup {c}, hd2, mem2),
         \A d \in L \ {c} : mem2[d].port = mem[d].port /\ mem2[d].value = mem[d].value,
         NEW q \in SrcPorts, NEW v, mem2[c].port = q, mem2[c].value = v,
         c \in L => mem[c].port = q
  PROVE  Entries(hd2, mem2) = [Entries(hd, mem) EXCEPT ![q] = v]
<1>1. ValueOf(hd2, mem2, q) = v
  BY ValueIs
<1>2. ASSUME NEW p \in SrcPorts, p # q PROVE ValueOf(hd2, mem2, p) = ValueOf(hd, mem, p)
  <2>1. CASE \E d \in L \ {c} : mem[d].port = p
    BY <2>1, ValueIs
  <2>2. CASE \A d \in L \ {c} : mem[d].port # p
    <3>1. \A d \in L : mem[d].port # p
      BY <1>2, <2>2
    <3>2. \A d \in L \cup {c} : mem2[d].port # p
      BY <1>2, <2>2
    <3> QED
      BY <3>1, <3>2, ValueIs
  <2> QED
    BY <2>1, <2>2
<1> QED
  BY <1>1, <1>2 DEF Entries

\* The map that ConnTable is compared with.
LEMMA MapIs ==
  /\ [p \in SrcPorts |-> Value(p)] = Entries(head, cell)
  /\ [p \in SrcPorts |-> Value(p)]' = Entries(head', cell')
  /\ \A p \in SrcPorts : Value(p) = Entries(head, cell)[p]
<1>1. \A p \in SrcPorts : Value(p) = ValueOf(head, cell, p)
  BY WalksAre DEF Value, ValueOf
<1>2. \A p \in SrcPorts : Value(p)' = ValueOf(head', cell', p)
  BY WalksAre DEF Value, ValueOf
<1> QED
  BY <1>1, <1>2 DEF Entries

\* The steps of ConnMap, in these terms.
LEMMA PutIs ==
  ASSUME NEW p \in SrcPorts, NEW v \in Values,
         call' = [op |-> "add", port |-> p, value |-> v],
         Entries(head', cell') = [Entries(head, cell) EXCEPT ![p] = v]
  PROVE  Map!Next
BY MapIs DEF Map!Next, Map!Put

\* An add that is lost.
LEMMA PutLostIs ==
  ASSUME NEW p \in SrcPorts, NEW v \in Values,
         call' = [op |-> "add", port |-> p, value |-> v],
         Entries(head, cell)[p] = NULL, Entries(head', cell') = Entries(head, cell)
  PROVE  Map!Next
<1>1. [q \in SrcPorts |-> Value(q)][p] = NULL
  BY MapIs
<1> QED
  BY <1>1, MapIs DEF Map!Next, Map!PutLost

\* A look-up.
LEMMA GetIs ==
  ASSUME NEW p \in SrcPorts, call' = [op |-> "get", port |-> p, value |-> Value(p)],
         Entries(head', cell') = Entries(head, cell)
  PROVE  Map!Next
<1>1. call' = [op |-> "get", port |-> p, value |-> [q \in SrcPorts |-> Value(q)][p]]
  OBVIOUS
<1> QED
  BY <1>1, MapIs DEF Map!Next, Map!Get

\* A removal.
LEMMA RemoveIs ==
  ASSUME NEW p \in SrcPorts, call' = [op |-> "remove", port |-> p],
         Entries(head', cell') = [Entries(head, cell) EXCEPT ![p] = NULL]
  PROVE  Map!Next
BY MapIs DEF Map!Next, Map!Remove

\* An expiry.
LEMMA ExpireIs ==
  ASSUME NEW p \in SrcPorts, call' = [op |-> "expire", port |-> p], Entries(head, cell)[p] # NULL,
         Entries(head', cell') = [Entries(head, cell) EXCEPT ![p] = NULL]
  PROVE  Map!Next
<1>1. [q \in SrcPorts |-> Value(q)][p] # NULL
  BY MapIs
<1> QED
  BY <1>1, MapIs DEF Map!Next, Map!Expire

\* Stopping.
LEMMA ClearIs ==
  ASSUME call' = [op |-> "clear"], Entries(head', cell') = [p \in SrcPorts |-> NULL]
  PROVE  Map!Next
BY MapIs DEF Map!Next, Map!Clear

-----------------------------------------------------------------------------
(* The steps *)

Linked == {c \in Cells : cell[c].live /\ c # sweeper.victim}

\* The cell the cleanup is about to free is in no chain, and nobody else is
\* given it.
TableInv ==
  /\ TableTypeOK
  /\ ~undefined =>
       /\ Sound(Linked, head, cell)
       /\ sweeper.pc = "free" => sweeper.victim \in Cells /\ cell[sweeper.victim].live
       /\ sweeper.pc # "free" => sweeper.victim = NULL

\* A step of the table is one of the map, or changes nothing in it.
MapStep == Map!Next \/ (Entries(head', cell') = Entries(head, cell) /\ call' = call)

CellRec == [live : BOOLEAN, port : SrcPorts \cup {NULL}, value : Values \cup {NULL},
            next : Cells \cup {NULL}, stamp : {"old", "recent", "later"}]
Sweepers == [pc : {"idle", "enter", "scan", "free", "resume"}, bucket : Buckets,
             at : Cells \cup {NULL}, victim : Cells \cup {NULL}]

\* The types of the table.
LEMMA TableTypes ==
  TableTypeOK <=> /\ head \in [Buckets -> Cells \cup {NULL}]
                   /\ cell \in [Cells -> CellRec] /\ sweeper \in Sweepers /\ undefined \in BOOLEAN
BY DEF TableTypeOK, CellRec, Sweepers, Stamps

\* What a call finds.
LEMMA FoundFacts ==
  ASSUME TableInv, ~undefined, NEW p \in SrcPorts
  PROVE  /\ Find(p) # NULL => Find(p) \in Linked /\ cell[Find(p)].port = p
         /\ \A c \in Linked : cell[c].port = p => Find(p) = c
         /\ Find(p) = NULL => \A c \in Linked : cell[c].port # p
<1>1. \A c \in Linked : c # NULL
  BY ConnTableConstants DEF Linked
<1> QED
  BY <1>1, FindIs, WalksAre DEF TableInv

\* Time stamps, and the values of cells that stay in use.
LEMMA AddExistingStep ==
  ASSUME TableInv, NEW p \in SrcPorts, NEW v \in Values,
         AddExisting(p, v)
  PROVE  TableInv' /\ MapStep
<1> DEFINE c == Find(p)
<1>1. /\ c # NULL /\ ~undefined /\ undefined' = undefined /\ sweeper' = sweeper /\ head' = head
      /\ call' = [op |-> "add", port |-> p, value |-> v]
      /\ \E t \in Now : cell' = [cell EXCEPT ![c].value = v, ![c].stamp = t]
  BY DEF AddExisting, Calls
<1>2. c \in Linked /\ cell[c].port = p /\ c \in Cells
  BY <1>1, FoundFacts DEF Linked
<1> HIDE DEF c
<1>3. PICK t \in Now : cell' = [cell EXCEPT ![c].value = v, ![c].stamp = t]
  BY <1>1
<1>4. t \in {"old", "recent", "later"}
  BY DEF Now
<1>5. /\ cell' \in [Cells -> CellRec]
      /\ \A d \in Cells : /\ cell'[d].live = cell[d].live /\ cell'[d].port = cell[d].port
                          /\ cell'[d].next = cell[d].next
                          /\ d # c => cell'[d].value = cell[d].value
      /\ cell'[c].value = v
  <2>1. cell \in [Cells -> CellRec] /\ cell[c] \in CellRec
    BY <1>2, TableTypes DEF TableInv
  <2>2. /\ cell' = [cell EXCEPT ![c] = cell'[c]]
        /\ cell'[c] = [cell[c] EXCEPT !.value = v, !.stamp = t]
    BY <1>2, <1>3, <2>1
  <2>3. /\ cell'[c] \in CellRec /\ cell'[c].value = v /\ cell'[c].live = cell[c].live
        /\ cell'[c].port = cell[c].port /\ cell'[c].next = cell[c].next
    BY <1>4, <2>1, <2>2 DEF CellRec
  <2> QED
    BY <2>1, <2>2, <2>3
<1>6. Linked' = Linked
  BY <1>1, <1>5 DEF Linked
<1>7. Sound(Linked, head, cell)
  BY <1>1 DEF TableInv
<1>8. Sound(Linked, head, cell')
  <2>1. \A d \in Linked : cell'[d].value \in Values
    BY <1>5, <1>7 DEF Sound
  <2> QED
    BY <1>5, <1>7, <2>1, SameLinks DEF Linked
<1>9. Entries(head', cell') = [Entries(head, cell) EXCEPT ![p] = v]
  <2>1. Sound(Linked \cup {c}, head, cell')
    <3>1. Linked \cup {c} = Linked
      BY <1>2
    <3> QED
      BY <1>8, <3>1
  <2>2. \A d \in Linked \ {c} : cell'[d].port = cell[d].port /\ cell'[d].value = cell[d].value
    BY <1>5 DEF Linked
  <2>3. Entries(head, cell') = [Entries(head, cell) EXCEPT ![p] = v]
    BY <1>2, <1>5, <1>7, <2>1, <2>2, EntryPut
  <2> QED
    BY <1>1, <2>3
<1>10. MapStep
  BY <1>1, <1>9, PutIs DEF MapStep
<1>11. TableTypeOK'
  BY <1>1, <1>5, TableTypes DEF TableInv, TableTypeOK, CellRec, Stamps
<1> QED
  BY <1>1, <1>5, <1>6, <1>8, <1>10, <1>11 DEF TableInv

\* A look-up freshens its entry and changes nothing else.
LEMMA GetStep ==
  ASSUME TableInv, NEW p \in SrcPorts, Get(p)
  PROVE  TableInv' /\ MapStep
<1> DEFINE c == Find(p)
<1>1. /\ ~undefined /\ undefined' = undefined /\ sweeper' = sweeper /\ head' = head
      /\ call' = [op |-> "get", port |-> p, value |-> Value(p)]
      /\ IF c = NULL THEN cell' = cell
         ELSE \E t \in Now : cell' = [cell EXCEPT ![c].stamp = t]
  BY DEF Get, Calls
<1>2. c # NULL => c \in Cells
  BY <1>1, FoundFacts DEF Linked
<1> HIDE DEF c
<1>3. /\ cell' \in [Cells -> CellRec]
      /\ \A d \in Cells : /\ cell'[d].live = cell[d].live /\ cell'[d].port = cell[d].port
                          /\ cell'[d].next = cell[d].next /\ cell'[d].value = cell[d].value
  <2>1. CASE c = NULL
    BY <1>1, <2>1, TableTypes DEF TableInv
  <2>2. CASE c # NULL
    <3>1. PICK t \in Now : cell' = [cell EXCEPT ![c].stamp = t]
      BY <1>1, <2>2
    <3>2. t \in {"old", "recent", "later"}
      BY DEF Now
    <3> QED
      BY <1>2, <2>2, <3>1, <3>2, TableTypes DEF TableInv, CellRec
  <2> QED
    BY <2>1, <2>2
<1>4. Linked' = Linked
  BY <1>1, <1>3 DEF Linked
<1>5. Sound(Linked, head, cell)
  BY <1>1 DEF TableInv
<1>6. Sound(Linked, head, cell')
  <2>1. \A d \in Linked : cell'[d].value \in Values
    BY <1>3, <1>5 DEF Sound
  <2> QED
    BY <1>3, <1>5, <2>1, SameLinks DEF Linked
<1>7. Entries(head', cell') = Entries(head, cell)
  <2>1. \A d \in Linked : cell'[d].port = cell[d].port /\ cell'[d].value = cell[d].value
    BY <1>3 DEF Linked
  <2> QED
    BY <1>1, <1>5, <1>6, <2>1, SameEntries
<1>8. MapStep
  BY <1>1, <1>7, GetIs DEF MapStep
<1>9. TableTypeOK'
  BY <1>1, <1>3, TableTypes DEF TableInv, TableTypeOK, CellRec, Stamps
<1> QED
  BY <1>1, <1>3, <1>4, <1>6, <1>8, <1>9 DEF TableInv

\* A port without an entry gets a new cell, at the head of its chain.
LEMMA AddNewStep ==
  ASSUME TableInv, NEW p \in SrcPorts, NEW v \in Values,
         AddNew(p, v)
  PROVE  TableInv' /\ MapStep
<1>1. /\ Find(p) = NULL /\ ~undefined /\ undefined' = undefined /\ sweeper' = sweeper
      /\ call' = [op |-> "add", port |-> p, value |-> v]
  BY DEF AddNew, Calls
<1>2. PICK c \in Cells, t \in Now :
        /\ ~cell[c].live
        /\ cell' = [cell EXCEPT ![c] = Node(p, v, head[Hash(p)], t)]
        /\ head' = [head EXCEPT ![Hash(p)] = c]
  BY DEF AddNew
<1> DEFINE new == Node(p, v, head[Hash(p)], t)
<1>3. /\ Hash(p) \in Buckets /\ head \in [Buckets -> Cells \cup {NULL}]
      /\ cell \in [Cells -> CellRec]
  BY HashFacts, TableTypes DEF TableInv
<1>4. /\ new \in CellRec /\ new.live /\ new.port = p /\ new.value = v
      /\ new.next = head[Hash(p)]
  <2>1. t \in {"old", "recent", "later"} /\ head[Hash(p)] \in Cells \cup {NULL}
    BY <1>3 DEF Now
  <2> QED
    BY <2>1 DEF Node, CellRec
<1> HIDE DEF new
<1>5. /\ cell' \in [Cells -> CellRec] /\ cell'[c] = new
      /\ \A d \in Cells \ {c} : cell'[d] = cell[d]
      /\ head' \in [Buckets -> Cells \cup {NULL}]
      /\ \A b \in Buckets : head'[b] = IF b = Hash(p) THEN c ELSE head[b]
  <2>1. cell' = [cell EXCEPT ![c] = new]
    BY <1>2 DEF new
  <2> QED
    BY <1>2, <1>3, <1>4, <2>1
<1>6. c \notin Linked /\ c # sweeper.victim
  BY <1>1, <1>2, ConnTableConstants DEF Linked, TableInv
<1>7. Linked' = Linked \cup {c}
  BY <1>1, <1>4, <1>5, <1>6 DEF Linked
<1>8. Sound(Linked, head, cell) /\ \A d \in Linked : cell[d].port # p /\ d \in Cells \ {c}
  BY <1>1, <1>6, FoundFacts DEF TableInv, Linked
<1>9. Sound(Linked \cup {c}, head', cell')
  <2>1. \A d \in Linked : cell'[d] = cell[d]
    BY <1>5, <1>8
  <2> QED
    BY <1>4, <1>5, <1>6, <1>8, <2>1, Headed
<1>10. Entries(head', cell') = [Entries(head, cell) EXCEPT ![p] = v]
  <2>1. \A d \in Linked \ {c} : cell'[d].port = cell[d].port /\ cell'[d].value = cell[d].value
    BY <1>5, <1>8
  <2> QED
    BY <1>4, <1>5, <1>6, <1>8, <1>9, <2>1, EntryPut
<1>11. MapStep
  BY <1>1, <1>10, PutIs DEF MapStep
<1>12. TableTypeOK'
  BY <1>1, <1>5, TableTypes DEF TableInv, TableTypeOK, CellRec, Stamps
<1> QED
  BY <1>1, <1>5, <1>6, <1>7, <1>9, <1>11, <1>12 DEF TableInv

\* Without memory nothing changes; the port has no entry then.
LEMMA AddFailsStep ==
  ASSUME TableInv, NEW p \in SrcPorts, NEW v \in Values,
         AddFails(p, v)
  PROVE  TableInv' /\ MapStep
<1>1. /\ Find(p) = NULL /\ ~undefined /\ undefined' = undefined /\ sweeper' = sweeper
      /\ head' = head /\ cell' = cell
      /\ call' = [op |-> "add", port |-> p, value |-> v]
  BY DEF AddFails, Calls
<1>2. \A d \in Linked : cell[d].port # p
  BY <1>1, FoundFacts
<1>3. Sound(Linked, head, cell)
  BY <1>1 DEF TableInv
<1>4. ValueOf(head, cell, p) = NULL
  BY <1>2, <1>3, ValueIs
<1>5. Entries(head, cell)[p] = NULL
  BY <1>4 DEF Entries
<1>6. Entries(head', cell') = Entries(head, cell)
  BY <1>1
<1>7. MapStep
  BY <1>1, <1>5, <1>6, PutLostIs DEF MapStep
<1> QED
  BY <1>1, <1>7 DEF TableInv, Linked, TableTypeOK

\* The cell that a call removes comes out of its chain and is freed at once.
LEMMA RemoveStep ==
  ASSUME TableInv, NEW p \in SrcPorts, remove_connection(p)
  PROVE  TableInv' /\ MapStep
<1> DEFINE c == Find(p)
<1>1. /\ ~undefined /\ undefined' = undefined /\ sweeper' = sweeper
      /\ call' = [op |-> "remove", port |-> p]
      /\ IF c = NULL THEN UNCHANGED <<head, cell>>
         ELSE /\ cell' = [Unlinked(c) EXCEPT ![c] = Freed]
              /\ head' = HeadsWithout(c)
  BY DEF remove_connection, Calls
<1>2. Sound(Linked, head, cell)
  BY <1>1 DEF TableInv
<1>3. CASE c = NULL
  <2>1. head' = head /\ cell' = cell
    BY <1>1, <1>3
  <2>2. \A d \in Linked : cell[d].port # p
    BY <1>1, <1>3, FoundFacts
  <2>3. ValueOf(head, cell, p) = NULL
    BY <1>2, <2>2, ValueIs
  <2>4. Entries(head', cell') = [Entries(head, cell) EXCEPT ![p] = NULL]
    BY <2>1, <2>3 DEF Entries
  <2>5. MapStep
    BY <1>1, <2>4, RemoveIs DEF MapStep
  <2> QED
    BY <1>1, <2>1, <2>5 DEF TableInv, Linked, TableTypeOK
<1>4. CASE c # NULL
  <2>1. c \in Linked /\ cell[c].port = p /\ c \in Cells
    BY <1>1, <1>4, FoundFacts DEF Linked
  <2> HIDE DEF c
  <2>2. cell \in [Cells -> CellRec] /\ head \in [Buckets -> Cells \cup {NULL}]
    BY TableTypes DEF TableInv
  <2>3. cell[c].next \in Cells \cup {NULL}
    BY <2>1, <2>2 DEF CellRec
  <2>4. Freed \in CellRec /\ ~Freed.live
    BY DEF Freed, CellRec
  <2>5. ASSUME NEW d \in Cells
        PROVE  /\ Unlinked(c)[d] \in CellRec
               /\ Unlinked(c)[d].live = cell[d].live
               /\ Unlinked(c)[d].port = cell[d].port
               /\ Unlinked(c)[d].value = cell[d].value
               /\ Unlinked(c)[d].next =
                    IF cell[d].next = c THEN cell[c].next ELSE cell[d].next
    <3>1. cell[d] \in CellRec
      BY <2>2
    <3>2. Unlinked(c)[d] =
            IF cell[d].next = c THEN [cell[d] EXCEPT !.next = cell[c].next] ELSE cell[d]
      BY DEF Unlinked
    <3> QED
      BY <2>3, <3>1, <3>2 DEF CellRec
  <2>6. /\ cell' \in [Cells -> CellRec] /\ cell'[c] = Freed
        /\ \A d \in Cells \ {c} : cell'[d] = Unlinked(c)[d]
    <3>1. Unlinked(c) \in [Cells -> CellRec]
      BY <2>5 DEF Unlinked
    <3> QED
      BY <1>1, <1>4, <2>1, <2>4, <3>1
  <2>7. /\ head' \in [Buckets -> Cells \cup {NULL}]
        /\ \A b \in Buckets : head'[b] = IF head[b] = c THEN cell[c].next ELSE head[b]
    BY <1>1, <1>4, <2>2, <2>3 DEF HeadsWithout
  <2>8. Linked' = Linked \ {c}
    BY <1>1, <2>1, <2>4, <2>5, <2>6 DEF Linked
  <2>9. \A d \in Linked \ {c} :
          /\ cell'[d].port = cell[d].port /\ cell'[d].value = cell[d].value
          /\ cell'[d].next = IF cell[d].next = c THEN cell[c].next ELSE cell[d].next
    BY <2>5, <2>6 DEF Linked
  <2>10. Sound(Linked \ {c}, head', cell')
    BY <1>2, <2>1, <2>7, <2>9, Bypassed
  <2>11. Entries(head', cell') = [Entries(head, cell) EXCEPT ![p] = NULL]
    BY <1>2, <2>1, <2>9, <2>10, EntryGone
  <2>12. MapStep
    BY <1>1, <2>11, RemoveIs DEF MapStep
  <2>13. TableTypeOK'
    BY <1>1, <2>6, <2>7, TableTypes DEF TableInv, TableTypeOK, CellRec, Stamps
  <2>14. sweeper.pc = "free" => sweeper.victim # c
    BY <2>1 DEF Linked
  <2> QED
    BY <1>1, <2>5, <2>6, <2>8, <2>10, <2>12, <2>13, <2>14 DEF TableInv
<1> QED
  BY <1>3, <1>4

\* All the linked cells are in the chains, and nothing else.
LEMMA AllChained ==
  ASSUME Sound(Linked, head, cell)
  PROVE  /\ \A b \in Buckets : Chain(b) = {c \in Linked : Home(cell, c) = b}
         /\ UNION {Chain(b) : b \in Buckets} = Linked
<1>1. \A b \in Buckets : Chain(b) = {c \in Linked : Home(cell, c) = b}
  BY WalksAre, ChainIs
<1>2. \A c \in Linked : Home(cell, c) \in Buckets
  BY HashFacts DEF Sound, Home
<1>3. ASSUME NEW c \in Linked PROVE c \in UNION {Chain(b) : b \in Buckets}
  BY <1>1, <1>2
<1>4. ASSUME NEW c \in UNION {Chain(b) : b \in Buckets} PROVE c \in Linked
  BY <1>1
<1> QED
  BY <1>1, <1>3, <1>4

\* Stopping frees all cells, and forgets the heads.
LEMMA StopFreesStep ==
  ASSUME TableInv, StopFrees
  PROVE  TableInv' /\ MapStep
<1>1. /\ ~undefined /\ undefined' = undefined /\ sweeper' = sweeper
      /\ call' = [op |-> "clear"] /\ head' = [b \in Buckets |-> NULL]
      /\ cell' = [c \in Cells |-> IF c \in UNION {Chain(b) : b \in Buckets}
                                  THEN Freed ELSE cell[c]]
  BY DEF StopFrees, Calls
<1>2. Sound(Linked, head, cell)
  BY <1>1 DEF TableInv
<1>3. cell' = [c \in Cells |-> IF c \in Linked THEN Freed ELSE cell[c]]
  BY <1>1, <1>2, AllChained
<1>4. Freed \in CellRec /\ ~Freed.live
  BY DEF Freed, CellRec
<1>5. cell' \in [Cells -> CellRec] /\ head' \in [Buckets -> Cells \cup {NULL}]
  BY <1>1, <1>3, <1>4, TableTypes DEF TableInv
<1>6. Linked' = {}
  BY <1>1, <1>3, <1>4 DEF Linked
<1>7. Sound({}, head', cell')
  <2>1. \E rank \in [Cells -> Nat] : TRUE
    BY <1>2 DEF Sound
  <2> QED
    BY <1>1, <2>1 DEF Sound
<1>8. \A p \in SrcPorts : ValueOf(head', cell', p) = NULL
  BY <1>7, ValueIs
<1>9. MapStep
  BY <1>1, <1>8, ClearIs DEF MapStep, Entries
<1>10. TableTypeOK'
  BY <1>1, <1>5, TableTypes DEF TableInv, TableTypeOK, CellRec, Stamps
<1>11. sweeper.pc = "free" => sweeper.victim \notin Linked
  BY DEF Linked
<1> QED
  BY <1>1, <1>3, <1>6, <1>7, <1>9, <1>10, <1>11 DEF TableInv

\* The clock moves before a cleanup; only time stamps change.
LEMMA CleanupBeginStep ==
  ASSUME TableInv, SweepBegin
  PROVE  TableInv' /\ MapStep
<1>1. PICK old : /\ ~undefined /\ undefined' = undefined /\ sweeper.pc = "idle"
                 /\ sweeper' = [Resting EXCEPT !.pc = "enter"]
                 /\ cell' = [c \in Cells |->
                      [cell[c] EXCEPT !.stamp = IF c \in old THEN "old" ELSE "recent"]]
                 /\ head' = head /\ call' = call
  BY DEF SweepBegin, Cleans
<1>2. ASSUME NEW c \in Cells
      PROVE  /\ cell'[c] \in CellRec /\ cell'[c].live = cell[c].live /\ cell'[c].port = cell[c].port
             /\ cell'[c].next = cell[c].next /\ cell'[c].value = cell[c].value
  <2>1. cell[c] \in CellRec
    BY TableTypes DEF TableInv
  <2>2. cell'[c] = [cell[c] EXCEPT !.stamp = IF c \in old THEN "old" ELSE "recent"]
    BY <1>1
  <2> QED
    BY <2>1, <2>2 DEF CellRec
<1>3. cell' \in [Cells -> CellRec]
  BY <1>1, <1>2
<1>4. sweeper' \in Sweepers /\ sweeper'.pc = "enter" /\ sweeper'.victim = NULL
  <2>1. 0 \in Buckets
    BY ConnTableConstants DEF Buckets
  <2> QED
    BY <1>1, <2>1 DEF Resting, Sweepers
<1>5. Sound(Linked, head, cell) /\ sweeper.victim = NULL
  BY <1>1 DEF TableInv
<1>6. Linked' = Linked
  BY <1>2, <1>4, <1>5 DEF Linked
<1>7. \A c \in Linked : /\ cell'[c].port = cell[c].port /\ cell'[c].next = cell[c].next
                        /\ cell'[c].value = cell[c].value /\ cell[c].value \in Values
  BY <1>2, <1>5 DEF Linked, Sound
<1>8. Sound(Linked, head, cell')
  BY <1>5, <1>7, SameLinks
<1>9. Entries(head', cell') = Entries(head, cell)
  <2>1. \A d \in Linked : cell'[d].port = cell[d].port /\ cell'[d].value = cell[d].value
    BY <1>7
  <2>2. Entries(head, cell') = Entries(head, cell)
    BY <1>5, <1>8, <2>1, SameEntries
  <2> QED
    BY <1>1, <2>2
<1>10. TableTypeOK'
  BY <1>1, <1>3, <1>4, TableTypes DEF TableInv, TableTypeOK, CellRec, Sweepers, Stamps
<1> QED
  BY <1>1, <1>4, <1>6, <1>8, <1>9, <1>10 DEF TableInv, MapStep

\* Steps of the cleanup that read the chains and change nothing in them.
LEMMA ReadingStep ==
  ASSUME TableInv,
         EnterBucket \/ Keep \/ Resume \/ EndBucket
  PROVE  TableInv' /\ MapStep
<1>1. /\ ~undefined /\ undefined' = undefined /\ head' = head /\ cell' = cell /\ call' = call
      /\ sweeper.pc \in {"enter", "scan", "resume"}
  BY DEF EnterBucket, Keep, Resume, EndBucket, Cleans
<1>2. /\ Sound(Linked, head, cell) /\ sweeper.victim = NULL /\ sweeper \in Sweepers
      /\ head \in [Buckets -> Cells \cup {NULL}] /\ cell \in [Cells -> CellRec]
  BY <1>1, TableTypes DEF TableInv
<1>3. sweeper' \in Sweepers /\ sweeper'.pc # "free" /\ sweeper'.victim = NULL
  <2>1. CASE EnterBucket
    BY <1>2, <2>1 DEF EnterBucket, Sweepers
  <2>2. CASE Resume
    BY <1>2, <2>2 DEF Resume, Sweepers
  <2>3. CASE Keep
    <3>1. Pointed \in Cells
      <4>1. sweeper.at # NULL => cell[sweeper.at].next \in Cells \cup {NULL}
        BY <1>2 DEF Sweepers, CellRec
      <4>2. head[sweeper.bucket] \in Cells \cup {NULL}
        BY <1>2 DEF Sweepers
      <4> QED
        BY <2>3, <4>1, <4>2 DEF Keep, Pointed
    <3> HIDE DEF Pointed
    <3>2. sweeper' = [sweeper EXCEPT !.at = Pointed] /\ sweeper.pc = "scan"
      BY <2>3 DEF Keep
    <3> QED
      BY <1>2, <3>1, <3>2 DEF Sweepers
  <2>4. CASE EndBucket
    <3>1. 0 \in Buckets
      BY ConnTableConstants DEF Buckets
    <3>2. CASE sweeper.bucket = Last
      BY <2>4, <3>1, <3>2 DEF EndBucket, Resting, Sweepers
    <3>3. CASE sweeper.bucket # Last
      <4>1. sweeper.bucket + 1 \in Buckets
        <5>1. sweeper.bucket \in Buckets
          BY <1>2 DEF Sweepers
        <5> QED
          BY <3>3, <5>1, ConnTableConstants DEF Buckets, Last
      <4>2. sweeper' = [Resting EXCEPT !.pc = "enter", !.bucket = sweeper.bucket + 1]
        BY <2>4, <3>3 DEF EndBucket
      <4> QED
        BY <4>1, <4>2 DEF Resting, Sweepers
    <3> QED
      BY <3>2, <3>3
  <2> QED
    BY <2>1, <2>2, <2>3, <2>4
<1>4. Linked' = Linked
  BY <1>1, <1>2, <1>3 DEF Linked
<1>5. TableTypeOK'
  BY <1>1, <1>2, <1>3, TableTypes DEF TableInv, TableTypeOK, CellRec, Sweepers, Stamps
<1> QED
  BY <1>1, <1>2, <1>3, <1>4, <1>5 DEF TableInv, MapStep

\* The entry the cleanup takes out is one of its chain, wherever calls have
\* moved the cell it came from meanwhile.
LEMMA ExpireStep ==
  ASSUME TableInv, Expire
  PROVE  TableInv' /\ MapStep
<1> DEFINE c == Pointed
<1>1. /\ ~undefined /\ undefined' = undefined /\ sweeper.pc = "scan" /\ Valid /\ c # NULL
      /\ sweeper' = [sweeper EXCEPT !.pc = "free", !.victim = c]
      /\ call' = [op |-> "expire", port |-> cell[c].port]
      /\ IF sweeper.at = NULL
         THEN head' = [head EXCEPT ![sweeper.bucket] = cell[c].next] /\ cell' = cell
         ELSE cell' = [cell EXCEPT ![sweeper.at].next = cell[c].next] /\ head' = head
  BY DEF Expire, Cleans
<1>2. /\ Sound(Linked, head, cell) /\ sweeper.victim = NULL /\ sweeper \in Sweepers
      /\ head \in [Buckets -> Cells \cup {NULL}] /\ cell \in [Cells -> CellRec]
  BY <1>1, TableTypes DEF TableInv
<1>3. Linked = {d \in Cells : cell[d].live}
  BY <1>2, ConnTableConstants DEF Linked
<1>4. sweeper.at # NULL => sweeper.at \in Linked /\ c = cell[sweeper.at].next
  BY <1>1, <1>2, <1>3 DEF Valid, Pointed, Sweepers
<1>5. sweeper.at = NULL => sweeper.bucket \in Buckets /\ c = head[sweeper.bucket]
  BY <1>2 DEF Pointed, Sweepers
<1> HIDE DEF c
<1>6. c \in Linked
  BY <1>1, <1>2, <1>4, <1>5 DEF Sound
<1>7. c \in Cells /\ cell[c].next \in Cells \cup {NULL} /\ cell[c].port \in SrcPorts
  BY <1>2, <1>3, <1>6 DEF CellRec, Sound
<1>8. /\ cell' \in [Cells -> CellRec] /\ head' \in [Buckets -> Cells \cup {NULL}]
      /\ \A d \in Cells : /\ cell'[d].live = cell[d].live /\ cell'[d].port = cell[d].port
                          /\ cell'[d].value = cell[d].value
      /\ \A d \in Linked \ {c} :
           cell'[d].next = IF cell[d].next = c THEN cell[c].next ELSE cell[d].next
      /\ \A b \in Buckets : head'[b] = IF head[b] = c THEN cell[c].next ELSE head[b]
  <2>1. CASE sweeper.at = NULL
    <3>1. \A b \in Buckets : head[b] = c => b = sweeper.bucket
      BY <1>1, <1>2, <1>5, <2>1 DEF Sound
    <3>2. \A d \in Linked : cell[d].next # c
      BY <1>1, <1>2, <1>5, <2>1 DEF Sound
    <3> QED
      BY <1>1, <1>2, <1>5, <1>7, <2>1, <3>1, <3>2
  <2>2. CASE sweeper.at # NULL
    <3>1. \A b \in Buckets : head[b] # c
      BY <1>1, <1>2, <1>4, <2>2 DEF Sound
    <3>2. \A d \in Linked : cell[d].next = c => d = sweeper.at
      BY <1>1, <1>2, <1>4, <2>2 DEF Sound
    <3>3. sweeper.at \in Cells /\ cell[sweeper.at] \in CellRec
      BY <1>2, <1>3, <1>4, <2>2
    <3>4. /\ cell' = [cell EXCEPT ![sweeper.at] = cell'[sweeper.at]]
          /\ cell'[sweeper.at] = [cell[sweeper.at] EXCEPT !.next = cell[c].next]
      BY <1>1, <1>2, <2>2, <3>3
    <3>5. /\ cell'[sweeper.at] \in CellRec /\ cell'[sweeper.at].next = cell[c].next
          /\ cell'[sweeper.at].live = cell[sweeper.at].live
          /\ cell'[sweeper.at].port = cell[sweeper.at].port
          /\ cell'[sweeper.at].value = cell[sweeper.at].value
      BY <1>7, <3>3, <3>4 DEF CellRec
    <3>6. \A d \in Cells \ {sweeper.at} : cell'[d] = cell[d]
      BY <1>2, <3>3, <3>4
    <3>7. cell' \in [Cells -> CellRec]
      BY <1>2, <3>3, <3>4, <3>5
    <3> QED
      BY <1>1, <1>2, <1>3, <1>4, <2>2, <3>1, <3>2, <3>5, <3>6, <3>7
  <2> QED
    BY <2>1, <2>2
<1>9. sweeper' \in Sweepers /\ sweeper'.pc = "free" /\ sweeper'.victim = c
  BY <1>1, <1>2, <1>7 DEF Sweepers
<1>10. Linked' = Linked \ {c}
  BY <1>3, <1>8, <1>9 DEF Linked
<1>11. \A d \in Linked \ {c} :
          /\ cell'[d].port = cell[d].port /\ cell'[d].value = cell[d].value
          /\ cell'[d].next = IF cell[d].next = c THEN cell[c].next ELSE cell[d].next
  BY <1>3, <1>8
<1>12. Sound(Linked \ {c}, head', cell')
  BY <1>2, <1>6, <1>8, <1>11, Bypassed
<1>13. MapStep
  <2>1. PICK p \in SrcPorts : p = cell[c].port
    BY <1>7
  <2>2. /\ Entries(head', cell') = [Entries(head, cell) EXCEPT ![p] = NULL]
        /\ Entries(head, cell)[p] # NULL
    BY <1>2, <1>6, <1>11, <1>12, <2>1, EntryGone
  <2> QED
    BY <1>1, <2>1, <2>2, ExpireIs DEF MapStep
<1>14. TableTypeOK'
  BY <1>1, <1>8, <1>9, TableTypes DEF TableInv, TableTypeOK, CellRec, Sweepers, Stamps
<1> QED
  BY <1>1, <1>3, <1>6, <1>7, <1>8, <1>9, <1>10, <1>12, <1>13, <1>14 DEF TableInv

\* What the cleanup frees has been in no chain since it took it out.
LEMMA FreeVictimStep ==
  ASSUME TableInv, FreeVictim
  PROVE  TableInv' /\ MapStep
<1> DEFINE c == sweeper.victim
<1>1. /\ ~undefined /\ undefined' = undefined /\ sweeper.pc = "free"
      /\ cell' = [cell EXCEPT ![c] = Freed] /\ head' = head /\ call' = call
      /\ sweeper' = [sweeper EXCEPT !.pc = "resume", !.victim = NULL]
  BY DEF FreeVictim, Cleans
<1>2. /\ Sound(Linked, head, cell) /\ c \in Cells /\ sweeper \in Sweepers
      /\ head \in [Buckets -> Cells \cup {NULL}] /\ cell \in [Cells -> CellRec]
  BY <1>1, TableTypes DEF TableInv
<1>3. Freed \in CellRec /\ ~Freed.live
  BY DEF Freed, CellRec
<1>4. sweeper' \in Sweepers /\ sweeper'.pc = "resume" /\ sweeper'.victim = NULL
  BY <1>1, <1>2 DEF Sweepers
<1>5. cell' \in [Cells -> CellRec] /\ cell'[c] = Freed /\ \A d \in Cells \ {c} : cell'[d] = cell[d]
  BY <1>1, <1>2, <1>3
<1>6. Linked' = Linked
  BY <1>2, <1>3, <1>4, <1>5, ConnTableConstants DEF Linked
<1>7. \A d \in Linked : cell'[d] = cell[d] /\ cell[d].value \in Values
  BY <1>2, <1>5 DEF Linked, Sound
<1>8. Sound(Linked, head, cell')
  BY <1>2, <1>7, SameLinks
<1>9. Entries(head', cell') = Entries(head, cell)
  <2>1. \A d \in Linked : cell'[d].port = cell[d].port /\ cell'[d].value = cell[d].value
    BY <1>7
  <2>2. Entries(head, cell') = Entries(head, cell)
    BY <1>2, <1>8, <2>1, SameEntries
  <2> QED
    BY <1>1, <2>2
<1>10. TableTypeOK'
  BY <1>1, <1>2, <1>4, <1>5, TableTypes DEF TableInv, TableTypeOK, CellRec, Sweepers, Stamps
<1> QED
  BY <1>1, <1>4, <1>6, <1>8, <1>9, <1>10 DEF TableInv, MapStep

\* Every step of the table keeps its invariant and is a step of the map or none.
LEMMA TableStep ==
  ASSUME TableInv, [TableNext]_tableVars
  PROVE  TableInv' /\ MapStep
<1>1. CASE UNCHANGED tableVars
  BY <1>1 DEF tableVars, TableInv, TableTypeOK, Linked, MapStep
<1>2. CASE Dangling
  BY <1>2 DEF Dangling, TableInv, TableTypeOK, MapStep
<1>3. CASE \E p \in SrcPorts : Get(p) \/ remove_connection(p)
  BY <1>3, GetStep, RemoveStep
<1>4. CASE \E p \in SrcPorts, v \in Values :
             AddExisting(p, v) \/ AddNew(p, v) \/ AddFails(p, v)
  BY <1>4, AddExistingStep, AddNewStep, AddFailsStep
<1>5. CASE StopFrees \/ SweepBegin
  BY <1>5, StopFreesStep, CleanupBeginStep
<1>6. CASE EnterBucket \/ Keep \/ Resume \/ EndBucket
  BY <1>6, ReadingStep
<1>7. CASE Expire \/ FreeVictim
  BY <1>7, ExpireStep, FreeVictimStep
<1> QED
  BY <1>1, <1>2, <1>3, <1>4, <1>5, <1>6, <1>7 DEF TableNext

\* An empty table is an empty map.
LEMMA TableStarts ==
  ASSUME TableInit
  PROVE  TableInv /\ Map!Init
<1>1. /\ head = [b \in Buckets |-> NULL] /\ cell = [c \in Cells |-> Freed]
      /\ sweeper = Resting /\ call = NoCall /\ undefined = FALSE
  BY DEF TableInit
<1>2. Freed \in CellRec /\ ~Freed.live
  BY DEF Freed, CellRec
<1>3. Resting \in Sweepers /\ Resting.pc = "idle" /\ Resting.victim = NULL
  <2>1. 0 \in Buckets
    BY ConnTableConstants DEF Buckets
  <2> QED
    BY <2>1 DEF Resting, Sweepers
<1>4. TableTypeOK
  BY <1>1, <1>2, <1>3, TableTypes
<1>5. Linked = {}
  BY <1>1, <1>2 DEF Linked
<1>6. Sound({}, head, cell)
  <2>1. [c \in Cells |-> 0] \in [Cells -> Nat]
    OBVIOUS
  <2> QED
    BY <1>1, <2>1 DEF Sound
<1>7. TableInv
  BY <1>1, <1>3, <1>4, <1>5, <1>6 DEF TableInv
<1>8. \A p \in SrcPorts : ValueOf(head, cell, p) = NULL
  BY <1>6, ValueIs
<1>9. Map!Init
  BY <1>1, <1>8, MapIs DEF Map!Init, Entries, NoCall, Map!NoCall
<1> QED
  BY <1>7, <1>9

\* As long as no freed memory was read, every chain holds live cells of its own
\* bucket, one for each port, and no cell is lost, although the cleanup gives
\* up the lock in the middle of a chain (cleanup_stale_connections).
THEOREM ChainsCorrect ==
  TableSpec => []ChainsSound
<1>1. TableInit => TableInv
  BY TableStarts
<1>2. TableInv /\ [TableNext]_tableVars => TableInv'
  BY TableStep
<1>3. TableInv => ChainsSound
  <2> SUFFICES ASSUME TableInv, ~undefined
               PROVE  /\ \A b \in Buckets : \A c \in Chain(b) :
                           /\ cell[c].live /\ Hash(cell[c].port) = b
                           /\ \A d \in Chain(b) : cell[c].port = cell[d].port => c = d
                      /\ \A c \in Cells : cell[c].live =>
                           (c \in UNION {Chain(b) : b \in Buckets} <=> c # sweeper.victim)
    BY DEF TableInv, ChainsSound
  <2>1. Sound(Linked, head, cell)
    BY DEF TableInv
  <2>2. /\ \A b \in Buckets : Chain(b) = {c \in Linked : Home(cell, c) = b}
        /\ UNION {Chain(b) : b \in Buckets} = Linked
    BY <2>1, AllChained
  <2>3. \A b \in Buckets : \A c \in Chain(b) :
          /\ cell[c].live /\ Hash(cell[c].port) = b
          /\ \A d \in Chain(b) : cell[c].port = cell[d].port => c = d
    BY <2>1, <2>2 DEF Linked, Home, Sound
  <2>4. \A c \in Cells : cell[c].live => (c \in Linked <=> c # sweeper.victim)
    BY DEF Linked
  <2> QED
    BY <2>2, <2>3, <2>4
<1> QED
  BY <1>1, <1>2, <1>3, PTL DEF TableSpec

\* The chains implement the map that ConnMap promises: every call has the effect
\* and the result of one of the map's, an add is lost only if there was no memory
\* for the entry of a new port (add_connection), the cleanup drops single entries.
THEOREM MapImplemented ==
  TableSpec => ImplementsMap
<1>1. TableInit => TableInv /\ Map!Init
  BY TableStarts
<1>2. TableInv /\ [TableNext]_tableVars => TableInv' /\ MapStep
  BY TableStep
<1>3. MapStep => [Map!Next]_<<[p \in SrcPorts |-> Value(p)], call>>
  BY MapIs DEF MapStep
<1> QED
  BY <1>1, <1>2, <1>3, PTL DEF TableSpec, ImplementsMap, Map!Spec
=============================================================================
