--------------------------- MODULE UdpPathProofs ---------------------------
(***************************************************************************)
(* Proofs about UdpPath: a table keyed by the source port, whose entries   *)
(* are made once and then followed blindly, sends no datagram to a         *)
(* destination that neither the port nor the rules ever asked for, and     *)
(* cleanup spares the clients in use, for any ports, destinations, rules   *)
(* and timeouts.  The last parts are about UdpRelay, the associations that *)
(* such a datagram leaves by: for any number of configurations, servers    *)
(* and edits, each association stays with its own configuration, unless a  *)
(* call meets the relay on the slot it changes.                            *)
(***************************************************************************)
EXTENDS UdpPath, UdpRelay, FiniteSetTheorems, NaturalsInduction, TLAPS

\* An entry, a redirected datagram and a reply name what their port asked for.
Known ==
  /\ \A p \in Ports : table[p] # None =>
       \E proto \in {"udp", "tcp"} : <<p, table[p].dest, proto>> \in asked
  /\ up # None => <<up.port, up.want, "udp">> \in asked
  /\ down # None => \E proto \in {"udp", "tcp"} : <<down.port, down.origin, proto>> \in asked

\* Somebody had traffic to d proxied: over TCP, or over UDP by a rule.
Sanctioned(d) ==
  \/ \E p \in Ports : <<p, d, "tcp">> \in asked
  \/ d \notin Special /\ \E a \in {"PROXY", "CONE"} : <<d, a>> \in said

\* What the rules say is recorded, and no entry exists that they never asked for.
Justified ==
  /\ \A d \in Dests : <<d, rules[d]>> \in said
  /\ \A p \in Ports : table[p] # None =>
       /\ Sanctioned(table[p].dest)
       /\ table[p].cone => \E d \in Dests : <<d, "CONE">> \in said

\* A datagram on its way whose lookup will find the entry of its port.
OnItsWay(p) == up # None /\ up.port = p /\ (Fam(up.want) = "v4" \/ full_v6(p))

\* The entry of a client of the shared relay is no older than the client's
\* silence, or it is about to be made young.
Fresh ==
  \A p \in Ports : table[p] # None /\ ~table[p].cone =>
    table[p].age <= quiet[p] \/ OnItsWay(p)

IInv == TypeOK /\ Known /\ Justified /\ Fresh

-----------------------------------------------------------------------------
(* The table *)

\* The entry of p is still there, for the same destination and relay.
Kept(p) ==
  table[p] # None /\ table'[p].dest = table[p].dest /\ table'[p].cone = table[p].cone

\* A lookup that refreshes changes the age of one entry and nothing else.
LEMMA RefreshedFacts ==
  ASSUME TypeOK, NEW p \in Ports, table[p] # None, table' = Refreshed(p)
  PROVE  /\ table' \in [Ports -> Entry \cup {None}]
         /\ \A q \in Ports \ {p} : table'[q] = table[q]
         /\ Kept(p) /\ table'[p].age = 0
<1>1. table \in [Ports -> Entry \cup {None}] /\ table[p] \in Entry /\ 0 \in 0 .. AgeCap
  BY UdpPathConstants DEF TypeOK, AgeCap
<1>2. table' = [table EXCEPT ![p] = [table[p] EXCEPT !.age = 0]]
  BY DEF Refreshed
<1>3. /\ [table[p] EXCEPT !.age = 0] \in Entry
      /\ [table[p] EXCEPT !.age = 0].dest = table[p].dest
      /\ [table[p] EXCEPT !.age = 0].cone = table[p].cone
      /\ [table[p] EXCEPT !.age = 0].age = 0
  BY <1>1 DEF Entry
<1> QED
  BY <1>1, <1>2, <1>3 DEF Kept

\* A new entry.
LEMMA AddedFacts ==
  ASSUME TypeOK, NEW p \in Ports, NEW d \in Dests, NEW cone \in BOOLEAN,
         table' = [table EXCEPT ![p] = add_connection(d, cone)]
  PROVE  /\ table' \in [Ports -> Entry \cup {None}]
         /\ \A q \in Ports \ {p} : table'[q] = table[q]
         /\ table'[p].dest = d /\ table'[p].cone = cone /\ table'[p].age = 0
<1>1. table \in [Ports -> Entry \cup {None}] /\ 0 \in 0 .. AgeCap
  BY UdpPathConstants DEF TypeOK, AgeCap
<1>2. add_connection(d, cone) \in Entry
  BY <1>1 DEF add_connection, Entry
<1> QED
  BY <1>1, <1>2 DEF add_connection

\* Nothing that the invariant says of entries is lost when they are refreshed,
\* age or go, for what was asked and said is never forgotten.
LEMMA KeptInv ==
  ASSUME IInv,
         \A p \in Ports : table'[p] # None => Kept(p),
         asked \subseteq asked', said \subseteq said',
         \A d \in Dests : <<d, rules'[d]>> \in said',
         up' # None => <<up'.port, up'.want, "udp">> \in asked',
         down' # None => \E proto \in {"udp", "tcp"} : <<down'.port, down'.origin, proto>> \in asked'
  PROVE  Known' /\ Justified'
<1>1. Known'
  BY DEF IInv, Known, Kept
<1>2. ASSUME NEW p \in Ports, table'[p] # None
      PROVE  Sanctioned(table[p].dest)' /\ (table'[p].cone => \E d \in Dests : <<d, "CONE">> \in said')
  BY <1>2 DEF IInv, Justified, Kept, Sanctioned
<1>3. Justified'
  BY <1>2 DEF Justified, Sanctioned, Kept
<1> QED
  BY <1>1, <1>3

\* A new entry is known and justified if its destination was asked for and
\* sanctioned.
LEMMA AddedInv ==
  ASSUME IInv, NEW p \in Ports, NEW d \in Dests, NEW cone \in BOOLEAN,
         table' = [table EXCEPT ![p] = add_connection(d, cone)],
         NEW proto \in {"udp", "tcp"}, asked' = asked \cup {<<p, d, proto>>},
         UNCHANGED <<rules, said, down>>,
         up' # None => <<up'.port, up'.want, "udp">> \in asked',
         proto = "tcp" \/ (d \notin Special /\ \E a \in {"PROXY", "CONE"} : <<d, a>> \in said),
         cone => <<d, "CONE">> \in said
  PROVE  Known' /\ Justified'
<1>1. /\ \A q \in Ports \ {p} : table'[q] = table[q]
      /\ table'[p].dest = d /\ table'[p].cone = cone
  BY AddedFacts DEF IInv
<1>2. Known'
  BY <1>1 DEF IInv, Known
<1>3. Sanctioned(d)'
  BY DEF Sanctioned
<1>4. ASSUME NEW q \in Ports, table'[q] # None
      PROVE  Sanctioned(table[q].dest)' /\ (table'[q].cone => \E e \in Dests : <<e, "CONE">> \in said')
  <2>1. CASE q = p
    BY <1>1, <1>3, <2>1 DEF Sanctioned
  <2>2. CASE q # p
    <3>1. table'[q] = table[q]
      BY <1>1, <2>2
    <3>2. Sanctioned(table[q].dest) /\ (table[q].cone => \E e \in Dests : <<e, "CONE">> \in said)
      BY <1>4, <3>1 DEF IInv, Justified
    <3>3. Sanctioned(table'[q].dest)
      BY <3>1, <3>2
    <3>4. Sanctioned(table[q].dest)'
      BY <3>3 DEF Sanctioned
    <3> QED
      BY <3>1, <3>2, <3>4
  <2> QED
    BY <2>1, <2>2
<1>5. Justified'
  BY <1>4 DEF IInv, Justified, Sanctioned
<1> QED
  BY <1>2, <1>5

\* What the type invariant says, variable by variable.
LEMMA PathTypes ==
  ASSUME TypeOK
  PROVE  /\ rules \in [Dests -> Actions] /\ table \in [Ports -> Entry \cup {None}]
         /\ \A p \in Ports : table[p] # None =>
              table[p].dest \in Dests /\ table[p].cone \in BOOLEAN /\ table[p].age \in 0 .. AgeCap
         /\ up # None => up.port \in Ports /\ up.want \in Dests
         /\ down # None => down.port \in Ports /\ down.origin \in Dests
         /\ sweep.lag \in 0 .. MaxLag /\ sweep.todo \subseteq Ports
         /\ \A p \in Ports : quiet[p] \in 0 .. AgeCap
         /\ AgeCap \in Nat
BY UdpPathConstants DEF TypeOK, Entry, AgeCap

LEMMA InitInv == Init => IInv
<1> SUFFICES ASSUME Init PROVE IInv
  OBVIOUS
<1>1. AgeCap \in Nat /\ 0 \in 0 .. MaxLag /\ Cardinality({}) <= MaxAsked
  BY UdpPathConstants, FS_EmptySet DEF AgeCap
<1>2. said \subseteq Dests \X Actions
  BY UdpPathConstants DEF Init
<1>3. TypeOK
  BY <1>1, <1>2 DEF Init, TypeOK, Nothing
<1>4. Known /\ Justified /\ Fresh
  BY DEF Init, Known, Justified, Fresh
<1> QED
  BY <1>3, <1>4 DEF IInv

\* The bookkeeping of a use of a port.
LEMMA UsesType ==
  ASSUME TypeOK, NEW p \in Ports, NEW d \in Dests, NEW proto \in {"udp", "tcp"},
         asked' = asked \cup {<<p, d, proto>>}, Cardinality(asked') <= MaxAsked
  PROVE  asked' \subseteq Asks /\ Cardinality(asked') <= MaxAsked
BY DEF TypeOK, Asks

\* A datagram of a client: what the packet thread decides for an untracked port
\* is justified, and its entry is as young as the client's silence.
LEMMA ClientSendsInv ==
  ASSUME IInv, NEW p \in Ports, NEW d \in Dests, ClientSends(p, d)
  PROVE  IInv'
<1> USE PathTypes DEF IInv
<1>1. /\ up = None /\ UNCHANGED <<rules, wire, tcp, sweep, said, down>>
      /\ asked' = asked \cup {<<p, d, "udp">>} /\ Cardinality(asked') <= MaxAsked
      /\ quiet' = [quiet EXCEPT ![p] =
           IF table[p] = None \/ Fam(table[p].dest) = Fam(d) THEN 0 ELSE @]
      /\ Tracked(p, d) \/ Untracked(p, d)
  BY DEF ClientSends, Uses
<1>2. asked' \subseteq Asks /\ Cardinality(asked') <= MaxAsked
  BY <1>1, UsesType
<1>3. /\ quiet' \in [Ports -> 0 .. AgeCap]
      /\ \A q \in Ports \ {p} : quiet'[q] = quiet[q]
      /\ table[p] = None \/ Fam(table[p].dest) = Fam(d) => quiet'[p] = 0
      /\ ~(table[p] = None \/ Fam(table[p].dest) = Fam(d)) => quiet'[p] = quiet[p]
  BY <1>1 DEF TypeOK
<1>4. \A q \in Ports : table[q] # None /\ ~table[q].cone => table[q].age <= quiet[q]
  BY <1>1 DEF Fresh, OnItsWay
<1>5. up' = up \/ up' = [port |-> p, want |-> d]
  BY <1>1 DEF Tracked, Untracked
<1>6. seen'.kind \in {"nothing", "reached"}
  <2>1. seen' = Nothing \/ Reached("cone", p, d, d) \/ Reached("direct", p, d, d)
    BY <1>1 DEF Tracked, Untracked
  <2> QED
    BY <2>1 DEF Reached, Nothing
<1>7. up' # None => <<up'.port, up'.want, "udp">> \in asked'
  BY <1>1, <1>5
<1>8. CASE Tracked(p, d)
  <2>1. table' = table /\ table[p] # None
    BY <1>8 DEF Tracked
  <2>2. TypeOK'
    BY <1>1, <1>2, <1>3, <1>5, <1>6, <2>1 DEF TypeOK
  <2>3. Known' /\ Justified'
    BY <1>1, <1>7, <2>1, KeptInv DEF Known, Justified, Kept
  <2>4. ~table[p].cone => up' = [port |-> p, want |-> d]
    BY <1>8 DEF Tracked
  <2>5. table[p].age <= quiet'[p] \/ table[p].cone \/ OnItsWay(p)'
    <3>1. CASE Fam(table[p].dest) # Fam(d)
      BY <1>3, <1>4, <2>1, <3>1
    <3>2. CASE Fam(table[p].dest) = Fam(d) /\ ~table[p].cone
      <4>1. up' = [port |-> p, want |-> d] /\ up' # None
        BY <2>4, <3>2, UdpPathConstants
      <4> QED
        BY <2>1, <3>2, <4>1 DEF OnItsWay, full_v6, Fam
    <3> QED
      BY <3>1, <3>2
  <2>6. Fresh'
    BY <1>3, <1>4, <2>1, <2>5 DEF Fresh
  <2> QED
    BY <2>2, <2>3, <2>6
<1>9. CASE Untracked(p, d)
  <2>1. CASE table' = table
    <3>1. TypeOK'
      BY <1>1, <1>2, <1>3, <1>5, <1>6, <2>1 DEF TypeOK
    <3>2. Known' /\ Justified'
      BY <1>1, <1>7, <2>1, KeptInv DEF Known, Justified, Kept
    <3>3. Fresh'
      BY <1>3, <1>4, <1>9, <2>1 DEF Fresh, Untracked
    <3> QED
      BY <3>1, <3>2, <3>3
  <2>2. ASSUME NEW cone \in BOOLEAN, table' = [table EXCEPT ![p] = add_connection(d, cone)],
               Action(d) \in {"PROXY", "CONE"}, cone => Action(d) = "CONE"
        PROVE  IInv'
    <3>1. /\ table' \in [Ports -> Entry \cup {None}]
          /\ \A q \in Ports \ {p} : table'[q] = table[q]
          /\ table'[p].age = 0
      BY <2>2, AddedFacts
    <3>2. TypeOK'
      BY <1>1, <1>2, <1>3, <1>5, <1>6, <3>1 DEF TypeOK
    <3>3. d \notin Special /\ Action(d) = rules[d]
      BY <2>2, UdpPathConstants DEF Action
    <3>4. Known' /\ Justified'
      BY <1>1, <1>7, <2>2, <3>3, AddedInv DEF Justified
    <3>5. quiet'[p] >= 0
      BY <1>3
    <3>6. Fresh'
      BY <1>3, <1>4, <3>1, <3>5 DEF Fresh
    <3> QED
      BY <3>2, <3>4, <3>6
  <2>3. \/ table' = table
        \/ Action(d) \in {"PROXY", "CONE"} /\ Added(p, d, FALSE)
        \/ Action(d) = "CONE" /\ Added(p, d, TRUE)
    BY <1>9 DEF Untracked
  <2> QED
    BY <2>1, <2>2, <2>3 DEF Added
<1> QED
  BY <1>1, <1>8, <1>9

\* One entry is refreshed, or goes, or nothing happens to the table.
LEMMA OneEntryInv ==
  ASSUME IInv, NEW p \in Ports,
         \/ table' = table
         \/ table[p] # None /\ table' = Refreshed(p)
         \/ table' = [table EXCEPT ![p] = None],
         UNCHANGED <<rules, up, quiet>>,
         asked \subseteq asked', said \subseteq said',
         down' = down \/ down' = None \/
           \E proto \in {"udp", "tcp"} : <<down'.port, down'.origin, proto>> \in asked'
  PROVE  /\ table' \in [Ports -> Entry \cup {None}]
         /\ Known' /\ Justified' /\ Fresh'
<1> USE PathTypes DEF IInv
<1>1. /\ table' \in [Ports -> Entry \cup {None}]
      /\ \A q \in Ports \ {p} : table'[q] = table[q]
      /\ table'[p] = table[p] \/ table'[p] = None \/ (Kept(p) /\ table'[p].age = 0)
  BY RefreshedFacts
<1>2. \A q \in Ports : table'[q] # None => Kept(q)
  BY <1>1 DEF Kept
<1>3. Known' /\ Justified'
  BY <1>2, KeptInv DEF Known, Justified
<1>4. ASSUME NEW q \in Ports, table'[q] # None, ~table'[q].cone
      PROVE  table'[q].age <= quiet'[q] \/ OnItsWay(q)'
  <2>1. CASE table'[q] = table[q]
    <3>1. table[q].age <= quiet[q] \/ OnItsWay(q)
      BY <1>4, <2>1 DEF Fresh
    <3> QED
      BY <2>1, <3>1 DEF OnItsWay, full_v6
  <2>2. CASE table'[q] # table[q]
    <3>1. table'[q].age = 0
      BY <1>1, <1>4, <2>2
    <3> QED
      BY <3>1
  <2> QED
    BY <2>1, <2>2
<1> QED
  BY <1>1, <1>3, <1>4 DEF Fresh

\* The steps that leave the traffic's histories alone.
LEMMA RestoreInv == IInv /\ Restore => IInv'
<1> SUFFICES ASSUME IInv, Restore PROVE IInv'
  OBVIOUS
<1> USE PathTypes DEF IInv
<1>1. /\ down # None /\ down' = None /\ down.port \in Ports
      /\ UNCHANGED <<rules, up, wire, tcp, sweep, quiet, asked, said>>
      /\ table' = table \/ (table[down.port] # None /\ table' = Refreshed(down.port))
      /\ seen'.kind \in {"nothing", "delivered"}
  BY DEF Restore, Nothing
<1>2. table' \in [Ports -> Entry \cup {None}] /\ Known' /\ Justified' /\ Fresh'
  BY <1>1, OneEntryInv
<1>3. TypeOK'
  BY <1>1, <1>2 DEF TypeOK
<1> QED
  BY <1>2, <1>3

LEMMA FromProxyInv ==
  ASSUME IInv, NEW d \in Dests, FromProxy(d)
  PROVE  IInv'
<1> USE PathTypes DEF IInv
<1>1. PICK p \in Youngest(Candidates(d)) :
        /\ down' = [port |-> p, origin |-> d]
        /\ table' = IF Fam(d) = "v4" THEN Refreshed(p) ELSE table
  BY DEF FromProxy
<1>2. p \in Ports /\ table[p] # None /\ table[p].dest = d
  BY DEF Youngest, Candidates
<1>3. \E proto \in {"udp", "tcp"} : <<down'.port, down'.origin, proto>> \in asked
  BY <1>1, <1>2 DEF Known
<1>4. seen' = Nothing /\ UNCHANGED <<rules, up, wire, tcp, sweep, quiet, asked, said>>
  BY DEF FromProxy
<1>5. table' \in [Ports -> Entry \cup {None}] /\ Known' /\ Justified' /\ Fresh'
  BY <1>1, <1>2, <1>3, <1>4, OneEntryInv
<1>6. TypeOK'
  BY <1>1, <1>2, <1>4, <1>5 DEF TypeOK, Nothing
<1> QED
  BY <1>5, <1>6

LEMMA RemovalInv ==
  ASSUME IInv, NEW p \in Ports, TcpClose(p) \/ CleanupScan(p)
  PROVE  IInv'
<1> USE PathTypes DEF IInv
<1>1. /\ table' = table \/ table' = [table EXCEPT ![p] = None]
      /\ seen' = Nothing /\ tcp' \subseteq tcp
      /\ UNCHANGED <<rules, up, down, wire, quiet, asked, said>>
  BY DEF TcpClose, CleanupScan
<1>2. sweep' \in [lag : 0 .. MaxLag, todo : SUBSET Ports]
  BY UdpPathConstants DEF TcpClose, CleanupScan, TypeOK
<1>3. table' \in [Ports -> Entry \cup {None}] /\ Known' /\ Justified' /\ Fresh'
  BY <1>1, OneEntryInv
<1>4. TypeOK'
  BY <1>1, <1>2, <1>3 DEF TypeOK, Nothing
<1> QED
  BY <1>3, <1>4

LEMMA TcpOpenInv ==
  ASSUME IInv, NEW p \in Ports, NEW d \in Dests, TcpOpen(p, d)
  PROVE  IInv'
<1> USE PathTypes DEF IInv
<1>1. /\ asked' = asked \cup {<<p, d, "tcp">>} /\ Cardinality(asked') <= MaxAsked
      /\ tcp' = tcp \cup {p} /\ seen' = Nothing
      /\ UNCHANGED <<rules, up, down, wire, sweep, quiet, said>>
  BY DEF TcpOpen
<1>2. up # None => <<up.port, up.want, "udp">> \in asked'
  BY <1>1 DEF Known
<1>3. asked' \subseteq Asks
  BY <1>1, UsesType
<1>4. CASE table' = table
  <2>1. Known' /\ Justified' /\ Fresh'
    BY <1>1, <1>4, OneEntryInv
  <2> QED
    BY <1>1, <1>3, <1>4, <2>1 DEF TypeOK, Nothing
<1>5. CASE table' = [table EXCEPT ![p] = add_connection(d, FALSE)]
  <2>1. /\ table' \in [Ports -> Entry \cup {None}]
        /\ \A q \in Ports \ {p} : table'[q] = table[q]
        /\ table'[p].age = 0
    BY <1>5, AddedFacts
  <2>2. Known' /\ Justified'
    BY <1>1, <1>2, <1>5, AddedInv
  <2>3. Fresh'
    BY <1>1, <2>1 DEF Fresh, OnItsWay, full_v6
  <2>4. TypeOK'
    BY <1>1, <1>3, <2>1 DEF TypeOK, Nothing
  <2> QED
    BY <2>2, <2>3, <2>4
<1> QED
  BY <1>4, <1>5 DEF TcpOpen, Added

\* The shared relay makes the entry it finds young before time can pass.
LEMMA ToProxyInv == IInv /\ ToProxy => IInv'
<1> SUFFICES ASSUME IInv, ToProxy PROVE IInv'
  OBVIOUS
<1> USE PathTypes DEF IInv
<1> DEFINE p == up.port
           found == IF Fam(up.want) = "v4" THEN table[p] # None ELSE full_v6(p)
           dest == IF Fam(up.want) = "v4" THEN get_connection(p) ELSE table[p].dest
<1>1. /\ up # None /\ up' = None /\ p \in Ports
      /\ UNCHANGED <<rules, down, tcp, sweep, quiet, asked, said>>
      /\ IF found THEN table' = Refreshed(p) ELSE table' = table /\ wire' = wire
  BY DEF ToProxy
<1>2. seen' = Nothing \/ Reached("relay", p, up.want, dest)
  BY DEF ToProxy
<1>3. seen'.kind \in {"nothing", "reached"}
  BY <1>2 DEF Reached, Nothing
<1>4. found => table[p] # None
  BY DEF full_v6
<1>5. wire' \subseteq Dests
  <2>1. found => dest \in Dests \cup {Zero}
    BY <1>1, <1>4 DEF get_connection
  <2>2. found => wire' = wire \/ wire' = wire \cup ({dest} \ {Zero})
    BY DEF ToProxy
  <2> QED
    BY <1>1, <2>1, <2>2 DEF TypeOK
<1>6. /\ table' \in [Ports -> Entry \cup {None}]
      /\ \A q \in Ports \ {p} : table'[q] = table[q]
      /\ found => Kept(p) /\ table'[p].age = 0
      /\ ~found => table' = table
  BY <1>1, <1>4, RefreshedFacts DEF TypeOK
<1>7. TypeOK'
  BY <1>1, <1>3, <1>5, <1>6 DEF TypeOK
<1>8. Known' /\ Justified'
  BY <1>1, <1>6, KeptInv DEF Known, Justified, Kept
<1>9. Fresh'
  <2>1. table[p] # None /\ ~found => ~OnItsWay(p)
    BY DEF OnItsWay, full_v6
  <2> QED
    BY <1>1, <1>6, <2>1 DEF Fresh, OnItsWay
<1> QED
  BY <1>7, <1>8, <1>9

LEMMA QuietStepInv == IInv /\ (CleanupBegin \/ EditRules \/ UNCHANGED vars) => IInv'
<1> SUFFICES ASSUME IInv, CleanupBegin \/ EditRules \/ UNCHANGED vars PROVE IInv'
  OBVIOUS
<1> USE PathTypes DEF IInv
<1>1. /\ UNCHANGED <<table, up, down, wire, tcp, quiet, asked>>
      /\ seen'.kind \in {"nothing", "reached", "delivered"}
      /\ rules' \in Rulings
  BY DEF CleanupBegin, EditRules, vars, TypeOK, Nothing
<1>2. /\ said \subseteq said' /\ \A d \in Dests : <<d, rules'[d]>> \in said'
      /\ said' \subseteq Dests \X Actions
  BY UdpPathConstants DEF CleanupBegin, EditRules, vars, TypeOK, Justified
<1>3. sweep' \in [lag : 0 .. MaxLag, todo : SUBSET Ports]
  BY UdpPathConstants DEF CleanupBegin, EditRules, vars, TypeOK
<1>4. TypeOK'
  BY <1>1, <1>2, <1>3 DEF TypeOK
<1>5. Known' /\ Justified'
  BY <1>1, <1>2, KeptInv DEF Known, Kept
<1>6. Fresh'
  BY <1>1 DEF Fresh, OnItsWay, full_v6
<1> QED
  BY <1>4, <1>5, <1>6

\* Entries and silences grow old together.
LEMMA TickInv == IInv /\ Tick => IInv'
<1> SUFFICES ASSUME IInv, Tick PROVE IInv'
  OBVIOUS
<1> USE PathTypes DEF IInv
<1>1. /\ up = None /\ down = None /\ seen' = Nothing
      /\ table' = [q \in Ports |->
           IF table[q] = None THEN None ELSE [table[q] EXCEPT !.age = Older(@)]]
      /\ quiet' = [q \in Ports |-> Older(quiet[q])]
      /\ UNCHANGED <<rules, up, down, wire, tcp, asked, said>>
  BY DEF Tick
<1>2. \A n \in 0 .. AgeCap : Older(n) \in 0 .. AgeCap
  BY DEF Older
<1>3. \A m, n \in 0 .. AgeCap : m <= n => Older(m) <= Older(n)
  BY DEF Older
<1>4. ASSUME NEW q \in Ports, table[q] # None
      PROVE  /\ table'[q] \in Entry /\ Kept(q)
             /\ table'[q].age = Older(table[q].age)
  <2>1. table[q] \in Entry /\ table'[q] = [table[q] EXCEPT !.age = Older(@)]
    BY <1>1, <1>4
  <2> QED
    BY <1>2, <1>4, <2>1 DEF Entry, Kept
<1>5. \A q \in Ports : table[q] = None => table'[q] = None
  BY <1>1
<1>6. table' \in [Ports -> Entry \cup {None}] /\ quiet' \in [Ports -> 0 .. AgeCap]
  BY <1>1, <1>2, <1>4
<1>7. sweep' \in [lag : 0 .. MaxLag, todo : SUBSET Ports]
  BY UdpPathConstants DEF Tick, TypeOK
<1>8. TypeOK'
  BY <1>1, <1>6, <1>7 DEF TypeOK, Nothing
<1>9. Known' /\ Justified'
  BY <1>1, <1>4, <1>5, KeptInv DEF Justified
<1>10. Fresh'
  BY <1>1, <1>3, <1>4, <1>5 DEF Fresh, OnItsWay, Kept
<1> QED
  BY <1>8, <1>9, <1>10

LEMMA StepInv == IInv /\ [Next]_vars => IInv'
BY ClientSendsInv, TcpOpenInv, RemovalInv, FromProxyInv, RestoreInv, ToProxyInv,
   QuietStepInv, TickInv DEF Next

LEMMA Invariance == Spec => []IInv
BY InitInv, StepInv, PTL DEF Spec

-----------------------------------------------------------------------------
(* What becomes visible outside *)

\* The steps that show nothing, and those that show one datagram.
LEMMA SeenStep ==
  ASSUME [Next]_vars
  PROVE  \/ seen' = Nothing
         \/ UNCHANGED vars
         \/ \E p \in Ports, d \in Dests : ClientSends(p, d)
         \/ Restore \/ ToProxy
BY DEF Next, TcpOpen, TcpClose, CleanupScan, FromProxy, CleanupBegin, EditRules, Tick

\* Where a client's datagram goes when no relay rewrites it.
LEMMA ClientSendsSeen ==
  ASSUME NEW p \in Ports, NEW d \in Dests, ClientSends(p, d)
  PROVE  /\ <<p, d, "udp">> \in asked' /\ said' = said
         /\ \/ seen' = Nothing
            \/ Reached("direct", p, d, d) /\ table[p] = None /\ Action(d) = "DIRECT"
            \/ Reached("cone", p, d, d) /\ table'[p] # None /\ table'[p].cone
            \/ Reached("cone", p, d, d) /\ Action(d) = "CONE"
<1>1. /\ <<p, d, "udp">> \in asked' /\ said' = said
      /\ Tracked(p, d) \/ Untracked(p, d)
  BY DEF ClientSends, Uses
<1> QED
  BY <1>1 DEF Tracked, Untracked

\* Where the shared relay sends a datagram.
LEMMA ToProxySeen ==
  ASSUME IInv, ToProxy
  PROVE  /\ asked' = asked /\ said' = said
         /\ \/ seen' = Nothing
            \/ /\ up.port \in Ports /\ up.want \in Dests /\ table[up.port] # None
               /\ <<up.port, up.want, "udp">> \in asked
               /\ \E got : /\ Reached("relay", up.port, up.want, got)
                           /\ got = table[up.port].dest \/
                              (got = Zero /\ Fam(up.want) = "v4" /\ Fam(table[up.port].dest) = "v6")
<1> DEFINE p == up.port
           found == IF Fam(up.want) = "v4" THEN table[p] # None ELSE full_v6(p)
           dest == IF Fam(up.want) = "v4" THEN get_connection(p) ELSE table[p].dest
<1>1. up # None /\ asked' = asked /\ said' = said
  BY DEF ToProxy
<1>2. p \in Ports /\ up.want \in Dests /\ <<p, up.want, "udp">> \in asked
  BY <1>1, PathTypes DEF IInv, Known
<1>3. seen' = Nothing \/ (found /\ Reached("relay", p, up.want, dest))
  BY DEF ToProxy
<1>4. found => table[p] # None
  BY DEF full_v6
<1>5. dest = table[p].dest \/ (dest = Zero /\ Fam(up.want) = "v4" /\ Fam(table[p].dest) = "v6")
  BY DEF get_connection, Fam
<1> QED
  BY <1>1, <1>2, <1>3, <1>4, <1>5

\* The source a reply shows is what the entry of its port says.
LEMMA RestoreSeen ==
  ASSUME IInv, Restore
  PROVE  /\ asked' = asked
         /\ down.port \in Ports /\ down.origin \in Dests
         /\ \E proto \in {"udp", "tcp"} : <<down.port, down.origin, proto>> \in asked
         /\ \/ seen' = Nothing
            \/ /\ seen' = [kind |-> "delivered", port |-> down.port, origin |-> down.origin,
                           label |-> RestoreSource(down)]
               /\ table[down.port] # None \/ Fam(down.origin) = "v6"
               /\ table[down.port] = None => table' = table
BY PathTypes DEF IInv, Known, Restore, full_v6, Fam

\* Every way a datagram gets out was asked for, because its entry was.
LEMMA RuleStep == IInv /\ RuleKept /\ [Next]_vars => RuleKept'
<1> SUFFICES ASSUME IInv, RuleKept, [Next]_vars PROVE RuleKept'
  OBVIOUS
<1>0. Justified' /\ Known' /\ Justified /\ TypeOK /\ TypeOK'
  BY StepInv DEF IInv
<1>1. CASE seen' = Nothing
  BY <1>1 DEF RuleKept, Nothing
<1>2. CASE UNCHANGED vars
  BY <1>2 DEF RuleKept, vars
<1>3. ASSUME NEW p \in Ports, NEW d \in Dests, ClientSends(p, d)
      PROVE  RuleKept'
  <2>1. said' = said /\ <<d, rules[d]>> \in said
    BY <1>0, <1>3, ClientSendsSeen DEF Justified
  <2>2. CASE Reached("direct", p, d, d) /\ Action(d) = "DIRECT"
    <3>1. rules[d] = "DIRECT" \/ d \in Special
      BY <2>2, UdpPathConstants DEF Action
    <3> QED
      BY <2>1, <2>2, <3>1 DEF RuleKept, Reached
  <2>3. CASE Reached("cone", p, d, d) /\ Action(d) = "CONE"
    <3>1. rules[d] = "CONE"
      BY <2>3 DEF Action
    <3> QED
      BY <2>1, <2>3, <3>1 DEF RuleKept, Reached
  <2>4. CASE Reached("cone", p, d, d) /\ table'[p] # None /\ table'[p].cone
    <3>1. \E e \in Dests : <<e, "CONE">> \in said'
      BY <1>0, <2>4 DEF Justified
    <3> QED
      BY <2>4, <3>1 DEF RuleKept, Reached
  <2> QED
    BY <1>1, <1>3, <2>2, <2>3, <2>4, ClientSendsSeen
<1>4. CASE ToProxy
  <2>1. CASE seen' # Nothing
    <3>1. PICK got : /\ Reached("relay", up.port, up.want, got)
                     /\ got = table[up.port].dest \/ got = Zero
      BY <1>4, <2>1, ToProxySeen
    <3>2. up.port \in Ports /\ table[up.port] # None /\ asked' = asked /\ said' = said
      BY <1>4, <2>1, ToProxySeen
    <3>3. Sanctioned(table[up.port].dest)
      BY <1>0, <3>2 DEF Justified
    <3>4. seen'.kind = "reached" /\ seen'.got = got /\ seen'.via = "relay"
      BY <3>1 DEF Reached
    <3> QED
      BY <3>1, <3>2, <3>3, <3>4 DEF RuleKept, Sanctioned
  <2> QED
    BY <1>1, <2>1
<1>5. CASE Restore
  BY <1>1, <1>5, RestoreSeen DEF RuleKept
<1> QED
  BY <1>1, <1>2, <1>3, <1>4, <1>5, SeenStep

\* A destination is reached directly only if the rules said so, and by a relay
\* only if somebody was to be proxied there: no stale entry of the table leaks
\* or proxies what nobody asked for (packet thread and udp_relay_server).
THEOREM RuleIsKept == Spec => []RuleKept
<1>1. Init => RuleKept
  BY DEF Init, RuleKept, Nothing
<1> QED
  BY <1>1, RuleStep, Invariance, PTL DEF Spec

\* What RightWhenAlone says of a port and a destination.
Right(p, d) ==
  /\ seen.kind = "reached" /\ seen.port = p => seen.got = d
  /\ seen.kind = "delivered" /\ seen.port = p => seen.origin = d
  /\ seen.kind = "delivered" /\ seen.origin = d /\ Sole(p, d) =>
       /\ seen.port = p
       /\ \/ seen.label = d
          \/ seen.label = Own /\ Fam(d) = "v6" /\ table[p] = None

LEMMA RightStep ==
  ASSUME IInv, RightWhenAlone, [Next]_vars,
         NEW p \in Ports, NEW d \in Dests, Alone(p, d)'
  PROVE  Right(p, d)'
<1>0. Known /\ Known' /\ TypeOK
  BY StepInv DEF IInv
<1>1. \A e, proto : <<p, e, proto>> \in asked' => e = d
  <2>1. ASSUME NEW e, NEW proto, <<p, e, proto>> \in asked' PROVE e = d
    <3>1. <<p, e, proto>> \in {a \in asked' : a[1] = p}
      BY <2>1
    <3> QED
      BY <3>1 DEF Alone
  <2> QED
    BY <2>1
<1>2. CASE seen' = Nothing
  BY <1>2 DEF Right, Nothing
<1>3. CASE UNCHANGED vars
  BY <1>3 DEF RightWhenAlone, Right, Alone, Sole, vars
<1>4. ASSUME NEW q \in Ports, NEW e \in Dests, ClientSends(q, e)
      PROVE  Right(p, d)'
  <2>1. seen' = Nothing \/ Reached("direct", q, e, e) \/ Reached("cone", q, e, e)
    BY <1>4, ClientSendsSeen
  <2>2. <<q, e, "udp">> \in asked'
    BY <1>4, ClientSendsSeen
  <2>3. CASE seen' # Nothing
    <3>1. seen'.kind = "reached" /\ seen'.port = q /\ seen'.got = e
      BY <2>1, <2>3 DEF Reached
    <3> QED
      BY <1>1, <2>2, <3>1 DEF Right
  <2> QED
    BY <1>2, <2>3
<1>5. CASE ToProxy /\ seen' # Nothing
  <2>1. PICK got : /\ Reached("relay", up.port, up.want, got)
                   /\ got = table[up.port].dest \/
                      (got = Zero /\ Fam(up.want) = "v4" /\ Fam(table[up.port].dest) = "v6")
    BY <1>5, ToProxySeen
  <2>2. /\ up.port \in Ports /\ table[up.port] # None /\ asked' = asked
        /\ <<up.port, up.want, "udp">> \in asked
    BY <1>5, ToProxySeen
  <2>3. seen'.kind = "reached" /\ seen'.port = up.port /\ seen'.got = got
    BY <2>1 DEF Reached
  <2>4. up.port = p => up.want = d /\ table[p].dest = d
    BY <1>0, <1>1, <2>2 DEF Known
  <2>5. up.port = p => got = d
    BY <2>1, <2>4
  <2> QED
    BY <2>3, <2>5 DEF Right
<1>6. CASE Restore /\ seen' # Nothing
  <2>1. PICK proto \in {"udp", "tcp"} : <<down.port, down.origin, proto>> \in asked
    BY <1>6, RestoreSeen
  <2>2. /\ asked' = asked
        /\ seen' = [kind |-> "delivered", port |-> down.port, origin |-> down.origin,
                    label |-> RestoreSource(down)]
        /\ table[down.port] # None \/ Fam(down.origin) = "v6"
        /\ table[down.port] = None => table' = table
    BY <1>6, RestoreSeen
  <2>3. /\ seen'.kind = "delivered" /\ seen'.port = down.port
        /\ seen'.origin = down.origin /\ seen'.label = RestoreSource(down)
    BY <2>2
  <2>4. down.port = p => down.origin = d
    BY <1>1, <2>1, <2>2
  <2>5. ASSUME down.origin = d, Sole(p, d)'
        PROVE  /\ down.port = p
               /\ \/ RestoreSource(down) = d
                  \/ RestoreSource(down) = Own /\ Fam(d) = "v6" /\ table'[p] = None
    <3>1. <<down.port, d, proto>> \in {a \in asked' : a[2] = d}
      BY <2>1, <2>2, <2>5
    <3>2. down.port = p
      BY <2>5, <3>1 DEF Sole
    <3>3. table[p] # None => table[p].dest = d
      BY <1>0, <1>1, <2>2 DEF Known
    <3> QED
      BY <2>2, <2>5, <3>2, <3>3 DEF RestoreSource, get_connection, full_v6, Fam
  <2> QED
    BY <2>3, <2>4, <2>5 DEF Right
<1> QED
  BY <1>2, <1>3, <1>4, <1>5, <1>6, SeenStep

\* A socket that sends to one destination only, on a port nothing else uses, is
\* served right in both directions, whatever the other clients, the rules and
\* cleanup do (the packet thread and udp_relay_server); types are kept.
THEOREM AloneIsRight == Spec => []RightWhenAlone
<1>1. Init => RightWhenAlone
  BY InitInv DEF Init, RightWhenAlone, Nothing, IInv
<1>2. IInv /\ RightWhenAlone /\ [Next]_vars => RightWhenAlone'
  BY RightStep, StepInv DEF RightWhenAlone, Right, IInv
<1> QED
  BY <1>1, <1>2, Invariance, PTL DEF Spec

-----------------------------------------------------------------------------
(* Cleanup *)

\* The unsigned difference is the age less the pass's delay, unless it wraps.
LEMMA ElapsedFacts ==
  ASSUME TypeOK, NEW p \in Ports, table[p] # None, Elapsed(p) > Limit
  PROVE  table[p].age > Limit \/ table[p].age < sweep.lag
<1>1. table[p].age \in 0 .. AgeCap /\ sweep.lag \in 0 .. MaxLag
  BY PathTypes
<1>2. SUFFICES ASSUME table[p].age >= sweep.lag PROVE table[p].age > Limit
  BY <1>1, UdpPathConstants DEF AgeCap
<1>3. table[p].age - sweep.lag \in 0 .. Word - 1
  BY <1>1, <1>2, UdpPathConstants DEF AgeCap
<1>4. \A w \in Nat : \A x \in 0 .. w - 1 : x % w = x
  BY SMT
<1>5. Elapsed(p) = table[p].age - sweep.lag
  BY <1>3, <1>4, UdpPathConstants DEF Elapsed
<1> QED
  BY <1>1, <1>5, UdpPathConstants DEF AgeCap

\* cleanup_stale_connections removes the entry of a client of the shared relay
\* only if the client is silent, or its datagram is just on its way, or the
\* entry was used after the pass read the clock.
THEOREM ActiveIsKept == Spec => ActiveKept
<1>1. ASSUME IInv, [Next]_vars, NEW p \in Ports,
             p \in sweep.todo, p \notin sweep'.todo, table[p] # None, table'[p] = None
      PROVE  \/ table[p].cone
             \/ quiet[p] > Limit
             \/ up # None /\ up.port = p
             \/ table[p].age < sweep.lag
  <2>1. PICK q \in Ports : CleanupScan(q)
    <3>1. ~Tick
      BY <1>1 DEF Tick, IInv, TypeOK
    <3>2. sweep' # sweep /\ sweep.todo # {}
      BY <1>1
    <3> QED
      BY <1>1, <3>1, <3>2 DEF Next, vars, ClientSends, Uses, TcpOpen, TcpClose, FromProxy,
         Restore, ToProxy, CleanupBegin, EditRules
  <2>2. q = p
    BY <1>1, <2>1 DEF CleanupScan
  <2>3. Elapsed(p) > Limit
    BY <1>1, <2>1, <2>2 DEF CleanupScan
  <2>4. table[p].age > Limit \/ table[p].age < sweep.lag
    BY <1>1, <2>3, ElapsedFacts DEF IInv
  <2>5. table[p].age <= quiet[p] \/ table[p].cone \/ OnItsWay(p)
    BY <1>1 DEF IInv, Fresh
  <2>6. table[p].age \in Nat /\ quiet[p] \in Nat /\ Limit \in Nat
    BY <1>1, PathTypes, UdpPathConstants DEF IInv
  <2> QED
    BY <2>4, <2>5, <2>6 DEF OnItsWay
<1>2. IInv /\ [Next]_vars =>
        [\A p \in Ports :
           p \in sweep.todo /\ p \notin sweep'.todo /\ table[p] # None /\ table'[p] = None =>
             \/ table[p].cone
             \/ quiet[p] > Limit
             \/ up # None /\ up.port = p
             \/ table[p].age < sweep.lag]_vars
  BY <1>1
<1> QED
  BY <1>2, Invariance, PTL DEF Spec, ActiveKept

-----------------------------------------------------------------------------
(* UdpRelay: who owns which association.  L are the slots that count, sl the *)
(* slots and nt the associations.                                          *)

\* Every association of L is connected, open and leads where its configuration
\* says; no two of L share one; and every open one is one of L.
Owned(L, sl, nt) ==
  /\ \A s \in L : sl[s].assoc # Nil =>
       /\ sl[s].assoc \in Handles /\ sl[s].connected
       /\ nt[sl[s].assoc].state # "free" /\ nt[sl[s].assoc].to = sl[s].host
  /\ \A s, t \in L : sl[s].assoc = sl[t].assoc /\ sl[s].assoc # Nil => s = t
  /\ \A h \in Handles : nt[h] # NoAssoc => \E s \in L : sl[s].assoc = h

\* The type of the associations.
Nets == [Handles -> [to : Proxies \cup {Nil}, state : {"free", "open", "dead"}]]

\* What a slot has to do with its association.
SameSlot(a, b) == a.assoc = b.assoc /\ a.connected = b.connected /\ a.host = b.host

\* Nothing of it changes; slots without an association may come in.
LEMMA OwnedSame ==
  ASSUME NEW L, NEW L2, L \subseteq L2, NEW sl, NEW sl2, NEW nt, Owned(L, sl, nt),
         \A s \in L : SameSlot(sl2[s], sl[s]), \A s \in L2 \ L : sl2[s].assoc = Nil
  PROVE  Owned(L2, sl2, nt)
<1>1. \A s \in L2 : sl2[s].assoc # Nil => s \in L
  OBVIOUS
<1>2. \A s \in L2 : sl2[s].assoc # Nil =>
        /\ sl2[s].assoc \in Handles /\ sl2[s].connected
        /\ nt[sl2[s].assoc].state # "free" /\ nt[sl2[s].assoc].to = sl2[s].host
  BY <1>1 DEF Owned, SameSlot
<1>3. \A s, t \in L2 : sl2[s].assoc = sl2[t].assoc /\ sl2[s].assoc # Nil => s = t
  BY <1>1 DEF Owned, SameSlot
<1>4. \A h \in Handles : nt[h] # NoAssoc => \E s \in L2 : sl2[s].assoc = h
  BY DEF Owned, SameSlot
<1> QED
  BY <1>2, <1>3, <1>4 DEF Owned

\* A slot gives up its association, which is closed.
LEMMA OwnedClosed ==
  ASSUME NEW L, NEW sl, NEW sl2, NEW nt \in Nets, NEW s \in L,
         Owned(L, sl, nt), sl2[s].assoc = Nil, \A t \in L \ {s} : SameSlot(sl2[t], sl[t])
  PROVE  Owned(L, sl2, Closed(nt, sl[s].assoc))
<1> DEFINE nt2 == Closed(nt, sl[s].assoc)
<1>1. \A h \in Handles : nt2[h] = IF h = sl[s].assoc THEN NoAssoc ELSE nt[h]
  BY UdpRelayConstants DEF Closed, Nets
<1>2. \A h \in Handles : h # sl[s].assoc => nt2[h] = nt[h]
  BY <1>1
<1> HIDE DEF nt2
<1>3. \A t \in L : sl2[t].assoc # Nil => t # s /\ sl[t].assoc = sl2[t].assoc /\ sl2[t].assoc # sl[s].assoc
  BY DEF Owned, SameSlot
<1>4. \A t \in L : sl2[t].assoc # Nil =>
        /\ sl2[t].assoc \in Handles /\ sl2[t].connected
        /\ nt2[sl2[t].assoc].state # "free" /\ nt2[sl2[t].assoc].to = sl2[t].host
  BY <1>2, <1>3 DEF Owned, SameSlot
<1>5. \A t, u \in L : sl2[t].assoc = sl2[u].assoc /\ sl2[t].assoc # Nil => t = u
  BY <1>3 DEF Owned
<1>6. \A h \in Handles : nt2[h] # NoAssoc => \E t \in L : sl2[t].assoc = h
  <2> SUFFICES ASSUME NEW h \in Handles, nt2[h] # NoAssoc
               PROVE  \E t \in L : sl2[t].assoc = h
    OBVIOUS
  <2>1. h # sl[s].assoc /\ nt[h] # NoAssoc
    BY <1>1
  <2>2. PICK t \in L : sl[t].assoc = h
    BY <2>1 DEF Owned
  <2> QED
    BY <2>1, <2>2 DEF SameSlot
<1>7. Owned(L, sl2, nt2)
  BY <1>4, <1>5, <1>6 DEF Owned
<1> QED
  BY <1>7 DEF nt2

\* A slot that is going to be deleted no longer counts.
LEMMA OwnedDropped ==
  ASSUME NEW L, NEW sl, NEW nt \in Nets, NEW s \in L, Owned(L, sl, nt)
  PROVE  Owned(L \ {s}, sl, Closed(nt, sl[s].assoc))
<1> DEFINE nt2 == Closed(nt, sl[s].assoc)
<1>1. \A h \in Handles : nt2[h] = IF h = sl[s].assoc THEN NoAssoc ELSE nt[h]
  BY UdpRelayConstants DEF Closed, Nets
<1>2. \A h \in Handles : h # sl[s].assoc => nt2[h] = nt[h]
  BY <1>1
<1> HIDE DEF nt2
<1>3. \A t \in L \ {s} : sl[t].assoc # Nil => sl[t].assoc # sl[s].assoc
  BY DEF Owned
<1>4. \A t \in L \ {s} : sl[t].assoc # Nil =>
        /\ sl[t].assoc \in Handles /\ sl[t].connected
        /\ nt2[sl[t].assoc].state # "free" /\ nt2[sl[t].assoc].to = sl[t].host
  BY <1>2, <1>3 DEF Owned
<1>5. \A h \in Handles : nt2[h] # NoAssoc => \E t \in L \ {s} : sl[t].assoc = h
  BY <1>1 DEF Owned
<1>6. \A t, u \in L \ {s} : sl[t].assoc = sl[u].assoc /\ sl[t].assoc # Nil => t = u
  BY DEF Owned
<1>7. Owned(L \ {s}, sl, nt2)
  BY <1>4, <1>5, <1>6 DEF Owned
<1> QED
  BY <1>7 DEF nt2

\* A slot gets a new association to its host.
LEMMA OwnedNew ==
  ASSUME NEW L, NEW sl, NEW sl2, NEW nt \in Nets, NEW nt2, NEW s \in L,
         NEW h \in Handles, Owned(L, sl, nt), nt[h] = NoAssoc, sl[s].assoc = Nil,
         sl2[s].assoc = h, sl2[s].connected, \A t \in L \ {s} : SameSlot(sl2[t], sl[t]),
         nt2[h].state # "free", nt2[h].to = sl2[s].host, \A g \in Handles \ {h} : nt2[g] = nt[g]
  PROVE  Owned(L, sl2, nt2)
<1>1. /\ nt2[h].state # "free" /\ nt2[h].to = sl2[s].host
      /\ \A g \in Handles : g # h => nt2[g] = nt[g]
  OBVIOUS
<1>2. \A t \in L \ {s} : sl[t].assoc # h
  BY UdpRelayConstants DEF Owned, NoAssoc
<1>3. \A t \in L : sl2[t].assoc # Nil =>
        /\ sl2[t].assoc \in Handles /\ sl2[t].connected
        /\ nt2[sl2[t].assoc].state # "free" /\ nt2[sl2[t].assoc].to = sl2[t].host
  <2>1. nt2[sl2[s].assoc].state # "free" /\ nt2[sl2[s].assoc].to = sl2[s].host
    BY <1>1
  <2>2. ASSUME NEW t \in L \ {s}, sl2[t].assoc # Nil
        PROVE  /\ sl2[t].assoc \in Handles /\ sl2[t].connected
               /\ nt2[sl2[t].assoc].state # "free" /\ nt2[sl2[t].assoc].to = sl2[t].host
    <3>1. nt2[sl2[t].assoc] = nt[sl[t].assoc]
      BY <1>1, <1>2, <2>2 DEF Owned, SameSlot
    <3> QED
      BY <2>2, <3>1 DEF Owned, SameSlot
  <2> QED
    BY <2>1, <2>2
<1>4. \A t, u \in L : sl2[t].assoc = sl2[u].assoc /\ sl2[t].assoc # Nil => t = u
  BY <1>2 DEF Owned, SameSlot
<1>5. \A g \in Handles : nt2[g] # NoAssoc => \E t \in L : sl2[t].assoc = g
  <2> SUFFICES ASSUME NEW g \in Handles, nt2[g] # NoAssoc, g # h
               PROVE  \E t \in L : sl2[t].assoc = g
    OBVIOUS
  <2>1. PICK t \in L : sl[t].assoc = g
    BY <1>1 DEF Owned
  <2>2. t # s
    BY <2>1, UdpRelayConstants
  <2> QED
    BY <2>1, <2>2 DEF SameSlot
<1> QED
  BY <1>3, <1>4, <1>5 DEF Owned

\* The slots above the deleted one move down over it.
LEMMA OwnedMoved ==
  ASSUME NEW n \in Nat, NEW e \in 1 .. n, NEW sl, NEW sl2, NEW nt, Owned((1 .. n) \ {e}, sl, nt),
         \A s \in 1 .. n - 1 : sl2[s] = IF e <= s THEN sl[s + 1] ELSE sl[s]
  PROVE  Owned(1 .. n - 1, sl2, nt)
<1> DEFINE fromSlot(s) == IF e <= s THEN s + 1 ELSE s
           L == (1 .. n) \ {e}
<1>1. \A s \in 1 .. n - 1 : sl2[s] = sl[fromSlot(s)] /\ fromSlot(s) \in L
  OBVIOUS
<1>2. \A s, t \in 1 .. n - 1 : fromSlot(s) = fromSlot(t) => s = t
  OBVIOUS
<1>3. \A t \in L : \E s \in 1 .. n - 1 : fromSlot(s) = t
  <2> SUFFICES ASSUME NEW t \in L PROVE \E s \in 1 .. n - 1 : fromSlot(s) = t
    OBVIOUS
  <2>1. CASE t < e
    BY <2>1
  <2>2. CASE t > e
    <3>1. t - 1 \in 1 .. n - 1 /\ fromSlot(t - 1) = t
      BY <2>2
    <3> QED
      BY <3>1
  <2> QED
    BY <2>1, <2>2
<1> HIDE DEF fromSlot, L
<1>4. Owned(L, sl, nt)
  BY DEF L
<1>5. \A s \in 1 .. n - 1 : sl2[s].assoc # Nil =>
        /\ sl2[s].assoc \in Handles /\ sl2[s].connected
        /\ nt[sl2[s].assoc].state # "free" /\ nt[sl2[s].assoc].to = sl2[s].host
  BY <1>1, <1>4 DEF Owned
<1>6. \A s, t \in 1 .. n - 1 : sl2[s].assoc = sl2[t].assoc /\ sl2[s].assoc # Nil => s = t
  <2> SUFFICES ASSUME NEW s \in 1 .. n - 1, NEW t \in 1 .. n - 1,
                      sl2[s].assoc = sl2[t].assoc, sl2[s].assoc # Nil
               PROVE  s = t
    OBVIOUS
  <2>1. fromSlot(s) = fromSlot(t)
    BY <1>1, <1>4 DEF Owned
  <2> QED
    BY <1>2, <2>1
<1>7. \A h \in Handles : nt[h] # NoAssoc => \E s \in 1 .. n - 1 : sl2[s].assoc = h
  BY <1>1, <1>3, <1>4 DEF Owned
<1> QED
  BY <1>5, <1>6, <1>7 DEF Owned

-----------------------------------------------------------------------------
(* UdpRelay: its invariant *)

\* What a slot can hold, and the states of the relay thread.
Configs == [id : Ids \cup {0}, type : Types, host : Proxies \cup {Nil},
            assoc : Handles \cup {Nil}, connected : BOOLEAN, wait : 0 .. Guard]
Threads == [pc : {"init", "select", "reconnect", "control", "client", "send", "replies",
                  "client6", "send6", "guard", "store", "ended"},
            at : Nat, caller : {"init", "reconnect", "control", "client", "resend", "client6"},
            dgram : Ids \cup {Nil}, to : Proxies \cup {Nil}]

\* Where the relay thread holds a pointer to a slot.
Pointing == {"guard", "store", "send", "send6"}

\* The slots that count: not the one a call is deleting.
Live == Used \ (IF editor.pc = "delete" THEN {editor.at} ELSE {})

\* Slot s of the first n serves configuration id, or is one to fall back to.
Named(sl, n, s, id) ==
  \/ sl[s].id = id
  \/ (\A t \in 1 .. n : sl[t].id # id) /\ sl[s].type = "SOCKS5"

\* Where it holds a client's datagram that it has not sent.
Carries(r) ==
  \/ r.pc \in {"send", "send6"}
  \/ r.pc \in {"guard", "store"} /\ r.caller \in {"client", "client6"}

\* Its datagram names a configuration that was once added.
Fits(r, ids) ==
  /\ r \in Threads
  /\ r.pc \in Pointing => r.at \in Slots
  /\ Carries(r) => r.dgram \in 1 .. ids - 1

\* What it points at is a slot in use, the right one for its datagram, and while
\* it connects, one without an association that still names the server.
Aims(r, sl, n) ==
  r.pc \in Pointing =>
    /\ r.at \in 1 .. n
    /\ Carries(r) => Named(sl, n, r.at, r.dgram)
    /\ r.pc = "store" => sl[r.at].assoc = Nil /\ sl[r.at].host = r.to

\* Every variable keeps its type; what a call and the relay are at is there.
RelayTypes ==
  /\ slot \in [Slots -> Configs] /\ count \in 0 .. MaxConfigs
  /\ running \in BOOLEAN /\ inbox \in Fams \cup {Nil} /\ net \in Nets
  /\ editor \in [pc : {"idle", "edit", "delete"}, at : Nat]
  /\ edits \in 0 .. MaxEdits /\ raced \in BOOLEAN
  /\ nextId \in 2 .. edits + 2
  /\ editor.pc # "idle" => editor.at \in Used
  /\ Fits(relay, nextId)

\* What holds as long as no call met the relay on a slot.
RelayAssocs ==
  /\ Owned(Live, slot, net)
  /\ Aims(relay, slot, count)
  /\ relay.pc = "store" => Settled(relay.at)
  /\ editor.pc = "edit" => slot[editor.at].assoc = Nil

\* The inductive invariant.
RelayInv == RelayTypes /\ (raced \/ RelayAssocs)

-----------------------------------------------------------------------------
(* UdpRelay: the relay thread *)

\* Closing keeps the type.
LEMMA ClosedNets ==
  ASSUME NEW nt \in Nets, NEW h
  PROVE  Closed(nt, h) \in Nets
<1>1. NoAssoc \in [to : Proxies \cup {Nil}, state : {"free", "open", "dead"}]
  BY DEF NoAssoc
<1> QED
  BY <1>1 DEF Nets, Closed

\* The slots in use are slots.
LEMMA SlotsFacts ==
  ASSUME RelayInv
  PROVE  /\ Used \subseteq Slots /\ Slots \subseteq Nat
         /\ Live \subseteq Used /\ count \in Nat /\ editor.at \in Nat
         /\ relay.at \in Nat /\ relay \in Threads
BY UdpRelayConstants DEF RelayInv, RelayTypes, Used, Slots, Live, Fits, Threads

\* A step that uses a slot which no call is at work on.
LEMMA Unstruck ==
  ASSUME RelayInv, NEW s \in Nat, RelayUses(s), ~raced'
  PROVE  /\ ~raced /\ RelayAssocs
         /\ Settled(s) /\ (s \in Used => s \in Live)
         /\ editor.pc = "edit" => s # editor.at
<1>1. /\ ~raced /\ ~(editor.pc = "edit" /\ s = editor.at)
      /\ ~(editor.pc = "delete" /\ s >= editor.at)
  BY DEF RelayUses
<1>2. editor.at \in Nat /\ editor.pc \in {"idle", "edit", "delete"}
  BY DEF RelayInv, RelayTypes
<1>3. Settled(s)
  BY <1>1, <1>2 DEF Settled
<1>4. s \in Used => s \in Live
  BY <1>1, <1>2 DEF Live
<1> QED
  BY <1>1, <1>3, <1>4 DEF RelayInv

\* What a step of the relay has to keep.
LEMMA RelayKeeps ==
  ASSUME RelayInv, NEW s \in Nat, RelayUses(s),
         slot' \in [Slots -> Configs], net' \in Nets, inbox' \in Fams \cup {Nil},
         Fits(relay', nextId),
         ~raced' => /\ Owned(Live, slot', net') /\ Aims(relay', slot', count)
                    /\ relay'.pc = "store" => Settled(relay'.at)
                    /\ editor.pc = "edit" => slot'[editor.at].assoc = Nil
  PROVE  RelayInv'
<1>1. /\ count' = count /\ nextId' = nextId /\ running' = running /\ editor' = editor
      /\ edits' = edits
  BY DEF RelayUses
<1>2. raced' \in BOOLEAN
  BY DEF RelayUses, RelayInv, RelayTypes
<1>3. Fits(relay, nextId)'
  BY <1>1
<1>4. Used' = Used /\ Live' = Live
  BY <1>1 DEF Used, Live
<1>5. RelayTypes'
  BY <1>1, <1>2, <1>3, <1>4 DEF RelayInv, RelayTypes
<1>6. ASSUME ~raced' PROVE RelayAssocs'
  <2>1. Owned(Live', slot', net') /\ Aims(relay', slot', count')
    BY <1>1, <1>4, <1>6
  <2>2. relay'.pc = "store" => Settled(relay.at)'
    BY <1>1, <1>6 DEF Settled
  <2>3. editor'.pc = "edit" => slot'[editor'.at].assoc = Nil
    BY <1>1, <1>6
  <2> QED
    BY <2>1, <2>2, <2>3 DEF RelayAssocs
<1> QED
  BY <1>5, <1>6 DEF RelayInv

\* One that leaves configurations and associations alone.
LEMMA RelayMoves ==
  ASSUME RelayInv, NEW s \in Nat, RelayUses(s),
         UNCHANGED <<slot, net>>, inbox' \in Fams \cup {Nil}, Fits(relay', nextId),
         ~raced' => Aims(relay', slot, count) /\ relay'.pc # "store"
  PROVE  RelayInv'
<1>1. /\ slot' = slot /\ net' = net /\ slot \in [Slots -> Configs] /\ net \in Nets
  BY DEF RelayInv, RelayTypes
<1>2. ASSUME ~raced'
      PROVE  /\ Owned(Live, slot', net') /\ Aims(relay', slot', count)
             /\ relay'.pc # "store" /\ (editor.pc = "edit" => slot'[editor.at].assoc = Nil)
  BY <1>1, <1>2, Unstruck DEF RelayAssocs
<1> QED
  BY <1>1, <1>2, RelayKeeps

\* It is at a loop's next slot, or waits, or has ended.
LEMMA LoopsFit ==
  ASSUME NEW pc \in {"init", "select", "reconnect", "control", "client", "replies", "client6", "ended"},
         NEW s \in Nat, NEW ids, NEW sl, NEW n
  PROVE  /\ Fits([Idle EXCEPT !.pc = pc, !.at = s], ids)
         /\ Aims([Idle EXCEPT !.pc = pc, !.at = s], sl, n)
         /\ [Idle EXCEPT !.pc = pc, !.at = s].pc # "store"
<1> DEFINE r == [Idle EXCEPT !.pc = pc, !.at = s]
<1>1. r \in Threads /\ r.pc = pc /\ r.dgram = Nil /\ pc \notin Pointing
  BY DEF Idle, Threads, Pointing
<1>2. Fits(r, ids) /\ Aims(r, sl, n) /\ r.pc # "store"
  BY <1>1 DEF Fits, Aims, Pointing, Carries
<1> QED
  BY <1>2

\* It waits in the main loop.
LEMMA IdleFits ==
  ASSUME NEW ids, NEW sl, NEW n
  PROVE  Fits(Idle, ids) /\ Aims(Idle, sl, n) /\ Idle.pc # "store"
<1>1. Idle \in Threads /\ Idle.pc = "select" /\ Idle.dgram = Nil
  BY DEF Idle, Threads
<1> QED
  BY <1>1 DEF Fits, Aims, Pointing, Carries

\* The identifiers and types of the slots, which only calls change.
SameNames(sl2) == \A s \in Used : sl2[s].id = slot[s].id /\ sl2[s].type = slot[s].type

\* Wherever an attempt to connect leads back to, the datagram goes with it.
LEMMA ReturnsFit ==
  ASSUME RelayInv, relay.pc \in {"guard", "store"},
         NEW ok \in BOOLEAN, Returns(ok), NEW sl2, SameNames(sl2)
  PROVE  /\ Fits(relay', nextId) /\ relay'.pc # "store"
         /\ ~raced => Aims(relay', sl2, count)
<1>1. CASE \E pc \in {"init", "reconnect", "control"} : relay' = [Idle EXCEPT !.pc = pc, !.at = relay.at + 1]
  <2>1. PICK pc \in {"init", "reconnect", "control"} :
          relay' = [Idle EXCEPT !.pc = pc, !.at = relay.at + 1]
    BY <1>1
  <2>2. relay.at + 1 \in Nat
    BY SlotsFacts
  <2>3. /\ Fits([Idle EXCEPT !.pc = pc, !.at = relay.at + 1], nextId)
        /\ Aims([Idle EXCEPT !.pc = pc, !.at = relay.at + 1], sl2, count)
        /\ [Idle EXCEPT !.pc = pc, !.at = relay.at + 1].pc # "store"
    BY <2>2, LoopsFit
  <2> QED
    BY <2>1, <2>3
<1>2. CASE relay' = Idle \/ relay' = [Idle EXCEPT !.pc = "replies", !.at = 1]
  <2>1. 1 \in Nat
    OBVIOUS
  <2>2. /\ Fits([Idle EXCEPT !.pc = "replies", !.at = 1], nextId)
        /\ Aims([Idle EXCEPT !.pc = "replies", !.at = 1], sl2, count)
        /\ [Idle EXCEPT !.pc = "replies", !.at = 1].pc # "store"
    BY <2>1, LoopsFit
  <2>3. Fits(Idle, nextId) /\ Aims(Idle, sl2, count) /\ Idle.pc # "store"
    BY IdleFits
  <2> QED
    BY <1>2, <2>2, <2>3
<1>3. CASE \E pc \in {"send", "send6"} :
             /\ relay.caller \in {"client", "client6"}
             /\ relay' = [Idle EXCEPT !.pc = pc, !.at = relay.at, !.dgram = relay.dgram]
  <2>1. PICK pc \in {"send", "send6"} :
          /\ relay.caller \in {"client", "client6"}
          /\ relay' = [Idle EXCEPT !.pc = pc, !.at = relay.at, !.dgram = relay.dgram]
    BY <1>3
  <2>2. Fits(relay, nextId) /\ relay.pc \in Pointing
    BY DEF RelayInv, RelayTypes, Pointing
  <2>3. relay' \in Threads /\ relay'.pc = pc /\ relay'.at = relay.at /\ relay'.dgram = relay.dgram
    BY <2>1, <2>2 DEF Idle, Threads, Fits
  <2>4. Fits(relay', nextId) /\ relay'.pc # "store"
    BY <2>1, <2>2, <2>3 DEF Fits, Pointing, Carries
  <2>5. ASSUME ~raced PROVE Aims(relay', sl2, count)
    <3>1. Aims(relay, slot, count)
      BY <2>5 DEF RelayInv, RelayAssocs
    <3>2. Carries(relay)
      BY <2>1 DEF Carries
    <3>3. relay.at \in Used /\ Named(slot, count, relay.at, relay.dgram)
      BY <2>2, <3>1, <3>2 DEF Aims, Used
    <3>4. Named(sl2, count, relay.at, relay.dgram)
      BY <3>3 DEF Named, SameNames, Used
    <3> QED
      BY <2>3, <3>3, <3>4 DEF Aims, Used
  <2> QED
    BY <2>4, <2>5
<1> QED
  BY <1>1, <1>2, <1>3 DEF Returns, Goto, Loop, Send, Resume

\* A refusal or a failure changes nothing but where the thread is.
LEMMA NoEstablishStep ==
  ASSUME RelayInv, EstablishRefused \/ EstablishFails
  PROVE  RelayInv'
<1>1. /\ relay.pc \in {"guard", "store"} /\ Returns(FALSE)
      /\ UNCHANGED <<slot, net>> /\ inbox' = inbox /\ RelayUses(relay.at)
  BY DEF EstablishRefused, EstablishFails
<1>2. SameNames(slot) /\ relay.at \in Nat /\ inbox' \in Fams \cup {Nil}
  BY <1>1, SlotsFacts DEF SameNames, RelayInv, RelayTypes
<1>3. Fits(relay', nextId) /\ relay'.pc # "store" /\ (~raced => Aims(relay', slot, count))
  BY <1>1, <1>2, ReturnsFit
<1>4. ~raced' => ~raced
  BY <1>1 DEF RelayUses
<1> QED
  BY <1>1, <1>2, <1>3, <1>4, RelayMoves

\* The attempt begins: the old association goes, the server's name is read.
LEMMA BeginsStep ==
  ASSUME RelayInv, EstablishBegins
  PROVE  RelayInv'
<1> DEFINE s == relay.at
<1>1. /\ relay.pc = "guard" /\ relay' = [relay EXCEPT !.pc = "store", !.to = slot[s].host]
      /\ net' = Closed(net, slot[s].assoc)
      /\ slot' = [slot EXCEPT ![s].wait = Guard, ![s].assoc = Nil]
      /\ inbox' = inbox /\ RelayUses(s) /\ slot[s].host # Nil
  BY DEF EstablishBegins
<1>2. /\ s \in Slots /\ s \in Nat /\ relay \in Threads /\ Fits(relay, nextId)
      /\ slot \in [Slots -> Configs] /\ slot[s] \in Configs /\ net \in Nets
      /\ inbox' \in Fams \cup {Nil}
  BY <1>1, SlotsFacts DEF RelayInv, RelayTypes, Fits, Pointing
<1>3. /\ slot'[s] = [slot[s] EXCEPT !.wait = Guard, !.assoc = Nil]
      /\ \A t \in Slots \ {s} : slot'[t] = slot[t]
  BY <1>1, <1>2 DEF Configs
<1>4. [slot[s] EXCEPT !.wait = Guard, !.assoc = Nil] \in Configs
  <2>1. Guard \in 0 .. Guard
    BY UdpRelayConstants
  <2> QED
    BY <1>2, <2>1 DEF Configs
<1>5. slot' \in [Slots -> Configs]
  BY <1>1, <1>2, <1>3, <1>4
<1>6. net' \in Nets
  BY <1>1, <1>2, ClosedNets
<1>7. /\ relay' \in Threads /\ relay'.pc = "store" /\ relay'.at = s /\ relay'.to = slot[s].host
      /\ relay'.dgram = relay.dgram /\ relay'.caller = relay.caller
  BY <1>1, <1>2 DEF Threads, Configs
<1>8. Fits(relay', nextId)
  BY <1>1, <1>2, <1>7 DEF Fits, Pointing, Carries
<1>9. /\ slot'[s].assoc = Nil /\ slot'[s].host = slot[s].host
      /\ \A t \in Slots : slot'[t].id = slot[t].id /\ slot'[t].type = slot[t].type
  BY <1>2, <1>3 DEF Configs
<1>10. ASSUME ~raced'
       PROVE  /\ Owned(Live, slot', net') /\ Aims(relay', slot', count)
              /\ Settled(relay'.at)
              /\ editor.pc = "edit" => slot'[editor.at].assoc = Nil
  <2>1. RelayAssocs /\ Settled(s) /\ (s \in Used => s \in Live)
        /\ (editor.pc = "edit" => s # editor.at)
    BY <1>1, <1>2, <1>10, Unstruck
  <2>2. s \in Used /\ s \in 1 .. count /\ (Carries(relay) => Named(slot, count, s, relay.dgram))
    BY <1>1, <2>1 DEF RelayAssocs, Aims, Pointing, Used
  <2>3. \A t \in Live \ {s} : SameSlot(slot'[t], slot[t])
    BY <1>3, SlotsFacts DEF SameSlot
  <2>4. Owned(Live, slot', net')
    BY <1>1, <1>2, <1>9, <2>1, <2>2, <2>3, OwnedClosed DEF RelayAssocs
  <2>5. Carries(relay) => Named(slot', count, s, relay.dgram)
    BY <1>9, <2>2, SlotsFacts DEF Named, Used
  <2>6. Aims(relay', slot', count)
    BY <1>1, <1>7, <1>9, <2>2, <2>5 DEF Aims, Carries
  <2>7. editor.pc = "edit" => slot'[editor.at].assoc = Nil
    <3>1. editor.pc = "edit" => editor.at \in Slots
      BY SlotsFacts DEF RelayInv, RelayTypes
    <3> QED
      BY <1>3, <2>1, <3>1 DEF RelayAssocs
  <2> QED
    BY <1>7, <2>1, <2>4, <2>6, <2>7
<1> QED
  BY <1>1, <1>2, <1>5, <1>6, <1>8, <1>10, RelayKeeps

\* The result goes into the slot that still names the server.
LEMMA SucceedsStep ==
  ASSUME RelayInv, EstablishSucceeds
  PROVE  RelayInv'
<1> DEFINE s == relay.at
<1>1. PICK h \in Handles :
        /\ relay.pc = "store" /\ Returns(TRUE) /\ inbox' = inbox /\ RelayUses(s)
        /\ net[h] = NoAssoc
        /\ net' = [net EXCEPT ![h] = [to |-> relay.to, state |-> "open"]]
        /\ slot' = [slot EXCEPT ![s].assoc = h, ![s].connected = TRUE]
  BY DEF EstablishSucceeds
<1>2. /\ s \in Slots /\ s \in Nat /\ relay \in Threads
      /\ slot \in [Slots -> Configs] /\ slot[s] \in Configs /\ net \in Nets
      /\ inbox' \in Fams \cup {Nil}
  BY <1>1, SlotsFacts DEF RelayInv, RelayTypes, Fits, Pointing
<1>3. /\ slot'[s] = [slot[s] EXCEPT !.assoc = h, !.connected = TRUE]
      /\ \A t \in Slots \ {s} : slot'[t] = slot[t]
  BY <1>1, <1>2 DEF Configs
<1>4. [slot[s] EXCEPT !.assoc = h, !.connected = TRUE] \in Configs
  BY <1>2 DEF Configs
<1>5. slot' \in [Slots -> Configs]
  BY <1>1, <1>2, <1>3, <1>4
<1>6. net' \in Nets
  <2>1. [to |-> relay.to, state |-> "open"] \in [to : Proxies \cup {Nil}, state : {"free", "open", "dead"}]
    BY <1>2 DEF Threads
  <2> QED
    BY <1>1, <1>2, <2>1 DEF Nets
<1>7. /\ slot'[s].assoc = h /\ slot'[s].connected /\ slot'[s].host = slot[s].host
      /\ \A t \in Slots : slot'[t].id = slot[t].id /\ slot'[t].type = slot[t].type
  <2>1. /\ slot'[s].assoc = h /\ slot'[s].connected = TRUE /\ slot'[s].host = slot[s].host
        /\ slot'[s].id = slot[s].id /\ slot'[s].type = slot[s].type
    BY <1>2, <1>3 DEF Configs
  <2> QED
    BY <1>3, <2>1
<1>8. SameNames(slot')
  BY <1>7, SlotsFacts DEF SameNames
<1>9. Fits(relay', nextId) /\ relay'.pc # "store" /\ (~raced => Aims(relay', slot', count))
  BY <1>1, <1>8, ReturnsFit
<1>10. ASSUME ~raced'
       PROVE  /\ Owned(Live, slot', net') /\ Aims(relay', slot', count)
              /\ editor.pc = "edit" => slot'[editor.at].assoc = Nil
  <2>1. ~raced /\ RelayAssocs /\ (s \in Used => s \in Live)
        /\ (editor.pc = "edit" => s # editor.at)
    BY <1>1, <1>2, <1>10, Unstruck
  <2>2. s \in Live /\ slot[s].assoc = Nil /\ slot[s].host = relay.to
    BY <1>1, <2>1 DEF RelayAssocs, Aims, Pointing, Used
  <2>3. \A t \in Live \ {s} : SameSlot(slot'[t], slot[t])
    BY <1>3, SlotsFacts DEF SameSlot
  <2>4. /\ net'[h].state # "free" /\ net'[h].to = slot'[s].host
        /\ \A g \in Handles \ {h} : net'[g] = net[g]
    BY <1>1, <1>2, <1>7, <2>2 DEF Nets
  <2>5. Owned(Live, slot, net)
    BY <2>1 DEF RelayAssocs
  <2>6. Owned(Live, slot', net')
    <3>1. net \in Nets /\ net[h] = NoAssoc /\ s \in Live /\ slot[s].assoc = Nil
      BY <1>1, <1>2, <2>2
    <3>2. slot'[s].assoc = h /\ slot'[s].connected
      BY <1>7
    <3> HIDE DEF s
    <3> QED
      BY <2>3, <2>4, <2>5, <3>1, <3>2, OwnedNew
  <2>7. editor.pc = "edit" => slot'[editor.at].assoc = Nil
    <3>1. editor.pc = "edit" => editor.at \in Slots
      BY SlotsFacts DEF RelayInv, RelayTypes
    <3> QED
      BY <1>3, <2>1, <3>1 DEF RelayAssocs
  <2> QED
    BY <1>9, <2>1, <2>6, <2>7
<1> QED
  BY <1>1, <1>2, <1>5, <1>6, <1>9, <1>10, RelayKeeps

\* Closing the association of a slot.
LEMMA DisconnectFacts ==
  ASSUME RelayInv, NEW s \in Slots, Disconnect(s),
         RelayUses(s)
  PROVE  /\ slot' \in [Slots -> Configs] /\ net' \in Nets /\ SameNames(slot')
         /\ ~raced' => (editor.pc = "edit" => slot'[editor.at].assoc = Nil)
         /\ ~raced' /\ s \in Used => Owned(Live, slot', net')
<1>1. /\ net' = Closed(net, slot[s].assoc)
      /\ slot' = [slot EXCEPT ![s].assoc = Nil, ![s].connected = FALSE]
  BY DEF Disconnect
<1>2. /\ slot \in [Slots -> Configs] /\ slot[s] \in Configs /\ net \in Nets /\ s \in Nat
  BY SlotsFacts DEF RelayInv, RelayTypes
<1>3. /\ slot'[s] = [slot[s] EXCEPT !.assoc = Nil, !.connected = FALSE]
      /\ \A t \in Slots \ {s} : slot'[t] = slot[t]
  BY <1>1, <1>2 DEF Configs
<1>4. [slot[s] EXCEPT !.assoc = Nil, !.connected = FALSE] \in Configs
  BY <1>2 DEF Configs
<1>5. slot' \in [Slots -> Configs]
  BY <1>1, <1>2, <1>3, <1>4
<1>6. net' \in Nets
  BY <1>1, <1>2, ClosedNets
<1>7. /\ slot'[s].assoc = Nil
      /\ \A t \in Slots : slot'[t].id = slot[t].id /\ slot'[t].type = slot[t].type
  BY <1>2, <1>3 DEF Configs
<1>8. SameNames(slot')
  BY <1>7, SlotsFacts DEF SameNames
<1>9. ASSUME ~raced', editor.pc = "edit" PROVE slot'[editor.at].assoc = Nil
  <2>1. RelayAssocs /\ editor.at \in Slots
    BY <1>2, <1>9, Unstruck, SlotsFacts DEF RelayInv, RelayTypes
  <2> QED
    BY <1>3, <1>7, <1>9, <2>1 DEF RelayAssocs
<1>10. ASSUME ~raced', s \in Used PROVE Owned(Live, slot', net')
  <2>1. s \in Live /\ Owned(Live, slot, net)
    BY <1>2, <1>10, Unstruck DEF RelayAssocs
  <2>2. \A t \in Live \ {s} : SameSlot(slot'[t], slot[t])
    BY <1>3, SlotsFacts DEF SameSlot
  <2> QED
    BY <1>1, <1>2, <1>7, <2>1, <2>2, OwnedClosed
<1> QED
  BY <1>5, <1>6, <1>8, <1>9, <1>10

\* The loops take the next slot.
LEMMA LeastSlot ==
  ASSUME NEW T, T \subseteq Nat, T # {}
  PROVE  Min(T) \in T
<1>1. PICK x \in T : \A y \in T : ~(<<y, x>> \in OpToRel(<, Nat))
  BY NatLessThanWellFounded, WFMin, Zenon
<1>2. ASSUME NEW y \in T PROVE x <= y
  <2>1. y \in Nat /\ x \in Nat
    OBVIOUS
  <2>2. ~(y < x)
    BY <1>1, <2>1 DEF OpToRel
  <2> QED
    BY <2>1, <2>2
<1> QED
  BY <1>2 DEF Min

\* Going to a loop's next place.
LEMMA GotoStep ==
  ASSUME RelayInv, NEW s \in Nat, RelayUses(s),
         UNCHANGED <<slot, net>>, inbox' \in Fams \cup {Nil},
         \/ relay' = Idle
         \/ \E pc \in {"select", "reconnect", "control", "client", "replies", "client6"}, at \in Nat :
              relay' = [Idle EXCEPT !.pc = pc, !.at = at]
  PROVE  RelayInv'
<1>1. Fits(relay', nextId) /\ Aims(relay', slot, count) /\ relay'.pc # "store"
  <2>1. CASE relay' = Idle
    BY <2>1, IdleFits
  <2>2. ASSUME NEW pc \in {"select", "reconnect", "control", "client", "replies", "client6"},
               NEW at \in Nat, relay' = [Idle EXCEPT !.pc = pc, !.at = at]
        PROVE  Fits(relay', nextId) /\ Aims(relay', slot, count) /\ relay'.pc # "store"
    BY <2>2, LoopsFit
  <2> QED
    BY <2>1, <2>2
<1> QED
  BY <1>1, RelayMoves

\* A loop turns to a slot that needs a connection.
LEMMA TurnFits ==
  ASSUME RelayInv, NEW s \in Used,
         NEW caller \in {"init", "reconnect", "control"}, Establish(caller, s), NEW sl
  PROVE  Fits(relay', nextId) /\ Aims(relay', sl, count) /\ relay'.pc = "guard"
<1>1. /\ relay' = [relay EXCEPT !.pc = "guard", !.at = s, !.caller = caller]
      /\ relay \in Threads /\ s \in Slots /\ s \in Nat /\ s \in 1 .. count
  BY SlotsFacts DEF Establish, RelayInv, RelayTypes, Fits, Used
<1>2. /\ relay' \in Threads /\ relay'.pc = "guard" /\ relay'.at = s
      /\ relay'.caller = caller
  BY <1>1 DEF Threads
<1> QED
  BY <1>1, <1>2 DEF Fits, Aims, Pointing, Carries

\* The loop over the configurations that have no association.
LEMMA ReconnectStep ==
  ASSUME RelayInv, Reconnect
  PROVE  RelayInv'
<1> DEFINE due == {s \in Used : slot[s].type = "SOCKS5" /\ (relay.pc = "init" \/ ~slot[s].connected)}
           left == {s \in due : s >= relay.at}
           m == Min(left)
<1>1. /\ relay.pc \in {"init", "reconnect"} /\ inbox' = inbox
      /\ \/ left # {} /\ Establish(relay.pc, m) /\ UNCHANGED <<slot, net>> /\ RelayUses(m)
         \/ Loop /\ UNCHANGED <<slot, net>> /\ RelayUses(0)
  BY DEF Reconnect, Scan
<1>2. inbox' \in Fams \cup {Nil}
  BY <1>1 DEF RelayInv, RelayTypes
<1>3. CASE left # {} /\ Establish(relay.pc, m) /\ UNCHANGED <<slot, net>> /\ RelayUses(m)
  <2>1. left \subseteq Used /\ left \subseteq Nat
    BY SlotsFacts
  <2> HIDE DEF left
  <2>2. m \in Used /\ m \in Nat
    BY <1>3, <2>1, LeastSlot
  <2> HIDE DEF m
  <2>3. Fits(relay', nextId) /\ Aims(relay', slot, count) /\ relay'.pc = "guard"
    BY <1>1, <1>3, <2>2, TurnFits DEF Pointing
  <2> QED
    BY <1>2, <1>3, <2>2, <2>3, RelayMoves
<1>4. CASE Loop /\ UNCHANGED <<slot, net>> /\ RelayUses(0)
  BY <1>2, <1>4, GotoStep DEF Loop
<1> QED
  BY <1>1, <1>3, <1>4

\* What select returns.
LEMMA SelectStep ==
  ASSUME RelayInv, SelectTimeout \/ SelectReturns
  PROVE  RelayInv'
<1>1. /\ inbox' = inbox /\ UNCHANGED <<slot, net>> /\ RelayUses(0)
      /\ \E pc \in {"reconnect", "control"} : relay' = [Idle EXCEPT !.pc = pc, !.at = 1]
  BY DEF SelectTimeout, SelectReturns, Goto
<1>2. inbox' \in Fams \cup {Nil} /\ 0 \in Nat /\ 1 \in Nat
  BY <1>1 DEF RelayInv, RelayTypes
<1> QED
  BY <1>1, <1>2, GotoStep

\* The loop over the control connections.
LEMMA ControlStep ==
  ASSUME RelayInv, Control
  PROVE  RelayInv'
<1> DEFINE left == {s \in {u \in Used : Held(u) = "dead"} : s >= relay.at}
           m == Min(left)
<1>1. /\ relay.pc = "control" /\ inbox' = inbox
      /\ \/ left # {} /\ Disconnect(m) /\ Establish("control", m) /\ RelayUses(m)
         \/ Goto("client", 0) /\ UNCHANGED <<slot, net>> /\ RelayUses(0)
  BY DEF Control, Scan
<1>2. inbox' \in Fams \cup {Nil}
  BY <1>1 DEF RelayInv, RelayTypes
<1>3. CASE left # {} /\ Disconnect(m) /\ Establish("control", m) /\ RelayUses(m)
  <2>1. left \subseteq Used /\ left \subseteq Nat
    BY SlotsFacts
  <2> HIDE DEF left
  <2>2. m \in Used /\ m \in Slots /\ m \in Nat
    BY <1>3, <2>1, LeastSlot, SlotsFacts
  <2> HIDE DEF m
  <2>3. Fits(relay', nextId) /\ Aims(relay', slot', count) /\ relay'.pc = "guard"
    BY <1>1, <1>3, <2>2, TurnFits DEF Pointing
  <2>4. /\ slot' \in [Slots -> Configs] /\ net' \in Nets
        /\ ~raced' => (editor.pc = "edit" => slot'[editor.at].assoc = Nil)
        /\ ~raced' => Owned(Live, slot', net')
    BY <1>3, <2>2, DisconnectFacts
  <2> QED
    BY <1>2, <1>3, <2>2, <2>3, <2>4, RelayKeeps
<1>4. CASE Goto("client", 0) /\ UNCHANGED <<slot, net>> /\ RelayUses(0)
  BY <1>2, <1>4, GotoStep DEF Goto
<1> QED
  BY <1>1, <1>3, <1>4

\* The slot found for a datagram is the right one.
LEMMA FoundFits ==
  ASSUME RelayInv, NEW id \in 1 .. nextId - 1, NEW s,
         s = find_udp_proxy_config(id), s # 0,
         NEW pc \in {"send", "send6", "guard"}, NEW caller \in {"client", "client6", "init"},
         relay' = [pc |-> pc, at |-> s, caller |-> caller, dgram |-> id, to |-> Nil]
  PROVE  Fits(relay', nextId) /\ Aims(relay', slot, count) /\ relay'.pc # "store"
<1> DEFINE exact == {u \in Used : slot[u].id = id}
           socks == {u \in Used : slot[u].type = "SOCKS5"}
<1>1. exact \subseteq Nat /\ socks \subseteq Nat
  BY SlotsFacts
<1>2. s = IF exact # {} THEN Min(exact) ELSE Min(socks)
  BY DEF find_udp_proxy_config
<1>3. exact # {} => s \in exact
  BY <1>1, <1>2, LeastSlot
<1>4. exact = {} => socks # {} /\ s \in socks
  <2>1. exact = {} => socks # {}
    BY DEF find_udp_proxy_config
  <2> QED
    BY <1>1, <1>2, <2>1, LeastSlot
<1>5. s \in Used /\ Named(slot, count, s, id)
  BY <1>3, <1>4 DEF Named, Used
<1>6. s \in Slots /\ s \in Nat /\ s \in 1 .. count
  BY <1>5, SlotsFacts DEF Used
<1>7. id \in Ids
  <2>1. nextId \in 2 .. edits + 2 /\ edits \in 0 .. MaxEdits /\ MaxEdits \in Nat
    BY UdpRelayConstants DEF RelayInv, RelayTypes
  <2>2. id \in 1 .. 1 + MaxEdits
    BY <2>1
  <2> QED
    BY <2>2 DEF Ids
<1>8. /\ relay' \in Threads /\ relay'.pc = pc /\ relay'.at = s /\ relay'.dgram = id
      /\ relay'.caller = caller
  BY <1>6, <1>7 DEF Threads
<1> QED
  BY <1>5, <1>6, <1>7, <1>8 DEF Fits, Aims, Pointing, Carries

\* A datagram is taken up, or nothing is there.
LEMMA TakeStep ==
  ASSUME RelayInv, TakeV4 \/ TakeV6
  PROVE  RelayInv'
<1>1. UNCHANGED <<slot, net>> /\ RelayUses(0) /\ 0 \in Nat /\ 1 \in Nat
  BY DEF TakeV4, TakeV6, Take
<1>2. inbox' \in Fams \cup {Nil}
  BY DEF TakeV4, TakeV6, Take, RelayInv, RelayTypes
<1>3. CASE Loop \/ Resume
  BY <1>1, <1>2, <1>3, GotoStep DEF Loop, Resume
<1>4. ASSUME NEW id \in 1 .. nextId - 1, find_udp_proxy_config(id) # 0,
             NEW pc \in {"send", "send6", "guard"}, NEW caller \in {"client", "client6", "init"},
             relay' = [pc |-> pc, at |-> find_udp_proxy_config(id), caller |-> caller,
                       dgram |-> id, to |-> Nil]
      PROVE  RelayInv'
  <2>1. Fits(relay', nextId) /\ Aims(relay', slot, count) /\ relay'.pc # "store"
    BY <1>4, FoundFits
  <2> QED
    BY <1>1, <1>2, <2>1, RelayMoves
<1>5. ASSUME NEW f, NEW none, NEW pc \in {"send", "send6"}, NEW caller \in {"client", "client6"},
             Take(f, caller, pc, none), ~none
      PROVE  RelayInv'
  <2> SUFFICES ASSUME ~Loop PROVE RelayInv'
    BY <1>3
  <2>1. PICK id \in 1 .. nextId - 1 :
          LET s == find_udp_proxy_config(id)
          IN  \/ Loop
              \/ /\ s # 0
                 /\ \/ relay' = [Idle EXCEPT !.pc = pc, !.at = s, !.dgram = id]
                    \/ relay' = [Idle EXCEPT !.pc = "guard", !.at = s, !.dgram = id,
                                                   !.caller = caller]
    BY <1>5 DEF Take
  <2> DEFINE s == find_udp_proxy_config(id)
  <2>2. CASE s # 0 /\ relay' = [Idle EXCEPT !.pc = pc, !.at = s, !.dgram = id]
    <3>1. relay' = [pc |-> pc, at |-> s, caller |-> "init", dgram |-> id, to |-> Nil]
      BY <2>2 DEF Idle
    <3> QED
      BY <1>4, <2>2, <3>1
  <2>3. CASE s # 0 /\ relay' = [Idle EXCEPT !.pc = "guard", !.at = s, !.dgram = id,
                                                  !.caller = caller]
    <3>1. relay' = [pc |-> "guard", at |-> s, caller |-> caller, dgram |-> id, to |-> Nil]
      BY <2>3 DEF Idle
    <3> QED
      BY <1>4, <2>3, <3>1
  <2> QED
    BY <1>3, <2>1, <2>2, <2>3
<1>6. CASE TakeV4
  BY <1>3, <1>5, <1>6 DEF TakeV4
<1>7. CASE TakeV6
  BY <1>3, <1>5, <1>7 DEF TakeV6
<1> QED
  BY <1>6, <1>7

\* The datagram is sent, or its association given up and asked for again.
LEMMA SendStep ==
  ASSUME RelayInv, SendV4 \/ SendV6
  PROVE  RelayInv'
<1> DEFINE s == relay.at
<1>1. /\ relay.pc \in {"send", "send6"} /\ inbox' = inbox /\ RelayUses(s)
      /\ \/ (Resume \/ Loop) /\ UNCHANGED <<slot, net>>
         \/ Disconnect(s) /\ Establish("resend", s)
  BY DEF SendV4, SendV6
<1>2. /\ s \in Slots /\ s \in Nat /\ 1 \in Nat /\ relay \in Threads
      /\ inbox' \in Fams \cup {Nil}
  BY <1>1, SlotsFacts DEF RelayInv, RelayTypes, Fits, Pointing
<1>3. CASE (Resume \/ Loop) /\ UNCHANGED <<slot, net>>
  BY <1>1, <1>2, <1>3, GotoStep DEF Loop, Resume
<1>4. CASE Disconnect(s) /\ Establish("resend", s)
  <2>1. relay' = [relay EXCEPT !.pc = "guard", !.at = s, !.caller = "resend"]
    BY <1>4 DEF Establish
  <2>2. relay' \in Threads /\ relay'.pc = "guard" /\ relay'.at = s /\ relay'.caller = "resend"
    BY <1>2, <2>1 DEF Threads
  <2>3. Fits(relay', nextId)
    BY <1>2, <2>2 DEF Fits, Carries
  <2>4. /\ slot' \in [Slots -> Configs] /\ net' \in Nets
        /\ ~raced' => (editor.pc = "edit" => slot'[editor.at].assoc = Nil)
        /\ ~raced' /\ s \in Used => Owned(Live, slot', net')
    BY <1>1, <1>2, <1>4, DisconnectFacts
  <2>5. ASSUME ~raced' PROVE s \in Used /\ Aims(relay', slot', count)
    <3>1. Aims(relay, slot, count)
      BY <1>1, <1>2, <2>5, Unstruck DEF RelayAssocs
    <3>2. s \in 1 .. count
      BY <1>1, <3>1 DEF Aims, Pointing
    <3> QED
      BY <2>2, <3>2 DEF Aims, Carries, Used
  <2> QED
    BY <1>1, <1>2, <2>2, <2>3, <2>4, <2>5, RelayKeeps
<1> QED
  BY <1>1, <1>3, <1>4

\* An error on one association costs that one.
LEMMA RepliesStep ==
  ASSUME RelayInv, Replies
  PROVE  RelayInv'
<1>1. inbox' \in Fams \cup {Nil} /\ 0 \in Nat
  BY DEF Replies, RelayInv, RelayTypes
<1>2. CASE Goto("client6", 0) /\ UNCHANGED <<slot, net>> /\ RelayUses(0)
  BY <1>1, <1>2, GotoStep DEF Goto
<1>3. ASSUME NEW s \in Used, Disconnect(s), Goto("replies", s + 1),
             RelayUses(s)
      PROVE  RelayInv'
  <2>1. s \in Slots /\ s \in Nat /\ s + 1 \in Nat
    BY SlotsFacts
  <2>2. Fits(relay', nextId) /\ Aims(relay', slot', count) /\ relay'.pc # "store"
    BY <1>3, <2>1, LoopsFit DEF Goto
  <2>3. /\ slot' \in [Slots -> Configs] /\ net' \in Nets
        /\ ~raced' => (editor.pc = "edit" => slot'[editor.at].assoc = Nil)
        /\ ~raced' => Owned(Live, slot', net')
    BY <1>3, <2>1, DisconnectFacts
  <2> QED
    BY <1>1, <1>3, <2>1, <2>2, <2>3, RelayKeeps
<1> QED
  BY <1>2, <1>3 DEF Replies

\* At its end the thread closes everything.
LEMMA EndsStep ==
  ASSUME RelayInv, RelayEnds
  PROVE  RelayInv'
<1>1. /\ net' = [h \in Handles |-> IF \E s \in Used : slot[s].assoc = h THEN NoAssoc ELSE net[h]]
      /\ slot' = [s \in Slots |->
                    IF s \in Used THEN [slot[s] EXCEPT !.assoc = Nil, !.connected = FALSE]
                    ELSE slot[s]]
      /\ relay' = [Idle EXCEPT !.pc = "ended", !.at = 0]
      /\ inbox' = inbox /\ RelayUses(count)
  BY DEF RelayEnds, Goto
<1>2. /\ slot \in [Slots -> Configs] /\ net \in Nets /\ count \in Nat /\ 0 \in Nat
      /\ Live \subseteq Used /\ Used \subseteq Slots
      /\ inbox' \in Fams \cup {Nil}
  BY <1>1, SlotsFacts DEF RelayInv, RelayTypes
<1>3. \A s \in Slots : [slot[s] EXCEPT !.assoc = Nil, !.connected = FALSE] \in Configs
  BY <1>2 DEF Configs
<1>4. slot' \in [Slots -> Configs]
  BY <1>1, <1>2, <1>3
<1>5. net' \in Nets
  BY <1>1, <1>2 DEF Nets, NoAssoc
<1>6. Fits(relay', nextId) /\ Aims(relay', slot', count) /\ relay'.pc # "store"
  BY <1>1, <1>2, LoopsFit
<1>7. \A s \in Used : slot'[s].assoc = Nil
  BY <1>1, <1>2 DEF Configs
<1>8. ASSUME ~raced'
      PROVE  Owned(Live, slot', net') /\ (editor.pc = "edit" => slot'[editor.at].assoc = Nil)
  <2>1. Owned(Live, slot, net)
    BY <1>1, <1>2, <1>8, Unstruck DEF RelayAssocs
  <2>2. \A h \in Handles : net'[h] = NoAssoc
    BY <1>1, <1>2, <2>1 DEF Owned
  <2>3. Owned(Live, slot', net')
    BY <1>2, <1>7, <2>2 DEF Owned
  <2>4. editor.pc = "edit" => editor.at \in Used
    BY DEF RelayInv, RelayTypes
  <2> QED
    BY <1>7, <2>3, <2>4
<1> QED
  BY <1>1, <1>2, <1>4, <1>5, <1>6, <1>8, RelayKeeps

-----------------------------------------------------------------------------
(* UdpRelay: the calls, and what happens outside *)

\* A call that meets the relay on none of the slots it changes or moves.
LEMMA Untouched ==
  ASSUME RelayInv, NEW T, Touches(T), ~raced'
  PROVE  ~raced /\ RelayAssocs /\ (relay.pc \in Pointing => relay.at \notin T)
BY DEF Touches, RelayInv, Pointing

\* The history variable is a truth value.
LEMMA TouchesType ==
  ASSUME RelayInv, NEW T, Touches(T)
  PROVE  raced' \in BOOLEAN
BY DEF Touches, RelayInv, RelayTypes

\* A new configuration has an identifier that no datagram names yet.
LEMMA AddConfigStep ==
  ASSUME RelayInv, AddProxyConfig
  PROVE  RelayInv'
<1> DEFINE n == count + 1
<1>1. PICK t \in Types, p \in Proxies : slot' = [slot EXCEPT ![n] = Config(nextId, t, p)]
  BY DEF AddProxyConfig
<1>2. /\ editor.pc = "idle" /\ edits < MaxEdits /\ count < MaxConfigs
      /\ count' = n /\ nextId' = nextId + 1 /\ edits' = edits + 1
      /\ Touches({n}) /\ net' = net /\ editor' = editor
      /\ running' = running /\ relay' = relay /\ inbox' = inbox
  BY DEF AddProxyConfig, EditorFrame
<1>3. /\ slot \in [Slots -> Configs] /\ count \in 0 .. MaxConfigs /\ MaxConfigs \in Nat
      /\ edits \in 0 .. MaxEdits /\ MaxEdits \in Nat /\ nextId \in 2 .. edits + 2
      /\ Fits(relay, nextId)
  BY UdpRelayConstants DEF RelayInv, RelayTypes
<1>4. n \in Slots /\ n \in Nat /\ nextId \in Ids
  BY <1>2, <1>3 DEF Slots, Ids
<1>5. Config(nextId, t, p) \in Configs
  <2>1. 0 \in 0 .. Guard
    BY UdpRelayConstants
  <2> QED
    BY <1>4, <2>1 DEF Config, Configs
<1>6. /\ slot' \in [Slots -> Configs] /\ slot'[n] = Config(nextId, t, p)
      /\ \A s \in Slots \ {n} : slot'[s] = slot[s]
  BY <1>1, <1>3, <1>4, <1>5
<1>7. Fits(relay', nextId')
  BY <1>2, <1>3 DEF Fits
<1>8. RelayTypes'
  <2>1. count' \in 0 .. MaxConfigs /\ edits' \in 0 .. MaxEdits /\ nextId' \in 2 .. edits' + 2
    BY <1>2, <1>3
  <2> QED
    BY <1>2, <1>6, <1>7, <2>1, TouchesType DEF RelayInv, RelayTypes
<1>9. ASSUME ~raced' PROVE RelayAssocs'
  <2>1. RelayAssocs
    BY <1>2, <1>9, Untouched
  <2>2. Live = 1 .. count /\ Live' = 1 .. n
    BY <1>2 DEF Live, Used
  <2>3. Live \subseteq Live' /\ Live' \ Live = {n} /\ n \notin Live /\ Live \subseteq Slots
    BY <1>3, <1>4, <2>2 DEF Slots
  <2>4. \A s \in Live : slot'[s] = slot[s]
    BY <1>6, <2>3
  <2>5. slot'[n].assoc = Nil /\ slot'[n].id = nextId
    BY <1>6 DEF Config
  <2>6. Owned(Live', slot', net)
    <3>1. \A s \in Live : SameSlot(slot'[s], slot[s])
      BY <2>4 DEF SameSlot
    <3>2. \A s \in Live' \ Live : slot'[s].assoc = Nil
      BY <2>3, <2>5
    <3> QED
      BY <2>1, <2>3, <3>1, <3>2, OwnedSame DEF RelayAssocs
  <2>7. Aims(relay, slot', n)
    <3> SUFFICES ASSUME relay.pc \in Pointing PROVE Aims(relay, slot', n)
      BY DEF Aims
    <3>1. /\ relay.at \in Live /\ relay.at \in 1 .. n /\ slot'[relay.at] = slot[relay.at]
          /\ relay.pc = "store" => slot[relay.at].assoc = Nil /\ slot[relay.at].host = relay.to
          /\ Carries(relay) => Named(slot, count, relay.at, relay.dgram)
      BY <2>1, <2>2, <2>3, <2>4 DEF RelayAssocs, Aims
    <3>2. ASSUME Carries(relay) PROVE Named(slot', n, relay.at, relay.dgram)
      <4>1. relay.dgram # nextId
        BY <1>3, <3>2 DEF Fits
      <4>2. \A s \in 1 .. n : s = n \/ s \in Live
        BY <2>2, <2>3
      <4> QED
        BY <2>2, <2>4, <2>5, <3>1, <3>2, <4>1, <4>2 DEF Named
    <3> QED
      BY <3>1, <3>2 DEF Aims
  <2> QED
    BY <1>2, <2>6, <2>7 DEF RelayAssocs, Settled
<1> QED
  BY <1>8, <1>9 DEF RelayInv

\* Editing gives the slot's association up first.
LEMMA EditConfigStep ==
  ASSUME RelayInv, EditProxyConfig
  PROVE  RelayInv'
<1>1. PICK s \in Used :
        /\ net' = Closed(net, slot[s].assoc)
        /\ slot' = [slot EXCEPT ![s].assoc = Nil, ![s].connected = FALSE]
        /\ editor' = [pc |-> "edit", at |-> s]
        /\ Touches({s})
  BY DEF EditProxyConfig
<1>2. /\ editor.pc = "idle" /\ edits < MaxEdits /\ edits' = edits + 1
      /\ count' = count /\ nextId' = nextId
      /\ running' = running /\ relay' = relay /\ inbox' = inbox
  BY DEF EditProxyConfig, EditorFrame
<1>3. /\ slot \in [Slots -> Configs] /\ slot[s] \in Configs /\ net \in Nets
      /\ edits \in 0 .. MaxEdits /\ MaxEdits \in Nat /\ nextId \in 2 .. edits + 2
      /\ Fits(relay, nextId) /\ s \in Slots /\ s \in Nat
  BY SlotsFacts, UdpRelayConstants DEF RelayInv, RelayTypes
<1>4. /\ slot'[s] = [slot[s] EXCEPT !.assoc = Nil, !.connected = FALSE]
      /\ \A t \in Slots \ {s} : slot'[t] = slot[t]
  BY <1>1, <1>3 DEF Configs
<1>5. [slot[s] EXCEPT !.assoc = Nil, !.connected = FALSE] \in Configs
  BY <1>3 DEF Configs
<1>6. slot' \in [Slots -> Configs]
  BY <1>1, <1>3, <1>4, <1>5
<1>7. net' \in Nets
  BY <1>1, <1>3, ClosedNets
<1>8. Used' = Used /\ Live = Used /\ Live' = Used /\ editor'.at = s /\ editor'.pc = "edit"
  BY <1>1, <1>2 DEF Used, Live
<1>9. RelayTypes'
  <2>1. edits' \in 0 .. MaxEdits /\ nextId' \in 2 .. edits' + 2 /\ Fits(relay', nextId')
    BY <1>2, <1>3
  <2>2. editor' \in [pc : {"idle", "edit", "delete"}, at : Nat]
    BY <1>1, <1>3
  <2> QED
    BY <1>1, <1>2, <1>6, <1>7, <1>8, <2>1, <2>2, TouchesType DEF RelayInv, RelayTypes
<1>10. ASSUME ~raced' PROVE RelayAssocs'
  <2>1. RelayAssocs /\ (relay.pc \in Pointing => relay.at # s)
    BY <1>1, <1>10, Untouched
  <2>2. slot'[s].assoc = Nil
    BY <1>3, <1>4 DEF Configs
  <2>3. Owned(Live', slot', net')
    <3>1. \A t \in Used \ {s} : SameSlot(slot'[t], slot[t])
      BY <1>4, SlotsFacts DEF SameSlot
    <3>2. Owned(Used, slot, net)
      BY <1>8, <2>1 DEF RelayAssocs
    <3>3. Owned(Used, slot', net')
      BY <1>1, <1>3, <2>2, <3>1, <3>2, OwnedClosed
    <3> QED
      BY <1>8, <3>3
  <2>4. \A t \in Used : slot'[t].id = slot[t].id /\ slot'[t].type = slot[t].type
    <3>1. slot'[s].id = slot[s].id /\ slot'[s].type = slot[s].type
      BY <1>3, <1>4 DEF Configs
    <3> QED
      BY <1>4, <3>1, SlotsFacts
  <2>5. Aims(relay, slot', count)
    <3> SUFFICES ASSUME relay.pc \in Pointing PROVE Aims(relay, slot', count)
      BY DEF Aims
    <3>1. /\ relay.at \in Used /\ relay.at \in 1 .. count /\ slot'[relay.at] = slot[relay.at]
          /\ relay.pc = "store" => slot[relay.at].assoc = Nil /\ slot[relay.at].host = relay.to
          /\ Carries(relay) => Named(slot, count, relay.at, relay.dgram)
      BY <1>4, <2>1, SlotsFacts DEF RelayAssocs, Aims, Used
    <3>2. Carries(relay) => Named(slot', count, relay.at, relay.dgram)
      BY <2>4, <3>1 DEF Named, Used
    <3> QED
      BY <3>1, <3>2 DEF Aims
  <2>6. relay'.pc = "store" => Settled(relay.at)'
    <3>1. relay.pc = "store" => relay.at # s /\ relay.at \in Nat
      BY <2>1, SlotsFacts DEF Pointing
    <3> QED
      BY <1>2, <1>3, <1>8, <3>1 DEF Settled
  <2> QED
    BY <1>2, <1>8, <2>2, <2>3, <2>5, <2>6 DEF RelayAssocs
<1> QED
  BY <1>9, <1>10 DEF RelayInv

\* Then it writes the slot, which has none.
LEMMA EditWritesStep ==
  ASSUME RelayInv, EditWrites
  PROVE  RelayInv'
<1> DEFINE s == editor.at
<1>1. PICK t \in Types, p \in Proxies :
        slot' = [slot EXCEPT ![s].type = t, ![s].host = p]
  BY DEF EditWrites
<1>2. /\ editor.pc = "edit" /\ editor' = [pc |-> "idle", at |-> 0] /\ Touches({s})
      /\ net' = net /\ count' = count /\ nextId' = nextId /\ edits' = edits
      /\ running' = running /\ relay' = relay /\ inbox' = inbox
  BY DEF EditWrites, EditorFrame
<1>3. /\ slot \in [Slots -> Configs] /\ slot[s] \in Configs
      /\ s \in Slots /\ s \in Used
  BY <1>2, SlotsFacts DEF RelayInv, RelayTypes
<1>4. /\ slot'[s] = [slot[s] EXCEPT !.type = t, !.host = p]
      /\ \A u \in Slots \ {s} : slot'[u] = slot[u]
  BY <1>1, <1>3 DEF Configs
<1>5. [slot[s] EXCEPT !.type = t, !.host = p] \in Configs
  BY <1>3 DEF Configs
<1>6. slot' \in [Slots -> Configs]
  BY <1>1, <1>3, <1>4, <1>5
<1>7. Used' = Used /\ Live = Used /\ Live' = Used /\ editor'.pc = "idle"
  BY <1>2 DEF Used, Live
<1>8. RelayTypes'
  <2>1. editor' \in [pc : {"idle", "edit", "delete"}, at : Nat]
    BY <1>2
  <2> QED
    BY <1>2, <1>6, <1>7, <2>1, TouchesType DEF RelayInv, RelayTypes
<1>9. ASSUME ~raced' PROVE RelayAssocs'
  <2>1. RelayAssocs /\ (relay.pc \in Pointing => relay.at # s)
    BY <1>2, <1>9, Untouched
  <2>2. slot'[s].assoc = Nil /\ slot[s].assoc = Nil /\ slot'[s].id = slot[s].id
    BY <1>2, <1>3, <1>4, <2>1 DEF Configs, RelayAssocs
  <2>3. Owned(Used, slot', net)
    <3>1. Owned(Used, slot, net)
      BY <1>7, <2>1 DEF RelayAssocs
    <3>2. \A u \in Used \ {s} : slot'[u] = slot[u]
      BY <1>4, SlotsFacts
    <3> QED
      BY <2>2, <3>1, <3>2 DEF Owned
  <2>4. \A u \in Used : slot'[u].id = slot[u].id
    BY <1>4, <2>2, SlotsFacts
  <2>5. Aims(relay, slot', count)
    <3> SUFFICES ASSUME relay.pc \in Pointing PROVE Aims(relay, slot', count)
      BY DEF Aims
    <3>1. /\ relay.at \in Used /\ relay.at \in 1 .. count /\ slot'[relay.at] = slot[relay.at]
          /\ relay.pc = "store" => slot[relay.at].assoc = Nil /\ slot[relay.at].host = relay.to
          /\ Carries(relay) => Named(slot, count, relay.at, relay.dgram)
      BY <1>4, <2>1, SlotsFacts DEF RelayAssocs, Aims, Used
    <3>2. Carries(relay) => Named(slot', count, relay.at, relay.dgram)
      BY <2>4, <3>1 DEF Named, Used
    <3> QED
      BY <3>1, <3>2 DEF Aims
  <2> QED
    BY <1>2, <1>7, <2>3, <2>5 DEF RelayAssocs, Settled
<1> QED
  BY <1>8, <1>9 DEF RelayInv

\* Deleting closes the association of a slot, which no longer counts.
LEMMA DeleteConfigStep ==
  ASSUME RelayInv, DeleteProxyConfig
  PROVE  RelayInv'
<1>1. PICK s \in Used :
        /\ net' = Closed(net, slot[s].assoc)
        /\ editor' = [pc |-> "delete", at |-> s]
        /\ Touches(s .. MaxConfigs + 1)
  BY DEF DeleteProxyConfig
<1>2. /\ editor.pc = "idle" /\ slot' = slot /\ edits' = edits /\ count' = count /\ nextId' = nextId
      /\ running' = running /\ relay' = relay /\ inbox' = inbox
  BY DEF DeleteProxyConfig, EditorFrame
<1>3. /\ net \in Nets /\ s \in Slots /\ s \in 1 .. MaxConfigs /\ s \in Nat
      /\ count \in 0 .. MaxConfigs /\ MaxConfigs \in Nat
  BY SlotsFacts, UdpRelayConstants DEF RelayInv, RelayTypes, Slots
<1>4. net' \in Nets
  BY <1>1, <1>3, ClosedNets
<1>5. /\ Used' = Used /\ Live = Used /\ Live' = Used \ {s}
      /\ editor'.at = s /\ editor'.pc = "delete"
  BY <1>1, <1>2 DEF Used, Live
<1>6. RelayTypes'
  <2>1. editor' \in [pc : {"idle", "edit", "delete"}, at : Nat]
    BY <1>1, <1>3
  <2> QED
    BY <1>1, <1>2, <1>4, <1>5, <2>1, TouchesType DEF RelayInv, RelayTypes
<1>7. ASSUME ~raced' PROVE RelayAssocs'
  <2>1. RelayAssocs /\ (relay.pc \in Pointing => relay.at \notin s .. MaxConfigs + 1)
    BY <1>1, <1>7, Untouched
  <2>2. Owned(Live', slot, net')
    BY <1>1, <1>3, <1>5, <2>1, OwnedDropped DEF RelayAssocs
  <2>3. relay'.pc = "store" => Settled(relay.at)'
    <3>1. ASSUME relay.pc = "store" PROVE relay.at < s
      <4>1. relay.at \in 1 .. count /\ relay.at \notin s .. MaxConfigs + 1
        BY <2>1, <3>1 DEF RelayAssocs, Aims, Pointing
      <4> QED
        BY <1>3, <4>1
    <3> QED
      BY <1>2, <1>5, <3>1 DEF Settled
  <2> QED
    BY <1>2, <1>5, <2>1, <2>2, <2>3 DEF RelayAssocs
<1> QED
  BY <1>6, <1>7 DEF RelayInv

\* The slots above it move down.
LEMMA DeleteMovesStep ==
  ASSUME RelayInv, DeleteMoves
  PROVE  RelayInv'
<1> DEFINE e == editor.at
<1>1. /\ editor.pc = "delete" /\ editor' = [pc |-> "idle", at |-> 0]
      /\ slot' = [s \in Slots |-> IF e <= s /\ s < count THEN slot[s + 1] ELSE slot[s]]
      /\ count' = count - 1 /\ Touches(e .. MaxConfigs + 1)
      /\ net' = net /\ nextId' = nextId /\ edits' = edits
      /\ running' = running /\ relay' = relay /\ inbox' = inbox
  BY DEF DeleteMoves, EditorFrame
<1>2. /\ slot \in [Slots -> Configs] /\ e \in 1 .. count /\ e \in Nat
      /\ count \in 0 .. MaxConfigs /\ count \in Nat /\ MaxConfigs \in Nat
  BY <1>1, UdpRelayConstants DEF RelayInv, RelayTypes, Used
<1>3. slot' \in [Slots -> Configs]
  <2>1. \A s \in Slots : s < count => s + 1 \in Slots
    BY <1>2 DEF Slots
  <2> QED
    BY <1>1, <1>2, <2>1
<1>4. \A s \in 1 .. count - 1 : slot'[s] = IF e <= s THEN slot[s + 1] ELSE slot[s]
  <2>1. \A s \in 1 .. count - 1 : s \in Slots /\ s < count
    BY <1>2 DEF Slots
  <2> QED
    BY <1>1, <2>1
<1>5. Live = (1 .. count) \ {e} /\ Live' = 1 .. count - 1
  BY <1>1 DEF Live, Used
<1>6. RelayTypes'
  <2>1. count' \in 0 .. MaxConfigs
    BY <1>1, <1>2
  <2>2. editor' \in [pc : {"idle", "edit", "delete"}, at : Nat] /\ editor'.pc = "idle"
    BY <1>1
  <2> QED
    BY <1>1, <1>3, <2>1, <2>2, TouchesType DEF RelayInv, RelayTypes
<1>7. ASSUME ~raced' PROVE RelayAssocs'
  <2>1. RelayAssocs /\ (relay.pc \in Pointing => relay.at \notin e .. MaxConfigs + 1)
    BY <1>1, <1>7, Untouched
  <2>2. Owned((1 .. count) \ {e}, slot, net)
    BY <1>5, <2>1 DEF RelayAssocs
  <2> HIDE DEF e
  <2>3. Owned(1 .. count - 1, slot', net)
    BY <1>2, <1>4, <2>2, OwnedMoved
  <2>4. Aims(relay, slot', count - 1)
    <3> SUFFICES ASSUME relay.pc \in Pointing PROVE Aims(relay, slot', count - 1)
      BY DEF Aims
    <3>1. /\ relay.at \in 1 .. count
          /\ relay.pc = "store" => slot[relay.at].assoc = Nil /\ slot[relay.at].host = relay.to
          /\ Carries(relay) => Named(slot, count, relay.at, relay.dgram)
      BY <2>1 DEF RelayAssocs, Aims
    <3>2. relay.at \in 1 .. count - 1 /\ relay.at < e
      BY <1>2, <2>1, <3>1
    <3>3. slot'[relay.at] = slot[relay.at]
      BY <1>2, <1>4, <3>2
    <3>4. ASSUME Carries(relay) PROVE Named(slot', count - 1, relay.at, relay.dgram)
      <4>1. ASSUME NEW s \in 1 .. count - 1 PROVE \E u \in 1 .. count : slot'[s] = slot[u]
        <5>1. s \in 1 .. count /\ s + 1 \in 1 .. count
          BY <1>2
        <5> QED
          BY <1>4, <5>1
      <4> QED
        BY <3>1, <3>3, <3>4, <4>1 DEF Named
    <3> QED
      BY <3>1, <3>2, <3>3, <3>4 DEF Aims
  <2>5. editor'.pc = "idle"
    BY <1>1
  <2> QED
    BY <1>1, <1>5, <2>3, <2>4, <2>5 DEF RelayAssocs, Settled
<1> QED
  BY <1>6, <1>7 DEF RelayInv

\* Stop, a client, a server that hangs up, and time.
LEMMA OutsideStep ==
  ASSUME RelayInv,
         \/ Stop \/ RelayTick
         \/ \E f \in Fams : ClientWrites(f)
         \/ \E h \in Handles : Hangup(h)
  PROVE  RelayInv'
<1>1. /\ UNCHANGED <<count, nextId, relay, editor, edits, raced>>
      /\ running' \in BOOLEAN /\ inbox' \in Fams \cup {Nil}
  BY DEF Stop, RelayTick, ClientWrites, Hangup, Outside, RelayInv, RelayTypes
<1>2. /\ slot' \in [Slots -> Configs]
      /\ \A s \in Slots : SameSlot(slot'[s], slot[s]) /\ slot'[s].id = slot[s].id
                                /\ slot'[s].type = slot[s].type
  <2>1. slot \in [Slots -> Configs]
    BY DEF RelayInv, RelayTypes
  <2>2. CASE slot' = slot
    BY <2>1, <2>2 DEF SameSlot
  <2>3. CASE RelayTick
    <3>1. slot' = [s \in Slots |-> IF slot[s].wait > 0 THEN [slot[s] EXCEPT !.wait = @ - 1] ELSE slot[s]]
      BY <2>3 DEF RelayTick
    <3>2. ASSUME NEW s \in Slots
          PROVE  /\ slot'[s] \in Configs /\ SameSlot(slot'[s], slot[s])
                 /\ slot'[s].id = slot[s].id /\ slot'[s].type = slot[s].type
      <4>1. slot[s] \in Configs /\ slot[s].wait \in 0 .. Guard
        BY <2>1 DEF Configs
      <4>2. CASE slot[s].wait > 0
        <5>1. slot'[s] = [slot[s] EXCEPT !.wait = slot[s].wait - 1]
          BY <3>1, <4>2
        <5>2. slot[s].wait - 1 \in 0 .. Guard
          BY <4>1, <4>2, UdpRelayConstants
        <5> QED
          BY <4>1, <5>1, <5>2 DEF Configs, SameSlot
      <4>3. CASE ~(slot[s].wait > 0)
        BY <3>1, <4>1, <4>3 DEF SameSlot
      <4> QED
        BY <4>2, <4>3
    <3> QED
      BY <3>1, <3>2
  <2> QED
    BY <2>2, <2>3 DEF Stop, ClientWrites, Hangup
<1>3. /\ net' \in Nets
      /\ \A L, sl : Owned(L, sl, net) => Owned(L, sl, net')
  <2>1. net \in Nets
    BY DEF RelayInv, RelayTypes
  <2>2. CASE net' = net
    BY <2>1, <2>2
  <2>3. ASSUME NEW h \in Handles, Hangup(h)
        PROVE  net' \in Nets /\ \A L, sl : Owned(L, sl, net) => Owned(L, sl, net')
    <3>1. /\ net[h].state = "open" /\ net' = [net EXCEPT ![h].state = "dead"]
      BY <2>3 DEF Hangup
    <3>2. /\ net'[h].state = "dead" /\ net'[h].to = net[h].to
          /\ \A g \in Handles \ {h} : net'[g] = net[g]
      BY <2>1, <3>1 DEF Nets
    <3>3. net' \in Nets
      BY <2>1, <3>1 DEF Nets
    <3>4. net[h] # NoAssoc
      BY <3>1 DEF NoAssoc
    <3>5. \A g \in Handles : /\ net'[g].to = net[g].to
                             /\ (net[g].state # "free" => net'[g].state # "free")
                             /\ (net'[g] # NoAssoc => net[g] # NoAssoc)
      BY <3>1, <3>2, <3>4
    <3>6. ASSUME NEW L, NEW sl, Owned(L, sl, net) PROVE Owned(L, sl, net')
      BY <3>5, <3>6 DEF Owned
    <3> QED
      BY <3>3, <3>6
  <2> QED
    BY <2>2, <2>3 DEF Stop, ClientWrites, RelayTick
<1>4. Used' = Used /\ Live' = Live
  BY <1>1 DEF Used, Live
<1>5. RelayTypes'
  BY <1>1, <1>2, <1>3, <1>4 DEF RelayInv, RelayTypes
<1>6. ASSUME ~raced' PROVE RelayAssocs'
  <2>1. RelayAssocs
    BY <1>1, <1>6 DEF RelayInv
  <2>2. Owned(Live, slot', net')
    <3>1. Owned(Live, slot', net)
      <4>1. \A s \in Live : SameSlot(slot'[s], slot[s])
        BY <1>2, SlotsFacts
      <4> QED
        BY <2>1, <4>1, OwnedSame DEF RelayAssocs
    <3> QED
      BY <1>3, <3>1
  <2>3. Aims(relay, slot', count)
    <3>1. \A s \in 1 .. count : s \in Slots
      BY SlotsFacts DEF Used
    <3> QED
      BY <1>2, <2>1, <3>1 DEF RelayAssocs, Aims, Named, SameSlot
  <2>4. editor.pc = "edit" => slot'[editor.at].assoc = Nil
    <3>1. editor.pc = "edit" => editor.at \in Slots
      BY SlotsFacts DEF RelayInv, RelayTypes
    <3> QED
      BY <1>2, <2>1, <3>1 DEF RelayAssocs, SameSlot
  <2> QED
    BY <1>1, <1>4, <2>1, <2>2, <2>3, <2>4 DEF RelayAssocs, Settled
<1> QED
  BY <1>5, <1>6 DEF RelayInv

\* The relay starts with one configuration and no association.
LEMMA RelayStarts ==
  ASSUME RelayInit
  PROVE  RelayInv
<1>1. PICK p \in Proxies :
        slot = [s \in Slots |-> IF s = 1 THEN Config(1, "SOCKS5", p)
                                      ELSE Config(0, "SOCKS5", Nil)]
  BY DEF RelayInit
<1>2. /\ count = 1 /\ nextId = 2 /\ running = TRUE /\ inbox = Nil
      /\ relay = [Idle EXCEPT !.pc = "init", !.at = 1]
      /\ net = [h \in Handles |-> NoAssoc]
      /\ editor = [pc |-> "idle", at |-> 0] /\ edits = 0 /\ raced = FALSE
  BY DEF RelayInit
<1>3. \A s \in Slots : slot[s] \in Configs /\ slot[s].assoc = Nil
  <2>1. 0 \in 0 .. Guard /\ 1 \in Ids
    BY UdpRelayConstants DEF Ids
  <2> QED
    BY <1>1, <2>1 DEF Config, Configs, Types
<1>4. 1 \in Slots /\ count \in 0 .. MaxConfigs /\ edits \in 0 .. MaxEdits /\ 1 \in Nat
  BY <1>2, UdpRelayConstants DEF Slots
<1>5. Fits(relay, nextId) /\ Aims(relay, slot, count) /\ relay.pc # "store"
  BY <1>2, <1>4, LoopsFit
<1>6. net \in Nets
  BY <1>2 DEF Nets, NoAssoc
<1>7. RelayTypes
  <2>1. slot \in [Slots -> Configs]
    BY <1>1, <1>3
  <2>2. editor \in [pc : {"idle", "edit", "delete"}, at : Nat] /\ editor.pc = "idle"
    BY <1>2
  <2>3. running \in BOOLEAN /\ raced \in BOOLEAN
    BY <1>2
  <2>4. nextId \in 2 .. edits + 2
    BY <1>2
  <2>5. inbox \in Fams \cup {Nil}
    BY <1>2
  <2> QED
    BY <1>4, <1>5, <1>6, <2>1, <2>2, <2>3, <2>4, <2>5 DEF RelayTypes
<1>8. Live \subseteq Slots
  BY <1>2, <1>4 DEF Live, Used
<1>9. Owned(Live, slot, net)
  BY <1>2, <1>3, <1>8 DEF Owned
<1> QED
  BY <1>2, <1>5, <1>7, <1>9 DEF RelayInv, RelayAssocs

\* Every step keeps the invariant.
LEMMA RelayGoesOn ==
  ASSUME RelayInv, [RelayNext]_relayVars
  PROVE  RelayInv'
<1>1. CASE UNCHANGED relayVars
  BY <1>1 DEF relayVars, RelayInv, RelayTypes, RelayAssocs, Live, Used, Settled
<1>2. CASE RelayStep
  BY <1>2, NoEstablishStep, BeginsStep, SucceedsStep, ReconnectStep, SelectStep, EndsStep,
     ControlStep, TakeStep, SendStep, RepliesStep DEF RelayStep
<1>3. CASE EditorStep \/ AddProxyConfig \/ EditProxyConfig \/ DeleteProxyConfig
  BY <1>3, AddConfigStep, EditConfigStep, EditWritesStep, DeleteConfigStep, DeleteMovesStep
  DEF EditorStep
<1>4. CASE \/ Stop \/ RelayTick
           \/ \E f \in Fams : ClientWrites(f)
           \/ \E h \in Handles : Hangup(h)
  BY <1>4, OutsideStep
<1> QED
  BY <1>1, <1>2, <1>3, <1>4 DEF RelayNext

\* Unless a call changed or moved the slot the relay thread was using, every
\* association belongs to one configuration and leads where that one says,
\* none is lost, and a datagram goes through the configuration that the
\* client's rule names or falls back to (udp_relay_server,
\* establish_udp_associate_for_config, find_udp_proxy_config).
THEOREM AssociationsOwned ==
  RelaySpec => []OwnAssociation
<1>1. RelayInit => RelayInv
  BY RelayStarts
<1>2. RelayInv /\ [RelayNext]_relayVars => RelayInv'
  BY RelayGoesOn
<1>3. RelayInv => OwnAssociation
  <2> SUFFICES ASSUME RelayInv PROVE OwnAssociation
    OBVIOUS
  <2>1. RelayTypeOK
    <3>1. nextId \in Nat
      BY DEF RelayInv, RelayTypes
    <3> QED
      BY <3>1 DEF RelayInv, RelayTypes, Fits, RelayTypeOK, Configs, Nets, Threads
  <2>2. ASSUME RelayAssocs
        PROVE  /\ \A s \in {u \in Used : Settled(u) /\ slot[u].assoc # Nil} :
                    /\ slot[s].connected
                    /\ net[slot[s].assoc].state # "free"
                    /\ net[slot[s].assoc].to = slot[s].host
                    /\ \A t \in Used \ {s} : Settled(t) => slot[t].assoc # slot[s].assoc
               /\ \A h \in Handles : net[h] # NoAssoc => \E s \in Used : slot[s].assoc = h
               /\ relay.pc \in {"send", "send6"} =>
                    \/ slot[relay.at].id = relay.dgram
                    \/ /\ \A s \in Used : slot[s].id # relay.dgram
                       /\ slot[relay.at].type = "SOCKS5"
    <3>1. \A s \in Used : Settled(s) => s \in Live
      <4>1. Used \subseteq Nat /\ editor.at \in Nat
        BY SlotsFacts
      <4> QED
        BY <4>1 DEF Live, Settled
    <3>2. Owned(Live, slot, net) /\ Live \subseteq Used
      BY <2>2, SlotsFacts DEF RelayAssocs
    <3>3. relay.pc \in {"send", "send6"} => Named(slot, count, relay.at, relay.dgram)
      BY <2>2 DEF RelayAssocs, Aims, Carries, Pointing
    <3>4. relay.pc \in {"send", "send6"} =>
                    \/ slot[relay.at].id = relay.dgram
                    \/ /\ \A s \in Used : slot[s].id # relay.dgram
                       /\ slot[relay.at].type = "SOCKS5"
      BY <3>3 DEF Named, Used
    <3> QED
      BY <3>1, <3>2, <3>4 DEF Owned
  <2> QED
    BY <2>1, <2>2 DEF RelayInv, OwnAssociation
<1> QED
  BY <1>1, <1>2, <1>3, PTL DEF RelaySpec
=============================================================================
