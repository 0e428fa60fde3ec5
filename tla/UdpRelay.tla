------------------------------ MODULE UdpRelay ------------------------------
(***************************************************************************)
(* The shared UDP relay of ProxyBridge.c (udp_relay_server) with the       *)
(* SOCKS5 UDP associations it keeps per proxy configuration                *)
(* (establish_udp_associate_for_config), and the calls by which the user   *)
(* interface adds, edits and deletes configurations meanwhile.  Nothing    *)
(* protects the array of configurations: the relay keeps an index or a     *)
(* pointer into it while it waits for a proxy.                             *)
(* An association is one handle here: its control connection and its UDP   *)
(* socket are opened and closed together.                                  *)
(* The names differ from UdpPath's, so that a module may extend both.      *)
(***************************************************************************)
EXTENDS Integers, FiniteSets, FiniteSetsExt

CONSTANTS
  Proxies,       \* servers a configuration may name
  Handles,       \* associations the system can hold open
  Nil,           \* INVALID_SOCKET, no datagram, no server
  MaxConfigs,    \* MAX_PROXY_CONFIGS
  Guard,         \* the retry guard (1000 ms), in ticks
  MaxEdits       \* bound: configurations added or edited

ASSUME UdpRelayConstants ==
  /\ MaxConfigs \in Nat \ {0} /\ Guard \in Nat /\ MaxEdits \in Nat
  /\ Nil \notin Proxies /\ Nil \notin Handles

VARIABLES
  slot,          \* g_proxy_configs, the unused slots included
  count,         \* g_proxy_config_count
  nextId,        \* g_next_config_id
  running,
  relay,         \* the relay thread
  inbox,         \* a client's datagram waiting in a socket of the relay
  net,           \* the associations: who serves them, and what they hold
  editor,        \* the user interface's thread
  edits,         \* bound: configurations it has added or edited
  raced          \* history: it changed or moved a slot the relay was using

relayVars == <<slot, count, nextId, running, relay, inbox, net, editor, edits, raced>>

Fams == {"v4", "v6"}
Types == {"SOCKS5", "HTTP"}
Slots == 1 .. MaxConfigs
Used == 1 .. count
Ids == 1 .. 1 + MaxEdits

Config(i, t, p) ==
  [id |-> i, type |-> t, host |-> p, assoc |-> Nil, connected |-> FALSE, wait |-> 0]
NoAssoc == [to |-> Nil, state |-> "free"]
Idle == [pc |-> "select", at |-> 0, caller |-> "init", dgram |-> Nil, to |-> Nil]

RelayTypeOK ==
  /\ slot \in [Slots -> [id : Ids \cup {0}, type : Types, host : Proxies \cup {Nil},
                         assoc : Handles \cup {Nil}, connected : BOOLEAN, wait : 0 .. Guard]]
  /\ count \in 0 .. MaxConfigs /\ nextId \in Nat
  /\ running \in BOOLEAN
  /\ relay \in [pc : {"init", "select", "reconnect", "control", "client", "send", "replies",
                      "client6", "send6", "guard", "store", "ended"},
                at : Nat, caller : {"init", "reconnect", "control", "client", "resend", "client6"},
                dgram : Ids \cup {Nil}, to : Proxies \cup {Nil}]
  /\ inbox \in Fams \cup {Nil}
  /\ net \in [Handles -> [to : Proxies \cup {Nil},
                          state : {"free", "open", "dead"}]]
  /\ editor \in [pc : {"idle", "edit", "delete"}, at : Nat]
  /\ edits \in 0 .. MaxEdits /\ raced \in BOOLEAN

\* A SOCKS5 configuration was added before Start: else the relay would not
\* have been started (ProxyBridge.c:5509).
RelayInit ==
  /\ \E p \in Proxies :
       slot = [s \in Slots |-> IF s = 1 THEN Config(1, "SOCKS5", p) ELSE Config(0, "SOCKS5", Nil)]
  /\ count = 1 /\ nextId = 2 /\ running = TRUE
  /\ relay = [Idle EXCEPT !.pc = "init", !.at = 1]
  /\ inbox = Nil
  /\ net = [h \in Handles |-> NoAssoc]
  /\ editor = [pc |-> "idle", at |-> 0]
  /\ edits = 0 /\ raced = FALSE

-----------------------------------------------------------------------------
(* Helpers *)

\* closesocket on both sockets of an association.
Closed(n, h) == IF h = Nil THEN n ELSE [n EXCEPT ![h] = NoAssoc]

\* Mutant: the identifier is not looked for.
find_udp_proxy_config_First(id) ==
  LET socks == {s \in Used : slot[s].type = "SOCKS5"}
  IN IF socks # {} THEN Min(socks) ELSE 0

\* The slot of a configuration; an unknown one falls back to the first SOCKS5
\* configuration; 0 if there is none.
find_udp_proxy_config(id) ==
  LET exact == {s \in Used : slot[s].id = id}
      socks == {s \in Used : slot[s].type = "SOCKS5"}
  IN IF exact # {} THEN Min(exact) ELSE IF socks # {} THEN Min(socks) ELSE 0

\* A step of the relay on slot s (0: on none); the user interface may be in
\* the middle of changing it, or of moving it.
RelayUses(s) ==
  /\ raced' = \/ raced
              \/ editor.pc = "edit" /\ s = editor.at
              \/ editor.pc = "delete" /\ s >= editor.at
  /\ UNCHANGED <<count, nextId, running, editor, edits>>

Goto(pc, s) == relay' = [Idle EXCEPT !.pc = pc, !.at = s]
Loop == relay' = Idle
Send(pc) == relay' = [Idle EXCEPT !.pc = pc, !.at = relay.at, !.dgram = relay.dgram]
\* The client's datagram is dealt with; next the replies.
Resume == relay' = [Idle EXCEPT !.pc = "replies", !.at = 1]

-----------------------------------------------------------------------------
(* establish_udp_associate_for_config *)

Establish(caller, s) ==
  relay' = [relay EXCEPT !.pc = "guard", !.at = s, !.caller = caller]

\* What each caller does with the result.
Returns(ok) ==
  LET c == relay.caller
  IN \/ c \in {"init", "reconnect", "control"} /\ Goto(c, relay.at + 1)
     \/ c = "client" /\ ok /\ Send("send")
     \/ c = "client" /\ ~ok /\ Loop
     \/ c = "resend" /\ Resume
     \/ c = "client6" /\ Send("send6")

EstablishRefused ==
  /\ relay.pc = "guard"
  /\ LET c == slot[relay.at] IN c.host = Nil \/ c.type # "SOCKS5" \/ c.wait > 0
  /\ Returns(FALSE)
  /\ UNCHANGED <<slot, inbox, net>> /\ RelayUses(relay.at)

\* The attempt is recorded and the server's name read; connecting takes time.
EstablishBegins ==
  /\ relay.pc = "guard"
  /\ LET c == slot[relay.at]
     IN /\ c.host # Nil /\ c.type = "SOCKS5" /\ c.wait = 0
        /\ relay' = [relay EXCEPT !.pc = "store", !.to = c.host]
        /\ net' = Closed(net, c.assoc)
  /\ slot' = [slot EXCEPT ![relay.at].wait = Guard, ![relay.at].assoc = Nil]
  /\ UNCHANGED inbox /\ RelayUses(relay.at)

\* The result goes into whatever the slot holds by now.
EstablishSucceeds ==
  /\ relay.pc = "store"
  /\ \E h \in Handles :
       /\ net[h] = NoAssoc
       /\ net' = [net EXCEPT ![h] = [to |-> relay.to, state |-> "open"]]
       /\ slot' = [slot EXCEPT ![relay.at].assoc = h, ![relay.at].connected = TRUE]
  /\ Returns(TRUE)
  /\ UNCHANGED inbox /\ RelayUses(relay.at)

\* No socket, an unknown name, a connection or a handshake that fails.
EstablishFails ==
  /\ relay.pc = "store"
  /\ Returns(FALSE)
  /\ UNCHANGED <<slot, inbox, net>> /\ RelayUses(relay.at)

-----------------------------------------------------------------------------
(* udp_relay_server.  A loop over the configurations is at slot relay.at; the *)
(* slots it passes over without doing anything are one step with the next.   *)

\* What the sockets of a configuration hold, as far as the loops look at them.
Held(s) == IF slot[s].type = "SOCKS5" /\ slot[s].connected /\ slot[s].assoc # Nil
           THEN net[slot[s].assoc].state ELSE "free"

\* Close the association of a slot: a server that hung up, an error.
Disconnect(s) ==
  /\ net' = Closed(net, slot[s].assoc)
  /\ slot' = [slot EXCEPT ![s].assoc = Nil, ![s].connected = FALSE]

\* The loop is at the next of the slots in due, or at its end.
Scan(due, Act(_), done) ==
  LET left == {s \in due : s >= relay.at}
  IN \/ left # {} /\ Act(Min(left)) /\ RelayUses(Min(left))
     \/ left = {} /\ done /\ UNCHANGED <<slot, net>> /\ RelayUses(0)

\* Before the main loop, and after a select that timed out: every SOCKS5
\* configuration without an association.
Reconnect ==
  /\ relay.pc \in {"init", "reconnect"}
  /\ Scan({s \in Used : slot[s].type = "SOCKS5" /\ (relay.pc = "init" \/ ~slot[s].connected)},
          LAMBDA s : Establish(relay.pc, s) /\ UNCHANGED <<slot, net>>, Loop)
  /\ UNCHANGED inbox

\* What select is given: the association of each configuration that has one.
Selected == {slot[s].assoc : s \in {u \in Used : /\ slot[u].type = "SOCKS5"
                                                 /\ slot[u].connected
                                                 /\ slot[u].assoc # Nil}}
SelectFails == \E h \in Selected : net[h] = NoAssoc
SelectMust == inbox # Nil \/ \E h \in Selected : net[h].state = "dead"

\* A timeout and an error are one case in the code.
SelectTimeout ==
  /\ relay.pc = "select" /\ running
  /\ SelectFails \/ ~SelectMust
  /\ Goto("reconnect", 1)
  /\ UNCHANGED <<slot, inbox, net>> /\ RelayUses(0)

\* Something to read: a datagram, a closed connection, or a reply or an error
\* on an association.
SelectReturns ==
  /\ relay.pc = "select" /\ running
  /\ ~SelectFails /\ (SelectMust \/ Selected # {})
  /\ Goto("control", 1)
  /\ UNCHANGED <<slot, inbox, net>> /\ RelayUses(0)

RelayEnds ==
  /\ relay.pc = "select" /\ ~running
  /\ net' = [h \in Handles |-> IF \E s \in Used : slot[s].assoc = h THEN NoAssoc ELSE net[h]]
  /\ slot' = [s \in Slots |-> IF s \in Used THEN [slot[s] EXCEPT !.assoc = Nil, !.connected = FALSE]
                              ELSE slot[s]]
  /\ Goto("ended", 0)
  /\ UNCHANGED inbox /\ RelayUses(count)

\* Mutant: only the UDP side of an association is watched.
Control_NotWatched ==
  /\ relay.pc = "control"
  /\ Goto("client", 0)
  /\ UNCHANGED <<slot, net, inbox>> /\ RelayUses(0)

\* Servers that have closed the control connection.
Control ==
  /\ relay.pc = "control"
  /\ Scan({s \in Used : Held(s) = "dead"},
          LAMBDA s : Disconnect(s) /\ Establish("control", s), Goto("client", 0))
  /\ UNCHANGED inbox

\* A client's datagram; its table entry, read now, names configuration id.
Take(f, caller, send, none) ==
  LET s(id) == find_udp_proxy_config(id)
      Refused(id) == s(id) = 0 \/ slot[s(id)].type # "SOCKS5"
  IN /\ \/ none /\ inbox # f /\ UNCHANGED inbox     \* nothing there
        \/ none /\ inbox = f /\ inbox' = Nil      \* the entry is gone
        \/ Loop /\ inbox' \in IF inbox = f THEN {f, Nil} ELSE {inbox}    \* an error, or too long
        \/ /\ inbox = f /\ inbox' = Nil
           /\ \E id \in 1 .. nextId - 1 :
                IF Refused(id) THEN Loop
                ELSE relay' = IF slot[s(id)].connected
                              THEN [Idle EXCEPT !.pc = send, !.at = s(id), !.dgram = id]
                              ELSE [Idle EXCEPT !.pc = "guard", !.at = s(id), !.dgram = id,
                                                !.caller = caller]
     /\ UNCHANGED <<slot, net>> /\ RelayUses(0)

TakeV4 == relay.pc = "client" /\ Take("v4", "client", "send", Resume)
TakeV6 == relay.pc = "client6" /\ Take("v6", "client6", "send6", Loop)

\* sendto fails on a closed socket, and may report an earlier error.
SendV4 ==
  /\ relay.pc = "send"
  /\ \/ Held(relay.at) # "free" /\ Resume /\ UNCHANGED <<slot, net>>
     \/ Disconnect(relay.at) /\ Establish("resend", relay.at)
  /\ UNCHANGED inbox /\ RelayUses(relay.at)

\* sendto's result is not looked at.
SendV6 ==
  /\ relay.pc = "send6"
  /\ Loop
  /\ UNCHANGED <<slot, inbox, net>> /\ RelayUses(relay.at)

\* The UDP sockets of the associations: replies are passed on (UdpPath), an
\* error closes the association.
Replies ==
  /\ relay.pc = "replies"
  /\ \/ Goto("client6", 0) /\ UNCHANGED <<slot, net>> /\ RelayUses(0)
     \/ \E s \in Used : /\ s >= relay.at /\ Held(s) # "free"
                       /\ Disconnect(s) /\ Goto("replies", s + 1) /\ RelayUses(s)
  /\ UNCHANGED inbox

RelayStep ==
  \/ EstablishRefused \/ EstablishBegins \/ EstablishSucceeds \/ EstablishFails
  \/ Reconnect \/ SelectTimeout \/ SelectReturns \/ RelayEnds
  \/ Control \/ TakeV4 \/ TakeV6 \/ SendV4 \/ SendV6 \/ Replies

-----------------------------------------------------------------------------
(* Calls of the user interface.  None of them takes a lock.                *)

EditorFrame == UNCHANGED <<running, relay, inbox>>

\* The relay holds a pointer to one of these slots.
Touches(slots) ==
  raced' = \/ raced
           \/ relay.pc \in {"guard", "store", "send", "send6"} /\ relay.at \in slots

AddProxyConfig ==
  /\ editor.pc = "idle" /\ edits < MaxEdits /\ count < MaxConfigs
  /\ \E t \in Types, p \in Proxies : slot' = [slot EXCEPT ![count + 1] = Config(nextId, t, p)]
  /\ count' = count + 1 /\ nextId' = nextId + 1 /\ edits' = edits + 1
  /\ Touches({count + 1})
  /\ UNCHANGED <<net, editor>> /\ EditorFrame

\* The association is closed first, the fields are written after.
EditProxyConfig ==
  /\ editor.pc = "idle" /\ edits < MaxEdits
  /\ \E s \in Used :
       /\ net' = Closed(net, slot[s].assoc)
       /\ slot' = [slot EXCEPT ![s].assoc = Nil, ![s].connected = FALSE]
       /\ editor' = [pc |-> "edit", at |-> s]
       /\ Touches({s})
  /\ edits' = edits + 1
  /\ UNCHANGED <<count, nextId>> /\ EditorFrame

EditWrites ==
  /\ editor.pc = "edit"
  /\ \E t \in Types, p \in Proxies :
       slot' = [slot EXCEPT ![editor.at].type = t, ![editor.at].host = p]
  /\ editor' = [pc |-> "idle", at |-> 0]
  /\ Touches({editor.at})
  /\ UNCHANGED <<net, count, nextId, edits>> /\ EditorFrame

\* Closes the sockets, which stay in the slot, ...
DeleteProxyConfig ==
  /\ editor.pc = "idle"
  /\ \E s \in Used :
       /\ net' = Closed(net, slot[s].assoc)
       /\ editor' = [pc |-> "delete", at |-> s]
       /\ Touches(s .. MaxConfigs + 1)
  /\ UNCHANGED <<slot, count, nextId, edits>> /\ EditorFrame

\* ... then moves the rest down over it; the last slot keeps its old content.
DeleteMoves ==
  /\ editor.pc = "delete"
  /\ slot' = [s \in Slots |-> IF editor.at <= s /\ s < count THEN slot[s + 1] ELSE slot[s]]
  /\ count' = count - 1
  /\ editor' = [pc |-> "idle", at |-> 0]
  /\ Touches(editor.at .. MaxConfigs + 1)
  /\ UNCHANGED <<net, nextId, edits>> /\ EditorFrame

Stop ==
  /\ running /\ running' = FALSE
  /\ UNCHANGED <<slot, count, nextId, relay, inbox, net, editor, edits, raced>>

EditorStep == EditWrites \/ DeleteMoves

-----------------------------------------------------------------------------
(* Clients, proxies and time *)

Outside == UNCHANGED <<count, nextId, running, relay, editor, edits, raced>>

ClientWrites(f) ==
  /\ inbox = Nil /\ inbox' = f
  /\ UNCHANGED <<slot, net>> /\ Outside

\* The server ends its control connection; what it has sent is lost.
Hangup(h) ==
  /\ net[h].state = "open"
  /\ net' = [net EXCEPT ![h].state = "dead"]
  /\ UNCHANGED <<slot, inbox>> /\ Outside

RelayTick ==
  /\ \E s \in Slots : slot[s].wait > 0
  /\ slot' = [s \in Slots |-> IF slot[s].wait > 0 THEN [slot[s] EXCEPT !.wait = @ - 1] ELSE slot[s]]
  /\ UNCHANGED <<inbox, net>> /\ Outside

RelayNext ==
  \/ RelayStep \/ EditorStep
  \/ AddProxyConfig \/ EditProxyConfig \/ DeleteProxyConfig \/ Stop
  \/ \E f \in Fams : ClientWrites(f)
  \/ \E h \in Handles : Hangup(h)
  \/ RelayTick

RelaySpec == RelayInit /\ [][RelayNext]_relayVars

\* Threads run, connecting and the handshake end by their timeouts, time passes;
\* a server that is asked again and again answers at last.
FairRelaySpec ==
  /\ RelaySpec /\ WF_relayVars(RelayStep) /\ WF_relayVars(EditorStep) /\ WF_relayVars(RelayTick)
  /\ \A s \in Slots : SF_relayVars(EstablishSucceeds /\ relay.at = s)

-----------------------------------------------------------------------------
(* Properties *)

Settled(s) == editor.pc = "idle" \/ s < editor.at \/ (s > editor.at /\ editor.pc = "edit")

\* Unless a call of the user interface met the relay on the slot it changed or
\* moved: every open association belongs to exactly one configuration and leads
\* to the server that configuration names; nothing leaks; and what the relay is
\* about to send goes through the configuration the client's rule names or, if
\* that one no longer exists, through a SOCKS5 one (ProxyBridge.c:2221-2225).
\* Every variable keeps its type.
OwnAssociation ==
  /\ RelayTypeOK
  /\ raced \/
     /\ \A s \in {u \in Used : Settled(u) /\ slot[u].assoc # Nil} :
          LET h == slot[s].assoc
          IN /\ slot[s].connected
             /\ net[h].state # "free"
             /\ net[h].to = slot[s].host
             /\ \A t \in Used \ {s} : Settled(t) => slot[t].assoc # h
     /\ \A h \in Handles : net[h] # NoAssoc => \E s \in Used : slot[s].assoc = h
     /\ relay.pc \in {"send", "send6"} =>
          \/ slot[relay.at].id = relay.dgram
          \/ /\ \A s \in Used : slot[s].id # relay.dgram
             /\ slot[relay.at].type = "SOCKS5"

\* If datagrams for the configuration added first (it stands for any) are sent
\* again and again and the user interface leaves the array alone, the very
\* configuration that serves them (itself or, once deleted, the first SOCKS5
\* one, ProxyBridge.c:2226-2239) has a working association again and again,
\* whatever becomes of the others: the retry guard only delays it, and a server
\* that hung up is noticed although UDP to it would still be accepted.
ServedAgain ==
  /\ <>[](editor.pc = "idle" /\ running /\ ~raced)
  /\ []<>(relay.dgram = 1)
  => []<>(LET s == find_udp_proxy_config(1) IN s # 0 /\ Held(s) = "open")

=============================================================================
