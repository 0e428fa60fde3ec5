----------------------------- MODULE FullCone -----------------------------
(***************************************************************************)
(* The full-cone UDP relay of ProxyBridge.c: a table of SOCKS5 UDP         *)
(* sessions, one per client socket, shared by                              *)
(*   - the relay thread      (udp_fullcone_relay_server and what it calls),*)
(*   - one worker per session (fullcone_connect_worker: the handshake),    *)
(*   - one reader per session (fullcone_session_reader: proxy -> client).  *)
(* Every hold of g_fullcone_lock is one step, since no step blocks inside  *)
(* one.  Socket numbers are handed out again after a close, as Winsock may.*)
(***************************************************************************)
EXTENDS Integers, Sequences, FiniteSets

CONSTANTS
  Keys,          \* client sockets: (client_port, is_ipv6) pairs
  Sessions,      \* heap cells for FULLCONE_SESSION structures
  Handles,       \* socket numbers the OS hands out
  None,          \* NULL / INVALID_SOCKET
  MaxSessions,   \* FULLCONE_MAX_SESSIONS
  RingMax,       \* FULLCONE_RING_MAX
  IdleTimeout,   \* FULLCONE_IDLE_TIMEOUT_MS, in ticks
  FailGuard,     \* FULLCONE_FAIL_GUARD_MS, in ticks
  SweepPeriod,   \* the 5000 ms between two sweeps, in ticks
  MaxLag,        \* ticks that may pass between the relay's GetTickCount64 and its use
  MaxSend,       \* bound: datagrams each client sends
  Word,          \* the modulus of unsigned tick arithmetic (2^64 in the code)
  HandleReuse    \* FALSE: no number is handed out while a session still stores it

\* Ticks are kept as ages.  An age past AgeCap is past every limit.
AgeCap == IdleTimeout + FailGuard + MaxLag + 1

ASSUME FullConeConstants ==
  /\ MaxSessions \in Nat /\ RingMax \in Nat /\ MaxSend \in Nat
  /\ IdleTimeout \in Nat /\ FailGuard \in Nat /\ SweepPeriod \in Nat /\ MaxLag \in Nat
  /\ Word \in Nat /\ Word > AgeCap + IdleTimeout + FailGuard + MaxLag
  /\ HandleReuse \in BOOLEAN
  /\ None \notin Keys \cup Sessions \cup Handles

VARIABLES
  running,       \* the global run flag
  sess,          \* the FULLCONE_SESSION structures
  table,         \* the sessions linked in g_fullcone_sessions
  count,         \* g_fullcone_session_count
  worker,        \* per session: the worker thread and its local sockets
  reader,        \* per session: the reader thread and the socket it waits on
  relay,         \* the relay thread: program counter, locals, age of its `now`
  frame,         \* locals of the fullcone_destroy_session call in progress
  owner,         \* owner[h]: the session whose worker opened socket h, or None
  handed,        \* datagrams each client has handed to the relay
  sent           \* the datagrams passed to sendto towards the proxy, per client

vars == <<running, sess, table, count, worker, reader, relay, frame, owner, handed, sent>>

-----------------------------------------------------------------------------
(* Types *)

Age == 0 .. AgeCap
Socket == Handles \cup {None}
DestroyPC == {"unlink", "close", "joinw", "joinr"}
RelayPC == {"top", "select", "lookup", "send", "cap", "insert", "sweep", "drain", "done"}
           \cup DestroyPC

Ring == {r \in Seq(Nat) : Len(r) <= RingMax}

Session == [key : Keys \cup {None}, state : {"FREE", "PENDING", "ACTIVE", "DEAD"},
            ring : Ring, activity : Age, failed : Age, ctrl : Socket, psock : Socket]
Worker == [pc : {"none", "handshake", "publish", "exiting", "done"},
           ok : BOOLEAN, ctrl : Socket, psock : Socket]
Reader == [pc : {"none", "top", "recv", "done"}, sock : Socket]
Relay == [pc : RelayPC, key : Keys \cup {None}, dgram : Nat, cur : Sessions \cup {None},
          lag : 0 .. MaxLag, swept : 0 .. SweepPeriod, scan : SUBSET Keys]
Frame == [sess : Sessions \cup {None}, ctrl : Socket, psock : Socket, reader : BOOLEAN,
          ret : {"top", "cap", "sweep", "drain"}]

NoSession == [key |-> None, state |-> "FREE", ring |-> <<>>, activity |-> AgeCap,
              failed |-> AgeCap, ctrl |-> None, psock |-> None]
NoWorker == [pc |-> "none", ok |-> FALSE, ctrl |-> None, psock |-> None]
NoReader == [pc |-> "none", sock |-> None]
NoFrame == [sess |-> None, ctrl |-> None, psock |-> None, reader |-> FALSE, ret |-> "top"]

\* Every variable has its type; in particular no ring exceeds its array.
TypeOK ==
  /\ running \in BOOLEAN
  /\ sess \in [Sessions -> Session]
  /\ table \subseteq Sessions
  /\ count \in Int
  /\ worker \in [Sessions -> Worker]
  /\ reader \in [Sessions -> Reader]
  /\ relay \in Relay
  /\ frame \in Frame
  /\ owner \in [Handles -> Sessions \cup {None}]
  /\ handed \in [Keys -> Nat]
  /\ sent \in [Keys -> Seq(Nat)]

Init ==
  /\ running = TRUE
  /\ sess = [s \in Sessions |-> NoSession]
  /\ table = {}
  /\ count = 0
  /\ worker = [s \in Sessions |-> NoWorker]
  /\ reader = [s \in Sessions |-> NoReader]
  /\ relay = [pc |-> "top", key |-> None, dgram |-> 0, cur |-> None,
              lag |-> 0, swept |-> 0, scan |-> {}]
  /\ frame = NoFrame
  /\ owner = [h \in Handles |-> None]
  /\ handed = [k \in Keys |-> 0]
  /\ sent = [k \in Keys |-> <<>>]

-----------------------------------------------------------------------------
(* Helpers *)

Chain(k) == {s \in table : sess[s].key = k}

\* `now - then` in unsigned arithmetic, where `now` is the relay's earlier reading
\* of the clock: it wraps when `then` was recorded after that reading.
Elapsed(age) == (age - relay.lag) % Word

Older(age) == IF age < AgeCap THEN age + 1 ELSE age

\* Mutant: the last datagram in is the first out.
PushRing_Stack(ring, d) == IF Len(ring) >= RingMax THEN ring ELSE <<d>> \o ring

\* Mutant: one datagram more than the ring has room for.
PushRing_OffByOne(ring, d) == IF Len(ring) > RingMax THEN ring ELSE Append(ring, d)

PushRing(ring, d) == IF Len(ring) >= RingMax THEN ring ELSE Append(ring, d)

\* The copy of a datagram may lack memory; then it is dropped.
Buffered(ring, d) == {ring, PushRing(ring, d)}

\* Where the relay's next step is; its locals die when an iteration ends.
Goto(pc) == [relay EXCEPT !.pc = pc]
EndIteration == [relay EXCEPT !.pc = "top", !.key = None, !.dgram = 0, !.cur = None, !.lag = 0]
Resume(pc) == IF pc = "top" THEN EndIteration ELSE Goto(pc)

\* A number socket() may return.
Fresh(h) == /\ owner[h] = None
            /\ \/ HandleReuse
               \/ \A s \in Sessions : h \notin {sess[s].ctrl, sess[s].psock}

\* closesocket on each of hs; a recvfrom blocked on one of them fails.
CloseSockets(hs) ==
  /\ owner' = [h \in Handles |-> IF h \in hs THEN None ELSE owner[h]]
  /\ reader' = [s \in Sessions |->
                  IF reader[s].pc = "recv" /\ reader[s].sock \in hs
                  THEN [pc |-> "done", sock |-> None] ELSE reader[s]]

-----------------------------------------------------------------------------
(* Clock and Stop *)

\* The relay is inside an iteration and still uses the clock reading it took.
NowHeld == relay.pc \notin {"top", "select", "drain", "done"}

Tick ==
  /\ NowHeld => relay.lag < MaxLag
  /\ sess' = [s \in Sessions |->
                IF sess[s].state = "FREE" THEN sess[s]
                ELSE [sess[s] EXCEPT !.activity = Older(@), !.failed = Older(@)]]
  /\ relay' = [relay EXCEPT
                !.swept = IF @ < SweepPeriod THEN @ + 1 ELSE @,
                !.lag = IF NowHeld THEN @ + 1 ELSE @]
  /\ UNCHANGED <<running, table, count, worker, reader, frame, owner, handed, sent>>

Stop ==
  /\ running
  /\ running' = FALSE
  /\ UNCHANGED <<sess, table, count, worker, reader, relay, frame, owner, handed, sent>>

-----------------------------------------------------------------------------
(* Relay thread: the loop.  An iteration that sweeps and then dispatches is  *)
(* two iterations here; only the relay reads `running`, so the test between  *)
(* them is the same as a Stop that comes a little later.                     *)

LoopTest ==
  /\ relay.pc = "top"
  /\ relay' = Goto(IF running THEN "select" ELSE "drain")
  /\ UNCHANGED <<running, sess, table, count, worker, reader, frame, owner, handed, sent>>

SelectTimeout ==
  /\ relay.pc = "select"
  /\ relay.swept < SweepPeriod
  /\ relay' = EndIteration
  /\ UNCHANGED <<running, sess, table, count, worker, reader, frame, owner, handed, sent>>

\* A datagram of client k is read and fullcone_dispatch_v4/v6 called with it.
Receive(k) ==
  /\ relay.pc = "select"
  /\ relay.swept < SweepPeriod
  /\ handed[k] < MaxSend
  /\ handed' = [handed EXCEPT ![k] = @ + 1]
  /\ relay' = [relay EXCEPT !.pc = "lookup", !.key = k, !.dgram = handed[k] + 1, !.lag = 0]
  /\ UNCHANGED <<running, sess, table, count, worker, reader, frame, owner, sent>>

-----------------------------------------------------------------------------
(* Relay thread: fullcone_destroy_session *)

Destroy(s, ret) ==
  /\ frame' = [NoFrame EXCEPT !.sess = s, !.ret = ret]
  /\ relay' = Goto("unlink")

\* Mutant: the session is not marked DEAD, so a late worker still publishes.
Unlink_StaysPending ==
  LET s == frame.sess IN
  /\ relay.pc = "unlink"
  /\ table' = table \ {s}
  /\ count' = IF s \in table THEN count - 1 ELSE count
  /\ frame' = [frame EXCEPT !.ctrl = sess[s].ctrl, !.psock = sess[s].psock,
                            !.reader = reader[s].pc # "none"]
  /\ relay' = Goto("close")
  /\ UNCHANGED <<running, sess, worker, reader, owner, handed, sent>>

Unlink ==
  LET s == frame.sess IN
  /\ relay.pc = "unlink"
  /\ table' = table \ {s}
  /\ count' = IF s \in table THEN count - 1 ELSE count
  /\ sess' = [sess EXCEPT ![s].state = "DEAD"]
  /\ frame' = [frame EXCEPT !.ctrl = sess[s].ctrl, !.psock = sess[s].psock,
                            !.reader = reader[s].pc # "none"]
  /\ relay' = Goto("close")
  /\ UNCHANGED <<running, worker, reader, owner, handed, sent>>

\* Mutant: only the control connection is closed, the reader stays blocked.
CloseBoth_ControlOnly ==
  /\ relay.pc = "close"
  /\ CloseSockets({frame.ctrl})
  /\ relay' = Goto("joinw")
  /\ UNCHANGED <<running, sess, table, count, worker, frame, handed, sent>>

CloseBoth ==
  /\ relay.pc = "close"
  /\ CloseSockets({frame.ctrl, frame.psock})
  /\ relay' = Goto("joinw")
  /\ UNCHANGED <<running, sess, table, count, worker, frame, handed, sent>>

JoinWorker ==
  /\ relay.pc = "joinw"
  /\ worker[frame.sess].pc = "done"
  /\ relay' = Goto("joinr")
  /\ UNCHANGED <<running, sess, table, count, worker, reader, frame, owner, handed, sent>>

\* The reader is joined if the session had one when it was unlinked; then
\* the ring is cleared, the thread handles closed and the structure freed.
JoinReaderAndFree ==
  LET s == frame.sess IN
  /\ relay.pc = "joinr"
  /\ frame.reader => reader[s].pc = "done"
  /\ sess' = [sess EXCEPT ![s] = NoSession]
  /\ worker' = [worker EXCEPT ![s] = IF @.pc = "done" THEN NoWorker ELSE @]
  /\ reader' = [reader EXCEPT ![s] = IF @.pc = "done" THEN NoReader ELSE @]
  /\ frame' = NoFrame
  /\ relay' = Resume(frame.ret)
  /\ UNCHANGED <<running, table, count, owner, handed, sent>>

-----------------------------------------------------------------------------
(* Relay thread: fullcone_dispatch_v4 / _v6 *)

LookupActive(s) ==
  /\ relay.pc = "lookup" /\ s \in Chain(relay.key)
  /\ sess[s].state = "ACTIVE"
  /\ sess' = [sess EXCEPT ![s].activity = relay.lag]
  /\ relay' = [relay EXCEPT !.pc = "send", !.cur = s]
  /\ UNCHANGED <<running, table, count, worker, reader, frame, owner, handed, sent>>

LookupPending(s) ==
  /\ relay.pc = "lookup" /\ s \in Chain(relay.key)
  /\ sess[s].state = "PENDING"
  /\ \E ring \in Buffered(sess[s].ring, relay.dgram) :
       sess' = [sess EXCEPT ![s].ring = ring, ![s].activity = relay.lag]
  /\ relay' = EndIteration
  /\ UNCHANGED <<running, table, count, worker, reader, frame, owner, handed, sent>>

LookupGuarded(s) ==
  /\ relay.pc = "lookup" /\ s \in Chain(relay.key)
  /\ sess[s].state = "DEAD" /\ Elapsed(sess[s].failed) < FailGuard
  /\ relay' = EndIteration
  /\ UNCHANGED <<running, sess, table, count, worker, reader, frame, owner, handed, sent>>

\* Mutant: once the guard has elapsed a new session is created on top of the dead one.
LookupReap_KeepsDead(s) ==
  /\ relay.pc = "lookup" /\ s \in Chain(relay.key)
  /\ sess[s].state = "DEAD" /\ Elapsed(sess[s].failed) >= FailGuard
  /\ relay' = Goto("cap")
  /\ UNCHANGED <<running, sess, table, count, worker, reader, frame, owner, handed, sent>>

LookupReap(s) ==
  /\ relay.pc = "lookup" /\ s \in Chain(relay.key)
  /\ sess[s].state = "DEAD" /\ Elapsed(sess[s].failed) >= FailGuard
  /\ Destroy(s, "cap")
  /\ UNCHANGED <<running, sess, table, count, worker, reader, owner, handed, sent>>

LookupNone ==
  /\ relay.pc = "lookup" /\ Chain(relay.key) = {}
  /\ relay' = Goto("cap")
  /\ UNCHANGED <<running, sess, table, count, worker, reader, frame, owner, handed, sent>>

SendOk ==
  /\ relay.pc = "send"
  /\ sent' = [sent EXCEPT ![relay.key] = Append(@, relay.dgram)]
  /\ relay' = EndIteration
  /\ UNCHANGED <<running, sess, table, count, worker, reader, frame, owner, handed>>

SendError ==
  /\ relay.pc = "send"
  /\ Destroy(relay.cur, "top")
  /\ UNCHANGED <<running, sess, table, count, worker, reader, owner, handed, sent>>

\* Mutant: off by one at the cap.
CapCheck_OffByOne ==
  /\ relay.pc = "cap"
  /\ relay' = IF count > MaxSessions THEN EndIteration ELSE Goto("insert")
  /\ UNCHANGED <<running, sess, table, count, worker, reader, frame, owner, handed, sent>>

CapCheck ==
  /\ relay.pc = "cap"
  /\ relay' = IF count >= MaxSessions THEN EndIteration ELSE Goto("insert")
  /\ UNCHANGED <<running, sess, table, count, worker, reader, frame, owner, handed, sent>>

\* No tracked client for the port, or calloc or CreateThread failed.
InsertFails ==
  /\ relay.pc = "insert"
  /\ relay' = EndIteration
  /\ UNCHANGED <<running, sess, table, count, worker, reader, frame, owner, handed, sent>>

Insert(s) ==
  /\ relay.pc = "insert"
  /\ sess[s].state = "FREE"
  /\ \E ring \in Buffered(<<>>, relay.dgram) :
       sess' = [sess EXCEPT ![s] = [NoSession EXCEPT !.key = relay.key, !.state = "PENDING",
                                                     !.ring = ring, !.activity = relay.lag]]
  /\ worker' = [worker EXCEPT ![s] = [NoWorker EXCEPT !.pc = "handshake"]]
  /\ table' = table \cup {s}
  /\ count' = count + 1
  /\ relay' = EndIteration
  /\ UNCHANGED <<running, reader, frame, owner, handed, sent>>

-----------------------------------------------------------------------------
(* Relay thread: fullcone_sweep (one bucket per key) and the shutdown loop *)

BeginSweep ==
  /\ relay.pc = "select"
  /\ relay.swept = SweepPeriod
  /\ relay' = [relay EXCEPT !.pc = "sweep", !.lag = 0, !.swept = 0, !.scan = Keys]
  /\ UNCHANGED <<running, sess, table, count, worker, reader, frame, owner, handed, sent>>

\* Mutant: the idle limit is tested with >=.
Victims_Early(k) == {s \in Chain(k) :
  \/ sess[s].state = "ACTIVE" /\ Elapsed(sess[s].activity) >= IdleTimeout
  \/ sess[s].state = "DEAD" /\ Elapsed(sess[s].failed) > FailGuard}

\* Mutant: only failed sessions are swept.
Victims_DeadOnly(k) == {s \in Chain(k) :
  sess[s].state = "DEAD" /\ Elapsed(sess[s].failed) > FailGuard}

Victims(k) == {s \in Chain(k) :
  \/ sess[s].state = "ACTIVE" /\ Elapsed(sess[s].activity) > IdleTimeout
  \/ sess[s].state = "DEAD" /\ Elapsed(sess[s].failed) > FailGuard}

SweepVictim(s) ==
  /\ relay.pc = "sweep"
  /\ \E k \in relay.scan : s \in Victims(k)
  /\ Destroy(s, "sweep")
  /\ UNCHANGED <<running, sess, table, count, worker, reader, owner, handed, sent>>

SweepBucket(k) ==
  /\ relay.pc = "sweep"
  /\ k \in relay.scan /\ Victims(k) = {}
  /\ relay' = [relay EXCEPT !.scan = @ \ {k}]
  /\ UNCHANGED <<running, sess, table, count, worker, reader, frame, owner, handed, sent>>

SweepEnd ==
  /\ relay.pc = "sweep" /\ relay.scan = {}
  /\ relay' = EndIteration
  /\ UNCHANGED <<running, sess, table, count, worker, reader, frame, owner, handed, sent>>

DrainOne(s) ==
  /\ relay.pc = "drain" /\ s \in table
  /\ Destroy(s, "drain")
  /\ UNCHANGED <<running, sess, table, count, worker, reader, owner, handed, sent>>

DrainEnd ==
  /\ relay.pc = "drain" /\ table = {}
  /\ count' = 0
  /\ relay' = Goto("done")
  /\ UNCHANGED <<running, sess, table, worker, reader, frame, owner, handed, sent>>

-----------------------------------------------------------------------------
(* Worker thread: fullcone_connect_worker *)

\* Everything before the lock: the TCP control socket t, then the UDP socket u.
\* The handshake succeeds exactly when u exists.
Handshake(s) ==
  /\ worker[s].pc = "handshake"
  /\ \E t, u \in {h \in Handles : Fresh(h)} \cup {None} :
       /\ t = None => u = None
       /\ t = u => u = None
       /\ owner' = [h \in Handles |-> IF h \in {t, u} THEN s ELSE owner[h]]
       /\ worker' = [worker EXCEPT ![s] =
                       [pc |-> "publish", ok |-> u # None, ctrl |-> t, psock |-> u]]
  /\ UNCHANGED <<running, sess, table, count, reader, relay, frame, handed, sent>>

Exiting(s) == worker' = [worker EXCEPT ![s] = [NoWorker EXCEPT !.pc = "exiting"]]

\* Mutant: the worker returns without dropping its sockets.
WorkerBail_KeepsSockets(s) ==
  /\ worker[s].pc = "publish" /\ sess[s].state # "PENDING"
  /\ Exiting(s)
  /\ UNCHANGED <<running, sess, table, count, reader, relay, frame, owner, handed, sent>>

\* Torn down during the handshake: drop our sockets.
WorkerBail(s) ==
  /\ worker[s].pc = "publish" /\ sess[s].state # "PENDING"
  /\ CloseSockets({worker[s].ctrl, worker[s].psock})
  /\ Exiting(s)
  /\ UNCHANGED <<running, sess, table, count, relay, frame, handed, sent>>

\* Mutant: the ring is not cleared when the handshake fails.
WorkerFails_KeepsRing(s) ==
  /\ worker[s].pc = "publish" /\ sess[s].state = "PENDING" /\ ~worker[s].ok
  /\ CloseSockets({worker[s].ctrl, worker[s].psock})
  /\ sess' = [sess EXCEPT ![s].failed = 0, ![s].state = "DEAD"]
  /\ Exiting(s)
  /\ UNCHANGED <<running, table, count, relay, frame, handed, sent>>

WorkerFails(s) ==
  /\ worker[s].pc = "publish" /\ sess[s].state = "PENDING" /\ ~worker[s].ok
  /\ CloseSockets({worker[s].ctrl, worker[s].psock})
  /\ sess' = [sess EXCEPT ![s].ring = <<>>, ![s].failed = 0, ![s].state = "DEAD"]
  /\ Exiting(s)
  /\ UNCHANGED <<running, table, count, relay, frame, handed, sent>>

\* The session once the worker has handed its sockets over and flushed the ring.
Published(s) == [sess[s] EXCEPT !.ctrl = worker[s].ctrl, !.psock = worker[s].psock,
                                !.ring = <<>>, !.activity = 0]

\* Publish the sockets, flush the ring in order, go ACTIVE and start the
\* reader, whose CreateThread may fail.
WorkerPublishes(s) ==
  /\ worker[s].pc = "publish" /\ sess[s].state = "PENDING" /\ worker[s].ok
  /\ sent' = [sent EXCEPT ![sess[s].key] = @ \o sess[s].ring]
  /\ \/ /\ sess' = [sess EXCEPT ![s] = [Published(s) EXCEPT !.state = "ACTIVE"]]
        /\ reader' = [reader EXCEPT ![s] = [pc |-> "top", sock |-> None]]
     \/ /\ sess' = [sess EXCEPT ![s] = [Published(s) EXCEPT !.failed = 0, !.state = "DEAD"]]
        /\ UNCHANGED reader
  /\ Exiting(s)
  /\ UNCHANGED <<running, table, count, relay, frame, owner, handed>>

\* The log line after the unlock still reads s->client_port.
WorkerExit(s) ==
  /\ worker[s].pc = "exiting"
  /\ worker' = [worker EXCEPT ![s].pc = "done"]
  /\ UNCHANGED <<running, sess, table, count, reader, relay, frame, owner, handed, sent>>

-----------------------------------------------------------------------------
(* Reader thread: fullcone_session_reader *)

\* recvfrom(s->proxy_sock): the number is read from the structure on each call.
ReaderEnter(s) ==
  LET h == sess[s].psock IN
  /\ reader[s].pc = "top"
  /\ reader' = [reader EXCEPT ![s] =
                  IF h \in Handles /\ owner[h] # None
                  THEN [pc |-> "recv", sock |-> h] ELSE [pc |-> "done", sock |-> None]]
  /\ UNCHANGED <<running, sess, table, count, worker, relay, frame, owner, handed, sent>>

\* A datagram: forwarded to the client if well formed, else skipped.
ReaderRecv(s) ==
  /\ reader[s].pc = "recv"
  /\ \/ sess' = [sess EXCEPT ![s].activity = 0]
     \/ UNCHANGED sess
  /\ reader' = [reader EXCEPT ![s] = [pc |-> "top", sock |-> None]]
  /\ UNCHANGED <<running, table, count, worker, relay, frame, owner, handed, sent>>

\* An error or an empty datagram ends the thread.
ReaderBreak(s) ==
  /\ reader[s].pc = "recv"
  /\ reader' = [reader EXCEPT ![s] = [pc |-> "done", sock |-> None]]
  /\ UNCHANGED <<running, sess, table, count, worker, relay, frame, owner, handed, sent>>

-----------------------------------------------------------------------------

RelayStep ==
  \/ LoopTest \/ SelectTimeout
  \/ Unlink \/ CloseBoth \/ JoinWorker \/ JoinReaderAndFree
  \/ LookupNone \/ SendOk \/ SendError \/ CapCheck \/ InsertFails
  \/ BeginSweep \/ SweepEnd \/ DrainEnd
  \/ \E s \in Sessions : \/ LookupActive(s) \/ LookupPending(s)
                         \/ LookupGuarded(s) \/ LookupReap(s)
                         \/ Insert(s) \/ SweepVictim(s) \/ DrainOne(s)
  \/ \E k \in Keys : SweepBucket(k)

WorkerStep(s) ==
  Handshake(s) \/ WorkerBail(s) \/ WorkerFails(s) \/ WorkerPublishes(s) \/ WorkerExit(s)

ReaderStep(s) == ReaderEnter(s) \/ ReaderRecv(s) \/ ReaderBreak(s)

Next ==
  \/ Tick \/ Stop \/ RelayStep
  \/ \E k \in Keys : Receive(k)
  \/ \E s \in Sessions : WorkerStep(s) \/ ReaderStep(s)

Spec == Init /\ [][Next]_vars

\* The clock runs; the relay and every worker keep taking steps (their blocking
\* calls time out); a reader enters recvfrom, but need never receive anything.
Fairness ==
  /\ WF_vars(Tick) /\ WF_vars(RelayStep)
  /\ \A s \in Sessions : WF_vars(WorkerStep(s)) /\ WF_vars(ReaderEnter(s))

FairSpec == Spec /\ Fairness

-----------------------------------------------------------------------------
(* Properties *)

\* The ownership contract (ProxyBridge.c:3447-3451): only the relay frees a
\* session, after unlinking it and joining its threads, so no thread still
\* running and no table entry or local of the relay refers to freed memory.
NoUseAfterFree ==
  \A s \in Sessions :
    sess[s].state = "FREE" =>
      /\ s \notin table
      /\ worker[s].pc \in {"none", "done"}
      /\ reader[s].pc \in {"none", "done"}
      /\ relay.pc = "send" => relay.cur # s
      /\ relay.pc \in DestroyPC => frame.sess # s

\* A client socket has at most one session, whatever reaping, retries and
\* re-creations happened before (the lookup stops at the first match).
OneSessionPerKey ==
  \A s, r \in table : sess[s].key = sess[r].key => s = r

\* g_fullcone_session_count is the number of linked sessions and never passes
\* the cap, so a destroyed session always gives its place back.
CountIsTableSize == count = Cardinality(table) /\ count <= MaxSessions

\* Why the two properties above hold: where each thread of a session can be
\* for every place the relay can be in fullcone_destroy_session and dispatch.
JoiningPC == DestroyPC \ {"unlink"}

Ownership ==
  /\ relay.pc = "unlink" => frame.sess \in table
  /\ relay.pc \in JoiningPC =>
       /\ frame.sess \in Sessions \ table
       /\ sess[frame.sess].state = "DEAD"
       /\ frame.reader <=> reader[frame.sess].pc # "none"
  /\ relay.pc = "joinr" => worker[frame.sess].pc = "done"
  /\ relay.pc = "send" => relay.cur \in table /\ sess[relay.cur].state = "ACTIVE"
  /\ \A s \in Sessions :
       /\ sess[s].state = "FREE" =>
            s \notin table /\ worker[s].pc = "none" /\ reader[s].pc = "none"
       /\ sess[s].state # "FREE" =>
            s \in table \/ (relay.pc \in JoiningPC /\ frame.sess = s)
       /\ reader[s].pc # "none" => worker[s].pc \in {"exiting", "done"}
       /\ s \in table =>
            (sess[s].state = "PENDING" <=> worker[s].pc \in {"handshake", "publish"})

KeyReserved ==
  /\ relay.pc \in {"cap", "insert"} => Chain(relay.key) = {}
  /\ relay.pc \in DestroyPC /\ frame.ret = "cap" => Chain(relay.key) \subseteq {frame.sess}

\* An invariant that is inductive together with TypeOK; it implies
\* NoUseAfterFree.
ControlInv == Ownership /\ KeyReserved /\ OneSessionPerKey

\* The sockets session s must still close: those of a worker that has not
\* published them, those in the structure until destroy has closed them.
Held(s) ==
  (IF worker[s].pc = "publish" THEN {worker[s].ctrl, worker[s].psock} ELSE {})
  \cup (IF s \in table THEN {sess[s].ctrl, sess[s].psock} ELSE {})
  \cup (IF relay.pc = "close" /\ frame.sess = s THEN {frame.ctrl, frame.psock} ELSE {})

\* No socket is leaked (open with nobody left to close it) and none is closed
\* twice or used after its close (still held, but no longer open for s).
SocketsOwned ==
  \A s \in Sessions : {h \in Handles : owner[h] = s} = Held(s) \ {None}

\* The relay never observes a half-built session (comment at 3515-3517): a
\* linked session either waits for its worker, with nothing published, or is
\* ACTIVE with both sockets, an empty ring and a reader that was started, or
\* is DEAD with an empty ring.
NoHalfBuiltSession ==
  \A s \in table :
    CASE sess[s].state = "PENDING" ->
           /\ worker[s].pc \in {"handshake", "publish"}
           /\ sess[s].ctrl = None /\ sess[s].psock = None /\ reader[s].pc = "none"
      [] sess[s].state = "ACTIVE" ->
           /\ sess[s].ctrl \in Handles /\ sess[s].psock \in Handles
           /\ sess[s].ring = <<>> /\ reader[s].pc # "none"
      [] sess[s].state = "DEAD" -> sess[s].ring = <<>>
      [] OTHER -> FALSE

\* Datagrams reach the proxy in the order the client sent them and at most
\* once, across the handshake buffer, the switch to direct sending, and any
\* number of session resets.
Promise == INSTANCE DatagramOrder WITH Keys <- Keys, handed <- handed, sent <- sent
PromisedOrder == Promise!Spec

\* The relay decides to destroy s in a sweep or when reaping it.
Condemned(s) ==
  frame.sess # s /\ frame'.sess = s /\ frame'.ret \in {"cap", "sweep"}

\* A failed session holds back new attempts for FAIL_GUARD (comment at 3583) and
\* an ACTIVE one is kept for IDLE_TIMEOUT, except in one case: the event was
\* recorded after the relay read the clock and the unsigned difference wrapped.
TimersUnlessWrapped ==
  [][\A s \in Sessions : Condemned(s) =>
       \/ sess[s].state = "DEAD"
          /\ (sess[s].failed >= FailGuard \/ sess[s].failed < relay.lag)
       \/ sess[s].state = "ACTIVE"
          /\ (sess[s].activity > IdleTimeout \/ sess[s].activity < relay.lag)]_vars

\* Destroying a session is bounded (comment at 3659-3661): closing its sockets
\* ends its reader, so the relay never waits for ever in the join.
DestroyCompletes == relay.pc = "joinr" ~> relay.pc # "joinr"

\* A session without traffic is not kept for ever.
IdleIsSwept ==
  \A s \in Sessions :
    []<>~(sess[s].state = "ACTIVE" /\ sess[s].activity = AgeCap)

\* After Stop the relay thread ends, with every session freed, every socket
\* closed and no worker or reader left behind.
ShutdownCompletes ==
  ~running ~> /\ relay.pc = "done" /\ count = 0
              /\ \A s \in Sessions : /\ sess[s].state = "FREE"
                                      /\ worker[s].pc \in {"none", "done"}
                                      /\ reader[s].pc \in {"none", "done"}
              /\ \A h \in Handles : owner[h] = None
=============================================================================
