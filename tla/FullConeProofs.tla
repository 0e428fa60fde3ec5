-------------------------- MODULE FullConeProofs --------------------------
(***************************************************************************)
(* Machine-checked facts about FullCone, for every value of its constants. *)
(***************************************************************************)
EXTENDS FullCone, FiniteSetTheorems, SequenceTheorems, TLAPS

-----------------------------------------------------------------------------
(* Helpers *)

\* Ages stay in range.
LEMMA AgeFacts ==
  /\ AgeCap \in Nat
  /\ 0 \in Age /\ AgeCap \in Age /\ 0 .. MaxLag \subseteq Age
  /\ \A a \in Age : Older(a) \in Age
BY FullConeConstants DEF AgeCap, Age, Older

\* fullcone_ring_push never exceeds the bound of the ring.
LEMMA PushRingType ==
  /\ <<>> \in Ring
  /\ \A r \in Ring, d \in Nat : PushRing(r, d) \in Ring
<1>1. <<>> \in Ring
  BY FullConeConstants DEF Ring
<1>2. ASSUME NEW r \in Ring, NEW d \in Nat
      PROVE  PushRing(r, d) \in Ring
  <2>1. CASE Len(r) >= RingMax
    BY <2>1 DEF PushRing
  <2>2. CASE ~(Len(r) >= RingMax)
    <3>1. r \in Seq(Nat) /\ Len(r) \in Nat /\ RingMax \in Nat
      BY FullConeConstants DEF Ring
    <3>2. Append(r, d) \in Seq(Nat) /\ Len(Append(r, d)) = Len(r) + 1
      BY <3>1
    <3>3. Len(Append(r, d)) <= RingMax
      BY <2>2, <3>1, <3>2
    <3> QED
      BY <2>2, <3>2, <3>3 DEF PushRing, Ring
  <2> QED
    BY <2>1, <2>2
<1> QED
  BY <1>1, <1>2

\* The values of unused cells have the types of used ones.
LEMMA NullTypes ==
  NoSession \in Session /\ NoWorker \in Worker /\ NoReader \in Reader /\ NoFrame \in Frame
BY AgeFacts, PushRingType DEF NoSession, NoWorker, NoReader, NoFrame, Session, Worker, Reader, Frame, Socket

\* Moving the relay's program counter keeps its type.
LEMMA RelayTypes ==
  ASSUME TypeOK
  PROVE  /\ \A pc \in RelayPC : Goto(pc) \in Relay
         /\ DestroyPC \subseteq RelayPC
         /\ EndIteration \in Relay
         /\ Resume(frame.ret) \in Relay
<1>1. relay \in Relay /\ frame.ret \in {"top", "cap", "sweep", "drain"}
  BY DEF TypeOK, Frame
<1>2. \A pc \in RelayPC : Goto(pc) \in Relay
  BY <1>1 DEF Goto, Relay
<1>3. EndIteration \in Relay
  <2>1. 0 \in 0 .. MaxLag
    BY FullConeConstants
  <2>2. "top" \in RelayPC
    BY DEF RelayPC
  <2> QED
    BY <1>1, <2>1, <2>2 DEF EndIteration, Relay
<1>4. Resume(frame.ret) \in Relay
  BY <1>1, <1>2, <1>3 DEF Resume, RelayPC
<1> QED
  BY <1>2, <1>3, <1>4 DEF RelayPC

\* Closing sockets disturbs only their owners and the readers waiting on them.
LEMMA CloseTypes ==
  ASSUME TypeOK, NEW hs, CloseSockets(hs)
  PROVE  /\ owner' \in [Handles -> Sessions \cup {None}]
         /\ reader' \in [Sessions -> Reader]
BY DEF TypeOK, CloseSockets, Reader, Socket

-----------------------------------------------------------------------------
(* Type correctness *)

\* The relay starts with every variable of its type.
LEMMA InitType == Init => TypeOK
BY NullTypes, FullConeConstants DEF Init, TypeOK, Relay, RelayPC

\* Entering fullcone_destroy_session keeps the types of its locals.
LEMMA DestroyType ==
  ASSUME TypeOK, NEW s \in Sessions \cup {None}, NEW ret \in {"top", "cap", "sweep", "drain"},
         Destroy(s, ret)
  PROVE  relay' \in Relay /\ frame' \in Frame
BY RelayTypes, NullTypes DEF Destroy, Frame, NoFrame, Socket, RelayPC, DestroyPC

\* What the relay's locals must name before it follows them.
LocalsOK ==
  /\ relay.pc \in DestroyPC => frame.sess \in Sessions
  /\ relay.pc = "send" => relay.cur \in Sessions

\* Type correctness is kept by the relay thread.
LEMMA RelayStepType ==
  ASSUME TypeOK, LocalsOK, RelayStep
  PROVE  TypeOK'
<1> USE RelayTypes
<1>1. CASE LoopTest
  BY <1>1 DEF LoopTest, TypeOK, RelayPC
<1>2. CASE SelectTimeout
  BY <1>2 DEF SelectTimeout, TypeOK
<1>3. CASE Unlink
  <2> DEFINE s == frame.sess
  <2>1. s \in Sessions
    BY <1>3 DEF Unlink, LocalsOK, DestroyPC
  <2>2. sess[s] \in Session /\ frame \in Frame
    BY <2>1 DEF TypeOK
  <2>3. [sess[s] EXCEPT !.state = "DEAD"] \in Session
    BY <2>2 DEF Session
  <2>4. sess' \in [Sessions -> Session]
    BY <1>3, <2>3 DEF Unlink, TypeOK
  <2>5. frame' \in Frame
    BY <1>3, <2>2 DEF Unlink, Frame, Session
  <2>6. relay' \in Relay
    BY <1>3 DEF Unlink, DestroyPC
  <2> QED
    BY <1>3, <2>4, <2>5, <2>6 DEF Unlink, TypeOK
<1>4. CASE CloseBoth
  BY <1>4, CloseTypes DEF CloseBoth, TypeOK, DestroyPC
<1>5. CASE JoinWorker
  BY <1>5 DEF JoinWorker, TypeOK, DestroyPC
<1>6. CASE JoinReaderAndFree
  BY <1>6, NullTypes DEF JoinReaderAndFree, TypeOK
<1>7. CASE LookupNone
  BY <1>7 DEF LookupNone, TypeOK, RelayPC
<1>8. CASE SendOk
  <2>1. relay.dgram \in Nat
    BY DEF TypeOK, Relay
  <2>2. \A k \in Keys : Append(sent[k], relay.dgram) \in Seq(Nat)
    BY <2>1 DEF TypeOK
  <2>3. sent' \in [Keys -> Seq(Nat)]
    BY <1>8, <2>2 DEF SendOk, TypeOK
  <2> QED
    BY <1>8, <2>3 DEF SendOk, TypeOK
<1>9. CASE SendError
  <2>1. relay.cur \in Sessions \cup {None}
    BY DEF TypeOK, Relay
  <2>2. relay' \in Relay /\ frame' \in Frame
    BY <1>9, <2>1, DestroyType DEF SendError
  <2> QED
    BY <1>9, <2>2 DEF SendError, TypeOK
<1>10. CASE CapCheck
  BY <1>10 DEF CapCheck, TypeOK, RelayPC
<1>11. CASE InsertFails
  BY <1>11 DEF InsertFails, TypeOK
<1>12. CASE BeginSweep
  <2>1. 0 \in 0 .. MaxLag /\ 0 \in 0 .. SweepPeriod /\ "sweep" \in RelayPC
         /\ Keys \in SUBSET Keys
    BY FullConeConstants DEF RelayPC
  <2>2. [relay EXCEPT !.pc = "sweep", !.lag = 0, !.swept = 0, !.scan = Keys] \in Relay
    BY <2>1 DEF TypeOK, Relay
  <2>3. relay' \in Relay
    BY <1>12, <2>2 DEF BeginSweep
  <2> QED
    BY <1>12, <2>3 DEF BeginSweep, TypeOK
<1>13. CASE SweepEnd
  BY <1>13 DEF SweepEnd, TypeOK
<1>14. CASE DrainEnd
  BY <1>14 DEF DrainEnd, TypeOK, RelayPC
<1>15. ASSUME NEW s \in Sessions, LookupActive(s)
       PROVE  TypeOK'
  <2>1. relay.lag \in Age
    BY AgeFacts DEF TypeOK, Relay
  <2>2. [sess[s] EXCEPT !.activity = relay.lag] \in Session
    BY <2>1 DEF TypeOK, Session
  <2>3. sess' \in [Sessions -> Session]
    BY <1>15, <2>2 DEF LookupActive, TypeOK
  <2>4. relay' \in Relay
    BY <1>15 DEF LookupActive, TypeOK, Relay, RelayPC
  <2> QED
    BY <1>15, <2>3, <2>4 DEF LookupActive, TypeOK
<1>16. ASSUME NEW s \in Sessions, LookupPending(s)
       PROVE  TypeOK'
  <2>1. relay.lag \in Age /\ relay.dgram \in Nat /\ sess[s] \in Session
    BY AgeFacts DEF TypeOK, Relay
  <2>2. Buffered(sess[s].ring, relay.dgram) \subseteq Ring
    BY <2>1, PushRingType DEF Session, Buffered
  <2>3. \A ring \in Ring : [sess[s] EXCEPT !.ring = ring, !.activity = relay.lag] \in Session
    BY <2>1 DEF Session
  <2>4. sess' \in [Sessions -> Session]
    <3>1. PICK ring \in Ring :
            sess' = [sess EXCEPT ![s].ring = ring, ![s].activity = relay.lag]
      BY <1>16, <2>2 DEF LookupPending
    <3> QED
      BY <2>3, <3>1 DEF TypeOK
  <2> QED
    BY <1>16, <2>4 DEF LookupPending, TypeOK
<1>17. ASSUME NEW s \in Sessions, LookupGuarded(s)
       PROVE  TypeOK'
  BY <1>17 DEF LookupGuarded, TypeOK
<1>18. ASSUME NEW s \in Sessions, LookupReap(s)
       PROVE  TypeOK'
  BY <1>18, DestroyType DEF LookupReap, TypeOK
<1>19. ASSUME NEW s \in Sessions, Insert(s)
       PROVE  TypeOK'
  <2>1. relay.lag \in Age /\ relay.dgram \in Nat /\ relay.key \in Keys \cup {None}
    BY AgeFacts DEF TypeOK, Relay
  <2>2. Buffered(<<>>, relay.dgram) \subseteq Ring
    BY <2>1, PushRingType DEF Buffered
  <2>3. \A ring \in Ring :
          [NoSession EXCEPT !.key = relay.key, !.state = "PENDING",
                            !.ring = ring, !.activity = relay.lag] \in Session
    BY <2>1, NullTypes DEF Session, NoSession
  <2>4. sess' \in [Sessions -> Session]
    <3>1. PICK ring \in Ring :
            sess' = [sess EXCEPT ![s] = [NoSession EXCEPT !.key = relay.key, !.state = "PENDING",
                                                          !.ring = ring, !.activity = relay.lag]]
      BY <1>19, <2>2 DEF Insert
    <3> QED
      BY <2>3, <3>1 DEF TypeOK
  <2>5. worker' \in [Sessions -> Worker]
    BY <1>19, NullTypes DEF Insert, TypeOK, Worker
  <2> QED
    BY <1>19, <2>4, <2>5 DEF Insert, TypeOK
<1>20. ASSUME NEW s \in Sessions, SweepVictim(s)
       PROVE  TypeOK'
  BY <1>20, DestroyType DEF SweepVictim, TypeOK
<1>21. ASSUME NEW s \in Sessions, DrainOne(s)
       PROVE  TypeOK'
  BY <1>21, DestroyType DEF DrainOne, TypeOK
<1>22. ASSUME NEW k \in Keys, SweepBucket(k)
       PROVE  TypeOK'
  BY <1>22 DEF SweepBucket, TypeOK, Relay
<1> QED
  BY <1>1, <1>2, <1>3, <1>4, <1>5, <1>6, <1>7, <1>8, <1>9, <1>10, <1>11, <1>12, <1>13,
     <1>14, <1>15, <1>16, <1>17, <1>18, <1>19, <1>20, <1>21, <1>22 DEF RelayStep

\* What a successful worker publishes: its sockets, an empty ring, a new state.
LEMMA PublishFacts ==
  ASSUME TypeOK, NEW s \in Sessions, WorkerPublishes(s)
  PROVE  \E r \in Session :
           /\ sess' = [sess EXCEPT ![s] = r]
           /\ r.key = sess[s].key /\ r.ctrl = worker[s].ctrl /\ r.psock = worker[s].psock
           /\ r.state \in {"ACTIVE", "DEAD"}
<1>1. sess[s] \in Session /\ worker[s] \in Worker /\ <<>> \in Ring
  BY PushRingType DEF TypeOK
<1>2. /\ Published(s) \in Session
      /\ Published(s).key = sess[s].key
      /\ Published(s).ctrl = worker[s].ctrl /\ Published(s).psock = worker[s].psock
  BY <1>1, AgeFacts DEF Published, Session, Worker
<1>3. PICK r \in {[Published(s) EXCEPT !.state = "ACTIVE"],
                  [Published(s) EXCEPT !.failed = 0, !.state = "DEAD"]} :
        sess' = [sess EXCEPT ![s] = r]
  BY DEF WorkerPublishes
<1>4. /\ r \in Session /\ r.key = Published(s).key
      /\ r.ctrl = Published(s).ctrl /\ r.psock = Published(s).psock
      /\ r.state \in {"ACTIVE", "DEAD"}
  BY <1>2, AgeFacts DEF Session
<1> QED
  BY <1>2, <1>3, <1>4

\* Type correctness is kept by a worker thread.
LEMMA WorkerStepType ==
  ASSUME TypeOK, NEW s \in Sessions, WorkerStep(s)
  PROVE  TypeOK'
<1>1. Exiting(s) => worker' \in [Sessions -> Worker]
  <2>1. [NoWorker EXCEPT !.pc = "exiting"] \in Worker
    BY NullTypes DEF Worker
  <2> QED
    BY <2>1 DEF Exiting, TypeOK
<1>2. sess[s] \in Session /\ worker[s] \in Worker
  BY DEF TypeOK
<1>3. CASE Handshake(s)
  <2>1. PICK t, u \in Socket :
          /\ owner' = [h \in Handles |-> IF h \in {t, u} THEN s ELSE owner[h]]
          /\ worker' = [worker EXCEPT ![s] =
                          [pc |-> "publish", ok |-> u # None, ctrl |-> t, psock |-> u]]
    BY <1>3 DEF Handshake, Socket
  <2>2. owner' \in [Handles -> Sessions \cup {None}]
    BY <2>1 DEF TypeOK
  <2>3. [pc |-> "publish", ok |-> u # None, ctrl |-> t, psock |-> u] \in Worker
    <3>1. (u # None) \in BOOLEAN
      OBVIOUS
    <3> QED
      BY <3>1 DEF Worker
  <2>4. worker' \in [Sessions -> Worker]
    BY <2>1, <2>3 DEF TypeOK
  <2> QED
    BY <1>3, <2>2, <2>4 DEF Handshake, TypeOK
<1>4. CASE WorkerBail(s)
  <2>1. owner' \in [Handles -> Sessions \cup {None}] /\ reader' \in [Sessions -> Reader]
    BY <1>4, CloseTypes DEF WorkerBail
  <2>2. worker' \in [Sessions -> Worker]
    BY <1>1, <1>4 DEF WorkerBail
  <2> QED
    BY <1>4, <2>1, <2>2 DEF WorkerBail, TypeOK
<1>5. CASE WorkerFails(s)
  <2>1. <<>> \in Ring
    BY PushRingType
  <2>2. [sess[s] EXCEPT !.ring = <<>>, !.failed = 0, !.state = "DEAD"] \in Session
    BY <1>2, <2>1, AgeFacts DEF Session
  <2>3. sess' \in [Sessions -> Session]
    BY <1>5, <2>2 DEF WorkerFails, TypeOK
  <2> QED
    BY <1>1, <1>5, <2>3, CloseTypes DEF WorkerFails, TypeOK
<1>6. CASE WorkerPublishes(s)
  <2>3. sess' \in [Sessions -> Session]
    BY <1>6, PublishFacts DEF TypeOK
  <2>4. reader' \in [Sessions -> Reader]
    <3>1. [pc |-> "top", sock |-> None] \in Reader
      BY DEF Reader, Socket
    <3> QED
      BY <1>6, <3>1 DEF WorkerPublishes, TypeOK
  <2>5. sess[s].ring \in Seq(Nat)
    BY <1>2 DEF Session, Ring
  <2>6. \A k \in Keys : sent[k] \o sess[s].ring \in Seq(Nat)
    BY <2>5 DEF TypeOK
  <2>7. sent' \in [Keys -> Seq(Nat)]
    BY <1>6, <2>6 DEF WorkerPublishes, TypeOK
  <2> QED
    BY <1>1, <1>6, <2>3, <2>4, <2>7 DEF WorkerPublishes, TypeOK
<1>7. CASE WorkerExit(s)
  <2>1. [worker[s] EXCEPT !.pc = "done"] \in Worker
    BY <1>2 DEF Worker
  <2> QED
    BY <1>7, <2>1 DEF WorkerExit, TypeOK
<1> QED
  BY <1>3, <1>4, <1>5, <1>6, <1>7 DEF WorkerStep

\* Type correctness is kept by a reader thread.
LEMMA ReaderStepType ==
  ASSUME TypeOK, NEW s \in Sessions, ReaderStep(s)
  PROVE  TypeOK'
<1>1. /\ [pc |-> "top", sock |-> None] \in Reader
      /\ [pc |-> "done", sock |-> None] \in Reader
      /\ \A h \in Handles : [pc |-> "recv", sock |-> h] \in Reader
  BY DEF Reader, Socket
<1>2. CASE ReaderEnter(s)
  BY <1>1, <1>2 DEF ReaderEnter, TypeOK
<1>3. CASE ReaderRecv(s)
  <2>1. [sess[s] EXCEPT !.activity = 0] \in Session
    BY AgeFacts DEF TypeOK, Session
  <2>2. sess' \in [Sessions -> Session]
    BY <1>3, <2>1 DEF ReaderRecv, TypeOK
  <2> QED
    BY <1>1, <1>3, <2>2 DEF ReaderRecv, TypeOK
<1>4. CASE ReaderBreak(s)
  BY <1>1, <1>4 DEF ReaderBreak, TypeOK
<1> QED
  BY <1>2, <1>3, <1>4 DEF ReaderStep

\* Type correctness is kept by the clock, Stop, clients and stuttering.
LEMMA OtherStepType ==
  ASSUME TypeOK, Tick \/ Stop \/ (\E k \in Keys : Receive(k)) \/ UNCHANGED vars
  PROVE  TypeOK'
<1>1. CASE Tick
  <2>1. \A s \in Sessions :
          [sess[s] EXCEPT !.activity = Older(@), !.failed = Older(@)] \in Session
    BY AgeFacts DEF TypeOK, Session
  <2>2. sess' \in [Sessions -> Session]
    BY <1>1, <2>1 DEF Tick, TypeOK
  <2>3. /\ (IF relay.swept < SweepPeriod THEN relay.swept + 1 ELSE relay.swept)
             \in 0 .. SweepPeriod
        /\ (IF NowHeld THEN relay.lag + 1 ELSE relay.lag) \in 0 .. MaxLag
    <3>1. relay.lag \in 0 .. MaxLag /\ relay.swept \in 0 .. SweepPeriod
      BY DEF TypeOK, Relay
    <3>2. NowHeld => relay.lag < MaxLag
      BY <1>1 DEF Tick
    <3> QED
      BY <3>1, <3>2, FullConeConstants
  <2>4. relay' \in Relay
    <3> DEFINE sw == IF relay.swept < SweepPeriod THEN relay.swept + 1 ELSE relay.swept
               lg == IF NowHeld THEN relay.lag + 1 ELSE relay.lag
    <3>1. [relay EXCEPT !.swept = sw, !.lag = lg] \in Relay
      <4> HIDE DEF sw, lg
      <4> QED
        BY <2>3 DEF TypeOK, Relay, sw, lg
    <3>2. relay' = [relay EXCEPT !.swept = sw, !.lag = lg]
      BY <1>1 DEF Tick
    <3> QED
      BY <3>1, <3>2
  <2> QED
    BY <1>1, <2>2, <2>4 DEF Tick, TypeOK
<1>2. CASE Stop
  BY <1>2 DEF Stop, TypeOK
<1>3. ASSUME NEW k \in Keys, Receive(k)
      PROVE  TypeOK'
  <2>1. 0 \in 0 .. MaxLag /\ "lookup" \in RelayPC
    BY FullConeConstants DEF RelayPC
  <2>2. handed[k] + 1 \in Nat
    BY DEF TypeOK
  <2>3. [relay EXCEPT !.pc = "lookup", !.key = k, !.dgram = handed[k] + 1, !.lag = 0]
          \in Relay
    BY <2>1, <2>2 DEF TypeOK, Relay
  <2>4. handed' \in [Keys -> Nat]
    BY <1>3, <2>2 DEF Receive, TypeOK
  <2> QED
    BY <1>3, <2>3, <2>4 DEF Receive, TypeOK
<1>4. CASE UNCHANGED vars
  BY <1>4 DEF vars, TypeOK
<1> QED
  BY <1>1, <1>2, <1>3, <1>4

\* Type correctness is kept by every step.
LEMMA TypeStep == TypeOK /\ LocalsOK /\ [Next]_vars => TypeOK'
BY RelayStepType, WorkerStepType, ReaderStepType, OtherStepType DEF Next

-----------------------------------------------------------------------------
(* Ownership of sessions *)

\* No session exists at the start, so ownership holds trivially.
LEMMA InitControl == Init => ControlInv
BY DEF Init, ControlInv, Ownership, KeyReserved, OneSessionPerKey, Chain, NoSession, NoWorker,
       NoReader, JoiningPC, DestroyPC

\* Ticks and replies touch the time stamps of a session, never its identity.
LEMMA StampsOnly ==
  ASSUME TypeOK, Tick \/ (\E s \in Sessions : ReaderRecv(s))
  PROVE  \A r \in Sessions : /\ sess'[r].key = sess[r].key /\ sess'[r].state = sess[r].state
                            /\ sess'[r].ctrl = sess[r].ctrl /\ sess'[r].psock = sess[r].psock
<1>1. \A r \in Sessions : sess[r] \in Session
  BY DEF TypeOK
<1>2. CASE Tick
  BY <1>1, <1>2 DEF Tick, Session
<1>3. ASSUME NEW s \in Sessions, ReaderRecv(s)
      PROVE  \A r \in Sessions :
               /\ sess'[r].key = sess[r].key /\ sess'[r].state = sess[r].state
               /\ sess'[r].ctrl = sess[r].ctrl /\ sess'[r].psock = sess[r].psock
  <2>1. CASE UNCHANGED sess
    BY <2>1
  <2>2. CASE sess' = [sess EXCEPT ![s].activity = 0]
    BY <1>1, <2>2 DEF TypeOK, Session
  <2> QED
    BY <1>3, <2>1, <2>2 DEF ReaderRecv
<1> QED
  BY <1>2, <1>3

\* Ownership is kept by the relay thread: one case per step of its loop, of
\* the dispatch and of fullcone_destroy_session.
LEMMA RelayStepControl ==
  ASSUME TypeOK, ControlInv, RelayStep
  PROVE  ControlInv'
<1> USE DEF ControlInv, Ownership, KeyReserved, OneSessionPerKey, Chain, JoiningPC, DestroyPC,
            Goto, EndIteration, Resume, Destroy, CloseSockets, NoFrame, NoSession, NoWorker,
            NoReader
<1>0. sess \in [Sessions -> Session] /\ worker \in [Sessions -> Worker]
      /\ reader \in [Sessions -> Reader] /\ relay \in Relay /\ frame \in Frame
      /\ table \subseteq Sessions
  BY DEF TypeOK
<1>1. CASE LoopTest
  BY <1>0, <1>1 DEF LoopTest, Relay, Frame, Session, Worker, Reader
<1>2. CASE SelectTimeout
  BY <1>0, <1>2 DEF SelectTimeout, Relay, Frame, Session, Worker, Reader
<1>3. CASE Unlink
  <2> DEFINE d == frame.sess
  <2>1. d \in table /\ d \in Sessions /\ relay.pc = "unlink"
    BY <1>0, <1>3 DEF Unlink
  <2>2. /\ sess' = [sess EXCEPT ![d] = [sess[d] EXCEPT !.state = "DEAD"]]
        /\ table' = table \ {d} /\ worker' = worker /\ reader' = reader
        /\ relay'.pc = "close" /\ relay'.key = relay.key /\ relay'.cur = relay.cur
        /\ frame'.sess = d /\ frame'.ret = frame.ret
        /\ frame'.reader = (reader[d].pc # "none")
    BY <1>0, <1>3 DEF Unlink, Relay, Frame
  <2>3. \A s \in Sessions : /\ sess'[s].key = sess[s].key
                            /\ s # d => sess'[s] = sess[s]
                            /\ sess'[d].state = "DEAD"
    BY <1>0, <2>1, <2>2 DEF Session
  <2> HIDE DEF d
  <2>4. Ownership'
    <3>1. d \in Sessions \ table' /\ relay'.pc \in JoiningPC /\ relay'.pc # "joinr"
          /\ relay'.pc # "unlink" /\ relay'.pc # "send"
      BY <2>1, <2>2
    <3>2. \A s \in Sessions \ {d} : sess'[s] = sess[s] /\ (s \in table' <=> s \in table)
      BY <2>2, <2>3
    <3>3. \A s \in Sessions \ {d} : sess[s].state # "FREE" => s \in table
      BY <2>1 DEF d
    <3>4. \A s \in Sessions :
            /\ sess'[s].state = "FREE" =>
                 s \notin table' /\ worker'[s].pc = "none" /\ reader'[s].pc = "none"
            /\ sess'[s].state # "FREE" => s \in table' \/ s = d
            /\ reader'[s].pc # "none" => worker'[s].pc \in {"exiting", "done"}
            /\ s \in table' =>
                 (sess'[s].state = "PENDING" <=> worker'[s].pc \in {"handshake", "publish"})
      BY <2>1, <2>2, <2>3, <3>2, <3>3
    <3> QED
      BY <2>1, <2>2, <2>3, <3>1, <3>4
  <2>5. KeyReserved' /\ OneSessionPerKey'
    BY <1>0, <2>1, <2>2, <2>3 DEF d
  <2> QED
    BY <2>4, <2>5
<1>4. CASE CloseBoth
  BY <1>0, <1>4 DEF CloseBoth, Relay, Frame, Session, Worker, Reader
<1>5. CASE JoinWorker
  BY <1>0, <1>5 DEF JoinWorker, Relay, Frame, Session, Worker, Reader
<1>6. CASE JoinReaderAndFree
  BY <1>0, <1>6 DEF JoinReaderAndFree, Relay, Frame, Session, Worker, Reader
<1>7. CASE LookupNone
  BY <1>0, <1>7 DEF LookupNone, Relay, Frame, Session, Worker, Reader
<1>8. CASE SendOk
  BY <1>0, <1>8 DEF SendOk, Relay, Frame, Session, Worker, Reader
<1>9. CASE SendError
  BY <1>0, <1>9 DEF SendError, Relay, Frame, Session, Worker, Reader
<1>10. CASE CapCheck
  BY <1>0, <1>10 DEF CapCheck, Relay, Frame, Session, Worker, Reader
<1>11. CASE InsertFails
  BY <1>0, <1>11 DEF InsertFails, Relay, Frame, Session, Worker, Reader
<1>12. CASE BeginSweep
  BY <1>0, <1>12 DEF BeginSweep, Relay, Frame, Session, Worker, Reader
<1>13. CASE SweepEnd
  BY <1>0, <1>13 DEF SweepEnd, Relay, Frame, Session, Worker, Reader
<1>14. CASE DrainEnd
  BY <1>0, <1>14 DEF DrainEnd, Relay, Frame, Session, Worker, Reader
<1>15. ASSUME NEW s \in Sessions, LookupActive(s)
       PROVE  ControlInv'
  BY <1>0, <1>15 DEF LookupActive, Relay, Frame, Session, Worker, Reader
<1>16. ASSUME NEW s \in Sessions, LookupPending(s)
       PROVE  ControlInv'
  BY <1>0, <1>16 DEF LookupPending, Relay, Frame, Session, Worker, Reader
<1>17. ASSUME NEW s \in Sessions, LookupGuarded(s)
       PROVE  ControlInv'
  BY <1>0, <1>17 DEF LookupGuarded, Relay, Frame, Session, Worker, Reader
<1>18. ASSUME NEW s \in Sessions, LookupReap(s)
       PROVE  ControlInv'
  BY <1>0, <1>18 DEF LookupReap, Relay, Frame, Session, Worker, Reader
<1>19. ASSUME NEW s \in Sessions, Insert(s)
       PROVE  ControlInv'
  BY <1>0, <1>19 DEF Insert, Relay, Frame, Session, Worker, Reader
<1>20. ASSUME NEW s \in Sessions, SweepVictim(s)
       PROVE  ControlInv'
  BY <1>0, <1>20 DEF SweepVictim, Victims, Relay, Frame, Session, Worker, Reader
<1>21. ASSUME NEW s \in Sessions, DrainOne(s)
       PROVE  ControlInv'
  BY <1>0, <1>21 DEF DrainOne, Relay, Frame, Session, Worker, Reader
<1>22. ASSUME NEW k \in Keys, SweepBucket(k)
       PROVE  ControlInv'
  BY <1>0, <1>22 DEF SweepBucket, Relay
<1> QED
  BY <1>1, <1>2, <1>3, <1>4, <1>5, <1>6, <1>7, <1>8, <1>9, <1>10, <1>11, <1>12, <1>13, <1>14, <1>15, <1>16, <1>17, <1>18, <1>19, <1>20, <1>21, <1>22 DEF RelayStep

\* Ownership is kept by the worker and the reader of a session.
LEMMA ThreadStepControl ==
  ASSUME TypeOK, ControlInv, NEW s \in Sessions, WorkerStep(s) \/ ReaderStep(s)
  PROVE  ControlInv'
<1> USE DEF ControlInv, Ownership, KeyReserved, OneSessionPerKey, Chain, JoiningPC, DestroyPC,
            CloseSockets, Exiting, NoWorker, NoReader
<1>0. sess \in [Sessions -> Session] /\ worker \in [Sessions -> Worker]
      /\ reader \in [Sessions -> Reader] /\ relay \in Relay /\ frame \in Frame
      /\ table \subseteq Sessions
  BY DEF TypeOK
<1>1. CASE Handshake(s)
  BY <1>0, <1>1 DEF Handshake, Relay, Frame, Session, Worker, Reader
<1>2. CASE WorkerBail(s)
  BY <1>0, <1>2 DEF WorkerBail, Relay, Frame, Session, Worker, Reader
<1>3. CASE WorkerFails(s)
  BY <1>0, <1>3 DEF WorkerFails, Relay, Frame, Session, Worker, Reader
<1>4. CASE WorkerPublishes(s)
  <2>1. /\ sess[s].state = "PENDING" /\ worker[s].pc = "publish"
        /\ table' = table /\ relay' = relay /\ frame' = frame
        /\ worker'[s].pc = "exiting" /\ \A r \in Sessions \ {s} : worker'[r] = worker[r]
    BY <1>0, <1>4 DEF WorkerPublishes
  <2>2. \A r \in Sessions : /\ sess'[r].key = sess[r].key
                            /\ r # s => sess'[r] = sess[r]
    BY <1>0, <1>4, PublishFacts
  <2>3. sess'[s].state \in {"ACTIVE", "DEAD"}
    BY <1>0, <1>4, PublishFacts
  <2>9. \A r \in Sessions \ {s} : reader'[r] = reader[r]
    BY <1>0, <1>4 DEF WorkerPublishes
  <2>4. s \in table
    BY <1>0, <2>1
  <2>5. relay.pc = "send" => relay.cur # s
    BY <2>1
  <2>6. relay.pc \in JoiningPC => frame.sess # s
    BY <2>4
  <2>7. Ownership'
    BY <1>0, <2>1, <2>2, <2>3, <2>4, <2>5, <2>6, <2>9
  <2>8. KeyReserved' /\ OneSessionPerKey'
    BY <1>0, <2>1, <2>2
  <2> QED
    BY <2>7, <2>8
<1>5. CASE WorkerExit(s)
  <2>1. /\ worker[s].pc = "exiting" /\ worker'[s].pc = "done"
        /\ \A r \in Sessions \ {s} : worker'[r] = worker[r]
        /\ UNCHANGED <<sess, table, reader, relay, frame>>
    BY <1>0, <1>5 DEF WorkerExit, Worker
  <2> QED
    BY <1>0, <2>1
<1>6. CASE ReaderEnter(s)
  BY <1>0, <1>6 DEF ReaderEnter, Relay, Frame, Session, Worker, Reader
<1>7. CASE ReaderRecv(s)
  <2>1. /\ reader[s].pc = "recv" /\ reader'[s].pc = "top"
        /\ \A r \in Sessions \ {s} : reader'[r] = reader[r]
        /\ UNCHANGED <<table, worker, relay, frame>>
    BY <1>0, <1>7 DEF ReaderRecv
  <2>2. \A r \in Sessions : sess'[r].key = sess[r].key /\ sess'[r].state = sess[r].state
    BY <1>7, StampsOnly
  <2> QED
    BY <1>0, <2>1, <2>2
<1>8. CASE ReaderBreak(s)
  BY <1>0, <1>8 DEF ReaderBreak, Relay, Frame, Session, Worker, Reader
<1> QED
  BY <1>1, <1>2, <1>3, <1>4, <1>5, <1>6, <1>7, <1>8 DEF WorkerStep, ReaderStep

\* Ownership is kept by the clock, Stop, clients and stuttering.
LEMMA OtherStepControl ==
  ASSUME TypeOK, ControlInv, Tick \/ Stop \/ (\E k \in Keys : Receive(k)) \/ UNCHANGED vars
  PROVE  ControlInv'
<1> USE DEF ControlInv, Ownership, KeyReserved, OneSessionPerKey, Chain, JoiningPC, DestroyPC
<1>0. sess \in [Sessions -> Session] /\ relay \in Relay /\ table \subseteq Sessions
  BY DEF TypeOK
<1>1. CASE Tick
  <2>1. /\ relay'.pc = relay.pc /\ relay'.key = relay.key /\ relay'.cur = relay.cur
        /\ UNCHANGED <<table, worker, reader, frame>>
    BY <1>0, <1>1 DEF Tick, Relay
  <2>2. \A r \in Sessions : sess'[r].key = sess[r].key /\ sess'[r].state = sess[r].state
    BY <1>1, StampsOnly
  <2> QED
    BY <1>0, <2>1, <2>2
<1>2. CASE Stop
  BY <1>2 DEF Stop
<1>3. ASSUME NEW k \in Keys, Receive(k)
      PROVE  ControlInv'
  <2>1. relay.pc = "select" /\ relay'.pc = "lookup"
        /\ UNCHANGED <<sess, table, worker, reader, frame>>
    BY <1>0, <1>3 DEF Receive, Relay
  <2> QED
    BY <1>0, <2>1
<1>4. CASE UNCHANGED vars
  BY <1>4 DEF vars
<1> QED
  BY <1>1, <1>2, <1>3, <1>4

\* Ownership is kept by every step.
LEMMA ControlStep == TypeOK /\ ControlInv /\ [Next]_vars => ControlInv'
BY RelayStepControl, ThreadStepControl, OtherStepControl DEF Next

\* Ownership says which locals of the relay name a session.
LEMMA ControlLocals == TypeOK /\ ControlInv => LocalsOK
BY DEF TypeOK, ControlInv, Ownership, LocalsOK, JoiningPC, DestroyPC

\* TypeOK and ControlInv are inductive together.
LEMMA Invariance == Spec => [](TypeOK /\ ControlInv)
<1>1. Init => TypeOK /\ ControlInv
  BY InitType, InitControl
<1>2. TypeOK /\ ControlInv /\ [Next]_vars => (TypeOK /\ ControlInv)'
  BY TypeStep, ControlStep, ControlLocals
<1> QED
  BY <1>1, <1>2, PTL DEF Spec

\* Every variable keeps its type, for any number of clients, sessions and
\* sockets: in particular the relay's locals are set whenever they are used.
THEOREM TypeCorrect == Spec => []TypeOK
BY Invariance, PTL

\* No thread of the full-cone relay ever uses a freed session, whatever the
\* interleaving of teardown, handshake and replies (ProxyBridge.c:3447-3451).
THEOREM SafeFree == Spec => []NoUseAfterFree
<1>1. TypeOK /\ ControlInv => NoUseAfterFree
  BY DEF TypeOK, ControlInv, Ownership, NoUseAfterFree, JoiningPC, DestroyPC
<1> QED
  BY <1>1, Invariance, PTL

\* A client socket never has two sessions in the table.
THEOREM UniqueSession == Spec => []OneSessionPerKey
<1>1. ControlInv => OneSessionPerKey
  BY DEF ControlInv
<1> QED
  BY <1>1, Invariance, PTL

-----------------------------------------------------------------------------
(* The session counter *)

\* Inductive together with ControlInv: a session is inserted only after the
\* cap was tested, and nothing else grows the table.
CountInv ==
  /\ IsFiniteSet(table)
  /\ CountIsTableSize
  /\ relay.pc = "insert" => count < MaxSessions

\* The counter changes with the table: only Unlink and Insert touch either.
LEMMA CountStep == TypeOK /\ ControlInv /\ CountInv /\ [Next]_vars => CountInv'
<1> SUFFICES ASSUME TypeOK, ControlInv, CountInv, [Next]_vars
             PROVE  CountInv'
  OBVIOUS
<1>0. relay \in Relay /\ count \in Int /\ MaxSessions \in Nat
  BY FullConeConstants DEF TypeOK
<1>1. CASE Unlink
  <2>1. frame.sess \in table /\ table' = table \ {frame.sess} /\ count' = count - 1
    BY <1>1 DEF Unlink, ControlInv, Ownership
  <2>2. IsFiniteSet(table') /\ Cardinality(table') = Cardinality(table) - 1
    BY <2>1, FS_RemoveElement DEF CountInv
  <2>3. relay'.pc = "close"
    BY <1>0, <1>1 DEF Unlink, Goto, Relay
  <2> QED
    BY <1>0, <2>1, <2>2, <2>3 DEF CountInv, CountIsTableSize
<1>2. ASSUME NEW s \in Sessions, Insert(s)
      PROVE  CountInv'
  <2>1. s \notin table /\ table' = table \cup {s} /\ count' = count + 1 /\ count < MaxSessions
    BY <1>2 DEF Insert, ControlInv, Ownership, CountInv
  <2>2. IsFiniteSet(table') /\ Cardinality(table') = Cardinality(table) + 1
    BY <2>1, FS_AddElement DEF CountInv
  <2>3. relay'.pc = "top"
    BY <1>0, <1>2 DEF Insert, EndIteration, Relay
  <2> QED
    BY <1>0, <2>1, <2>2, <2>3 DEF CountInv, CountIsTableSize
<1>3. CASE DrainEnd
  <2>1. table = {} /\ table' = {} /\ count' = 0 /\ relay'.pc = "done"
    BY <1>0, <1>3 DEF DrainEnd, Goto, Relay
  <2> QED
    BY <1>0, <2>1, FS_EmptySet DEF CountInv, CountIsTableSize
<1>4. CASE CapCheck
  BY <1>0, <1>4 DEF CapCheck, EndIteration, Goto, Relay, CountInv, CountIsTableSize
<1>5. ASSUME UNCHANGED <<table, count>>, relay'.pc = "insert" => relay.pc = "insert"
      PROVE  CountInv'
  BY <1>5 DEF CountInv, CountIsTableSize
<1>6. frame \in Frame
  BY DEF TypeOK
<1>7. ASSUME RelayStep, ~Unlink, ~DrainEnd, ~CapCheck, \A s \in Sessions : ~Insert(s)
      PROVE  UNCHANGED <<table, count>> /\ (relay'.pc = "insert" => relay.pc = "insert")
  BY <1>0, <1>6, <1>7
     DEF RelayStep, LoopTest, SelectTimeout, CloseBoth, JoinWorker, JoinReaderAndFree,
         LookupNone, SendOk, SendError, InsertFails, BeginSweep, SweepEnd, LookupActive,
         LookupPending, LookupGuarded, LookupReap, SweepVictim, DrainOne, SweepBucket,
         Destroy, Goto, EndIteration, Resume, Relay, Frame
<1>8. ASSUME NEW s \in Sessions, WorkerStep(s) \/ ReaderStep(s)
      PROVE  UNCHANGED <<table, count, relay>>
  BY <1>8 DEF WorkerStep, ReaderStep, Handshake, WorkerBail, WorkerFails, WorkerPublishes,
              WorkerExit, ReaderEnter, ReaderRecv, ReaderBreak
<1>9. ASSUME Tick \/ Stop \/ (\E k \in Keys : Receive(k)) \/ UNCHANGED vars
      PROVE  UNCHANGED <<table, count>> /\ (relay'.pc = "insert" => relay.pc = "insert")
  BY <1>0, <1>9 DEF Tick, Stop, Receive, vars, Relay
<1> QED
  BY <1>1, <1>2, <1>3, <1>4, <1>5, <1>7, <1>8, <1>9 DEF Next

\* The session counter is exact and the cap holds, for every cap.
THEOREM CountCorrect == Spec => []CountIsTableSize
<1>1. Init => CountInv
  BY FS_EmptySet, FullConeConstants DEF Init, CountInv, CountIsTableSize
<1>2. CountInv => CountIsTableSize
  BY DEF CountInv
<1> QED
  BY <1>1, <1>2, CountStep, Invariance, PTL DEF Spec

-----------------------------------------------------------------------------
(* Ownership of sockets *)

\* SocketsOwned, and why closing a session's sockets closes all of them: a
\* session that has not been published yet has none.
SocketInv ==
  /\ SocketsOwned
  /\ \A s \in Sessions : sess[s].state \in {"FREE", "PENDING"} =>
       sess[s].ctrl = None /\ sess[s].psock = None
  /\ relay.pc = "close" /\ worker[frame.sess].pc \in {"handshake", "publish"} =>
       frame.ctrl = None /\ frame.psock = None

\* Socket ownership is kept by the relay thread; the interesting cases are the
\* teardown, which takes the sockets out of the structure and closes them.
LEMMA SocketRelay ==
  ASSUME TypeOK, ControlInv, SocketInv, RelayStep
  PROVE  SocketInv'
<1>0. /\ sess \in [Sessions -> Session] /\ worker \in [Sessions -> Worker]
      /\ reader \in [Sessions -> Reader] /\ relay \in Relay /\ frame \in Frame
      /\ table \subseteq Sessions /\ owner \in [Handles -> Sessions \cup {None}]
      /\ None \notin Sessions /\ None \notin Handles
  BY FullConeConstants DEF TypeOK
<1>1. CASE Unlink
  <2> DEFINE d == frame.sess
  <2>1. d \in table /\ d \in Sessions /\ relay.pc = "unlink"
    BY <1>0, <1>1 DEF Unlink, ControlInv, Ownership
  <2>2. /\ table' = table \ {d} /\ UNCHANGED <<worker, owner>>
        /\ relay'.pc = "close" /\ frame'.sess = d
        /\ frame'.ctrl = sess[d].ctrl /\ frame'.psock = sess[d].psock
    BY <1>0, <1>1 DEF Unlink, Goto, Relay, Frame
  <2>3. \A s \in Sessions : /\ sess'[s].ctrl = sess[s].ctrl /\ sess'[s].psock = sess[s].psock
                            /\ s # d => sess'[s] = sess[s]
    BY <1>0, <1>1, <2>1 DEF Unlink, Session
  <2>4. sess'[d].state = "DEAD"
    BY <1>0, <1>1, <2>1 DEF Unlink, Session
  <2>5. \A s \in Sessions : Held(s)' = Held(s)
    BY <2>1, <2>2, <2>3 DEF Held
  <2>6. worker[d].pc \in {"handshake", "publish"} => sess[d].state = "PENDING"
    BY <2>1 DEF ControlInv, Ownership
  <2> HIDE DEF d
  <2> QED
    BY <2>1, <2>2, <2>3, <2>4, <2>5, <2>6 DEF SocketInv, SocketsOwned
<1>2. CASE CloseBoth
  <2>0. PICK d \in Sessions : d = frame.sess /\ d \notin table /\ relay.pc = "close"
    BY <1>0, <1>2 DEF CloseBoth, ControlInv, Ownership, JoiningPC, DestroyPC
  <2>1. PICK hs : hs = {frame.ctrl, frame.psock}
    OBVIOUS
  <2>2. /\ owner' = [h \in Handles |-> IF h \in hs THEN None ELSE owner[h]]
        /\ UNCHANGED <<sess, table, worker, frame>> /\ relay'.pc = "joinw"
    BY <1>0, <1>2, <2>1 DEF CloseBoth, CloseSockets, Goto, Relay
  <2>3. \A s \in Sessions \ {d} : Held(s)' = Held(s)
    BY <2>0, <2>2 DEF Held
  <2>4. \A h \in hs \ {None} : h \in Held(d)
    BY <2>0, <2>1 DEF Held
  <2>5. \A h \in hs \cap Handles : owner[h] = d
    BY <1>0, <2>4 DEF SocketInv, SocketsOwned
  <2>6. Held(d)' \ {None} = (Held(d) \ {None}) \ hs
    BY <2>0, <2>1, <2>2 DEF Held, SocketInv
  <2>7. \A r \in Sessions \ {d} : {h \in Handles : owner'[h] = r} = Held(r)' \ {None}
    <3>1. \A r \in Sessions \ {d} :
            {h \in Handles : owner'[h] = r} = {h \in Handles : owner[h] = r}
      BY <1>0, <2>2, <2>5
    <3> QED
      BY <2>3, <3>1 DEF SocketInv, SocketsOwned
  <2>8. {h \in Handles : owner'[h] = d} = Held(d)' \ {None}
    <3>1. {h \in Handles : owner'[h] = d} = {h \in Handles : owner[h] = d} \ hs
      BY <1>0, <2>2
    <3> QED
      BY <2>6, <3>1 DEF SocketInv, SocketsOwned
  <2>9. SocketsOwned'
    BY <2>7, <2>8 DEF SocketsOwned
  <2> QED
    BY <2>2, <2>9 DEF SocketInv
<1>3. CASE JoinReaderAndFree
  <2> DEFINE d == frame.sess
  <2>1. /\ d \in Sessions /\ d \notin table /\ relay.pc = "joinr" /\ worker[d].pc = "done"
    BY <1>0, <1>3 DEF JoinReaderAndFree, ControlInv, Ownership, JoiningPC, DestroyPC
  <2>2. /\ sess' = [sess EXCEPT ![d] = NoSession] /\ worker' = [worker EXCEPT ![d] = NoWorker]
        /\ UNCHANGED <<table, owner>>
    BY <1>3, <2>1 DEF JoinReaderAndFree
  <2>3. relay'.pc \in {"top", "cap", "sweep", "drain"}
    BY <1>0, <1>3 DEF JoinReaderAndFree, Resume, EndIteration, Goto, Relay, Frame
  <2>4. \A s \in Sessions : Held(s)' = Held(s)
    BY <1>0, <2>1, <2>2, <2>3 DEF Held, NoWorker
  <2> HIDE DEF d
  <2> QED
    BY <1>0, <2>1, <2>2, <2>3, <2>4 DEF SocketInv, SocketsOwned, NoSession
<1>4. ASSUME NEW s \in Sessions, Insert(s)
      PROVE  SocketInv'
  <2>1. s \notin table /\ relay.pc = "insert" /\ worker[s].pc = "none"
    BY <1>4 DEF Insert, ControlInv, Ownership
  <2>2. /\ sess'[s].ctrl = None /\ sess'[s].psock = None
        /\ \A r \in Sessions \ {s} : sess'[r] = sess[r] /\ worker'[r] = worker[r]
        /\ worker'[s].pc = "handshake"
        /\ table' = table \cup {s} /\ owner' = owner /\ relay'.pc = "top"
    BY <1>0, <1>4 DEF Insert, NoSession, NoWorker, EndIteration, Relay
  <2>3. Held(s) = {} /\ Held(s)' = {None}
    BY <2>1, <2>2 DEF Held
  <2>4. \A r \in Sessions \ {s} : Held(r)' = Held(r)
    BY <2>1, <2>2 DEF Held
  <2> QED
    BY <2>2, <2>3, <2>4 DEF SocketInv, SocketsOwned
<1>5. ASSUME NEW s \in Sessions, LookupActive(s) \/ LookupPending(s)
      PROVE  SocketInv'
  <2>1. /\ UNCHANGED <<table, worker, owner, frame>>
        /\ relay.pc # "close" /\ relay'.pc # "close"
    BY <1>0, <1>5 DEF LookupActive, LookupPending, EndIteration, Relay
  <2>2. \A r \in Sessions : /\ sess'[r].ctrl = sess[r].ctrl /\ sess'[r].psock = sess[r].psock
                            /\ sess'[r].state = sess[r].state
    <3>1. sess[s] \in Session
      BY <1>0
    <3>2. CASE LookupActive(s)
      BY <1>0, <3>1, <3>2 DEF LookupActive, Session
    <3>3. CASE LookupPending(s)
      BY <1>0, <3>1, <3>3 DEF LookupPending, Session
    <3> QED
      BY <1>5, <3>2, <3>3
  <2>3. \A r \in Sessions : Held(r)' = Held(r)
    BY <2>1, <2>2 DEF Held
  <2> QED
    BY <2>1, <2>2, <2>3 DEF SocketInv, SocketsOwned
<1>6. ASSUME UNCHANGED <<sess, table, worker, owner>>,
             relay.pc # "close", relay'.pc # "close"
      PROVE  SocketInv'
  <2>1. \A r \in Sessions : Held(r)' = Held(r)
    BY <1>6 DEF Held
  <2> QED
    BY <1>6, <2>1 DEF SocketInv, SocketsOwned
<1>7. ASSUME RelayStep, ~Unlink, ~CloseBoth, ~JoinReaderAndFree,
             \A s \in Sessions : ~Insert(s) /\ ~LookupActive(s) /\ ~LookupPending(s)
      PROVE  UNCHANGED <<sess, table, worker, owner>> /\ relay.pc # "close" /\ relay'.pc # "close"
  BY <1>0, <1>7
     DEF RelayStep, LoopTest, SelectTimeout, JoinWorker, LookupNone, SendOk, SendError, CapCheck,
         InsertFails, BeginSweep, SweepEnd, DrainEnd, LookupGuarded, LookupReap, SweepVictim,
         DrainOne, SweepBucket, Destroy, Goto, EndIteration, Relay
<1> QED
  BY <1>1, <1>2, <1>3, <1>4, <1>5, <1>6, <1>7

\* Socket ownership is kept by a worker, which opens, publishes or closes
\* sockets, and by a reader, which only uses them.
LEMMA SocketThreads ==
  ASSUME TypeOK, ControlInv, SocketInv, NEW s \in Sessions, WorkerStep(s) \/ ReaderStep(s)
  PROVE  SocketInv'
<1>0. /\ sess \in [Sessions -> Session] /\ worker \in [Sessions -> Worker]
      /\ relay \in Relay /\ frame \in Frame
      /\ table \subseteq Sessions /\ owner \in [Handles -> Sessions \cup {None}]
      /\ None \notin Sessions /\ None \notin Handles
  BY FullConeConstants DEF TypeOK
<1>1. CASE Handshake(s)
  <2>1. PICK t, u \in {h \in Handles : Fresh(h)} \cup {None} :
          /\ owner' = [h \in Handles |-> IF h \in {t, u} THEN s ELSE owner[h]]
          /\ worker' = [worker EXCEPT ![s] =
                          [pc |-> "publish", ok |-> u # None, ctrl |-> t, psock |-> u]]
    BY <1>1 DEF Handshake
  <2>2. /\ worker[s].pc = "handshake" /\ worker'[s].pc = "publish"
        /\ worker'[s].ctrl = t /\ worker'[s].psock = u
        /\ \A r \in Sessions \ {s} : worker'[r] = worker[r]
        /\ UNCHANGED <<sess, table, relay, frame>>
    BY <1>0, <1>1, <2>1 DEF Handshake
  <2>3. Held(s)' = Held(s) \cup {t, u} /\ \A r \in Sessions \ {s} : Held(r)' = Held(r)
    BY <2>2 DEF Held
  <2>4. \A h \in {t, u} \ {None} : h \in Handles /\ owner[h] = None
    BY <2>1 DEF Fresh
  <2>5. SocketsOwned'
    BY <1>0, <2>1, <2>3, <2>4 DEF SocketInv, SocketsOwned
  <2>6. relay.pc = "close" => frame.sess \in Sessions
    BY DEF ControlInv, Ownership, JoiningPC, DestroyPC
  <2> QED
    BY <2>2, <2>5, <2>6 DEF SocketInv
<1>2. ASSUME WorkerBail(s) \/ WorkerFails(s)
      PROVE  SocketInv'
  <2> DEFINE hs == {worker[s].ctrl, worker[s].psock}
  <2>1. /\ owner' = [h \in Handles |-> IF h \in hs THEN None ELSE owner[h]]
        /\ worker[s].pc = "publish" /\ worker'[s].pc = "exiting"
        /\ \A r \in Sessions \ {s} : worker'[r] = worker[r]
        /\ UNCHANGED <<table, relay, frame>>
    BY <1>0, <1>2 DEF WorkerBail, WorkerFails, CloseSockets, Exiting, NoWorker
  <2>2. \A r \in Sessions : /\ sess'[r].ctrl = sess[r].ctrl /\ sess'[r].psock = sess[r].psock
                            /\ sess'[r].state \in {"FREE", "PENDING"} => sess'[r].state = sess[r].state
    BY <1>0, <1>2 DEF WorkerBail, WorkerFails, Session
  <2>3. \A r \in Sessions \ {s} : Held(r)' = Held(r)
    BY <2>1, <2>2 DEF Held
  <2>4. \A h \in hs \cap Handles : owner[h] = s
    BY <1>0, <2>1 DEF SocketInv, SocketsOwned, Held
  <2>5. /\ s \in table => sess[s].ctrl = None /\ sess[s].psock = None
        /\ relay.pc = "close" /\ frame.sess = s => frame.ctrl = None /\ frame.psock = None
    BY <2>1 DEF SocketInv, ControlInv, Ownership
  <2>6. Held(s)' \ {None} = {} /\ Held(s) \ {None} = hs \ {None}
    BY <2>1, <2>2, <2>5 DEF Held
  <2> HIDE DEF hs
  <2>7. SocketsOwned'
    BY <1>0, <2>1, <2>3, <2>4, <2>6 DEF SocketInv, SocketsOwned
  <2>8. relay' = relay /\ frame' = frame /\ (relay.pc = "close" => frame.sess \in Sessions)
    BY <2>1 DEF ControlInv, Ownership, JoiningPC, DestroyPC
  <2>9. relay.pc = "close" /\ worker'[frame.sess].pc \in {"handshake", "publish"} =>
          worker[frame.sess].pc \in {"handshake", "publish"}
    BY <2>1, <2>8
  <2> QED
    BY <2>2, <2>7, <2>8, <2>9 DEF SocketInv
<1>3. CASE WorkerPublishes(s)
  <2>1. /\ worker[s].pc = "publish" /\ worker'[s].pc = "exiting" /\ sess[s].state = "PENDING"
        /\ \A r \in Sessions \ {s} : worker'[r] = worker[r]
        /\ UNCHANGED <<table, relay, frame, owner>>
    BY <1>0, <1>3 DEF WorkerPublishes, Exiting, NoWorker
  <2>2. /\ sess'[s].ctrl = worker[s].ctrl /\ sess'[s].psock = worker[s].psock
        /\ sess'[s].state \in {"ACTIVE", "DEAD"}
        /\ \A r \in Sessions \ {s} : sess'[r] = sess[r]
    BY <1>0, <1>3, PublishFacts
  <2>3. /\ s \in table /\ sess[s].ctrl = None /\ sess[s].psock = None
        /\ relay.pc = "close" => frame.sess # s /\ frame.sess \in Sessions
    BY <2>1 DEF SocketInv, ControlInv, Ownership, JoiningPC, DestroyPC
  <2>4. Held(s)' \ {None} = Held(s) \ {None}
    BY <2>1, <2>2, <2>3 DEF Held
  <2>5. \A r \in Sessions \ {s} : Held(r)' = Held(r)
    BY <2>1, <2>2 DEF Held
  <2> QED
    BY <2>1, <2>2, <2>3, <2>4, <2>5 DEF SocketInv, SocketsOwned
<1>4. CASE WorkerExit(s)
  <2>1. /\ worker[s].pc = "exiting" /\ worker'[s].pc = "done"
        /\ \A r : r # s => worker'[r] = worker[r]
        /\ UNCHANGED <<sess, table, relay, frame, owner>>
    BY <1>0, <1>4 DEF WorkerExit, Worker
  <2>2. \A r \in Sessions : Held(r)' = Held(r)
    BY <2>1 DEF Held
  <2> QED
    BY <2>1, <2>2 DEF SocketInv, SocketsOwned
<1>5. ASSUME ReaderStep(s)
      PROVE  SocketInv'
  <2>1. UNCHANGED <<table, worker, relay, frame, owner>>
    BY <1>5 DEF ReaderStep, ReaderEnter, ReaderRecv, ReaderBreak
  <2>2. \A r \in Sessions : /\ sess'[r].ctrl = sess[r].ctrl /\ sess'[r].psock = sess[r].psock
                            /\ sess'[r].state = sess[r].state
    <3>1. CASE ReaderRecv(s)
      BY <3>1, StampsOnly
    <3>2. CASE ReaderEnter(s) \/ ReaderBreak(s)
      BY <3>2 DEF ReaderEnter, ReaderBreak
    <3> QED
      BY <1>5, <3>1, <3>2 DEF ReaderStep
  <2>3. \A r \in Sessions : Held(r)' = Held(r)
    BY <2>1, <2>2 DEF Held
  <2> QED
    BY <2>1, <2>2, <2>3 DEF SocketInv, SocketsOwned
<1> QED
  BY <1>1, <1>2, <1>3, <1>4, <1>5 DEF WorkerStep

\* Socket ownership is kept by the clock, Stop, clients and stuttering.
LEMMA SocketOther ==
  ASSUME TypeOK, SocketInv, Tick \/ Stop \/ (\E k \in Keys : Receive(k)) \/ UNCHANGED vars
  PROVE  SocketInv'
<1>0. sess \in [Sessions -> Session] /\ relay \in Relay
  BY DEF TypeOK
<1>1. UNCHANGED <<table, worker, frame, owner>> /\ (relay'.pc = "close" <=> relay.pc = "close")
  BY <1>0 DEF Tick, Stop, Receive, vars, Relay
<1>2. \A r \in Sessions : /\ sess'[r].ctrl = sess[r].ctrl /\ sess'[r].psock = sess[r].psock
                          /\ sess'[r].state = sess[r].state
  BY StampsOnly DEF Stop, Receive, vars
<1>3. \A r \in Sessions : Held(r)' = Held(r)
  BY <1>1, <1>2 DEF Held
<1> QED
  BY <1>1, <1>2, <1>3 DEF SocketInv, SocketsOwned

\* SocketInv holds at the start and every step keeps it.
LEMMA SocketInvariance == Spec => []SocketInv
<1>1. Init => SocketInv
  BY FullConeConstants DEF Init, SocketInv, SocketsOwned, Held, NoSession, NoWorker
<1>2. TypeOK /\ ControlInv /\ SocketInv /\ [Next]_vars => SocketInv'
  BY SocketRelay, SocketThreads, SocketOther DEF Next
<1> QED
  BY <1>1, <1>2, Invariance, PTL DEF Spec

\* No socket of the full-cone relay is leaked, closed twice or used after its
\* close by whoever holds it, even though numbers are handed out again.
THEOREM SocketsCorrect == Spec => []SocketsOwned
<1>1. SocketInv => SocketsOwned
  BY DEF SocketInv
<1> QED
  BY <1>1, SocketInvariance, PTL

-----------------------------------------------------------------------------
(* Timers *)

\* An unsigned difference of at least the limit is a real one, or it wrapped
\* because the event was recorded after the relay read the clock.
LEMMA ElapsedFacts ==
  ASSUME TypeOK, NEW age \in Age, NEW limit \in Nat, limit <= AgeCap, Elapsed(age) >= limit
  PROVE  age >= limit \/ age < relay.lag
<1>1. relay.lag \in 0 .. MaxLag /\ age \in 0 .. AgeCap
  BY DEF TypeOK, Relay, Age
<1>2. SUFFICES ASSUME age >= relay.lag PROVE age >= limit
  BY <1>1, FullConeConstants DEF AgeCap
<1>3. age - relay.lag \in 0 .. Word - 1
  BY <1>1, <1>2, FullConeConstants DEF AgeCap
<1>4. \A w \in Nat : \A x \in 0 .. w - 1 : x % w = x
  BY SMT
<1>5. Elapsed(age) = age - relay.lag
  BY <1>3, <1>4, FullConeConstants DEF Elapsed
<1> QED
  BY <1>1, <1>5, FullConeConstants DEF AgeCap

\* Only a lookup that reaps and the sweep condemn a session.
LEMMA WhoCondemns ==
  ASSUME TypeOK, [Next]_vars, NEW s \in Sessions, Condemned(s)
  PROVE  LookupReap(s) \/ SweepVictim(s)
<1>1. frame \in Frame /\ None \notin Sessions /\ frame' # frame
  BY FullConeConstants DEF TypeOK, Condemned
<1>2. ~Unlink
  BY <1>1 DEF Unlink, Condemned, Frame
<1>3. ~JoinReaderAndFree /\ ~SendError
  <2>1. JoinReaderAndFree => frame'.sess = None
    BY DEF JoinReaderAndFree, NoFrame
  <2>2. SendError => frame'.ret = "top"
    BY DEF SendError, Destroy, NoFrame
  <2> QED
    BY <1>1, <2>1, <2>2 DEF Condemned
<1>4. \A r \in Sessions : ~DrainOne(r)
  BY DEF DrainOne, Destroy, NoFrame, Condemned
<1>5. \A r \in Sessions : LookupReap(r) \/ SweepVictim(r) => r = s
  BY DEF LookupReap, SweepVictim, Destroy, NoFrame, Condemned
<1>6. ~(\E r \in Sessions : WorkerStep(r) \/ ReaderStep(r))
  BY <1>1 DEF WorkerStep, ReaderStep, Handshake, WorkerBail, WorkerFails, WorkerPublishes,
              WorkerExit, ReaderEnter, ReaderRecv, ReaderBreak
<1>7. ~(Tick \/ Stop \/ (\E k \in Keys : Receive(k)) \/ UNCHANGED vars)
  BY <1>1 DEF Tick, Stop, Receive, vars
<1>8. RelayStep
  BY <1>6, <1>7 DEF Next
<1> QED
  BY <1>1, <1>2, <1>3, <1>4, <1>5, <1>8
     DEF RelayStep, LoopTest, SelectTimeout, CloseBoth, JoinWorker, LookupNone, SendOk,
         CapCheck, Insert, InsertFails, BeginSweep, SweepEnd, DrainEnd, LookupActive,
         LookupPending, LookupGuarded, SweepBucket

\* FAIL_GUARD and IDLE_TIMEOUT are kept, except where the difference wraps; for
\* any limits, any number of sessions and any delay between clock and use.
THEOREM TimersRight == Spec => TimersUnlessWrapped
<1>1. ASSUME TypeOK, [Next]_vars, NEW s \in Sessions, Condemned(s)
      PROVE  \/ sess[s].state = "DEAD"
                /\ (sess[s].failed >= FailGuard \/ sess[s].failed < relay.lag)
             \/ sess[s].state = "ACTIVE"
                /\ (sess[s].activity > IdleTimeout \/ sess[s].activity < relay.lag)
  <2>1. sess[s] \in Session /\ relay.lag \in 0 .. MaxLag
    BY <1>1 DEF TypeOK, Relay
  <2>2. sess[s].failed \in Age /\ sess[s].activity \in Age
    BY <2>1 DEF Session
  <2>3. \A a \in Age : Elapsed(a) \in Int
    BY <2>1, FullConeConstants DEF Elapsed, Age, AgeCap
  <2>4. Elapsed(sess[s].failed) >= FailGuard =>
          sess[s].failed >= FailGuard \/ sess[s].failed < relay.lag
    BY <1>1, <2>2, ElapsedFacts, FullConeConstants DEF AgeCap
  <2>5. Elapsed(sess[s].activity) > IdleTimeout =>
          sess[s].activity > IdleTimeout \/ sess[s].activity < relay.lag
    <3>1. Elapsed(sess[s].activity) > IdleTimeout => Elapsed(sess[s].activity) >= IdleTimeout + 1
      BY <2>2, <2>3, FullConeConstants
    <3>2. IdleTimeout + 1 \in Nat /\ IdleTimeout + 1 <= AgeCap
      BY FullConeConstants DEF AgeCap
    <3>3. sess[s].activity \in Nat
      BY <2>2, FullConeConstants DEF Age, AgeCap
    <3> QED
      BY <1>1, <2>2, <3>1, <3>2, <3>3, ElapsedFacts, FullConeConstants
  <2>6. CASE LookupReap(s)
    BY <2>4, <2>6 DEF LookupReap
  <2>7. CASE SweepVictim(s)
    <3>1. \/ sess[s].state = "ACTIVE" /\ Elapsed(sess[s].activity) > IdleTimeout
          \/ sess[s].state = "DEAD" /\ Elapsed(sess[s].failed) > FailGuard
      BY <2>7 DEF SweepVictim, Victims
    <3>2. Elapsed(sess[s].failed) > FailGuard => Elapsed(sess[s].failed) >= FailGuard
      BY <2>2, <2>3, FullConeConstants
    <3> QED
      BY <2>4, <2>5, <3>1, <3>2
  <2> QED
    BY <1>1, <2>6, <2>7, WhoCondemns
<1>2. TypeOK /\ [Next]_vars =>
        [\A s \in Sessions : Condemned(s) =>
           \/ sess[s].state = "DEAD"
              /\ (sess[s].failed >= FailGuard \/ sess[s].failed < relay.lag)
           \/ sess[s].state = "ACTIVE"
              /\ (sess[s].activity > IdleTimeout \/ sess[s].activity < relay.lag)]_vars
  BY <1>1
<1> QED
  BY <1>2, TypeCorrect, PTL DEF Spec, TimersUnlessWrapped

-----------------------------------------------------------------------------
(* Half-built sessions *)

\* A worker that succeeded has both sockets; an ACTIVE session has them, an
\* empty ring and a reader; a session that failed has an empty ring.
BuiltInv ==
  /\ \A s \in Sessions : worker[s].pc = "publish" /\ worker[s].ok =>
       worker[s].ctrl \in Handles /\ worker[s].psock \in Handles
  /\ \A s \in Sessions : sess[s].state = "ACTIVE" =>
       /\ sess[s].ctrl \in Handles /\ sess[s].psock \in Handles
       /\ sess[s].ring = <<>> /\ reader[s].pc # "none"
  /\ \A s \in table : sess[s].state = "DEAD" => sess[s].ring = <<>>

\* Steps that change neither what a worker holds nor what a session is.
LEMMA BuiltSame ==
  ASSUME TypeOK, BuiltInv, UNCHANGED worker, table' \subseteq table,
         \A s \in Sessions :
           /\ sess'[s].state = sess[s].state /\ sess'[s].ring = sess[s].ring
           /\ sess'[s].ctrl = sess[s].ctrl /\ sess'[s].psock = sess[s].psock
           /\ reader[s].pc # "none" => reader'[s].pc # "none"
  PROVE  BuiltInv'
BY DEF BuiltInv, TypeOK

LEMMA BuiltRelay ==
  ASSUME TypeOK, ControlInv, BuiltInv, RelayStep
  PROVE  BuiltInv'
<1>0. /\ sess \in [Sessions -> Session] /\ worker \in [Sessions -> Worker]
      /\ reader \in [Sessions -> Reader] /\ table \subseteq Sessions
  BY DEF TypeOK
<1>1. CASE Unlink
  <2>1. \A s \in Sessions \ {frame.sess} : sess'[s] = sess[s]
    BY <1>0, <1>1 DEF Unlink
  <2>2. frame.sess \in Sessions => sess'[frame.sess].state = "DEAD"
    BY <1>0, <1>1 DEF Unlink, Session
  <2> QED
    BY <1>0, <1>1, <2>1, <2>2 DEF Unlink, BuiltInv
<1>2. CASE CloseBoth
  BY <1>0, <1>2, BuiltSame DEF CloseBoth, CloseSockets
<1>3. CASE JoinReaderAndFree
  <2>1. \A s \in Sessions \ {frame.sess} :
          sess'[s] = sess[s] /\ worker'[s] = worker[s] /\ reader'[s] = reader[s]
    BY <1>0, <1>3 DEF JoinReaderAndFree
  <2>2. frame.sess \in Sessions => sess'[frame.sess] = NoSession
    BY <1>0, <1>3 DEF JoinReaderAndFree
  <2>3. frame.sess \in Sessions /\ worker'[frame.sess].pc = "publish" =>
          worker'[frame.sess] = worker[frame.sess]
    BY <1>0, <1>3 DEF JoinReaderAndFree, NoWorker
  <2> QED
    BY <1>0, <1>3, <2>1, <2>2, <2>3 DEF JoinReaderAndFree, BuiltInv, NoSession
<1>4. ASSUME NEW s \in Sessions, LookupActive(s)
      PROVE  BuiltInv'
  <2>1. \A r \in Sessions :
          /\ sess'[r].state = sess[r].state /\ sess'[r].ring = sess[r].ring
          /\ sess'[r].ctrl = sess[r].ctrl /\ sess'[r].psock = sess[r].psock
    BY <1>0, <1>4 DEF LookupActive, Session
  <2> QED
    BY <1>4, <2>1, BuiltSame DEF LookupActive
<1>5. ASSUME NEW s \in Sessions, LookupPending(s)
      PROVE  BuiltInv'
  <2>1. sess'[s].state = "PENDING" /\ \A r \in Sessions \ {s} : sess'[r] = sess[r]
    BY <1>0, <1>5 DEF LookupPending, Session
  <2> QED
    BY <1>0, <1>5, <2>1 DEF LookupPending, BuiltInv
<1>6. ASSUME NEW s \in Sessions, Insert(s)
      PROVE  BuiltInv'
  <2>1. /\ sess'[s].state = "PENDING" /\ \A r \in Sessions \ {s} : sess'[r] = sess[r]
        /\ worker'[s].pc = "handshake" /\ \A r \in Sessions \ {s} : worker'[r] = worker[r]
    BY <1>0, <1>6 DEF Insert, NoSession, NoWorker
  <2> QED
    BY <1>0, <1>6, <2>1 DEF Insert, BuiltInv
<1>7. ASSUME UNCHANGED <<sess, table, worker, reader>>
      PROVE  BuiltInv'
  BY <1>7, BuiltSame
<1> QED
  BY <1>1, <1>2, <1>3, <1>4, <1>5, <1>6, <1>7
     DEF RelayStep, LoopTest, SelectTimeout, JoinWorker, LookupNone, SendOk, SendError,
         CapCheck, InsertFails, BeginSweep, SweepEnd, DrainEnd, LookupGuarded, LookupReap,
         SweepVictim, DrainOne, SweepBucket

LEMMA BuiltThreads ==
  ASSUME TypeOK, ControlInv, BuiltInv, NEW s \in Sessions, WorkerStep(s) \/ ReaderStep(s)
  PROVE  BuiltInv'
<1>0. /\ sess \in [Sessions -> Session] /\ worker \in [Sessions -> Worker]
      /\ reader \in [Sessions -> Reader] /\ table \subseteq Sessions
  BY DEF TypeOK
<1>1. CASE Handshake(s)
  <2>1. PICK t, u \in Handles \cup {None} :
          /\ t = None => u = None
          /\ worker' = [worker EXCEPT ![s] =
                          [pc |-> "publish", ok |-> u # None, ctrl |-> t, psock |-> u]]
    BY <1>1 DEF Handshake
  <2> QED
    BY <1>0, <1>1, <2>1 DEF Handshake, BuiltInv
<1>2. ASSUME Exiting(s)
      PROVE  worker'[s].pc = "exiting" /\ \A r \in Sessions \ {s} : worker'[r] = worker[r]
  BY <1>0, <1>2 DEF Exiting, NoWorker
<1>3. CASE WorkerBail(s)
  BY <1>0, <1>2, <1>3 DEF WorkerBail, CloseSockets, BuiltInv
<1>4. CASE WorkerFails(s)
  <2>1. /\ sess'[s].state = "DEAD" /\ sess'[s].ring = <<>>
        /\ \A r \in Sessions \ {s} : sess'[r] = sess[r]
    BY <1>0, <1>4 DEF WorkerFails, Session
  <2> QED
    BY <1>0, <1>2, <1>4, <2>1 DEF WorkerFails, CloseSockets, BuiltInv
<1>5. CASE WorkerPublishes(s)
  <2>1. sess[s] \in Session
    BY <1>0
  <2>2. /\ \A r \in Sessions \ {s} : sess'[r] = sess[r] /\ reader'[r] = reader[r]
        /\ sess'[s].ring = <<>>
        /\ sess'[s].ctrl = worker[s].ctrl /\ sess'[s].psock = worker[s].psock
        /\ sess'[s].state = "ACTIVE" => reader'[s].pc = "top"
    <3>1. /\ Published(s).ring = <<>>
          /\ Published(s).ctrl = worker[s].ctrl /\ Published(s).psock = worker[s].psock
      BY <2>1 DEF Published, Session
    <3>2. \/ /\ sess' = [sess EXCEPT ![s] = [Published(s) EXCEPT !.state = "ACTIVE"]]
             /\ reader' = [reader EXCEPT ![s] = [pc |-> "top", sock |-> None]]
          \/ /\ sess' = [sess EXCEPT ![s] = [Published(s) EXCEPT !.failed = 0, !.state = "DEAD"]]
             /\ UNCHANGED reader
      BY <1>5 DEF WorkerPublishes
    <3>3. \A p \in Session :
            /\ [p EXCEPT !.state = "ACTIVE"].ring = p.ring
            /\ [p EXCEPT !.state = "ACTIVE"].ctrl = p.ctrl
            /\ [p EXCEPT !.state = "ACTIVE"].psock = p.psock
            /\ [p EXCEPT !.failed = 0, !.state = "DEAD"].ring = p.ring
            /\ [p EXCEPT !.failed = 0, !.state = "DEAD"].ctrl = p.ctrl
            /\ [p EXCEPT !.failed = 0, !.state = "DEAD"].psock = p.psock
            /\ [p EXCEPT !.failed = 0, !.state = "DEAD"].state = "DEAD"
      BY DEF Session
    <3>4. Published(s) \in Session
      BY <1>0, <2>1, AgeFacts, PushRingType DEF Published, Session, Worker
    <3>5. CASE /\ sess' = [sess EXCEPT ![s] = [Published(s) EXCEPT !.state = "ACTIVE"]]
               /\ reader' = [reader EXCEPT ![s] = [pc |-> "top", sock |-> None]]
      BY <1>0, <3>1, <3>3, <3>4, <3>5
    <3>6. CASE /\ sess' = [sess EXCEPT ![s] = [Published(s) EXCEPT !.failed = 0, !.state = "DEAD"]]
               /\ UNCHANGED reader
      BY <1>0, <3>1, <3>3, <3>4, <3>6
    <3> QED
      BY <3>2, <3>5, <3>6
  <2> QED
    BY <1>0, <1>2, <1>5, <2>2 DEF WorkerPublishes, BuiltInv
<1>6. CASE WorkerExit(s)
  BY <1>0, <1>6 DEF WorkerExit, BuiltInv
<1>7. CASE ReaderStep(s)
  <2>1. \A r \in Sessions :
          /\ sess'[r].state = sess[r].state /\ sess'[r].ring = sess[r].ring
          /\ sess'[r].ctrl = sess[r].ctrl /\ sess'[r].psock = sess[r].psock
          /\ reader[r].pc # "none" => reader'[r].pc # "none"
    BY <1>0, <1>7 DEF ReaderStep, ReaderEnter, ReaderRecv, ReaderBreak, Session
  <2> QED
    BY <1>7, <2>1, BuiltSame DEF ReaderStep, ReaderEnter, ReaderRecv, ReaderBreak
<1> QED
  BY <1>1, <1>3, <1>4, <1>5, <1>6, <1>7 DEF WorkerStep

LEMMA BuiltOther ==
  ASSUME TypeOK, BuiltInv, Tick \/ Stop \/ (\E k \in Keys : Receive(k)) \/ UNCHANGED vars
  PROVE  BuiltInv'
<1>1. /\ UNCHANGED <<table, worker, reader>>
      /\ \A r \in Sessions :
           /\ sess'[r].state = sess[r].state /\ sess'[r].ring = sess[r].ring
           /\ sess'[r].ctrl = sess[r].ctrl /\ sess'[r].psock = sess[r].psock
  <2>1. CASE Tick
    BY <2>1 DEF Tick, TypeOK, Session
  <2>2. CASE Stop \/ (\E k \in Keys : Receive(k)) \/ UNCHANGED vars
    BY <2>2 DEF Stop, Receive, vars
  <2> QED
    BY <2>1, <2>2
<1> QED
  BY <1>1, BuiltSame

\* BuiltInv holds at the start and every step keeps it.
LEMMA BuiltInvariance == Spec => []BuiltInv
<1>1. Init => BuiltInv
  BY DEF Init, BuiltInv, NoWorker, NoSession
<1>2. TypeOK /\ ControlInv /\ BuiltInv /\ [Next]_vars => BuiltInv'
  BY BuiltRelay, BuiltThreads, BuiltOther DEF Next
<1> QED
  BY <1>1, <1>2, Invariance, PTL DEF Spec

\* The relay never meets a half-built session in the table (comment at
\* ProxyBridge.c:3515-3517), for any number of sessions, whatever fails.
THEOREM SessionsBuilt == Spec => []NoHalfBuiltSession
<1>1. TypeOK /\ ControlInv /\ SocketInv /\ BuiltInv => NoHalfBuiltSession
  <2>1. SUFFICES ASSUME TypeOK, ControlInv, SocketInv, BuiltInv, NEW s \in table
                 PROVE  CASE sess[s].state = "PENDING" ->
                               /\ worker[s].pc \in {"handshake", "publish"}
                               /\ sess[s].ctrl = None /\ sess[s].psock = None
                               /\ reader[s].pc = "none"
                          [] sess[s].state = "ACTIVE" ->
                               /\ sess[s].ctrl \in Handles /\ sess[s].psock \in Handles
                               /\ sess[s].ring = <<>> /\ reader[s].pc # "none"
                          [] sess[s].state = "DEAD" -> sess[s].ring = <<>>
                          [] OTHER -> FALSE
    BY DEF NoHalfBuiltSession
  <2>2. s \in Sessions /\ sess[s].state \in {"FREE", "PENDING", "ACTIVE", "DEAD"}
    BY <2>1 DEF TypeOK, Session
  <2>3. sess[s].state # "FREE"
    BY <2>1, <2>2 DEF ControlInv, Ownership
  <2>4. CASE sess[s].state = "PENDING"
    BY <2>1, <2>2, <2>4 DEF ControlInv, Ownership, SocketInv
  <2>5. CASE sess[s].state = "ACTIVE"
    BY <2>1, <2>2, <2>5 DEF BuiltInv
  <2>6. CASE sess[s].state = "DEAD"
    BY <2>1, <2>2, <2>6 DEF BuiltInv
  <2> QED
    BY <2>2, <2>3, <2>4, <2>5, <2>6
<1> QED
  BY <1>1, SocketInvariance, BuiltInvariance, Invariance, PTL

-----------------------------------------------------------------------------
(* Implementation of DatagramOrder: what a step passes on is newer than all  *)
(* that was passed on before, whether the relay sends a datagram itself or a *)
(* worker flushes a ring.                                                    *)

\* The relay holds a datagram it has neither sent, buffered nor dropped.
Carries ==
  \/ relay.pc \in {"lookup", "send", "cap", "insert"}
  \/ relay.pc \in DestroyPC /\ frame.ret = "cap"

LastOf(q) == IF q = <<>> THEN 0 ELSE q[Len(q)]
Last(k) == LastOf(sent[k])

\* The datagrams in q come in their order and lie in lo .. hi.
Between(lo, q, hi) ==
  /\ \A i \in DOMAIN q : q[i] \in lo .. hi
  /\ \A i, j \in DOMAIN q : i < j => q[i] < q[j]

\* A ring holds a batch newer than what was sent, and the relay's datagram is
\* newer than both.
OrderInv ==
  /\ \A k \in Keys : Last(k) \in 0 .. handed[k]
  /\ \A s \in table : /\ sess[s].key \in Keys
                      /\ Between(Last(sess[s].key) + 1, sess[s].ring, handed[sess[s].key])
  /\ Carries =>
       /\ relay.key \in Keys /\ relay.dgram \in Last(relay.key) + 1 .. handed[relay.key]
       /\ \A s \in Chain(relay.key) : \A i \in DOMAIN sess[s].ring :
            sess[s].ring[i] < relay.dgram
  /\ relay.pc = "send" => sess[relay.cur].key = relay.key

-----------------------------------------------------------------------------
(* Batches *)

\* The last datagram sent once a batch has been passed on.
LEMMA LastConcat ==
  ASSUME NEW q \in Seq(Nat), NEW b \in Seq(Nat)
  PROVE  /\ b = <<>> => LastOf(q \o b) = LastOf(q)
         /\ b # <<>> => LastOf(q \o b) = b[Len(b)] /\ Len(b) \in DOMAIN b
<1>1. CASE b = <<>>
  BY <1>1, ConcatEmptySeq
<1>2. CASE b # <<>>
  <2>1. Len(b) \in Nat \ {0} /\ Len(q) \in Nat /\ DOMAIN b = 1 .. Len(b)
    BY <1>2, EmptySeq, LenProperties
  <2>2. /\ Len(q \o b) = Len(q) + Len(b)
        /\ (q \o b)[Len(q) + Len(b)] = b[Len(b)]
    BY <2>1, ConcatProperties
  <2>3. q \o b # <<>>
    BY <1>2, ConcatEqualIffEmpty
  <2> QED
    BY <1>2, <2>1, <2>2, <2>3 DEF LastOf
<1> QED
  BY <1>1, <1>2

\* A concatenation is cut again into its parts.
LEMMA CutConcat ==
  ASSUME NEW q \in Seq(Nat), NEW b \in Seq(Nat)
  PROVE  /\ Len(q \o b) >= Len(q)
         /\ SubSeq(q \o b, 1, Len(q)) = q
         /\ SubSeq(q \o b, Len(q) + 1, Len(q \o b)) = b
<1> DEFINE r == q \o b
<1>1. /\ r \in Seq(Nat) /\ Len(q) \in Nat /\ Len(b) \in Nat /\ Len(r) = Len(q) + Len(b)
      /\ \A i \in 1 .. Len(q) + Len(b) : r[i] = IF i <= Len(q) THEN q[i] ELSE b[i - Len(q)]
  BY ConcatProperties, LenProperties
<1>2. \A i \in 1 .. Len(r) : r[i] \in Nat
  BY <1>1, ElementOfSeq
<1>3. /\ SubSeq(r, 1, Len(q)) \in Seq(Nat) /\ Len(SubSeq(r, 1, Len(q))) = Len(q)
      /\ \A i \in 1 .. Len(q) : SubSeq(r, 1, Len(q))[i] = r[i]
  <2> HIDE DEF r
  <2>1. 1 \in Int /\ Len(q) \in Int /\ \A i \in 1 .. Len(q) : r[i] \in Nat
    BY <1>1, <1>2
  <2>2. /\ SubSeq(r, 1, Len(q)) \in Seq(Nat)
        /\ Len(SubSeq(r, 1, Len(q))) = IF 1 <= Len(q) THEN Len(q) - 1 + 1 ELSE 0
        /\ \A i \in 1 .. Len(q) - 1 + 1 : SubSeq(r, 1, Len(q))[i] = r[1 + i - 1]
    BY <2>1, SubSeqProperties
  <2> QED
    BY <1>1, <2>2
<1>4. /\ SubSeq(r, Len(q) + 1, Len(r)) \in Seq(Nat)
      /\ Len(SubSeq(r, Len(q) + 1, Len(r))) = Len(b)
      /\ \A i \in 1 .. Len(b) : SubSeq(r, Len(q) + 1, Len(r))[i] = r[Len(q) + i]
  <2> HIDE DEF r
  <2>1. Len(q) + 1 \in Int /\ Len(r) \in Int /\ \A i \in Len(q) + 1 .. Len(r) : r[i] \in Nat
    BY <1>1, <1>2
  <2>2. /\ SubSeq(r, Len(q) + 1, Len(r)) \in Seq(Nat)
        /\ Len(SubSeq(r, Len(q) + 1, Len(r)))
             = IF Len(q) + 1 <= Len(r) THEN Len(r) - (Len(q) + 1) + 1 ELSE 0
        /\ \A i \in 1 .. Len(r) - (Len(q) + 1) + 1 :
             SubSeq(r, Len(q) + 1, Len(r))[i] = r[Len(q) + 1 + i - 1]
    BY <2>1, SubSeqProperties
  <2> QED
    BY <1>1, <2>2
<1>5. SubSeq(r, 1, Len(q)) = q
  <2> HIDE DEF r
  <2>1. \A i \in 1 .. Len(q) : SubSeq(r, 1, Len(q))[i] = q[i]
    BY <1>1, <1>3
  <2> QED
    BY <1>3, <2>1, SeqEqual
<1>6. SubSeq(r, Len(q) + 1, Len(r)) = b
  <2> HIDE DEF r
  <2>1. ASSUME NEW i \in 1 .. Len(b)
        PROVE  SubSeq(r, Len(q) + 1, Len(r))[i] = b[i]
    <3>1. /\ Len(q) + i \in 1 .. Len(q) + Len(b) /\ ~(Len(q) + i <= Len(q))
          /\ Len(q) + i - Len(q) = i
      BY <1>1
    <3>2. r[Len(q) + i] = b[Len(q) + i - Len(q)]
      BY <1>1, <3>1
    <3> QED
      BY <1>4, <3>1, <3>2
  <2> QED
    BY <1>4, <2>1, SeqEqual
<1> QED
  BY <1>1, <1>5, <1>6

\* Passing a newer batch on is a step of DatagramOrder.
LEMMA BatchStep ==
  ASSUME TypeOK, NEW k \in Keys, NEW b \in Seq(Nat), UNCHANGED handed,
         sent' = [sent EXCEPT ![k] = @ \o b], Between(Last(k) + 1, b, handed[k])
  PROVE  /\ Promise!PassOn(k)
         /\ \A c \in Keys \ {k} : Last(c)' = Last(c)
         /\ b = <<>> => Last(k)' = Last(k)
         /\ b # <<>> => /\ Last(k)' = b[Len(b)] /\ Len(b) \in DOMAIN b
                        /\ \A i \in DOMAIN b : b[i] <= b[Len(b)]
<1>1. sent \in [Keys -> Seq(Nat)] /\ handed \in [Keys -> Nat]
  BY DEF TypeOK
<1>2. sent[k] \in Seq(Nat) /\ sent'[k] = sent[k] \o b
  BY <1>1
<1>3. \A c \in Keys \ {k} : sent'[c] = sent[c]
  BY <1>1
<1>4. DOMAIN sent' = Keys
  BY <1>1
<1>5. Promise!LastSent(k) = Last(k)
  BY DEF Promise!LastSent, Last, LastOf
<1>6. Promise!IsNewerBatch(k, b)
  BY <1>5 DEF Promise!IsNewerBatch, Between
<1>7. Promise!PassOn(k)
  BY <1>2, <1>3, <1>4, <1>6, CutConcat DEF Promise!PassOn
<1>8. b # <<>> => \A i \in DOMAIN b : b[i] <= b[Len(b)]
  <2>1. DOMAIN b = 1 .. Len(b) /\ Len(b) \in Nat /\ \A i \in 1 .. Len(b) : b[i] \in Nat
    BY LenProperties, ElementOfSeq
  <2> QED
    BY <2>1 DEF Between
<1> QED
  BY <1>2, <1>3, <1>7, <1>8, LastConcat DEF Last

-----------------------------------------------------------------------------
(* OrderInv is inductive *)

\* Steps that leave the datagrams and the rings alone, and give the relay no
\* datagram.
LEMMA OrderSame ==
  ASSUME OrderInv, UNCHANGED <<handed, sent>>, table' \subseteq table,
         \A s \in table' : sess'[s].key = sess[s].key /\ sess'[s].ring = sess[s].ring,
         Carries' => Carries /\ relay'.key = relay.key /\ relay'.dgram = relay.dgram,
         relay'.pc = "send" => /\ relay.pc = "send" /\ relay'.cur = relay.cur
                               /\ relay'.key = relay.key /\ relay.cur \in table'
  PROVE  OrderInv'
BY DEF OrderInv, Last, Chain

\* The relay thread, except for the steps that move a datagram.
LEMMA OrderRelayQuiet ==
  ASSUME TypeOK, ControlInv, OrderInv, RelayStep, ~SendOk,
         \A s \in Sessions : ~LookupActive(s) /\ ~LookupPending(s) /\ ~Insert(s)
  PROVE  OrderInv'
<1>0. /\ sess \in [Sessions -> Session] /\ relay \in Relay /\ frame \in Frame
      /\ table \subseteq Sessions
  BY DEF TypeOK
<1>1. CASE Unlink
  <2>1. relay'.pc = "close" /\ relay'.key = relay.key /\ relay'.dgram = relay.dgram
    BY <1>0, <1>1 DEF Unlink, Goto, Relay
  <2>2. frame'.ret = frame.ret
    BY <1>0, <1>1 DEF Unlink, Frame
  <2>3. \A s \in Sessions : sess'[s].key = sess[s].key /\ sess'[s].ring = sess[s].ring
    BY <1>0, <1>1 DEF Unlink, Session
  <2> QED
    BY <1>0, <1>1, <2>1, <2>2, <2>3, OrderSame DEF Unlink, Carries, DestroyPC
<1>2. CASE JoinReaderAndFree
  <2>1. frame.sess \in Sessions \ table
    BY <1>2 DEF JoinReaderAndFree, ControlInv, Ownership, JoiningPC, DestroyPC
  <2>2. \A s \in table : sess'[s] = sess[s]
    BY <1>0, <1>2, <2>1 DEF JoinReaderAndFree
  <2>3. relay' = Resume(frame.ret) /\ frame.ret \in {"top", "cap", "sweep", "drain"}
    BY <1>0, <1>2 DEF JoinReaderAndFree, Frame
  <2>4. CASE frame.ret = "cap"
    <3>1. relay'.pc = "cap" /\ relay'.key = relay.key /\ relay'.dgram = relay.dgram
      BY <1>0, <2>3, <2>4 DEF Resume, Goto, Relay
    <3>2. Carries
      BY <1>2, <2>4 DEF JoinReaderAndFree, Carries, DestroyPC
    <3> QED
      BY <1>2, <2>2, <3>1, <3>2, OrderSame DEF JoinReaderAndFree
  <2>5. CASE frame.ret # "cap"
    <3>1. relay'.pc \in {"top", "sweep", "drain"}
      BY <1>0, <2>3, <2>5 DEF Resume, EndIteration, Goto, Relay
    <3> QED
      BY <1>2, <2>2, <3>1, OrderSame DEF JoinReaderAndFree, Carries, DestroyPC
  <2> QED
    BY <2>4, <2>5
<1>3. ASSUME NEW s \in Sessions \cup {None}, NEW ret \in {"top", "sweep", "drain", "cap"},
             Destroy(s, ret), ret = "cap" => relay.pc = "lookup",
             UNCHANGED <<sess, table, handed, sent>>
      PROVE  OrderInv'
  <2>1. /\ relay'.pc = "unlink" /\ relay'.key = relay.key /\ relay'.dgram = relay.dgram
        /\ frame'.ret = ret
    BY <1>0, <1>3 DEF Destroy, Goto, Relay, NoFrame
  <2> QED
    BY <1>3, <2>1, OrderSame DEF Carries, DestroyPC
<1>4. ASSUME NEW pc \in {"select", "drain", "joinw", "joinr", "cap", "insert", "done"},
             relay' = Goto(pc), UNCHANGED <<sess, table, frame, handed, sent>>,
             pc \in {"cap", "insert"} => relay.pc \in {"lookup", "cap"},
             pc \in {"joinw", "joinr"} => relay.pc \in {"close", "joinw"}
      PROVE  OrderInv'
  <2>1. relay'.pc = pc /\ relay'.key = relay.key /\ relay'.dgram = relay.dgram
    BY <1>0, <1>4 DEF Goto, Relay
  <2> QED
    BY <1>4, <2>1, OrderSame DEF Carries, DestroyPC
<1>5. ASSUME relay'.pc \in {"top", "sweep"}, UNCHANGED <<sess, table, handed, sent>>
      PROVE  OrderInv'
  BY <1>5, OrderSame DEF Carries, DestroyPC
<1>6. relay' = EndIteration => relay'.pc = "top"
  BY <1>0 DEF EndIteration, Relay
<1>7. CASE LoopTest \/ DrainEnd \/ JoinWorker \/ LookupNone
  BY <1>4, <1>7 DEF LoopTest, DrainEnd, JoinWorker, LookupNone
<1>8. CASE CloseBoth
  BY <1>4, <1>8 DEF CloseBoth
<1>9. CASE CapCheck
  BY <1>4, <1>5, <1>6, <1>9 DEF CapCheck
<1>10. CASE SelectTimeout \/ InsertFails \/ SweepEnd
  BY <1>5, <1>6, <1>10 DEF SelectTimeout, InsertFails, SweepEnd
<1>11. ASSUME BeginSweep \/ (\E k \in Keys : SweepBucket(k))
       PROVE  OrderInv'
  <2>1. relay'.pc = "sweep"
    BY <1>0, <1>11 DEF BeginSweep, SweepBucket, Relay
  <2> QED
    BY <1>5, <1>11, <2>1 DEF BeginSweep, SweepBucket
<1>12. CASE SendError
  <2>1. relay.cur \in Sessions \cup {None}
    BY <1>0 DEF Relay
  <2> QED
    BY <1>3, <1>12, <2>1 DEF SendError
<1>13. ASSUME NEW s \in Sessions, LookupGuarded(s) \/ LookupReap(s) \/ SweepVictim(s) \/ DrainOne(s)
       PROVE  OrderInv'
  BY <1>3, <1>5, <1>6, <1>13 DEF LookupGuarded, LookupReap, SweepVictim, DrainOne
<1> QED
  BY <1>1, <1>2, <1>7, <1>8, <1>9, <1>10, <1>11, <1>12, <1>13 DEF RelayStep

\* A ring that takes the relay's datagram still holds a newer batch.
LEMMA PushKeepsOrder ==
  ASSUME NEW lo \in Nat, NEW hi \in Nat, NEW q \in Seq(Nat), NEW d \in lo .. hi,
         Between(lo, q, hi), \A i \in DOMAIN q : q[i] < d
  PROVE  \A ring \in Buffered(q, d) : Between(lo, ring, hi)
<1>1. Between(lo, Append(q, d), hi)
  <2>1. /\ Append(q, d) \in Seq(Nat) /\ Len(q) \in Nat /\ Len(Append(q, d)) = Len(q) + 1
        /\ \A i \in 1 .. Len(q) : Append(q, d)[i] = q[i]
        /\ Append(q, d)[Len(q) + 1] = d
        /\ DOMAIN q = 1 .. Len(q) /\ DOMAIN Append(q, d) = 1 .. Len(q) + 1
    BY AppendProperties, LenProperties
  <2>2. \A i \in 1 .. Len(q) + 1 : i \in 1 .. Len(q) \/ i = Len(q) + 1
    BY <2>1
  <2>3. ASSUME NEW i \in 1 .. Len(q) + 1, NEW j \in 1 .. Len(q) + 1, i < j
        PROVE  Append(q, d)[i] < Append(q, d)[j]
    <3>1. i \in 1 .. Len(q)
      BY <2>1, <2>3
    <3>2. CASE j = Len(q) + 1
      BY <2>1, <3>1, <3>2
    <3>3. CASE j \in 1 .. Len(q)
      BY <2>1, <2>3, <3>1, <3>3 DEF Between
    <3> QED
      BY <2>2, <3>2, <3>3
  <2> QED
    BY <2>1, <2>2, <2>3 DEF Between
<1> QED
  BY <1>1 DEF Buffered, PushRing

\* The steps of the relay thread that move a datagram.
LEMMA OrderRelayMoves ==
  ASSUME TypeOK, ControlInv, OrderInv, NEW s \in Sessions,
         LookupActive(s) \/ LookupPending(s) \/ Insert(s)
  PROVE  OrderInv'
<1>0. /\ sess \in [Sessions -> Session] /\ relay \in Relay
      /\ table \subseteq Sessions /\ sent \in [Keys -> Seq(Nat)] /\ handed \in [Keys -> Nat]
  BY DEF TypeOK
<1>1. CASE LookupActive(s)
  <2>1. /\ relay'.pc = "send" /\ relay'.cur = s
        /\ relay'.key = relay.key /\ relay'.dgram = relay.dgram
    BY <1>0, <1>1 DEF LookupActive, Relay
  <2>2. \A r \in Sessions : sess'[r].key = sess[r].key /\ sess'[r].ring = sess[r].ring
    BY <1>0, <1>1 DEF LookupActive, Session
  <2>3. Carries /\ s \in table /\ sess[s].key = relay.key
    BY <1>1 DEF LookupActive, Carries, Chain
  <2> QED
    BY <1>0, <1>1, <2>1, <2>2, <2>3 DEF LookupActive, OrderInv, Last, Chain
<1>2. CASE LookupPending(s)
  <2> DEFINE k == relay.key
             d == relay.dgram
  <2>1. /\ s \in table /\ sess[s].key = k /\ k \in Keys
        /\ d \in Last(k) + 1 .. handed[k] /\ Last(k) \in 0 .. handed[k]
        /\ \A i \in DOMAIN sess[s].ring : sess[s].ring[i] < d
        /\ Between(Last(k) + 1, sess[s].ring, handed[k])
    BY <1>2 DEF LookupPending, Chain, OrderInv, Carries
  <2>2. sess[s].ring \in Seq(Nat) /\ Last(k) + 1 \in Nat /\ handed[k] \in Nat
    BY <1>0, <2>1 DEF Session, Ring
  <2>3. Between(Last(k) + 1, sess'[s].ring, handed[k])
    <3>1. \A ring \in Buffered(sess[s].ring, d) : Between(Last(k) + 1, ring, handed[k])
      BY <2>1, <2>2, PushKeepsOrder
    <3>2. sess'[s].ring \in Buffered(sess[s].ring, d)
      BY <1>0, <1>2 DEF LookupPending, Session
    <3> QED
      BY <3>1, <3>2
  <2>4. sess'[s].key = k /\ \A r \in Sessions \ {s} : sess'[r] = sess[r]
    BY <1>0, <1>2, <2>1 DEF LookupPending, Session
  <2>5. relay'.pc = "top" /\ UNCHANGED <<table, handed, sent>>
    BY <1>0, <1>2 DEF LookupPending, EndIteration, Relay
  <2> QED
    BY <1>0, <2>1, <2>3, <2>4, <2>5 DEF OrderInv, Last, Carries, DestroyPC
<1>3. CASE Insert(s)
  <2> DEFINE k == relay.key
             d == relay.dgram
  <2>1. k \in Keys /\ d \in Last(k) + 1 .. handed[k] /\ Last(k) \in 0 .. handed[k]
    BY <1>3 DEF Insert, OrderInv, Carries
  <2>2. Last(k) + 1 \in Nat /\ handed[k] \in Nat /\ <<>> \in Seq(Nat)
    BY <1>0, <2>1
  <2>3. Between(Last(k) + 1, <<>>, handed[k]) /\ \A i \in DOMAIN <<>> : <<>>[i] < d
    BY DEF Between
  <2>4. \A ring \in Buffered(<<>>, d) : Between(Last(k) + 1, ring, handed[k])
    BY <2>1, <2>2, <2>3, PushKeepsOrder
  <2>5. PICK ring \in Buffered(<<>>, d) :
          sess' = [sess EXCEPT ![s] = [NoSession EXCEPT !.key = k, !.state = "PENDING",
                                                        !.ring = ring, !.activity = relay.lag]]
    BY <1>3 DEF Insert
  <2>6. /\ sess'[s].key = k /\ sess'[s].ring = ring
        /\ \A r \in Sessions \ {s} : sess'[r] = sess[r]
    BY <1>0, <2>5 DEF NoSession
  <2>7. relay'.pc = "top" /\ table' = table \cup {s} /\ UNCHANGED <<handed, sent>>
    BY <1>0, <1>3 DEF Insert, EndIteration, Relay
  <2> QED
    BY <1>0, <2>1, <2>4, <2>6, <2>7 DEF OrderInv, Last, Carries, DestroyPC
<1> QED
  BY <1>1, <1>2, <1>3

\* The relay sends its datagram: the ring of an ACTIVE session is empty, and no
\* other session has its key.
LEMMA OrderSend ==
  ASSUME TypeOK, ControlInv, BuiltInv, OrderInv, SendOk
  PROVE  OrderInv' /\ Promise!PassOn(relay.key)
<1>0. /\ relay \in Relay /\ sent \in [Keys -> Seq(Nat)] /\ handed \in [Keys -> Nat]
      /\ table \subseteq Sessions
  BY DEF TypeOK
<1>k. PICK k \in Keys : k = relay.key
  BY DEF SendOk, OrderInv, Carries
<1>d. PICK d \in Nat : d = relay.dgram
  BY <1>0 DEF Relay
<1>1. d \in Last(k) + 1 .. handed[k] /\ Last(k) \in 0 .. handed[k]
  BY <1>k, <1>d DEF SendOk, OrderInv, Carries
<1> DEFINE b == <<d>>
<1>2. b \in Seq(Nat) /\ Len(b) = 1 /\ DOMAIN b = {1} /\ b[1] = d /\ b # <<>>
  OBVIOUS
<1>3. sent' = [sent EXCEPT ![k] = @ \o b]
  <2>1. Append(sent[k], d) = sent[k] \o <<d>>
    BY <1>0, AppendIsConcat
  <2> QED
    BY <1>0, <1>k, <1>d, <2>1 DEF SendOk
<1>4. Between(Last(k) + 1, b, handed[k])
  BY <1>1, <1>2 DEF Between
<1>5. /\ Promise!PassOn(k)
      /\ \A c \in Keys \ {k} : Last(c)' = Last(c)
      /\ Last(k)' = d
  <2>1. UNCHANGED handed
    BY DEF SendOk
  <2> HIDE DEF b
  <2>2. /\ Promise!PassOn(k)
        /\ \A c \in Keys \ {k} : Last(c)' = Last(c)
        /\ Last(k)' = b[Len(b)]
    BY <1>2, <1>3, <1>4, <2>1, BatchStep
  <2> QED
    BY <1>2, <2>2
<1>6. \A s \in table : sess[s].key = k => sess[s].ring = <<>>
  <2>1. relay.cur \in table /\ sess[relay.cur].state = "ACTIVE" /\ sess[relay.cur].key = k
    BY <1>k DEF SendOk, ControlInv, Ownership, OrderInv
  <2>2. sess[relay.cur].ring = <<>>
    BY <1>0, <2>1 DEF BuiltInv
  <2> QED
    BY <2>1, <2>2 DEF ControlInv, OneSessionPerKey
<1>7. relay'.pc = "top" /\ UNCHANGED <<sess, table, handed>>
  BY <1>0 DEF SendOk, EndIteration, Relay
<1>8. ASSUME NEW c \in Keys
      PROVE  Last(c)' \in 0 .. handed[c]
  <2>1. Last(c) \in 0 .. handed[c]
    BY DEF OrderInv
  <2>2. CASE c = k
    BY <1>0, <1>1, <1>5, <2>2
  <2>3. CASE c # k
    BY <1>5, <2>1, <2>3
  <2> QED
    BY <2>2, <2>3
<1>9. \A s \in table : sess[s].key = k => Between(d + 1, sess[s].ring, handed[k])
  BY <1>6 DEF Between
<1> QED
  BY <1>k, <1>5, <1>7, <1>8, <1>9 DEF OrderInv, Carries, DestroyPC

\* A worker flushes its ring.
LEMMA OrderPublish ==
  ASSUME TypeOK, ControlInv, OrderInv, NEW s \in Sessions, WorkerPublishes(s)
  PROVE  OrderInv' /\ \E k \in Keys : Promise!PassOn(k)
<1>0. /\ relay \in Relay /\ sent \in [Keys -> Seq(Nat)] /\ handed \in [Keys -> Nat]
      /\ table \subseteq Sessions /\ sess \in [Sessions -> Session]
  BY DEF TypeOK
<1>1. s \in table
  BY DEF WorkerPublishes, ControlInv, Ownership
<1>k. PICK k \in Keys : k = sess[s].key
  BY <1>1 DEF OrderInv
<1>b. PICK b \in Seq(Nat) : b = sess[s].ring
  BY <1>0 DEF Session, Ring
<1>2. /\ sent' = [sent EXCEPT ![k] = @ \o b] /\ UNCHANGED <<handed, table, relay, frame>>
      /\ Between(Last(k) + 1, b, handed[k])
  BY <1>1, <1>k, <1>b DEF WorkerPublishes, OrderInv
<1>3. /\ Promise!PassOn(k)
      /\ \A c \in Keys \ {k} : Last(c)' = Last(c)
      /\ b = <<>> => Last(k)' = Last(k)
      /\ b # <<>> => /\ Last(k)' = b[Len(b)] /\ Len(b) \in DOMAIN b
                     /\ \A i \in DOMAIN b : b[i] <= b[Len(b)]
  BY <1>2, BatchStep
<1>4. /\ sess'[s].key = k /\ sess'[s].ring = <<>>
      /\ \A r \in Sessions \ {s} : sess'[r] = sess[r]
  <2>1. /\ Published(s) \in Session /\ Published(s).key = k /\ Published(s).ring = <<>>
    <3>1. sess[s] \in Session /\ worker[s] \in Worker
      BY DEF TypeOK
    <3> QED
      BY <1>k, <3>1, AgeFacts, PushRingType DEF Published, Session, Worker
  <2>2. \A p \in Session :
          /\ [p EXCEPT !.state = "ACTIVE"].key = p.key
          /\ [p EXCEPT !.state = "ACTIVE"].ring = p.ring
          /\ [p EXCEPT !.failed = 0, !.state = "DEAD"].key = p.key
          /\ [p EXCEPT !.failed = 0, !.state = "DEAD"].ring = p.ring
    BY DEF Session
  <2>3. \/ sess' = [sess EXCEPT ![s] = [Published(s) EXCEPT !.state = "ACTIVE"]]
        \/ sess' = [sess EXCEPT ![s] = [Published(s) EXCEPT !.failed = 0, !.state = "DEAD"]]
    BY DEF WorkerPublishes
  <2> QED
    BY <1>0, <2>1, <2>2, <2>3
<1>5. \A r \in table : r # s => sess[r].key # k
  BY <1>1, <1>k DEF ControlInv, OneSessionPerKey
<1>6. Last(k)' \in Last(k) .. handed[k]
  <2>1. Last(k) \in 0 .. handed[k] /\ handed[k] \in Nat
    BY <1>0 DEF OrderInv
  <2>2. b # <<>> => b[Len(b)] \in Last(k) + 1 .. handed[k]
    BY <1>2, <1>3 DEF Between
  <2> QED
    BY <1>3, <2>1, <2>2
<1>7. ASSUME NEW c \in Keys
      PROVE  Last(c)' \in 0 .. handed[c]
  <2>1. Last(c) \in 0 .. handed[c] /\ handed[c] \in Nat
    BY <1>0 DEF OrderInv
  <2> QED
    BY <1>3, <1>6, <2>1
<1>8. ASSUME NEW r \in table
      PROVE  \E c \in Keys : /\ sess'[r].key = c /\ sess[r].key = c
                             /\ Between(Last(c)' + 1, sess'[r].ring, handed[c])
  <2>1. CASE r = s
    BY <1>k, <1>4, <2>1 DEF Between
  <2>2. CASE r # s
    <3>1. PICK c \in Keys : c = sess[r].key
      BY DEF OrderInv
    <3>2. c # k /\ sess'[r] = sess[r]
      BY <1>0, <1>4, <1>5, <2>2, <3>1
    <3>3. Last(c)' = Last(c)
      BY <1>3, <3>2
    <3> QED
      BY <3>1, <3>2, <3>3 DEF OrderInv
  <2> QED
    BY <2>1, <2>2
<1>9. ASSUME Carries
      PROVE  \E c \in Keys : /\ relay.key = c /\ relay.dgram \in Last(c)' + 1 .. handed[c]
                             /\ \A r \in table : sess'[r].key = c =>
                                  \A i \in DOMAIN sess'[r].ring : sess'[r].ring[i] < relay.dgram
  <2>1. PICK c \in Keys : c = relay.key
    BY <1>9 DEF OrderInv
  <2>2. /\ relay.dgram \in Last(c) + 1 .. handed[c]
        /\ \A r \in table : sess[r].key = c =>
             \A i \in DOMAIN sess[r].ring : sess[r].ring[i] < relay.dgram
    BY <1>9, <2>1 DEF OrderInv, Chain
  <2>3. relay.dgram \in Last(c)' + 1 .. handed[c]
    <3>1. CASE c # k
      BY <1>3, <2>2, <3>1
    <3>2. CASE c = k /\ b = <<>>
      BY <1>3, <2>2, <3>2
    <3>3. CASE c = k /\ b # <<>>
      <4>1. b[Len(b)] < relay.dgram /\ Last(k)' = b[Len(b)]
        BY <1>1, <1>3, <1>k, <1>b, <2>2, <3>3
      <4>2. Last(k)' \in Nat /\ relay.dgram \in Nat /\ handed[k] \in Nat
        <5>1. Last(k) \in Nat /\ handed[k] \in Nat
          BY <1>0 DEF OrderInv
        <5> QED
          BY <1>0, <1>6, <5>1 DEF Relay
      <4> QED
        BY <1>0, <2>2, <3>3, <4>1, <4>2
    <3> QED
      BY <3>1, <3>2, <3>3
  <2>4. \A r \in table : sess'[r].key = c =>
          \A i \in DOMAIN sess'[r].ring : sess'[r].ring[i] < relay.dgram
    <3>1. ASSUME NEW r \in table, sess'[r].key = c
          PROVE  \A i \in DOMAIN sess'[r].ring : sess'[r].ring[i] < relay.dgram
      <4>1. CASE r = s
        BY <1>4, <4>1
      <4>2. CASE r # s
        BY <1>0, <1>4, <2>2, <3>1, <4>2
      <4> QED
        BY <4>1, <4>2
    <3> QED
      BY <3>1
  <2> QED
    BY <2>1, <2>3, <2>4
<1>10. Carries' => Carries
  BY <1>2 DEF Carries
<1>11. relay.pc = "send" => sess'[relay.cur].key = relay.key
  <2>1. relay.pc = "send" =>
          relay.cur \in table /\ sess[relay.cur].key = relay.key /\ relay.cur # s
    BY DEF OrderInv, ControlInv, Ownership, WorkerPublishes
  <2> QED
    BY <1>0, <1>4, <2>1
<1>12. OrderInv'
  <2>1. \A c \in Keys : Last(c)' \in 0 .. handed'[c]
    BY <1>2, <1>7
  <2>2. \A r \in table' :
          /\ sess'[r].key \in Keys
          /\ Between(LastOf(sent'[sess'[r].key]) + 1, sess'[r].ring, handed'[sess'[r].key])
    BY <1>2, <1>8 DEF Last
  <2>3. Carries' =>
          /\ relay'.key \in Keys
          /\ relay'.dgram \in LastOf(sent'[relay'.key]) + 1 .. handed'[relay'.key]
          /\ \A r \in table' : sess'[r].key = relay'.key =>
               \A i \in DOMAIN sess'[r].ring : sess'[r].ring[i] < relay'.dgram
    BY <1>2, <1>9, <1>10 DEF Last
  <2>4. relay'.pc = "send" => sess'[relay'.cur].key = relay'.key
    BY <1>2, <1>11
  <2> QED
    BY <2>1, <2>2, <2>3, <2>4 DEF OrderInv, Last, Chain
<1> QED
  BY <1>3, <1>12

\* The clock, Stop, readers and the other steps of a worker move no datagram;
\* a client's datagram is newer than all before it.
LEMMA OrderOther ==
  ASSUME TypeOK, ControlInv, OrderInv,
         \/ Tick \/ Stop \/ UNCHANGED vars
         \/ \E s \in Sessions : /\ WorkerStep(s) \/ ReaderStep(s)
                                /\ ~WorkerPublishes(s)
  PROVE  OrderInv'
<1>0. /\ relay \in Relay /\ table \subseteq Sessions /\ sess \in [Sessions -> Session]
  BY DEF TypeOK
<1>1. /\ UNCHANGED <<handed, sent, table, frame>>
      /\ relay'.pc = relay.pc /\ relay'.key = relay.key /\ relay'.dgram = relay.dgram
      /\ relay'.cur = relay.cur
  BY <1>0 DEF Tick, Stop, vars, WorkerStep, ReaderStep, Handshake, WorkerBail, WorkerFails,
              WorkerExit, ReaderEnter, ReaderRecv, ReaderBreak, Relay
<1>2. CASE \E s \in Sessions : WorkerFails(s)
  <2>1. PICK s \in Sessions : WorkerFails(s)
    BY <1>2
  <2>2. /\ sess'[s].key = sess[s].key /\ sess'[s].ring = <<>>
        /\ \A r \in Sessions \ {s} : sess'[r] = sess[r]
    BY <1>0, <2>1 DEF WorkerFails, Session
  <2>3. Carries' <=> Carries
    BY <1>1 DEF Carries
  <2>4. relay.pc = "send" => relay.cur \in table
    BY DEF ControlInv, Ownership
  <2>5. \A r \in table : /\ sess'[r].key = sess[r].key
                         /\ sess'[r].ring = sess[r].ring \/ sess'[r].ring = <<>>
    BY <1>0, <2>2
  <2>6. \A lo, hi : Between(lo, <<>>, hi)
    BY DEF Between
  <2>7. \A r \in table : Between(Last(sess[r].key) + 1, sess'[r].ring, handed[sess[r].key])
    BY <2>5, <2>6 DEF OrderInv
  <2>8. Carries => \A r \in Chain(relay.key) : \A i \in DOMAIN sess'[r].ring :
                     sess'[r].ring[i] < relay.dgram
    BY <2>5 DEF OrderInv, Chain
  <2> QED
    BY <1>1, <2>3, <2>4, <2>5, <2>7, <2>8 DEF OrderInv, Last, Chain
<1>3. CASE ~\E s \in Sessions : WorkerFails(s)
  <2>1. \A r \in Sessions : sess'[r].key = sess[r].key /\ sess'[r].ring = sess[r].ring
    <3>1. CASE Tick
      BY <1>0, <3>1 DEF Tick, Session
    <3>2. ASSUME NEW s \in Sessions, ReaderRecv(s)
          PROVE  \A r \in Sessions : sess'[r].key = sess[r].key /\ sess'[r].ring = sess[r].ring
      BY <1>0, <3>2 DEF ReaderRecv, Session
    <3>3. CASE UNCHANGED sess
      BY <3>3
    <3>4. Tick \/ (\E s \in Sessions : ReaderRecv(s)) \/ UNCHANGED sess
      BY <1>3 DEF Stop, vars, WorkerStep, ReaderStep, Handshake, WorkerBail, WorkerExit,
                  ReaderEnter, ReaderBreak
    <3> QED
      BY <3>1, <3>2, <3>3, <3>4
  <2>2. relay.pc = "send" => relay.cur \in table
    BY DEF ControlInv, Ownership
  <2> QED
    BY <1>0, <1>1, <2>1, <2>2, OrderSame DEF Carries
<1> QED
  BY <1>2, <1>3

\* A client's new datagram is newer than all before it.
LEMMA OrderReceive ==
  ASSUME TypeOK, OrderInv, NEW k \in Keys, Receive(k)
  PROVE  OrderInv' /\ Promise!HandOver(k)
<1>0. /\ relay \in Relay /\ table \subseteq Sessions
      /\ handed \in [Keys -> Nat]
  BY DEF TypeOK
<1>1. /\ relay'.pc = "lookup" /\ relay'.key = k /\ relay'.dgram = handed[k] + 1
      /\ UNCHANGED <<sess, table, sent>>
      /\ handed' = [handed EXCEPT ![k] = @ + 1]
  BY <1>0 DEF Receive, Relay
<1>2. \A c \in Keys : handed[c] \in Nat /\ handed'[c] \in {handed[c], handed[c] + 1}
  BY <1>0, <1>1
<1>3. handed'[k] = handed[k] + 1 /\ Last(k) \in 0 .. handed[k]
  BY <1>0, <1>1 DEF OrderInv
<1>4. \A c \in Keys : Last(c) \in 0 .. handed'[c]
  BY <1>2 DEF OrderInv
<1>5. \A s \in table :
        /\ sess[s].key \in Keys
        /\ Between(Last(sess[s].key) + 1, sess[s].ring, handed'[sess[s].key])
  BY <1>2, <1>4 DEF OrderInv, Between
<1>6. \A s \in table : sess[s].key = k =>
        \A j \in DOMAIN sess[s].ring : sess[s].ring[j] < handed[k] + 1
  BY <1>2 DEF OrderInv, Between
<1>7. relay'.dgram \in Last(k) + 1 .. handed'[k]
  BY <1>1, <1>2, <1>3
<1> QED
  BY <1>1, <1>4, <1>5, <1>6, <1>7 DEF OrderInv, Last, Chain, Promise!HandOver

-----------------------------------------------------------------------------
(* Theorems *)

\* Every step keeps OrderInv, and does to the datagrams what one step of
\* DatagramOrder does, or nothing.
LEMMA OrderStep ==
  ASSUME TypeOK, ControlInv, BuiltInv, OrderInv, [Next]_vars
  PROVE  OrderInv' /\ [Promise!Next]_(Promise!vars)
<1>1. CASE SendOk
  <2>1. PICK k \in Keys : k = relay.key
    BY <1>1 DEF SendOk, OrderInv, Carries
  <2> QED
    BY <1>1, <2>1, OrderSend DEF Promise!Next
<1>2. ASSUME NEW s \in Sessions, WorkerPublishes(s)
      PROVE  OrderInv' /\ [Promise!Next]_(Promise!vars)
  BY <1>2, OrderPublish DEF Promise!Next
<1>3. ASSUME NEW k \in Keys, Receive(k)
      PROVE  OrderInv' /\ [Promise!Next]_(Promise!vars)
  BY <1>3, OrderReceive DEF Promise!Next
<1>4. CASE ~SendOk /\ ~(\E s \in Sessions : WorkerPublishes(s)) /\ ~(\E k \in Keys : Receive(k))
  <2>1. OrderInv'
    <3>1. CASE RelayStep
      BY <1>4, <3>1, OrderRelayQuiet, OrderRelayMoves
    <3>2. CASE ~RelayStep
      BY <1>4, <3>2, OrderOther DEF Next
    <3> QED
      BY <3>1, <3>2
  <2>2. UNCHANGED <<handed, sent>>
    <3>1. RelayStep => UNCHANGED <<handed, sent>>
      BY <1>4 DEF RelayStep, LoopTest, SelectTimeout, Unlink, CloseBoth, JoinWorker,
        JoinReaderAndFree, LookupNone, SendError, CapCheck, InsertFails, BeginSweep, SweepEnd,
        DrainEnd, LookupActive, LookupPending, LookupGuarded, LookupReap, Insert, SweepVictim,
        DrainOne, SweepBucket
    <3>2. \A s \in Sessions : WorkerStep(s) \/ ReaderStep(s) => UNCHANGED <<handed, sent>>
      BY <1>4 DEF WorkerStep, ReaderStep, Handshake, WorkerBail, WorkerFails, WorkerExit,
        ReaderEnter, ReaderRecv, ReaderBreak
    <3> QED
      BY <1>4, <3>1, <3>2 DEF Next, vars, Tick, Stop
  <2> QED
    BY <2>1, <2>2 DEF Promise!vars
<1> QED
  BY <1>1, <1>2, <1>3, <1>4

\* The full-cone relay implements DatagramOrder: each client's datagrams reach
\* the proxy at most once and in order, across buffering, flushing, teardown,
\* retries and any number of sessions.
THEOREM OrderKept == Spec => PromisedOrder
<1>1. Init => OrderInv /\ Promise!Init
  BY DEF Init, OrderInv, Promise!Init, Last, LastOf, Carries, DestroyPC
<1>2. TypeOK /\ ControlInv /\ BuiltInv /\ OrderInv /\ [Next]_vars
        => OrderInv' /\ [Promise!Next]_(Promise!vars)
  BY OrderStep
<1>3. Spec => [](TypeOK /\ ControlInv /\ BuiltInv)
  BY Invariance, BuiltInvariance, PTL
<1> QED
  BY <1>1, <1>2, <1>3, PTL DEF Spec, PromisedOrder, Promise!Spec
=============================================================================
