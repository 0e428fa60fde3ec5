----------------------------- MODULE ConnTable -----------------------------
(***************************************************************************)
(* connection_hash_table of ProxyBridge.c as it lies in memory: chains of  *)
(* heap cells, one per bucket, all changed under one lock, which the       *)
(* cleanup releases in the middle of a chain to free a cell.  A call is    *)
(* one step, since it holds the lock throughout; the cleanup is one step   *)
(* per entry.  Here a lookup refreshes nothing but a time stamp.           *)
(* TcpRedirect models the same table as a function; the names here differ  *)
(* from its own, so that a module may extend both.                         *)
(***************************************************************************)
EXTENDS Integers

CONSTANTS
  SrcPorts,               \* source ports, numbers
  CONNECTION_HASH_SIZE,
  Cells,                  \* CONNECTION_INFO structures the heap can hold
  Values,                 \* family, destination, proxy and kind of an entry
  NULL

ASSUME ConnTableConstants ==
  /\ SrcPorts \subseteq Nat /\ CONNECTION_HASH_SIZE \in Nat \ {0}
  /\ NULL \notin Cells \cup Values \cup SrcPorts

VARIABLES
  head,          \* connection_hash_table
  cell,          \* the heap
  sweeper,       \* the cleanup thread
  call,          \* the call that has just taken effect, with its result
  undefined      \* freed memory has been read

tableVars == <<head, cell, sweeper, call, undefined>>

Buckets == 0 .. CONNECTION_HASH_SIZE - 1
Hash(p) == p % CONNECTION_HASH_SIZE

Last == CONNECTION_HASH_SIZE - 1

\* The time stamp, as the cleanup will find it: expired, not expired, or
\* taken after the cleanup read the clock.
Stamps == {"old", "recent", "later"}
NoCall == [op |-> "none"]

Node(p, v, next, stamp) ==
  [live |-> TRUE, port |-> p, value |-> v, next |-> next, stamp |-> stamp]
Freed == [live |-> FALSE, port |-> NULL, value |-> NULL, next |-> NULL, stamp |-> "recent"]

\* at: the cell whose next field conn_ptr points at, NULL for the head.
Resting == [pc |-> "idle", bucket |-> 0, at |-> NULL, victim |-> NULL]

TableTypeOK ==
  /\ head \in [Buckets -> Cells \cup {NULL}]
  /\ cell \in [Cells -> [live : BOOLEAN, port : SrcPorts \cup {NULL}, value : Values \cup {NULL},
                         next : Cells \cup {NULL}, stamp : Stamps]]
  /\ sweeper \in [pc : {"idle", "enter", "scan", "free", "resume"}, bucket : Buckets,
                  at : Cells \cup {NULL}, victim : Cells \cup {NULL}]
  /\ undefined \in BOOLEAN

TableInit ==
  /\ head = [b \in Buckets |-> NULL]
  /\ cell = [c \in Cells |-> Freed]
  /\ sweeper = Resting
  /\ call = NoCall /\ undefined = FALSE

-----------------------------------------------------------------------------
(* Walking a chain *)

\* The cells that a walk of bucket b comes to which ends at port p: the least
\* set that holds the head and the next of each of its cells that has not port p.
Walk(b, p) ==
  LET closed == {S \in SUBSET Cells :
                   /\ head[b] \in S \cup {NULL}
                   /\ \A d \in S : cell[d].port = p \/ cell[d].next \in S \cup {NULL}}
  IN  {c \in Cells : \A S \in closed : c \in S}

\* The cell it finds.
Find(p) ==
  LET found == {c \in Walk(Hash(p), p) : cell[c].port = p}
  IN  IF found = {} THEN NULL ELSE CHOOSE c \in found : TRUE

\* The whole chain of a bucket.
Chain(b) == Walk(b, NULL)

\* Stop and the calls need the lock, which the cleanup holds while it scans.
Locked == sweeper.pc = "scan"

\* A time stamp taken now.
Now == IF sweeper.pc = "idle" THEN {"recent"} ELSE {"recent", "later"}

Calls(c) == ~undefined /\ ~Locked /\ call' = c /\ UNCHANGED <<sweeper, undefined>>

-----------------------------------------------------------------------------
(* The calls *)

\* Mutant: an entry that the port has is left as it is.
AddExisting_Kept(p, v) ==
  /\ Find(p) # NULL
  /\ Calls([op |-> "add", port |-> p, value |-> v])
  /\ \E t \in Now : cell' = [cell EXCEPT ![Find(p)].stamp = t]
  /\ UNCHANGED head

\* An entry of the port is overwritten.
AddExisting(p, v) ==
  /\ Find(p) # NULL
  /\ Calls([op |-> "add", port |-> p, value |-> v])
  /\ \E t \in Now : cell' = [cell EXCEPT ![Find(p)].value = v, ![Find(p)].stamp = t]
  /\ UNCHANGED head

\* Else a new cell becomes the head of its chain.
AddNew(p, v) ==
  /\ Find(p) = NULL
  /\ Calls([op |-> "add", port |-> p, value |-> v])
  /\ \E c \in Cells, t \in Now :
       /\ ~cell[c].live
       /\ cell' = [cell EXCEPT ![c] = Node(p, v, head[Hash(p)], t)]
       /\ head' = [head EXCEPT ![Hash(p)] = c]

\* Unless there is no memory for it, which may happen at any time: then the call
\* returns, and its caller is not told.
AddFails(p, v) ==
  /\ Find(p) = NULL
  /\ Calls([op |-> "add", port |-> p, value |-> v])
  /\ UNCHANGED <<head, cell>>

\* What a port is mapped to.
Value(p) == LET c == Find(p) IN IF c = NULL THEN NULL ELSE cell[c].value

\* The getters: they return what they find, and refresh it.
Get(p) ==
  /\ Calls([op |-> "get", port |-> p, value |-> Value(p)])
  /\ IF Find(p) = NULL THEN UNCHANGED cell
     ELSE \E t \in Now : cell' = [cell EXCEPT ![Find(p)].stamp = t]
  /\ UNCHANGED head

\* Mutant: the cell is freed where it is in the chain.
Unlinked_Not(c) == cell

\* The heap once the chain goes round c.
Unlinked(c) ==
  [d \in Cells |-> IF cell[d].next = c THEN [cell[d] EXCEPT !.next = cell[c].next] ELSE cell[d]]

HeadsWithout(c) == [b \in Buckets |-> IF head[b] = c THEN cell[c].next ELSE head[b]]

\* Mutant: the head of the chain goes, whatever its port.
remove_connection_Head(p) ==
  /\ Calls([op |-> "remove", port |-> p])
  /\ LET c == head[Hash(p)]
     IN IF c = NULL THEN UNCHANGED <<head, cell>>
        ELSE /\ cell' = [Unlinked(c) EXCEPT ![c] = Freed]
             /\ head' = HeadsWithout(c)

remove_connection(p) ==
  /\ Calls([op |-> "remove", port |-> p])
  /\ LET c == Find(p)
     IN IF c = NULL THEN UNCHANGED <<head, cell>>
        ELSE /\ cell' = [Unlinked(c) EXCEPT ![c] = Freed]
             /\ head' = HeadsWithout(c)

\* ProxyBridge_Stop frees every chain; the cleanup may not have ended.
StopFrees ==
  /\ Calls([op |-> "clear"])
  /\ LET all == UNION {Chain(b) : b \in Buckets}
     IN cell' = [c \in Cells |-> IF c \in all THEN Freed ELSE cell[c]]
  /\ head' = [b \in Buckets |-> NULL]

-----------------------------------------------------------------------------
(* cleanup_stale_connections *)

Cleans == ~undefined /\ UNCHANGED undefined

\* The clock is read: some entries are over the limit by then.
SweepBegin ==
  /\ Cleans /\ sweeper.pc = "idle"
  /\ sweeper' = [Resting EXCEPT !.pc = "enter"]
  /\ \E old \in SUBSET {c \in Cells : cell[c].live} :
       cell' = [c \in Cells |->
                  [cell[c] EXCEPT !.stamp = IF c \in old THEN "old" ELSE "recent"]]
  /\ UNCHANGED <<head, call>>

EnterBucket ==
  /\ Cleans /\ sweeper.pc = "enter"
  /\ sweeper' = [sweeper EXCEPT !.pc = "scan", !.at = NULL]
  /\ UNCHANGED <<head, cell, call>>

\* *conn_ptr; the cell it lies in may have been freed meanwhile.
Valid == IF sweeper.at = NULL THEN TRUE ELSE cell[sweeper.at].live
Pointed == IF sweeper.at = NULL THEN head[sweeper.bucket] ELSE cell[sweeper.at].next

Dangling ==
  /\ ~undefined /\ sweeper.pc = "scan" /\ ~Valid
  /\ undefined' = TRUE
  /\ UNCHANGED <<head, cell, sweeper, call>>

\* now - last_activity > 120000, which also holds of a stamp later than now.
StaleCell(c) == cell[c].stamp # "recent"

Keep ==
  /\ Cleans /\ sweeper.pc = "scan" /\ Valid /\ Pointed # NULL /\ ~StaleCell(Pointed)
  /\ sweeper' = [sweeper EXCEPT !.at = Pointed]
  /\ UNCHANGED <<head, cell, call>>

\* The entry leaves the chain, and the lock is released.
Expire ==
  /\ Cleans /\ sweeper.pc = "scan" /\ Valid /\ Pointed # NULL /\ StaleCell(Pointed)
  /\ sweeper' = [sweeper EXCEPT !.pc = "free", !.victim = Pointed]
  /\ IF sweeper.at = NULL
       THEN head' = [head EXCEPT ![sweeper.bucket] = cell[Pointed].next] /\ UNCHANGED cell
       ELSE cell' = [cell EXCEPT ![sweeper.at].next = cell[Pointed].next] /\ UNCHANGED head
  /\ call' = [op |-> "expire", port |-> cell[Pointed].port]

FreeVictim ==
  /\ Cleans /\ sweeper.pc = "free"
  /\ cell' = [cell EXCEPT ![sweeper.victim] = Freed]
  /\ sweeper' = [sweeper EXCEPT !.pc = "resume", !.victim = NULL]
  /\ UNCHANGED <<head, call>>

Resume ==
  /\ Cleans /\ sweeper.pc = "resume"
  /\ sweeper' = [sweeper EXCEPT !.pc = "scan"]
  /\ UNCHANGED <<head, cell, call>>

EndBucket ==
  /\ Cleans /\ sweeper.pc = "scan" /\ Valid /\ Pointed = NULL
  /\ sweeper' = IF sweeper.bucket = Last THEN Resting
                ELSE [Resting EXCEPT !.pc = "enter", !.bucket = sweeper.bucket + 1]
  /\ UNCHANGED <<head, cell, call>>

TableNext ==
  \/ \E p \in SrcPorts : \/ Get(p) \/ remove_connection(p)
                      \/ \E v \in Values : AddExisting(p, v) \/ AddNew(p, v) \/ AddFails(p, v)
  \/ StopFrees \/ SweepBegin \/ EnterBucket \/ Dangling \/ Keep \/ Expire
  \/ FreeVictim \/ Resume \/ EndBucket

TableSpec == TableInit /\ [][TableNext]_tableVars

-----------------------------------------------------------------------------
(* Properties *)

\* Until freed memory is read: every chain holds live cells of its own bucket,
\* one for each port at most, none in two chains, and no cell is lost: it is
\* in a chain or the cleanup is about to free it.  Every variable keeps its type.
ChainsSound ==
  /\ TableTypeOK
  /\ ~undefined =>
       /\ \A b \in Buckets : \A c \in Chain(b) :
            /\ cell[c].live /\ Hash(cell[c].port) = b
            /\ \A d \in Chain(b) : cell[c].port = cell[d].port => c = d
       /\ \A c \in Cells : cell[c].live =>
            (c \in UNION {Chain(b) : b \in Buckets} <=> c # sweeper.victim)

\* The cells implement the map: every call has the effect and the result of one
\* of ConnMap's calls, where the add of a new port, and no other call, may be
\* lost (add_connection without memory); and what the cleanup drops is a single
\* entry of the map.
Map ==
  INSTANCE ConnMap WITH
    Ports <- SrcPorts, Values <- Values, None <- NULL, call <- call,
    map <- [p \in SrcPorts |-> Value(p)]
ImplementsMap == Map!Spec
=============================================================================
