----------------------------- MODULE Handshake -----------------------------
(***************************************************************************)
(* The handshakes of ProxyBridge.c with a proxy, over a byte stream that   *)
(* may hand over any part of an answer, or the answer with what follows    *)
(* it: SOCKS5 CONNECT in its three forms, SOCKS5 UDP ASSOCIATE, and HTTP   *)
(* CONNECT in its two.  Bytes are counted; the content of an answer is     *)
(* what the proxy decided.  A call of recv finds a prefix of what was sent *)
(* and not yet read.  Before it, the relay takes the name of the host from *)
(* the DNS cache, which answers seen on the wire have filled; one address  *)
(* is followed.                                                            *)
(***************************************************************************)
EXTENDS Integers, Sequences, FiniteSetsExt

CONSTANTS
  Credentials,   \* usernames with passwords, as bytes; <<>> is "no username"
  Sample,        \* the credentials used with SOCKS5 proxies
  NameLens,      \* lengths of a host name in an answer
  StatusLen,     \* bytes up to the status code of an HTTP answer ("HTTP/1.1 200")
  HeadLen,       \* bytes of the whole head of an HTTP answer
  MaxEarly,      \* bytes of the tunnel that come together with the answer
  BufferSize,    \* HTTP_BUFFER_SIZE
  Names,         \* host names that may resolve to the address
  Addr,          \* the address itself in a request
  DNS_CACHE_TTL, \* DNS_CACHE_TTL_MS in ticks
  None

ASSUME HandshakeConstants ==
  /\ Credentials \subseteq Seq(0 .. 255) /\ <<>> \in Credentials
  /\ Sample \in Credentials \ {<<>>}
  /\ \A c \in Credentials : 4 * ((Len(c) + 2) \div 3) < BufferSize
  /\ NameLens \subseteq 1 .. 255 /\ MaxEarly \in Nat
  /\ StatusLen \in 12 .. HeadLen /\ HeadLen \in 12 .. 4095
  /\ BufferSize \in Nat /\ DNS_CACHE_TTL \in Nat
  /\ Addr \notin Names /\ None \notin [name : Names, left : 0 .. DNS_CACHE_TTL]

VARIABLES
  fn,            \* the handshake
  creds,         \* the configuration's
  proxy,         \* what the proxy is set up to do
  pc,
  ask,           \* the request the proxy has not answered
  rx,            \* bytes not read yet: of its answer, and of the tunnel after it
  left,          \* drain - total
  told,          \* the credentials the proxy was told
  granted,       \* the proxy has opened the tunnel, or the association
  parted,        \* history: a recv got a part of an answer only
  broken,        \* history: a send or recv has failed
  entry,         \* the address in the DNS cache, with the ticks it has left
  host,          \* what the request names
  meant          \* history: what the application wanted, see AskedForHost

vars == <<fn, creds, proxy, pc, ask, rx, left, told, granted, parted, broken, entry, host, meant>>

Socks == {"domain", "connect", "connect6", "associate"}
Http == {"http", "http6"}

\* BND.ADDR, with the length byte of a name.
Bounds == [atyp : {"v4"}, len : {4}] \cup [atyp : {"v6"}, len : {16}]
          \cup [atyp : {"name"}, len : {1 + n : n \in NameLens}]

Proxies == [method : {"none", "password", "refuse"}, login : BOOLEAN, grants : BOOLEAN,
            bound : Bounds, early : 0 .. MaxEarly]

\* VER REP RSV ATYP, BND.ADDR, BND.PORT.
AnswerLen == IF fn \in Http THEN HeadLen ELSE 6 + proxy.bound.len

\* Time left until the latest answer with this name, and with each name, is as old
\* as the cache keeps it; rival: another name has been seen since.
Meant == [name : Names \cup {Addr}, left : 0 .. DNS_CACHE_TTL, rival : BOOLEAN,
          seen : [Names -> 0 .. DNS_CACHE_TTL]]
Literal == [name |-> Addr, left |-> 0, rival |-> FALSE, seen |-> [n \in Names |-> 0]]

Less(n) == IF n > 0 THEN n - 1 ELSE 0

TypeOK ==
  /\ fn \in Socks \cup Http /\ creds \in Credentials /\ proxy \in Proxies
  /\ pc \in {"resolve", "greet", "method", "login", "answer", "name", "drain", "ok", "failed"}
  /\ ask \in {"none", "methods", "login", "request"}
  /\ rx \in [reply : 0 .. HeadLen + 262, tail : 0 .. MaxEarly]
  /\ left \in 0 .. 257
  /\ told \in Seq(0 .. 255)
  /\ {granted, parted, broken} \subseteq BOOLEAN
  /\ entry \in [name : Names, left : 0 .. DNS_CACHE_TTL] \cup {None}
  /\ host \in Names \cup {Addr}
  /\ meant \in Meant

\* What the proxy is set up to do is fixed when the connection is made.
Init ==
  /\ fn = "connect" /\ creds = <<>> /\ proxy = CHOOSE p \in Proxies : TRUE
  /\ pc = "resolve" /\ ask = "none"
  /\ rx = [reply |-> 0, tail |-> 0] /\ left = 0
  /\ told = <<>> /\ granted = FALSE /\ parted = FALSE /\ broken = FALSE
  /\ entry = None /\ host = Addr /\ meant = Literal

-----------------------------------------------------------------------------
(* The DNS cache.  The tables of the two families differ in nothing else.  *)

Stream == <<fn, creds, proxy, pc, ask, rx, left, told, granted, parted, broken, host>>

\* Mutant: a name that is there already stays.
dns_cache_store_KeepsName(n) ==
  IF entry = None THEN [name |-> n, left |-> DNS_CACHE_TTL] ELSE [entry EXCEPT !.left = DNS_CACHE_TTL]

dns_cache_store(n) == [name |-> n, left |-> DNS_CACHE_TTL]

\* An expired entry stays, but is not found.
dns_cache_lookup == IF entry # None /\ entry.left > 0 THEN entry.name ELSE Addr

\* Start empties the cache.
dns_cache_init ==
  /\ pc = "resolve" /\ entry' = None
  /\ meant' = [Literal EXCEPT !.name = meant.name]
  /\ UNCHANGED Stream

\* An answer for question n with the address in it: to this application, which
\* will connect to the address, or to another.  A new entry may find no memory.
snoop_dns_response(n, own) ==
  /\ pc = "resolve"
  /\ \/ /\ entry' = dns_cache_store(n)
        /\ LET seen == [meant.seen EXCEPT ![n] = DNS_CACHE_TTL]
           IN meant' = IF own
                THEN [name |-> n, left |-> DNS_CACHE_TTL, rival |-> FALSE, seen |-> seen]
                ELSE [meant EXCEPT !.rival = @ \/ n # meant.name, !.seen = seen]
     \/ /\ entry = None /\ UNCHANGED entry
        /\ meant' = IF own THEN [Literal EXCEPT !.name = n] ELSE meant
  /\ UNCHANGED Stream

\* An answer the packet thread does not look into: it came through a proxy, or not
\* over UDP.
ResolvesUnseen(n) ==
  /\ pc = "resolve"
  /\ meant' = [meant EXCEPT !.name = n, !.left = 0, !.rival = FALSE]
  /\ UNCHANGED <<entry, Stream>>

Tick ==
  /\ pc = "resolve"
  /\ entry' = IF entry = None THEN None ELSE [entry EXCEPT !.left = Less(@)]
  /\ meant' = [meant EXCEPT !.left = Less(@), !.seen = [n \in Names |-> Less(@[n])]]
  /\ UNCHANGED Stream

\* The form follows from proxy, family and DNS cache; the associations use
\* "associate", ProxyBridge_TestProxyConfig the IPv4 forms with an address.
connection_handler ==
  /\ pc = "resolve" /\ pc' = "greet"
  /\ fn' \in Socks \cup Http
  /\ host' = IF fn' = "associate" THEN Addr ELSE dns_cache_lookup
  /\ fn' = "domain" => host' # Addr
  /\ fn' \in {"connect", "connect6"} => host' = Addr
  /\ creds' \in IF fn' \in Http THEN Credentials ELSE {<<>>, Sample}
  /\ proxy' \in Proxies
  /\ fn' \in Http => proxy'.method = "none" /\ proxy'.bound.atyp = "v4" /\ proxy'.login
  /\ UNCHANGED <<ask, rx, left, told, granted, parted, broken, entry, meant>>

-----------------------------------------------------------------------------
(* base64_encode.  64 stands for '='. *)

Groups(len, size) == Cardinality({g \in 0 .. len : 3 * g < len /\ 4 * g < size - 4})

base64_encode(in, size) ==
  LET byte(i) == IF i <= Len(in) THEN in[i] ELSE 0
      char(i, j) ==
        CASE j = 0 -> byte(i) \div 4
          [] j = 1 -> (byte(i) % 4) * 16 + byte(i + 1) \div 16
          [] j = 2 -> IF i + 1 <= Len(in) THEN (byte(i + 1) % 16) * 4 + byte(i + 2) \div 64 ELSE 64
          [] j = 3 -> IF i + 2 <= Len(in) THEN byte(i + 2) % 64 ELSE 64
  IN [k \in 1 .. 4 * Groups(Len(in), size) |->
        char(3 * ((k - 1) \div 4) + 1, (k - 1) % 4)]

\* What the proxy reads in it (RFC 4648).
Decoded(out) ==
  LET pads == Cardinality({k \in DOMAIN out : out[k] = 64})
      six(k) == out[k] % 64
      word(g) == ((six(4 * g + 1) * 64 + six(4 * g + 2)) * 64 + six(4 * g + 3)) * 64 + six(4 * g + 4)
      byte(i) == LET g == (i - 1) \div 3
                 IN CASE i % 3 = 1 -> word(g) \div 65536
                      [] i % 3 = 2 -> (word(g) \div 256) % 256
                      [] i % 3 = 0 -> word(g) % 256
  IN [i \in 1 .. 3 * (Len(out) \div 4) - pads |-> byte(i)]

-----------------------------------------------------------------------------
(* The stream *)

Unread == rx.reply + rx.tail

\* recv(s, buf, n) returns k bytes.
Recv(n, k) ==
  /\ k \in 1 .. Min({n, Unread})
  /\ rx' = IF k <= rx.reply THEN [rx EXCEPT !.reply = @ - k]
           ELSE [reply |-> 0, tail |-> Unread - k]
  /\ parted' = (parted \/ (k < n /\ k < rx.reply))

Ends(how) == pc' = how /\ UNCHANGED <<ask, left, told>>

Asks(what, next) == ask' = what /\ pc' = next

\* Once the request is made the DNS cache no longer matters to it.
Fixed == UNCHANGED <<fn, creds, proxy, host>> /\ entry' = None /\ meant' = Literal

\* Any send fails, or any recv: the peer is gone or silent for too long.
Breaks ==
  /\ pc \notin {"resolve", "ok", "failed"}
  /\ pc' = "failed" /\ broken' = TRUE
  /\ UNCHANGED <<ask, rx, left, told, granted, parted>> /\ Fixed

-----------------------------------------------------------------------------
(* The handshakes *)

Greet ==
  /\ pc = "greet"
  /\ IF fn \in Socks
       THEN Asks("methods", "method") /\ UNCHANGED told
       ELSE Asks("request", "answer") /\ told' = Decoded(base64_encode(creds, BufferSize))
  /\ UNCHANGED <<rx, left, granted, parted, broken>> /\ Fixed

\* The proxy's choice of method.
Method ==
  /\ pc = "method"
  /\ \E k \in 1 .. 2 :
       /\ Recv(2, k)
       /\ \/ /\ k # 2 \/ proxy.method = "refuse" \/ (proxy.method = "password" /\ creds = <<>>)
             /\ Ends("failed")
          \/ /\ k = 2 /\ proxy.method = "password" /\ creds # <<>>
             /\ Asks("login", "login") /\ told' = creds /\ UNCHANGED left
          \/ /\ k = 2 /\ proxy.method = "none"
             /\ Asks("request", "answer") /\ UNCHANGED <<left, told>>
  /\ UNCHANGED <<granted, broken>> /\ Fixed

Login ==
  /\ pc = "login"
  /\ \E k \in 1 .. 2 :
       /\ Recv(2, k)
       /\ IF k = 2 /\ proxy.login
            THEN Asks("request", "answer") /\ UNCHANGED <<left, told>>
            ELSE Ends("failed")
  /\ UNCHANGED <<granted, broken>> /\ Fixed

\* How much of the answer is asked for, and how much of it must have come.
Wanted == CASE fn = "domain" -> 4 [] fn = "connect6" -> 22 [] fn \in Http -> 4095 [] OTHER -> 10

\* Mutant: an IPv6 request is answered by 22 bytes, neither more nor less.
Needed_Whole == CASE fn = "domain" -> 4 [] fn = "connect6" -> 22
                  [] fn \in Http -> StatusLen [] OTHER -> 10

Needed == CASE fn \in {"domain", "connect6"} -> 4 [] fn \in Http -> StatusLen [] OTHER -> 10

\* Mutant: the reply code is not looked at.
Accepts_AnyCode == TRUE

\* The reply code is 0, the status 200.
Accepts == proxy.grants

Answer ==
  /\ pc = "answer"
  /\ \E k \in 1 .. Min({Wanted, AnswerLen + MaxEarly}) :
       /\ Recv(Wanted, k)
       /\ IF k < Needed \/ ~Accepts THEN Ends("failed")
          ELSE IF fn # "domain" THEN Ends("ok")
          ELSE IF proxy.bound.atyp = "name" THEN Ends("name")
          ELSE pc' = "drain" /\ left' = proxy.bound.len + 2 /\ UNCHANGED <<ask, told>>
  /\ UNCHANGED <<granted, broken>> /\ Fixed

\* Mutant: the port that follows a name is forgotten.
NameTail_NoPort == proxy.bound.len - 1

\* What follows the length byte of a name: the name and the port.
NameTail == proxy.bound.len - 1 + 2

\* The length of the name.
NameLength ==
  /\ pc = "name"
  /\ Recv(1, 1)
  /\ pc' = "drain" /\ left' = NameTail
  /\ UNCHANGED <<ask, told, granted, broken>> /\ Fixed

\* The address is read to its end, in as many pieces as it comes.
Drain ==
  /\ pc = "drain" /\ left > 0
  /\ \E k \in 1 .. left : Recv(left, k) /\ left' = left - k
  /\ UNCHANGED <<pc, ask, told, granted, broken>> /\ Fixed

Drained ==
  /\ pc = "drain" /\ left = 0 /\ Ends("ok")
  /\ UNCHANGED <<rx, granted, parted, broken>> /\ Fixed

-----------------------------------------------------------------------------
(* The proxy: external *)

Replies(n, early) ==
  /\ ask' = "none" /\ rx' = [reply |-> n, tail |-> early]
  /\ UNCHANGED <<pc, left, told, parted, broken>> /\ Fixed

Chooses == ask = "methods" /\ Replies(2, 0) /\ UNCHANGED granted

ChecksLogin == ask = "login" /\ Replies(2, 0) /\ UNCHANGED granted

AnswersRequest ==
  /\ ask = "request"
  /\ granted' = proxy.grants
  /\ Replies(AnswerLen, IF proxy.grants THEN proxy.early ELSE 0)

Next ==
  \/ \E n \in Names : ResolvesUnseen(n) \/ \E own \in BOOLEAN : snoop_dns_response(n, own)
  \/ dns_cache_init \/ Tick \/ connection_handler
  \/ Greet \/ Method \/ Login \/ Answer \/ NameLength \/ Drain \/ Drained \/ Breaks
  \/ Chooses \/ ChecksLogin \/ AnswersRequest

Spec == Init /\ [][Next]_vars

-----------------------------------------------------------------------------
(* Properties *)

\* The request names the host the application resolved, as the comment at
\* ProxyBridge.c:1087-1089 wants it, if its answer was seen and is not too old and
\* no other name for the same address was seen after it; it names the bare
\* address only without such an answer; and a name the application did
\* not mean is one that had the address within the life of an entry.
AskedForHost ==
  pc = "greet" /\ fn # "associate" =>
    /\ meant.left > 0 /\ ~meant.rival => host = meant.name
    /\ host = Addr => meant.left = 0
    /\ host \notin {Addr, meant.name} => meant.seen[host] > 0

\* A handshake that succeeds had the proxy open the tunnel, told it the configured
\* credentials wherever it wanted some, and leaves the stream at the first byte
\* of the tunnel: nothing of the answer reaches the client and nothing of the
\* tunnel is lost, except
\*  - in the IPv4 forms, when the proxy's bound address is not IPv4;
\*  - in the IPv6 form, when the answer is longer than 22 bytes or was read in
\*    part, or is shorter and the tunnel follows at once;
\*  - with HTTP, when the head was read in part or the tunnel follows at once.
\* The form with a host name has no exception.  Every variable keeps its type.
SuccessIsTunnel ==
  /\ TypeOK
  /\ pc = "ok" =>
       /\ granted
       /\ fn \in Http \/ proxy.method = "password" => told = creds
       /\ \/ rx = [reply |-> 0, tail |-> proxy.early]
          \/ fn \in {"connect", "associate"} /\ AnswerLen # 10
          \/ fn = "connect6" /\ (parted \/ AnswerLen > 22 \/ (AnswerLen < 22 /\ proxy.early > 0))
          \/ fn \in Http /\ (parted \/ proxy.early > 0)

\* A handshake the proxy has granted fails only if the connection broke, an
\* answer was read in part, or an IPv4 form got an answer of less than 10 bytes.
FailureExplained ==
  pc = "failed" /\ granted =>
    broken \/ parted \/ (fn \in {"connect", "associate"} /\ AnswerLen < 10)
=============================================================================
