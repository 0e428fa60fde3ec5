------------------------------ MODULE Patterns ------------------------------
(***************************************************************************)
(* How the filters of a rule are read in ProxyBridge.c: lists of process   *)
(* names, IPv4 and IPv6 hosts and ports, as the packet thread matches them *)
(* against a packet.  Texts are sequences of one-letter strings where the  *)
(* code walks characters, a number being one letter; an address is a value *)
(* where it calls sscanf or inet_pton.  NULL filters are in RuleList.      *)
(***************************************************************************)
EXTENDS Integers, Sequences, SequencesExt, FiniteSets

CONSTANTS
  Letters,       \* of file names; each upper case letter is one of Upper
  Upper,         \* function: upper case letter -> lower case letter
  Number,        \* function: the letter of a number -> the number
  MaxLength,     \* bound: length of the names and patterns that are tried
  MaxEntry,      \* bound: length of the entries of lists that are tried
  Octet,         \* values of one octet, 256 in the code
  Octets,        \* octets of an address: 4 in the code
  Bits           \* bits of a byte: 8 in the code

ASSUME PatternConstants ==
  /\ {"*", ",", ";", " ", "\"", "\\", "/"} \cap Letters = {}
  /\ {"*", "-", ",", ";", " "} \cap DOMAIN Number = {}
  /\ 0 .. Octet - 1 \subseteq {Number[c] : c \in DOMAIN Number}
  /\ \A c \in DOMAIN Number : Number[c] \in Nat
  /\ {MaxLength, MaxEntry} \subseteq Nat /\ {Octet, Octets, Bits} \subseteq Nat \ {0}

Texts(letters, n) == UNION {[1 .. k -> letters] : k \in 0 .. n}

tolower(c) == IF c \in DOMAIN Upper THEN Upper[c] ELSE c

\* text without its first n letters: a pointer moved by n.
From(text, n) == SubSeq(text, n + 1, Len(text))

-----------------------------------------------------------------------------
(* wildcard_match and match_process_pattern *)

\* m[i]: where the text may go on so that the pattern from i on matches it, as
\* the loop and its recursion find out; after a star every place is tried.
wildcard_match(pattern, text) ==
  LET n == Len(pattern)
      k == Len(text)
      m[i \in 1 .. n + 1] ==
        {j \in 1 .. k + 1 :
           IF j = k + 1 THEN \A x \in i .. n : pattern[x] = "*"
           ELSE IF i = n + 1 THEN FALSE
           ELSE IF pattern[i] = "*"
                THEN LET past == {x \in i .. n : pattern[x] # "*"}   \* collapse stars
                     IN  past = {} \/ \E y \in j .. k : y \in m[CHOOSE x \in past : \A z \in past : x <= z]
           ELSE tolower(pattern[i]) = tolower(text[j]) /\ j + 1 \in m[i + 1]}
  IN  1 \in m[1]

\* What follows the last backslash.
FileName(path) ==
  LET cuts == {i \in 1 .. Len(path) : path[i] = "\\"}
  IN  IF cuts = {} THEN path ELSE From(path, CHOOSE i \in cuts : \A j \in cuts : j <= i)

match_process_pattern(pattern, path) ==
  \/ pattern = <<"*">>
  \/ LET target == IF Contains(pattern, "\\") \/ Contains(pattern, "/") THEN path ELSE FileName(path)
     IN  IF Contains(pattern, "*") THEN wildcard_match(pattern, target)
         ELSE /\ Len(pattern) = Len(target)
              /\ \A i \in DOMAIN pattern : tolower(pattern[i]) = tolower(target[i])

-----------------------------------------------------------------------------
(* parse_token_list and match_process_list: strtok_s and the cleaning of an entry *)

\* The longest pieces without a delimiter; strtok_s never returns an empty one.
Tokens(list, delimiters) ==
  LET bare(i, j) == \A x \in i .. j : list[x] \notin delimiters
      edge(i) == i \in {0, Len(list) + 1} \/ list[i] \in delimiters
  IN  {SubSeq(list, p[1], p[2]) : p \in {q \in (1 .. Len(list)) \X (1 .. Len(list)) :
         q[1] <= q[2] /\ bare(q[1], q[2]) /\ edge(q[1] - 1) /\ edge(q[2] + 1)}}

skip_whitespace(token) ==
  From(token, Cardinality({i \in DOMAIN token : \A j \in 1 .. i : token[j] = " "}))

\* Trailing blanks go, but never the first letter.
Trimmed(token) ==
  LET kept == {i \in DOMAIN token : i = 1 \/ \E j \in i .. Len(token) : token[j] # " "}
  IN  SubSeq(token, 1, Cardinality(kept))

\* An opening quote ends the entry at the next one.
Unquoted(token) ==
  IF Len(token) > 1 /\ token[1] = "\""
  THEN LET rest == Tail(token)
           quotes == {i \in DOMAIN rest : rest[i] = "\""}
       IN  IF quotes = {} THEN rest
           ELSE SubSeq(rest, 1, (CHOOSE i \in quotes : \A j \in quotes : i <= j) - 1)
  ELSE token

AllMatch(list) == list = <<>> \/ list = <<"*">>

Cleaned(token) == Unquoted(Trimmed(skip_whitespace(token)))

match_process_list(list, path) ==
  AllMatch(list) \/ \E t \in Tokens(list, {",", ";"}) : match_process_pattern(Cleaned(t), path)

\* The entries handed to the matcher until one matches; hosts are separated by
\* ";", ports by "," or ";".
parse_token_list(list, delimiters) == {skip_whitespace(t) : t \in Tokens(list, delimiters)}

-----------------------------------------------------------------------------
(* match_port_pattern *)

\* atoi reads the number the text begins with, or 0.
atoi(text) ==
  LET at(i) == IF i \in DOMAIN text /\ text[i] \in DOMAIN Number THEN Number[text[i]] ELSE 0
  IN  IF text # <<>> /\ text[1] = "-" THEN -at(2) ELSE at(1)

match_port_pattern(pattern, port) ==
  LET dashes == {i \in DOMAIN pattern : pattern[i] = "-"}
      first == CHOOSE i \in dashes : \A j \in dashes : i <= j
  IN  IF dashes = {} THEN port = atoi(pattern)
      ELSE port >= atoi(pattern) /\ port <= atoi(From(pattern, first))

-----------------------------------------------------------------------------
(* match_ip_pattern: an address is its octets, first octet first *)

Address == [1 .. Octets -> 0 .. Octet - 1]

\* The number that is compared: the bytes of the little-endian word swapped.
Swapped(ip) ==
  LET n[i \in 0 .. Octets] == IF i = 0 THEN 0 ELSE n[i - 1] * Octet + ip[i] IN n[Octets]

\* start-end
match_ip_range(start, end, ip) == Swapped(ip) >= Swapped(start) /\ Swapped(ip) <= Swapped(end)

\* Parts between dots, of which those after the last octet are not looked at.
match_ip_octets(parts, ip) ==
  /\ Len(parts) >= Octets
  /\ \A i \in 1 .. Octets : parts[i] = "*" \/ atoi(<<parts[i]>>) = ip[i]

-----------------------------------------------------------------------------
(* match_ip_pattern_v6: an address is its bytes, a byte its bits *)

Address6 == [1 .. Octets -> [1 .. Bits -> {0, 1}]]

Value(byte) == LET n[i \in 0 .. Bits] == IF i = 0 THEN 0 ELSE n[i - 1] * 2 + byte[i] IN n[Bits]

\* memcmp(a, b, Octets) <= 0: decided by the first byte that differs.
NotAfter(a, b) ==
  LET differ == {i \in 1 .. Octets : a[i] # b[i]}
  IN  differ = {} \/ LET i == CHOOSE i \in differ : \A j \in differ : i <= j IN Value(a[i]) < Value(b[i])

match_range_v6(start, end, ip) == NotAfter(start, ip) /\ NotAfter(ip, end)

\* Mutant: the bits of the last, partial byte are not compared.
match_cidr_v6_WholeBytes(network, prefix, ip) ==
  /\ prefix \in 0 .. Octets * Bits
  /\ \A i \in 1 .. prefix \div Bits : ip[i] = network[i]

\* The whole bytes, then the rest under a mask.
match_cidr_v6(network, prefix, ip) ==
  LET full == prefix \div Bits
      rem == prefix % Bits
      masked(byte) == [i \in 1 .. Bits |-> IF i <= rem THEN byte[i] ELSE 0]
  IN  /\ prefix \in 0 .. Octets * Bits
      /\ \A i \in 1 .. full : ip[i] = network[i]
      /\ rem > 0 => masked(ip[full + 1]) = masked(network[full + 1])

-----------------------------------------------------------------------------
(* Properties *)

\* A name belongs to a pattern if it can be cut into one piece per letter of the
\* pattern: a star takes any piece, a letter takes itself in either case.
WildcardsRight ==
  \A pattern \in Texts(Letters \cup {"*"}, MaxLength), text \in Texts(Letters, MaxLength) :
    wildcard_match(pattern, text) <=>
      \E cut \in [0 .. Len(pattern) -> 0 .. Len(text)] :
        /\ cut[0] = 0 /\ cut[Len(pattern)] = Len(text)
        /\ \A i \in 1 .. Len(pattern) :
             IF pattern[i] = "*" THEN cut[i] >= cut[i - 1]
             ELSE cut[i] = cut[i - 1] + 1 /\ tolower(text[cut[i]]) = tolower(pattern[i])

\* The entries of a list are alternatives: blanks around an entry, quotes and
\* empty entries do not matter, and a pattern without separator sees the file
\* name wherever the file is.
ListsRight ==
  \A p \in Texts(Letters \cup {"*"}, MaxEntry) \ {<<>>}, q \in Texts(Letters \cup {"*"}, MaxEntry) \ {<<>>},
     name \in Texts(Letters, MaxEntry) \ {<<>>}, dir \in Letters :
    LET path == <<dir, "\\">> \o name
    IN  /\ \A list \in {p, <<" ">> \o p \o <<" ">>, <<"\"">> \o p \o <<"\"">>,
                        <<";", ",">> \o p \o <<",">>} :
             match_process_list(list, path) <=> match_process_pattern(p, name)
        /\ \A list \in {q \o <<";">> \o p,
                        <<" ">> \o q \o <<" ", ",", " ">> \o p \o <<" ", ";">>} :
             match_process_list(list, path) <=>
               match_process_pattern(p, name) \/ match_process_pattern(q, name)

\* A list of ports is a union of numbers and intervals; an interval may be
\* written without its start, and without its end it has no port but 0.
PortsRight ==
  \A a \in DOMAIN Number, b \in DOMAIN Number, port \in 0 .. MaxLength :
    LET matches(list) ==
          \/ AllMatch(list)
          \/ \E t \in parse_token_list(list, {",", ";"}) : match_port_pattern(t, port)
    IN  /\ matches(<<a, ",", " ", b>>) <=> port \in {Number[a], Number[b]}
        /\ matches(<<a, "-", b>>) <=> port \in Number[a] .. Number[b]
        /\ matches(<<"-", b>>) <=> port \in 0 .. Number[b]
        /\ matches(<<a, "-">>) <=> port = 0 /\ Number[a] = 0

\* A range of addresses is the interval of their order octet by octet, stars for
\* the last octets are the range of all their values, and an IPv6 prefix is
\* compared bit by bit.
HostsRight ==
  LET before(a, b) ==
        \/ a = b
        \/ \E i \in 1 .. Octets : /\ \A j \in 1 .. i - 1 : a[j] = b[j]
                                  /\ a[i] < b[i]
      bit(a, i) == a[1 + ((i - 1) \div Bits)][1 + ((i - 1) % Bits)]
      text(n) == CHOOSE c \in DOMAIN Number : Number[c] = n
  IN  /\ \A ip \in Address, k \in 0 .. Octets :
           \A a \in Address :
             LET parts == [i \in 1 .. Octets |-> IF i <= k THEN text(a[i]) ELSE "*"]
                 end(n) == [i \in 1 .. Octets |-> IF i <= k THEN a[i] ELSE n]
             IN  match_ip_octets(parts, ip) <=> match_ip_range(end(0), end(Octet - 1), ip)
      /\ \A s \in Address, e \in Address, ip \in Address :
           match_ip_range(s, e, ip) <=> before(s, ip) /\ before(ip, e)
      /\ \A n \in Address6, ip \in Address6, prefix \in 0 .. Octets * Bits :
           /\ match_cidr_v6(n, prefix, ip) <=> \A i \in 1 .. prefix : bit(ip, i) = bit(n, i)
           /\ match_range_v6(n, n, ip) <=> match_cidr_v6(n, Octets * Bits, ip)

\* What the user interface promises of filters ("127.0.0.1; 192.168.1.*;
\* 10.1.0.0-10.5.255.255; ::1; 2001:db8::/32; fe80::1-fe80::ff",
\* gui/Resources/Resources.resx:255) is what the matchers compute.
PatternsRight == WildcardsRight /\ ListsRight /\ PortsRight /\ HostsRight
=============================================================================
