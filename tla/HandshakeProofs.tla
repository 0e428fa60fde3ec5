-------------------------- MODULE HandshakeProofs --------------------------
(***************************************************************************)
(* Proofs about Handshake, for any credentials that fit the buffer, any    *)
(* lengths of answers and any lifetime of the DNS cache: the request names *)
(* the host the application resolved, and how a handshake ends is what its *)
(* caller takes it for, with the exceptions the properties list.           *)
(***************************************************************************)
EXTENDS Handshake, FiniteSetTheorems, SequenceTheorems, TLAPS

Empty == [reply |-> 0, tail |-> 0]

\* What the proxy sends for a request.
Reply == [reply |-> AnswerLen, tail |-> IF proxy.grants THEN proxy.early ELSE 0]

\* The proxy owes an answer, or has sent all of it and nothing was read.
Owed(what, r) == (ask = what /\ rx = Empty) \/ (ask = "none" /\ rx = r)

\* The entry is as young as the latest answer the application got, and names
\* what that answer named unless another name came after it.
Cached ==
  pc = "resolve" =>
    /\ meant.left > 0 =>
         /\ entry # None /\ entry.left >= meant.left
         /\ ~meant.rival => entry.name = meant.name
    /\ entry # None => meant.seen[entry.name] >= entry.left

\* Where a handshake that succeeds leaves the stream.
Tunnel ==
  /\ granted
  /\ fn \in Http \/ proxy.method = "password" => told = creds
  /\ \/ rx = [reply |-> 0, tail |-> proxy.early]
     \/ fn \in {"connect", "associate"} /\ AnswerLen # 10
     \/ fn = "connect6" /\ (parted \/ AnswerLen > 22 \/ (AnswerLen < 22 /\ proxy.early > 0))
     \/ fn \in Http /\ (parted \/ proxy.early > 0)

ToldRight == fn \in Http \/ proxy.method = "password" => told = creds

\* An IPv4 form that got an answer of less than 10 bytes.
Short == fn \in {"connect", "associate"} /\ AnswerLen < 10

\* What is left of the stream at each place, and what has been settled there.
Stages ==
  /\ pc \in {"resolve", "greet"} => ask = "none" /\ rx = Empty
  /\ pc \in {"resolve", "greet", "method", "login"} => ~granted
  /\ pc \in {"resolve", "greet", "method", "login", "answer"} => ~parted /\ ~broken
  /\ pc = "method" => fn \in Socks /\ Owed("methods", [reply |-> 2, tail |-> 0])
  /\ pc = "login" => fn \in Socks /\ Owed("login", [reply |-> 2, tail |-> 0])
  /\ pc \in {"login", "answer", "name", "drain"} => ToldRight
  /\ pc = "answer" =>
       /\ Owed("request", Reply)
       /\ granted = (ask = "none" /\ proxy.grants)
  /\ pc \in {"name", "drain"} => fn = "domain" /\ ask = "none" /\ granted
  /\ pc = "name" =>
       /\ proxy.bound.atyp = "name"
       /\ rx = [reply |-> proxy.bound.len + 2, tail |-> proxy.early]
  /\ pc = "drain" => rx = [reply |-> left, tail |-> proxy.early]
  /\ pc = "ok" => ask = "none"
  /\ pc = "failed" => broken \/ (ask = "none" /\ (granted => parted \/ Short))

IInv == SuccessIsTunnel /\ AskedForHost /\ Cached /\ Stages

-----------------------------------------------------------------------------
(* base64 *)

\* As many groups as hold the bytes, if they fit.
LEMMA GroupsFact ==
  ASSUME NEW len \in Nat, NEW size \in Nat, 4 * ((len + 2) \div 3) < size
  PROVE  Groups(len, size) = (len + 2) \div 3
<1> DEFINE m == (len + 2) \div 3
<1>1. m \in Nat /\ 3 * m >= len /\ 3 * m <= len + 2
  OBVIOUS
<1>2. {g \in 0 .. len : 3 * g < len /\ 4 * g < size - 4} = 0 .. (m - 1)
  BY <1>1
<1>3. Cardinality(0 .. (m - 1)) = m
  BY <1>1, FS_Interval
<1> QED
  BY <1>2, <1>3 DEF Groups

\* The byte at a place, and past the end.
Byte(in, i) == IF i <= Len(in) THEN in[i] ELSE 0

LEMMA ByteFact ==
  ASSUME NEW in \in Seq(0 .. 255), NEW i \in Nat \ {0}
  PROVE  Byte(in, i) \in 0 .. 255
<1>1. Len(in) \in Nat /\ \A k \in 1 .. Len(in) : in[k] \in 0 .. 255
  BY ElementOfSeq
<1> QED
  BY <1>1 DEF Byte

\* The groups of three bytes, the last perhaps of less.
Threes(in) == (Len(in) + 2) \div 3

LEMMA ThreesFact ==
  ASSUME NEW in \in Seq(0 .. 255)
  PROVE  /\ Len(in) \in Nat /\ Threes(in) \in Nat
         /\ Len(in) \in {3 * Threes(in), 3 * Threes(in) - 1, 3 * Threes(in) - 2}
BY DEF Threes

\* out has four characters for each of the m groups of three bytes.
Encoding(in, m, out) ==
  /\ out \in [1 .. 4 * m -> 0 .. 64] /\ Len(out) = 4 * m
  /\ \A g \in 0 .. m - 1 :
       /\ out[4 * g + 1] = Byte(in, 3 * g + 1) \div 4
       /\ out[4 * g + 2] = (Byte(in, 3 * g + 1) % 4) * 16 + Byte(in, 3 * g + 2) \div 16
       /\ out[4 * g + 3] =
            IF 3 * g + 2 <= Len(in)
              THEN (Byte(in, 3 * g + 2) % 16) * 4 + Byte(in, 3 * g + 3) \div 64 ELSE 64
       /\ out[4 * g + 4] = IF 3 * g + 3 <= Len(in) THEN Byte(in, 3 * g + 3) % 64 ELSE 64

LEMMA Encoded ==
  ASSUME NEW in \in Seq(0 .. 255), NEW size \in Nat, 4 * Threes(in) < size
  PROVE  Encoding(in, Threes(in), base64_encode(in, size))
<1> DEFINE
      m == Threes(in)
      char(i, j) ==
        CASE j = 0 -> Byte(in, i) \div 4
          [] j = 1 -> (Byte(in, i) % 4) * 16 + Byte(in, i + 1) \div 16
          [] j = 2 -> IF i + 1 <= Len(in)
                        THEN (Byte(in, i + 1) % 16) * 4 + Byte(in, i + 2) \div 64 ELSE 64
          [] j = 3 -> IF i + 2 <= Len(in) THEN Byte(in, i + 2) % 64 ELSE 64
      out == [k \in 1 .. 4 * m |-> char(3 * ((k - 1) \div 4) + 1, (k - 1) % 4)]
<1>1. m \in Nat
  BY ThreesFact
<1>2. Groups(Len(in), size) = m
  BY ThreesFact, GroupsFact DEF Threes
<1>3. base64_encode(in, size) = out
  BY <1>2 DEF base64_encode, Byte
<1> HIDE DEF m
<1>4. ASSUME NEW i \in Nat \ {0} PROVE Byte(in, i) \in 0 .. 255
  BY ByteFact
<1>5. ASSUME NEW i \in Nat \ {0}, NEW j \in 0 .. 3 PROVE char(i, j) \in 0 .. 64
  <2> DEFINE b == Byte(in, i) c == Byte(in, i + 1) d == Byte(in, i + 2)
  <2>1. b \in 0 .. 255 /\ c \in 0 .. 255 /\ d \in 0 .. 255
    BY <1>4
  <2> HIDE DEF b, c, d
  <2>2. /\ b \div 4 \in 0 .. 63 /\ (b % 4) * 16 + c \div 16 \in 0 .. 63
        /\ (c % 16) * 4 + d \div 64 \in 0 .. 63 /\ d % 64 \in 0 .. 63
    BY <2>1
  <2> QED
    BY <2>2 DEF b, c, d
<1>6. ASSUME NEW k \in 1 .. 4 * m
      PROVE  3 * ((k - 1) \div 4) + 1 \in Nat \ {0} /\ (k - 1) % 4 \in 0 .. 3
  BY <1>1
<1>7. out \in [1 .. 4 * m -> 0 .. 64]
  BY <1>5, <1>6
<1>8. Len(out) = 4 * m
  BY <1>1
<1>9. ASSUME NEW g \in 0 .. m - 1, NEW j \in 0 .. 3
      PROVE  out[4 * g + j + 1] = char(3 * g + 1, j)
  <2>1. 4 * g + j + 1 \in 1 .. 4 * m
    BY <1>1
  <2>2. g \in Nat /\ j \in {0, 1, 2, 3}
    BY <1>1
  <2>3. ASSUME NEW a, a = 4 * g + j + 1 PROVE (a - 1) \div 4 = g /\ (a - 1) % 4 = j
    BY <2>2, <2>3
  <2>4. PICK a : a = 4 * g + j + 1
    OBVIOUS
  <2>5. out[a] = char(3 * ((a - 1) \div 4) + 1, (a - 1) % 4)
    BY <2>1, <2>4
  <2> HIDE DEF out, char
  <2> QED
    BY <2>3, <2>4, <2>5
<1>10. ASSUME NEW g \in 0 .. m - 1
       PROVE  /\ out[4 * g + 1] = char(3 * g + 1, 0) /\ out[4 * g + 2] = char(3 * g + 1, 1)
              /\ out[4 * g + 3] = char(3 * g + 1, 2) /\ out[4 * g + 4] = char(3 * g + 1, 3)
  <2> HIDE DEF out, char
  <2>1. /\ 4 * g + 0 + 1 = 4 * g + 1 /\ 4 * g + 1 + 1 = 4 * g + 2
        /\ 4 * g + 2 + 1 = 4 * g + 3 /\ 4 * g + 3 + 1 = 4 * g + 4
    OBVIOUS
  <2> QED
    BY <1>9, <2>1
<1>11. ASSUME NEW i
       PROVE  /\ char(i, 0) = Byte(in, i) \div 4
              /\ char(i, 1) = (Byte(in, i) % 4) * 16 + Byte(in, i + 1) \div 16
              /\ char(i, 2) = IF i + 1 <= Len(in)
                   THEN (Byte(in, i + 1) % 16) * 4 + Byte(in, i + 2) \div 64 ELSE 64
              /\ char(i, 3) = IF i + 2 <= Len(in) THEN Byte(in, i + 2) % 64 ELSE 64
  OBVIOUS
<1>12. ASSUME NEW g \in 0 .. m - 1
       PROVE  /\ out[4 * g + 1] = Byte(in, 3 * g + 1) \div 4
              /\ out[4 * g + 2] = (Byte(in, 3 * g + 1) % 4) * 16 + Byte(in, 3 * g + 2) \div 16
              /\ out[4 * g + 3] = IF 3 * g + 2 <= Len(in)
                   THEN (Byte(in, 3 * g + 2) % 16) * 4 + Byte(in, 3 * g + 3) \div 64 ELSE 64
              /\ out[4 * g + 4] = IF 3 * g + 3 <= Len(in) THEN Byte(in, 3 * g + 3) % 64 ELSE 64
  <2> HIDE DEF out, char
  <2>1. PICK i : i = 3 * g + 1
    OBVIOUS
  <2>2. i + 1 = 3 * g + 2 /\ i + 2 = 3 * g + 3
    BY <2>1
  <2>3. /\ out[4 * g + 1] = char(i, 0) /\ out[4 * g + 2] = char(i, 1)
        /\ out[4 * g + 3] = char(i, 2) /\ out[4 * g + 4] = char(i, 3)
    BY <1>10, <2>1
  <2> QED
    BY <1>11, <2>1, <2>2, <2>3
<1> QED
  <2> HIDE DEF out
  <2> QED
    BY <1>3, <1>7, <1>8, <1>12 DEF Encoding, m

\* Kept as a name, so that the lemmas about three bytes find theirs.
Octet(b) == b \in 0 .. 255

\* The 24 bits of a group; a character that pads stands for 0.
Word(p, q, r, s) == (((p % 64) * 64 + (q % 64)) * 64 + (r % 64)) * 64 + (s % 64)

\* Four characters hold three bytes.
LEMMA FourForThree ==
  ASSUME NEW b, NEW c, NEW d, Octet(b), Octet(c), Octet(d)
  PROVE  /\ b \div 4 \in 0 .. 63 /\ (b % 4) * 16 + c \div 16 \in 0 .. 63
         /\ (c % 16) * 4 + d \div 64 \in 0 .. 63 /\ d % 64 \in 0 .. 63
         /\ Word(b \div 4, (b % 4) * 16 + c \div 16, (c % 16) * 4 + d \div 64, d % 64)
              = b * 65536 + c * 256 + d
<1>1. b \in 0 .. 255 /\ c \in 0 .. 255 /\ d \in 0 .. 255
  BY DEF Octet
<1> DEFINE b1 == b \div 4 b2 == b % 4 c1 == c \div 16 c2 == c % 16
           d1 == d \div 64 d2 == d % 64
           q == b2 * 16 + c1 r == c2 * 4 + d1
<1>2. b = 4 * b1 + b2 /\ b1 \in 0 .. 63 /\ b2 \in 0 .. 3
  BY <1>1
<1>3. c = 16 * c1 + c2 /\ c1 \in 0 .. 15 /\ c2 \in 0 .. 15
  BY <1>1
<1>4. d = 64 * d1 + d2 /\ d1 \in 0 .. 3 /\ d2 \in 0 .. 63
  BY <1>1
<1> HIDE DEF b1, b2, c1, c2, d1, d2
<1>5. q \in 0 .. 63 /\ r \in 0 .. 63
  BY <1>2, <1>3, <1>4
<1>6. ((b1 * 64 + q) * 64 + r) * 64 + d2 = b * 65536 + c * 256 + d
  BY <1>2, <1>3, <1>4
<1> HIDE DEF q, r
<1>7. b1 % 64 = b1 /\ q % 64 = q /\ r % 64 = r /\ d2 % 64 = d2
  BY <1>2, <1>4, <1>5
<1>8. Word(b1, q, r, d2) = b * 65536 + c * 256 + d
  BY <1>6, <1>7 DEF Word
<1> QED
  BY <1>2, <1>4, <1>5, <1>8 DEF q, r, b1, b2, c1, c2, d1, d2

LEMMA WordPads ==
  ASSUME NEW p, NEW q, NEW r, NEW s, NEW r64, NEW s64, r64 % 64 = r % 64, s64 % 64 = s % 64
  PROVE  Word(p, q, r64, s64) = Word(p, q, r, s)
BY DEF Word

LEMMA ThreeBytes ==
  ASSUME NEW b, NEW c, NEW d, Octet(b), Octet(c), Octet(d),
         NEW w, w = b * 65536 + c * 256 + d
  PROVE  w \div 65536 = b /\ (w \div 256) % 256 = c /\ w % 256 = d
BY DEF Octet

\* The place of a byte, and of a character, in its group.
LEMMA Places ==
  ASSUME NEW m \in Nat
  PROVE  /\ \A k \in 1 .. 4 * m :
              /\ (k - 1) \div 4 \in 0 .. m - 1
              /\ LET g == (k - 1) \div 4
                 IN k \in {4 * g + 1, 4 * g + 2, 4 * g + 3, 4 * g + 4}
         /\ \A i \in 1 .. 3 * m :
              /\ (i - 1) \div 3 \in 0 .. m - 1
              /\ LET g == (i - 1) \div 3
                 IN \/ i % 3 = 1 /\ i = 3 * g + 1
                    \/ i % 3 = 2 /\ i = 3 * g + 2
                    \/ i % 3 = 0 /\ i = 3 * g + 3
OBVIOUS

\* What the decoder finds in a group.
LEMMA Grouped ==
  ASSUME NEW in \in Seq(0 .. 255), NEW out, Encoding(in, Threes(in), out),
         NEW g \in 0 .. Threes(in) - 1
  PROVE  LET w == Word(out[4 * g + 1], out[4 * g + 2], out[4 * g + 3], out[4 * g + 4])
         IN /\ w \div 65536 = Byte(in, 3 * g + 1)
            /\ (w \div 256) % 256 = Byte(in, 3 * g + 2)
            /\ w % 256 = Byte(in, 3 * g + 3)
            /\ out[4 * g + 1] # 64 /\ out[4 * g + 2] # 64
            /\ out[4 * g + 3] = 64 <=> 3 * g + 2 > Len(in)
            /\ out[4 * g + 4] = 64 <=> 3 * g + 3 > Len(in)
<1> DEFINE b == Byte(in, 3 * g + 1) c == Byte(in, 3 * g + 2) d == Byte(in, 3 * g + 3)
           p == b \div 4 q == (b % 4) * 16 + c \div 16
           r == (c % 16) * 4 + d \div 64 s == d % 64
           n == Len(in)
<1>1. n \in Nat /\ Threes(in) \in Nat /\ g \in Nat
  BY ThreesFact
<1>2. Octet(b) /\ Octet(c) /\ Octet(d)
  <2>1. 3 * g + 1 \in Nat \ {0} /\ 3 * g + 2 \in Nat \ {0} /\ 3 * g + 3 \in Nat \ {0}
    BY <1>1
  <2> QED
    BY <2>1, ByteFact DEF Octet
<1>3. /\ 3 * g + 2 > n => c = 0 /\ d = 0
      /\ 3 * g + 3 > n => d = 0
      /\ 3 * g + 2 <= n <=> ~(3 * g + 2 > n)
      /\ 3 * g + 3 <= n <=> ~(3 * g + 3 > n)
  BY <1>1 DEF Byte
<1>4. /\ out[4 * g + 1] = p /\ out[4 * g + 2] = q
      /\ out[4 * g + 3] = IF 3 * g + 2 <= n THEN r ELSE 64
      /\ out[4 * g + 4] = IF 3 * g + 3 <= n THEN s ELSE 64
  BY DEF Encoding
<1> HIDE DEF b, c, d
<1>5. p \in 0 .. 63 /\ q \in 0 .. 63 /\ r \in 0 .. 63 /\ s \in 0 .. 63
      /\ Word(p, q, r, s) = b * 65536 + c * 256 + d
  BY <1>2, FourForThree
<1>6. (3 * g + 2 > n => r = 0) /\ (3 * g + 3 > n => s = 0)
  BY <1>3
<1> HIDE DEF p, q, r, s, n
<1>7. out[4 * g + 3] % 64 = r % 64 /\ out[4 * g + 4] % 64 = s % 64
  <2>1. 64 % 64 = 0 /\ 0 % 64 = 0
    OBVIOUS
  <2>2. out[4 * g + 3] % 64 = r % 64
    BY <1>3, <1>4, <1>6, <2>1
  <2>3. out[4 * g + 4] % 64 = s % 64
    BY <1>3, <1>4, <1>6, <2>1
  <2> QED
    BY <2>2, <2>3
<1> DEFINE w == Word(out[4 * g + 1], out[4 * g + 2], out[4 * g + 3], out[4 * g + 4])
<1>8. w = b * 65536 + c * 256 + d
  <2>1. w = Word(p, q, r, s)
    BY <1>4, <1>7, WordPads
  <2> QED
    BY <1>5, <2>1
<1> HIDE DEF w
<1>9. w \div 65536 = b /\ (w \div 256) % 256 = c /\ w % 256 = d
  BY <1>2, <1>8, ThreeBytes
<1>10. p # 64 /\ q # 64 /\ r # 64 /\ s # 64
  BY <1>5
<1> QED
  BY <1>3, <1>4, <1>9, <1>10 DEF w, b, c, d, n

Pads(out) == Cardinality({k \in DOMAIN out : out[k] = 64})

LEMMA Quarters ==
  ASSUME NEW g \in Int, NEW m \in Int
  PROVE  /\ 4 * g + 1 # 4 * m /\ 4 * g + 2 # 4 * m /\ 4 * g + 3 # 4 * m
         /\ 4 * g + 1 # 4 * m - 1 /\ 4 * g + 2 # 4 * m - 1 /\ 4 * g + 4 # 4 * m - 1
         /\ 4 * g + 3 = 4 * m - 1 <=> g = m - 1
         /\ 4 * g + 4 = 4 * m <=> g = m - 1
<1> DEFINE e == m - g
<1>1. e \in Int /\ m = g + e
  OBVIOUS
<1> HIDE DEF e
<1>2. 4 * e # 1 /\ 4 * e # 2 /\ 4 * e # 3 /\ 4 * e # 5
  BY <1>1
<1> QED
  BY <1>1, <1>2

\* Only the last group is padded, by what it lacks.
LEMMA Padding ==
  ASSUME NEW in \in Seq(0 .. 255), NEW out, Encoding(in, Threes(in), out)
  PROVE  Pads(out) = 3 * Threes(in) - Len(in)
<1> DEFINE m == Threes(in) n == Len(in)
<1> DEFINE P == {k \in DOMAIN out : out[k] = 64}
<1>1. n \in Nat /\ m \in Nat /\ n \in {3 * m, 3 * m - 1, 3 * m - 2}
  BY ThreesFact
<1> HIDE DEF m, n
<1>2. ASSUME NEW k \in 1 .. 4 * m
      PROVE  out[k] = 64 <=> (k = 4 * m - 1 /\ 3 * m - 1 > n) \/ (k = 4 * m /\ 3 * m > n)
  <2>1. PICK g \in 0 .. m - 1 : k \in {4 * g + 1, 4 * g + 2, 4 * g + 3, 4 * g + 4}
    BY <1>1, Places
  <2>2. /\ out[4 * g + 1] # 64 /\ out[4 * g + 2] # 64
        /\ out[4 * g + 3] = 64 <=> 3 * g + 2 > n
        /\ out[4 * g + 4] = 64 <=> 3 * g + 3 > n
    BY Grouped DEF m, n
  <2>3. /\ 3 * g + 2 > n <=> (g = m - 1 /\ 3 * m - 1 > n)
        /\ 3 * g + 3 > n <=> (g = m - 1 /\ 3 * m > n)
    BY <1>1
  <2>4. /\ 4 * g + 1 # 4 * m - 1 /\ 4 * g + 2 # 4 * m - 1 /\ 4 * g + 4 # 4 * m - 1
        /\ 4 * g + 1 # 4 * m /\ 4 * g + 2 # 4 * m /\ 4 * g + 3 # 4 * m
        /\ 4 * g + 3 = 4 * m - 1 <=> g = m - 1
        /\ 4 * g + 4 = 4 * m <=> g = m - 1
    BY <1>1, Quarters
  <2>5. CASE k = 4 * g + 1
    BY <2>2, <2>4, <2>5
  <2>6. CASE k = 4 * g + 2
    BY <2>2, <2>4, <2>6
  <2>7. CASE k = 4 * g + 3
    BY <2>2, <2>3, <2>4, <2>7
  <2>8. CASE k = 4 * g + 4
    BY <2>2, <2>3, <2>4, <2>8
  <2> QED
    BY <2>1, <2>5, <2>6, <2>7, <2>8
<1>3. DOMAIN out = 1 .. 4 * m
  BY DEF Encoding, m
<1>4. P = {k \in 1 .. 4 * m : (k = 4 * m - 1 /\ 3 * m - 1 > n) \/ (k = 4 * m /\ 3 * m > n)}
  BY <1>2, <1>3
<1> HIDE DEF P
<1>5. ASSUME n = 3 * m PROVE Cardinality(P) = 3 * m - n
  <2>1. P = {}
    BY <1>1, <1>4, <1>5
  <2>2. Cardinality(P) = 0
    BY <2>1, FS_EmptySet
  <2> QED
    BY <1>1, <1>5, <2>2
<1>6. ASSUME n = 3 * m - 1 PROVE Cardinality(P) = 3 * m - n
  <2>1. P = {4 * m}
    BY <1>1, <1>4, <1>6
  <2>2. Cardinality(P) = 1
    BY <2>1, FS_Singleton
  <2> QED
    BY <1>1, <1>6, <2>2
<1>7. ASSUME n = 3 * m - 2 PROVE Cardinality(P) = 3 * m - n
  <2>1. 4 * m - 1 \in 1 .. 4 * m /\ 4 * m \in 1 .. 4 * m /\ 3 * m - 1 > n /\ 3 * m > n
    BY <1>1, <1>7
  <2>2. ASSUME NEW k PROVE k \in P <=> k = 4 * m - 1 \/ k = 4 * m
    BY <1>4, <2>1
  <2>3. ASSUME NEW k PROVE k \in (4 * m - 1) .. 4 * m <=> k = 4 * m - 1 \/ k = 4 * m
    BY <1>1
  <2>4. P = (4 * m - 1) .. 4 * m
    BY <2>2, <2>3
  <2>5. 4 * m - 1 \in Int /\ 4 * m \in Int /\ 4 * m - (4 * m - 1) + 1 = 2 /\ 4 * m - 1 <= 4 * m
    BY <1>1
  <2>6. Cardinality((4 * m - 1) .. 4 * m) = 4 * m - (4 * m - 1) + 1
    BY <2>5, FS_Interval
  <2>7. Cardinality(P) = 2
    BY <2>4, <2>5, <2>6
  <2> QED
    BY <1>1, <1>7, <2>7
<1>8. Cardinality(P) = 3 * m - n
  BY <1>1, <1>5, <1>6, <1>7
<1> QED
  BY <1>8 DEF P, Pads, m, n

\* What base64_encode writes, if the buffer holds it, is read back as it was.
LEMMA DecodedIsEncoded ==
  ASSUME NEW in \in Seq(0 .. 255), NEW size \in Nat, 4 * Threes(in) < size
  PROVE  Decoded(base64_encode(in, size)) = in
<1> DEFINE
      m == Threes(in)
      n == Len(in)
      out == base64_encode(in, size)
      word(g) == Word(out[4 * g + 1], out[4 * g + 2], out[4 * g + 3], out[4 * g + 4])
      read(i) == LET g == (i - 1) \div 3
                 IN CASE i % 3 = 1 -> word(g) \div 65536
                      [] i % 3 = 2 -> (word(g) \div 256) % 256
                      [] i % 3 = 0 -> word(g) % 256
<1>1. n \in Nat /\ m \in Nat /\ n \in {3 * m, 3 * m - 1, 3 * m - 2}
  BY ThreesFact
<1>2. Encoding(in, m, out)
  BY Encoded
<1>3. Decoded(out) = [i \in 1 .. 3 * (Len(out) \div 4) - Pads(out) |-> read(i)]
  BY DEF Decoded, Word, Pads
<1> HIDE DEF out, m
<1>4. Pads(out) = 3 * m - n
  BY <1>2, Padding DEF m, n
<1>5. Len(out) \div 4 = m
  BY <1>1, <1>2 DEF Encoding
<1> HIDE DEF n
<1>6. 3 * (Len(out) \div 4) - Pads(out) = n
  BY <1>1, <1>4, <1>5
<1>7. ASSUME NEW i \in 1 .. n PROVE read(i) = in[i]
  <2> DEFINE g == (i - 1) \div 3
  <2>1. /\ g \in 0 .. m - 1
        /\ \/ i % 3 = 1 /\ i = 3 * g + 1
           \/ i % 3 = 2 /\ i = 3 * g + 2
           \/ i % 3 = 0 /\ i = 3 * g + 3
    <3>1. i \in 1 .. 3 * m
      BY <1>1
    <3> QED
      BY <1>1, <3>1, Places
  <2>2. Byte(in, i) = in[i]
    BY <1>1 DEF Byte, n
  <2>3. read(i) = CASE i % 3 = 1 -> word(g) \div 65536
                    [] i % 3 = 2 -> (word(g) \div 256) % 256
                    [] i % 3 = 0 -> word(g) % 256
    OBVIOUS
  <2> HIDE DEF g, read
  <2>4. /\ word(g) \div 65536 = Byte(in, 3 * g + 1)
        /\ (word(g) \div 256) % 256 = Byte(in, 3 * g + 2)
        /\ word(g) % 256 = Byte(in, 3 * g + 3)
    BY <1>2, <2>1, Grouped DEF m
  <2> HIDE DEF word
  <2>5. CASE i % 3 = 1 /\ i = 3 * g + 1
    BY <2>2, <2>3, <2>4, <2>5
  <2>6. CASE i % 3 = 2 /\ i = 3 * g + 2
    BY <2>2, <2>3, <2>4, <2>6
  <2>7. CASE i % 3 = 0 /\ i = 3 * g + 3
    BY <2>2, <2>3, <2>4, <2>7
  <2> QED
    BY <2>1, <2>5, <2>6, <2>7
<1>8. in = [i \in 1 .. n |-> in[i]]
  BY DEF n
<1> HIDE DEF read
<1>9. Decoded(out) = [i \in 1 .. n |-> read(i)]
  BY <1>3, <1>6
<1> QED
  BY <1>7, <1>8, <1>9 DEF out

-----------------------------------------------------------------------------
(* The invariant *)

LEMMA Constants ==
  /\ NameLens \subseteq 1 .. 255 /\ MaxEarly \in Nat
  /\ StatusLen \in Nat /\ HeadLen \in Nat
  /\ 12 <= StatusLen /\ StatusLen <= HeadLen /\ HeadLen <= 4095
  /\ DNS_CACHE_TTL \in Nat /\ Addr \notin Names
  /\ None \notin [name : Names, left : 0 .. DNS_CACHE_TTL]
  /\ <<>> \in Credentials /\ Sample \in Credentials
BY HandshakeConstants

\* Whatever the credentials, an HTTP proxy is told them.
LEMMA CredentialsFit ==
  ASSUME NEW c \in Credentials
  PROVE  /\ c \in Seq(0 .. 255)
         /\ Decoded(base64_encode(c, BufferSize)) = c
<1>1. c \in Seq(0 .. 255) /\ BufferSize \in Nat /\ 4 * Threes(c) < BufferSize
  BY HandshakeConstants DEF Threes
<1> QED
  BY <1>1, DecodedIsEncoded

LEMMA MinFact ==
  ASSUME NEW a \in Int, NEW b \in Int
  PROVE  Min({a, b}) = IF a <= b THEN a ELSE b
BY DEF Min

\* The address in an answer.
LEMMA BoundFacts ==
  ASSUME NEW p \in Proxies
  PROVE  /\ p.method \in {"none", "password", "refuse"}
         /\ p.login \in BOOLEAN /\ p.grants \in BOOLEAN /\ p.early \in 0 .. MaxEarly
         /\ p.bound.len \in 2 .. 256
         /\ p.bound.atyp = "v4" => p.bound.len = 4
         /\ p.bound.atyp = "v6" => p.bound.len = 16
         /\ p.bound.atyp \in {"v4", "v6", "name"}
<1>1. /\ p.method \in {"none", "password", "refuse"} /\ p.bound \in Bounds
      /\ p.login \in BOOLEAN /\ p.grants \in BOOLEAN /\ p.early \in 0 .. MaxEarly
  BY DEF Proxies
<1>2. CASE p.bound \in [atyp : {"v4"}, len : {4}]
  BY <1>1, <1>2
<1>3. CASE p.bound \in [atyp : {"v6"}, len : {16}]
  BY <1>1, <1>3
<1>4. CASE p.bound \in [atyp : {"name"}, len : {1 + n : n \in NameLens}]
  <2>1. PICK n \in NameLens : p.bound.len = 1 + n
    BY <1>4
  <2>2. n \in 1 .. 255
    BY Constants
  <2> QED
    BY <1>1, <1>4, <2>1, <2>2
<1> QED
  BY <1>1, <1>2, <1>3, <1>4 DEF Bounds

\* What the invariant says of the stream, for the steps to start from.
LEMMA Types ==
  ASSUME TypeOK
  PROVE  /\ proxy.method \in {"none", "password", "refuse"}
         /\ proxy.login \in BOOLEAN /\ proxy.grants \in BOOLEAN
         /\ proxy.early \in Nat /\ proxy.early \in 0 .. MaxEarly
         /\ proxy.bound.len \in 2 .. 256
         /\ rx \in [reply : Nat, tail : Nat] /\ rx.tail \in 0 .. MaxEarly
         /\ rx = [reply |-> rx.reply, tail |-> rx.tail]
         /\ rx.reply <= HeadLen + 262
         /\ Unread \in Nat /\ Unread = rx.reply + rx.tail
         /\ left \in Nat
         /\ AnswerLen \in 8 .. HeadLen + 262
         /\ fn \in Http => AnswerLen = HeadLen
         /\ fn \notin Http => AnswerLen = 6 + proxy.bound.len
         /\ {granted, parted, broken} \subseteq BOOLEAN
<1>1. rx \in [reply : 0 .. HeadLen + 262, tail : 0 .. MaxEarly] /\ left \in 0 .. 257
  BY DEF TypeOK
<1>2. HeadLen + 262 \in Nat
  BY Constants
<1>3. rx.reply \in 0 .. HeadLen + 262 /\ rx.tail \in 0 .. MaxEarly
      /\ rx = [reply |-> rx.reply, tail |-> rx.tail]
  BY <1>1
<1>4. proxy \in Proxies
  BY DEF TypeOK
<1>5. /\ proxy.method \in {"none", "password", "refuse"}
      /\ proxy.login \in BOOLEAN /\ proxy.grants \in BOOLEAN /\ proxy.early \in 0 .. MaxEarly
      /\ proxy.bound.len \in 2 .. 256
  BY <1>4, BoundFacts
<1>6. /\ fn \in Http => AnswerLen = HeadLen
      /\ fn \notin Http => AnswerLen = 6 + proxy.bound.len
  BY DEF AnswerLen
<1>7. AnswerLen \in 8 .. HeadLen + 262
  <2>1. HeadLen \in 8 .. HeadLen + 262
    BY Constants
  <2>2. ASSUME NEW l \in 2 .. 256 PROVE 6 + l \in 8 .. HeadLen + 262
    <3>1. HeadLen \in Nat
      BY Constants
    <3> QED
      BY <3>1
  <2> QED
    BY <1>5, <1>6, <2>1, <2>2
<1>8. {granted, parted, broken} \subseteq BOOLEAN
  BY DEF TypeOK
<1>9. proxy.early \in Nat /\ rx.reply \in Nat /\ rx.tail \in Nat /\ rx.reply <= HeadLen + 262
  BY <1>3, <1>5, Constants
<1>10. Unread \in Nat /\ Unread = rx.reply + rx.tail
  BY <1>9 DEF Unread
<1>11. rx \in [reply : Nat, tail : Nat] /\ left \in Nat
  BY <1>1, <1>3, <1>9
<1> QED
  BY <1>3, <1>5, <1>6, <1>7, <1>8, <1>9, <1>10, <1>11

LEMMA ProxyExists == \E p \in Proxies : TRUE
<1> DEFINE p == [method |-> "none", login |-> TRUE, grants |-> TRUE,
                 bound |-> [atyp |-> "v4", len |-> 4], early |-> 0]
<1>1. p \in Proxies
  BY Constants DEF Proxies, Bounds
<1> QED
  BY <1>1

LEMMA LiteralFacts == Literal \in Meant /\ Literal.left = 0
BY Constants DEF Literal, Meant

LEMMA InitInv == Init => IInv
<1> SUFFICES ASSUME Init PROVE IInv
  OBVIOUS
<1>1. proxy \in Proxies
  BY ProxyExists DEF Init
<1>2. TypeOK
  <2>1. 0 \in 0 .. HeadLen + 262 /\ 0 \in 0 .. MaxEarly /\ 0 \in 0 .. 257
    BY Constants
  <2>2. rx \in [reply : 0 .. HeadLen + 262, tail : 0 .. MaxEarly]
    BY <2>1 DEF Init
  <2>3. told \in Seq(0 .. 255) /\ creds \in Credentials
    BY Constants DEF Init
  <2> QED
    BY <1>1, <2>1, <2>2, <2>3, LiteralFacts DEF Init, TypeOK, Socks
<1>3. AskedForHost /\ Cached /\ SuccessIsTunnel
  BY <1>2, LiteralFacts DEF Init, AskedForHost, Cached, SuccessIsTunnel
<1>4. Stages
  BY DEF Init, Stages, Empty
<1> QED
  BY <1>3, <1>4 DEF IInv

-----------------------------------------------------------------------------
(* The DNS cache *)

\* While the application has not connected, nothing but the cache moves.
LEMMA CacheStep ==
  ASSUME IInv, pc = "resolve", UNCHANGED Stream, Cached',
         entry' \in [name : Names, left : 0 .. DNS_CACHE_TTL] \cup {None}, meant' \in Meant
  PROVE  IInv'
<1> USE DEF Stream
<1>1. TypeOK'
  BY DEF IInv, SuccessIsTunnel, TypeOK
<1>2. SuccessIsTunnel' /\ AskedForHost'
  BY <1>1 DEF SuccessIsTunnel, AskedForHost
<1>3. Stages'
  BY DEF IInv, Stages, Empty
<1> QED
  BY <1>2, <1>3 DEF IInv

\* The entry and what the application got, field by field.
LEMMA CacheTypes ==
  ASSUME IInv
  PROVE  /\ meant.left \in 0 .. DNS_CACHE_TTL /\ meant.rival \in BOOLEAN
         /\ meant.name \in Names \cup {Addr}
         /\ meant.seen \in [Names -> 0 .. DNS_CACHE_TTL]
         /\ entry # None =>
              /\ entry \in [name : Names, left : 0 .. DNS_CACHE_TTL]
              /\ entry.name \in Names /\ entry.left \in 0 .. DNS_CACHE_TTL
BY DEF IInv, SuccessIsTunnel, TypeOK, Meant

LEMMA InitCacheInv ==
  ASSUME IInv, dns_cache_init
  PROVE  IInv'
<1>1. pc = "resolve" /\ UNCHANGED Stream /\ entry' = None
  BY DEF dns_cache_init
<1>2. meant' = [name |-> meant.name, left |-> 0, rival |-> FALSE, seen |-> [n \in Names |-> 0]]
  BY DEF dns_cache_init, Literal
<1>3. meant' \in Meant /\ meant'.left = 0
  BY <1>2, CacheTypes, Constants DEF Meant
<1>4. Cached'
  BY <1>1, <1>3 DEF Cached
<1> QED
  BY <1>1, <1>3, <1>4, CacheStep

LEMMA UnseenInv ==
  ASSUME IInv, NEW n \in Names, ResolvesUnseen(n)
  PROVE  IInv'
<1>1. pc = "resolve" /\ UNCHANGED Stream /\ entry' = entry
  BY DEF ResolvesUnseen
<1>2. meant' = [name |-> n, left |-> 0, rival |-> FALSE, seen |-> meant.seen]
  BY DEF ResolvesUnseen, IInv, SuccessIsTunnel, TypeOK, Meant
<1>3. meant' \in Meant /\ meant'.left = 0 /\ meant'.seen = meant.seen
  BY <1>2, CacheTypes, Constants DEF Meant
<1>4. Cached'
  BY <1>1, <1>3 DEF Cached, IInv
<1>5. entry' \in [name : Names, left : 0 .. DNS_CACHE_TTL] \cup {None}
  BY <1>1 DEF IInv, SuccessIsTunnel, TypeOK
<1> QED
  BY <1>1, <1>3, <1>4, <1>5, CacheStep

\* An answer is stored, or there is no memory for it and no entry either.
LEMMA SnoopInv ==
  ASSUME IInv, NEW n \in Names, NEW own \in BOOLEAN, snoop_dns_response(n, own)
  PROVE  IInv'
<1>1. pc = "resolve" /\ UNCHANGED Stream
  BY DEF snoop_dns_response
<1>2. DNS_CACHE_TTL \in 0 .. DNS_CACHE_TTL /\ 0 \in 0 .. DNS_CACHE_TTL 
  BY Constants
<1>3. CASE /\ entry' = dns_cache_store(n)
           /\ LET seen == [meant.seen EXCEPT ![n] = DNS_CACHE_TTL]
              IN meant' = IF own
                   THEN [name |-> n, left |-> DNS_CACHE_TTL, rival |-> FALSE, seen |-> seen]
                   ELSE [meant EXCEPT !.rival = @ \/ n # meant.name, !.seen = seen]
  <2> DEFINE seen == [meant.seen EXCEPT ![n] = DNS_CACHE_TTL]
  <2>1. entry' = [name |-> n, left |-> DNS_CACHE_TTL]
    BY <1>3 DEF dns_cache_store
  <2>2. seen \in [Names -> 0 .. DNS_CACHE_TTL] /\ seen[n] = DNS_CACHE_TTL
    BY <1>2, CacheTypes
  <2>3. meant \in Meant
    BY DEF IInv, SuccessIsTunnel, TypeOK
  <2> HIDE DEF seen
  <2>4. /\ meant' \in Meant /\ meant'.seen = seen /\ meant'.left \in 0 .. DNS_CACHE_TTL
        /\ ~meant'.rival => meant'.name = n
    <3>1. CASE own
      <4>1. meant' = [name |-> n, left |-> DNS_CACHE_TTL, rival |-> FALSE, seen |-> seen]
        BY <1>3, <3>1 DEF seen
      <4> QED
        BY <1>2, <2>2, <4>1 DEF Meant
    <3>2. CASE ~own
      <4>1. meant' = [meant EXCEPT !.rival = @ \/ n # meant.name, !.seen = seen]
        BY <1>3, <3>2 DEF seen
      <4>2. meant' = [name |-> meant.name, left |-> meant.left,
                      rival |-> (meant.rival \/ n # meant.name), seen |-> seen]
        BY <2>3, <4>1 DEF Meant
      <4> QED
        BY <2>2, <4>2, CacheTypes DEF Meant
    <3> QED
      BY <3>1, <3>2
  <2>5. entry' \in [name : Names, left : 0 .. DNS_CACHE_TTL] /\ entry' # None
    <3>1. entry' \in [name : Names, left : 0 .. DNS_CACHE_TTL]
      BY <1>2, <2>1
    <3> QED
      BY <3>1, Constants
  <2>6. Cached'
    BY <1>1, <2>1, <2>2, <2>4, <2>5, Constants DEF Cached
  <2> QED
    BY <1>1, <2>4, <2>5, <2>6, CacheStep
<1>4. CASE /\ entry = None /\ UNCHANGED entry
           /\ meant' = IF own THEN [Literal EXCEPT !.name = n] ELSE meant
  <2>1. CASE own
    <3>1. meant' = [name |-> n, left |-> 0, rival |-> FALSE, seen |-> [m \in Names |-> 0]]
      BY <1>4, <2>1 DEF Literal
    <3>2. meant' \in Meant /\ meant'.left = 0
      BY <1>2, <3>1 DEF Meant
    <3>3. Cached'
      BY <1>4, <3>2 DEF Cached
    <3> QED
      BY <1>1, <1>4, <3>2, <3>3, CacheStep
  <2>2. CASE ~own
    <3>1. meant' = meant
      BY <1>4, <2>2
    <3>2. Cached'
      BY <1>1, <1>4, <3>1 DEF Cached, IInv, Stream
    <3>3. meant' \in Meant
      BY <3>1 DEF IInv, SuccessIsTunnel, TypeOK
    <3> QED
      BY <1>1, <1>4, <3>2, <3>3, CacheStep
  <2> QED
    BY <2>1, <2>2
<1> QED
  BY <1>3, <1>4 DEF snoop_dns_response

\* Time passes for the entry and for what the application got alike.
LEMMA TickInv ==
  ASSUME IInv, Tick
  PROVE  IInv'
<1>1. pc = "resolve" /\ UNCHANGED Stream
  BY DEF Tick
<1>2. ASSUME NEW t \in 0 .. DNS_CACHE_TTL
      PROVE  Less(t) \in 0 .. DNS_CACHE_TTL
  BY <1>2, Constants DEF Less
<1>3. /\ meant'.name = meant.name /\ meant'.left = Less(meant.left)
      /\ meant'.rival = meant.rival /\ meant'.seen = [n \in Names |-> Less(meant.seen[n])]
      /\ meant' \in Meant
  <2>1. meant \in Meant
    BY DEF IInv, SuccessIsTunnel, TypeOK
  <2>2. meant' = [name |-> meant.name, left |-> Less(meant.left), rival |-> meant.rival,
                  seen |-> [n \in Names |-> Less(meant.seen[n])]]
    BY <2>1 DEF Tick, Meant
  <2>3. [n \in Names |-> Less(meant.seen[n])] \in [Names -> 0 .. DNS_CACHE_TTL]
    BY <1>2, CacheTypes
  <2> QED
    BY <1>2, <2>2, <2>3, CacheTypes DEF Meant
<1>4. CASE entry = None
  <2>1. entry' = None /\ meant.left = 0
    BY <1>1, <1>4, CacheTypes DEF Tick, IInv, Cached
  <2>2. meant'.left = 0
    BY <1>3, <2>1 DEF Less
  <2>3. Cached'
    BY <2>1, <2>2 DEF Cached
  <2> QED
    BY <1>1, <1>3, <2>1, <2>3, CacheStep
<1>5. CASE entry # None
  <2>1. entry' = [name |-> entry.name, left |-> Less(entry.left)]
    BY <1>5, CacheTypes DEF Tick
  <2>2. entry' \in [name : Names, left : 0 .. DNS_CACHE_TTL]
    BY <1>2, <1>5, <2>1, CacheTypes
  <2>3. entry' # None
    BY <2>2, Constants
  <2>4. Cached'
    <3>1. /\ meant.left > 0 => entry.left >= meant.left /\ (~meant.rival => entry.name = meant.name)
          /\ meant.seen[entry.name] >= entry.left
      BY <1>1, <1>5 DEF IInv, Cached
    <3>2. ASSUME NEW a \in Nat, NEW b \in Nat, a >= b
          PROVE  Less(a) >= Less(b) /\ (Less(b) > 0 => b > 0)
      BY <3>2 DEF Less
    <3>3. /\ meant.left \in Nat /\ entry.left \in Nat /\ meant.seen[entry.name] \in Nat
          /\ entry.name \in Names
      BY <1>5, CacheTypes, Constants
    <3>4. meant'.seen[entry'.name] >= entry'.left
      BY <1>3, <2>1, <3>1, <3>2, <3>3
    <3>5. meant'.left > 0 => meant.left > 0
      BY <1>3, <3>3 DEF Less
    <3>6. meant.left > 0 => entry'.left >= meant'.left
      BY <1>3, <2>1, <3>1, <3>2, <3>3
    <3> QED
      BY <1>3, <2>1, <2>3, <3>1, <3>4, <3>5, <3>6 DEF Cached
  <2> QED
    BY <1>1, <1>3, <2>2, <2>4, CacheStep
<1> QED
  BY <1>4, <1>5

\* The request is made from what the cache says then.
LEMMA ConnectInv ==
  ASSUME IInv, connection_handler
  PROVE  IInv'
<1>1. /\ pc = "resolve" /\ pc' = "greet" /\ fn' \in Socks \cup Http /\ proxy' \in Proxies
      /\ host' = IF fn' = "associate" THEN Addr ELSE dns_cache_lookup
      /\ creds' \in Credentials
      /\ UNCHANGED <<ask, rx, left, told, granted, parted, broken, entry, meant>>
  BY Constants DEF connection_handler
<1>2. dns_cache_lookup \in Names \cup {Addr}
  BY CacheTypes DEF dns_cache_lookup
<1>3. TypeOK'
  BY <1>1, <1>2 DEF IInv, SuccessIsTunnel, TypeOK
<1>4. SuccessIsTunnel' /\ Cached'
  BY <1>1, <1>3 DEF SuccessIsTunnel, Cached
<1>5. AskedForHost'
  <2> SUFFICES ASSUME fn' # "associate"
               PROVE  /\ meant.left > 0 /\ ~meant.rival => host' = meant.name
                      /\ host' = Addr => meant.left = 0
                      /\ host' \notin {Addr, meant.name} => meant.seen[host'] > 0
    BY <1>1 DEF AskedForHost
  <2>1. host' = IF entry # None /\ entry.left > 0 THEN entry.name ELSE Addr
    BY <1>1 DEF dns_cache_lookup
  <2>2. /\ meant.left > 0 => /\ entry # None /\ entry.left >= meant.left
                             /\ ~meant.rival => entry.name = meant.name
        /\ entry # None => meant.seen[entry.name] >= entry.left
    BY <1>1 DEF IInv, Cached
  <2>3. meant.left \in Nat /\ (entry # None => entry.left \in Nat /\ entry.name \in Names)
    BY CacheTypes, Constants
  <2>4. \A n \in Names : meant.seen[n] \in Nat
    BY CacheTypes, Constants
  <2>5. Addr \notin Names
    BY Constants
  <2>6. CASE entry # None /\ entry.left > 0
    BY <2>1, <2>2, <2>3, <2>4, <2>5, <2>6
  <2>7. CASE ~(entry # None /\ entry.left > 0)
    BY <2>1, <2>2, <2>3, <2>7
  <2> QED
    BY <2>6, <2>7
<1>6. Stages'
  BY <1>1 DEF IInv, Stages, Empty
<1> QED
  BY <1>4, <1>5, <1>6 DEF IInv

-----------------------------------------------------------------------------
(* The stream *)

\* What a recv may have found.
LEMMA RecvFacts ==
  ASSUME TypeOK, NEW n \in Nat, NEW k, Recv(n, k)
  PROVE  /\ k \in Nat /\ 1 <= k /\ k <= n /\ k <= Unread /\ rx # Empty
         /\ k <= rx.reply => rx' = [reply |-> rx.reply - k, tail |-> rx.tail]
         /\ k > rx.reply => rx' = [reply |-> 0, tail |-> Unread - k]
         /\ rx' \in [reply : 0 .. HeadLen + 262, tail : 0 .. MaxEarly]
         /\ k < n /\ k < rx.reply => parted'
         /\ ~parted /\ ~(k < n /\ k < rx.reply) => ~parted'
         /\ parted' \in BOOLEAN
<1>1. /\ rx.reply \in Nat /\ rx.tail \in Nat /\ rx.tail \in 0 .. MaxEarly
      /\ rx.reply <= HeadLen + 262 /\ Unread = rx.reply + rx.tail /\ Unread \in Nat
      /\ rx = [reply |-> rx.reply, tail |-> rx.tail] /\ parted \in BOOLEAN
  BY Types
<1>2. k \in 1 .. Min({n, Unread})
  BY DEF Recv
<1>3. Min({n, Unread}) = IF n <= Unread THEN n ELSE Unread
  BY <1>1, MinFact
<1>4. k \in Nat /\ 1 <= k /\ k <= n /\ k <= Unread
  BY <1>1, <1>2, <1>3
<1>5. rx # Empty
  BY <1>1, <1>4 DEF Empty
<1>6. /\ k <= rx.reply => rx' = [reply |-> rx.reply - k, tail |-> rx.tail]
      /\ k > rx.reply => rx' = [reply |-> 0, tail |-> Unread - k]
  BY <1>1, <1>4 DEF Recv
<1>7. HeadLen \in Nat /\ MaxEarly \in Nat
  BY Constants
<1>8. CASE k <= rx.reply
  <2>1. rx.reply - k \in 0 .. HeadLen + 262
    BY <1>1, <1>4, <1>7, <1>8
  <2> QED
    BY <1>1, <1>4, <1>5, <1>6, <1>8, <2>1 DEF Recv
<1>9. CASE k > rx.reply
  <2>1. 0 \in 0 .. HeadLen + 262 /\ Unread - k \in 0 .. MaxEarly
    BY <1>1, <1>4, <1>7, <1>9
  <2> QED
    BY <1>1, <1>4, <1>5, <1>6, <1>9, <2>1 DEF Recv
<1> QED
  BY <1>1, <1>4, <1>8, <1>9

\* A step of the handshake has only its own variables and the stages to care for.
LEMMA StreamStep ==
  ASSUME IInv, Fixed,
         pc' \in {"method", "login", "answer", "name", "drain", "ok", "failed"},
         ask' \in {"none", "methods", "login", "request"},
         rx' \in [reply : 0 .. HeadLen + 262, tail : 0 .. MaxEarly],
         left' \in 0 .. 257, told' \in Seq(0 .. 255),
         granted' \in BOOLEAN, parted' \in BOOLEAN, broken' \in BOOLEAN,
         (pc' = "ok" => Tunnel'), Stages'
  PROVE  IInv'
<1>1. TypeOK'
  BY LiteralFacts DEF IInv, SuccessIsTunnel, TypeOK, Fixed
<1>2. SuccessIsTunnel' /\ AskedForHost' /\ Cached'
  BY <1>1 DEF SuccessIsTunnel, Tunnel, AskedForHost, Cached
<1> QED
  BY <1>2 DEF IInv

\* What a step needs to know of the state before it.
LEMMA Before ==
  ASSUME IInv
  PROVE  /\ TypeOK /\ Stages
         /\ fn \in Socks \cup Http /\ creds \in Credentials /\ proxy \in Proxies
         /\ pc \in {"resolve", "greet", "method", "login", "answer", "name", "drain", "ok", "failed"}
         /\ ask \in {"none", "methods", "login", "request"}
         /\ rx \in [reply : 0 .. HeadLen + 262, tail : 0 .. MaxEarly]
         /\ left \in 0 .. 257 /\ told \in Seq(0 .. 255)
         /\ granted \in BOOLEAN /\ parted \in BOOLEAN /\ broken \in BOOLEAN
BY DEF IInv, SuccessIsTunnel, TypeOK

\* The exchanges with the proxy change neither the request nor the proxy.
LEMMA FixedFacts ==
  ASSUME Fixed
  PROVE  /\ fn' = fn /\ creds' = creds /\ proxy' = proxy
         /\ AnswerLen' = AnswerLen /\ Reply' = Reply /\ Short' = Short
         /\ told' = told => ToldRight' = ToldRight
BY DEF Fixed, AnswerLen, Reply, Short, ToldRight

LEMMA GreetInv ==
  ASSUME IInv, Greet
  PROVE  IInv'
<1> USE Before, FixedFacts
<1>1. pc = "greet" /\ Fixed /\ UNCHANGED <<rx, left, granted, parted, broken>>
  BY DEF Greet
<1>2. ask = "none" /\ rx = Empty /\ ~granted /\ ~parted /\ ~broken
  BY <1>1 DEF Stages
<1>3. CASE fn \in Socks
  <2>1. ask' = "methods" /\ pc' = "method" /\ told' = told
    BY <1>3 DEF Greet, Asks
  <2>2. Stages'
    BY <1>1, <1>2, <1>3, <2>1 DEF Stages, Owed
  <2> QED
    BY <1>1, <1>2, <2>1, <2>2, StreamStep
<1>4. CASE fn \notin Socks
  <2>1. ask' = "request" /\ pc' = "answer" /\ told' = creds
    BY <1>4, CredentialsFit DEF Greet, Asks
  <2>2. creds \in Seq(0 .. 255)
    BY CredentialsFit
  <2>3. Stages'
    BY <1>1, <1>2, <2>1 DEF Stages, Owed, ToldRight
  <2> QED
    BY <1>1, <1>2, <2>1, <2>2, <2>3, StreamStep
<1> QED
  BY <1>3, <1>4

LEMMA MethodInv ==
  ASSUME IInv, Method
  PROVE  IInv'
<1> USE Before, FixedFacts
<1>1. pc = "method" /\ Fixed /\ UNCHANGED <<granted, broken>>
  BY DEF Method
<1>2. PICK k \in 1 .. 2 :
        /\ Recv(2, k)
        /\ \/ /\ k # 2 \/ proxy.method = "refuse" \/ (proxy.method = "password" /\ creds = <<>>)
              /\ Ends("failed")
           \/ /\ k = 2 /\ proxy.method = "password" /\ creds # <<>>
              /\ Asks("login", "login") /\ told' = creds /\ UNCHANGED left
           \/ /\ k = 2 /\ proxy.method = "none"
              /\ Asks("request", "answer") /\ UNCHANGED <<left, told>>
  BY DEF Method
<1>3. /\ fn \in Socks /\ ~granted /\ ~parted /\ ~broken
      /\ ask = "none" /\ rx = [reply |-> 2, tail |-> 0]
  BY <1>1, <1>2, RecvFacts DEF Stages, Owed
<1>4. /\ k = 2 => rx' = Empty /\ ~parted'
      /\ rx' \in [reply : 0 .. HeadLen + 262, tail : 0 .. MaxEarly] /\ parted' \in BOOLEAN
  <2>1. k = 2 => rx' = [reply |-> 2 - 2, tail |-> 0] /\ ~parted'
    BY <1>2, <1>3, RecvFacts
  <2> QED
    BY <1>2, <2>1, RecvFacts DEF Empty
<1>5. CASE Ends("failed")
  <2>1. pc' = "failed" /\ UNCHANGED <<ask, left, told>>
    BY <1>5 DEF Ends
  <2>2. Stages'
    BY <1>1, <1>3, <2>1 DEF Stages
  <2> QED
    BY <1>1, <1>4, <2>1, <2>2, StreamStep
<1>6. CASE /\ k = 2 /\ proxy.method = "password" /\ creds # <<>>
           /\ Asks("login", "login") /\ told' = creds /\ UNCHANGED left
  <2>1. ask' = "login" /\ pc' = "login" /\ told' = creds /\ creds \in Seq(0 .. 255)
    BY <1>6, CredentialsFit DEF Asks
  <2>2. Stages'
    BY <1>1, <1>3, <1>4, <1>6, <2>1 DEF Stages, Owed, ToldRight
  <2> QED
    BY <1>1, <1>4, <1>6, <2>1, <2>2, StreamStep
<1>7. CASE /\ k = 2 /\ proxy.method = "none"
           /\ Asks("request", "answer") /\ UNCHANGED <<left, told>>
  <2>1. ask' = "request" /\ pc' = "answer" /\ told' = told
    BY <1>7 DEF Asks
  <2>2. fn \notin Http
    BY <1>3 DEF Socks, Http
  <2>3. Stages'
    BY <1>1, <1>3, <1>4, <1>7, <2>1, <2>2 DEF Stages, Owed, ToldRight
  <2> QED
    BY <1>1, <1>4, <1>7, <2>1, <2>3, StreamStep
<1> QED
  BY <1>2, <1>5, <1>6, <1>7

LEMMA LoginInv ==
  ASSUME IInv, Login
  PROVE  IInv'
<1> USE Before, FixedFacts
<1>1. pc = "login" /\ Fixed /\ UNCHANGED <<granted, broken>>
  BY DEF Login
<1>2. PICK k \in 1 .. 2 :
        /\ Recv(2, k)
        /\ IF k = 2 /\ proxy.login
             THEN Asks("request", "answer") /\ UNCHANGED <<left, told>>
             ELSE Ends("failed")
  BY DEF Login
<1>3. /\ fn \in Socks /\ ~granted /\ ~parted /\ ~broken /\ ToldRight
      /\ ask = "none" /\ rx = [reply |-> 2, tail |-> 0]
  BY <1>1, <1>2, RecvFacts DEF Stages, Owed
<1>4. /\ k = 2 => rx' = Empty /\ ~parted'
      /\ rx' \in [reply : 0 .. HeadLen + 262, tail : 0 .. MaxEarly] /\ parted' \in BOOLEAN
  <2>1. k = 2 => rx' = [reply |-> 2 - 2, tail |-> 0] /\ ~parted'
    BY <1>2, <1>3, RecvFacts
  <2> QED
    BY <1>2, <2>1, RecvFacts DEF Empty
<1>5. CASE Ends("failed")
  <2>1. pc' = "failed" /\ UNCHANGED <<ask, left, told>>
    BY <1>5 DEF Ends
  <2>2. Stages'
    BY <1>1, <1>3, <2>1 DEF Stages
  <2> QED
    BY <1>1, <1>4, <2>1, <2>2, StreamStep
<1>6. CASE k = 2 /\ Asks("request", "answer") /\ UNCHANGED <<left, told>>
  <2>1. ask' = "request" /\ pc' = "answer" /\ told' = told /\ left' = left
    BY <1>6 DEF Asks
  <2>2. Stages'
    BY <1>1, <1>3, <1>4, <1>6, <2>1 DEF Stages, Owed
  <2> QED
    BY <1>1, <1>4, <2>1, <2>2, StreamStep
<1> QED
  BY <1>2, <1>5, <1>6

\* An answer that is read whole leaves the tunnel, and what reads less shows it.
LEMMA AnswerEnds ==
  ASSUME IInv, pc = "answer", Fixed, rx = [reply |-> AnswerLen, tail |-> proxy.early],
         NEW k, Recv(Wanted, k), granted, UNCHANGED <<granted, told>>
  PROVE  /\ k < Needed => parted' \/ Short
         /\ k >= Needed /\ fn # "domain" => Tunnel'
         /\ k >= Needed /\ fn = "domain" =>
              ~parted' /\ rx' = [reply |-> proxy.bound.len + 2, tail |-> proxy.early]
<1>0. /\ TypeOK /\ Stages /\ fn \in Socks \cup Http
      /\ fn' = fn /\ proxy' = proxy /\ creds' = creds /\ AnswerLen' = AnswerLen
  BY Before, FixedFacts
<1>1. /\ proxy.early \in Nat /\ proxy.bound.len \in 2 .. 256
      /\ fn \in Http => AnswerLen = HeadLen
      /\ fn \notin Http => AnswerLen = 6 + proxy.bound.len
      /\ HeadLen \in Nat /\ StatusLen \in Nat /\ StatusLen <= HeadLen /\ HeadLen <= 4095
  BY <1>0, Types, Constants
<1>2. AnswerLen \in Nat /\ AnswerLen >= 8
  BY <1>0, <1>1, Types
<1>3. Wanted \in Nat
  BY DEF Wanted
<1>4. /\ k \in Nat /\ 1 <= k /\ k <= Wanted /\ k <= AnswerLen + proxy.early
      /\ k <= AnswerLen => rx' = [reply |-> AnswerLen - k, tail |-> proxy.early]
      /\ k > AnswerLen => rx' = [reply |-> 0, tail |-> (AnswerLen + proxy.early) - k]
      /\ k < Wanted /\ k < AnswerLen => parted'
      /\ ~parted /\ ~(k < Wanted /\ k < AnswerLen) => ~parted'
  <2>1. rx.reply = AnswerLen /\ rx.tail = proxy.early /\ Unread = AnswerLen + proxy.early
    BY DEF Unread
  <2>2. /\ k \in Nat /\ 1 <= k /\ k <= Wanted /\ k <= Unread
        /\ k <= rx.reply => rx' = [reply |-> rx.reply - k, tail |-> rx.tail]
        /\ k > rx.reply => rx' = [reply |-> 0, tail |-> Unread - k]
        /\ k < Wanted /\ k < rx.reply => parted'
        /\ ~parted /\ ~(k < Wanted /\ k < rx.reply) => ~parted'
    BY <1>0, <1>3, RecvFacts
  <2>3. k \in Nat /\ 1 <= k /\ k <= Wanted /\ k <= AnswerLen + proxy.early
    BY <2>1, <2>2
  <2>4. /\ k <= AnswerLen => rx' = [reply |-> AnswerLen - k, tail |-> proxy.early]
        /\ k > AnswerLen => rx' = [reply |-> 0, tail |-> (AnswerLen + proxy.early) - k]
        /\ k < Wanted /\ k < AnswerLen => parted'
        /\ ~parted /\ ~(k < Wanted /\ k < AnswerLen) => ~parted'
    BY <2>1, <2>2, Zenon
  <2> QED
    BY <2>3, <2>4
<1>5. ~parted /\ ToldRight
  BY <1>0 DEF Stages
<1>6. granted' /\ (fn \in Http \/ proxy.method = "password" => told' = creds)
  BY <1>5, FixedFacts DEF ToldRight
<1> DEFINE left0 == [reply |-> 0, tail |-> proxy.early]
<1>7. k = AnswerLen => rx' = left0
  BY <1>2, <1>4
<1> HIDE DEF left0
<1>8. CASE fn = "domain"
  <2>1. Wanted = 4 /\ Needed = 4 /\ fn \notin Http
    BY <1>8 DEF Wanted, Needed, Http
  <2>2. k < 4 => parted'
    BY <1>2, <1>4, <2>1
  <2>3. k >= 4 => k = 4 /\ ~parted'
    BY <1>4, <1>5, <2>1
  <2>4. AnswerLen - 4 = proxy.bound.len + 2
    BY <1>1, <2>1
  <2>5. k >= 4 => rx' = [reply |-> proxy.bound.len + 2, tail |-> proxy.early]
    BY <1>2, <1>4, <2>3, <2>4
  <2> QED
    BY <1>8, <2>1, <2>2, <2>3, <2>5
<1>9. CASE fn = "connect6"
  <2>1. Wanted = 22 /\ Needed = 4
    BY <1>9 DEF Wanted, Needed, Http
  <2>2. k < 4 => parted'
    BY <1>2, <1>4, <2>1
  <2>3. rx' = left0 \/ parted' \/ AnswerLen > 22 \/ (AnswerLen < 22 /\ proxy.early > 0)
    <3>1. CASE k < AnswerLen
      BY <1>2, <1>4, <2>1, <3>1
    <3>2. CASE k = AnswerLen
      BY <1>7, <3>2
    <3>3. CASE k > AnswerLen
      BY <1>1, <1>2, <1>4, <2>1, <3>3
    <3> QED
      BY <1>2, <1>4, <3>1, <3>2, <3>3
  <2>4. Tunnel'
    BY <1>0, <1>6, <1>9, <2>3 DEF Tunnel, left0
  <2> QED
    BY <1>9, <2>1, <2>2, <2>4
<1>10. CASE fn \in Http
  <2>1. Wanted = 4095 /\ Needed = StatusLen /\ fn # "domain"
    BY <1>10 DEF Wanted, Needed, Http
  <2>2. k < StatusLen => parted'
    BY <1>1, <1>4, <1>10, <2>1
  <2>3. rx' = left0 \/ parted' \/ proxy.early > 0
    <3>1. CASE k < AnswerLen
      BY <1>1, <1>4, <1>10, <2>1, <3>1
    <3>2. CASE k = AnswerLen
      BY <1>7, <3>2
    <3>3. CASE k > AnswerLen
      BY <1>1, <1>2, <1>4, <3>3
    <3> QED
      BY <1>2, <1>4, <3>1, <3>2, <3>3
  <2>4. Tunnel'
    BY <1>0, <1>6, <1>10, <2>3 DEF Tunnel, left0
  <2> QED
    BY <2>1, <2>2, <2>4
<1>11. CASE fn \in {"connect", "associate"}
  <2>1. Wanted = 10 /\ Needed = 10 /\ fn # "domain"
    BY <1>11 DEF Wanted, Needed, Http
  <2>2. k < 10 => parted' \/ Short
    BY <1>2, <1>4, <1>11, <2>1 DEF Short
  <2>3. k >= 10 => rx' = left0 \/ AnswerLen # 10
    <3>1. k >= 10 => k = 10
      BY <1>4, <2>1
    <3> QED
      BY <1>7, <3>1
  <2>4. k >= 10 => Tunnel'
    BY <1>0, <1>6, <1>11, <2>3 DEF Tunnel, left0
  <2> QED
    BY <2>1, <2>2, <2>4
<1> QED
  BY <1>0, <1>8, <1>9, <1>10, <1>11 DEF Socks

LEMMA AnswerInv ==
  ASSUME IInv, Answer
  PROVE  IInv'
<1> USE Before, FixedFacts
<1>1. pc = "answer" /\ Fixed /\ UNCHANGED <<granted, broken>>
  BY DEF Answer
<1>2. PICK k \in 1 .. Min({Wanted, AnswerLen + MaxEarly}) :
        /\ Recv(Wanted, k)
        /\ IF k < Needed \/ ~Accepts THEN Ends("failed")
           ELSE IF fn # "domain" THEN Ends("ok")
           ELSE IF proxy.bound.atyp = "name" THEN Ends("name")
           ELSE pc' = "drain" /\ left' = proxy.bound.len + 2 /\ UNCHANGED <<ask, told>>
  BY <1>1 DEF Answer
<1>3. Wanted \in Nat /\ Needed \in Nat
  BY Constants DEF Wanted, Needed
<1>4. /\ rx # Empty /\ k \in Nat /\ parted' \in BOOLEAN
      /\ rx' \in [reply : 0 .. HeadLen + 262, tail : 0 .. MaxEarly]
  BY <1>2, <1>3, RecvFacts
<1>5. /\ ask = "none" /\ rx = Reply /\ granted = proxy.grants /\ ToldRight
      /\ ~parted /\ ~broken
  BY <1>1, <1>4, Types DEF Stages, Owed
<1>6. told' = told /\ ask' = ask /\ granted' = granted /\ broken' = broken
  BY <1>1, <1>2 DEF Ends
<1>7. CASE ~granted
  <2>1. pc' = "failed" /\ left' = left
    BY <1>2, <1>5, <1>7 DEF Accepts, Ends
  <2>2. Stages'
    BY <1>5, <1>6, <1>7, <2>1 DEF Stages
  <2> QED
    BY <1>1, <1>4, <1>6, <2>1, <2>2, StreamStep
<1>8. CASE granted
  <2>1. rx = [reply |-> AnswerLen, tail |-> proxy.early] /\ proxy.grants
    BY <1>5, <1>8 DEF Reply
  <2>2. /\ k < Needed => parted' \/ Short
        /\ k >= Needed /\ fn # "domain" => Tunnel'
        /\ k >= Needed /\ fn = "domain" =>
              ~parted' /\ rx' = [reply |-> proxy.bound.len + 2, tail |-> proxy.early]
    BY <1>1, <1>2, <1>6, <1>8, <2>1, AnswerEnds
  <2>3. k < Needed <=> ~(k >= Needed)
    BY <1>3, <1>4
  <2>4. CASE k < Needed
    <3>1. pc' = "failed" /\ left' = left
      BY <1>2, <2>4 DEF Ends
    <3>2. Stages'
      BY <1>1, <1>5, <1>6, <2>2, <2>4, <3>1 DEF Stages
    <3> QED
      BY <1>1, <1>4, <1>6, <3>1, <3>2, StreamStep
  <2>5. CASE k >= Needed /\ fn # "domain"
    <3>1. pc' = "ok" /\ left' = left
      BY <1>2, <2>1, <2>3, <2>5 DEF Accepts, Ends
    <3>2. Stages'
      BY <1>5, <1>6, <3>1 DEF Stages
    <3> QED
      BY <1>1, <1>4, <1>6, <2>2, <2>5, <3>1, <3>2, StreamStep
  <2>6. CASE k >= Needed /\ fn = "domain" /\ proxy.bound.atyp = "name"
    <3>1. pc' = "name" /\ left' = left
      BY <1>2, <2>1, <2>3, <2>6 DEF Accepts, Ends
    <3>2. Stages'
      BY <1>1, <1>5, <1>6, <1>8, <2>2, <2>6, <3>1 DEF Stages
    <3> QED
      BY <1>1, <1>4, <1>6, <3>1, <3>2, StreamStep
  <2>7. CASE k >= Needed /\ fn = "domain" /\ proxy.bound.atyp # "name"
    <3>1. pc' = "drain" /\ left' = proxy.bound.len + 2
      BY <1>2, <2>1, <2>3, <2>7 DEF Accepts
    <3>2. left' \in 0 .. 257
      <4>1. ASSUME NEW l, l \in 2 .. 256, l = 4 \/ l = 16 PROVE l + 2 \in 0 .. 257
        BY <4>1
      <4>2. proxy.bound.len = 4 \/ proxy.bound.len = 16
        BY <2>7, BoundFacts
      <4>3. proxy.bound.len \in 2 .. 256
        BY BoundFacts
      <4> QED
        BY <3>1, <4>1, <4>2, <4>3
    <3>3. Stages'
      BY <1>1, <1>5, <1>6, <1>8, <2>2, <2>7, <3>1 DEF Stages
    <3> QED
      BY <1>1, <1>4, <1>6, <3>1, <3>2, <3>3, StreamStep
  <2> QED
    BY <2>3, <2>4, <2>5, <2>6, <2>7
<1> QED
  BY <1>7, <1>8

LEMMA NameInv ==
  ASSUME IInv, NameLength
  PROVE  IInv'
<1>0. /\ TypeOK /\ Stages /\ proxy \in Proxies /\ granted \in BOOLEAN /\ broken \in BOOLEAN
      /\ told \in Seq(0 .. 255)
  BY Before
<1>1. /\ pc = "name" /\ pc' = "drain" /\ left' = NameTail /\ Fixed /\ Recv(1, 1)
      /\ UNCHANGED <<ask, told, granted, broken>>
  BY DEF NameLength
<1>2. /\ fn = "domain" /\ ask = "none" /\ granted /\ ToldRight
      /\ rx = [reply |-> proxy.bound.len + 2, tail |-> proxy.early]
  BY <1>0, <1>1 DEF Stages
<1>3. proxy.bound.len \in 2 .. 256
  BY <1>0, BoundFacts
<1>4. left' = proxy.bound.len + 1 /\ left' \in 0 .. 257
  BY <1>1, <1>3 DEF NameTail
<1>5. rx.reply = proxy.bound.len + 2 /\ rx.tail = proxy.early
  BY <1>2
<1>6. rx' = [reply |-> rx.reply - 1, tail |-> rx.tail]
  <2>1. 1 <= rx.reply
    BY <1>3, <1>5
  <2> QED
    BY <1>0, <1>1, <2>1, RecvFacts
<1>7. rx.reply - 1 = proxy.bound.len + 1
  BY <1>3, <1>5
<1>8. rx' = [reply |-> left', tail |-> proxy.early]
  BY <1>4, <1>5, <1>6, <1>7
<1>9. parted' \in BOOLEAN /\ rx' \in [reply : 0 .. HeadLen + 262, tail : 0 .. MaxEarly]
  BY <1>0, <1>1, RecvFacts
<1>10. Stages'
  BY <1>1, <1>2, <1>8, FixedFacts DEF Stages
<1> QED
  BY <1>0, <1>1, <1>2, <1>4, <1>9, <1>10, StreamStep

LEMMA DrainInv ==
  ASSUME IInv, Drain
  PROVE  IInv'
<1>0. /\ TypeOK /\ Stages /\ left \in 0 .. 257 /\ granted \in BOOLEAN /\ broken \in BOOLEAN
      /\ told \in Seq(0 .. 255)
  BY Before
<1>1. /\ pc = "drain" /\ left > 0 /\ Fixed
      /\ UNCHANGED <<pc, ask, told, granted, broken>>
  BY DEF Drain
<1>2. PICK k \in 1 .. left : Recv(left, k) /\ left' = left - k
  BY DEF Drain
<1>3. /\ fn = "domain" /\ ask = "none" /\ granted /\ ToldRight
      /\ rx = [reply |-> left, tail |-> proxy.early]
  BY <1>0, <1>1 DEF Stages
<1>4. left \in Nat /\ k \in Nat /\ k <= left /\ left' \in 0 .. 257
  BY <1>0, <1>2
<1>5. rx.reply = left /\ rx.tail = proxy.early
  BY <1>3
<1>6. rx' = [reply |-> left', tail |-> proxy.early]
  BY <1>0, <1>2, <1>4, <1>5, RecvFacts
<1>7. parted' \in BOOLEAN /\ rx' \in [reply : 0 .. HeadLen + 262, tail : 0 .. MaxEarly]
  BY <1>0, <1>2, <1>4, RecvFacts
<1>8. Stages'
  BY <1>1, <1>3, <1>6, FixedFacts DEF Stages
<1> QED
  BY <1>0, <1>1, <1>3, <1>4, <1>7, <1>8, StreamStep

LEMMA DrainedInv ==
  ASSUME IInv, Drained
  PROVE  IInv'
<1> USE Before, FixedFacts
<1>1. /\ pc = "drain" /\ left = 0 /\ pc' = "ok" /\ Fixed
      /\ UNCHANGED <<ask, left, told, rx, granted, parted, broken>>
  BY DEF Drained, Ends
<1>2. /\ ask = "none" /\ granted /\ ToldRight /\ rx = [reply |-> 0, tail |-> proxy.early]
  BY <1>1 DEF Stages
<1>3. Tunnel'
  BY <1>1, <1>2 DEF Tunnel, ToldRight
<1>4. Stages'
  BY <1>1, <1>2 DEF Stages
<1> QED
  BY <1>1, <1>3, <1>4, StreamStep

LEMMA BreaksInv ==
  ASSUME IInv, Breaks
  PROVE  IInv'
<1> USE Before, FixedFacts
<1>1. /\ pc' = "failed" /\ broken' = TRUE /\ Fixed
      /\ UNCHANGED <<ask, rx, left, told, granted, parted>>
  BY DEF Breaks
<1>2. Stages'
  BY <1>1 DEF Stages
<1> QED
  BY <1>1, <1>2, StreamStep

\* The proxy answers what it is asked; after a broken connection nobody reads it.
LEMMA RepliesInv ==
  ASSUME IInv, NEW n \in 0 .. HeadLen + 262, NEW early \in 0 .. MaxEarly, Replies(n, early),
         \/ ask = "methods" /\ n = 2 /\ early = 0 /\ granted' = granted
         \/ ask = "login" /\ n = 2 /\ early = 0 /\ granted' = granted
         \/ ask = "request" /\ [reply |-> n, tail |-> early] = Reply /\ granted' = proxy.grants
  PROVE  IInv'
<1> USE Before, FixedFacts
<1>1. /\ ask' = "none" /\ rx' = [reply |-> n, tail |-> early] /\ Fixed
      /\ UNCHANGED <<pc, left, told, parted, broken>>
  BY DEF Replies
<1>2. rx' \in [reply : 0 .. HeadLen + 262, tail : 0 .. MaxEarly] /\ granted' \in BOOLEAN
  BY <1>1, Types
<1>3. \/ pc = "method" /\ ask = "methods"
      \/ pc = "login" /\ ask = "login"
      \/ pc = "answer" /\ ask = "request"
      \/ pc = "failed" /\ broken
  BY DEF Stages, Owed
<1>4. CASE pc = "method" /\ ask = "methods"
  <2>1. Stages'
    BY <1>1, <1>4 DEF Stages, Owed
  <2> QED
    BY <1>1, <1>2, <1>4, <2>1, StreamStep
<1>5. CASE pc = "login" /\ ask = "login"
  <2>1. Stages'
    BY <1>1, <1>5 DEF Stages, Owed
  <2> QED
    BY <1>1, <1>2, <1>5, <2>1, StreamStep
<1>6. CASE pc = "answer" /\ ask = "request"
  <2>1. rx' = Reply' /\ granted' = proxy'.grants /\ granted' = (ask' = "none" /\ proxy'.grants)
    BY <1>1, <1>2, <1>6, Types
  <2>2. Stages'
    BY <1>1, <1>6, <2>1 DEF Stages, Owed
  <2> QED
    BY <1>1, <1>2, <1>6, <2>2, StreamStep
<1>7. CASE pc = "failed" /\ broken
  <2>1. Stages'
    BY <1>1, <1>7 DEF Stages
  <2> QED
    BY <1>1, <1>2, <1>7, <2>1, StreamStep
<1> QED
  BY <1>3, <1>4, <1>5, <1>6, <1>7

LEMMA ProxyInv ==
  ASSUME IInv, Chooses \/ ChecksLogin \/ AnswersRequest
  PROVE  IInv'
<1> DEFINE early == IF proxy.grants THEN proxy.early ELSE 0
<1>1. AnswerLen \in 0 .. HeadLen + 262 /\ 2 \in 0 .. HeadLen + 262 /\ 0 \in 0 .. MaxEarly
      /\ early \in 0 .. MaxEarly
  BY Before, Types, Constants
<1>2. CASE Chooses
  BY <1>1, <1>2, RepliesInv DEF Chooses
<1>3. CASE ChecksLogin
  BY <1>1, <1>3, RepliesInv DEF ChecksLogin
<1>4. CASE AnswersRequest
  BY <1>1, <1>4, RepliesInv DEF AnswersRequest, Reply
<1> QED
  BY <1>2, <1>3, <1>4

-----------------------------------------------------------------------------

LEMMA StepInv == IInv /\ [Next]_vars => IInv'
<1> SUFFICES ASSUME IInv, [Next]_vars PROVE IInv'
  OBVIOUS
<1>1. CASE UNCHANGED vars
  <2> USE <1>1 DEF vars
  <2>1. TypeOK'
    BY Before DEF TypeOK
  <2>2. SuccessIsTunnel'
    BY <2>1 DEF IInv, SuccessIsTunnel, AnswerLen
  <2>3. AskedForHost' /\ Cached'
    BY DEF IInv, AskedForHost, Cached
  <2>4. Reply' = Reply /\ Short' = Short /\ ToldRight' = ToldRight
    BY DEF Reply, Short, ToldRight, AnswerLen
  <2>5. Stages'
    BY <2>4, Before DEF Stages, Owed
  <2> QED
    BY <2>2, <2>3, <2>5 DEF IInv
<1>2. CASE \E n \in Names :
             ResolvesUnseen(n) \/ \E own \in BOOLEAN : snoop_dns_response(n, own)
  BY <1>2, UnseenInv, SnoopInv
<1>3. CASE dns_cache_init \/ Tick \/ connection_handler
  BY <1>3, InitCacheInv, TickInv, ConnectInv
<1>4. CASE Greet \/ Method \/ Login
  BY <1>4, GreetInv, MethodInv, LoginInv
<1>5. CASE Answer \/ NameLength \/ Drain \/ Drained \/ Breaks
  BY <1>5, AnswerInv, NameInv, DrainInv, DrainedInv, BreaksInv
<1>6. CASE Chooses \/ ChecksLogin \/ AnswersRequest
  BY <1>6, ProxyInv
<1> QED
  BY <1>1, <1>2, <1>3, <1>4, <1>5, <1>6 DEF Next

LEMMA Invariant == Spec => []IInv
BY InitInv, StepInv, PTL DEF Spec

\* The request names the host the application resolved (connection_handler over
\* the DNS cache), whatever the names, the answers seen and the life of an entry.
THEOREM HostCorrect == Spec => []AskedForHost
<1>1. IInv => AskedForHost
  BY DEF IInv
<1> QED
  BY <1>1, Invariant, PTL

\* A handshake that succeeds has told the proxy the configured credentials and
\* leaves the stream at the first byte of the tunnel, but for the exceptions the
\* property lists; every variable keeps its type.
THEOREM SuccessCorrect == Spec => []SuccessIsTunnel
<1>1. IInv => SuccessIsTunnel
  BY DEF IInv
<1> QED
  BY <1>1, Invariant, PTL

\* A handshake the proxy has granted fails only for a reason.
THEOREM FailureCorrect == Spec => []FailureExplained
<1>1. IInv => FailureExplained
  BY DEF IInv, Stages, Short, FailureExplained
<1> QED
  BY <1>1, Invariant, PTL
=============================================================================
