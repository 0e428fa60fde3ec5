--------------------------- MODULE RuleListProofs --------------------------
(***************************************************************************)
(* Proofs about RuleList, for any finite memory, any rules and any length  *)
(* of the lists: the pointers form the list the user sees, the flag is     *)
(* exact, and what a check may answer while the list is edited under it.   *)
(***************************************************************************)
EXTENDS RuleList, FiniteSetTheorems, SequenceTheorems, NaturalsInduction,
        WellFoundedInduction, TLAPS

-----------------------------------------------------------------------------
(* Sequences and numbers *)

\* Every set of numbers that is not empty has a least one.
LEMMA Least ==
  ASSUME NEW T, T \subseteq Nat, T # {}
  PROVE  \E x \in T : \A y \in T : x <= y
<1>1. PICK x \in T : \A y \in T : ~(<<y, x>> \in OpToRel(<, Nat))
  BY NatLessThanWellFounded, WFMin, Zenon
<1>2. ASSUME NEW y \in T PROVE x <= y
  <2>1. y \in Nat /\ x \in Nat
    OBVIOUS
  <2>2. ~(y < x)
    BY <1>1, <2>1 DEF OpToRel
  <2> QED
    BY <2>1, <2>2
<1> QED
  BY <1>2

\* Min of the community modules picks that number.
LEMMA MinFacts ==
  ASSUME NEW T, T \subseteq Nat, T # {}
  PROVE  Min(T) \in T /\ \A y \in T : Min(T) <= y
BY Least DEF Min

\* RemoveAt closes the gap.
LEMMA RemoveFacts ==
  ASSUME NEW S, NEW s \in Seq(S), NEW k \in 1 .. Len(s)
  PROVE  /\ RemoveAt(s, k) \in Seq(S) /\ Len(RemoveAt(s, k)) = Len(s) - 1
         /\ \A i \in 1 .. Len(s) - 1 : RemoveAt(s, k)[i] = IF i < k THEN s[i] ELSE s[i + 1]
<1> DEFINE a == SubSeq(s, 1, k - 1)
           b == SubSeq(s, k + 1, Len(s))
           n == Len(s)
<1>0. n \in Nat /\ k \in 1 .. n
  OBVIOUS
<1>1. a \in Seq(S) /\ Len(a) = k - 1 /\ \A i \in 1 .. k - 1 : a[i] = s[i]
  OBVIOUS
<1>2. b \in Seq(S) /\ Len(b) = n - k /\ \A i \in 1 .. n - k : b[i] = s[k + i]
  OBVIOUS
<1> HIDE DEF a, b, n
<1>3. /\ a \o b \in Seq(S) /\ Len(a \o b) = Len(a) + Len(b)
      /\ \A i \in 1 .. Len(a) + Len(b) : (a \o b)[i] = IF i <= Len(a) THEN a[i] ELSE b[i - Len(a)]
  BY <1>1, <1>2, ConcatProperties
<1>4. Len(a \o b) = n - 1
  BY <1>0, <1>1, <1>2, <1>3
<1>5. ASSUME NEW i \in 1 .. n - 1
      PROVE  (a \o b)[i] = IF i < k THEN s[i] ELSE s[i + 1]
  <2>1. i \in 1 .. Len(a) + Len(b)
    BY <1>0, <1>1, <1>2
  <2>2. CASE i < k
    BY <1>0, <1>1, <1>3, <2>1, <2>2
  <2>3. CASE ~(i < k)
    <3>1. i - Len(a) \in 1 .. n - k /\ k + (i - Len(a)) = i + 1 /\ ~(i <= Len(a))
      BY <1>0, <1>1, <2>3
    <3> QED
      BY <1>2, <1>3, <2>1, <2>3, <3>1
  <2> QED
    BY <2>2, <2>3
<1> QED
  BY <1>3, <1>4, <1>5 DEF a, b, n, RemoveAt

\* InsertAt moves the rest one place down.
LEMMA InsertFacts ==
  ASSUME NEW S, NEW s \in Seq(S), NEW k \in 1 .. Len(s) + 1, NEW e \in S
  PROVE  /\ InsertAt(s, k, e) \in Seq(S) /\ Len(InsertAt(s, k, e)) = Len(s) + 1
         /\ \A i \in 1 .. Len(s) + 1 :
              InsertAt(s, k, e)[i] = IF i < k THEN s[i] ELSE IF i = k THEN e ELSE s[i - 1]
<1> DEFINE a == SubSeq(s, 1, k - 1)
           b == SubSeq(s, k, Len(s))
           n == Len(s)
<1>0. n \in Nat /\ k \in 1 .. n + 1
  OBVIOUS
<1>1. a \in Seq(S) /\ Len(a) = k - 1 /\ \A i \in 1 .. k - 1 : a[i] = s[i]
  OBVIOUS
<1>2. /\ b \in Seq(S) /\ Len(b) = (n + 1) - k
      /\ \A i \in 1 .. (n + 1) - k : b[i] = s[(k + i) - 1]
  OBVIOUS
<1> HIDE DEF a, b, n
<1> DEFINE c == Append(a, e)
<1>3. /\ c \in Seq(S) /\ Len(c) = k
      /\ \A i \in 1 .. k - 1 : c[i] = s[i]
      /\ c[k] = e
  BY <1>0, <1>1, AppendProperties
<1>4. c = a \o <<e>>
  BY <1>1, AppendIsConcat
<1> HIDE DEF c
<1>5. /\ c \o b \in Seq(S) /\ Len(c \o b) = Len(c) + Len(b)
      /\ \A i \in 1 .. Len(c) + Len(b) : (c \o b)[i] = IF i <= Len(c) THEN c[i] ELSE b[i - Len(c)]
  BY <1>2, <1>3, ConcatProperties
<1>6. Len(c \o b) = n + 1
  BY <1>0, <1>2, <1>3, <1>5
<1>7. ASSUME NEW i \in 1 .. n + 1
      PROVE  (c \o b)[i] = IF i < k THEN s[i] ELSE IF i = k THEN e ELSE s[i - 1]
  <2>1. i \in 1 .. Len(c) + Len(b)
    BY <1>0, <1>2, <1>3
  <2>2. CASE i <= k
    BY <1>0, <1>3, <1>5, <2>1, <2>2
  <2>3. CASE ~(i <= k)
    <3>1. i - Len(c) \in 1 .. (n + 1) - k /\ (k + (i - Len(c))) - 1 = i - 1 /\ ~(i <= Len(c))
      BY <1>0, <1>3, <2>3
    <3>2. (c \o b)[i] = b[i - Len(c)]
      BY <1>5, <2>1, <3>1
    <3>3. b[i - Len(c)] = s[i - 1]
      BY <1>2, <3>1
    <3>4. ~(i < k) /\ i # k
      BY <1>0, <2>3
    <3> QED
      BY <3>2, <3>3, <3>4
  <2> QED
    BY <2>2, <2>3
<1> QED
  BY <1>4, <1>5, <1>6, <1>7 DEF a, b, n, InsertAt

\* An element put in at k comes out at k.
LEMMA InsertRemoved ==
  ASSUME NEW S, NEW s \in Seq(S), NEW k \in 1 .. Len(s) + 1, NEW e \in S
  PROVE  RemoveAt(InsertAt(s, k, e), k) = s
<1> DEFINE n == Len(s)
<1>0. n \in Nat /\ k \in 1 .. n + 1
  OBVIOUS
<1> HIDE DEF n
<1>1. PICK t \in Seq(S) :
        /\ t = InsertAt(s, k, e) /\ Len(t) = n + 1
        /\ \A i \in 1 .. n + 1 : t[i] = IF i < k THEN s[i] ELSE IF i = k THEN e ELSE s[i - 1]
  BY InsertFacts DEF n
<1>2. /\ RemoveAt(t, k) \in Seq(S) /\ Len(RemoveAt(t, k)) = Len(t) - 1
      /\ \A i \in 1 .. Len(t) - 1 : RemoveAt(t, k)[i] = IF i < k THEN t[i] ELSE t[i + 1]
  BY <1>0, <1>1, RemoveFacts
<1>3. ASSUME NEW i \in 1 .. n PROVE RemoveAt(t, k)[i] = s[i]
  <2>1. i \in 1 .. Len(t) - 1 /\ i \in 1 .. n + 1 /\ i + 1 \in 1 .. n + 1 /\ (i + 1) - 1 = i
    BY <1>0, <1>1
  <2>2. CASE i < k
    BY <1>1, <1>2, <2>1, <2>2
  <2>3. CASE ~(i < k)
    <3>1. ~(i + 1 < k) /\ i + 1 # k
      BY <1>0, <2>3
    <3>2. t[i + 1] = s[i]
      BY <1>1, <2>1, <3>1
    <3> QED
      BY <1>2, <2>1, <2>3, <3>2
  <2> QED
    BY <2>2, <2>3
<1>4. Len(RemoveAt(t, k)) = n
  BY <1>0, <1>1, <1>2
<1> QED
  BY <1>1, <1>2, <1>3, <1>4, SeqEqual DEF n

-----------------------------------------------------------------------------
(* The list the pointers form *)

\* No rule stands twice.
Distinct(o) == \A i, j \in 1 .. Len(o) : o[i] = o[j] => i = j

\* The rules of a list.
Rules(o) == {o[i] : i \in 1 .. Len(o)}

\* What the pointer of the i-th rule of o, or rules_list, must hold.
NextOf(o, i) == IF i < Len(o) THEN o[i + 1] ELSE None


\* The pointers of mem, from first on, form the list o.
Linked(o, first, mem) ==
  /\ first = NextOf(o, 0)
  /\ \A i \in 1 .. Len(o) : mem[o[i]].next = NextOf(o, i)

\* There is room for a list that holds nothing twice.
LEMMA BoundedLength ==
  ASSUME NEW o \in Seq(Cells), Distinct(o)
  PROVE  /\ Cardinality(Cells) \in Nat /\ Len(o) \in 0 .. Cardinality(Cells)
         /\ IsFiniteSet(1 .. Len(o)) /\ Cardinality(1 .. Len(o)) = Len(o)
<1>1. o \in Injection(1 .. Len(o), Cells)
  BY DEF Injection, IsInjective, Distinct
<1>2. IsFiniteSet(1 .. Len(o)) /\ Cardinality(1 .. Len(o)) = Len(o)
  <2>1. \A n \in Nat : IsFiniteSet(1 .. n) /\ Cardinality(1 .. n) = n
    BY FS_Interval
  <2> QED
    BY <2>1, Len(o) \in Nat
<1>3. Cardinality(1 .. Len(o)) <= Cardinality(Cells)
  BY <1>1, RuleConstants, FS_Injection
<1> QED
  BY <1>2, <1>3, RuleConstants, FS_CardinalityType

\* If the pointers form the list o, that is what following them finds.
LEMMA NodeIs ==
  ASSUME NEW o \in Seq(Cells), Distinct(o), Linked(o, head, cell)
  PROVE  /\ DOMAIN Node = 1 .. Cardinality(Cells) + 1
         /\ \A i \in DOMAIN Node : Node[i] = IF i <= Len(o) THEN o[i] ELSE None
<1> DEFINE N == Cardinality(Cells)
           L == Len(o)
           G(g) == [i \in 1 .. N + 1 |-> IF i = 1 THEN head
                      ELSE IF g[i - 1] = None THEN None ELSE cell[g[i - 1]].next]
           f == [i \in 1 .. N + 1 |-> IF i <= L THEN o[i] ELSE None]
<1>1. N \in Nat /\ L \in 0 .. N
  BY BoundedLength
<1>2. /\ \A i \in 1 .. L : o[i] \in Cells /\ o[i] # None
      /\ head = IF L > 0 THEN o[1] ELSE None
      /\ \A i \in 1 .. L : cell[o[i]].next = IF i < L THEN o[i + 1] ELSE None
  BY RuleConstants DEF Linked, NextOf
<1>3. Node = CHOOSE g : g = G(g)
  BY DEF Node
<1> HIDE DEF N, L
<1>4. ASSUME NEW i \in 1 .. N + 1 PROVE f[i] = G(f)[i]
  <2>1. CASE i = 1
    BY <1>1, <1>2, <2>1
  <2>2. CASE i # 1
    <3>1. i - 1 \in 1 .. N + 1 /\ i - 1 \in 1 .. N /\ (i - 1) + 1 = i
      BY <1>1, <2>2
    <3>2. CASE i - 1 <= L
      <4>1. f[i - 1] = o[i - 1] /\ f[i - 1] # None
        BY <1>2, <3>1, <3>2
      <4>2. cell[f[i - 1]].next = IF i - 1 < L THEN o[i] ELSE None
        BY <1>2, <3>1, <3>2, <4>1
      <4> QED
        BY <1>1, <2>2, <3>1, <4>1, <4>2
    <3>3. CASE ~(i - 1 <= L)
      BY <1>1, <2>2, <3>1, <3>3
    <3> QED
      BY <3>2, <3>3
  <2> QED
    BY <2>1, <2>2
<1>5. f = G(f)
  BY <1>4
<1> HIDE DEF f
<1>6. \E g : g = G(g)
  BY <1>5
<1>7. Node = G(Node)
  <2> HIDE DEF G
  <2> QED
    BY <1>3, <1>6
<1>8. DOMAIN Node = 1 .. N + 1 /\ DOMAIN f = 1 .. N + 1
  BY <1>5, <1>7
<1>9. \A i \in 1 .. N + 1 : Node[i] = f[i]
  <2> DEFINE T == {i \in 1 .. N + 1 : Node[i] # f[i]}
  <2>1. SUFFICES T = {}
    OBVIOUS
  <2>2. SUFFICES ASSUME T # {} PROVE FALSE
    OBVIOUS
  <2>3. T \subseteq Nat
    BY <1>1
  <2> HIDE DEF T
  <2>4. PICK i \in T : \A j \in T : i <= j
    BY <2>2, <2>3, Least
  <2>5. i \in 1 .. N + 1 /\ Node[i] # f[i] /\ \A j \in 1 .. N + 1 : Node[j] # f[j] => i <= j
    BY <2>4 DEF T
  <2>6. i # 1
    BY <1>5, <1>7, <2>5
  <2>7. i - 1 \in 1 .. N + 1 /\ ~(i <= i - 1)
    BY <1>1, <2>5, <2>6
  <2>8. Node[i - 1] = f[i - 1]
    BY <2>5, <2>7
  <2>9. Node[i] = G(Node)[i] /\ f[i] = G(f)[i]
    BY <1>5, <1>7
  <2> QED
    BY <2>5, <2>6, <2>8, <2>9
<1> QED
  BY <1>8, <1>9 DEF N, L, f

\* Following the pointers of a linked list gives its rules, in their places.
LEMMA ListedIs ==
  ASSUME NEW o \in Seq(Cells), Distinct(o), Linked(o, head, cell)
  PROVE  /\ Length = Len(o) /\ Listed = Rules(o)
         /\ \A i \in 1 .. Len(o) : Node[i] = o[i]
         /\ head = None <=> o = <<>>
<1> DEFINE N == Cardinality(Cells)
           L == Len(o)
<1>1. /\ DOMAIN Node = 1 .. N + 1
      /\ \A i \in DOMAIN Node : Node[i] = IF i <= L THEN o[i] ELSE None
  BY NodeIs
<1>2. N \in Nat /\ L \in 0 .. N /\ Cardinality(1 .. L) = L
  BY BoundedLength
<1>3. \A i \in 1 .. L : o[i] \in Cells /\ o[i] # None
  BY RuleConstants
<1>4. head = IF L > 0 THEN o[1] ELSE None
  BY DEF Linked, NextOf
<1>5. o = <<>> <=> L = 0
  OBVIOUS
<1> HIDE DEF N, L
<1>6. {i \in DOMAIN Node : Node[i] # None} = 1 .. L
  BY <1>1, <1>2, <1>3
<1>7. {Node[i] : i \in DOMAIN Node} \ {None} = {o[i] : i \in 1 .. L}
  BY <1>1, <1>2, <1>3
<1>8. \A i \in 1 .. L : Node[i] = o[i]
  BY <1>1, <1>2
<1>9. head = None <=> L = 0
  BY <1>2, <1>3, <1>4
<1> QED
  BY <1>2, <1>5, <1>6, <1>7, <1>8, <1>9 DEF Length, Listed, Rules, L

-----------------------------------------------------------------------------
(* Lists with a rule taken out, put in, linked in *)

\* A list without one rule: its rules and their successors.
LEMMA RestFacts ==
  ASSUME NEW o \in Seq(Cells), Distinct(o), NEW k \in 1 .. Len(o)
  PROVE  /\ Distinct(RemoveAt(o, k)) /\ Rules(RemoveAt(o, k)) = Rules(o) \ {o[k]}
         /\ \A i \in 0 .. Len(o) - 1 :
              NextOf(RemoveAt(o, k), i) = IF i < k - 1 THEN o[i + 1] ELSE NextOf(o, i + 1)
<1> DEFINE n == Len(o)
<1>0. n \in Nat /\ k \in 1 .. n
  OBVIOUS
<1> HIDE DEF n
<1>1. PICK r \in Seq(Cells) :
        /\ r = RemoveAt(o, k) /\ Len(r) = n - 1
        /\ \A i \in 1 .. n - 1 : r[i] = IF i < k THEN o[i] ELSE o[i + 1]
  BY RemoveFacts DEF n
<1>2. \A i, j \in 1 .. n : o[i] = o[j] => i = j
  BY DEF Distinct, n
<1>3. Distinct(r)
  <2>1. ASSUME NEW i \in 1 .. n - 1, NEW j \in 1 .. n - 1, r[i] = r[j] PROVE i = j
    <3>1. i \in 1 .. n /\ i + 1 \in 1 .. n /\ j \in 1 .. n /\ j + 1 \in 1 .. n
      BY <1>0
    <3>2. CASE i < k /\ j < k
      BY <1>1, <1>2, <2>1, <3>1, <3>2
    <3>3. CASE i < k /\ ~(j < k)
      BY <1>0, <1>1, <1>2, <2>1, <3>1, <3>3
    <3>4. CASE ~(i < k) /\ j < k
      BY <1>0, <1>1, <1>2, <2>1, <3>1, <3>4
    <3>5. CASE ~(i < k) /\ ~(j < k)
      <4>1. i + 1 = j + 1
        BY <1>1, <1>2, <2>1, <3>1, <3>5
      <4> QED
        BY <4>1
    <3> QED
      BY <3>2, <3>3, <3>4, <3>5
  <2> QED
    BY <1>1, <2>1 DEF Distinct
<1>4. \A i \in 1 .. n - 1 : r[i] \in Rules(o) \ {o[k]}
  <2>1. ASSUME NEW i \in 1 .. n - 1 PROVE r[i] \in Rules(o) \ {o[k]}
    <3>1. i \in 1 .. n /\ i + 1 \in 1 .. n
      BY <1>0
    <3>2. CASE i < k
      BY <1>0, <1>1, <1>2, <3>1, <3>2 DEF Rules, n
    <3>3. CASE ~(i < k)
      <4>1. r[i] = o[i + 1] /\ i + 1 # k
        BY <1>0, <1>1, <3>3
      <4> QED
        BY <1>0, <1>2, <3>1, <4>1 DEF Rules, n
    <3> QED
      BY <3>2, <3>3
  <2> QED
    BY <2>1
<1>5. \A i \in 1 .. n : i # k => o[i] \in Rules(r)
  <2>1. ASSUME NEW i \in 1 .. n, i # k PROVE o[i] \in Rules(r)
    <3>1. CASE i < k
      <4>1. i \in 1 .. n - 1 /\ o[i] = r[i]
        BY <1>0, <1>1, <3>1
      <4> QED
        BY <1>1, <4>1 DEF Rules
    <3>2. CASE ~(i < k)
      <4>1. i - 1 \in 1 .. n - 1 /\ ~(i - 1 < k) /\ (i - 1) + 1 = i
        BY <1>0, <2>1, <3>2
      <4>2. r[i - 1] = o[i]
        BY <1>1, <4>1
      <4> QED
        BY <1>1, <4>1, <4>2 DEF Rules
    <3> QED
      BY <3>1, <3>2
  <2> QED
    BY <2>1
<1>6. Rules(r) = Rules(o) \ {o[k]}
  <2>1. Rules(r) \subseteq Rules(o) \ {o[k]}
    BY <1>1, <1>4 DEF Rules
  <2>2. Rules(o) \ {o[k]} \subseteq Rules(r)
    BY <1>5 DEF Rules, n
  <2> QED
    BY <2>1, <2>2
<1>7. ASSUME NEW i \in 0 .. n - 1
      PROVE  NextOf(r, i) = IF i < k - 1 THEN o[i + 1] ELSE NextOf(o, i + 1)
  <2>1. CASE i < k - 1
    <3>1. i < n - 1 /\ i + 1 \in 1 .. n - 1 /\ i + 1 < k
      BY <1>0, <2>1
    <3> QED
      BY <1>1, <2>1, <3>1 DEF NextOf
  <2>2. CASE ~(i < k - 1) /\ i < n - 1
    <3>1. i + 1 \in 1 .. n - 1 /\ ~(i + 1 < k) /\ i + 1 < n
      BY <1>0, <2>2
    <3> QED
      BY <1>1, <2>2, <3>1 DEF NextOf, n
  <2>3. CASE ~(i < k - 1) /\ ~(i < n - 1)
    <3>1. ~(i + 1 < n)
      BY <1>0, <2>3
    <3> QED
      BY <1>1, <2>3, <3>1 DEF NextOf, n
  <2> QED
    BY <2>1, <2>2, <2>3
<1> QED
  BY <1>1, <1>3, <1>6, <1>7 DEF n

\* A list with one rule more; taking the rule out again gives the list.
LEMMA InsertedFacts ==
  ASSUME NEW o \in Seq(Cells), Distinct(o), NEW k \in 1 .. Len(o) + 1,
         NEW c \in Cells \ Rules(o)
  PROVE  /\ InsertAt(o, k, c) \in Seq(Cells) /\ Len(InsertAt(o, k, c)) = Len(o) + 1
         /\ Distinct(InsertAt(o, k, c)) /\ Rules(InsertAt(o, k, c)) = Rules(o) \cup {c}
         /\ InsertAt(o, k, c)[k] = c /\ RemoveAt(InsertAt(o, k, c), k) = o
<1> DEFINE n == Len(o)
<1>0. n \in Nat /\ k \in 1 .. n + 1 /\ c \in Cells /\ c \notin Rules(o)
  OBVIOUS
<1> HIDE DEF n
<1>1. PICK r \in Seq(Cells) :
        /\ r = InsertAt(o, k, c) /\ Len(r) = n + 1
        /\ \A i \in 1 .. n + 1 : r[i] = IF i < k THEN o[i] ELSE IF i = k THEN c ELSE o[i - 1]
  BY <1>0, InsertFacts DEF n
<1>2. /\ \A i, j \in 1 .. n : o[i] = o[j] => i = j
      /\ \A i \in 1 .. n : o[i] # c
  BY <1>0 DEF Distinct, Rules, n
<1>3. ASSUME NEW i \in 1 .. n + 1
      PROVE  \/ i < k /\ i \in 1 .. n /\ r[i] = o[i]
             \/ i = k /\ r[i] = c
             \/ i > k /\ i - 1 \in 1 .. n /\ r[i] = o[i - 1]
  <2>1. CASE i < k
    BY <1>0, <1>1, <2>1
  <2>2. CASE i = k
    BY <1>0, <1>1, <2>2
  <2>3. CASE i > k
    BY <1>0, <1>1, <2>3
  <2> QED
    BY <1>0, <2>1, <2>2, <2>3
<1>4. ASSUME NEW i \in 1 .. n + 1, NEW j \in 1 .. n + 1, r[i] = r[j], i < j PROVE FALSE
  <2>0. \/ j < k /\ j \in 1 .. n /\ r[j] = o[j]
        \/ j = k /\ r[j] = c
        \/ j > k /\ j - 1 \in 1 .. n /\ r[j] = o[j - 1]
    BY <1>3
  <2>1. CASE i < k /\ i \in 1 .. n /\ r[i] = o[i]
    <3>1. CASE j < k /\ j \in 1 .. n /\ r[j] = o[j]
      <4>1. i = j
        BY <1>2, <1>4, <2>1, <3>1
      <4> QED
        BY <1>0, <1>4, <4>1
    <3>2. CASE j = k /\ r[j] = c
      BY <1>2, <1>4, <2>1, <3>2
    <3>3. CASE j > k /\ j - 1 \in 1 .. n /\ r[j] = o[j - 1]
      <4>1. i = j - 1
        BY <1>2, <1>4, <2>1, <3>3
      <4> QED
        BY <1>0, <2>1, <3>3, <4>1
    <3> QED
      BY <2>0, <3>1, <3>2, <3>3
  <2>2. CASE i = k /\ r[i] = c
    BY <1>0, <1>2, <1>4, <2>0, <2>2
  <2>3. CASE i > k /\ i - 1 \in 1 .. n /\ r[i] = o[i - 1]
    <3>1. j > k /\ j - 1 \in 1 .. n /\ r[j] = o[j - 1]
      BY <1>0, <1>4, <2>0, <2>3
    <3>2. i - 1 = j - 1
      BY <1>2, <1>4, <2>3, <3>1
    <3> QED
      BY <1>4, <3>2
  <2> QED
    BY <1>3, <2>1, <2>2, <2>3
<1>5. Distinct(r)
  <2>1. ASSUME NEW i \in 1 .. n + 1, NEW j \in 1 .. n + 1, r[i] = r[j] PROVE i = j
    <3>1. i < j \/ j < i \/ i = j
      BY <1>0
    <3> QED
      BY <1>4, <2>1, <3>1
  <2> QED
    BY <1>1, <2>1 DEF Distinct
<1>6. r[k] = c /\ RemoveAt(r, k) = o
  <2>1. r[k] = c
    BY <1>0, <1>1
  <2>2. RemoveAt(InsertAt(o, k, c), k) = o
    BY <1>0, InsertRemoved DEF n
  <2> QED
    BY <1>1, <2>1, <2>2
<1>7. Rules(r) = Rules(o) \cup {c}
  <2>1. k \in 1 .. Len(r)
    BY <1>0, <1>1
  <2>2. Rules(RemoveAt(r, k)) = Rules(r) \ {r[k]}
    BY <1>5, <2>1, RestFacts
  <2> QED
    BY <1>6, <2>1, <2>2 DEF Rules
<1> QED
  BY <1>1, <1>5, <1>6, <1>7 DEF n

\* Linking a rule that points to its successor: one store.
LEMMA LinkFacts ==
  ASSUME NEW o \in Seq(Cells), Distinct(o), NEW k \in 1 .. Len(o), NEW first, NEW mem,
         Linked(RemoveAt(o, k), first, mem), mem[o[k]].next = NextOf(o, k),
         NEW first2, NEW mem2,
         k = 1 => first2 = o[1] /\ mem2 = mem,
         k > 1 => /\ first2 = first
                  /\ \A d \in Cells : mem2[d].next = IF d = o[k - 1] THEN o[k] ELSE mem[d].next
  PROVE  Linked(o, first2, mem2)
<1> DEFINE n == Len(o)
<1>0. n \in Nat /\ k \in 1 .. n /\ \A i \in 1 .. n : o[i] \in Cells
  OBVIOUS
<1> HIDE DEF n
<1>1. PICK r \in Seq(Cells) :
        /\ r = RemoveAt(o, k) /\ Len(r) = n - 1
        /\ \A i \in 1 .. n - 1 : r[i] = IF i < k THEN o[i] ELSE o[i + 1]
  BY RemoveFacts DEF n
<1>2. \A i \in 0 .. n - 1 : NextOf(r, i) = IF i < k - 1 THEN o[i + 1] ELSE NextOf(o, i + 1)
  BY <1>1, RestFacts DEF n
<1>3. first = NextOf(r, 0) /\ \A i \in 1 .. n - 1 : mem[r[i]].next = NextOf(r, i)
  BY <1>1 DEF Linked
<1>4. \A i, j \in 1 .. n : o[i] = o[j] => i = j
  BY DEF Distinct, n
<1>5. \A i \in 0 .. n - 1 : NextOf(o, i) = o[i + 1]
  BY <1>0 DEF NextOf, n
<1>6. first2 = NextOf(o, 0)
  <2>1. CASE k = 1
    BY <1>0, <1>5, <2>1
  <2>2. CASE k > 1
    BY <1>0, <1>2, <1>3, <1>5, <2>2
  <2> QED
    BY <1>0, <2>1, <2>2
<1>7. ASSUME NEW i \in 1 .. n, i < k - 1 PROVE mem[o[i]].next = o[i + 1]
  <2>1. i \in 1 .. n - 1 /\ i \in 0 .. n - 1 /\ i < k
    BY <1>0, <1>7
  <2>2. r[i] = o[i]
    BY <1>1, <2>1
  <2> QED
    BY <1>2, <1>3, <1>7, <2>1, <2>2
<1>8. ASSUME NEW i \in 1 .. n, i > k PROVE mem[o[i]].next = NextOf(o, i)
  <2>1. i - 1 \in 1 .. n - 1 /\ i - 1 \in 0 .. n - 1 /\ ~(i - 1 < k) /\ ~(i - 1 < k - 1)
        /\ (i - 1) + 1 = i
    BY <1>0, <1>8
  <2>2. r[i - 1] = o[i]
    BY <1>1, <2>1
  <2> QED
    BY <1>2, <1>3, <2>1, <2>2
<1>9. ASSUME NEW i \in 1 .. n PROVE mem2[o[i]].next = NextOf(o, i)
  <2>1. CASE k = 1
    <3>1. i = k \/ i > k
      BY <1>0, <2>1
    <3> QED
      BY <1>8, <2>1, <3>1
  <2>2. CASE k > 1
    <3>0. k - 1 \in 1 .. n
      BY <1>0, <2>2
    <3>1. mem2[o[i]].next = IF i = k - 1 THEN o[k] ELSE mem[o[i]].next
      BY <1>0, <1>4, <2>2, <3>0
    <3>2. CASE i = k - 1
      <4>1. i \in 0 .. n - 1 /\ i + 1 = k
        BY <1>0, <2>2, <3>2
      <4> QED
        BY <1>5, <3>1, <3>2, <4>1
    <3>3. CASE i < k - 1
      <4>1. i \in 0 .. n - 1 /\ i # k - 1
        BY <1>0, <3>3
      <4> QED
        BY <1>5, <1>7, <3>1, <3>3, <4>1
    <3>4. CASE i = k
      BY <1>0, <3>1, <3>4
    <3>5. CASE i > k
      BY <1>0, <1>8, <3>1, <3>5
    <3> QED
      BY <1>0, <3>2, <3>3, <3>4, <3>5
  <2> QED
    BY <1>0, <2>1, <2>2
<1> QED
  BY <1>6, <1>9 DEF Linked, n

-----------------------------------------------------------------------------
(* Types *)

Rule == [live : BOOLEAN, enabled : BOOLEAN, name : {"hit", "miss", "star"},
         filter : {"hit", "miss", "star", "null", "freed"},
         action : Actions, next : Cells \cup {None}]
Editors == [pc : {"idle", "clear", "scan", "free", "filter", "rest", "insert", "link"},
            rule : Cells \cup {None}, pos : Nat, new : Contents \cup {None}]
Checks == [pc : {"idle", "begin", "visit", "take", "next", "done"},
           at : Cells \cup {None}, wild : Cells \cup {None},
           verdict : Actions \cup {"none", "unruled", "freed", "null"},
           overlap : Overlaps, allowed : SUBSET Actions]

\* The types with names for the records.
LEMMA TypeFacts ==
  TypeOK <=> /\ cell \in [Cells -> Rule] /\ head \in Cells \cup {None}
             /\ hasActive \in BOOLEAN /\ editor \in Editors /\ matcher \in Checks
             /\ order \in Seq(Cells)
BY DEF TypeOK, Rule, Editors, Checks

\* NULL is no rule.
LEMMA OrderFacts ==
  ASSUME NEW o \in Seq(Cells)
  PROVE  /\ Len(o) \in Nat /\ Rules(o) \subseteq Cells /\ None \notin Rules(o)
         /\ \A i \in 1 .. Len(o) : o[i] \in Cells /\ o[i] \in Rules(o) /\ o[i] # None
BY RuleConstants DEF Rules

\* The records the two threads start from have their types.
LEMMA IdleFacts ==
  /\ NoEdit \in Editors /\ NoEdit.pc = "idle"
  /\ [NoEdit EXCEPT !.pc = "clear"] \in Editors /\ [NoEdit EXCEPT !.pc = "clear"].pc = "clear"
  /\ NoCheck \in Checks /\ NoCheck.pc = "idle" /\ NoCheck.at = None /\ NoCheck.wild = None
  /\ NoCheck.verdict = "none"
  /\ Free \in Rule /\ ~Free.live /\ ~Free.enabled /\ Free.next = None
BY RuleConstants DEF NoEdit, Editors, NoCheck, Checks, Free, Rule, Overlaps, Actions

\* The best rule of a list is one of the list.
LEMMA VerdictFacts ==
  ASSUME NEW o \in Seq(Cells), NEW mem \in [Cells -> Rule]
  PROVE  Best(o, mem) \in 0 .. Len(o) /\ VerdictOf(o, mem) \in Actions
<1> DEFINE S == {i \in 1 .. Len(o) : mem[o[i]].enabled /\ Specific(mem[o[i]])}
           W == {i \in 1 .. Len(o) : mem[o[i]].enabled /\ Wildcard(mem[o[i]])}
<1>1. S \subseteq Nat /\ W \subseteq Nat /\ S \subseteq 1 .. Len(o) /\ W \subseteq 1 .. Len(o)
  OBVIOUS
<1>2. Best(o, mem) = IF S # {} THEN Min(S) ELSE IF W # {} THEN Min(W) ELSE 0
  BY DEF Best
<1> HIDE DEF S, W
<1>3. (S # {} => Min(S) \in S) /\ (W # {} => Min(W) \in W)
  BY <1>1, MinFacts
<1>4. Best(o, mem) \in 0 .. Len(o)
  <2>1. Len(o) \in Nat
    BY OrderFacts
  <2>2. 1 .. Len(o) \subseteq 0 .. Len(o) /\ 0 \in 0 .. Len(o)
    BY <2>1
  <2>3. Best(o, mem) \in S \cup W \cup {0}
    BY <1>2, <1>3
  <2> QED
    BY <1>1, <2>2, <2>3
<1>5. VerdictOf(o, mem) \in Actions
  <2>1. CASE Best(o, mem) = 0
    BY <2>1 DEF VerdictOf, Actions
  <2>2. CASE Best(o, mem) # 0
    <3>1. Best(o, mem) \in 1 .. Len(o)
      BY <1>4, <2>2, OrderFacts
    <3>2. mem[o[Best(o, mem)]] \in Rule
      BY <3>1, OrderFacts
    <3> QED
      BY <2>2, <3>2 DEF VerdictOf, Rule
  <2> QED
    BY <2>1, <2>2
<1> QED
  BY <1>4, <1>5

\* An edit changes what the check knows of edits, and nothing else of the check.
LEMMA OverlapFacts ==
  ASSUME matcher \in Checks, NEW kind \in {"adds", "update", "moves", "frees"}, Overlapped(kind),
         cell' \in [Cells -> Rule], order' \in Seq(Cells)
  PROVE  /\ matcher' \in Checks
         /\ matcher.pc \in {"idle", "done"} => matcher' = matcher
         /\ UNCHANGED <<matcher.pc, matcher.at, matcher.wild, matcher.verdict>>
         /\ matcher.pc \notin {"idle", "done"} =>
              /\ matcher'.overlap = Worse(matcher.overlap, kind)
              /\ matcher'.allowed =
                   IF Worse(matcher.overlap, kind) \in {"adds", "update"}
                   THEN matcher.allowed \cup {VerdictOf(order', cell')} ELSE {}
<1>1. CASE matcher.pc \in {"idle", "done"}
  BY <1>1 DEF Overlapped
<1>2. CASE matcher.pc \notin {"idle", "done"}
  <2> DEFINE now == Worse(matcher.overlap, kind)
             may == IF now \in {"adds", "update"}
                    THEN matcher.allowed \cup {VerdictOf(order', cell')} ELSE {}
  <2>1. matcher' = [matcher EXCEPT !.overlap = now, !.allowed = may]
    BY <1>2 DEF Overlapped
  <2>2. now \in Overlaps
    BY DEF Worse, Overlaps, Checks
  <2>3. may \subseteq Actions
    BY VerdictFacts DEF Checks
  <2> HIDE DEF now, may
  <2>4. /\ matcher' \in Checks
        /\ matcher'.pc = matcher.pc /\ matcher'.at = matcher.at /\ matcher'.wild = matcher.wild
        /\ matcher'.verdict = matcher.verdict
        /\ matcher'.overlap = now /\ matcher'.allowed = may
    BY <2>1, <2>2, <2>3 DEF Checks
  <2> QED
    BY <1>2, <2>4 DEF now, may
<1> QED
  BY <1>1, <1>2

-----------------------------------------------------------------------------
(* The pointers form the list the user sees, less the rule being moved *)

\* A move is between its stores.
Moving == editor.pc \in {"insert", "link"}

\* A move that appends has done its first store: only the end of the list is open.
HalfAppended == editor.pc = "link" /\ editor.pos = 0

\* The place of the rule being moved in the list the user sees.
Spot == IF editor.pos > Len(order) THEN Len(order) ELSE editor.pos

\* The rule being moved is out of the list; linked once more it will point to
\* its successor.
TakenOut ==
  /\ Spot \in 1 .. Len(order) /\ order[Spot] = editor.rule
  /\ Linked(RemoveAt(order, Spot), head, cell)
  /\ editor.pc = "insert" /\ editor.pos > Len(order) => Len(order) > 1
  /\ editor.pc = "link" =>
       editor.pos <= Len(order) /\ cell[editor.rule].next = NextOf(order, editor.pos)

\* It is the last one of the list and points anywhere.
OpenEnded ==
  /\ Len(order) > 1 /\ order[Len(order)] = editor.rule
  /\ head = order[1] /\ \A i \in 1 .. Len(order) - 1 : cell[order[i]].next = order[i + 1]

\* What links the pointers, the memory and the editor to the list the user sees.
ListInv ==
  /\ Distinct(order)
  /\ \A c \in Cells :
       cell[c].live <=> c \in Rules(order) \/ (editor.pc = "free" /\ c = editor.rule)
  /\ editor.pc = "free" => editor.rule \in Cells \ Rules(order)
  /\ editor.pc \in {"filter", "rest"} => editor.rule \in Rules(order) /\ editor.new \in Contents
  /\ ~Moving => Linked(order, head, cell)
  /\ Moving => /\ editor.rule \in Rules(order)
               /\ cell[editor.rule].next \in Rules(order) \cup {None}
               /\ IF HalfAppended THEN OpenEnded ELSE TakenOut

\* What following the pointers finds while nothing is being moved.
LEMMA StillFacts ==
  ASSUME TypeOK, ListInv, ~Moving
  PROVE  /\ Distinct(order) /\ Linked(order, head, cell)
         /\ Length = Len(order) /\ Listed = Rules(order)
         /\ \A i \in 1 .. Len(order) : Node[i] = order[i]
         /\ head = None <=> order = <<>>
BY ListedIs, TypeFacts DEF ListInv

\* A step that leaves the pointers alone.
LEMMA KeptInv ==
  ASSUME TypeOK, ListInv, ~Moving, editor.pc # "free",
         UNCHANGED <<order, head>>,
         \A c \in Cells : cell'[c].next = cell[c].next /\ cell'[c].live = cell[c].live,
         editor'.pc \notin {"free", "insert", "link"},
         editor'.pc \in {"filter", "rest"} =>
           editor'.rule \in Rules(order) /\ editor'.new \in Contents
  PROVE  ListInv'
<1>1. Linked(order, head, cell)'
  BY StillFacts, TypeFacts, OrderFacts DEF Linked
<1> QED
  BY <1>1 DEF ListInv, Moving

\* A rule found in the list is taken out of it.
LEMMA WithoutFacts ==
  ASSUME order \in Seq(Cells), Distinct(order), NEW i \in 1 .. Len(order)
  PROVE  Without(order[i]) = RemoveAt(order, i)
<1> DEFINE T == {j \in 1 .. Len(order) : order[j] = order[i]}
<1>1. T = {i}
  BY DEF Distinct
<1>2. SelectInSeq(order, LAMBDA v : v = order[i]) = i
  <2>1. SelectInSeq(order, LAMBDA v : v = order[i]) = IF T # {} THEN Min(T) ELSE 0
    BY DEF SelectInSeq
  <2>2. Min(T) = i
    BY <1>1, MinFacts
  <2> QED
    BY <1>1, <2>1, <2>2
<1> QED
  BY <1>2 DEF Without, RemoveFirst

\* Storing the successor into the pointer to a rule takes it out of the list,
\* and nothing else changes (ProxyBridge_DeleteRule).
LEMMA RelinkFacts ==
  ASSUME TypeOK, ListInv, ~Moving, NEW i \in 1 .. Len(order),
         Relink(order[i], cell[order[i]].next)
  PROVE  /\ cell' \in [Cells -> Rule] /\ head' \in Cells \cup {None}
         /\ Linked(RemoveAt(order, i), head', cell')
         /\ cell'[order[i]].next = cell[order[i]].next
         /\ \A d \in Cells : /\ cell'[d].live = cell[d].live /\ cell'[d].enabled = cell[d].enabled
                             /\ cell'[d].name = cell[d].name /\ cell'[d].filter = cell[d].filter
                             /\ cell'[d].action = cell[d].action
<1> DEFINE n == Len(order)
           c == order[i]
           to == cell[c].next
<1>0. n \in Nat /\ i \in 1 .. n
  BY TypeFacts, OrderFacts
<1>1. /\ cell \in [Cells -> Rule] /\ head \in Cells \cup {None} /\ c \in Cells
      /\ to \in Cells \cup {None} /\ c # None
  BY TypeFacts, OrderFacts DEF Rule
<1>2. /\ Listed = Rules(order)
      /\ \A j \in 1 .. n : order[j] \in Cells /\ order[j] \in Rules(order)
      /\ \A j, k \in 1 .. n : order[j] = order[k] => j = k
      /\ head = NextOf(order, 0) /\ \A j \in 1 .. n : cell[order[j]].next = NextOf(order, j)
  BY StillFacts, TypeFacts, OrderFacts DEF Distinct, Linked
<1>3. to = NextOf(order, i)
  BY <1>2
<1>4. Relink(c, to)
  OBVIOUS
<1> HIDE DEF c, to, n
<1>5. PICK r \in Seq(Cells) :
        /\ r = RemoveAt(order, i) /\ Len(r) = n - 1
        /\ \A j \in 1 .. n - 1 : r[j] = IF j < i THEN order[j] ELSE order[j + 1]
        /\ \A j \in 0 .. n - 1 : NextOf(r, j) = IF j < i - 1 THEN order[j + 1] ELSE NextOf(order, j + 1)
  BY TypeFacts, RemoveFacts, RestFacts, StillFacts DEF n
<1>6. \A j \in 0 .. n - 1 : NextOf(order, j) = order[j + 1]
  BY <1>0 DEF NextOf, n
<1>7. head = order[1] /\ 0 \in 0 .. n - 1 /\ 1 \in 1 .. n
  <2>1. 0 \in 0 .. n - 1 /\ 1 \in 1 .. n
    BY <1>0
  <2>2. NextOf(order, 0) = order[0 + 1]
    BY <1>6, <2>1
  <2> QED
    BY <1>2, <2>1, <2>2
<1>8. CASE head = c
  <2>1. head' = to /\ cell' = cell
    BY <1>4, <1>8 DEF Relink
  <2>2. i = 1
    BY <1>0, <1>2, <1>7, <1>8 DEF c
  <2>3. head' = NextOf(r, 0)
    BY <1>0, <1>3, <1>5, <2>1, <2>2
  <2>4. ASSUME NEW j \in 1 .. n - 1 PROVE cell'[r[j]].next = NextOf(r, j)
    <3>1. j + 1 \in 1 .. n /\ r[j] = order[j + 1] /\ NextOf(r, j) = NextOf(order, j + 1)
      BY <1>0, <1>5, <2>2
    <3> QED
      BY <1>2, <2>1, <3>1
  <2> QED
    BY <1>1, <1>5, <2>1, <2>3, <2>4 DEF Linked, c
<1>9. CASE head # c
  <2>1. /\ head' = head
        /\ cell' = [d \in Cells |-> IF d \in Listed /\ cell[d].next = c
                                    THEN [cell[d] EXCEPT !.next = to] ELSE cell[d]]
    BY <1>4, <1>9 DEF Relink
  <2>2. ASSUME NEW d \in Cells
        PROVE  /\ cell'[d] \in Rule
               /\ cell'[d].next = IF d \in Listed /\ cell[d].next = c THEN to ELSE cell[d].next
               /\ cell'[d].live = cell[d].live /\ cell'[d].enabled = cell[d].enabled
               /\ cell'[d].name = cell[d].name /\ cell'[d].filter = cell[d].filter
               /\ cell'[d].action = cell[d].action
    <3>1. cell[d] \in Rule
      BY <1>1
    <3>2. cell'[d] = IF d \in Listed /\ cell[d].next = c
                     THEN [cell[d] EXCEPT !.next = to] ELSE cell[d]
      BY <2>1
    <3>3. [cell[d] EXCEPT !.next = to] \in Rule
      BY <1>1, <3>1 DEF Rule
    <3> QED
      BY <3>1, <3>2, <3>3 DEF Rule
  <2>3. cell' \in [Cells -> Rule]
    BY <2>1, <2>2
  <2>4. i > 1
    BY <1>0, <1>7, <1>9 DEF c
  <2>5. \A j \in 1 .. n : NextOf(order, j) = c => j = i - 1
    <3>1. ASSUME NEW j \in 1 .. n, NextOf(order, j) = c PROVE j = i - 1
      <4>1. CASE j < n
        <5>1. j \in 0 .. n - 1 /\ j + 1 \in 1 .. n
          BY <1>0, <4>1
        <5>2. j + 1 = i
          BY <1>0, <1>2, <1>6, <3>1, <5>1 DEF c
        <5> QED
          BY <5>2
      <4>2. CASE ~(j < n)
        BY <1>1, <3>1, <4>2 DEF NextOf, n
      <4> QED
        BY <4>1, <4>2
    <3> QED
      BY <3>1
  <2>6. cell'[c].next = to
    BY <1>0, <1>1, <1>3, <2>2, <2>5 DEF to
  <2>7. head' = NextOf(r, 0)
    <3>1. 0 < i - 1
      BY <1>0, <2>4
    <3>2. NextOf(r, 0) = order[0 + 1]
      BY <1>5, <1>7, <3>1
    <3> QED
      BY <1>7, <2>1, <3>2
  <2>8. ASSUME NEW j \in 1 .. n - 1 PROVE cell'[r[j]].next = NextOf(r, j)
    <3>1. CASE j < i - 1
      <4>1. j \in 1 .. n /\ j \in 0 .. n - 1 /\ j < i /\ j # i - 1
        BY <1>0, <3>1
      <4>2. r[j] = order[j] /\ NextOf(r, j) = NextOf(order, j)
        BY <1>5, <1>6, <3>1, <4>1
      <4>3. cell'[order[j]].next = cell[order[j]].next
        BY <1>2, <2>2, <2>5, <4>1
      <4> QED
        BY <1>2, <4>1, <4>2, <4>3
    <3>2. CASE j = i - 1
      <4>1. j \in 1 .. n /\ j \in 0 .. n - 1 /\ j < i /\ j + 1 = i
        BY <1>0, <3>2
      <4>2. r[j] = order[j] /\ NextOf(r, j) = to /\ NextOf(order, j) = c
        BY <1>3, <1>5, <1>6, <3>2, <4>1 DEF c
      <4> QED
        BY <1>2, <2>2, <4>1, <4>2
    <3>3. CASE j > i - 1
      <4>1. j + 1 \in 1 .. n /\ ~(j < i) /\ ~(j < i - 1) /\ j + 1 # i - 1 /\ j \in 0 .. n - 1
        BY <1>0, <3>3
      <4>2. r[j] = order[j + 1] /\ NextOf(r, j) = NextOf(order, j + 1)
        BY <1>5, <4>1
      <4>3. cell'[order[j + 1]].next = cell[order[j + 1]].next
        BY <1>2, <2>2, <2>5, <4>1
      <4> QED
        BY <1>2, <4>1, <4>2, <4>3
    <3> QED
      BY <1>0, <3>1, <3>2, <3>3
  <2>9. Linked(r, head', cell')
    BY <1>5, <2>7, <2>8 DEF Linked
  <2> QED
    BY <1>1, <1>5, <2>1, <2>2, <2>3, <2>6, <2>9 DEF c, to
<1> QED
  BY <1>8, <1>9

-----------------------------------------------------------------------------
(* One lemma per edit *)

\* What is written of a rule other than its pointer is kept.
SameRule(d) ==
  /\ cell'[d].live = cell[d].live /\ cell'[d].enabled = cell[d].enabled
  /\ cell'[d].name = cell[d].name /\ cell'[d].filter = cell[d].filter
  /\ cell'[d].action = cell[d].action

\* A new rule stands behind the last one.
LEMMA AddFacts ==
  ASSUME TypeOK, ListInv, AddRule
  PROVE  /\ TypeOK' /\ ListInv' /\ editor.pc = "idle" /\ editor'.pc = "clear"
         /\ hasActive' = hasActive /\ Overlapped("adds")
         /\ \E c \in Cells \ Rules(order) :
              /\ order' = Append(order, c) /\ cell'[c].filter # "freed"
              /\ \A d \in Cells \ {c} : SameRule(d)
<1> DEFINE n == Len(order)
<1>1. PICK c \in Cells, x \in Contents :
        LET rule == [live |-> TRUE, enabled |-> TRUE, name |-> x.name, filter |-> x.filter,
                     action |-> x.action, next |-> None]
        IN  /\ ~cell[c].live
            /\ IF head = None
               THEN head' = c /\ cell' = [cell EXCEPT ![c] = rule]
               ELSE /\ head' = head
                    /\ cell' = [cell EXCEPT ![c] = rule, ![Node[Length]].next = c]
            /\ order' = Append(order, c)
  BY DEF AddRule
<1> DEFINE rule == [live |-> TRUE, enabled |-> TRUE, name |-> x.name, filter |-> x.filter,
                    action |-> x.action, next |-> None]
           last == order[n]
<1>2. /\ editor.pc = "idle" /\ editor' = [NoEdit EXCEPT !.pc = "clear"] /\ ~Moving
      /\ Overlapped("adds") /\ hasActive' = hasActive
  BY DEF AddRule, Moving
<1>3. /\ cell \in [Cells -> Rule] /\ head \in Cells \cup {None} /\ order \in Seq(Cells)
      /\ n \in Nat /\ \A i \in 1 .. n : order[i] \in Cells /\ order[i] # None
      /\ Rules(order) \subseteq Cells
  BY TypeFacts, OrderFacts
<1>4. /\ Distinct(order) /\ Length = n /\ \A i \in 1 .. n : Node[i] = order[i]
      /\ head = None <=> n = 0
      /\ head = NextOf(order, 0) /\ \A i \in 1 .. n : cell[order[i]].next = NextOf(order, i)
  <2>1. order = <<>> <=> n = 0
    BY <1>3
  <2> QED
    BY <1>2, <2>1, StillFacts DEF Linked
<1>5. c \in Cells \ Rules(order)
  BY <1>1, <1>2, <1>3 DEF ListInv
<1>6. rule \in Rule /\ rule.filter # "freed" /\ rule.live /\ rule.next = None
  BY RuleConstants DEF Rule
<1> HIDE DEF rule, n
<1>7. /\ order' \in Seq(Cells) /\ Len(order') = n + 1 /\ order'[n + 1] = c
      /\ \A i \in 1 .. n : order'[i] = order[i]
  BY <1>1, <1>3, AppendProperties DEF n
<1>8. /\ cell' \in [Cells -> Rule] /\ head' \in Cells \cup {None}
      /\ cell'[c] = rule
      /\ \A d \in Cells \ {c} : /\ SameRule(d)
                                /\ cell'[d].next = IF n > 0 /\ d = last THEN c ELSE cell[d].next
      /\ head' = IF n = 0 THEN c ELSE head
  <2>1. CASE head = None
    <3>1. head' = c /\ cell' = [cell EXCEPT ![c] = rule] /\ n = 0
      BY <1>1, <1>4, <2>1 DEF rule
    <3> QED
      BY <1>3, <1>5, <1>6, <3>1 DEF SameRule
  <2>2. CASE head # None
    <3>1. n > 0 /\ Node[Length] = last /\ last \in Cells /\ last # c
      BY <1>3, <1>4, <1>5, <2>2 DEF Rules, n
    <3>2. /\ head' = head
          /\ cell' = [cell EXCEPT ![c] = rule, ![last].next = c]
      BY <1>1, <2>2, <3>1 DEF rule
    <3> HIDE DEF last
    <3>3. cell'[c] = rule /\ cell'[last] = [cell[last] EXCEPT !.next = c]
      BY <1>3, <1>5, <3>1, <3>2
    <3>4. \A d \in Cells \ {c, last} : cell'[d] = cell[d]
      BY <1>3, <3>2
    <3>5. [cell[last] EXCEPT !.next = c] \in Rule
      BY <1>3, <1>5, <3>1 DEF Rule
    <3>6. cell' \in [Cells -> Rule]
      <4>1. \A d \in Cells : cell'[d] \in Rule
        BY <1>3, <1>6, <3>3, <3>4, <3>5
      <4> QED
        BY <1>3, <3>2, <4>1
    <3>7. cell[last] \in Rule
      BY <1>3, <3>1
    <3>8. SameRule(last) /\ cell'[last].next = c
      BY <3>3, <3>7 DEF SameRule, Rule
    <3>9. \A d \in Cells \ {c, last} : SameRule(d) /\ cell'[d].next = cell[d].next
      BY <3>4 DEF SameRule
    <3> QED
      BY <1>3, <1>4, <3>1, <3>2, <3>3, <3>6, <3>8, <3>9
  <2> QED
    BY <2>1, <2>2
<1>9. Distinct(order')
  <2>1. ASSUME NEW i \in 1 .. n, NEW j \in 1 .. n, order'[i] = order'[j] PROVE i = j
    BY <1>4, <1>7, <2>1 DEF Distinct, n
  <2>2. ASSUME NEW i \in 1 .. n PROVE order'[i] # c
    BY <1>5, <1>7 DEF Rules, n
  <2>3. \A i \in 1 .. n + 1 : i \in 1 .. n \/ i = n + 1
    BY <1>3 DEF n
  <2> QED
    BY <1>7, <2>1, <2>2, <2>3 DEF Distinct
<1>10. Rules(order') = Rules(order) \cup {c}
  <2>1. \A i \in 1 .. n + 1 : i \in 1 .. n \/ i = n + 1
    BY <1>3 DEF n
  <2>2. 1 .. n \subseteq 1 .. n + 1 /\ n + 1 \in 1 .. n + 1
    BY <1>3 DEF n
  <2> QED
    BY <1>7, <2>1, <2>2 DEF Rules, n
<1>11. Linked(order', head', cell')
  <2>1. \A i \in 1 .. n - 1 : NextOf(order', i) = NextOf(order, i)
    <3>1. ASSUME NEW i \in 1 .. n - 1 PROVE NextOf(order', i) = NextOf(order, i)
      <4>1. i < n + 1 /\ i < n /\ i + 1 \in 1 .. n
        BY <1>3 DEF n
      <4> QED
        BY <1>7, <4>1 DEF NextOf, n
    <3> QED
      BY <3>1
  <2>2. NextOf(order', n) = c /\ NextOf(order', n + 1) = None
    BY <1>3, <1>7 DEF NextOf, n
  <2>3. head' = NextOf(order', 0)
    <3>1. CASE n = 0
      BY <1>8, <2>2, <3>1
    <3>2. CASE n # 0
      <4>1. 0 < n + 1 /\ 0 < n /\ 0 + 1 \in 1 .. n
        BY <1>3, <3>2 DEF n
      <4>2. NextOf(order', 0) = order[0 + 1] /\ NextOf(order, 0) = order[0 + 1]
        BY <1>7, <4>1 DEF NextOf, n
      <4> QED
        BY <1>4, <1>8, <3>2, <4>2
    <3> QED
      BY <3>1, <3>2
  <2>4. ASSUME NEW i \in 1 .. n + 1 PROVE cell'[order'[i]].next = NextOf(order', i)
    <3>1. CASE i = n + 1
      BY <1>6, <1>7, <1>8, <2>2, <3>1
    <3>2. CASE i = n /\ n > 0
      <4>1. i \in 1 .. n /\ order'[i] = last /\ last \in Cells \ {c}
        BY <1>3, <1>5, <1>7, <3>2 DEF Rules, n
      <4> QED
        BY <1>8, <2>2, <3>2, <4>1
    <3>3. CASE i < n
      <4>1. i \in 1 .. n /\ i \in 1 .. n - 1 /\ n \in 1 .. n /\ i # n
        BY <1>3, <3>3 DEF n
      <4>2. order'[i] = order[i] /\ order[i] # last /\ order[i] \in Cells \ {c}
        BY <1>3, <1>4, <1>5, <1>7, <4>1 DEF Distinct, Rules, n
      <4>3. cell'[order[i]].next = cell[order[i]].next
        BY <1>8, <4>2
      <4> QED
        BY <1>4, <2>1, <4>1, <4>2, <4>3
    <3> QED
      BY <1>3, <3>1, <3>2, <3>3 DEF n
  <2> QED
    BY <1>7, <2>3, <2>4 DEF Linked
<1>12. ListInv'
  <2>1. editor'.pc = "clear"
    BY <1>2, IdleFacts
  <2>2. \A d \in Cells : cell[d].live <=> d \in Rules(order)
    BY <1>2 DEF ListInv
  <2>3. \A d \in Cells : cell'[d].live <=> d \in Rules(order')
    BY <1>5, <1>6, <1>8, <1>10, <2>2 DEF SameRule
  <2> QED
    BY <1>9, <1>11, <2>1, <2>3 DEF ListInv, Moving
<1>13. TypeOK'
  <2>1. matcher' \in Checks
    BY <1>2, <1>7, <1>8, OverlapFacts, TypeFacts
  <2> QED
    BY <1>2, <1>7, <1>8, <2>1, TypeFacts, IdleFacts DEF TypeOK, Rule, Editors, Checks
<1> QED
  BY <1>1, <1>2, <1>5, <1>6, <1>8, <1>12, <1>13, IdleFacts

\* Typed variables make TypeOK of the next state.
LEMMA TypeStep ==
  ASSUME cell' \in [Cells -> Rule], head' \in Cells \cup {None}, hasActive' \in BOOLEAN,
         editor' \in Editors, matcher' \in Checks, order' \in Seq(Cells)
  PROVE  TypeOK'
BY DEF TypeOK, Rule, Editors, Checks

\* A rule of the list is switched: nothing else of it changes.
LEMMA SwitchFacts ==
  ASSUME TypeOK, ListInv, EnableRule \/ DisableRule
  PROVE  /\ TypeOK' /\ ListInv' /\ editor.pc = "idle" /\ editor'.pc = "clear"
         /\ UNCHANGED <<hasActive, order>> /\ Overlapped("update")
         /\ \E c \in Rules(order), b \in BOOLEAN : cell' = [cell EXCEPT ![c].enabled = b]
<1>1. /\ editor.pc = "idle" /\ editor' = [NoEdit EXCEPT !.pc = "clear"]
      /\ UNCHANGED <<head, hasActive, order>> /\ Overlapped("update") /\ ~Moving
  BY DEF EnableRule, DisableRule, Moving
<1>2. PICK c \in Rules(order), b \in BOOLEAN : cell' = [cell EXCEPT ![c].enabled = b]
  BY <1>1, StillFacts DEF EnableRule, DisableRule
<1>3. cell \in [Cells -> Rule] /\ order \in Seq(Cells) /\ c \in Cells
  BY TypeFacts, OrderFacts
<1>4. cell[c] \in Rule /\ [cell[c] EXCEPT !.enabled = b] \in Rule
  BY <1>3 DEF Rule
<1>5. /\ cell' \in [Cells -> Rule]
      /\ \A d \in Cells : cell'[d].next = cell[d].next /\ cell'[d].live = cell[d].live
  <2>1. cell'[c] = [cell[c] EXCEPT !.enabled = b] /\ \A d \in Cells \ {c} : cell'[d] = cell[d]
    BY <1>2, <1>3
  <2> QED
    BY <1>2, <1>3, <1>4, <2>1 DEF Rule
<1>6. ListInv'
  BY <1>1, <1>5, KeptInv, IdleFacts
<1>7. matcher' \in Checks
  BY <1>1, <1>3, <1>5, OverlapFacts, TypeFacts
<1> QED
  BY <1>1, <1>2, <1>5, <1>6, <1>7, TypeStep, TypeFacts, IdleFacts

\* The full cone of a rule of the list is switched.
LEMMA ConeFacts ==
  ASSUME TypeOK, ListInv, SetRuleFullCone
  PROVE  /\ TypeOK' /\ ListInv' /\ editor.pc = "idle" /\ editor' = editor
         /\ UNCHANGED <<hasActive, order>> /\ Overlapped("update")
         /\ \E c \in Rules(order), a \in Actions : cell' = [cell EXCEPT ![c].action = a]
<1>1. /\ editor.pc = "idle" /\ editor' = editor
      /\ UNCHANGED <<head, hasActive, order>> /\ Overlapped("update") /\ ~Moving
  BY DEF SetRuleFullCone, Moving
<1>2. PICK c \in Rules(order), a \in Actions : cell' = [cell EXCEPT ![c].action = a]
  BY <1>1, StillFacts DEF SetRuleFullCone, Actions
<1>3. cell \in [Cells -> Rule] /\ order \in Seq(Cells) /\ c \in Cells
  BY TypeFacts, OrderFacts
<1>4. cell[c] \in Rule /\ [cell[c] EXCEPT !.action = a] \in Rule
  BY <1>3 DEF Rule
<1>5. /\ cell' \in [Cells -> Rule]
      /\ \A d \in Cells : cell'[d].next = cell[d].next /\ cell'[d].live = cell[d].live
  <2>1. cell'[c] = [cell[c] EXCEPT !.action = a] /\ \A d \in Cells \ {c} : cell'[d] = cell[d]
    BY <1>2, <1>3
  <2> QED
    BY <1>2, <1>3, <1>4, <2>1 DEF Rule
<1>6. ListInv'
  BY <1>1, <1>5, KeptInv
<1>7. matcher' \in Checks
  BY <1>1, <1>3, <1>5, OverlapFacts, TypeFacts
<1> QED
  BY <1>1, <1>2, <1>5, <1>6, <1>7, TypeStep, TypeFacts

\* The flag is computed anew; it is right afterwards.
LEMMA FlagFacts ==
  ASSUME TypeOK, ListInv, FlagClear \/ FlagScan
  PROVE  /\ TypeOK' /\ ListInv' /\ editor.pc \in {"clear", "scan"} /\ editor'.pc \in {"scan", "idle"}
         /\ UNCHANGED <<cell, head, order, matcher>>
         /\ editor'.pc = "idle" => hasActive' = \E c \in Rules(order) : cell[c].enabled
<1>1. ~Moving /\ editor.pc \in {"clear", "scan"} /\ UNCHANGED <<cell, head, order, matcher>>
  BY DEF FlagClear, FlagScan, Moving
<1>2. editor' \in Editors /\ editor'.pc \in {"scan", "idle"} /\ hasActive' \in BOOLEAN
  <2>1. CASE FlagClear
    BY <2>1, TypeFacts DEF FlagClear, Editors
  <2>2. CASE FlagScan
    BY <2>2, IdleFacts DEF FlagScan
  <2> QED
    BY <2>1, <2>2
<1>3. editor'.pc = "idle" => hasActive' = \E c \in Rules(order) : cell[c].enabled
  <2>1. CASE FlagClear
    BY <2>1, TypeFacts DEF FlagClear, Editors
  <2>2. CASE FlagScan
    BY <1>1, <2>2, StillFacts DEF FlagScan
  <2> QED
    BY <2>1, <2>2
<1>4. ListInv'
  BY <1>1, <1>2, KeptInv
<1> QED
  BY <1>1, <1>2, <1>3, <1>4, TypeStep, TypeFacts

\* A rule is taken out of the list, and not freed yet.
LEMMA DeleteFacts ==
  ASSUME TypeOK, ListInv, DeleteRule
  PROVE  /\ TypeOK' /\ ListInv' /\ editor.pc = "idle" /\ editor'.pc = "free"
         /\ hasActive' = hasActive /\ Overlapped("frees")
         /\ Rules(order') \subseteq Rules(order) /\ \A d \in Cells : SameRule(d)
<1>1. editor.pc = "idle" /\ ~Moving /\ Overlapped("frees") /\ hasActive' = hasActive
  BY DEF DeleteRule, Moving
<1>2. PICK c \in Rules(order) :
        /\ Relink(c, cell[c].next) /\ order' = Without(c)
        /\ editor' = [NoEdit EXCEPT !.pc = "free", !.rule = c]
  BY <1>1, StillFacts DEF DeleteRule
<1>3. PICK i \in 1 .. Len(order) : c = order[i]
  BY DEF Rules
<1>4. /\ order \in Seq(Cells) /\ c \in Cells /\ cell \in [Cells -> Rule] /\ Distinct(order)
  BY TypeFacts, OrderFacts DEF ListInv
<1>5. /\ order' = RemoveAt(order, i) /\ order' \in Seq(Cells)
      /\ Distinct(order') /\ Rules(order') = Rules(order) \ {c}
  BY <1>2, <1>3, <1>4, WithoutFacts, RemoveFacts, RestFacts
<1>6. /\ cell' \in [Cells -> Rule] /\ head' \in Cells \cup {None}
      /\ Linked(order', head', cell') /\ \A d \in Cells : SameRule(d)
  BY <1>1, <1>2, <1>3, <1>5, RelinkFacts DEF SameRule
<1>7. editor' \in Editors /\ editor'.pc = "free" /\ editor'.rule = c
  BY <1>2, <1>4 DEF NoEdit, Editors
<1>8. ListInv'
  BY <1>1, <1>4, <1>5, <1>6, <1>7 DEF ListInv, Moving, SameRule
<1>9. matcher' \in Checks
  BY <1>1, <1>5, <1>6, OverlapFacts, TypeFacts
<1> QED
  BY <1>1, <1>5, <1>6, <1>7, <1>8, <1>9, TypeStep, TypeFacts

\* The rule that was taken out is freed; no rule of the list changes.
LEMMA FreeFacts ==
  ASSUME TypeOK, ListInv, FreeRule
  PROVE  /\ TypeOK' /\ ListInv' /\ editor.pc = "free" /\ editor'.pc = "clear"
         /\ UNCHANGED <<head, hasActive, order, matcher>>
         /\ \A d \in Rules(order) : cell'[d] = cell[d]
<1>1. /\ editor.pc = "free" /\ ~Moving /\ editor' = [NoEdit EXCEPT !.pc = "clear"]
      /\ UNCHANGED <<head, hasActive, order, matcher>>
      /\ cell' = [cell EXCEPT ![editor.rule] = Free]
  BY DEF FreeRule, Moving
<1>2. /\ cell \in [Cells -> Rule] /\ order \in Seq(Cells) /\ Rules(order) \subseteq Cells
      /\ editor.rule \in Cells \ Rules(order)
  BY <1>1, TypeFacts, OrderFacts DEF ListInv
<1>3. /\ cell' \in [Cells -> Rule] /\ ~cell'[editor.rule].live
      /\ \A d \in Cells \ {editor.rule} : cell'[d] = cell[d]
  BY <1>1, <1>2, IdleFacts
<1>4. Linked(order', head', cell')
  BY <1>1, <1>2, <1>3, StillFacts, OrderFacts DEF Linked
<1>5. ListInv'
  BY <1>1, <1>2, <1>3, <1>4, IdleFacts DEF ListInv, Moving
<1> QED
  BY <1>1, <1>2, <1>3, <1>5, TypeStep, TypeFacts, IdleFacts

\* What the steps of EditRule change of a rule of the list.
LEMMA EditFacts ==
  ASSUME TypeOK, ListInv, EditRule \/ EditFilter \/ EditFails \/ EditRest
  PROVE  /\ TypeOK' /\ ListInv' /\ UNCHANGED <<hasActive, order>>
         /\ \A d \in Cells : cell'[d].enabled = cell[d].enabled /\ cell'[d].live = cell[d].live
         /\ EditRule => /\ editor.pc = "idle" /\ editor'.pc = "filter" /\ Overlapped("frees")
                        /\ \A d \in Cells \ {editor'.rule} : cell'[d] = cell[d]
         /\ ~EditRule => /\ editor.pc \in {"filter", "rest"} /\ matcher' = matcher
                         /\ editor'.pc \in {"idle", "rest", "clear"}
                         /\ \A d \in Cells \ {editor.rule} : cell'[d] = cell[d]
                         /\ cell'[editor.rule].filter # "freed" \/ editor.pc = "rest"
                         /\ editor.pc = "rest" => cell'[editor.rule].filter = cell[editor.rule].filter
<1>1. ~Moving /\ editor.pc # "free" /\ UNCHANGED <<hasActive, order, head>>
  BY DEF EditRule, EditFilter, EditFails, EditRest, Moving
<1>2. /\ cell \in [Cells -> Rule] /\ order \in Seq(Cells) /\ Rules(order) \subseteq Cells
      /\ editor \in Editors /\ matcher \in Checks
  BY TypeFacts, OrderFacts
<1>3. CASE EditRule
  <2>1. PICK c \in Rules(order), x \in Contents :
          /\ cell' = [cell EXCEPT ![c].name = x.name, ![c].filter = "freed"]
          /\ editor' = [NoEdit EXCEPT !.pc = "filter", !.rule = c, !.new = x]
    BY <1>1, <1>3, StillFacts DEF EditRule
  <2>2. x.name \in {"hit", "miss", "star"} /\ cell[c] \in Rule /\ c \in Cells
    BY <1>2, RuleConstants
  <2>3. cell'[c] = [cell[c] EXCEPT !.name = x.name, !.filter = "freed"]
        /\ \A d \in Cells \ {c} : cell'[d] = cell[d]
    BY <1>2, <2>1, <2>2
  <2>4. cell'[c] \in Rule /\ cell'[c].next = cell[c].next /\ cell'[c].live = cell[c].live
        /\ cell'[c].enabled = cell[c].enabled
    BY <2>2, <2>3 DEF Rule
  <2>5. /\ editor' \in Editors /\ editor'.pc = "filter" /\ editor'.rule = c /\ editor'.new = x
    BY <2>1, <2>2 DEF NoEdit, Editors
  <2>6. cell' \in [Cells -> Rule]
    BY <1>2, <2>1, <2>3, <2>4
  <2>7. ListInv'
    BY <1>1, <2>3, <2>4, <2>5, KeptInv
  <2>8. editor.pc = "idle" /\ Overlapped("frees")
    BY <1>3 DEF EditRule
  <2>9. matcher' \in Checks
    BY <1>1, <1>2, <2>6, <2>8, OverlapFacts
  <2> QED
    BY <1>1, <1>2, <1>3, <2>3, <2>4, <2>5, <2>6, <2>7, <2>8, <2>9, TypeStep, TypeFacts
<1>4. CASE ~EditRule
  <2> DEFINE c == editor.rule
  <2>1. /\ editor.pc \in {"filter", "rest"} /\ matcher' = matcher /\ c \in Rules(order)
        /\ editor.new \in Contents /\ c \in Cells /\ cell[c] \in Rule
    BY <1>2, <1>4 DEF EditFilter, EditFails, EditRest, ListInv
  <2>2. /\ editor.new.filter \in {"hit", "miss", "star"} /\ editor.new.action \in Actions
    BY <2>1, RuleConstants
  <2>3. /\ editor' \in Editors /\ editor'.pc \in {"idle", "rest", "clear"}
        /\ editor'.pc = "rest" => editor'.rule = c /\ editor'.new = editor.new
    <3>1. CASE EditFilter
      BY <1>2, <3>1 DEF EditFilter, Editors
    <3>2. CASE EditFails
      BY <3>2, IdleFacts DEF EditFails
    <3>3. CASE EditRest
      BY <3>3, IdleFacts DEF EditRest
    <3> QED
      BY <1>4, <3>1, <3>2, <3>3
  <2>4. /\ cell' \in [Cells -> Rule]
        /\ \A d \in Cells \ {c} : cell'[d] = cell[d]
        /\ cell'[c].next = cell[c].next /\ cell'[c].live = cell[c].live
        /\ cell'[c].enabled = cell[c].enabled
        /\ cell'[c].filter # "freed" \/ editor.pc = "rest"
        /\ editor.pc = "rest" => cell'[c].filter = cell[c].filter
    <3>1. CASE EditFilter \/ EditFails
      <4>1. PICK f \in {"hit", "miss", "star", "null"} : cell' = [cell EXCEPT ![c].filter = f]
        BY <2>2, <3>1 DEF EditFilter, EditFails
      <4>2. editor.pc = "filter"
        BY <3>1 DEF EditFilter, EditFails
      <4>3. cell'[c] = [cell[c] EXCEPT !.filter = f] /\ \A d \in Cells \ {c} : cell'[d] = cell[d]
        BY <1>2, <2>1, <4>1
      <4> HIDE DEF c
      <4>4. cell'[c] \in Rule /\ cell'[c].next = cell[c].next /\ cell'[c].live = cell[c].live
            /\ cell'[c].enabled = cell[c].enabled /\ cell'[c].filter = f
        BY <2>1, <4>3 DEF Rule
      <4> QED
        BY <1>2, <4>1, <4>2, <4>3, <4>4
    <3>2. CASE EditRest
      <4>1. PICK a \in Actions : cell' = [cell EXCEPT ![c].action = a] /\ editor.pc = "rest"
        <5>1. cell[c].action \in Actions
          BY <2>1 DEF Rule
        <5>2. Edited(cell[c].action, editor.new.action) \subseteq Actions
          BY <2>2, <5>1 DEF Edited, Actions
        <5> QED
          BY <3>2, <5>2 DEF EditRest
      <4>2. cell'[c] = [cell[c] EXCEPT !.action = a]
            /\ \A d \in Cells \ {c} : cell'[d] = cell[d]
        BY <1>2, <2>1, <4>1
      <4> HIDE DEF c
      <4>3. cell'[c] \in Rule /\ cell'[c].next = cell[c].next /\ cell'[c].live = cell[c].live
            /\ cell'[c].enabled = cell[c].enabled /\ cell'[c].filter = cell[c].filter
        BY <2>1, <2>2, <4>2 DEF Rule
      <4> QED
        BY <1>2, <4>1, <4>2, <4>3
    <3> QED
      BY <1>4, <3>1, <3>2
  <2>5. ListInv'
    BY <1>1, <2>1, <2>3, <2>4, KeptInv
  <2> QED
    BY <1>1, <1>2, <1>4, <2>1, <2>3, <2>4, <2>5, TypeStep, TypeFacts
<1> QED
  BY <1>3, <1>4

\* A rule is taken out of the list, for another place in it.
LEMMA MoveFacts ==
  ASSUME TypeOK, ListInv, MoveRule
  PROVE  /\ TypeOK' /\ ListInv' /\ editor.pc = "idle" /\ editor'.pc = "insert"
         /\ hasActive' = hasActive /\ Overlapped("moves")
         /\ Rules(order') = Rules(order) /\ \A d \in Cells : SameRule(d)
<1>1. editor.pc = "idle" /\ ~Moving /\ Overlapped("moves") /\ hasActive' = hasActive
  BY DEF MoveRule, Moving
<1>2. PICK c \in Rules(order), pos \in 1 .. Len(order) + 1 :
        /\ Len(order) = 1 => pos = 1
        /\ Relink(c, cell[c].next)
        /\ order' = InsertAt(Without(c),
                             IF pos > Len(Without(c)) THEN Len(Without(c)) + 1 ELSE pos, c)
        /\ editor' = [NoEdit EXCEPT !.pc = "insert", !.rule = c, !.pos = pos]
  BY <1>1, StillFacts DEF MoveRule
<1>3. PICK i \in 1 .. Len(order) : c = order[i]
  BY DEF Rules
<1>4. /\ order \in Seq(Cells) /\ c \in Cells /\ cell \in [Cells -> Rule] /\ Distinct(order)
      /\ Len(order) \in Nat
  BY TypeFacts, OrderFacts DEF ListInv
<1> DEFINE rest == RemoveAt(order, i)
           k == IF pos > Len(rest) THEN Len(rest) + 1 ELSE pos
<1>5. /\ rest = Without(c) /\ rest \in Seq(Cells) /\ Len(rest) = Len(order) - 1
      /\ Distinct(rest) /\ Rules(rest) = Rules(order) \ {c}
  BY <1>3, <1>4, WithoutFacts, RemoveFacts, RestFacts
<1>6. order' = InsertAt(rest, k, c)
  BY <1>2, <1>5
<1> HIDE DEF rest
<1>7. k \in 1 .. Len(rest) + 1
  BY <1>4, <1>5
<1> HIDE DEF k
<1>8. /\ order' \in Seq(Cells) /\ Len(order') = Len(rest) + 1 /\ Distinct(order')
      /\ Rules(order') = Rules(rest) \cup {c} /\ order'[k] = c /\ RemoveAt(order', k) = rest
  BY <1>4, <1>5, <1>6, <1>7, InsertedFacts
<1>9. Len(order') = Len(order) /\ Rules(order') = Rules(order) /\ pos \in Nat /\ Len(order) > 0
  <2>1. Len(order') = Len(order) /\ pos \in Nat /\ Len(order) > 0
    BY <1>3, <1>4, <1>5, <1>8
  <2>2. c \in Rules(order)
    BY <1>2
  <2> QED
    BY <1>5, <1>8, <2>1, <2>2
<1>10. /\ cell' \in [Cells -> Rule] /\ head' \in Cells \cup {None}
       /\ Linked(rest, head', cell') /\ cell'[c].next = cell[c].next
       /\ \A d \in Cells : SameRule(d)
  BY <1>1, <1>2, <1>3, RelinkFacts DEF SameRule, rest
<1>11. editor' \in Editors /\ editor'.pc = "insert" /\ editor'.rule = c /\ editor'.pos = pos
  BY <1>2, <1>4, <1>9 DEF NoEdit, Editors
<1>12. Spot' = k
  BY <1>4, <1>5, <1>9, <1>11 DEF Spot, k
<1>13. TakenOut'
  <2>1. pos > Len(order') => Len(order') > 1
    BY <1>2, <1>4, <1>9
  <2>2. k \in 1 .. Len(order')
    BY <1>7, <1>8
  <2> QED
    BY <1>8, <1>10, <1>11, <1>12, <2>1, <2>2 DEF TakenOut
<1>14. cell'[c].next \in Rules(order') \cup {None}
  <2>1. cell[c].next = NextOf(order, i)
    BY <1>1, <1>3, StillFacts DEF Linked
  <2>2. i < Len(order) => i + 1 \in 1 .. Len(order)
    BY <1>3, <1>4
  <2> QED
    BY <1>9, <1>10, <2>1, <2>2 DEF NextOf, Rules
<1>15. ListInv'
  BY <1>1, <1>2, <1>8, <1>9, <1>10, <1>11, <1>13, <1>14
  DEF ListInv, Moving, SameRule, HalfAppended
<1>16. matcher' \in Checks
  BY <1>1, <1>8, <1>10, OverlapFacts, TypeFacts
<1> QED
  BY <1>1, <1>8, <1>9, <1>10, <1>11, <1>15, <1>16, TypeStep, TypeFacts

\* What following the pointers finds while the rule is out of the list.
LEMMA OutFacts ==
  ASSUME TypeOK, ListInv, Moving, ~HalfAppended
  PROVE  /\ Length = Len(order) - 1 /\ Len(order) \in Nat /\ editor.pos \in Nat \ {0}
         /\ \A j \in 1 .. Len(order) - 1 : j < Spot => Node[j] = order[j]
         /\ Appends <=> editor.pos > Len(order)
<1> DEFINE r == RemoveAt(order, Spot)
<1>1. /\ order \in Seq(Cells) /\ Distinct(order) /\ Len(order) \in Nat
      /\ Spot \in 1 .. Len(order) /\ editor.pos \in Nat
  BY TypeFacts, OrderFacts DEF ListInv, TakenOut, Editors
<1>2. /\ r \in Seq(Cells) /\ Distinct(r) /\ Linked(r, head, cell) /\ Len(r) = Len(order) - 1
      /\ \A j \in 1 .. Len(order) - 1 : r[j] = IF j < Spot THEN order[j] ELSE order[j + 1]
  BY <1>1, RemoveFacts, RestFacts DEF ListInv, TakenOut
<1> HIDE DEF r
<1>3. Length = Len(r) /\ \A j \in 1 .. Len(r) : Node[j] = r[j]
  BY <1>2, ListedIs
<1>4. editor.pos # 0
  BY <1>1 DEF Spot
<1>5. Appends <=> editor.pos > Len(order)
  BY <1>1, <1>2, <1>3 DEF Appends
<1> QED
  BY <1>1, <1>2, <1>3, <1>4, <1>5

\* A step of a move writes one pointer, and nothing else of any rule.
LEMMA PointFacts ==
  ASSUME cell \in [Cells -> Rule], NEW c \in Cells, NEW to \in Cells \cup {None},
         cell' = [cell EXCEPT ![c].next = to]
  PROVE  /\ cell' \in [Cells -> Rule] /\ \A d \in Cells : SameRule(d)
         /\ \A d \in Cells : cell'[d].next = IF d = c THEN to ELSE cell[d].next
<1>1. cell'[c] = [cell[c] EXCEPT !.next = to] /\ \A d \in Cells \ {c} : cell'[d] = cell[d]
  OBVIOUS
<1>2. cell[c] \in Rule
  OBVIOUS
<1>3. cell'[c] \in Rule /\ cell'[c].next = to /\ SameRule(c)
  BY <1>1, <1>2 DEF Rule, SameRule
<1> QED
  BY <1>1, <1>3 DEF SameRule

\* The first store of a move.
LEMMA InsertStepFacts ==
  ASSUME TypeOK, ListInv, MoveInsert
  PROVE  /\ TypeOK' /\ ListInv' /\ editor.pc = "insert" /\ editor'.pc = "link"
         /\ UNCHANGED <<hasActive, matcher, order>> /\ \A d \in Cells : SameRule(d)
<1> DEFINE n == Len(order)
           c == editor.rule
           r == RemoveAt(order, Spot)
<1>1. /\ editor.pc = "insert" /\ UNCHANGED <<head, hasActive, matcher, order>> /\ Moving
      /\ ~HalfAppended /\ TakenOut
      /\ editor' = [editor EXCEPT !.pc = "link", !.new = None,
                                  !.pos = IF editor.pos > 1 /\ Appends THEN 0 ELSE @]
  BY DEF MoveInsert, Moving, HalfAppended, ListInv
<1>2. /\ cell \in [Cells -> Rule] /\ head \in Cells \cup {None} /\ order \in Seq(Cells)
      /\ editor \in Editors /\ n \in Nat /\ Distinct(order) /\ c \in Rules(order) /\ c \in Cells
      /\ \A i \in 1 .. n : order[i] \in Cells /\ order[i] \in Rules(order)
      /\ None \notin Rules(order) /\ Rules(order) \subseteq Cells
      /\ cell[c].next \in Rules(order) \cup {None}
  BY <1>1, TypeFacts, OrderFacts DEF ListInv
<1>3. /\ Length = n - 1 /\ editor.pos \in Nat \ {0} /\ (Appends <=> editor.pos > n)
      /\ \A j \in 1 .. n - 1 : j < Spot => Node[j] = order[j]
      /\ Spot \in 1 .. n /\ order[Spot] = c /\ (editor.pos > n => n > 1)
      /\ Linked(r, head, cell)
  BY <1>1, OutFacts DEF TakenOut
<1> HIDE DEF n, c
<1>4. /\ r \in Seq(Cells) /\ Len(r) = n - 1 /\ Rules(r) = Rules(order) \ {c}
      /\ \A j \in 1 .. n - 1 : r[j] = IF j < Spot THEN order[j] ELSE order[j + 1]
      /\ \A j \in 0 .. n - 1 : NextOf(r, j) = IF j < Spot - 1 THEN order[j + 1] ELSE NextOf(order, j + 1)
  BY <1>2, <1>3, RemoveFacts, RestFacts DEF n
<1> HIDE DEF r
<1>5. head = NextOf(r, 0) /\ \A j \in 1 .. n - 1 : cell[r[j]].next = NextOf(r, j)
  BY <1>3, <1>4 DEF Linked
<1>6. \A j \in 1 .. n - 1 : r[j] \in Cells /\ r[j] # c
  <2>1. \A j \in 1 .. n - 1 : r[j] \in Rules(r)
    BY <1>4 DEF Rules
  <2> QED
    BY <1>2, <1>4, <2>1
<1>7. \A j \in 0 .. n : NextOf(order, j) \in Rules(order) \cup {None}
  BY <1>2 DEF NextOf, n
<1>8. CASE ~(editor.pos > n)
  <2>0. editor.pos \in 1 .. n /\ Spot = editor.pos
    BY <1>2, <1>3, <1>8 DEF Spot, n
  <2>1. /\ editor' \in Editors /\ editor'.pc = "link" /\ editor'.rule = c
        /\ editor'.pos = editor.pos
    BY <1>1, <1>2, <1>3, <1>8 DEF Editors, c
  <2>2. cell' = [cell EXCEPT ![c].next = NextOf(order, editor.pos)]
    <3>1. CASE editor.pos = 1
      <4>1. head = NextOf(order, editor.pos)
        BY <1>2, <1>4, <1>5, <2>0, <3>1
      <4> QED
        BY <3>1, <4>1 DEF MoveInsert, c
    <3>2. CASE editor.pos > 1
      <4>1. /\ editor.pos - 1 \in 1 .. n - 1 /\ editor.pos - 1 \in 0 .. n - 1
            /\ editor.pos - 1 < Spot /\ ~(editor.pos - 1 < Spot - 1) /\ (editor.pos - 1) + 1 = editor.pos
        BY <1>2, <2>0, <3>2
      <4>2. Before = r[editor.pos - 1]
        BY <1>3, <1>4, <1>8, <4>1 DEF Before
      <4>3. cell[Before].next = NextOf(order, editor.pos)
        BY <1>4, <1>5, <4>1, <4>2
      <4> QED
        BY <1>3, <1>8, <3>2, <4>3 DEF MoveInsert, c
    <3> QED
      BY <2>0, <3>1, <3>2
  <2>3. NextOf(order, editor.pos) \in Rules(order) \cup {None}
    BY <1>7, <2>0
  <2>4. /\ cell' \in [Cells -> Rule] /\ \A d \in Cells : SameRule(d)
        /\ \A d \in Cells : cell'[d].next =
             IF d = c THEN NextOf(order, editor.pos) ELSE cell[d].next
    <3> DEFINE to == NextOf(order, editor.pos)
    <3>1. to \in Cells \cup {None} /\ cell' = [cell EXCEPT ![c].next = to]
      BY <1>2, <2>2, <2>3
    <3> HIDE DEF to
    <3>2. /\ cell' \in [Cells -> Rule] /\ \A d \in Cells : SameRule(d)
          /\ \A d \in Cells : cell'[d].next = IF d = c THEN to ELSE cell[d].next
      BY <1>2, <3>1, PointFacts
    <3> QED
      BY <3>2 DEF to
  <2>5. Linked(r, head', cell')
    BY <1>1, <1>4, <1>5, <1>6, <2>4 DEF Linked
  <2>6. Spot' = Spot
    BY <1>1, <2>1 DEF Spot
  <2>7. TakenOut' /\ ~HalfAppended'
    BY <1>1, <1>2, <1>3, <2>0, <2>1, <2>4, <2>5, <2>6 DEF TakenOut, HalfAppended, n, r
  <2>8. ListInv'
    BY <1>1, <1>2, <2>1, <2>3, <2>4, <2>7 DEF ListInv, Moving, SameRule
  <2> QED
    BY <1>1, <2>1, <2>4, <2>8, TypeStep, TypeFacts
<1>9. CASE editor.pos > n
  <2>0. Spot = n /\ n > 1 /\ n - 1 \in 1 .. n - 1 /\ n - 1 < Spot /\ editor.pos > 1
    BY <1>2, <1>3, <1>9 DEF Spot, n
  <2>1. /\ editor' \in Editors /\ editor'.pc = "link" /\ editor'.rule = c /\ editor'.pos = 0
    BY <1>1, <1>2, <1>3, <1>9, <2>0 DEF Editors, c
  <2>2. Before = order[n - 1]
    BY <1>3, <1>9, <2>0 DEF Before
  <2>3. cell' = [cell EXCEPT ![order[n - 1]].next = c]
    BY <1>3, <1>9, <2>0, <2>2 DEF MoveInsert, c
  <2>4. order[n - 1] \in Cells /\ order[n - 1] # c
    BY <1>2, <1>3, <2>0 DEF Distinct, n
  <2>5. /\ cell' \in [Cells -> Rule] /\ \A d \in Cells : SameRule(d)
        /\ \A d \in Cells : cell'[d].next = IF d = order[n - 1] THEN c ELSE cell[d].next
    BY <1>2, <2>3, <2>4, PointFacts
  <2>6. head = order[1]
    BY <1>2, <1>4, <1>5, <2>0
  <2>7. ASSUME NEW j \in 1 .. n - 1 PROVE cell'[order[j]].next = order[j + 1]
    <3>1. j \in 1 .. n /\ r[j] = order[j] /\ n - 1 \in 1 .. n
      BY <1>2, <1>4, <2>0
    <3>2. CASE j = n - 1
      BY <1>2, <1>3, <2>0, <2>4, <2>5, <3>2
    <3>3. CASE j # n - 1
      <4>1. j < Spot - 1 /\ j \in 0 .. n - 1
        BY <1>2, <2>0, <3>3
      <4>2. order[j] # order[n - 1] /\ order[j] \in Cells
        BY <1>2, <3>1, <3>3 DEF Distinct, n
      <4> QED
        BY <1>4, <1>5, <2>5, <3>1, <4>1, <4>2
    <3> QED
      BY <3>2, <3>3
  <2>8. OpenEnded' /\ HalfAppended'
    BY <1>1, <1>3, <2>0, <2>1, <2>6, <2>7 DEF OpenEnded, HalfAppended, n
  <2>9. ListInv'
    BY <1>1, <1>2, <2>1, <2>4, <2>5, <2>8 DEF ListInv, Moving, SameRule
  <2> QED
    BY <1>1, <2>1, <2>5, <2>9, TypeStep, TypeFacts
<1> QED
  BY <1>8, <1>9

\* The second store of a move: the list is the one the user sees again.
LEMMA LinkStepFacts ==
  ASSUME TypeOK, ListInv, MoveLink
  PROVE  /\ TypeOK' /\ ListInv' /\ editor.pc = "link" /\ editor'.pc = "idle"
         /\ UNCHANGED <<hasActive, matcher, order>> /\ \A d \in Cells : SameRule(d)
<1> DEFINE n == Len(order)
           c == editor.rule
<1>1. /\ editor.pc = "link" /\ UNCHANGED <<hasActive, matcher, order>> /\ Moving
      /\ editor' = NoEdit
  BY DEF MoveLink, Moving
<1>2. /\ cell \in [Cells -> Rule] /\ head \in Cells \cup {None} /\ order \in Seq(Cells)
      /\ n \in Nat /\ Distinct(order) /\ c \in Rules(order) /\ c \in Cells
      /\ \A i \in 1 .. n : order[i] \in Cells /\ order[i] \in Rules(order)
      /\ IF HalfAppended THEN OpenEnded ELSE TakenOut
  BY <1>1, TypeFacts, OrderFacts DEF ListInv
<1> HIDE DEF n, c
<1>3. /\ cell' \in [Cells -> Rule] /\ head' \in Cells \cup {None} /\ \A d \in Cells : SameRule(d)
      /\ Linked(order, head', cell')
  <2>1. CASE HalfAppended
    <3>1. head' = head /\ cell' = [cell EXCEPT ![c].next = None]
      BY <2>1 DEF MoveLink, HalfAppended, c
    <3>2. /\ cell' \in [Cells -> Rule] /\ \A d \in Cells : SameRule(d)
          /\ \A d \in Cells : cell'[d].next = IF d = c THEN None ELSE cell[d].next
      BY <1>2, <3>1, PointFacts
    <3>3. /\ n > 1 /\ order[n] = c /\ head = order[1]
          /\ \A i \in 1 .. n - 1 : cell[order[i]].next = order[i + 1]
      BY <1>2, <2>1 DEF OpenEnded, n, c
    <3>4. ASSUME NEW i \in 1 .. n PROVE cell'[order[i]].next = NextOf(order, i)
      <4>1. CASE i = n
        BY <1>2, <3>2, <3>3, <4>1 DEF NextOf, n
      <4>2. CASE i # n
        <5>1. i \in 1 .. n - 1 /\ i < n /\ n \in 1 .. n
          BY <1>2, <3>3, <4>2
        <5>2. order[i] # c /\ order[i] \in Cells
          BY <1>2, <3>3, <4>2, <5>1 DEF Distinct, n
        <5> QED
          BY <3>2, <3>3, <5>1, <5>2 DEF NextOf, n
      <4> QED
        BY <4>1, <4>2
    <3>5. head' = NextOf(order, 0)
      BY <1>2, <3>1, <3>3 DEF NextOf, n
    <3> QED
      BY <1>2, <3>1, <3>2, <3>4, <3>5 DEF Linked, n
  <2>2. CASE ~HalfAppended
    <3> DEFINE k == editor.pos
    <3>1. /\ Length = n - 1 /\ k \in Nat \ {0} /\ (Appends <=> k > n)
          /\ \A j \in 1 .. n - 1 : j < Spot => Node[j] = order[j]
          /\ Spot \in 1 .. n /\ order[Spot] = c /\ k <= n
          /\ Linked(RemoveAt(order, Spot), head, cell) /\ cell[c].next = NextOf(order, k)
      BY <1>1, <1>2, <2>2, OutFacts DEF TakenOut, n, c
    <3>2. Spot = k /\ k \in 1 .. n
      BY <1>2, <3>1 DEF Spot, n
    <3>3. CASE k = 1
      <4>1. head' = c /\ cell' = cell
        BY <3>3 DEF MoveLink, c
      <4>2. Linked(order, head', cell')
        BY <1>2, <3>1, <3>2, <3>3, <4>1, LinkFacts DEF n
      <4> QED
        BY <1>2, <4>1, <4>2 DEF SameRule
    <3>4. CASE k > 1
      <4>1. k - 1 \in 1 .. n - 1 /\ k - 1 < Spot /\ ~(k > n) /\ k # 0 /\ k # 1 /\ k - 1 \in 1 .. n
        BY <1>2, <3>1, <3>2, <3>4
      <4>2. Before = order[k - 1]
        BY <3>1, <4>1 DEF Before
      <4>3. head' = head /\ cell' = [cell EXCEPT ![order[k - 1]].next = c]
        BY <4>1, <4>2 DEF MoveLink, c
      <4>4. /\ cell' \in [Cells -> Rule] /\ \A d \in Cells : SameRule(d)
            /\ \A d \in Cells : cell'[d].next = IF d = order[k - 1] THEN c ELSE cell[d].next
        <5> DEFINE b == order[k - 1]
        <5>1. b \in Cells /\ cell' = [cell EXCEPT ![b].next = c]
          BY <1>2, <4>1, <4>3
        <5> HIDE DEF b
        <5>2. /\ cell' \in [Cells -> Rule] /\ \A d \in Cells : SameRule(d)
              /\ \A d \in Cells : cell'[d].next = IF d = b THEN c ELSE cell[d].next
          BY <1>2, <5>1, PointFacts
        <5> QED
          BY <5>2 DEF b
      <4>5. Linked(order, head', cell')
        <5>1. /\ k \in 1 .. Len(order) /\ order[k] = c /\ k # 1
              /\ Linked(RemoveAt(order, k), head, cell) /\ cell[order[k]].next = NextOf(order, k)
          BY <3>1, <3>2, <3>4 DEF n
        <5>2. \A d \in Cells : cell'[d].next = IF d = order[k - 1] THEN order[k] ELSE cell[d].next
          BY <4>4, <5>1
        <5> HIDE DEF k
        <5> QED
          BY <1>2, <4>3, <5>1, <5>2, LinkFacts
      <4> QED
        BY <1>2, <4>3, <4>4, <4>5
    <3> QED
      BY <3>2, <3>3, <3>4
  <2> QED
    BY <2>1, <2>2
<1>4. ListInv'
  BY <1>1, <1>2, <1>3, IdleFacts DEF ListInv, Moving, SameRule
<1> QED
  BY <1>1, <1>2, <1>3, <1>4, TypeStep, TypeFacts, IdleFacts

-----------------------------------------------------------------------------
(* Steps of the packet thread *)

\* What Done leaves of a check.
LEMMA DoneFacts ==
  ASSUME matcher \in Checks, NEW v \in Actions \cup {"none", "unruled", "freed", "null"}
  PROVE  /\ Done(v) \in Checks /\ Done(v).pc = "done" /\ Done(v).verdict = v
         /\ Done(v).at = None /\ Done(v).wild = None
         /\ Done(v).overlap = matcher.overlap /\ Done(v).allowed = matcher.allowed \cap {v}
BY DEF Done, Checks

\* What GoTo does: the next rule, the rule kept, or no rule.
LEMMA GoToFacts ==
  ASSUME matcher \in Checks, NEW c \in Cells \cup {None}
  PROVE  /\ GoTo(c) \in Checks /\ GoTo(c).overlap = matcher.overlap
         /\ c # None => /\ GoTo(c).pc = "visit" /\ GoTo(c).at = c
                        /\ GoTo(c).wild = matcher.wild /\ GoTo(c).verdict = matcher.verdict
                        /\ GoTo(c).allowed = matcher.allowed
         /\ c = None /\ matcher.wild # None =>
              /\ GoTo(c).pc = "take" /\ GoTo(c).at = matcher.wild
              /\ GoTo(c).wild = matcher.wild /\ GoTo(c).verdict = matcher.verdict
              /\ GoTo(c).allowed = matcher.allowed
         /\ c = None /\ matcher.wild = None => GoTo(c) = Done("DIRECT")
<1>1. "DIRECT" \in Actions
  BY DEF Actions
<1>2. CASE c # None
  BY <1>2 DEF GoTo, Checks
<1>3. CASE c = None /\ matcher.wild # None
  BY <1>3 DEF GoTo, Checks
<1>4. CASE c = None /\ matcher.wild = None
  <2>1. GoTo(c) = Done("DIRECT")
    BY <1>4 DEF GoTo
  <2> QED
    BY <1>1, <1>4, <2>1, DoneFacts
<1> QED
  BY <1>2, <1>3, <1>4

\* How a check begins.
LEMMA CheckFacts ==
  ASSUME TypeOK, Check
  PROVE  /\ matcher' \in Checks /\ UNCHANGED <<cell, head, hasActive, editor, order>>
         /\ matcher'.pc \in {"begin", "done"} /\ matcher'.at = None /\ matcher'.wild = None
         /\ matcher'.pc = "begin" => matcher'.verdict = "none"
         /\ matcher'.pc = "done" => matcher'.verdict = "unruled"
         /\ matcher'.overlap = CASE editor.pc \in {"insert", "link"} -> "moves"
                                 [] editor.pc \in {"filter", "rest"} -> "frees"
                                 [] OTHER -> "quiet"
         /\ matcher'.overlap = "quiet" => matcher'.allowed = {VerdictOf(order, cell)}
<1> DEFINE now == CASE editor.pc \in {"insert", "link"} -> "moves"
                    [] editor.pc \in {"filter", "rest"} -> "frees"
                    [] OTHER -> "quiet"
           skip == ~hasActive /\ ~Watched
           may == IF now = "quiet" THEN {VerdictOf(order, cell)} ELSE {}
           pc == IF skip THEN "done" ELSE "begin"
           verdict == IF skip THEN "unruled" ELSE "none"
<1>1. /\ matcher' = [NoCheck EXCEPT !.pc = pc, !.verdict = verdict, !.overlap = now,
                                    !.allowed = may]
      /\ UNCHANGED <<cell, head, hasActive, editor, order>>
  BY DEF Check
<1>2. now \in Overlaps /\ pc \in {"begin", "done"} /\ verdict \in {"none", "unruled"}
      /\ (pc = "begin" => verdict = "none") /\ (pc = "done" => verdict = "unruled")
  BY DEF Overlaps
<1>3. may \subseteq Actions
  BY VerdictFacts, TypeFacts
<1> HIDE DEF now, skip, may, pc, verdict
<1>4. /\ matcher' \in Checks /\ matcher'.pc = pc /\ matcher'.verdict = verdict
      /\ matcher'.overlap = now /\ matcher'.allowed = may
      /\ matcher'.at = None /\ matcher'.wild = None
  BY <1>1, <1>2, <1>3 DEF NoCheck, Checks
<1> QED
  BY <1>1, <1>2, <1>4 DEF now, may

\* What one rule makes of a check.
LEMMA VisitFacts ==
  ASSUME TypeOK, Visit, matcher.at # None, NEW r, r = cell[matcher.at]
  PROVE  /\ matcher' \in Checks /\ UNCHANGED <<cell, head, hasActive, editor, order>>
         /\ r \in Rule /\ matcher.pc = "visit" /\ matcher'.overlap = matcher.overlap
         /\ \/ (~r.live \/ r.filter = "freed") /\ matcher' = Done("freed")
            \/ matcher' = Done("null")
            \/ /\ r.live /\ r.enabled /\ Specific(r)
               /\ matcher' = [matcher EXCEPT !.pc = "take"]
            \/ /\ r.live /\ ~(r.enabled /\ Specific(r))
               /\ matcher' = [matcher EXCEPT !.pc = "next",
                    !.wild = IF r.enabled /\ Wildcard(r) /\ @ = None THEN matcher.at ELSE @]
<1>1. matcher \in Checks /\ cell \in [Cells -> Rule]
  BY TypeFacts
<1>2. matcher.at \in Cells /\ matcher.wild \in Cells \cup {None}
  BY <1>1 DEF Checks
<1>3. r \in Rule /\ r.live \in BOOLEAN /\ r.enabled \in BOOLEAN
  BY <1>1, <1>2 DEF Rule
<1>4. \/ (~r.live \/ r.filter = "freed") /\ matcher' = Done("freed")
      \/ matcher' = Done("null")
      \/ /\ r.live /\ r.enabled /\ Specific(r)
         /\ matcher' = [matcher EXCEPT !.pc = "take"]
      \/ /\ r.live /\ ~(r.enabled /\ Specific(r))
         /\ matcher' = [matcher EXCEPT !.pc = "next",
              !.wild = IF r.enabled /\ Wildcard(r) /\ @ = None THEN matcher.at ELSE @]
  BY <1>3 DEF Visit
<1>5. matcher' \in Checks /\ matcher'.overlap = matcher.overlap
  <2>1. Done("freed") \in Checks /\ Done("null") \in Checks
        /\ Done("freed").overlap = matcher.overlap /\ Done("null").overlap = matcher.overlap
    BY <1>1, DoneFacts
  <2>2. [matcher EXCEPT !.pc = "take"] \in Checks
        /\ [matcher EXCEPT !.pc = "take"].overlap = matcher.overlap
    BY <1>1 DEF Checks
  <2>3. ASSUME NEW w \in Cells \cup {None}
        PROVE  [matcher EXCEPT !.pc = "next", !.wild = w] \in Checks
               /\ [matcher EXCEPT !.pc = "next", !.wild = w].overlap = matcher.overlap
    BY <1>1 DEF Checks
  <2>4. (IF r.enabled /\ Wildcard(r) /\ matcher.wild = None THEN matcher.at ELSE matcher.wild)
          \in Cells \cup {None}
    BY <1>2
  <2> QED
    BY <1>4, <2>1, <2>2, <2>3, <2>4
<1> QED
  BY <1>3, <1>4, <1>5 DEF Visit

\* A check that reads a rule has one.
AtInv == matcher.pc \in {"visit", "take", "next"} => matcher.at # None

\* The packet thread changes nothing but its check.
LEMMA MatcherFacts ==
  ASSUME TypeOK, ListInv, AtInv, Check \/ MatcherStep
  PROVE  /\ TypeOK' /\ ListInv' /\ AtInv'
         /\ UNCHANGED <<cell, head, hasActive, editor, order>>
<1>1. UNCHANGED <<cell, head, hasActive, editor, order>>
  BY DEF Check, MatcherStep, Begin, Visit, Advance, Take, Finished
<1>2. matcher \in Checks /\ cell \in [Cells -> Rule] /\ head \in Cells \cup {None}
  BY TypeFacts
<1>3. matcher.at # None => matcher.at \in Cells /\ cell[matcher.at] \in Rule
  BY <1>2 DEF Checks
<1>4. matcher' \in Checks /\ AtInv'
  <2>1. CASE Check
    BY <2>1, CheckFacts DEF AtInv
  <2>2. CASE Begin
    BY <1>2, <2>2, DoneFacts, GoToFacts DEF Begin, AtInv, Actions
  <2>3. CASE Visit
    <3>1. matcher.at # None /\ matcher.pc = "visit"
      BY <2>3 DEF Visit, AtInv
    <3>2. matcher' \in Checks
      BY <2>3, <3>1, VisitFacts
    <3>3. matcher'.pc = "done" \/ matcher'.at = matcher.at
      <4>1. Done("freed").pc = "done" /\ Done("null").pc = "done"
        BY <1>2, DoneFacts
      <4>2. [matcher EXCEPT !.pc = "take"].at = matcher.at
            /\ \A w : [matcher EXCEPT !.pc = "next", !.wild = w].at = matcher.at
        BY <1>2 DEF Checks
      <4>3. \/ matcher' = Done("freed") \/ matcher' = Done("null")
            \/ matcher' = [matcher EXCEPT !.pc = "take"]
            \/ \E w : matcher' = [matcher EXCEPT !.pc = "next", !.wild = w]
        BY <2>3, <3>1, VisitFacts
      <4> QED
        BY <4>1, <4>2, <4>3
    <3> QED
      BY <3>1, <3>2, <3>3 DEF AtInv
  <2>4. CASE Advance
    <3>1. cell[matcher.at].next \in Cells \cup {None}
      BY <1>3, <2>4 DEF Advance, Rule, AtInv
    <3> QED
      BY <1>2, <2>4, <3>1, GoToFacts, DoneFacts DEF Advance, AtInv, Actions
  <2>5. CASE Take
    <3>1. cell[matcher.at].action \in Actions
      BY <1>3, <2>5 DEF Take, Rule, AtInv
    <3> QED
      BY <1>2, <2>5, <3>1, DoneFacts DEF Take, AtInv
  <2>6. CASE Finished
    BY <2>6, IdleFacts DEF Finished, AtInv
  <2> QED
    BY <2>1, <2>2, <2>3, <2>4, <2>5, <2>6 DEF MatcherStep
<1>5. ListInv'
  BY <1>1 DEF ListInv, Moving, HalfAppended, OpenEnded, TakenOut, Spot
<1> QED
  BY <1>1, <1>4, <1>5, TypeStep, TypeFacts

-----------------------------------------------------------------------------
(* The list *)

Base == TypeOK /\ ListInv /\ AtInv

\* The invariants hold while there is no rule.
LEMMA BaseInit == Init => Base
<1> SUFFICES ASSUME Init PROVE Base
  OBVIOUS
<1>1. order \in Seq(Cells) /\ Len(order) = 0 /\ Rules(order) = {} /\ Distinct(order)
  BY DEF Init, Rules, Distinct
<1>2. /\ cell \in [Cells -> Rule] /\ \A c \in Cells : ~cell[c].live
  BY IdleFacts DEF Init
<1>3. TypeOK
  BY <1>1, <1>2, TypeFacts, IdleFacts DEF Init
<1>4. Linked(order, head, cell)
  BY <1>1 DEF Init, Linked, NextOf
<1>5. ListInv
  BY <1>1, <1>2, <1>4, IdleFacts DEF Init, ListInv, Moving
<1> QED
  BY <1>3, <1>5, IdleFacts DEF Init, Base, AtInv

\* No edit touches what the check is at.
LEMMA OverlapAt ==
  ASSUME Base, TypeOK', NEW kind \in {"adds", "update", "moves", "frees"}, Overlapped(kind)
  PROVE  AtInv'
<1>1. UNCHANGED <<matcher.pc, matcher.at>>
  BY OverlapFacts, TypeFacts DEF Base, TypeOK, Rule
<1> QED
  BY <1>1 DEF AtInv, Base

\* Every step of either thread keeps them.
LEMMA BaseStep == Base /\ [Next]_vars => Base'
<1> SUFFICES ASSUME Base, [Next]_vars PROVE Base'
  OBVIOUS
<1> USE DEF Base
<1>1. CASE Edit
  <2>1. CASE AddRule
    BY <2>1, AddFacts, OverlapAt DEF AddRule
  <2>2. CASE EnableRule \/ DisableRule
    BY <2>2, SwitchFacts, OverlapAt
  <2>3. CASE SetRuleFullCone
    BY <2>3, ConeFacts, OverlapAt
  <2>4. CASE DeleteRule
    BY <2>4, DeleteFacts, OverlapAt
  <2>5. CASE EditRule
    BY <2>5, EditFacts, OverlapAt
  <2>6. CASE MoveRule
    BY <2>6, MoveFacts, OverlapAt
  <2> QED
    BY <1>1, <2>1, <2>2, <2>3, <2>4, <2>5, <2>6 DEF Edit
<1>2. CASE EditorStep
  <2>1. CASE FlagClear \/ FlagScan
    BY <2>1, FlagFacts DEF AtInv
  <2>2. CASE FreeRule
    BY <2>2, FreeFacts DEF AtInv
  <2>3. CASE EditFilter \/ EditFails \/ EditRest
    <3>1. matcher' = matcher
      BY <2>3 DEF EditFilter, EditFails, EditRest
    <3> QED
      BY <2>3, <3>1, EditFacts DEF AtInv
  <2>4. CASE MoveInsert
    BY <2>4, InsertStepFacts DEF AtInv
  <2>5. CASE MoveLink
    BY <2>5, LinkStepFacts DEF AtInv
  <2> QED
    BY <1>2, <2>1, <2>2, <2>3, <2>4, <2>5 DEF EditorStep
<1>3. CASE Check \/ MatcherStep
  BY <1>3, MatcherFacts
<1>4. CASE UNCHANGED vars
  BY <1>4 DEF vars, TypeOK, AtInv, ListInv, Moving, HalfAppended, OpenEnded, TakenOut, Spot
<1> QED
  BY <1>1, <1>2, <1>3, <1>4 DEF Next

\* They hold in every state.
LEMMA BaseInvariance == Spec => []Base
BY BaseInit, BaseStep, PTL DEF Spec

\* Between edits the pointers form exactly the list the user sees, whatever was
\* added, deleted and moved before: also to the first place, to the last and
\* past the end (ProxyBridge_MoveRuleToPosition).
THEOREM ListCorrect == Spec => []ListIsSequence
<1>1. ASSUME Base PROVE ListIsSequence
  <2>1. TypeOK
    BY <1>1 DEF Base
  <2>2. ASSUME editor.pc = "idle"
        PROVE  /\ Length = Len(order)
               /\ \A i \in 1 .. Length : Node[i] = order[i]
               /\ \A c \in Cells : cell[c].live <=> \E i \in 1 .. Len(order) : order[i] = c
    <3>1. Length = Len(order) /\ \A i \in 1 .. Len(order) : Node[i] = order[i]
      BY <1>1, <2>2, StillFacts DEF Base, Moving
    <3>2. \A c \in Cells : cell[c].live <=> c \in Rules(order)
      BY <1>1, <2>2 DEF Base, ListInv
    <3> QED
      BY <3>1, <3>2 DEF Rules
  <2> QED
    BY <2>1, <2>2 DEF ListIsSequence
<1> QED
  BY <1>1, BaseInvariance, PTL

-----------------------------------------------------------------------------
(* The flag *)

\* Some rule of the list is enabled.
Some == \E c \in Rules(order) : cell[c].enabled

FlagInv ==
  /\ editor.pc \notin {"clear", "scan"} /\ Some => hasActive
  /\ editor.pc \notin {"free", "clear", "scan"} /\ hasActive => Some

\* Every step keeps the flag's invariant.
LEMMA FlagStep == Base /\ FlagInv /\ [Next]_vars => FlagInv'
<1> SUFFICES ASSUME Base, FlagInv, [Next]_vars PROVE FlagInv'
  OBVIOUS
<1>0. order \in Seq(Cells) /\ Rules(order) \subseteq Cells /\ TypeOK /\ ListInv /\ AtInv
  BY TypeFacts, OrderFacts DEF Base
<1> USE DEF FlagInv, Some
<1>1. CASE Edit
  <2>1. CASE AddRule
    BY <1>0, <2>1, AddFacts
  <2>2. CASE EnableRule \/ DisableRule
    BY <1>0, <2>2, SwitchFacts
  <2>3. CASE SetRuleFullCone
    <3>1. PICK c \in Rules(order), a \in Actions : cell' = [cell EXCEPT ![c].action = a]
      BY <1>0, <2>3, ConeFacts
    <3>2. cell[c] \in Rule /\ cell' = [cell EXCEPT ![c] = [cell[c] EXCEPT !.action = a]]
      BY <1>0, <3>1, TypeFacts
    <3>3. \A d \in Cells : cell'[d].enabled = cell[d].enabled
      BY <1>0, <3>1, <3>2, TypeFacts DEF Rule
    <3> QED
      BY <1>0, <2>3, <3>3, ConeFacts
  <2>4. CASE DeleteRule
    BY <1>0, <2>4, DeleteFacts DEF SameRule
  <2>5. CASE EditRule
    BY <1>0, <2>5, EditFacts
  <2>6. CASE MoveRule
    BY <1>0, <2>6, MoveFacts DEF SameRule
  <2> QED
    BY <1>1, <2>1, <2>2, <2>3, <2>4, <2>5, <2>6 DEF Edit
<1>2. CASE EditorStep
  <2>1. CASE FlagClear \/ FlagScan
    BY <1>0, <2>1, FlagFacts
  <2>2. CASE FreeRule
    BY <1>0, <2>2, FreeFacts
  <2>3. CASE EditFilter \/ EditFails \/ EditRest
    <3>1. /\ editor.pc \in {"filter", "rest"} /\ UNCHANGED <<hasActive, order>>
          /\ \A d \in Cells : cell'[d].enabled = cell[d].enabled
      BY <1>0, <2>3, EditFacts DEF EditFilter, EditFails, EditRest
    <3> QED
      BY <1>0, <3>1
  <2>4. CASE MoveInsert
    BY <1>0, <2>4, InsertStepFacts DEF SameRule
  <2>5. CASE MoveLink
    BY <1>0, <2>5, LinkStepFacts DEF SameRule
  <2> QED
    BY <1>2, <2>1, <2>2, <2>3, <2>4, <2>5 DEF EditorStep
<1>3. CASE Check \/ MatcherStep
  BY <1>0, <1>3, MatcherFacts
<1>4. CASE UNCHANGED vars
  BY <1>4 DEF vars
<1> QED
  BY <1>1, <1>2, <1>3, <1>4 DEF Next

\* The flag that lets the packet thread skip the rules is exact between edits
\* and in the middle of all that do not touch it (update_has_active_rules).
THEOREM FlagCorrect == Spec => []FlagExact
<1>1. Init => FlagInv
  BY DEF Init, FlagInv, Some, Rules
<1>2. FlagInv => FlagExact
  BY DEF FlagInv, FlagExact, Some, Rules
<1> QED
  BY <1>1, <1>2, FlagStep, BaseInvariance, PTL DEF Spec

-----------------------------------------------------------------------------
(* Freed memory *)

\* A check is at work on the list.
Checking == matcher.pc \in {"begin", "visit", "take", "next"}

\* A check that no deletion and no EditRule has overlapped is at rules of the
\* list, and no filter of these is a dangling pointer.
ReadInv ==
  /\ \A d \in Rules(order) :
       cell[d].filter = "freed" => editor.pc = "filter" /\ d = editor.rule
  /\ matcher.pc # "done" => matcher.verdict = "none"
  /\ Checking /\ matcher.overlap # "frees" =>
       /\ editor.pc \notin {"filter", "rest"}
       /\ matcher.at \in Rules(order) \cup {None} /\ matcher.wild \in Rules(order) \cup {None}
  /\ FreedExplained

\* The successor in a list is a rule of it, or NULL.
LEMMA NextOfFacts ==
  ASSUME NEW o \in Seq(Cells), NEW i \in 0 .. Len(o)
  PROVE  NextOf(o, i) \in Rules(o) \cup {None}
BY DEF NextOf, Rules

\* Also in the middle of a move the pointers of the list do not leave it.
LEMMA InsideFacts ==
  ASSUME Base
  PROVE  /\ head \in Rules(order) \cup {None}
         /\ \A d \in Rules(order) : cell[d].next \in Rules(order) \cup {None}
<1>1. order \in Seq(Cells) /\ Distinct(order) /\ Len(order) \in Nat
  BY TypeFacts, OrderFacts DEF Base, ListInv
<1>2. ASSUME NEW o \in Seq(Cells), Linked(o, head, cell), Rules(o) \subseteq Rules(order)
      PROVE  /\ head \in Rules(order) \cup {None}
             /\ \A d \in Rules(o) : cell[d].next \in Rules(order) \cup {None}
  <2>1. head = NextOf(o, 0) /\ \A i \in 1 .. Len(o) : cell[o[i]].next = NextOf(o, i)
    BY <1>2 DEF Linked
  <2>2. \A i \in 0 .. Len(o) : NextOf(o, i) \in Rules(order) \cup {None}
    BY <1>2, NextOfFacts
  <2>3. Len(o) \in Nat
    BY OrderFacts
  <2>4. 0 \in 0 .. Len(o) /\ 1 .. Len(o) \subseteq 0 .. Len(o)
    BY <2>3
  <2> QED
    BY <2>1, <2>2, <2>4 DEF Rules
<1>3. CASE ~Moving
  BY <1>1, <1>2, <1>3 DEF Base, ListInv
<1>4. CASE Moving /\ ~HalfAppended
  <2>1. TakenOut /\ cell[editor.rule].next \in Rules(order) \cup {None}
    BY <1>4 DEF Base, ListInv
  <2>2. /\ RemoveAt(order, Spot) \in Seq(Cells)
        /\ Rules(RemoveAt(order, Spot)) = Rules(order) \ {editor.rule}
    BY <1>1, <2>1, RemoveFacts, RestFacts DEF TakenOut
  <2>3. /\ head \in Rules(order) \cup {None}
        /\ \A d \in Rules(order) \ {editor.rule} : cell[d].next \in Rules(order) \cup {None}
    BY <1>2, <2>1, <2>2 DEF TakenOut
  <2> QED
    BY <2>1, <2>3
<1>5. CASE Moving /\ HalfAppended
  <2>1. OpenEnded /\ cell[editor.rule].next \in Rules(order) \cup {None}
    BY <1>5 DEF Base, ListInv
  <2>2. \A i \in 1 .. Len(order) : i # Len(order) => i \in 1 .. Len(order) - 1 /\ i + 1 \in 1 .. Len(order)
    BY <1>1
  <2>3. 1 \in 1 .. Len(order)
    BY <1>1, <2>1 DEF OpenEnded
  <2> QED
    BY <2>1, <2>2, <2>3 DEF OpenEnded, Rules
<1> QED
  BY <1>3, <1>4, <1>5

\* A rule that is not being edited keeps a whole filter: appended, switched or
\* moved rules free nothing a check can be at.
LEMMA ReadKept ==
  ASSUME Base, Base', ReadInv, matcher.pc # "done",
         NEW kind \in {"adds", "update", "moves"}, Overlapped(kind),
         Rules(order) \subseteq Rules(order'), editor'.pc \notin {"filter", "rest"},
         \A d \in Rules(order') : cell'[d].filter # "freed"
  PROVE  ReadInv'
<1>1. /\ UNCHANGED <<matcher.pc, matcher.at, matcher.wild, matcher.verdict>>
      /\ matcher.pc = "idle" \/ matcher'.overlap = Worse(matcher.overlap, kind)
  BY OverlapFacts, TypeFacts DEF Base, TypeOK, Rule
<1>2. Worse(matcher.overlap, kind) # "frees" => matcher.overlap # "frees"
  BY DEF Worse
<1> QED
  BY <1>1, <1>2 DEF ReadInv, Checking, FreedExplained

\* A deletion or an edit marks the check it overlaps.
LEMMA ReadFreed ==
  ASSUME Base, Base', ReadInv, matcher.pc # "done", Overlapped("frees"),
         \A d \in Rules(order') :
           cell'[d].filter = "freed" => editor'.pc = "filter" /\ d = editor'.rule
  PROVE  ReadInv'
<1>1. /\ UNCHANGED <<matcher.pc, matcher.at, matcher.wild, matcher.verdict>>
      /\ matcher.pc = "idle" \/ matcher'.overlap = Worse(matcher.overlap, "frees")
  BY OverlapFacts, TypeFacts DEF Base, TypeOK, Rule
<1>2. Worse(matcher.overlap, "frees") = "frees"
  BY DEF Worse
<1> QED
  BY <1>1, <1>2 DEF ReadInv, Checking, FreedExplained

\* Every step keeps it.
LEMMA ReadStep == Base /\ ReadInv /\ [Next]_vars => ReadInv'
<1> SUFFICES ASSUME Base, ReadInv, [Next]_vars PROVE ReadInv'
  OBVIOUS
<1>0. /\ order \in Seq(Cells) /\ Rules(order) \subseteq Cells /\ None \notin Rules(order)
      /\ TypeOK /\ ListInv /\ AtInv /\ Base' /\ cell \in [Cells -> Rule] /\ matcher \in Checks
      /\ \A d \in Rules(order) : cell[d].live
  BY BaseStep, TypeFacts, OrderFacts DEF Base, ListInv
<1>1. CASE Edit
  <2>0. matcher.pc # "done"
    BY <1>1 DEF Edit
  <2>1. CASE AddRule
    <3>1. PICK c \in Cells \ Rules(order) :
            /\ order' = Append(order, c) /\ cell'[c].filter # "freed"
            /\ \A d \in Cells \ {c} : SameRule(d)
      BY <1>0, <2>1, AddFacts
    <3>2. /\ Len(order') = Len(order) + 1 /\ order'[Len(order) + 1] = c
          /\ \A i \in 1 .. Len(order) : order'[i] = order[i]
      BY <1>0, <3>1, AppendProperties
    <3>3. Rules(order') = Rules(order) \cup {c}
      <4>1. Len(order) \in Nat
        BY <1>0
      <4>2. \A i \in 1 .. Len(order) + 1 : i \in 1 .. Len(order) \/ i = Len(order) + 1
        BY <4>1
      <4>3. 1 .. Len(order) \subseteq 1 .. Len(order) + 1 /\ Len(order) + 1 \in 1 .. Len(order) + 1
        BY <4>1
      <4> QED
        BY <3>2, <4>2, <4>3 DEF Rules
    <3>4. editor.pc = "idle" /\ editor'.pc = "clear" /\ Overlapped("adds")
      BY <1>0, <2>0, <2>1, AddFacts
    <3>5. \A d \in Rules(order') : cell'[d].filter # "freed"
      BY <1>0, <3>1, <3>3, <3>4 DEF ReadInv, SameRule
    <3> QED
      BY <1>0, <2>0, <3>3, <3>4, <3>5, ReadKept
  <2>2. CASE EnableRule \/ DisableRule
    <3>1. PICK c \in Rules(order), b \in BOOLEAN : cell' = [cell EXCEPT ![c].enabled = b]
      BY <1>0, <2>2, SwitchFacts
    <3>2. cell[c] \in Rule /\ cell' = [cell EXCEPT ![c] = [cell[c] EXCEPT !.enabled = b]]
      BY <1>0, <3>1
    <3>3. \A d \in Cells : cell'[d].filter = cell[d].filter
      BY <1>0, <3>1, <3>2 DEF Rule
    <3>4. editor.pc = "idle" /\ editor'.pc = "clear" /\ Overlapped("update") /\ order' = order
      BY <1>0, <2>2, SwitchFacts
    <3>5. \A d \in Rules(order') : cell'[d].filter # "freed"
      BY <1>0, <3>3, <3>4 DEF ReadInv
    <3> QED
      BY <1>0, <2>0, <3>4, <3>5, ReadKept
  <2>3. CASE SetRuleFullCone
    <3>1. PICK c \in Rules(order), a \in Actions : cell' = [cell EXCEPT ![c].action = a]
      BY <1>0, <2>3, ConeFacts
    <3>2. cell[c] \in Rule /\ cell' = [cell EXCEPT ![c] = [cell[c] EXCEPT !.action = a]]
      BY <1>0, <3>1
    <3>3. \A d \in Cells : cell'[d].filter = cell[d].filter
      BY <1>0, <3>1, <3>2 DEF Rule
    <3>4. editor.pc = "idle" /\ editor' = editor /\ Overlapped("update") /\ order' = order
      BY <1>0, <2>3, ConeFacts
    <3>5. \A d \in Rules(order') : cell'[d].filter # "freed"
      BY <1>0, <3>3, <3>4 DEF ReadInv
    <3> QED
      BY <1>0, <2>0, <3>4, <3>5, ReadKept
  <2>4. CASE DeleteRule
    <3>1. /\ editor.pc = "idle" /\ editor'.pc = "free" /\ Overlapped("frees")
          /\ Rules(order') \subseteq Rules(order) /\ \A d \in Cells : SameRule(d)
      BY <1>0, <2>4, DeleteFacts
    <3>2. \A d \in Rules(order') : cell'[d].filter # "freed"
      BY <1>0, <3>1 DEF ReadInv, SameRule
    <3> QED
      BY <1>0, <2>0, <3>1, <3>2, ReadFreed
  <2>5. CASE EditRule
    <3>1. /\ editor.pc = "idle" /\ editor'.pc = "filter" /\ Overlapped("frees") /\ order' = order
          /\ \A d \in Cells \ {editor'.rule} : cell'[d] = cell[d]
      BY <1>0, <2>5, EditFacts
    <3>2. \A d \in Rules(order') : cell'[d].filter = "freed" => d = editor'.rule
      BY <1>0, <3>1 DEF ReadInv
    <3> QED
      BY <1>0, <2>0, <3>1, <3>2, ReadFreed
  <2>6. CASE MoveRule
    <3>1. /\ editor.pc = "idle" /\ editor'.pc = "insert" /\ Overlapped("moves")
          /\ Rules(order') = Rules(order) /\ \A d \in Cells : SameRule(d)
      BY <1>0, <2>6, MoveFacts
    <3>2. \A d \in Rules(order') : cell'[d].filter # "freed"
      BY <1>0, <3>1 DEF ReadInv, SameRule
    <3> QED
      BY <1>0, <2>0, <3>1, <3>2, ReadKept
  <2> QED
    BY <1>1, <2>1, <2>2, <2>3, <2>4, <2>5, <2>6 DEF Edit
<1>2. CASE EditorStep
  <2>1. SUFFICES /\ UNCHANGED <<matcher, order>>
                 /\ editor'.pc \in {"filter", "rest"} => editor.pc \in {"filter", "rest"}
                 /\ \A d \in Rules(order) : cell'[d].filter = "freed" => FALSE
    BY DEF ReadInv, Checking, FreedExplained
  <2>2. CASE FlagClear \/ FlagScan
    BY <1>0, <2>2, FlagFacts DEF ReadInv
  <2>3. CASE FreeRule
    BY <1>0, <2>3, FreeFacts DEF ReadInv
  <2>4. CASE EditFilter \/ EditFails \/ EditRest
    <3>1. ~EditRule
      BY <2>4 DEF EditFilter, EditFails, EditRest, EditRule
    <3>2. /\ editor.pc \in {"filter", "rest"} /\ matcher' = matcher /\ order' = order
          /\ editor'.pc \in {"idle", "rest", "clear"}
          /\ \A d \in Cells \ {editor.rule} : cell'[d] = cell[d]
          /\ cell'[editor.rule].filter # "freed" \/ editor.pc = "rest"
          /\ editor.pc = "rest" => cell'[editor.rule].filter = cell[editor.rule].filter
      BY <1>0, <2>4, <3>1, EditFacts
    <3> QED
      BY <1>0, <3>2 DEF ReadInv
  <2>5. CASE MoveInsert
    BY <1>0, <2>5, InsertStepFacts DEF SameRule, ReadInv
  <2>6. CASE MoveLink
    BY <1>0, <2>6, LinkStepFacts DEF SameRule, ReadInv
  <2> QED
    BY <1>2, <2>2, <2>3, <2>4, <2>5, <2>6 DEF EditorStep
<1>3. CASE Check \/ MatcherStep
  <2>0. UNCHANGED <<cell, head, hasActive, editor, order>>
    BY <1>0, <1>3, MatcherFacts
  <2>1. SUFFICES /\ matcher'.pc # "done" => matcher'.verdict = "none"
                 /\ Checking' /\ matcher'.overlap # "frees" =>
                      /\ editor.pc \notin {"filter", "rest"}
                      /\ matcher'.at \in Rules(order) \cup {None}
                      /\ matcher'.wild \in Rules(order) \cup {None}
                 /\ matcher'.verdict = "freed" => matcher'.overlap = "frees"
    BY <2>0 DEF ReadInv, FreedExplained
  <2>2. CASE Check
    BY <1>0, <2>2, CheckFacts DEF Checking
  <2>3. ASSUME NEW c \in Cells \cup {None}, matcher' = GoTo(c), Checking,
               matcher.overlap # "frees" => c \in Rules(order) \cup {None}
        PROVE  /\ matcher'.pc # "done" => matcher'.verdict = "none"
               /\ Checking' /\ matcher'.overlap # "frees" =>
                    /\ editor.pc \notin {"filter", "rest"}
                    /\ matcher'.at \in Rules(order) \cup {None}
                    /\ matcher'.wild \in Rules(order) \cup {None}
               /\ matcher'.verdict # "freed"
    <3>1. matcher.verdict = "none"
      BY <2>3 DEF ReadInv, Checking
    <3>2. CASE c = None /\ matcher.wild = None
      BY <1>0, <2>3, <3>2, GoToFacts, DoneFacts DEF Checking, Actions
    <3>3. CASE c # None \/ matcher.wild # None
      BY <1>0, <2>3, <3>1, <3>3, GoToFacts DEF ReadInv
    <3> QED
      BY <3>2, <3>3
  <2>4. CASE Begin
    BY <1>0, <2>3, <2>4, InsideFacts, TypeFacts DEF Begin, Checking
  <2>5. CASE Visit
    <3>1. Checking /\ matcher.at # None /\ matcher.verdict = "none" /\ matcher.pc = "visit"
      BY <1>0, <2>5 DEF Visit, Checking, AtInv, ReadInv
    <3>2. matcher.overlap # "frees" =>
            cell[matcher.at].live /\ cell[matcher.at].filter # "freed" /\ matcher.at \in Rules(order)
      BY <1>0, <3>1 DEF ReadInv
    <3>3. CASE matcher' = Done("freed") /\ matcher.overlap = "frees"
      BY <1>0, <3>3, DoneFacts DEF Checking
    <3>4. CASE matcher' = Done("null")
      BY <1>0, <3>4, DoneFacts DEF Checking
    <3>5. CASE matcher' = [matcher EXCEPT !.pc = "take"]
      BY <1>0, <3>1, <3>5 DEF Checks, Checking, ReadInv
    <3>6. ASSUME NEW w \in {matcher.at, matcher.wild},
                 matcher' = [matcher EXCEPT !.pc = "next", !.wild = w]
          PROVE  /\ matcher'.pc = "next" /\ matcher'.verdict = "none"
                 /\ matcher'.overlap = matcher.overlap
                 /\ matcher'.at = matcher.at /\ matcher'.wild = w
      BY <1>0, <3>1, <3>6 DEF Checks
    <3> QED
      BY <1>0, <2>5, <3>1, <3>2, <3>3, <3>4, <3>5, <3>6, VisitFacts DEF Checking, ReadInv
  <2>6. CASE Advance
    <3>1. Checking /\ matcher.at # None /\ matcher.pc = "next"
      BY <1>0, <2>6 DEF Advance, Checking, AtInv
    <3>2. matcher.overlap # "frees" =>
            cell[matcher.at].live /\ cell[matcher.at].next \in Rules(order) \cup {None}
      BY <1>0, <3>1, InsideFacts DEF ReadInv
    <3>3. cell[matcher.at].next \in Cells \cup {None}
      BY <1>0, <3>1 DEF Checks, Rule
    <3>4. CASE cell[matcher.at].live
      BY <2>3, <2>6, <3>1, <3>2, <3>3, <3>4 DEF Advance
    <3>5. CASE ~cell[matcher.at].live
      BY <1>0, <2>6, <3>2, <3>5, DoneFacts DEF Advance, Checking
    <3> QED
      BY <3>4, <3>5
  <2>7. CASE Take
    <3>1. Checking /\ matcher.at # None
      BY <1>0, <2>7 DEF Take, Checking, AtInv
    <3>2. matcher.overlap # "frees" => cell[matcher.at].live
      BY <1>0, <3>1 DEF ReadInv
    <3>3. cell[matcher.at].action \in Actions
      BY <1>0, <3>1 DEF Checks, Rule
    <3>4. CASE cell[matcher.at].live
      BY <1>0, <2>7, <3>3, <3>4, DoneFacts DEF Take, Checking, Actions
    <3>5. CASE ~cell[matcher.at].live
      BY <1>0, <2>7, <3>2, <3>5, DoneFacts DEF Take, Checking
    <3> QED
      BY <3>4, <3>5
  <2>8. CASE Finished
    BY <2>8, IdleFacts DEF Finished, Checking
  <2> QED
    BY <1>3, <2>2, <2>4, <2>5, <2>6, <2>7, <2>8 DEF MatcherStep
<1>4. CASE UNCHANGED vars
  BY <1>4 DEF vars, ReadInv, Checking, FreedExplained
<1> QED
  BY <1>1, <1>2, <1>3, <1>4 DEF Next

\* It holds in every state.
LEMMA ReadInvariance == Spec => []ReadInv
<1>1. Init => ReadInv
  BY IdleFacts DEF Init, ReadInv, Checking, FreedExplained, Rules
<1> QED
  BY <1>1, ReadStep, BaseInvariance, PTL DEF Spec

\* match_rule reads freed memory only if a rule was deleted or edited while it
\* ran: rules appended, moved or switched never make it.
THEOREM FreedCorrect == Spec => []FreedExplained
<1>1. ReadInv => FreedExplained
  BY DEF ReadInv
<1> QED
  BY <1>1, ReadInvariance, PTL

-----------------------------------------------------------------------------
(* The verdict *)

\* A rule that decides, and one that is kept in case none does.
Hit(r) == r.enabled /\ Specific(r)
Blank(r) == r.enabled /\ Wildcard(r)

\* Which rule is the best: the first that hits, else the first without filters,
\* else none.
LEMMA BestIs ==
  ASSUME NEW o \in Seq(Cells), NEW mem
  PROVE  /\ \A i \in 1 .. Len(o) :
              Hit(mem[o[i]]) /\ (\A j \in 1 .. i - 1 : ~Hit(mem[o[j]])) => Best(o, mem) = i
         /\ (\A j \in 1 .. Len(o) : ~Hit(mem[o[j]])) =>
              /\ \A k \in 1 .. Len(o) :
                   Blank(mem[o[k]]) /\ (\A j \in 1 .. k - 1 : ~Blank(mem[o[j]])) => Best(o, mem) = k
              /\ (\A j \in 1 .. Len(o) : ~Blank(mem[o[j]])) => Best(o, mem) = 0
<1> DEFINE n == Len(o)
           S == {i \in 1 .. n : Hit(mem[o[i]])}
           W == {i \in 1 .. n : Blank(mem[o[i]])}
<1>1. n \in Nat /\ S \subseteq Nat /\ W \subseteq Nat
  BY OrderFacts
<1>2. Best(o, mem) = IF S # {} THEN Min(S) ELSE IF W # {} THEN Min(W) ELSE 0
  BY DEF Best, Hit, Blank
<1> HIDE DEF n
<1>3. ASSUME NEW T, T \subseteq 1 .. n, NEW i \in T, \A j \in 1 .. i - 1 : j \notin T
      PROVE  Min(T) = i
  <2>1. T \subseteq Nat /\ T # {}
    BY <1>1, <1>3
  <2>2. Min(T) \in T /\ Min(T) <= i
    BY <1>3, <2>1, MinFacts
  <2>3. Min(T) \in 1 .. n /\ i \in 1 .. n
    BY <1>3, <2>2
  <2>4. ~(Min(T) \in 1 .. i - 1)
    BY <1>3, <2>2
  <2> HIDE DEF S, W
  <2> DEFINE m == Min(T)
  <2> HIDE DEF m
  <2>5. m \in 1 .. n /\ m <= i /\ ~(m \in 1 .. i - 1)
    BY <2>2, <2>3, <2>4 DEF m
  <2>6. m = i
    BY <1>1, <2>3, <2>5
  <2> QED
    BY <2>6 DEF m
<1>4. ASSUME NEW i \in 1 .. n, Hit(mem[o[i]]), \A j \in 1 .. i - 1 : ~Hit(mem[o[j]])
      PROVE  Best(o, mem) = i
  <2>1. i \in S /\ \A j \in 1 .. i - 1 : j \notin S
    BY <1>4
  <2> HIDE DEF S
  <2>2. S \subseteq 1 .. n
    BY DEF S
  <2>3. Min(S) = i
    BY <1>3, <2>1, <2>2
  <2> QED
    BY <1>2, <2>1, <2>3
<1>5. ASSUME \A j \in 1 .. n : ~Hit(mem[o[j]]) PROVE S = {}
  BY <1>5
<1>6. ASSUME \A j \in 1 .. n : ~Hit(mem[o[j]]), NEW k \in 1 .. n, Blank(mem[o[k]]),
             \A j \in 1 .. k - 1 : ~Blank(mem[o[j]])
      PROVE  Best(o, mem) = k
  <2>1. k \in W /\ (\A j \in 1 .. k - 1 : j \notin W) /\ S = {}
    BY <1>5, <1>6
  <2> HIDE DEF S, W
  <2>2. W \subseteq 1 .. n
    BY DEF W
  <2>3. Min(W) = k
    BY <1>3, <2>1, <2>2
  <2> QED
    BY <1>2, <2>1, <2>3
<1>7. ASSUME \A j \in 1 .. n : ~Hit(mem[o[j]]), \A j \in 1 .. n : ~Blank(mem[o[j]])
      PROVE  Best(o, mem) = 0
  <2>1. S = {} /\ W = {}
    BY <1>7
  <2> HIDE DEF S, W
  <2> QED
    BY <1>2, <2>1
<1> QED
  BY <1>4, <1>6, <1>7 DEF n

\* The best rule does not depend on what a rule says of no flow: its action
\* and its pointer; nor on rules that are not in the list.
LEMMA BestSame ==
  ASSUME NEW o \in Seq(Cells), NEW mem, NEW mem2,
         \A d \in Rules(o) : /\ mem2[d].enabled = mem[d].enabled
                             /\ mem2[d].name = mem[d].name /\ mem2[d].filter = mem[d].filter
  PROVE  Best(o, mem2) = Best(o, mem)
<1>1. \A i \in 1 .. Len(o) : o[i] \in Rules(o)
  BY DEF Rules
<1>2. {i \in 1 .. Len(o) : mem2[o[i]].enabled /\ Specific(mem2[o[i]])}
        = {i \in 1 .. Len(o) : mem[o[i]].enabled /\ Specific(mem[o[i]])}
  BY <1>1 DEF Specific
<1>3. {i \in 1 .. Len(o) : mem2[o[i]].enabled /\ Wildcard(mem2[o[i]])}
        = {i \in 1 .. Len(o) : mem[o[i]].enabled /\ Wildcard(mem[o[i]])}
  BY <1>1 DEF Wildcard
<1> QED
  BY <1>2, <1>3, Zenon DEF Best

\* The verdict depends on the rules of the list only.
LEMMA VerdictSame ==
  ASSUME NEW o \in Seq(Cells), NEW mem \in [Cells -> Rule], NEW mem2,
         \A d \in Rules(o) : mem2[d] = mem[d]
  PROVE  VerdictOf(o, mem2) = VerdictOf(o, mem)
<1>1. Best(o, mem2) = Best(o, mem)
  BY BestSame
<1>2. Best(o, mem) \in 0 .. Len(o)
  BY VerdictFacts
<1>3. Best(o, mem) # 0 => Best(o, mem) \in 1 .. Len(o)
  BY <1>2, OrderFacts
<1>4. Best(o, mem) # 0 => o[Best(o, mem)] \in Rules(o)
  BY <1>3 DEF Rules
<1> QED
  BY <1>1, <1>4 DEF VerdictOf

\* Edits that leave it possible to say which list a check has judged by.
Followed == matcher.overlap \in {"quiet", "adds", "update"}

\* What the check may have read, the rules being as in now: the same, or one of
\* them as it was before its switch.
Readings(now) ==
  {now} \cup {[now EXCEPT ![c].enabled = b] : c \in Cells, b \in BOOLEAN}

\* The check has read n rules.
Placed(n) ==
  /\ matcher.pc = "begin" => n = 0
  /\ matcher.pc = "visit" => n < Len(order) /\ matcher.at = order[n + 1]
  /\ matcher.pc = "next" => n > 0 /\ matcher.at = order[n]

\* The first n rules of o, as in mem, match no better than wild.
Walked(o, mem, wild, n) ==
  /\ \A j \in 1 .. n : ~Hit(mem[o[j]])
  /\ wild = None => \A j \in 1 .. n : ~Blank(mem[o[j]])
  /\ wild # None =>
       \E k \in 1 .. n : /\ wild = o[k] /\ Blank(mem[o[k]])
                         /\ \A j \in 1 .. k - 1 : ~Blank(mem[o[j]])

\* A check is the walk, so far, of a list whose verdict is allowed.
Walks(n, mem) ==
  /\ Placed(n) /\ Walked(order, mem, matcher.wild, n)
  /\ \A j \in n + 1 .. Len(order) : mem[order[j]] = cell[order[j]]
  /\ VerdictOf(order, mem) \in matcher.allowed
  /\ matcher.overlap # "update" => mem = cell

\* A check that has chosen a rule.
Choice ==
  /\ matcher.at \in Rules(order) /\ cell[matcher.at].action \in matcher.allowed
  /\ matcher.overlap = "quiet" =>
       Best(order, cell) # 0 /\ matcher.at = order[Best(order, cell)]

\* The inductive invariant of the walk.
WalkInv ==
  /\ Checking /\ Followed => editor.pc \in {"idle", "clear", "scan", "free"}
  /\ Followed /\ matcher.pc \in {"begin", "visit", "next"} =>
       \E n \in 0 .. Len(order), mem \in Readings(cell) : Walks(n, mem)
  /\ Followed /\ matcher.pc = "take" => Choice
  /\ VerdictRight

\* A reading has the rules' types and actions.
LEMMA ReadingFacts ==
  ASSUME NEW now \in [Cells -> Rule], NEW mem \in Readings(now)
  PROVE  /\ mem \in [Cells -> Rule]
         /\ \A d \in Cells : mem[d].action = now[d].action
<1>1. CASE mem = now
  BY <1>1
<1>2. ASSUME NEW c \in Cells, NEW b \in BOOLEAN, mem = [now EXCEPT ![c].enabled = b]
      PROVE  /\ mem \in [Cells -> Rule]
             /\ \A d \in Cells : mem[d].action = now[d].action
  <2>1. now[c] \in Rule /\ mem[c] = [now[c] EXCEPT !.enabled = b]
        /\ \A d \in Cells \ {c} : mem[d] = now[d]
    BY <1>2
  <2>2. mem[c] \in Rule /\ mem[c].action = now[c].action
    BY <2>1 DEF Rule
  <2> QED
    BY <1>2, <2>1, <2>2
<1> QED
  BY <1>1, <1>2 DEF Readings

\* The edits that a check can follow: its place stays, and its verdict may be
\* that of the new list too.
LEMMA WalkEdit ==
  ASSUME Base, Base', WalkInv, matcher.pc # "done",
         NEW kind \in {"adds", "update", "moves", "frees"}, Overlapped(kind)
  PROVE  /\ UNCHANGED <<matcher.pc, matcher.at, matcher.wild>> /\ VerdictRight'
         /\ Checking /\ Followed' =>
              /\ Followed /\ kind \in {"adds", "update"} /\ matcher'.overlap = kind
              /\ matcher'.allowed = matcher.allowed \cup {VerdictOf(order', cell')}
              /\ kind = "adds" => matcher.overlap # "update"
              /\ kind = "update" => matcher.overlap = "quiet"
         /\ ~Checking => matcher.pc = "idle" /\ WalkInv'
<1>1. /\ UNCHANGED <<matcher.pc, matcher.at, matcher.wild>>
      /\ matcher.pc = "idle" => matcher' = matcher
      /\ matcher.pc # "idle" =>
           /\ matcher'.overlap = Worse(matcher.overlap, kind)
           /\ matcher'.allowed = IF Worse(matcher.overlap, kind) \in {"adds", "update"}
                                 THEN matcher.allowed \cup {VerdictOf(order', cell')} ELSE {}
  BY OverlapFacts, TypeFacts DEF Base, TypeOK, Rule
<1>2. VerdictRight'
  BY <1>1 DEF VerdictRight
<1>3. Checking <=> matcher.pc # "idle"
  BY TypeFacts DEF Base, Checking, Checks
<1>4. ASSUME Checking, Followed'
      PROVE  /\ Followed /\ kind \in {"adds", "update"} /\ Worse(matcher.overlap, kind) = kind
             /\ kind = "adds" => matcher.overlap # "update"
             /\ kind = "update" => matcher.overlap = "quiet"
  <2>1. Worse(matcher.overlap, kind) \in {"quiet", "adds", "update"}
    BY <1>1, <1>3, <1>4 DEF Followed
  <2>2. matcher.overlap \in Overlaps
    BY TypeFacts DEF Base, Checks
  <2> QED
    BY <2>1, <2>2 DEF Worse, Followed, Overlaps
<1>5. ~Checking => WalkInv'
  BY <1>1, <1>2, <1>3 DEF WalkInv, Checking
<1> QED
  BY <1>1, <1>2, <1>3, <1>4, <1>5

\* The walk goes on from a pointer of the list, or its best rule is known.
LEMMA WalkOn ==
  ASSUME Base, WalkInv, Followed, matcher.pc \in {"begin", "next"},
         NEW n \in 0 .. Len(order), NEW mem \in Readings(cell), Walks(n, mem),
         matcher' = GoTo(NextOf(order, n)), UNCHANGED <<cell, head, hasActive, editor, order>>
  PROVE  WalkInv'
<1>1. /\ order \in Seq(Cells) /\ Len(order) \in Nat /\ cell \in [Cells -> Rule]
      /\ matcher \in Checks /\ \A i \in 1 .. Len(order) : order[i] \in Cells /\ order[i] # None
      /\ \A i \in 1 .. Len(order) : order[i] \in Rules(order)
  BY TypeFacts, OrderFacts DEF Base
<1>2. NextOf(order, n) \in Cells \cup {None} /\ NextOf(order, n) = None <=> n = Len(order)
  BY <1>1 DEF NextOf
<1>3. editor.pc \in {"idle", "clear", "scan", "free"}
  BY DEF WalkInv, Checking
<1>4. /\ mem \in [Cells -> Rule] /\ \A d \in Cells : mem[d].action = cell[d].action
  BY <1>1, ReadingFacts
<1>5. CASE n # Len(order)
  <2>1. /\ matcher'.pc = "visit" /\ matcher'.at = order[n + 1] /\ matcher'.wild = matcher.wild
        /\ matcher'.overlap = matcher.overlap /\ matcher'.allowed = matcher.allowed /\ n < Len(order)
    <3>1. NextOf(order, n) # None /\ NextOf(order, n) = order[n + 1] /\ n < Len(order)
      BY <1>1, <1>2, <1>5 DEF NextOf
    <3> QED
      BY <1>1, <1>2, <3>1, GoToFacts
  <2>2. Walks(n, mem)'
    BY <2>1 DEF Walks, Placed
  <2> QED
    BY <1>3, <2>1, <2>2 DEF WalkInv, VerdictRight
<1>6. CASE n = Len(order) /\ matcher.wild # None
  <2>1. PICK k \in 1 .. n : /\ matcher.wild = order[k] /\ Blank(mem[order[k]])
                            /\ \A j \in 1 .. k - 1 : ~Blank(mem[order[j]])
    BY <1>6 DEF Walks, Walked
  <2>2. \A j \in 1 .. Len(order) : ~Hit(mem[order[j]])
    BY <1>6 DEF Walks, Walked
  <2>3. Best(order, mem) = k
    BY <1>1, <1>6, <2>1, <2>2, BestIs
  <2>4. k \in 1 .. Len(order) /\ k # 0
    BY <1>6, <2>1
  <2>5. VerdictOf(order, mem) = cell[matcher.wild].action
    BY <1>1, <1>4, <2>1, <2>3, <2>4 DEF VerdictOf
  <2>6. /\ matcher'.pc = "take" /\ matcher'.at = matcher.wild
        /\ matcher'.overlap = matcher.overlap /\ matcher'.allowed = matcher.allowed
    BY <1>1, <1>2, <1>6, GoToFacts
  <2>7. Choice'
    <3>1. matcher'.at \in Rules(order) /\ cell[matcher'.at].action \in matcher'.allowed
      BY <1>1, <2>1, <2>4, <2>5, <2>6 DEF Walks
    <3>2. ASSUME matcher'.overlap = "quiet"
          PROVE  Best(order, cell) # 0 /\ matcher'.at = order[Best(order, cell)]
      BY <2>1, <2>3, <2>4, <2>6, <3>2 DEF Walks
    <3> QED
      BY <3>1, <3>2 DEF Choice
  <2> QED
    BY <1>3, <2>6, <2>7 DEF WalkInv, VerdictRight
<1>7. CASE n = Len(order) /\ matcher.wild = None
  <2>1. Best(order, mem) = 0
    <3>1. /\ \A j \in 1 .. Len(order) : ~Hit(mem[order[j]])
          /\ \A j \in 1 .. Len(order) : ~Blank(mem[order[j]])
      BY <1>7 DEF Walks, Walked
    <3> QED
      BY <1>1, <3>1, BestIs
  <2>2. "DIRECT" \in matcher.allowed
    BY <2>1 DEF Walks, VerdictOf
  <2>3. /\ matcher'.pc = "done" /\ matcher'.verdict = "DIRECT"
        /\ matcher'.allowed = matcher.allowed \cap {"DIRECT"}
    BY <1>1, <1>2, <1>7, GoToFacts, DoneFacts DEF Actions
  <2> QED
    BY <2>2, <2>3 DEF WalkInv, VerdictRight, Checking
<1> QED
  BY <1>5, <1>6, <1>7

\* A rule is appended: what has been read stays as it was.
LEMMA WalkAdd ==
  ASSUME Base, Base', WalkInv, matcher.pc # "done", AddRule
  PROVE  WalkInv'
<1>1. /\ order \in Seq(Cells) /\ Len(order) \in Nat /\ Rules(order) \subseteq Cells
      /\ \A i \in 1 .. Len(order) : order[i] \in Rules(order)
      /\ TypeOK /\ ListInv /\ cell' \in [Cells -> Rule] /\ order' \in Seq(Cells)
  BY TypeFacts, OrderFacts DEF Base, TypeOK, Rule
<1>2. PICK c \in Cells \ Rules(order) :
        order' = Append(order, c) /\ \A d \in Cells \ {c} : SameRule(d)
  BY <1>1, AddFacts
<1>3. /\ editor'.pc = "clear" /\ Overlapped("adds")
  BY <1>1, AddFacts
<1>4. /\ UNCHANGED <<matcher.pc, matcher.at, matcher.wild>> /\ VerdictRight'
      /\ Checking /\ Followed' =>
           /\ Followed /\ matcher'.overlap = "adds" /\ matcher.overlap # "update"
           /\ matcher'.allowed = matcher.allowed \cup {VerdictOf(order', cell')}
      /\ ~Checking => WalkInv'
  BY <1>3, WalkEdit
<1>5. /\ Len(order') = Len(order) + 1
      /\ \A i \in 1 .. Len(order) : order'[i] = order[i] /\ SameRule(order[i])
      /\ Rules(order) \subseteq Rules(order')
  <2>1. /\ Len(order') = Len(order) + 1 /\ \A i \in 1 .. Len(order) : order'[i] = order[i]
    BY <1>1, <1>2, AppendProperties
  <2>2. 1 .. Len(order) \subseteq 1 .. Len(order) + 1
    BY <1>1
  <2> QED
    BY <1>1, <1>2, <2>1, <2>2 DEF Rules
<1>6. ASSUME Checking, Followed', matcher.pc \in {"begin", "visit", "next"}
      PROVE  \E n \in 0 .. Len(order'), mem \in Readings(cell') : Walks(n, mem)'
  <2>1. PICK n \in 0 .. Len(order), mem \in Readings(cell) : Walks(n, mem)
    BY <1>4, <1>6 DEF WalkInv
  <2>2. mem = cell /\ n \in 0 .. Len(order')
    BY <1>1, <1>4, <1>5, <1>6, <2>1 DEF Walks
  <2>3. \A j \in 1 .. n : /\ j \in 1 .. Len(order) /\ order'[j] = order[j]
                          /\ Hit(cell'[order'[j]]) <=> Hit(cell[order[j]])
                          /\ Blank(cell'[order'[j]]) <=> Blank(cell[order[j]])
    <3>1. \A j \in 1 .. n : j \in 1 .. Len(order)
      BY <1>1, <2>1
    <3> QED
      BY <1>5, <3>1 DEF Hit, Blank, SameRule, Specific, Wildcard
  <2>4. Walked(order', cell', matcher'.wild, n)
    <3>1. /\ \A j \in 1 .. n : ~Hit(cell[order[j]])
          /\ matcher.wild = None => \A j \in 1 .. n : ~Blank(cell[order[j]])
          /\ matcher.wild # None =>
               \E k \in 1 .. n : /\ matcher.wild = order[k] /\ Blank(cell[order[k]])
                                 /\ \A j \in 1 .. k - 1 : ~Blank(cell[order[j]])
      BY <2>1, <2>2 DEF Walks, Walked
    <3>2. \A k \in 1 .. n : \A j \in 1 .. k - 1 : j \in 1 .. n
      BY <2>1
    <3> QED
      BY <1>4, <2>3, <3>1, <3>2 DEF Walked
  <2>5. Placed(n)'
    <3>1. Placed(n)
      BY <2>1 DEF Walks
    <3>2. n < Len(order) => n < Len(order') /\ n + 1 \in 1 .. Len(order)
      BY <1>1, <1>5, <2>1
    <3>3. n > 0 => n \in 1 .. Len(order)
      BY <1>1, <2>1
    <3> QED
      BY <1>4, <1>5, <3>1, <3>2, <3>3 DEF Placed
  <2>6. VerdictOf(order', cell') \in matcher'.allowed
    BY <1>4, <1>6
  <2>7. cell' \in Readings(cell')
    BY DEF Readings
  <2>8. ASSUME NEW new, new = cell' PROVE Walks(n, new)'
    BY <2>4, <2>5, <2>6, <2>8 DEF Walks
  <2> QED
    BY <2>2, <2>7, <2>8
<1>7. ASSUME Checking, Followed', matcher.pc = "take" PROVE Choice'
  <2>1. Choice
    BY <1>4, <1>7 DEF WalkInv
  <2>2. SameRule(matcher.at)
    BY <1>5, <2>1 DEF Choice, Rules
  <2> QED
    BY <1>4, <1>5, <1>7, <2>1, <2>2 DEF Choice, SameRule
<1> QED
  BY <1>3, <1>4, <1>6, <1>7 DEF WalkInv, Checking

\* One field of one rule is written while the check has followed nothing else:
\* if it has read the rule, its walk stays one of the list as it was.
LEMMA WalkUpdate ==
  ASSUME Base, Base', WalkInv, matcher.pc # "done", EnableRule \/ DisableRule \/ SetRuleFullCone
  PROVE  WalkInv'
<1>1. /\ order \in Seq(Cells) /\ Len(order) \in Nat /\ Rules(order) \subseteq Cells
      /\ \A i \in 1 .. Len(order) : order[i] \in Rules(order)
      /\ TypeOK /\ ListInv /\ cell \in [Cells -> Rule] /\ cell' \in [Cells -> Rule]
      /\ Distinct(order)
  BY TypeFacts, OrderFacts DEF Base, TypeOK, Rule, ListInv
<1>2. /\ editor'.pc \in {"idle", "clear"} /\ Overlapped("update") /\ order' = order
  BY <1>1, SwitchFacts, ConeFacts
<1>3. /\ UNCHANGED <<matcher.pc, matcher.at, matcher.wild>> /\ VerdictRight'
      /\ Checking /\ Followed' =>
           /\ Followed /\ matcher'.overlap = "update" /\ matcher.overlap = "quiet"
           /\ matcher'.allowed = matcher.allowed \cup {VerdictOf(order, cell')}
      /\ ~Checking => WalkInv'
  BY <1>2, WalkEdit
<1>4. PICK c \in Rules(order) :
        \/ \E b \in BOOLEAN : cell' = [cell EXCEPT ![c].enabled = b]
        \/ \E a \in Actions : cell' = [cell EXCEPT ![c].action = a]
  BY <1>1, SwitchFacts, ConeFacts
<1>5. \A d \in Cells \ {c} : cell'[d] = cell[d]
  BY <1>1, <1>4
<1>6. \/ /\ cell'[c].action = cell[c].action
         /\ cell = [cell' EXCEPT ![c].enabled = cell[c].enabled]
      \/ /\ cell'[c].enabled = cell[c].enabled /\ cell'[c].name = cell[c].name
         /\ cell'[c].filter = cell[c].filter
  <2>1. c \in Cells /\ cell[c] \in Rule
    BY <1>1
  <2>2. ASSUME NEW b \in BOOLEAN, cell' = [cell EXCEPT ![c].enabled = b]
        PROVE  /\ cell'[c].action = cell[c].action
               /\ cell = [cell' EXCEPT ![c].enabled = cell[c].enabled]
    <3>1. cell'[c] = [cell[c] EXCEPT !.enabled = b]
      BY <1>1, <2>1, <2>2
    <3>2. [cell'[c] EXCEPT !.enabled = cell[c].enabled] = cell[c] /\ cell'[c].action = cell[c].action
      BY <2>1, <3>1 DEF Rule
    <3>3. ASSUME NEW d \in Cells
          PROVE  [cell' EXCEPT ![c].enabled = cell[c].enabled][d] = cell[d]
      BY <1>1, <1>5, <2>1, <3>2
    <3> QED
      BY <1>1, <3>2, <3>3
  <2>3. ASSUME NEW a \in Actions, cell' = [cell EXCEPT ![c].action = a]
        PROVE  /\ cell'[c].enabled = cell[c].enabled /\ cell'[c].name = cell[c].name
               /\ cell'[c].filter = cell[c].filter
    <3>1. cell'[c] = [cell[c] EXCEPT !.action = a]
      BY <1>1, <2>1, <2>3
    <3> QED
      BY <2>1, <3>1 DEF Rule
  <2> QED
    BY <1>4, <2>2, <2>3
<1>7. ASSUME Checking, Followed', matcher.pc \in {"begin", "visit", "next"}
      PROVE  \E n \in 0 .. Len(order'), mem \in Readings(cell') : Walks(n, mem)'
  <2>1. PICK n \in 0 .. Len(order), mem \in Readings(cell) : Walks(n, mem)
    BY <1>3, <1>7 DEF WalkInv
  <2>2. mem = cell /\ Placed(n) /\ Walked(order, cell, matcher.wild, n)
        /\ VerdictOf(order, cell) \in matcher.allowed
    BY <1>3, <1>7, <2>1 DEF Walks
  <2>3. Placed(n)'
    BY <1>2, <1>3, <2>2 DEF Placed
  <2>4. \A j \in 1 .. n : j \in 1 .. Len(order)
    BY <1>1, <2>1
  <2>5. CASE /\ cell'[c].action = cell[c].action
             /\ cell = [cell' EXCEPT ![c].enabled = cell[c].enabled]
             /\ \E j \in 1 .. n : c = order[j]
    <3>1. cell \in Readings(cell')
      <4>1. c \in Cells /\ cell[c].enabled \in BOOLEAN
        BY <1>1 DEF Rule
      <4> QED
        BY <2>5, <4>1 DEF Readings
    <3>2. \A j \in n + 1 .. Len(order) : cell'[order[j]] = cell[order[j]]
      <4>1. ASSUME NEW j \in n + 1 .. Len(order) PROVE cell'[order[j]] = cell[order[j]]
        <5>1. j \in 1 .. Len(order) /\ j \notin 1 .. n
          BY <1>1, <2>1
        <5>2. order[j] \in Cells \ {c}
          BY <1>1, <2>4, <2>5, <5>1 DEF Distinct
        <5> QED
          BY <1>5, <5>2
      <4> QED
        BY <4>1
    <3>3. ASSUME NEW old, old = cell PROVE Walks(n, old)'
      BY <1>2, <1>3, <1>7, <2>2, <2>3, <3>2, <3>3 DEF Walks
    <3> QED
      BY <1>2, <2>1, <3>1, <3>3
  <2>6. CASE \/ /\ cell'[c].enabled = cell[c].enabled /\ cell'[c].name = cell[c].name
                /\ cell'[c].filter = cell[c].filter
             \/ ~\E j \in 1 .. n : c = order[j]
    <3>1. cell' \in Readings(cell')
      BY DEF Readings
    <3>2. \A j \in 1 .. n : /\ Hit(cell'[order[j]]) <=> Hit(cell[order[j]])
                            /\ Blank(cell'[order[j]]) <=> Blank(cell[order[j]])
      <4>1. ASSUME NEW j \in 1 .. n
            PROVE  /\ cell'[order[j]].enabled = cell[order[j]].enabled
                   /\ cell'[order[j]].name = cell[order[j]].name
                   /\ cell'[order[j]].filter = cell[order[j]].filter
        <5>1. order[j] \in Cells
          BY <1>1, <2>4
        <5>2. CASE order[j] = c
          BY <2>6, <5>2
        <5>3. CASE order[j] # c
          BY <1>5, <5>1, <5>3
        <5> QED
          BY <5>2, <5>3
      <4> QED
        BY <4>1 DEF Hit, Blank, Specific, Wildcard
    <3>3. Walked(order, cell', matcher.wild, n)
      <4>1. \A k \in 1 .. n : \A j \in 1 .. k - 1 : j \in 1 .. n
        BY <2>1
      <4> QED
        BY <2>2, <3>2, <4>1 DEF Walked
    <3>4. ASSUME NEW new, new = cell' PROVE Walks(n, new)'
      BY <1>2, <1>3, <1>7, <2>3, <3>3, <3>4 DEF Walks
    <3> QED
      BY <1>2, <2>1, <3>1, <3>4
  <2> QED
    BY <1>6, <2>5, <2>6
<1>8. ASSUME Checking, Followed', matcher.pc = "take" PROVE Choice'
  <2>1. /\ matcher.at \in Rules(order) /\ cell[matcher.at].action \in matcher.allowed
        /\ Best(order, cell) # 0 /\ matcher.at = order[Best(order, cell)]
    BY <1>3, <1>8 DEF WalkInv, Choice
  <2>2. cell'[matcher.at].action \in matcher'.allowed
    <3>1. CASE cell'[c].action = cell[c].action
      BY <1>1, <1>3, <1>5, <1>8, <2>1, <3>1
    <3>2. CASE /\ cell'[c].enabled = cell[c].enabled /\ cell'[c].name = cell[c].name
               /\ cell'[c].filter = cell[c].filter
      <4>1. \A d \in Rules(order) : /\ cell'[d].enabled = cell[d].enabled
                                    /\ cell'[d].name = cell[d].name
                                    /\ cell'[d].filter = cell[d].filter
        BY <1>1, <1>5, <3>2
      <4>2. Best(order, cell') = Best(order, cell)
        BY <1>1, <4>1, BestSame
      <4>3. VerdictOf(order, cell') = cell'[matcher.at].action
        BY <2>1, <4>2 DEF VerdictOf
      <4> QED
        BY <1>3, <1>8, <4>3
    <3> QED
      BY <1>6, <3>1, <3>2
  <2> QED
    BY <1>2, <1>3, <1>8, <2>1, <2>2 DEF Choice
<1> QED
  BY <1>2, <1>3, <1>7, <1>8 DEF WalkInv, Checking

\* What an edit still does while a check follows it touches no rule of the list.
LEMMA WalkEditor ==
  ASSUME Base, Base', WalkInv, EditorStep
  PROVE  WalkInv'
<1>1. /\ order \in Seq(Cells) /\ Len(order) \in Nat /\ Rules(order) \subseteq Cells
      /\ \A i \in 1 .. Len(order) : order[i] \in Rules(order)
      /\ TypeOK /\ ListInv /\ cell \in [Cells -> Rule] /\ cell' \in [Cells -> Rule]
  BY TypeFacts, OrderFacts DEF Base, TypeOK, Rule
<1>2. matcher' = matcher /\ order' = order
  BY DEF EditorStep, FlagClear, FlagScan, FreeRule, EditFilter, EditFails, EditRest,
         MoveInsert, MoveLink
<1>3. CASE ~(Checking /\ Followed)
  BY <1>2, <1>3 DEF WalkInv, Checking, Followed, VerdictRight
<1>4. CASE Checking /\ Followed
  <2>1. editor.pc \in {"idle", "clear", "scan", "free"}
    BY <1>4 DEF WalkInv
  <2>2. FlagClear \/ FlagScan \/ FreeRule
    BY <2>1 DEF EditorStep, EditFilter, EditFails, EditRest, MoveInsert, MoveLink
  <2>3. /\ editor'.pc \in {"idle", "clear", "scan"}
        /\ \A d \in Rules(order) : cell'[d] = cell[d]
    BY <1>1, <2>2, FlagFacts, FreeFacts
  <2>4. ASSUME matcher.pc \in {"begin", "visit", "next"}
        PROVE  \E n \in 0 .. Len(order), mem \in Readings(cell') : Walks(n, mem)'
    <3>1. PICK n \in 0 .. Len(order), mem \in Readings(cell) : Walks(n, mem)
      BY <1>4, <2>4 DEF WalkInv
    <3>2. PICK new \in Readings(cell') : /\ \A d \in Rules(order) : new[d] = mem[d]
                                         /\ mem = cell => new = cell'
      <4>1. CASE mem = cell
        BY <2>3, <4>1 DEF Readings
      <4>2. CASE mem # cell
        <5>1. PICK c \in Cells, b \in BOOLEAN : mem = [cell EXCEPT ![c].enabled = b]
          BY <3>1, <4>2 DEF Readings
        <5> DEFINE new == [cell' EXCEPT ![c].enabled = b]
        <5>2. new \in Readings(cell')
          BY DEF Readings
        <5>3. \A d \in Rules(order) : new[d] = mem[d]
          BY <1>1, <2>3, <5>1
        <5> QED
          BY <4>2, <5>2, <5>3
      <4> QED
        BY <4>1, <4>2
    <3>3. VerdictOf(order, new) = VerdictOf(order, mem)
      <4>1. mem \in [Cells -> Rule]
        BY <1>1, <3>1, ReadingFacts
      <4> QED
        BY <1>1, <3>2, <4>1, VerdictSame
    <3>4. \A j \in 1 .. n : j \in 1 .. Len(order)
      BY <1>1, <3>1
    <3>5. Walked(order, new, matcher.wild, n)
      <4>1. \A j \in 1 .. n : new[order[j]] = mem[order[j]]
        BY <1>1, <3>2, <3>4
      <4>2. \A k \in 1 .. n : \A j \in 1 .. k - 1 : j \in 1 .. n
        BY <3>1
      <4> QED
        BY <3>1, <4>1, <4>2 DEF Walks, Walked
    <3>6. \A j \in n + 1 .. Len(order) : new[order[j]] = cell'[order[j]]
      <4>1. \A j \in n + 1 .. Len(order) : j \in 1 .. Len(order)
        BY <1>1, <3>1
      <4> QED
        BY <1>1, <2>3, <3>1, <3>2, <4>1 DEF Walks
    <3>7. Walks(n, new)'
      BY <1>2, <3>1, <3>2, <3>3, <3>5, <3>6 DEF Walks, Placed
    <3> QED
      BY <3>1, <3>2, <3>7
  <2>5. ASSUME matcher.pc = "take" PROVE Choice'
    <3>1. Choice
      BY <1>4, <2>5 DEF WalkInv
    <3>2. Best(order, cell') = Best(order, cell)
      BY <1>1, <2>3, BestSame
    <3> QED
      BY <1>2, <2>3, <3>1, <3>2 DEF Choice
  <2> QED
    BY <1>2, <1>4, <2>3, <2>4, <2>5 DEF WalkInv, VerdictRight, Checking
<1> QED
  BY <1>3, <1>4

\* The steps of the check itself.
LEMMA WalkCheck ==
  ASSUME Base, ReadInv, WalkInv, Check \/ MatcherStep
  PROVE  WalkInv'
<1>1. /\ order \in Seq(Cells) /\ Len(order) \in Nat /\ Rules(order) \subseteq Cells
      /\ \A i \in 1 .. Len(order) : order[i] \in Rules(order)
      /\ TypeOK /\ ListInv /\ AtInv /\ cell \in [Cells -> Rule] /\ matcher \in Checks
  BY TypeFacts, OrderFacts DEF Base
<1>2. UNCHANGED <<cell, head, hasActive, editor, order>>
  BY <1>1, MatcherFacts
<1>3. CASE Check
  <2>1. /\ matcher'.pc = "begin" \/ (matcher'.pc = "done" /\ matcher'.verdict = "unruled")
        /\ matcher'.wild = None
        /\ matcher'.overlap = CASE editor.pc \in {"insert", "link"} -> "moves"
                                [] editor.pc \in {"filter", "rest"} -> "frees"
                                [] OTHER -> "quiet"
        /\ matcher'.overlap = "quiet" => matcher'.allowed = {VerdictOf(order, cell)}
    BY <1>1, <1>3, CheckFacts
  <2>2. Followed' => /\ matcher'.overlap = "quiet" /\ editor.pc \notin {"insert", "link", "filter", "rest"}
    BY <2>1 DEF Followed
  <2>3. editor.pc \in {"idle", "clear", "scan", "free", "filter", "rest", "insert", "link"}
    BY TypeFacts DEF Base, Editors
  <2>4. ASSUME Followed', matcher'.pc = "begin", NEW mem, mem = cell PROVE Walks(0, mem)'
    BY <1>2, <2>1, <2>2, <2>4 DEF Walks, Placed, Walked
  <2>5. cell \in Readings(cell) /\ 0 \in 0 .. Len(order)
    BY <1>1 DEF Readings
  <2>6. VerdictRight'
    BY <2>1 DEF VerdictRight, Actions
  <2> QED
    BY <1>2, <2>1, <2>2, <2>3, <2>4, <2>5, <2>6 DEF WalkInv
<1>4. CASE Begin \/ Advance
  <2>1. matcher.pc \in {"begin", "next"}
    BY <1>4 DEF Begin, Advance
  <2>2. \/ matcher' = Done("freed")
        \/ matcher.pc = "begin" /\ matcher' = GoTo(head)
        \/ matcher.pc = "next" /\ matcher' = GoTo(cell[matcher.at].next)
    BY <1>4 DEF Begin, Advance
  <2>3. CASE matcher' = Done("freed")
    <3>1. matcher'.pc = "done" /\ matcher'.verdict = "freed"
      BY <1>1, <2>3, DoneFacts
    <3> QED
      BY <3>1 DEF WalkInv, VerdictRight, Checking, Actions
  <2>4. CASE matcher' # Done("freed") /\ Followed
    <3>1. PICK n \in 0 .. Len(order), mem \in Readings(cell) : Walks(n, mem)
      BY <2>1, <2>4 DEF WalkInv
    <3>2. ~Moving
      BY <2>1, <2>4 DEF WalkInv, Checking, Moving
    <3>3. Linked(order, head, cell)
      BY <1>1, <3>2 DEF ListInv
    <3>4. matcher' = GoTo(NextOf(order, n))
      <4>1. CASE matcher.pc = "begin"
        BY <2>2, <2>4, <3>1, <3>3, <4>1 DEF Walks, Placed, Linked
      <4>2. CASE matcher.pc = "next"
        <5>1. n \in 1 .. Len(order) /\ matcher.at = order[n]
          BY <1>1, <3>1, <4>2 DEF Walks, Placed
        <5> QED
          BY <2>2, <2>4, <3>3, <4>2, <5>1 DEF Linked
      <4> QED
        BY <2>1, <4>1, <4>2
    <3> QED
      BY <1>2, <2>1, <2>4, <3>1, <3>4, WalkOn
  <2>5. CASE matcher' # Done("freed") /\ ~Followed
    <3>1. PICK c \in Cells \cup {None} : matcher' = GoTo(c)
      <4>1. head \in Cells \cup {None}
        BY <1>1, TypeFacts
      <4>2. matcher.pc = "next" => cell[matcher.at].next \in Cells \cup {None}
        BY <1>1 DEF AtInv, Checks, Rule
      <4> QED
        BY <2>2, <2>5, <4>1, <4>2
    <3>2. matcher'.overlap = matcher.overlap
      BY <1>1, <3>1, GoToFacts
    <3> QED
      BY <2>5, <3>2 DEF WalkInv, VerdictRight, Followed
  <2> QED
    BY <2>3, <2>4, <2>5
<1>5. CASE Visit
  <2> DEFINE r == cell[matcher.at]
  <2>1. matcher.at # None /\ matcher.pc = "visit"
    BY <1>1, <1>5 DEF Visit, AtInv
  <2>2. /\ matcher'.overlap = matcher.overlap
        /\ \/ matcher' = Done("freed") \/ matcher' = Done("null")
           \/ /\ Hit(r) /\ matcher' = [matcher EXCEPT !.pc = "take"]
           \/ /\ ~Hit(r)
              /\ matcher' = [matcher EXCEPT !.pc = "next",
                   !.wild = IF Blank(r) /\ @ = None THEN matcher.at ELSE @]
    BY <1>1, <1>5, <2>1, VisitFacts DEF Hit, Blank
  <2>3. CASE matcher' = Done("freed") \/ matcher' = Done("null")
    <3>1. matcher'.pc = "done" /\ matcher'.verdict \in {"freed", "null"}
      BY <1>1, <2>3, DoneFacts
    <3> QED
      BY <3>1 DEF WalkInv, VerdictRight, Checking, Actions
  <2>4. CASE ~Followed /\ ~(matcher' = Done("freed") \/ matcher' = Done("null"))
    <3>1. matcher'.pc # "done"
      BY <1>1, <2>2, <2>4 DEF Checks
    <3> QED
      BY <2>2, <2>4, <3>1 DEF WalkInv, VerdictRight, Followed
  <2>5. CASE Followed /\ ~(matcher' = Done("freed") \/ matcher' = Done("null"))
    <3>1. PICK n \in 0 .. Len(order), mem \in Readings(cell) : Walks(n, mem)
      BY <2>1, <2>5 DEF WalkInv
    <3>2. /\ n + 1 \in 1 .. Len(order) /\ n + 1 \in n + 1 .. Len(order) /\ n \in 0 .. Len(order)
          /\ matcher.at = order[n + 1] /\ mem[order[n + 1]] = r
          /\ Walked(order, mem, matcher.wild, n)
      <4>1. n < Len(order) /\ matcher.at = order[n + 1] /\ Walked(order, mem, matcher.wild, n)
        BY <2>1, <3>1 DEF Walks, Placed
      <4>2. n + 1 \in 1 .. Len(order) /\ n + 1 \in n + 1 .. Len(order)
        BY <1>1, <3>1, <4>1
      <4> QED
        BY <3>1, <4>1, <4>2 DEF Walks
    <3>3. /\ mem \in [Cells -> Rule] /\ \A d \in Cells : mem[d].action = cell[d].action
      BY <1>1, <3>1, ReadingFacts
    <3>4. editor.pc \in {"idle", "clear", "scan", "free"}
      BY <2>1, <2>5 DEF WalkInv, Checking
    <3> HIDE DEF r
    <3>5. CASE Hit(r) /\ matcher' = [matcher EXCEPT !.pc = "take"]
      <4>1. /\ matcher'.pc = "take" /\ matcher'.at = matcher.at
            /\ matcher'.allowed = matcher.allowed /\ matcher'.overlap = matcher.overlap
        BY <1>1, <3>5 DEF Checks
      <4>2. Best(order, mem) = n + 1
        <5>1. (n + 1) - 1 = n
          BY <3>1
        <5>2. \A j \in 1 .. (n + 1) - 1 : ~Hit(mem[order[j]])
          BY <3>2, <5>1 DEF Walked
        <5> QED
          BY <1>1, <3>2, <3>5, <5>2, BestIs
      <4>3. n + 1 # 0
        BY <3>1
      <4>4. VerdictOf(order, mem) = cell[matcher.at].action
        BY <1>1, <3>2, <3>3, <4>2, <4>3 DEF VerdictOf
      <4>5. Choice'
        <5>1. matcher.at \in Rules(order) /\ cell[matcher.at].action \in matcher.allowed
          BY <1>1, <3>1, <3>2, <4>4 DEF Walks
        <5>2. ASSUME matcher.overlap = "quiet"
              PROVE  Best(order, cell) # 0 /\ matcher.at = order[Best(order, cell)]
          BY <3>1, <3>2, <4>2, <4>3, <5>2 DEF Walks
        <5> QED
          BY <1>2, <4>1, <5>1, <5>2 DEF Choice
      <4> QED
        BY <1>2, <3>4, <4>1, <4>5 DEF WalkInv, VerdictRight
    <3>6. ASSUME ~Hit(r),
                 matcher' = [matcher EXCEPT !.pc = "next",
                   !.wild = IF Blank(r) /\ @ = None THEN matcher.at ELSE @]
          PROVE  WalkInv'
      <4> DEFINE w == IF Blank(r) /\ matcher.wild = None THEN matcher.at ELSE matcher.wild
      <4>1. matcher' = [matcher EXCEPT !.pc = "next", !.wild = w]
        BY <3>6
      <4> HIDE DEF w
      <4>2. /\ matcher'.pc = "next" /\ matcher'.at = matcher.at /\ matcher'.wild = w
            /\ matcher'.allowed = matcher.allowed /\ matcher'.overlap = matcher.overlap
        BY <1>1, <4>1 DEF Checks
      <4>3. /\ \A j \in 1 .. n + 1 : j \in 1 .. n \/ j = n + 1
            /\ 1 .. n \subseteq 1 .. n + 1 /\ n + 1 \in 1 .. n + 1 /\ (n + 1) - 1 = n
        BY <3>1
      <4>4. /\ \A j \in 1 .. n : ~Hit(mem[order[j]])
            /\ matcher.wild = None => \A j \in 1 .. n : ~Blank(mem[order[j]])
            /\ matcher.wild # None =>
                 \E k \in 1 .. n : /\ matcher.wild = order[k] /\ Blank(mem[order[k]])
                                   /\ \A j \in 1 .. k - 1 : ~Blank(mem[order[j]])
        BY <3>2 DEF Walked
      <4>5. Walked(order, mem, w, n + 1)
        <5>1. \A j \in 1 .. n + 1 : ~Hit(mem[order[j]])
          BY <3>2, <3>6, <4>3, <4>4
        <5>2. CASE matcher.wild # None
          BY <4>3, <4>4, <5>1, <5>2 DEF Walked, w
        <5>3. CASE matcher.wild = None /\ Blank(r)
          <6>1. w = order[n + 1] /\ w # None
            BY <2>1, <3>2, <5>3 DEF w
          <6>2. \A j \in 1 .. (n + 1) - 1 : ~Blank(mem[order[j]])
            BY <4>3, <4>4, <5>3
          <6> QED
            BY <3>2, <4>3, <5>1, <5>3, <6>1, <6>2 DEF Walked
        <5>4. CASE matcher.wild = None /\ ~Blank(r)
          BY <3>2, <4>3, <4>4, <5>1, <5>4 DEF Walked, w
        <5> QED
          BY <5>2, <5>3, <5>4
      <4>6. Walks(n + 1, mem)'
        <5>1. n + 1 > 0 /\ \A j \in (n + 1) + 1 .. Len(order) : j \in n + 1 .. Len(order)
          BY <1>1, <3>1
        <5> QED
          BY <1>2, <3>1, <3>2, <4>2, <4>5, <5>1 DEF Walks, Placed
      <4>7. n + 1 \in 0 .. Len(order)
        BY <3>2
      <4> QED
        BY <1>2, <3>1, <3>4, <4>2, <4>6, <4>7 DEF WalkInv, VerdictRight
    <3> QED
      BY <2>2, <2>5, <3>5, <3>6
  <2> QED
    BY <2>3, <2>4, <2>5
<1>6. CASE Take
  <2>1. matcher.at # None /\ matcher.pc = "take"
    BY <1>1, <1>6 DEF Take, AtInv
  <2>2. matcher.at \in Cells /\ cell[matcher.at].action \in Actions
    BY <1>1, <2>1 DEF Checks, Rule
  <2>3. CASE cell[matcher.at].live
    <3>1. /\ matcher'.pc = "done" /\ matcher'.verdict = cell[matcher.at].action
          /\ matcher'.overlap = matcher.overlap
          /\ matcher'.allowed = matcher.allowed \cap {cell[matcher.at].action}
      BY <1>1, <1>6, <2>2, <2>3, DoneFacts DEF Take
    <3>2. Followed => cell[matcher.at].action \in matcher.allowed
      BY <2>1 DEF WalkInv, Choice
    <3> QED
      BY <3>1, <3>2 DEF WalkInv, VerdictRight, Checking, Followed
  <2>4. CASE ~cell[matcher.at].live
    <3>1. matcher'.pc = "done" /\ matcher'.verdict = "freed"
      BY <1>1, <1>6, <2>4, DoneFacts DEF Take
    <3> QED
      BY <3>1 DEF WalkInv, VerdictRight, Checking, Actions
  <2> QED
    BY <2>3, <2>4
<1>7. CASE Finished
  <2>1. matcher'.pc = "idle"
    BY <1>7, IdleFacts DEF Finished
  <2> QED
    BY <2>1 DEF WalkInv, VerdictRight, Checking
<1> QED
  BY <1>3, <1>4, <1>5, <1>6, <1>7 DEF MatcherStep

\* Every step keeps the invariant of the walk.
LEMMA WalkStep == Base /\ ReadInv /\ WalkInv /\ [Next]_vars => WalkInv'
<1> SUFFICES ASSUME Base, ReadInv, WalkInv, [Next]_vars PROVE WalkInv'
  OBVIOUS
<1>0. Base' /\ TypeOK /\ ListInv
  BY BaseStep DEF Base
<1>1. CASE Edit
  <2>0. matcher.pc # "done"
    BY <1>1 DEF Edit
  <2>1. CASE AddRule
    BY <1>0, <2>0, <2>1, WalkAdd
  <2>2. CASE EnableRule \/ DisableRule \/ SetRuleFullCone
    BY <1>0, <2>0, <2>2, WalkUpdate
  <2>3. CASE DeleteRule \/ EditRule \/ MoveRule
    <3>1. PICK kind \in {"moves", "frees"} : Overlapped(kind)
      BY <1>0, <2>3, DeleteFacts, EditFacts, MoveFacts
    <3>2. /\ UNCHANGED <<matcher.pc, matcher.at, matcher.wild>> /\ VerdictRight'
          /\ ~(Checking /\ Followed') /\ (~Checking => WalkInv')
      BY <1>0, <2>0, <3>1, WalkEdit
    <3> QED
      BY <3>2 DEF WalkInv, Checking
  <2> QED
    BY <1>1, <2>1, <2>2, <2>3 DEF Edit
<1>2. CASE EditorStep
  BY <1>0, <1>2, WalkEditor
<1>3. CASE Check \/ MatcherStep
  BY <1>3, WalkCheck
<1>4. CASE UNCHANGED vars
  BY <1>4 DEF vars, WalkInv, Checking, Followed, Walks, Placed, Choice, VerdictRight
<1> QED
  BY <1>1, <1>2, <1>3, <1>4 DEF Next

\* match_rule, which reads the list without a lock, gives the verdict of the
\* list as it was at some moment of the check if all that happened meanwhile is
\* that rules were appended, or that one field of one rule was written.
THEOREM VerdictCorrect == Spec => []VerdictRight
<1>1. Init => WalkInv
  BY IdleFacts DEF Init, WalkInv, Checking, VerdictRight
<1>2. WalkInv => VerdictRight
  BY DEF WalkInv
<1> QED
  BY <1>1, <1>2, WalkStep, BaseInvariance, ReadInvariance, PTL DEF Spec
=============================================================================
