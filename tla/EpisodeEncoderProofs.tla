------------------------- MODULE EpisodeEncoderProofs -------------------------
(***************************************************************************)
(* Proofs about EpisodeEncoder, for any number of executions, calls,       *)
(* languages and uploads and for whatever Translate may answer.            *)
(*                                                                         *)
(* First the chunks a translation is cut into; then the invariant of the   *)
(* machine and its functions.                                              *)
(***************************************************************************)
EXTENDS EpisodeEncoder, Integers, FiniteSetTheorems, WellFoundedInduction, TLAPS

-----------------------------------------------------------------------------
(* Functions that are defined along 0..n. *)

LEMMA Least ==
    ASSUME NEW T \in SUBSET Nat, T # {}  PROVE \E x \in T : \A y \in T : x <= y
<1> DEFINE R == OpToRel(<, Nat)
<1>1. IsWellFoundedOn(R, Nat)
  BY NatLessThanWellFounded
<1>2. PICK x \in T : \A y \in T : <<y, x>> \notin R
  BY <1>1, WFMin
<1>3. \A y \in T : y < x => <<y, x>> \in R
  BY DEF OpToRel
<1>4. \A y \in T : ~(y < x)
  BY <1>2, <1>3
<1> HIDE DEF R
<1> QED  BY <1>4

\* What is true of 0 and goes from each number to the next is true up to n.
LEMMA UpTo ==
    ASSUME NEW n \in Nat, NEW Good \in SUBSET Nat, 0 \in Good,
           \A i \in 1..n : i - 1 \in Good => i \in Good
    PROVE  0..n \subseteq Good
<1> DEFINE bad == {i \in Nat : i <= n /\ i \notin Good}
<1> SUFFICES ASSUME bad # {}  PROVE FALSE
  OBVIOUS
<1>1. PICK i \in bad : \A j \in bad : i <= j
  BY Least
<1>2. i \in 0..n /\ i \notin Good
  BY <1>1
<1>3. i \in 1..n /\ i - 1 \in Nat /\ i - 1 <= n /\ ~(i <= i - 1)
  BY <1>2
<1>4. i - 1 \in Good
  BY <1>1, <1>3
<1> QED  BY <1>2, <1>3, <1>4

Along(n, base, step, g) ==
    g[0] = base /\ \A i \in 1..n : g[i] = step[<<i, g[i - 1]>>]

LEMMA StepByStep ==
    ASSUME NEW V, NEW n \in Nat, NEW base \in V, NEW step \in [(1..n) \X V -> V]
    PROVE  \E g \in [0..n -> V] : Along(n, base, step, g)
<1> DEFINE Good == {m \in Nat : m <= n => \E g \in [0..m -> V] : Along(m, base, step, g)}
<1>1. 0 \in Good
  <2> DEFINE g == [i \in 0..0 |-> base]
  <2>1. g \in [0..0 -> V] /\ Along(0, base, step, g)
    BY DEF Along
  <2> HIDE DEF g
  <2> QED  BY <2>1
<1>2. ASSUME NEW m \in 1..n, m - 1 \in Good  PROVE m \in Good
  <2>1. PICK h \in [0..m - 1 -> V] : Along(m - 1, base, step, h)
    BY <1>2
  <2> DEFINE g == [i \in 0..m |-> IF i = m THEN step[<<m, h[m - 1]>>] ELSE h[i]]
  <2>2. \A i \in 0..m - 1 : i \in 0..m /\ i # m /\ g[i] = h[i]
    OBVIOUS
  <2>3. step[<<m, h[m - 1]>>] \in V
    OBVIOUS
  <2>4. g \in [0..m -> V] /\ g[m] = step[<<m, h[m - 1]>>]
    BY <2>3
  <2> HIDE DEF g
  <2>5. g[0] = base
    BY <2>1, <2>2 DEF Along
  <2>6. ASSUME NEW i \in 1..m  PROVE g[i] = step[<<i, g[i - 1]>>]
    <3>1. g[i - 1] = h[i - 1]
      BY <2>2
    <3>2. CASE i = m
      BY <2>4, <3>1, <3>2
    <3>3. CASE i # m
      <4>1. i \in 1..m - 1
        BY <3>3
      <4> QED  BY <2>1, <2>2, <3>1, <4>1 DEF Along
    <3> QED  BY <3>2, <3>3
  <2>7. Along(m, base, step, g)
    BY <2>5, <2>6 DEF Along
  <2> QED  BY <2>4, <2>7
<1> HIDE DEF Good
<1>3. 0..n \subseteq Good
  <2>1. Good \in SUBSET Nat
    BY DEF Good
  <2> QED  BY <1>1, <1>2, <2>1, UpTo
<1>4. n \in Good
  BY <1>3
<1> QED  BY <1>4 DEF Good

-----------------------------------------------------------------------------
(* Totals of sequences. *)

Sums(s, g) == g = [i \in 0..Len(s) |-> IF i = 0 THEN 0 ELSE g[i - 1] + s[i]]

LEMMA SumsAre ==
    ASSUME NEW s \in Seq(Nat), NEW g, Sums(s, g)
    PROVE  /\ g[0] = 0 /\ \A i \in 1..Len(s) : g[i] = g[i - 1] + s[i]
           /\ \A i \in 0..Len(s) : g[i] \in Nat
<1>1. g[0] = 0 /\ \A i \in 1..Len(s) : g[i] = g[i - 1] + s[i]
  BY DEF Sums
<1> DEFINE Good == {i \in Nat : g[i] \in Nat}
<1>2. \A i \in 1..Len(s) : i - 1 \in Good => i \in Good
  BY <1>1
<1>3. 0 \in Good /\ Len(s) \in Nat /\ Good \in SUBSET Nat
  BY <1>1
<1>4. 0..Len(s) \subseteq Good
  BY <1>2, <1>3, UpTo
<1> QED  BY <1>1, <1>4

LEMMA TotalIs ==
    ASSUME NEW s \in Seq(Nat)
    PROVE  \E g : Sums(s, g) /\ Total(s) = g[Len(s)]
<1> DEFINE n == Len(s)
           step == [p \in (1..n) \X Nat |-> p[2] + s[p[1]]]
<1>1. n \in Nat /\ 0 \in Nat /\ step \in [(1..n) \X Nat -> Nat]
  OBVIOUS
<1> HIDE DEF step
<1>2. PICK h \in [0..n -> Nat] : Along(n, 0, step, h)
  BY <1>1, StepByStep
<1>3. \A i \in 1..n : step[<<i, h[i - 1]>>] = h[i - 1] + s[i]
  BY DEF step
<1>4. Sums(s, h)
  <2>1. h[0] = 0 /\ \A i \in 1..n : h[i] = h[i - 1] + s[i]
    BY <1>2, <1>3 DEF Along
  <2>2. \A i \in 0..n : i = 0 \/ i \in 1..n
    BY <1>1
  <2>3. \A i \in 0..n : h[i] = IF i = 0 THEN 0 ELSE h[i - 1] + s[i]
    BY <2>1, <2>2
  <2> QED  BY <1>2, <2>3 DEF Sums
<1> DEFINE g == CHOOSE g : Sums(s, g)
<1>5. Total(s) = g[Len(s)]
  BY DEF Total, Sums
<1>6. Sums(s, g)
  BY <1>4
<1> QED  BY <1>5, <1>6

LEMMA TotalType == ASSUME NEW s \in Seq(Nat)  PROVE Total(s) \in Nat
<1>1. PICK g : Sums(s, g) /\ Total(s) = g[Len(s)]
  BY TotalIs
<1> QED  BY <1>1, SumsAre

LEMMA TotalOfNothing == Total(<<>>) = 0
<1>1. PICK g : Sums(<<>>, g) /\ Total(<<>>) = g[Len(<<>>)]
  <2>1. <<>> \in Seq(Nat)
    OBVIOUS
  <2> QED  BY <2>1, TotalIs
<1> QED  BY <1>1 DEF Sums

LEMMA TotalOfBoth ==
    ASSUME NEW s \in Seq(Nat), NEW t \in Seq(Nat)
    PROVE  s \o t \in Seq(Nat) /\ Total(s \o t) = Total(s) + Total(t)
<1> DEFINE both == s \o t
           m == Len(s)
           n == Len(t)
<1>1. both \in Seq(Nat) /\ m \in Nat /\ n \in Nat /\ Len(both) = m + n
  OBVIOUS
<1>2. (\A i \in 1..m : both[i] = s[i]) /\ (\A i \in 1..n : both[m + i] = t[i])
  OBVIOUS
<1> HIDE DEF both
<1>3. PICK f : Sums(s, f) /\ Total(s) = f[m]
  BY TotalIs
<1>4. PICK g : Sums(t, g) /\ Total(t) = g[n]
  BY TotalIs
<1>5. PICK h : Sums(both, h) /\ Total(both) = h[m + n]
  BY <1>1, TotalIs
<1>6. f[0] = 0 /\ \A i \in 1..m : f[i] = f[i - 1] + s[i]
  BY <1>3, SumsAre
<1>7. /\ g[0] = 0 /\ \A i \in 1..n : g[i] = g[i - 1] + t[i]
      /\ \A i \in 0..n : g[i] \in Nat
  BY <1>4, SumsAre
<1>8. /\ h[0] = 0 /\ \A i \in 1..m + n : h[i] = h[i - 1] + both[i]
  BY ZenonT(60), <1>1, <1>5, SumsAre
<1>9. h[m] = f[m]
  <2> DEFINE Good == {i \in Nat : h[i] = f[i]}
  <2>1. ASSUME NEW i \in 1..m, i - 1 \in Good  PROVE i \in Good
    <3>1. i \in 1..m + n /\ i \in Nat
      BY <1>1
    <3>2. h[i] = h[i - 1] + both[i] /\ f[i] = f[i - 1] + s[i] /\ both[i] = s[i]
      BY <1>2, <1>6, <1>8, <3>1
    <3> QED  BY <2>1, <3>1, <3>2
  <2>2. 0 \in Good /\ Good \in SUBSET Nat
    BY <1>6, <1>8
  <2>3. 0..m \subseteq Good
    BY <1>1, <2>1, <2>2, UpTo
  <2>4. m \in 0..m
    BY <1>1
  <2>5. m \in Good
    BY <2>3, <2>4
  <2> QED  BY <2>5
<1>10. h[m + n] = f[m] + g[n]
  <2> DEFINE Good == {i \in Nat : h[m + i] = f[m] + g[i]}
  <2>0. f[m] \in Nat
    BY <1>3, SumsAre
  <2>1. ASSUME NEW i \in 1..n, i - 1 \in Good  PROVE i \in Good
    <3>1. m + i \in 1..m + n /\ i \in Nat /\ m + i - 1 = m + (i - 1) /\ i - 1 \in 0..n
      BY <1>1
    <3>2. /\ h[m + i] = h[m + (i - 1)] + both[m + i]
          /\ g[i] = g[i - 1] + t[i] /\ both[m + i] = t[i] /\ g[i - 1] \in Nat
      BY <1>2, <1>7, <1>8, <3>1
    <3>3. h[m + (i - 1)] = f[m] + g[i - 1] /\ t[i] \in Nat
      BY <2>1
    <3>4. h[m + i] = f[m] + g[i]
      BY <2>0, <3>2, <3>3
    <3> QED  BY <3>1, <3>4
  <2>2. 0 \in Good /\ Good \in SUBSET Nat
    BY <1>1, <1>7, <1>9, <2>0
  <2>3. 0..n \subseteq Good
    BY <1>1, <2>1, <2>2, UpTo
  <2>4. n \in 0..n
    BY <1>1
  <2>5. n \in Good
    BY <2>3, <2>4
  <2> QED  BY <2>5
<1> QED  BY <1>1, <1>3, <1>4, <1>5, <1>10 DEF both

LEMMA TotalOfOne == ASSUME NEW n \in Nat  PROVE <<n>> \in Seq(Nat) /\ Total(<<n>>) = n
<1> DEFINE s == <<n>>
<1>1. s \in Seq(Nat) /\ Len(s) = 1 /\ s[1] = n
  OBVIOUS
<1> HIDE DEF s
<1>2. PICK g : Sums(s, g) /\ Total(s) = g[1]
  BY <1>1, TotalIs
<1>3. g[0] = 0 /\ \A i \in 1..1 : g[i] = g[i - 1] + s[i]
  BY <1>1, <1>2, SumsAre
<1>4. g[1] = n
  BY <1>1, <1>3
<1> QED  BY <1>1, <1>2, <1>4 DEF s

LEMMA TotalOfOneMore ==
    ASSUME NEW s \in Seq(Nat), NEW n \in Nat
    PROVE  Append(s, n) \in Seq(Nat) /\ Total(Append(s, n)) = Total(s) + n
<1>1. Append(s, n) = s \o <<n>>
  OBVIOUS
<1> QED  BY <1>1, TotalOfBoth, TotalOfOne

-----------------------------------------------------------------------------
(* The chunks of a translation: none is too long for Polly, together they  *)
(* say what the sentences say, and only a sentence that was cut leaves an  *)
(* empty one.                                                              *)

LEMMA Division ==
    ASSUME NEW n \in Nat, NEW c \in Nat \ {0}
    PROVE  /\ n \div c \in Nat /\ n % c \in Nat /\ n % c < c
           /\ n = c * (n \div c) + (n % c)
OBVIOUS

LEMMA Quotient ==
    ASSUME NEW n \in Nat, NEW c \in Nat \ {0}, NEW q \in Nat, NEW r \in Nat,
           r < c, n = c * q + r
    PROVE  n \div c = q /\ n % c = r
BY Division

LEMMA Multiples ==
    ASSUME NEW a \in Nat, NEW b \in Nat, NEW c \in Nat \ {0}, a < b
    PROVE  c * a \in Nat /\ c * (a + 1) = c * a + c /\ c * a + c <= c * b
OBVIOUS

LEMMA Sizes == ChunkSize \in Nat \ {0}
BY EncoderAssumption DEF EncoderAssumption

LEMMA OfLength ==
    ASSUME NEW T, NEW k \in Nat, NEW f \in [1..k -> T]  PROVE f \in Seq(T) /\ Len(f) = k
OBVIOUS

LEMMA Elements ==
    ASSUME NEW T, NEW s \in Seq(T)  PROVE \A i \in DOMAIN s : s[i] \in T
OBVIOUS

LEMMA Concatenation ==
    ASSUME NEW s \in Seq(Nat), NEW t \in Seq(Nat)
    PROVE  /\ s \o t \in Seq(Nat) /\ Len(s \o t) = Len(s) + Len(t)
           /\ \A i \in 1..Len(s) : (s \o t)[i] = s[i]
           /\ \A i \in 1..Len(t) : (s \o t)[Len(s) + i] = t[i]
OBVIOUS

LEMMA SameSequence ==
    ASSUME NEW s \in Seq(Nat), NEW t \in Seq(Nat), Len(s) = Len(t),
           \A i \in 1..Len(s) : s[i] = t[i]
    PROVE  s = t
OBVIOUS

LEMMA OneMore ==
    ASSUME NEW T, NEW s \in Seq(T), NEW x \in T  PROVE Append(s, x) \in Seq(T)
OBVIOUS

\* A chunk before its trim, and what is said by a sequence of them.
Piece == [size : 1..ChunkSize, heard : Nat]

LEMMA HeardIs ==
    ASSUME NEW u \in Sentence, NEW i \in Nat, NEW k \in Nat
    PROVE  Heard(u, i, k) \in Nat /\ IsFiniteSet((i..k) \ u.blank)
<1>1. IsFiniteSet(i..k)
  BY FS_Interval
<1>2. IsFiniteSet((i..k) \ u.blank)
  BY <1>1, FS_Subset
<1> QED  BY <1>2, FS_CardinalityType DEF Heard

\* What is heard up to a position and after it is heard of the whole.
LEMMA HeardOfBoth ==
    ASSUME NEW u \in Sentence, NEW i \in Nat, NEW k \in Nat, i <= k
    PROVE  Heard(u, 1, i) + Heard(u, i + 1, k) = Heard(u, 1, k)
<1> DEFINE A == (1..i) \ u.blank
           B == (i + 1..k) \ u.blank
<1>1. IsFiniteSet(A) /\ IsFiniteSet(B)
  BY HeardIs
<1>2. A \cup B = (1..k) \ u.blank /\ A \cap B = {}
  OBVIOUS
<1>3. Cardinality(A \cup B) = Cardinality(A) + Cardinality(B) - Cardinality(A \cap B)
  BY <1>1, FS_Union
<1>4. Cardinality(A) \in Nat /\ Cardinality(B) \in Nat
  BY <1>1, FS_CardinalityType
<1> HIDE DEF A, B
<1>5. Cardinality(A \cup B) = Cardinality(A) + Cardinality(B)
  BY <1>2, <1>3, <1>4, FS_EmptySet
<1> QED  BY <1>2, <1>5 DEF A, B, Heard

LEMMA HeardOfNothing == ASSUME NEW u \in Sentence  PROVE Heard(u, 1, 0) = 0
<1>1. (1..0) \ u.blank = {}
  OBVIOUS
<1> QED  BY <1>1, FS_EmptySet DEF Heard

LEMMA SoundsAre ==
    ASSUME NEW q \in Seq(Piece)
    PROVE  /\ Sounds(q) \in Seq(Nat) /\ Len(Sounds(q)) = Len(q)
           /\ \A i \in 1..Len(q) : Sounds(q)[i] = q[i].heard
<1>1. Len(q) \in Nat /\ DOMAIN q = 1..Len(q) /\ \A i \in 1..Len(q) : q[i] \in Piece
  OBVIOUS
<1>2. Sounds(q) = [i \in 1..Len(q) |-> q[i].heard]
  BY <1>1 DEF Sounds
<1>3. \A i \in 1..Len(q) : q[i].heard \in Nat
  BY <1>1 DEF Piece
<1>4. Sounds(q) \in [1..Len(q) -> Nat]
  BY <1>2, <1>3
<1> QED  BY <1>1, <1>2, <1>4, OfLength

LEMMA SoundsOfBoth ==
    ASSUME NEW q \in Seq(Piece), NEW r \in Seq(Piece)
    PROVE  /\ q \o r \in Seq(Piece)
           /\ Total(Sounds(q \o r)) = Total(Sounds(q)) + Total(Sounds(r))
<1> DEFINE both == q \o r
           m == Len(q)
           n == Len(r)
<1>1. /\ both \in Seq(Piece) /\ m \in Nat /\ n \in Nat /\ Len(both) = m + n
      /\ \A i \in 1..m : both[i] = q[i]
      /\ \A i \in 1..n : both[m + i] = r[i]
  OBVIOUS
<1> HIDE DEF both
<1>2. /\ Sounds(q) \in Seq(Nat) /\ Len(Sounds(q)) = m
      /\ Sounds(r) \in Seq(Nat) /\ Len(Sounds(r)) = n
      /\ Sounds(both) \in Seq(Nat) /\ Len(Sounds(both)) = m + n
  BY <1>1, SoundsAre
<1> DEFINE joined == Sounds(q) \o Sounds(r)
<1>3. /\ joined \in Seq(Nat) /\ Len(joined) = m + n
      /\ \A i \in 1..m : joined[i] = Sounds(q)[i]
      /\ \A i \in 1..n : joined[m + i] = Sounds(r)[i]
  <2>1. PICK x \in Seq(Nat), y \in Seq(Nat) : x = Sounds(q) /\ y = Sounds(r)
    BY <1>2
  <2>2. /\ x \o y \in Seq(Nat) /\ Len(x \o y) = Len(x) + Len(y)
        /\ \A i \in 1..Len(x) : (x \o y)[i] = x[i]
        /\ \A i \in 1..Len(y) : (x \o y)[Len(x) + i] = y[i]
    BY Concatenation
  <2> QED  BY <1>2, <2>1, <2>2
<1> HIDE DEF joined
<1>4. \A i \in 1..m + n : Sounds(both)[i] = joined[i]
  <2> SUFFICES ASSUME NEW i \in 1..m + n  PROVE Sounds(both)[i] = joined[i]
    OBVIOUS
  <2>1. Sounds(both)[i] = both[i].heard
    BY <1>1, SoundsAre
  <2>2. CASE i \in 1..m
    <3>1. Sounds(q)[i] = q[i].heard
      BY <2>2, SoundsAre
    <3> QED  BY <1>1, <1>3, <2>1, <2>2, <3>1
  <2>3. CASE i \notin 1..m
    <3>1. PICK k \in 1..n : i = m + k
      <4>1. i - m \in 1..n /\ i = m + (i - m)
        BY <1>1, <2>3
      <4> QED  BY <4>1
    <3>2. Sounds(r)[k] = r[k].heard
      BY SoundsAre
    <3> QED  BY <1>1, <1>3, <2>1, <3>1, <3>2
  <2> QED  BY <2>2, <2>3
<1>5. Sounds(both) = joined
  BY <1>1, <1>2, <1>3, <1>4, SameSequence
<1> QED  BY <1>1, <1>2, <1>5, TotalOfBoth DEF both, joined

LEMMA SoundsOfOneMore ==
    ASSUME NEW q \in Seq(Piece), NEW x \in Piece
    PROVE  /\ Append(q, x) \in Seq(Piece)
           /\ Total(Sounds(Append(q, x))) = Total(Sounds(q)) + x.heard
<1>1. Append(q, x) = q \o <<x>> /\ <<x>> \in Seq(Piece) /\ Len(<<x>>) = 1
  OBVIOUS
<1>2. x.heard \in Nat
  BY DEF Piece
<1>3. Sounds(<<x>>) = <<x.heard>>
  <2>1. /\ Sounds(<<x>>) \in Seq(Nat) /\ Len(Sounds(<<x>>)) = 1
        /\ \A i \in 1..1 : Sounds(<<x>>)[i] = <<x>>[i].heard
    BY <1>1, SoundsAre
  <2> QED  BY <1>2, <2>1
<1>4. Total(Sounds(q \o <<x>>)) = Total(Sounds(q)) + Total(Sounds(<<x>>))
  BY <1>1, SoundsOfBoth
<1> QED  BY <1>1, <1>2, <1>3, <1>4, SoundsOfBoth, TotalOfOne

LEMMA CutUp ==
    ASSUME NEW u \in Sentence
    PROVE  /\ HardSplit(u) \in Seq(Piece)
           /\ Total(Sounds(HardSplit(u))) = Heard(u, 1, u.size)
<1> DEFINE c == ChunkSize
           n == u.size
           k == (n + c - 1) \div c
           s == HardSplit(u)
           cut == [i \in 0..k |-> IF i * c <= n THEN i * c ELSE n]
<1>1. c \in Nat \ {0} /\ n \in Nat \ {0}
  BY Sizes DEF Sentence
<1>2. s = [i \in 1..k |-> Chunk(u, (i - 1) * c + 1, IF i * c <= n THEN i * c ELSE n)]
  BY DEF HardSplit
<1>3. k \in Nat /\ n <= c * k /\ c * k < n + c
  <2> DEFINE m == n + c - 1
             r == m % c
  <2>1. m \in Nat
    BY <1>1
  <2> HIDE DEF m
  <2>2. m \div c \in Nat /\ r \in Nat /\ r < c /\ m = c * (m \div c) + r
    BY <1>1, <2>1, Division
  <2>3. c * (m \div c) \in Nat
    BY <1>1, <2>2
  <2> HIDE DEF r, c, n
  <2>4. c * (m \div c) = m - r
    BY <2>1, <2>2, <2>3
  <2> QED  BY <1>1, <2>2, <2>4 DEF m
<1> HIDE DEF k, s, c, n
<1>4. k # 0
  BY <1>1, <1>3
<1>5. ASSUME NEW i \in 1..k
      PROVE  /\ cut[i - 1] = (i - 1) * c /\ cut[i - 1] \in Nat /\ cut[i] \in Nat
             /\ cut[i] = IF i * c <= n THEN i * c ELSE n
             /\ cut[i - 1] < cut[i] /\ cut[i] - cut[i - 1] <= c
  <2>1. i - 1 \in Nat /\ i - 1 < k /\ (i - 1) + 1 = i /\ i \in 0..k /\ i - 1 \in 0..k
    BY <1>3
  <2>2. c * (i - 1) \in Nat /\ c * i = c * (i - 1) + c /\ c * (i - 1) + c <= c * k
    BY <1>1, <1>3, <2>1, Multiples
  <2>3. (i - 1) * c = c * (i - 1) /\ i * c = c * i
    BY <1>1, <2>1
  <2>4. c * (i - 1) < n
    BY <1>1, <1>3, <2>2
  <2>5. cut[i - 1] = c * (i - 1)
    BY <1>1, <2>1, <2>2, <2>3, <2>4
  <2>6. cut[i] = IF c * i <= n THEN c * i ELSE n
    BY <2>1, <2>3
  <2> HIDE DEF cut
  <2>7. c * i \in Nat
    BY <1>1, <2>2
  <2> QED  BY <1>1, <2>2, <2>3, <2>4, <2>5, <2>6, <2>7
<1>6. cut[0] = 0 /\ cut[k] = n
  <2>1. k * c = c * k /\ k \in 0..k /\ 0 \in 0..k /\ c * k \in Nat
    BY <1>1, <1>3
  <2>2. CASE c * k <= n
    BY <1>1, <1>3, <2>1, <2>2
  <2>3. CASE ~(c * k <= n)
    BY <1>1, <1>3, <2>1, <2>3
  <2> QED  BY <2>2, <2>3
<1> HIDE DEF cut
<1>7. \A i \in 1..k : s[i] = [size |-> cut[i] - cut[i - 1],
                              heard |-> Heard(u, cut[i - 1] + 1, cut[i])]
  <2> SUFFICES ASSUME NEW i \in 1..k
               PROVE  s[i] = [size |-> cut[i] - cut[i - 1],
                              heard |-> Heard(u, cut[i - 1] + 1, cut[i])]
    OBVIOUS
  <2>1. s[i] = Chunk(u, cut[i - 1] + 1, cut[i])
    BY <1>2, <1>5
  <2>2. cut[i] - (cut[i - 1] + 1) + 1 = cut[i] - cut[i - 1]
    BY <1>5
  <2> QED  BY <2>1, <2>2 DEF Chunk
<1>8. s \in Seq(Piece) /\ Len(s) = k
  <2>1. ASSUME NEW i \in 1..k  PROVE s[i] \in Piece
    <3>1. PICK from \in Nat, to \in Nat : from = cut[i - 1] + 1 /\ to = cut[i]
      <4>1. cut[i - 1] + 1 \in Nat /\ cut[i] \in Nat
        BY <1>5
      <4> QED  BY <4>1
    <3>2. Heard(u, from, to) \in Nat
      BY HeardIs
    <3>3. cut[i] - cut[i - 1] \in 1..ChunkSize
      BY <1>1, <1>5 DEF c
    <3>4. s[i] = [size |-> cut[i] - cut[i - 1], heard |-> Heard(u, from, to)]
      BY <1>7, <3>1
    <3> QED  BY <3>2, <3>3, <3>4 DEF Piece
  <2>2. s \in [1..k -> Piece]
    BY <1>2, <2>1
  <2> QED  BY <1>3, <2>2, OfLength
<1>9. PICK g : Sums(Sounds(s), g) /\ Total(Sounds(s)) = g[k]
  BY <1>8, SoundsAre, TotalIs
<1>10. g[0] = 0 /\ \A i \in 1..k : g[i] = g[i - 1] + s[i].heard
  <2>1. Sounds(s) \in Seq(Nat) /\ Len(Sounds(s)) = k /\ \A i \in 1..k : Sounds(s)[i] = s[i].heard
    BY <1>8, SoundsAre
  <2>2. g[0] = 0 /\ \A i \in 1..k : g[i] = g[i - 1] + Sounds(s)[i]
    BY <1>9, <2>1, SumsAre
  <2> QED  BY <2>1, <2>2
<1>11. g[k] = Heard(u, 1, cut[k])
  <2> DEFINE Good == {i \in Nat : g[i] = Heard(u, 1, cut[i])}
  <2>1. ASSUME NEW i \in 1..k, i - 1 \in Good  PROVE i \in Good
    <3>0. g[i] = g[i - 1] + s[i].heard /\ s[i].heard = Heard(u, cut[i - 1] + 1, cut[i])
      <4>1. g[i] = g[i - 1] + s[i].heard
        BY <1>10
      <4>2. s[i] = [size |-> cut[i] - cut[i - 1],
                    heard |-> Heard(u, cut[i - 1] + 1, cut[i])]
        BY <1>7
      <4> QED  BY <4>1, <4>2
    <3>1. g[i] = Heard(u, 1, cut[i - 1]) + Heard(u, cut[i - 1] + 1, cut[i])
      BY <2>1, <3>0
    <3>2. Heard(u, 1, cut[i - 1]) + Heard(u, cut[i - 1] + 1, cut[i]) = Heard(u, 1, cut[i])
      BY <1>5, HeardOfBoth
    <3> QED  BY <3>1, <3>2
  <2>2. 0 \in Good /\ Good \in SUBSET Nat
    BY <1>6, <1>10, HeardOfNothing
  <2>3. 0..k \subseteq Good
    BY <1>3, <2>1, <2>2, UpTo
  <2>4. k \in Good
    BY <1>3, <2>3
  <2> QED  BY <2>4
<1> QED  BY <1>6, <1>8, <1>9, <1>11 DEF s, n

\* What is gathered at any time, and how much of it is heard.
Current  == {c \in [size : 0..ChunkSize, heard : Nat] : c.size = 0 => c.heard = 0}
Gathered == [done : Seq(Piece), current : Current]

Amount(acc) == Total(Sounds(acc.done)) + acc.current.heard

\* Of the chunks only pieces of a sentence that was cut are empty.
Long(t) == \E k \in DOMAIN t : t[k].size > ChunkSize
EmptyIfCut(parts, t) == \A i \in DOMAIN parts : parts[i].heard = 0 => Long(t)

\* What is being gathered is not blank.
Sounding(acc) == acc.current.size > 0 => acc.current.heard > 0

LEMMA EmptyOfBoth ==
    ASSUME NEW t, NEW q \in Seq(Piece), NEW r \in Seq(Piece),
           EmptyIfCut(q, t), EmptyIfCut(r, t)
    PROVE  EmptyIfCut(q \o r, t)
<1> SUFFICES ASSUME NEW i \in DOMAIN (q \o r), (q \o r)[i].heard = 0  PROVE Long(t)
  BY DEF EmptyIfCut
<1>1. Len(q) \in Nat /\ Len(r) \in Nat /\ i \in 1..Len(q) + Len(r)
  OBVIOUS
<1>2. CASE i \in 1..Len(q)
  <2>1. i \in DOMAIN q /\ (q \o r)[i] = q[i]
    BY <1>2
  <2> QED  BY <2>1 DEF EmptyIfCut
<1>3. CASE i \notin 1..Len(q)
  <2>1. i - Len(q) \in DOMAIN r /\ (q \o r)[i] = r[i - Len(q)]
    BY <1>1, <1>3
  <2> QED  BY <2>1 DEF EmptyIfCut
<1> QED  BY <1>2, <1>3

LEMMA GatherKeeps ==
    ASSUME NEW acc \in Gathered, NEW u \in Sentence
    PROVE  /\ Gather(acc, u) \in Gathered
           /\ Amount(Gather(acc, u)) = Amount(acc) + Heard(u, 1, u.size)
           /\ Sounding(acc) /\ Heard(u, 1, u.size) > 0 => Sounding(Gather(acc, u))
           /\ \A t : (Sounding(acc) /\ EmptyIfCut(acc.done, t) /\ u \in {t[k] : k \in DOMAIN t})
                        => EmptyIfCut(Gather(acc, u).done, t)
<1> DEFINE n == u.size
           h == Heard(u, 1, u.size)
           full == acc.current.size + n > ChunkSize /\ acc.current.size > 0
           done == IF full THEN Append(acc.done, acc.current) ELSE acc.done
           left == IF full THEN Nothing ELSE acc.current
           cut  == HardSplit(u)
<1>1. /\ acc.done \in Seq(Piece) /\ acc.current \in Current
      /\ acc.current.size \in 0..ChunkSize /\ acc.current.heard \in Nat
      /\ ChunkSize \in Nat \ {0} /\ n \in Nat \ {0} /\ h \in Nat
  BY Sizes, HeardIs DEF Gathered, Current, Sentence
<1>2. /\ done \in Seq(Piece) /\ Total(Sounds(done)) \in Nat
      /\ left \in Current
      /\ Total(Sounds(done)) + left.heard = Amount(acc)
      /\ left.size > 0 => left.size + n <= ChunkSize /\ left = acc.current
      /\ \A t : Sounding(acc) /\ EmptyIfCut(acc.done, t) => EmptyIfCut(done, t)
  <2>0. Total(Sounds(acc.done)) \in Nat
    BY <1>1, SoundsAre, TotalType
  <2>1. CASE full
    <3>1. done = Append(acc.done, acc.current) /\ left = [size |-> 0, heard |-> 0]
      BY <2>1 DEF Nothing
    <3>2. acc.current \in Piece
      BY <1>1, <2>1 DEF Piece, Current
    <3>3. done \in Seq(Piece) /\ Total(Sounds(done)) = Total(Sounds(acc.done)) + acc.current.heard
      BY <1>1, <3>1, <3>2, SoundsOfOneMore
    <3>4. ASSUME NEW t, Sounding(acc), EmptyIfCut(acc.done, t)  PROVE EmptyIfCut(done, t)
      <4>1. done = acc.done \o <<acc.current>> /\ <<acc.current>> \in Seq(Piece)
        BY <1>1, <3>1, <3>2
      <4>2. \A i \in DOMAIN <<acc.current>> : <<acc.current>>[i].heard > 0
        BY <1>1, <2>1, <3>4 DEF Sounding
      <4>3. EmptyIfCut(<<acc.current>>, t)
        BY <4>2 DEF EmptyIfCut
      <4> HIDE DEF done
      <4> QED  BY <1>1, <3>4, <4>1, <4>3, EmptyOfBoth
    <3> HIDE DEF done, left
    <3>5. left \in Current /\ left.heard = 0 /\ ~(left.size > 0)
      BY <1>1, <3>1 DEF Current
    <3> QED  BY <1>1, <2>0, <3>1, <3>3, <3>4, <3>5 DEF Amount
  <2>2. CASE ~full
    <3>1. done = acc.done /\ left = acc.current
      BY <2>2
    <3>2. left.size > 0 => left.size + n <= ChunkSize
      BY <1>1, <2>2, <3>1
    <3> HIDE DEF done, left
    <3> QED  BY <1>1, <2>0, <3>1, <3>2 DEF Amount
  <2> QED  BY <2>1, <2>2
<1>3. Gather(acc, u) =
        IF n > ChunkSize
        THEN [done |-> done \o cut, current |-> left]
        ELSE [done |-> done, current |-> [size  |-> left.size + n,
                                          heard |-> left.heard + h]]
  BY DEF Gather
<1>30. left = acc.current \/ left = Nothing
  OBVIOUS
<1>31. left.size \in 0..ChunkSize /\ left.heard \in Nat
  BY <1>2 DEF Current
<1> HIDE DEF done, left, cut, h, n
<1>4. CASE n > ChunkSize
  <2>0. Gather(acc, u) = [done |-> done \o cut, current |-> left]
    BY <1>3, <1>4
  <2>2. cut \in Seq(Piece) /\ Total(Sounds(cut)) = h
    BY CutUp DEF cut, h
  <2>3. done \o cut \in Seq(Piece) /\ Total(Sounds(done \o cut)) = Total(Sounds(done)) + h
    BY <1>2, <2>2, SoundsOfBoth
  <2>4. Gather(acc, u) \in Gathered /\ Amount(Gather(acc, u)) = Amount(acc) + h
    BY <1>1, <1>2, <1>31, <2>0, <2>3 DEF Gathered, Amount
  <2>5. Sounding(acc) => Sounding(Gather(acc, u))
    BY <1>30, <2>0 DEF Sounding, Nothing
  <2>6. ASSUME NEW t, Sounding(acc), EmptyIfCut(acc.done, t), u \in {t[k] : k \in DOMAIN t}
        PROVE  EmptyIfCut(Gather(acc, u).done, t)
    <3>1. Long(t)
      BY <1>4, <2>6 DEF Long, n
    <3> QED  BY <3>1 DEF EmptyIfCut
  <2> QED  BY <2>4, <2>5, <2>6 DEF h
<1>5. CASE ~(n > ChunkSize)
  <2>0. Gather(acc, u) = [done |-> done, current |-> [size  |-> left.size + n,
                                                      heard |-> left.heard + h]]
    BY <1>3, <1>5
  <2>1. left.size + n \in 0..ChunkSize /\ left.heard + h \in Nat
    <3>1. left.size \in Nat /\ n \in Nat /\ left.heard \in Nat /\ h \in Nat /\ ChunkSize \in Nat
      BY <1>1, <1>31, Sizes
    <3>2. left.size + n <= ChunkSize
      BY <1>2, <1>5, <3>1
    <3> QED  BY <3>1, <3>2
  <2>2. Gather(acc, u) \in Gathered
    BY <1>1, <1>2, <1>31, <2>0, <2>1 DEF Gathered, Current
  <2>3. Amount(Gather(acc, u)) = Amount(acc) + h
    BY <1>1, <1>2, <1>31, <2>0 DEF Amount
  <2>4. h > 0 => Sounding(Gather(acc, u))
    BY <1>1, <1>31, <2>0 DEF Sounding
  <2>5. Gather(acc, u).done = done
    BY <2>0
  <2> QED  BY <1>2, <2>2, <2>3, <2>4, <2>5 DEF h
<1> QED  BY <1>4, <1>5

LEMMA GatheringIs ==
    ASSUME NEW S \in Seq(Sentence)
    PROVE  /\ Gathering(S)[0] = [done |-> <<>>, current |-> Nothing]
           /\ \A i \in 1..Len(S) :
                Gathering(S)[i] = IF PassedOver(S, i) THEN Gathering(S)[i - 1]
                                  ELSE Gather(Gathering(S)[i - 1], S[i])
<1> DEFINE n == Len(S)
           none == [done |-> <<>>, current |-> Nothing]
           Follow(acc, i) == IF PassedOver(S, i) THEN acc ELSE Gather(acc, S[i])
           step == [p \in (1..n) \X Gathered |-> Follow(p[2], p[1])]
           Is(a) == a = [i \in 0..n |->
                          IF i = 0 THEN none
                          ELSE IF PassedOver(S, i) THEN a[i - 1]
                          ELSE Gather(a[i - 1], S[i])]
<1>1. n \in Nat /\ none \in Gathered
  BY Sizes DEF Gathered, Current, Nothing
<1>2. step \in [(1..n) \X Gathered -> Gathered]
  <2>1. \A p \in (1..n) \X Gathered : Follow(p[2], p[1]) \in Gathered
    BY GatherKeeps
  <2> HIDE DEF Follow
  <2> QED  BY <2>1
<1> HIDE DEF step, none
<1>3. PICK h \in [0..n -> Gathered] : Along(n, none, step, h)
  BY <1>1, <1>2, StepByStep
<1>4. Is(h)
  <2>1. h[0] = none /\ \A i \in 1..n : h[i] = step[<<i, h[i - 1]>>]
    BY <1>3 DEF Along
  <2>2. \A i \in 1..n : h[i - 1] \in Gathered
    BY <1>1, <1>3
  <2>3. \A i \in 1..n : h[i] = Follow(h[i - 1], i)
    BY <2>1, <2>2 DEF step
  <2>4. \A i \in 0..n : i = 0 \/ i \in 1..n
    BY <1>1
  <2>5. \A i \in 0..n : h[i] = IF i = 0 THEN none
                               ELSE IF PassedOver(S, i) THEN h[i - 1]
                               ELSE Gather(h[i - 1], S[i])
    BY <2>1, <2>3, <2>4
  <2> QED  BY <1>3, <2>5
<1> DEFINE a == CHOOSE a : Is(a)
<1>5. Gathering(S) = a
  BY DEF Gathering, none
<1>6. Is(a)
  BY <1>4
<1> HIDE DEF a
<1>7. a[0] = none /\ \A i \in 1..n : a[i] = IF PassedOver(S, i) THEN a[i - 1]
                                            ELSE Gather(a[i - 1], S[i])
  BY <1>1, <1>6
<1> QED  BY <1>5, <1>7 DEF none

\* A text none of whose sentences but the last is blank.
LEMMA ChunksAre ==
    ASSUME NEW S \in Seq(Sentence),
           \A i \in 1..Len(S) - 1 : Heard(S[i], 1, S[i].size) > 0
    PROVE  /\ Chunks(S) \in Seq(Piece) /\ Total(Sounds(Chunks(S))) = Total(ToSay(S))
           /\ EmptyIfCut(Chunks(S), S)
<1> DEFINE a == Gathering(S)
           n == Len(S)
           say == ToSay(S)
<1>1. /\ n \in Nat /\ DOMAIN S = 1..n /\ \A i \in 1..n : S[i] \in Sentence
      /\ \A i \in 1..n : S[i] \in {S[k] : k \in DOMAIN S}
  OBVIOUS
<1>2. /\ a[0] = [done |-> <<>>, current |-> Nothing]
      /\ \A i \in 1..n : a[i] = IF PassedOver(S, i) THEN a[i - 1] ELSE Gather(a[i - 1], S[i])
  BY GatheringIs
<1> HIDE DEF a
<1>20. /\ say \in Seq(Nat) /\ Len(say) = n
       /\ \A i \in 1..n : say[i] = IF PassedOver(S, i) THEN 0 ELSE Heard(S[i], 1, S[i].size)
  <2>1. say = [i \in 1..n |-> IF PassedOver(S, i) THEN 0 ELSE Heard(S[i], 1, S[i].size)]
    BY <1>1 DEF ToSay
  <2>2. \A i \in 1..n : Heard(S[i], 1, S[i].size) \in Nat
    <3> SUFFICES ASSUME NEW i \in 1..n  PROVE Heard(S[i], 1, S[i].size) \in Nat
      OBVIOUS
    <3>1. S[i] \in Sentence /\ S[i].size \in Nat
      BY <1>1 DEF Sentence
    <3> QED  BY <3>1, HeardIs
  <2> HIDE DEF say
  <2>3. say \in [1..n -> Nat]
    BY <2>1, <2>2
  <2> QED  BY <1>1, <2>1, <2>3, OfLength
<1> HIDE DEF say
<1>3. PICK g : Sums(say, g) /\ Total(say) = g[n]
  BY <1>20, TotalIs
<1>4. g[0] = 0 /\ (\A i \in 1..n : g[i] = g[i - 1] + say[i]) /\ \A i \in 0..n : g[i] \in Nat
  BY <1>20, <1>3, SumsAre
<1>5. a[n] \in Gathered /\ Amount(a[n]) = g[n] /\ EmptyIfCut(a[n].done, S)
  <2> DEFINE Good == {i \in Nat : /\ a[i] \in Gathered /\ Amount(a[i]) = g[i]
                                  /\ EmptyIfCut(a[i].done, S)
                                  /\ i < n => Sounding(a[i])}
  <2>1. ASSUME NEW i \in 1..n, i - 1 \in Good  PROVE i \in Good
    <3>1. /\ a[i - 1] \in Gathered /\ Amount(a[i - 1]) = g[i - 1] /\ i \in Nat
          /\ EmptyIfCut(a[i - 1].done, S) /\ Sounding(a[i - 1])
      BY <1>1, <2>1
    <3>2. CASE PassedOver(S, i)
      <4>1. a[i] = a[i - 1] /\ g[i] = g[i - 1] + 0 /\ i - 1 \in 0..n
        BY <1>1, <1>2, <1>4, <1>20, <3>2
      <4>2. g[i] = g[i - 1]
        BY <1>4, <4>1
      <4> QED  BY <3>1, <4>1, <4>2
    <3>3. CASE ~PassedOver(S, i)
      <4>1. a[i] = Gather(a[i - 1], S[i]) /\ g[i] = g[i - 1] + Heard(S[i], 1, S[i].size)
        BY <1>2, <1>4, <1>20, <3>3
      <4>2. /\ Gather(a[i - 1], S[i]) \in Gathered
            /\ Amount(Gather(a[i - 1], S[i])) = Amount(a[i - 1]) + Heard(S[i], 1, S[i].size)
            /\ Heard(S[i], 1, S[i].size) > 0 => Sounding(Gather(a[i - 1], S[i]))
            /\ EmptyIfCut(Gather(a[i - 1], S[i]).done, S)
        <5>1. S[i] \in Sentence /\ S[i] \in {S[k] : k \in DOMAIN S}
          BY <1>1
        <5> DEFINE u == S[i]  acc == a[i - 1]
        <5>2. u \in Sentence /\ u \in {S[k] : k \in DOMAIN S}
          BY <5>1
        <5>3. acc \in Gathered /\ EmptyIfCut(acc.done, S) /\ Sounding(acc)
          BY <3>1
        <5> HIDE DEF u, acc
        <5>4. /\ Gather(acc, u) \in Gathered
              /\ Amount(Gather(acc, u)) = Amount(acc) + Heard(u, 1, u.size)
              /\ Heard(u, 1, u.size) > 0 => Sounding(Gather(acc, u))
              /\ EmptyIfCut(Gather(acc, u).done, S)
          <6>1. /\ Gather(acc, u) \in Gathered
                /\ Amount(Gather(acc, u)) = Amount(acc) + Heard(u, 1, u.size)
                /\ Sounding(acc) /\ Heard(u, 1, u.size) > 0 => Sounding(Gather(acc, u))
                /\ \A t : (Sounding(acc) /\ EmptyIfCut(acc.done, t)
                           /\ u \in {t[k] : k \in DOMAIN t})
                             => EmptyIfCut(Gather(acc, u).done, t)
            BY <5>2, <5>3, GatherKeeps
          <6> QED  BY <5>2, <5>3, <6>1
        <5> QED  BY <5>4 DEF u, acc
      <4>3. i < n => Heard(S[i], 1, S[i].size) > 0
        <5>1. i < n => i \in 1..n - 1
          BY <1>1
        <5> QED  BY <5>1
      <4> QED  BY <3>1, <4>1, <4>2, <4>3
    <3> QED  BY <3>2, <3>3
  <2>2. 0 \in Good
    <3>1. a[0].done = <<>> /\ a[0].current = [size |-> 0, heard |-> 0] /\ a[0] \in Gathered
      BY <1>2, Sizes DEF Gathered, Current, Nothing
    <3>2. Sounds(<<>>) = <<>>
      BY DEF Sounds
    <3>3. Amount(a[0]) = 0
      BY <3>1, <3>2, TotalOfNothing DEF Amount
    <3>4. EmptyIfCut(a[0].done, S) /\ Sounding(a[0])
      BY <3>1 DEF EmptyIfCut, Sounding
    <3> QED  BY <1>4, <3>1, <3>3, <3>4
  <2>3. Good \in SUBSET Nat
    OBVIOUS
  <2>4. 0..n \subseteq Good
    BY <1>1, <2>1, <2>2, <2>3, UpTo
  <2>5. n \in 0..n
    BY <1>1
  <2>6. n \in Good
    BY <2>4, <2>5
  <2> QED  BY <2>6
<1>6. Chunks(S) = IF a[n].current.heard > 0 THEN Append(a[n].done, a[n].current) ELSE a[n].done
  BY DEF Chunks, a
<1> HIDE DEF n
<1> DEFINE done == a[n].done
           current == a[n].current
<1>7. /\ done \in Seq(Piece) /\ current \in Current
      /\ Total(say) = Total(Sounds(done)) + current.heard /\ EmptyIfCut(done, S)
  BY <1>3, <1>5 DEF Gathered, Amount
<1> HIDE DEF done, current
<1>8. Total(Sounds(done)) \in Nat /\ current.heard \in Nat
  BY <1>7, SoundsAre, TotalType DEF Current
<1>9. CASE current.heard > 0
  <2>1. Chunks(S) = Append(done, current)
    BY <1>6, <1>9 DEF done, current
  <2>2. CASE current.size > 0
    <3>1. current \in Piece
      BY <1>7, <1>8, <2>2, Sizes DEF Piece, Current
    <3>2. /\ Append(done, current) \in Seq(Piece)
          /\ Total(Sounds(Append(done, current))) = Total(Sounds(done)) + current.heard
      BY <1>7, <3>1, SoundsOfOneMore
    <3>3. EmptyIfCut(Append(done, current), S)
      <4>1. Append(done, current) = done \o <<current>> /\ <<current>> \in Seq(Piece)
        BY <1>7, <3>1
      <4>2. EmptyIfCut(<<current>>, S)
        <5>1. \A i \in DOMAIN <<current>> : <<current>>[i].heard > 0
          BY <1>9
        <5> QED  BY <1>8, <5>1 DEF EmptyIfCut
      <4> QED  BY <1>7, <4>1, <4>2, EmptyOfBoth
    <3> QED  BY <1>7, <2>1, <3>2, <3>3 DEF say
  <2>3. current.size > 0
    BY <1>7, <1>8, <1>9, Sizes DEF Current
  <2> QED  BY <2>2, <2>3
<1>10. CASE ~(current.heard > 0)
  <2>1. Chunks(S) = done /\ current.heard = 0
    BY <1>6, <1>8, <1>10 DEF done, current
  <2> QED  BY <1>7, <1>8, <2>1 DEF say
<1> QED  BY <1>9, <1>10

-----------------------------------------------------------------------------
(* The invariant. *)

States == {"unused", "starting", "waiting", "invoking", "polling", "succeeded", "failed"}
Phases == {"off", "reading", "translating", "speaking", "returned", "thrown"}

Runs        == [key : Keys \cup {None}, state : States, call : 0..MaxInvokes]
Jobs        == [status : {"none", "queued", "COMPLETED", "FAILED"},
                version : 0..MaxUploads, language : Spoken \cup {None}]
Saying      == [ToSet(Targets) -> Translations \cup {<<>>}]
Invocations == [phase : Phases, at : 0..Len(Targets) + 1, said : Saying, started : 0..MaxParts]
Texts       == {None} \cup Executions \X (1..MaxInvokes) \X {"original", "translated"}

Shapes ==
    /\ uploaded \in [Keys -> 0..MaxUploads] /\ pending \subseteq Keys \X (1..MaxUploads)
    /\ exec \in [Executions -> Runs] /\ job \in [Executions -> Jobs]
    /\ inv \in [Calls -> Invocations]
    /\ speech \in [Tasks -> {"none", "running", "completed", "failed"}]
    /\ text \in [Episodes \X Languages -> Texts]
    /\ manifest \in [Episodes -> Calls \cup {None}]
    /\ newest \in [Episodes -> Executions \cup {None}]
    /\ faults \in 0..MaxFaults /\ overlapped \subseteq Episodes

\* How far an execution is, and what that says of its job and its call.
Course(x) ==
    /\ exec[x].key = None <=> exec[x].state = "unused"
    /\ exec[x].state \in {"unused", "starting", "waiting"} => exec[x].call = 0
    /\ exec[x].state \in {"unused", "starting"} => job[x].status = "none"
    /\ exec[x].state \in {"invoking", "polling", "succeeded"} =>
          exec[x].call \in 1..MaxInvokes /\ job[x].status = "COMPLETED"
    /\ job[x].status = "COMPLETED" => job[x].language \in Spoken
    /\ exec[x].state \in {"polling", "succeeded"} => inv[Call(x)].phase = "returned"
    /\ exec[x].state = "succeeded" => \A t \in Listed(Call(x)) : speech[t] = "completed"

\* Where call c is among the target languages.
Place(c) ==
    /\ inv[c].phase # "off" =>
          /\ c[2] <= exec[c[1]].call /\ exec[c[1]].key # None
          /\ job[c[1]].status = "COMPLETED"
    /\ inv[c].phase = "speaking" =>
          /\ inv[c].at \in 1..Len(Targets) /\ Targets[inv[c].at] # SourceOf(c)
          /\ inv[c].started < Len(Parts[inv[c].said[Targets[inv[c].at]]])
    /\ inv[c].phase = "translating" =>
          /\ inv[c].at \in 1..Len(Targets) + 1
          /\ inv[c].at <= Len(Targets) => Targets[inv[c].at] # SourceOf(c)
    /\ inv[c].phase = "returned" => inv[c].at = Len(Targets) + 1

Of(x, e) == exec[x].key # None /\ Episode(x) = e

Newest(e) == newest[e] # None => Of(newest[e], e)

\* Unless something overlapped, only the call made last by the execution
\* started last may still write.
Alone(e) == e \notin overlapped =>
    \A x \in Executions : Of(x, e) /\ Active(x) =>
        x = newest[e] /\ RunningCalls(x) \subseteq {exec[x].call}

Before(j, r) == j < r.at \/ (j = r.at /\ r.phase = "speaking")

Writes(e, c) ==
    /\ inv[c].phase \in {"translating", "speaking", "returned"} =>
          /\ text[<<e, SourceOf(c)>>] = By(c, "original")
          /\ \A j \in 1..Len(Targets) :
                Targets[j] # SourceOf(c) /\ Before(j, inv[c]) =>
                    text[<<e, Targets[j]>>] = By(c, "translated")
    /\ inv[c].phase = "returned" => manifest[e] = c

\* What that call has written so far is what the bucket holds.
Own(e) == newest[e] # None /\ e \notin overlapped /\ exec[newest[e]].call # 0 =>
    Writes(e, Call(newest[e]))

\* It read the newest upload, or the event of a newer one is on its way.
Reads(e) == newest[e] # None /\ job[newest[e]].status = "COMPLETED" =>
    \/ job[newest[e]].version = uploaded[exec[newest[e]].key]
    \/ \E ev \in pending : EpisodeOf[ev[1]] = e

Inv ==
    /\ Shapes
    /\ \A x \in Executions : Course(x)
    /\ \A c \in Calls : Place(c)
    /\ \A e \in Episodes : Newest(e) /\ Alone(e) /\ Own(e) /\ Reads(e)

-----------------------------------------------------------------------------
(* What the constants are. *)

Running == {"reading", "translating", "speaking"}

LEMMA Numbers ==
    /\ MaxUploads \in Nat /\ MaxFaults \in Nat /\ MaxInvokes \in Nat \ {0}
    /\ MaxExecutions \in Nat /\ MaxParts \in Nat /\ Len(Targets) \in Nat
    /\ None \notin Keys /\ None \notin Spoken /\ None \notin Executions /\ None \notin Calls
    /\ EpisodeOf \in [Keys -> Episodes]
BY EncoderAssumption DEF EncoderAssumption, Executions, Calls

LEMMA Voices ==
    /\ Len(Targets) \in Nat
    /\ ToSet(Targets) = {Targets[i] : i \in 1..Len(Targets)}
    /\ \A i \in 1..Len(Targets) : Targets[i] \in ToSet(Targets) /\ Targets[i] \in Languages
    /\ \A i, j \in 1..Len(Targets) : Targets[i] = Targets[j] => i = j
<1>1. Targets \in Seq(STRING) /\ IsInjective(Targets)
  BY EncoderAssumption DEF EncoderAssumption
<1>2. Len(Targets) \in Nat /\ DOMAIN Targets = 1..Len(Targets)
  BY <1>1
<1>3. \A i, j \in 1..Len(Targets) : Targets[i] = Targets[j] => i = j
  BY <1>1, <1>2 DEF IsInjective
<1>4. ToSet(Targets) = {Targets[i] : i \in 1..Len(Targets)}
  BY <1>2 DEF ToSet
<1> QED  BY <1>2, <1>3, <1>4 DEF Languages

LEMMA Pairs ==
    /\ \A c \in Calls : c[1] \in Executions /\ c[2] \in 1..MaxInvokes /\ c = <<c[1], c[2]>>
    /\ \A x \in Executions : \A n \in 1..MaxInvokes :
          <<x, n>> \in Calls /\ <<x, n>>[1] = x /\ <<x, n>>[2] = n
BY DEF Calls

LEMMA NextIs ==
    ASSUME NEW i \in 0..Len(Targets), NEW source
    PROVE  /\ NextAfter(i, source) \in i + 1..Len(Targets) + 1
           /\ NextAfter(i, source) <= Len(Targets) => Targets[NextAfter(i, source)] # source
           /\ \A k \in i + 1..NextAfter(i, source) - 1 : Targets[k] = source
<1> DEFINE n == Len(Targets)
           Is(j) == /\ j = n + 1 \/ Targets[j] # source
                    /\ \A k \in i + 1..j - 1 : Targets[k] = source
           others == {j \in Nat : j \in i + 1..n + 1 /\ (j = n + 1 \/ Targets[j] # source)}
<1>1. n \in Nat
  BY Voices
<1> HIDE DEF n
<1>2. n + 1 \in others
  BY <1>1 DEF n
<1>3. PICK j \in others : \A k \in others : j <= k
  BY <1>2, Least
<1>4. \A k \in i + 1..j - 1 : Targets[k] = source
  <2> SUFFICES ASSUME NEW k \in i + 1..j - 1, Targets[k] # source  PROVE FALSE
    OBVIOUS
  <2>1. k \in Nat /\ k \in i + 1..n + 1 /\ ~(j <= k)
    BY <1>1, <1>3 DEF n
  <2>2. k \in others
    BY <2>1
  <2> QED  BY <1>3, <2>1, <2>2
<1>5. j \in i + 1..n + 1 /\ Is(j)
  BY <1>3, <1>4
<1>6. NextAfter(i, source) = CHOOSE k \in i + 1..n + 1 : Is(k)
  BY DEF NextAfter, n
<1>7. NextAfter(i, source) \in i + 1..n + 1 /\ Is(NextAfter(i, source))
  BY <1>5, <1>6
<1> QED  BY <1>1, <1>7 DEF n

LEMMA PartsAre ==
    ASSUME NEW t \in Translations \cup {<<>>}
    PROVE  /\ Parts[t] \in Seq(Piece) /\ Total(Sounds(Parts[t])) = Total(ToSay(t))
           /\ EmptyIfCut(Parts[t], t)
           /\ Len(Parts[t]) \in 0..MaxParts /\ DOMAIN Parts[t] = 1..Len(Parts[t])
           /\ Parts[t] # <<>> => Len(Parts[t]) > 0
<1>0. <<>> \in Seq(Sentence) /\ Translations \subseteq Seq(Sentence)
  BY EncoderAssumption DEF EncoderAssumption
<1>1. t \in Seq(Sentence) /\ Parts[t] = Chunks(t)
  BY <1>0 DEF Parts
<1>10. \A i \in 1..Len(t) - 1 : Heard(t[i], 1, t[i].size) > 0
  <2>1. CASE t \in Translations
    BY <2>1, SentenceAssumption DEF SentenceAssumption
  <2>2. CASE t = <<>>
    BY <2>2
  <2> QED  BY <2>1, <2>2
<1>2. /\ Chunks(t) \in Seq(Piece) /\ Total(Sounds(Chunks(t))) = Total(ToSay(t))
      /\ EmptyIfCut(Chunks(t), t)
  BY <1>1, <1>10, ChunksAre
<1>3. Len(Parts[t]) <= MaxParts
  <2>1. CASE t \in Translations
    BY <2>1, PartsAssumption DEF PartsAssumption
  <2>2. CASE t = <<>>
    <3>1. Gathering(<<>>)[0] = [done |-> <<>>, current |-> Nothing]
      BY <1>1, <2>2, GatheringIs
    <3>2. /\ Gathering(<<>>)[Len(<<>>)].done = <<>>
          /\ Gathering(<<>>)[Len(<<>>)].current.heard = 0
      BY <3>1 DEF Nothing
    <3>3. Chunks(<<>>) = <<>>
      BY <3>2 DEF Chunks
    <3> QED  BY <1>1, <2>2, <3>3, Numbers
  <2> QED  BY <2>1, <2>2
<1>4. Parts[t] \in Seq(Piece)
  BY <1>1, <1>2
<1>5. Len(Parts[t]) \in Nat /\ DOMAIN Parts[t] = 1..Len(Parts[t])
  BY <1>4
<1>6. Parts[t] # <<>> => Len(Parts[t]) > 0
  BY <1>4
<1> QED  BY <1>1, <1>2, <1>3, <1>4, <1>5, <1>6, Numbers

\* What a call has the machine speak are tasks of that call.
LEMMA ListedAre ==
    ASSUME Shapes, NEW c \in Calls
    PROVE  \A t \in Listed(c) : t \in Tasks /\ <<t[1], t[2]>> = c
<1> SUFFICES ASSUME NEW t \in Listed(c)  PROVE t \in Tasks /\ <<t[1], t[2]>> = c
  OBVIOUS
<1>1. PICK l \in ToSet(Targets) : \E i \in DOMAIN Parts[inv[c].said[l]] : t = Task(c, l, i)
  BY DEF Listed
<1>2. PICK i \in DOMAIN Parts[inv[c].said[l]] : t = Task(c, l, i)
  BY <1>1
<1>3. inv[c].said[l] \in Translations \cup {<<>>}
  BY DEF Shapes, Invocations, Saying
<1>4. i \in 1..MaxParts
  BY <1>2, <1>3, PartsAre, Numbers
<1>5. c[1] \in Executions /\ c[2] \in 1..MaxInvokes /\ c = <<c[1], c[2]>>
  BY Pairs
<1> QED  BY <1>2, <1>4, <1>5 DEF Task, Tasks

LEMMA ListedStays ==
    ASSUME NEW c, NEW d, d = c, inv'[c] = inv[c]
    PROVE  \A t : t \in UNION {{Task(d, l, i) : i \in DOMAIN Parts[inv'[d].said[l]]} :
                                  l \in ToSet(Targets)} <=> t \in Listed(c)
BY DEF Listed

LEMMA RunningIs ==
    \A x \in Executions : \A n :
        n \in RunningCalls(x) <=> n \in 1..MaxInvokes /\ inv[<<x, n>>].phase \in Running
BY DEF RunningCalls, Running

\* The state of an execution goes on, its call and all functions stay.
LEMMA Moves ==
    ASSUME Inv, NEW x \in Executions, NEW s \in States, s # "unused", ~InState(x, "unused"),
           Goes(x, s), Course(x)',
           s \in {"starting", "waiting", "invoking", "polling"} =>
              exec[x].state \in {"starting", "waiting", "invoking", "polling"},
           job' \in [Executions -> Jobs],
           \A y \in Executions :
              /\ job'[y].language = job[y].language /\ job'[y].version = job[y].version
              /\ job'[y].status = "COMPLETED" <=> job[y].status = "COMPLETED"
              /\ y # x => job'[y] = job[y],
           faults' \in 0..MaxFaults,
           UNCHANGED <<uploaded, pending, inv, speech, text, manifest, newest, overlapped>>
    PROVE  Inv'
<1>1. Shapes
  BY DEF Inv
<1>2. exec' \in [Executions -> Runs]
  BY ZenonT(60), <1>1 DEF Shapes, Goes, Runs
<1>3. /\ \A y \in Executions : exec'[y].key = exec[y].key /\ exec'[y].call = exec[y].call
      /\ \A y \in Executions : y # x => exec'[y] = exec[y]
      /\ exec'[x].state = s
  BY <1>1 DEF Shapes, Goes, Runs
<1>4. Shapes'
  BY <1>1, <1>2 DEF Shapes, Runs, Jobs, Invocations
<1>5. ASSUME NEW y \in Executions  PROVE Course(y)'
  <2>1. CASE y # x
    <3>1. Course(y) /\ exec'[y] = exec[y] /\ job'[y] = job[y]
      BY <1>3, <2>1 DEF Inv
    <3> QED  BY <3>1 DEF Course, Call, Listed
  <2> QED  BY <2>1
<1>6. ASSUME NEW c \in Calls  PROVE Place(c)'
  <2>1. Place(c) /\ c[1] \in Executions
    BY Pairs DEF Inv
  <2> QED  BY <1>3, <2>1 DEF Place, SourceOf
<1>7. \A y \in Executions : \A e : Of(y, e)' <=> Of(y, e)
  BY <1>3 DEF Of, Episode
<1>8. \A y \in Executions : Active(y)' => Active(y)
  BY <1>3 DEF Active, RunningCalls
<1>9. \A y \in Executions : RunningCalls(y)' = RunningCalls(y)
  BY DEF RunningCalls
<1>10. \A y \in Executions : Call(y)' = Call(y)
  BY <1>3 DEF Call
<1>11. ASSUME NEW e \in Episodes  PROVE (Newest(e) /\ Alone(e) /\ Own(e) /\ Reads(e))'
  <2>1. Newest(e) /\ Alone(e) /\ Own(e) /\ Reads(e)
    BY DEF Inv
  <2>2. newest[e] # None => newest[e] \in Executions
    BY <1>1 DEF Shapes
  <2>3. Newest(e)'
    BY <1>7, <2>1, <2>2 DEF Newest
  <2>4. Alone(e)'
    BY <1>3, <1>7, <1>8, <1>9, <2>1 DEF Alone
  <2>5. Reads(e)'
    BY <1>3, <2>1, <2>2 DEF Reads
  <2>6. ASSUME newest[e] # None, e \notin overlapped, exec[newest[e]].call # 0
        PROVE  Writes(e, Call(newest[e]))'
    <3>1. Writes(e, Call(newest[e])) /\ Call(newest[e])' = Call(newest[e])
      BY <1>10, <2>1, <2>2, <2>6 DEF Own
    <3>2. Call(newest[e])[1] = newest[e]
      BY DEF Call
    <3>3. SourceOf(Call(newest[e]))' = SourceOf(Call(newest[e]))
      BY <2>2, <2>6, <3>1, <3>2 DEF SourceOf
    <3> QED  BY <3>1, <3>3 DEF Writes
  <2>7. Own(e)'
    BY <1>3, <2>2, <2>6 DEF Own
  <2> QED  BY <2>3, <2>4, <2>5, <2>7
<1> QED  BY <1>4, <1>5, <1>6, <1>11 DEF Inv

\* A running function goes on, in its own tasks and its own episode's files.
LEMMA Proceeds ==
    ASSUME Inv, NEW c \in Calls, c[2] \in RunningCalls(c[1]), NEW r \in Invocations,
           inv' = [inv EXCEPT ![c] = r], Place(c)',
           speech' \in [Tasks -> {"none", "running", "completed", "failed"}],
           \A t \in Tasks : <<t[1], t[2]>> # c => speech'[t] = speech[t],
           text' \in [Episodes \X Languages -> Texts],
           \A e \in Episodes : \A l \in Languages :
              e # Episode(c[1]) => text'[<<e, l>>] = text[<<e, l>>],
           manifest' \in [Episodes -> Calls \cup {None}],
           \A e \in Episodes : e # Episode(c[1]) => manifest'[e] = manifest[e],
           faults' \in 0..MaxFaults,
           Writes(Episode(c[1]), c) => Writes(Episode(c[1]), c)',
           UNCHANGED <<uploaded, pending, exec, job, newest, overlapped>>
    PROVE  Inv'
<1>1. Shapes /\ c[1] \in Executions /\ c[2] \in 1..MaxInvokes /\ c = <<c[1], c[2]>>
  BY Pairs DEF Inv
<1>2. inv' \in [Calls -> Invocations]
  BY <1>1 DEF Shapes
<1>3. inv'[c] = r /\ \A d \in Calls : d # c => inv'[d] = inv[d]
  BY <1>1 DEF Shapes
<1>4. inv[c].phase \in Running
  BY <1>1, RunningIs
<1>5. Place(c) /\ c[2] <= exec[c[1]].call /\ Of(c[1], Episode(c[1]))
  BY <1>4 DEF Inv, Place, Running, Of
<1>6. Shapes'
  BY <1>1, <1>2 DEF Shapes
<1>7. ASSUME NEW x \in Executions  PROVE Course(x)'
  <2>1. Course(x)
    BY DEF Inv
  <2>2. ASSUME exec[x].state \in {"polling", "succeeded"}
        PROVE  inv'[Call(x)] = inv[Call(x)] /\ Call(x) \in Calls /\ Call(x) # c
    <3>1. exec[x].call \in 1..MaxInvokes /\ inv[Call(x)].phase = "returned"
      BY <2>1, <2>2 DEF Course
    <3>2. Call(x) \in Calls
      BY <3>1, Pairs DEF Call
    <3> QED  BY <1>3, <1>4, <3>1, <3>2 DEF Running
  <2>3. ASSUME exec[x].state = "succeeded", NEW t \in Listed(Call(x))'
        PROVE  speech'[t] = "completed"
    <3>1. t \in Listed(Call(x))
      <4>1. Call(x)' = Call(x) /\ inv'[Call(x)] = inv[Call(x)]
        BY <2>2, <2>3 DEF Call
      <4> QED  BY <2>3, <4>1, ListedStays DEF Listed
    <3>2. t \in Tasks /\ <<t[1], t[2]>> = Call(x) /\ Call(x) # c
      BY <1>1, <2>2, <2>3, <3>1, ListedAre
    <3>3. speech[t] = "completed"
      BY <2>1, <2>3, <3>1 DEF Course
    <3> QED  BY <3>2, <3>3
  <2>4. Call(x)' = Call(x)
    BY DEF Call
  <2> QED  BY <2>1, <2>2, <2>3, <2>4 DEF Course
<1>8. ASSUME NEW d \in Calls  PROVE Place(d)'
  <2>1. CASE d # c
    BY <1>3, <2>1 DEF Inv, Place, SourceOf
  <2> QED  BY <2>1
<1>9. ASSUME NEW x \in Executions  PROVE RunningCalls(x)' \subseteq RunningCalls(x)
  <2>1. ASSUME NEW n \in 1..MaxInvokes, inv'[<<x, n>>].phase \in Running
        PROVE  inv[<<x, n>>].phase \in Running
    <3>1. <<x, n>> \in Calls
      BY Pairs
    <3> QED  BY <1>3, <1>4, <2>1, <3>1
  <2> QED  BY <2>1 DEF RunningCalls, Running
<1>10. \A x \in Executions : Active(x)' => Active(x)
  BY <1>9 DEF Active
<1>11. \A x : \A e : Of(x, e)' <=> Of(x, e)
  BY DEF Of, Episode
<1>12. ASSUME NEW e \in Episodes  PROVE (Newest(e) /\ Alone(e) /\ Own(e) /\ Reads(e))'
  <2>1. Newest(e) /\ Alone(e) /\ Own(e) /\ Reads(e)
    BY DEF Inv
  <2>2. newest[e] # None => newest[e] \in Executions
    BY <1>1 DEF Shapes
  <2>3. Newest(e)' /\ Reads(e)'
    BY <1>11, <2>1 DEF Newest, Reads
  <2>4. Alone(e)'
    BY <1>9, <1>10, <1>11, <2>1 DEF Alone
  <2>5. ASSUME newest[e] # None, e \notin overlapped, exec[newest[e]].call # 0
        PROVE  Writes(e, Call(newest[e]))'
    <3> DEFINE x == newest[e]
    <3>1. x \in Executions /\ Of(x, e) /\ Writes(e, Call(x)) /\ Call(x)' = Call(x)
      BY <2>1, <2>2, <2>5 DEF Newest, Own, Call
    <3>2. CASE e = Episode(c[1])
      <4>1. Active(c[1])
        BY <1>1 DEF Active
      <4>2. c[1] = x /\ c[2] = exec[x].call
        BY <1>1, <1>5, <2>1, <2>5, <3>2, <4>1 DEF Alone
      <4>3. Call(x) = c
        BY <1>1, <4>2 DEF Call
      <4>4. Episode(c[1])' = Episode(c[1])
        BY DEF Episode
      <4>5. Writes(e, c)'
        BY <3>1, <3>2, <4>3, <4>4 DEF Writes
      <4>6. Call(x)' = c
        BY <3>1, <4>3
      <4> QED  BY <4>5, <4>6 DEF Writes
    <3>3. CASE e # Episode(c[1])
      <4>1. x # c[1]
        BY <3>1, <3>3 DEF Of
      <4>2. Call(x) # c /\ Call(x)[1] = x
        BY <1>1, <4>1 DEF Call
      <4>3. Call(x) \in Calls
        <5>1. exec[x].call \in 1..MaxInvokes
          BY <1>1, <2>5, <3>1 DEF Shapes, Runs
        <5> QED  BY <3>1, <5>1, Pairs DEF Call
      <4>4. inv'[Call(x)] = inv[Call(x)]
        BY <1>3, <4>2, <4>3
      <4>5. SourceOf(Call(x))' = SourceOf(Call(x))
        BY <3>1 DEF SourceOf
      <4>6. ASSUME Call(x) \in Calls, inv[Call(x)].phase \in {"translating", "speaking", "returned"}
            PROVE  SourceOf(Call(x)) \in Languages
        <5>1. job[x].status = "COMPLETED" /\ Course(x)
          BY <3>1, <4>2, <4>6 DEF Inv, Place
        <5> QED  BY <4>2, <5>1 DEF Course, SourceOf, Languages
      <4>7. manifest'[e] = manifest[e] /\ \A l \in Languages : text'[<<e, l>>] = text[<<e, l>>]
        BY <3>3
      <4> HIDE DEF x
      <4>8. Writes(e, Call(x))'
        BY <3>1, <4>3, <4>4, <4>5, <4>6, <4>7, Voices DEF Writes
      <4> QED  BY <4>8 DEF x
    <3> QED  BY <3>2, <3>3
  <2>6. Own(e)'
    BY <2>5 DEF Own
  <2> QED  BY <2>3, <2>4, <2>6
<1> QED  BY <1>6, <1>7, <1>8, <1>12 DEF Inv

LEMMA Faults == Shapes /\ (Fault \/ UNCHANGED faults) => faults' \in 0..MaxFaults
BY Numbers DEF Shapes, Fault

LEMMA StartTranscriptionKeeps ==
    ASSUME Inv, NEW x \in Executions, StartTranscription(x)  PROVE Inv'
<1>1. Shapes /\ Course(x) /\ InState(x, "starting") /\ Goes(x, "waiting")
      /\ job' = [job EXCEPT ![x].status = "queued"]
  BY DEF Inv, StartTranscription
<1>2. /\ exec'[x].state = "waiting" /\ exec'[x].key = exec[x].key
      /\ exec'[x].call = exec[x].call /\ exec[x].state = "starting"
  BY <1>1 DEF Shapes, Goes, Runs, InState
<1>3. job' \in [Executions -> Jobs]
  BY <1>1 DEF Shapes, Jobs
<1>4. /\ \A y \in Executions : /\ job'[y].language = job[y].language
                              /\ job'[y].version = job[y].version
                              /\ y # x => job'[y] = job[y]
      /\ job'[x].status = "queued" /\ job[x].status = "none"
  BY <1>1, <1>2 DEF Shapes, Jobs, Course
<1>5. Course(x)'
  BY <1>1, <1>2, <1>4 DEF Course
<1>6. faults' \in 0..MaxFaults
  BY <1>1, Faults DEF StartTranscription
<1> QED  BY <1>1, <1>2, <1>3, <1>4, <1>5, <1>6, Moves DEF StartTranscription, InState, States

\* An execution that goes on to its polls or to its end.
LEMMA MachineKeeps ==
    ASSUME Inv, NEW x \in Executions,
           StartRefused(x) \/ InvokeEnds(x) \/ PollSpeech(x) \/ Dies(x)
    PROVE  Inv'
<1>1. Shapes /\ Course(x)
  BY DEF Inv
<1>2. /\ ~InState(x, "unused") /\ (Fault \/ UNCHANGED faults)
      /\ UNCHANGED <<uploaded, pending, job, inv, speech, text, manifest, newest, overlapped>>
  BY DEF StartRefused, InvokeEnds, PollSpeech, Dies, InState
<1>3. faults' \in 0..MaxFaults
  BY <1>1, <1>2, Faults
<1>4. \/ Goes(x, "failed")
      \/ Goes(x, "polling") /\ exec[x].state = "invoking" /\ IsAt(Call(x), "returned")
      \/ /\ Goes(x, "succeeded") /\ exec[x].state = "polling"
         /\ \A t \in Listed(Call(x)) : speech[t] = "completed"
  BY DEF StartRefused, InvokeEnds, PollSpeech, Dies, InState
<1>5. ASSUME NEW s \in {"failed", "polling", "succeeded"}, Goes(x, s), Course(x)',
             s = "polling" => exec[x].state = "invoking"
      PROVE  Inv'
  <2>1. s \in States /\ s # "unused"
    BY <1>5 DEF States
  <2>2. s \in {"starting", "waiting", "invoking", "polling"} =>
          exec[x].state \in {"starting", "waiting", "invoking", "polling"}
    BY <1>5
  <2>3. job' \in [Executions -> Jobs]
    BY <1>1, <1>2 DEF Shapes
  <2> QED  BY <1>2, <1>3, <1>5, <2>1, <2>2, <2>3, Moves
<1>6. ASSUME NEW s, Goes(x, s)
      PROVE  /\ exec'[x].state = s /\ exec'[x].key = exec[x].key /\ exec'[x].call = exec[x].call
             /\ Call(x)' = Call(x)
  BY <1>1, <1>6 DEF Shapes, Goes, Runs, Call
<1>7. exec[x].state # "unused"
  BY <1>2 DEF InState
<1>8. CASE Goes(x, "failed")
  <2>1. Course(x)'
    BY <1>1, <1>2, <1>6, <1>7, <1>8 DEF Course
  <2> QED  BY <1>5, <1>8, <2>1
<1>9. CASE Goes(x, "polling") /\ exec[x].state = "invoking" /\ IsAt(Call(x), "returned")
  <2>1. Course(x)'
    BY <1>1, <1>2, <1>6, <1>7, <1>9 DEF Course, IsAt
  <2> QED  BY <1>5, <1>9, <2>1
<1>10. CASE /\ Goes(x, "succeeded") /\ exec[x].state = "polling"
            /\ \A t \in Listed(Call(x)) : speech[t] = "completed"
  <2>1. \A t \in Listed(Call(x))' : speech'[t] = "completed"
    <3>1. Call(x)' = Call(x) /\ inv'[Call(x)] = inv[Call(x)]
      BY <1>2, <1>6, <1>10
    <3>2. \A t : t \in Listed(Call(x))' => t \in Listed(Call(x))
      BY <3>1, ListedStays DEF Listed
    <3> QED  BY <1>2, <1>10, <3>2
  <2>2. Course(x)'
    BY <1>1, <1>2, <1>6, <1>7, <1>10, <2>1 DEF Course
  <2> QED  BY <1>5, <1>10, <2>2
<1> QED  BY <1>4, <1>8, <1>9, <1>10

\* What only Transcribe, Polly or an upload changes leaves the rest alone.
LEMMA Beside ==
    ASSUME Inv, UNCHANGED <<exec, inv, text, manifest, newest, overlapped>>,
           \A y \in Executions : Course(y)', \A e \in Episodes : Reads(e)', Shapes',
           \A y \in Executions : exec[y].call # 0 =>
              job'[y].language = job[y].language /\ job'[y].status = job[y].status
    PROVE  Inv'
<1>1. Shapes
  BY DEF Inv
<1>2. ASSUME NEW c \in Calls  PROVE Place(c)'
  <2>1. Place(c) /\ c[1] \in Executions /\ c[2] \in 1..MaxInvokes
    BY Pairs DEF Inv
  <2>2. exec[c[1]].call \in Nat
    BY <1>1, <2>1, Numbers DEF Shapes, Runs
  <2> QED  BY <2>1, <2>2 DEF Place, SourceOf
<1>3. ASSUME NEW e \in Episodes  PROVE (Newest(e) /\ Alone(e) /\ Own(e))'
  <2>1. Newest(e) /\ Alone(e) /\ Own(e)
    BY DEF Inv
  <2>2. newest[e] # None => newest[e] \in Executions
    BY <1>1 DEF Shapes
  <2>3. Newest(e)' /\ Alone(e)'
    BY <2>1 DEF Newest, Alone, Of, Episode, Active, RunningCalls
  <2>4. ASSUME newest[e] # None, e \notin overlapped, exec[newest[e]].call # 0
        PROVE  Writes(e, Call(newest[e]))'
    <3>1. Writes(e, Call(newest[e])) /\ Call(newest[e])[1] = newest[e]
      BY <2>1, <2>4 DEF Own, Call
    <3>2. SourceOf(Call(newest[e]))' = SourceOf(Call(newest[e]))
      BY <2>2, <2>4, <3>1 DEF SourceOf, Call
    <3>3. Call(newest[e])' = Call(newest[e])
      BY DEF Call
    <3> QED  BY <3>1, <3>2, <3>3 DEF Writes
  <2>5. Own(e)'
    BY <2>4 DEF Own
  <2> QED  BY <2>3, <2>5
<1> QED  BY <1>2, <1>3 DEF Inv

LEMMA UploadKeeps ==
    ASSUME Inv, NEW k \in Keys, Upload(k)  PROVE Inv'
<1>1. /\ Shapes /\ uploaded[k] < MaxUploads /\ uploaded' = [uploaded EXCEPT ![k] = @ + 1]
      /\ pending' = pending \cup {<<k, uploaded[k] + 1>>}
      /\ UNCHANGED <<exec, job, inv, speech, text, manifest, faults, newest, overlapped>>
  BY DEF Inv, Upload
<1>2. uploaded[k] \in 0..MaxUploads /\ uploaded[k] + 1 \in 1..MaxUploads
      /\ uploaded[k] + 1 \in 0..MaxUploads
  BY <1>1, Numbers DEF Shapes
<1>3. Shapes'
  BY <1>1, <1>2 DEF Shapes
<1>4. ASSUME NEW y \in Executions  PROVE Course(y)'
  <2>1. Course(y)
    BY DEF Inv
  <2> QED  BY <1>1, <2>1 DEF Course, Call, Listed
<1>5. ASSUME NEW e \in Episodes  PROVE Reads(e)'
  <2>1. Reads(e) /\ (newest[e] # None => newest[e] \in Executions)
    BY <1>1 DEF Inv, Shapes
  <2>2. <<k, uploaded[k] + 1>>[1] = k /\ <<k, uploaded[k] + 1>> \in pending'
    BY <1>1
  <2>3. CASE newest[e] # None /\ exec[newest[e]].key = k /\ Newest(e)
    <3>1. EpisodeOf[k] = e
      BY <2>3 DEF Newest, Of, Episode
    <3> QED  BY <1>1, <2>2, <3>1 DEF Reads
  <2>4. CASE newest[e] # None /\ exec[newest[e]].key # k
    <3>1. exec[newest[e]].key # None => exec[newest[e]].key \in Keys
      BY <1>1, <2>1, <2>4 DEF Shapes, Runs
    <3>2. exec[newest[e]].key # None
      BY <2>4 DEF Inv, Newest, Of
    <3>3. uploaded'[exec[newest[e]].key] = uploaded[exec[newest[e]].key]
      BY <1>1, <2>4, <3>1, <3>2 DEF Shapes
    <3> QED  BY <1>1, <2>1, <3>3 DEF Reads
  <2>5. CASE newest[e] = None
    BY <1>1, <2>5 DEF Reads
  <2>6. Newest(e)
    BY DEF Inv
  <2> QED  BY <2>3, <2>4, <2>5, <2>6
<1> QED  BY <1>1, <1>3, <1>4, <1>5, Beside

LEMMA TranscriptionEndsKeeps ==
    ASSUME Inv, NEW x \in Executions, TranscriptionEnds(x)  PROVE Inv'
<1>1. /\ Shapes /\ Course(x) /\ exec[x].state = "waiting" /\ job[x].status = "queued"
      /\ (Fault \/ UNCHANGED faults)
      /\ UNCHANGED <<uploaded, pending, exec, inv, speech, text, manifest, newest, overlapped>>
  BY DEF Inv, TranscriptionEnds, InState
<1>2. faults' \in 0..MaxFaults
  BY <1>1, Faults
<1>3. exec[x].key \in Keys /\ exec[x].call = 0 /\ uploaded[exec[x].key] \in 0..MaxUploads
  BY <1>1 DEF Course, Shapes, Runs
<1>4. PICK j \in Jobs : /\ job' = [job EXCEPT ![x] = j]
                        /\ \/ /\ j.status = "COMPLETED" /\ j.language \in Spoken
                              /\ j.version = uploaded[exec[x].key]
                           \/ j.status = "FAILED"
  <2>1. CASE \E l \in Spoken : job' = [job EXCEPT ![x] = [status   |-> "COMPLETED",
                                                          version  |-> uploaded[exec[x].key],
                                                          language |-> l]]
    <3>1. PICK l \in Spoken : job' = [job EXCEPT ![x] = [status   |-> "COMPLETED",
                                                         version  |-> uploaded[exec[x].key],
                                                         language |-> l]]
      BY <2>1
    <3>2. [status |-> "COMPLETED", version |-> uploaded[exec[x].key], language |-> l] \in Jobs
      BY <1>3 DEF Jobs
    <3> QED  BY <3>1, <3>2
  <2>2. CASE job' = [job EXCEPT ![x].status = "FAILED"]
    <3>1. [job[x] EXCEPT !.status = "FAILED"] \in Jobs
      BY <1>1 DEF Shapes, Jobs
    <3>2. job' = [job EXCEPT ![x] = [job[x] EXCEPT !.status = "FAILED"]]
      BY <1>1, <2>2 DEF Shapes
    <3>3. [job[x] EXCEPT !.status = "FAILED"].status = "FAILED"
      BY <1>1 DEF Shapes, Jobs
    <3> QED  BY <3>1, <3>2, <3>3
  <2> QED  BY <2>1, <2>2 DEF TranscriptionEnds
<1>5. /\ job' \in [Executions -> Jobs] /\ job'[x] = j
      /\ \A y \in Executions : y # x => job'[y] = job[y]
  BY <1>1, <1>4 DEF Shapes
<1>6. Shapes'
  BY <1>1, <1>2, <1>5 DEF Shapes
<1>7. ASSUME NEW y \in Executions  PROVE Course(y)'
  <2>1. Course(y)
    BY DEF Inv
  <2>2. CASE y = x
    BY <1>1, <1>4, <1>5, <2>1, <2>2 DEF Course
  <2>3. CASE y # x
    BY <1>1, <1>5, <2>1, <2>3 DEF Course, Call, Listed
  <2> QED  BY <2>2, <2>3
<1>8. ASSUME NEW e \in Episodes  PROVE Reads(e)'
  <2>1. Reads(e) /\ (newest[e] # None => newest[e] \in Executions)
    BY <1>1 DEF Inv, Shapes
  <2> QED  BY <1>1, <1>4, <1>5, <2>1 DEF Reads
<1> QED  BY <1>1, <1>3, <1>5, <1>6, <1>7, <1>8, Beside

LEMMA SpeechEndsKeeps ==
    ASSUME Inv, NEW x \in Executions, SpeechEnds(x)  PROVE Inv'
<1>1. /\ Shapes /\ (Fault \/ UNCHANGED faults)
      /\ UNCHANGED <<uploaded, pending, exec, job, inv, text, manifest, newest, overlapped>>
  BY DEF Inv, SpeechEnds
<1>2. faults' \in 0..MaxFaults
  BY <1>1, Faults
<1>3. PICK t : /\ speech[t] = "running"
               /\ \/ speech' = [speech EXCEPT ![t] = "completed"]
                  \/ speech' = [speech EXCEPT ![t] = "failed"]
  BY DEF SpeechEnds
<1>4. /\ speech' \in [Tasks -> {"none", "running", "completed", "failed"}]
      /\ \A u \in Tasks : u # t => speech'[u] = speech[u]
  BY <1>1, <1>3 DEF Shapes
<1>5. Shapes'
  BY <1>1, <1>2, <1>4 DEF Shapes
<1>6. ASSUME NEW y \in Executions  PROVE Course(y)'
  <2>1. Course(y) /\ Call(y)' = Call(y)
    BY <1>1 DEF Inv, Call
  <2>2. ASSUME exec[y].state = "succeeded", NEW u \in Listed(Call(y))'
        PROVE  speech'[u] = "completed"
    <3>1. Call(y) \in Calls
      BY <2>1, <2>2, Pairs DEF Course, Call
    <3>2. u \in Listed(Call(y))
      BY <1>1, <2>1, <2>2, ListedStays DEF Listed
    <3>3. u \in Tasks /\ speech[u] = "completed"
      BY <1>1, <2>1, <2>2, <3>1, <3>2, ListedAre DEF Course
    <3> QED  BY <1>3, <1>4, <3>3
  <2> QED  BY <1>1, <2>1, <2>2 DEF Course
<1>7. ASSUME NEW e \in Episodes  PROVE Reads(e)'
  <2>1. Reads(e)
    BY DEF Inv
  <2> QED  BY <1>1, <2>1 DEF Reads
<1> QED  BY <1>1, <1>5, <1>6, <1>7, Beside

\* Where a running function is, and whose files it writes.
LEMMA RunningCall ==
    ASSUME Inv, NEW c \in Calls, inv[c].phase \in Running
    PROVE  /\ Shapes /\ Place(c) /\ inv[c] \in Invocations
           /\ c[1] \in Executions /\ c[2] \in RunningCalls(c[1])
           /\ Episode(c[1]) \in Episodes /\ Episode(c[1])' = EpisodeOf[exec'[c[1]].key]
           /\ SourceOf(c) \in Languages /\ By(c, "original") \in Texts
           /\ By(c, "translated") \in Texts
<1>1. Shapes /\ Place(c) /\ c[1] \in Executions /\ c[2] \in 1..MaxInvokes /\ c = <<c[1], c[2]>>
  BY Pairs DEF Inv
<1>2. inv[c] \in Invocations
  BY <1>1 DEF Shapes
<1>3. c[2] \in RunningCalls(c[1])
  BY <1>1, RunningIs
<1>4. exec[c[1]].key # None /\ job[c[1]].status = "COMPLETED"
  BY <1>1 DEF Place, Running
<1>5. exec[c[1]].key \in Keys
  BY <1>1, <1>4 DEF Shapes, Runs
<1>6. Episode(c[1]) \in Episodes
  BY <1>5, Numbers DEF Episode
<1>7. SourceOf(c) \in Languages
  BY <1>1, <1>4 DEF Inv, Course, SourceOf, Languages
<1>8. By(c, "original") \in Texts /\ By(c, "translated") \in Texts
  BY <1>1 DEF By, Texts
<1> QED  BY <1>1, <1>2, <1>3, <1>6, <1>7, <1>8 DEF Episode

\* One text is put.
LEMMA Puts ==
    ASSUME Shapes, NEW e \in Episodes, NEW l \in Languages, NEW w \in Texts,
           text' = [text EXCEPT ![<<e, l>>] = w]
    PROVE  /\ text' \in [Episodes \X Languages -> Texts]
           /\ text'[<<e, l>>] = w
           /\ \A d \in Episodes : \A k \in Languages :
                 <<d, k>> # <<e, l>> => text'[<<d, k>>] = text[<<d, k>>]
BY DEF Shapes

LEMMA ReadTranscriptKeeps ==
    ASSUME Inv, NEW c \in Calls, ReadTranscript(c)  PROVE Inv'
<1>0. Episode(c[1]) \in Episodes /\ SourceOf(c) \in Languages
  BY RunningCall DEF ReadTranscript, IsAt, Running
<1>00. PICK e \in Episodes, l \in Languages : e = Episode(c[1]) /\ l = SourceOf(c)
  BY <1>0
<1> DEFINE r == [inv[c] EXCEPT !.phase = "translating", !.at = NextAfter(0, l)]
<1>1. inv[c].phase = "reading" /\ text' = [text EXCEPT ![<<e, l>>] = By(c, "original")]
      /\ UNCHANGED <<uploaded, pending, exec, job, speech, manifest, faults, newest, overlapped>>
  BY <1>00 DEF ReadTranscript, IsAt
<1>2. /\ Shapes /\ inv[c] \in Invocations /\ c[2] \in RunningCalls(c[1]) /\ e \in Episodes
      /\ l \in Languages /\ By(c, "original") \in Texts /\ Place(c) /\ c[1] \in Executions
  BY <1>1, RunningCall DEF Running
<1>3. /\ NextAfter(0, l) \in 1..Len(Targets) + 1
      /\ (NextAfter(0, l) <= Len(Targets) => Targets[NextAfter(0, l)] # l)
      /\ \A k \in 1..NextAfter(0, l) - 1 : Targets[k] = l
  BY NextIs, Voices
<1>4. r \in Invocations /\ r.phase = "translating" /\ r.at = NextAfter(0, l)
  <2>1. NextAfter(0, l) \in 0..Len(Targets) + 1 /\ "translating" \in Phases
    BY <1>3, Voices DEF Phases
  <2>2. 0 \in 0..MaxParts
    BY Numbers
  <2> DEFINE at == NextAfter(0, l)
  <2> HIDE DEF at
  <2> QED  BY <1>2, <2>1 DEF Invocations, at
<1>5. inv' = [inv EXCEPT ![c] = r]
  BY <1>00, <1>2 DEF ReadTranscript, Shapes
<1>6. inv'[c] = r
  BY <1>2, <1>5 DEF Shapes
<1> HIDE DEF r
<1>7. SourceOf(c)' = l /\ Episode(c[1])' = e
  BY <1>00, <1>1 DEF SourceOf, Episode
<1>8. Place(c)'
  BY <1>00, <1>1, <1>2, <1>3, <1>4, <1>6, <1>7 DEF Place
<1>9. /\ text' \in [Episodes \X Languages -> Texts] /\ text'[<<e, l>>] = By(c, "original")
      /\ \A d \in Episodes : \A k \in Languages : d # e => text'[<<d, k>>] = text[<<d, k>>]
  <2> QED  BY <1>1, <1>2, Puts
<1>10. Writes(e, c)'
  <2>1. \A j \in 1..Len(Targets) : j < r.at => Targets[j] = l
    BY <1>3, <1>4, Voices
  <2>2. \A j \in 1..Len(Targets) : Before(j, r) => Targets[j] = l
    BY <1>4, <2>1 DEF Before
  <2> QED  BY <1>4, <1>6, <1>7, <1>9, <2>2 DEF Writes, Before
<1>11. Writes(Episode(c[1]), c)'
  BY <1>00, <1>7, <1>10 DEF Writes
<1>12. /\ speech' \in [Tasks -> {"none", "running", "completed", "failed"}]
       /\ manifest' \in [Episodes -> Calls \cup {None}] /\ faults' \in 0..MaxFaults
  BY <1>1, <1>2 DEF Shapes
<1> QED  BY <1>00, <1>1, <1>2, <1>4, <1>5, <1>8, <1>9, <1>11, <1>12, Proceeds

LEMMA TranslateKeeps ==
    ASSUME Inv, NEW c \in Calls, Translate(c)  PROVE Inv'
<1>0. Episode(c[1]) \in Episodes /\ SourceOf(c) \in Languages
  BY RunningCall DEF Translate, IsAt, Running
<1>00. PICK e \in Episodes, src \in Languages : e = Episode(c[1]) /\ src = SourceOf(c)
  BY <1>0
<1> DEFINE n == inv[c].at
           l == Targets[n]
<1>1. /\ inv[c].phase = "translating" /\ n <= Len(Targets)
      /\ text' = [text EXCEPT ![<<e, l>>] = By(c, "translated")]
      /\ UNCHANGED <<uploaded, pending, exec, job, speech, manifest, faults, newest, overlapped>>
  BY <1>00 DEF Translate, IsAt
<1>2. /\ Shapes /\ inv[c] \in Invocations /\ c[2] \in RunningCalls(c[1]) /\ e \in Episodes
      /\ src \in Languages /\ By(c, "translated") \in Texts /\ Place(c) /\ c[1] \in Executions
  BY <1>1, RunningCall DEF Running
<1>3. n \in 1..Len(Targets) /\ l \in Languages /\ l \in ToSet(Targets) /\ l # src
  <2>1. n \in 1..Len(Targets) + 1
    BY <1>1, <1>2 DEF Place
  <2>2. n \in 1..Len(Targets)
    BY <1>1, <2>1, Voices
  <2> QED  BY <1>00, <1>1, <1>2, <2>2, Voices DEF Place
<1> DEFINE next == NextAfter(n, src)
<1>4. /\ next \in n + 1..Len(Targets) + 1 /\ (next <= Len(Targets) => Targets[next] # src)
      /\ \A k \in n + 1..next - 1 : Targets[k] = src
  BY <1>3, NextIs, Voices
<1>5. PICK said \in Translations : inv' = [inv EXCEPT ![c] =
          [inv[c] EXCEPT !.said[l] = said, !.started = 0,
                         !.phase = IF Parts[said] = <<>> THEN "translating" ELSE "speaking",
                         !.at = IF Parts[said] = <<>> THEN next ELSE n]]
  BY <1>00 DEF Translate
<1> DEFINE silent == Parts[said] = <<>>
           phase == IF silent THEN "translating" ELSE "speaking"
           at == IF silent THEN next ELSE n
           r == [inv[c] EXCEPT !.said[l] = said, !.started = 0, !.phase = phase, !.at = at]
<1>6. inv' = [inv EXCEPT ![c] = r] /\ inv'[c] = r
  <2>1. inv' = [inv EXCEPT ![c] = r]
    BY <1>5
  <2> HIDE DEF r
  <2> QED  BY <1>2, <2>1 DEF Shapes
<1>7. phase \in Phases /\ at \in 0..Len(Targets) + 1
  BY <1>3, <1>4, Voices DEF Phases
<1>8. /\ r \in Invocations /\ r.phase = phase /\ r.started = 0
      /\ r.at = at /\ r.said[l] = said
  <2>1. /\ inv[c] \in Invocations /\ l \in ToSet(Targets) /\ said \in Translations
        /\ 0 \in 0..MaxParts
    BY <1>2, <1>3, Numbers
  <2> HIDE DEF phase, at, l, n, silent, next
  <2> QED  BY <1>7, <2>1 DEF Invocations, Saying
<1> HIDE DEF r, next
<1>9. SourceOf(c)' = src /\ Episode(c[1])' = e
  BY <1>00, <1>1 DEF SourceOf, Episode
<1>10. Place(c)'
  <2>1. CASE silent
    <3>1. next \in 1..Len(Targets) + 1
      BY <1>3, <1>4, Voices
    <3> QED  BY <1>1, <1>2, <1>4, <1>6, <1>8, <1>9, <2>1, <3>1 DEF Place
  <2>2. CASE ~silent
    <3>1. 0 < Len(Parts[said])
      BY <2>2, PartsAre
    <3> QED  BY <1>1, <1>2, <1>3, <1>6, <1>8, <1>9, <2>2, <3>1 DEF Place
  <2> QED  BY <2>1, <2>2
<1>11. /\ text' \in [Episodes \X Languages -> Texts] /\ text'[<<e, l>>] = By(c, "translated")
       /\ \A d \in Episodes : \A k \in Languages :
             <<d, k>> # <<e, l>> => text'[<<d, k>>] = text[<<d, k>>]
  <2> HIDE DEF l
  <2> QED  BY <1>1, <1>2, <1>3, Puts
<1>12. ASSUME Writes(e, c)  PROVE Writes(e, c)'
  <2>1. text'[<<e, src>>] = By(c, "original")
    <3>1. text[<<e, src>>] = By(c, "original")
      BY <1>00, <1>1, <1>12 DEF Writes
    <3>2. <<e, src>> # <<e, l>>
      BY <1>3
    <3> HIDE DEF l
    <3> QED  BY <1>2, <1>11, <3>1, <3>2
  <2>2. ASSUME NEW j \in 1..Len(Targets), Targets[j] # src, Before(j, r)
        PROVE  text'[<<e, Targets[j]>>] = By(c, "translated")
    <3>1. j <= n
      <4>1. CASE silent
        <5>1. j < next
          BY <1>8, <2>2, <4>1 DEF Before
        <5>2. ~(j \in n + 1..next - 1)
          BY <1>4, <2>2
        <5> QED  BY <1>3, <1>4, <5>1, <5>2, Voices
      <4>2. CASE ~silent
        BY <1>3, <1>8, <2>2, <4>2, Voices DEF Before
      <4> QED  BY <4>1, <4>2
    <3>2. CASE j = n
      BY <1>11, <3>2
    <3>3. CASE j # n
      <4>1. j < n /\ Targets[j] # l /\ Targets[j] \in Languages
        BY <1>3, <3>1, <3>3, Voices
      <4>2. text[<<e, Targets[j]>>] = By(c, "translated")
        BY <1>00, <1>1, <1>12, <2>2, <4>1 DEF Writes, Before
      <4>3. <<e, Targets[j]>> # <<e, l>>
        BY <4>1
      <4> HIDE DEF l
      <4> QED  BY <1>2, <1>11, <4>1, <4>2, <4>3
    <3> QED  BY <3>2, <3>3
  <2> HIDE DEF l
  <2> QED  BY <1>6, <1>8, <1>9, <2>1, <2>2 DEF Writes, Before
<1>13. Writes(Episode(c[1]), c) => Writes(Episode(c[1]), c)'
  BY <1>00, <1>9, <1>12 DEF Writes
<1>14. /\ speech' \in [Tasks -> {"none", "running", "completed", "failed"}]
       /\ manifest' \in [Episodes -> Calls \cup {None}] /\ faults' \in 0..MaxFaults
  BY <1>1, <1>2 DEF Shapes
<1>15. \A d \in Episodes : \A k \in Languages : d # e => text'[<<d, k>>] = text[<<d, k>>]
  <2> HIDE DEF l
  <2> QED  BY <1>11
<1> QED  BY <1>00, <1>1, <1>2, <1>6, <1>8, <1>10, <1>11, <1>13, <1>14, <1>15, Proceeds

LEMMA StartSpeechKeeps ==
    ASSUME Inv, NEW c \in Calls, StartSpeech(c)  PROVE Inv'
<1>0. SourceOf(c) \in Languages
  BY RunningCall DEF StartSpeech, IsAt, Running
<1>00. PICK src \in Languages : src = SourceOf(c)
  BY <1>0
<1> DEFINE n == inv[c].at
           l == Targets[n]
           i == inv[c].started + 1
           last == i = Len(Parts[inv[c].said[l]])
           next == NextAfter(n, src)
           phase == IF last THEN "translating" ELSE "speaking"
           at == IF last THEN next ELSE n
           r == [inv[c] EXCEPT !.started = i, !.phase = phase, !.at = at]
<1>1. /\ inv[c].phase = "speaking" /\ speech' = [speech EXCEPT ![Task(c, l, i)] = "running"]
      /\ inv' = [inv EXCEPT ![c] = r]
      /\ UNCHANGED <<uploaded, pending, exec, job, text, manifest, faults, newest, overlapped>>
  BY <1>00 DEF StartSpeech, IsAt
<1>2. /\ Shapes /\ inv[c] \in Invocations /\ c[2] \in RunningCalls(c[1]) /\ Place(c)
      /\ c[1] \in Executions
  BY <1>1, RunningCall DEF Running
<1>3. /\ n \in 1..Len(Targets) /\ l # src /\ l \in ToSet(Targets)
      /\ inv[c].started < Len(Parts[inv[c].said[l]])
  BY <1>00, <1>1, <1>2, Voices DEF Place
<1>4. /\ next \in n + 1..Len(Targets) + 1 /\ (next <= Len(Targets) => Targets[next] # src)
      /\ \A k \in n + 1..next - 1 : Targets[k] = src
  BY SMTT(30), <1>3, NextIs, Voices
<1>5. i \in 0..MaxParts /\ (~last => i < Len(Parts[inv[c].said[l]]))
  <2>1. inv[c].said[l] \in Translations \cup {<<>>} /\ inv[c].started \in Nat
    BY <1>2, <1>3, Numbers DEF Invocations, Saying
  <2>2. Len(Parts[inv[c].said[l]]) \in 0..MaxParts
    BY <2>1, PartsAre
  <2> QED  BY SMTT(30), <1>3, <2>1, <2>2, Numbers
<1>6. inv'[c] = r
  BY <1>1, <1>2 DEF Shapes
<1>7. phase \in Phases /\ at \in 0..Len(Targets) + 1
  BY <1>3, <1>4, Voices DEF Phases
<1>8. /\ r \in Invocations /\ r.phase = phase /\ r.started = i
      /\ r.at = at /\ r.said = inv[c].said
  <2> HIDE DEF phase, at, i
  <2> QED  BY <1>2, <1>5, <1>7 DEF Invocations
<1>9. speech' \in [Tasks -> {"none", "running", "completed", "failed"}]
  BY <1>1, <1>2 DEF Shapes
<1>10. \A t \in Tasks : <<t[1], t[2]>> # c => speech'[t] = speech[t]
  <2>1. c = <<c[1], c[2]>>
    BY Pairs
  <2>2. \A t \in Tasks : <<t[1], t[2]>> # c => t # Task(c, l, i)
    BY <2>1 DEF Task
  <2> HIDE DEF l, i
  <2> QED  BY <1>1, <1>2, <2>2 DEF Shapes
<1> HIDE DEF r, next
<1>11. SourceOf(c)' = src /\ Episode(c[1])' = Episode(c[1])
  BY <1>00, <1>1 DEF SourceOf, Episode
<1>12. Place(c)'
  <2>1. CASE last
    <3>1. next \in 1..Len(Targets) + 1
      BY <1>3, <1>4, Voices
    <3> QED  BY <1>1, <1>2, <1>4, <1>6, <1>8, <1>11, <2>1, <3>1 DEF Place
  <2>2. CASE ~last
    BY <1>1, <1>2, <1>3, <1>5, <1>6, <1>8, <1>11, <2>2 DEF Place
  <2> QED  BY <2>1, <2>2
<1>13. ASSUME NEW e, Writes(e, c)  PROVE Writes(e, c)'
  <2>1. ASSUME NEW j \in 1..Len(Targets), Targets[j] # src, Before(j, r)
        PROVE  Before(j, inv[c])
    <3>1. CASE last
      <4>1. j < next
        BY <1>8, <2>1, <3>1 DEF Before
      <4>2. ~(j \in n + 1..next - 1)
        BY <1>4, <2>1
      <4>3. j <= n
        BY <1>3, <1>4, <4>1, <4>2, Voices
      <4> QED  BY <1>1, <1>3, <4>3 DEF Before
    <3>2. CASE ~last
      BY <1>1, <1>8, <2>1, <3>2 DEF Before
    <3> QED  BY <3>1, <3>2
  <2>2. /\ text[<<e, src>>] = By(c, "original")
        /\ \A j \in 1..Len(Targets) : Targets[j] # src /\ Before(j, inv[c]) =>
              text[<<e, Targets[j]>>] = By(c, "translated")
    BY <1>00, <1>1, <1>13 DEF Writes
  <2>3. r.phase # "returned"
    BY <1>8
  <2> QED  BY <1>1, <1>6, <1>11, <2>1, <2>2, <2>3 DEF Writes, Before
<1>14. Writes(Episode(c[1]), c) => Writes(Episode(c[1]), c)'
  BY <1>11, <1>13 DEF Writes
<1>15. /\ manifest' \in [Episodes -> Calls \cup {None}] /\ faults' \in 0..MaxFaults
       /\ text' \in [Episodes \X Languages -> Texts]
  BY <1>1, <1>2 DEF Shapes
<1>16. inv' = [inv EXCEPT ![c] = r]
  BY <1>1 DEF r, next
<1> QED  BY <1>1, <1>2, <1>8, <1>9, <1>10, <1>12, <1>14, <1>15, <1>16, Proceeds

LEMMA PutManifestKeeps ==
    ASSUME Inv, NEW c \in Calls, PutManifest(c)  PROVE Inv'
<1>0. Episode(c[1]) \in Episodes
  BY RunningCall DEF PutManifest, IsAt, Running
<1>00. PICK e \in Episodes : e = Episode(c[1])
  BY <1>0
<1> DEFINE r == [inv[c] EXCEPT !.phase = "returned"]
<1>1. /\ inv[c].phase = "translating" /\ inv[c].at = Len(Targets) + 1
      /\ manifest' = [manifest EXCEPT ![e] = c] /\ inv' = [inv EXCEPT ![c].phase = "returned"]
      /\ UNCHANGED <<uploaded, pending, exec, job, speech, text, faults, newest, overlapped>>
  BY <1>00 DEF PutManifest, IsAt
<1>2. /\ Shapes /\ inv[c] \in Invocations /\ c[2] \in RunningCalls(c[1]) /\ Place(c)
      /\ c[1] \in Executions /\ e \in Episodes
  BY <1>1, RunningCall DEF Running
<1>3. inv' = [inv EXCEPT ![c] = r] /\ inv'[c] = r
  BY <1>1, <1>2 DEF Shapes
<1>4. /\ r \in Invocations /\ r.phase = "returned" /\ r.at = inv[c].at
      /\ r.said = inv[c].said /\ r.started = inv[c].started
  BY <1>2 DEF Invocations, Phases
<1> HIDE DEF r
<1>5. Place(c)'
  BY <1>1, <1>2, <1>3, <1>4 DEF Place, SourceOf
<1>6. /\ manifest' \in [Episodes -> Calls \cup {None}] /\ manifest'[e] = c
      /\ \A d \in Episodes : d # e => manifest'[d] = manifest[d]
  <2> QED  BY <1>1, <1>2 DEF Shapes
<1>7. SourceOf(c)' = SourceOf(c) /\ Episode(c[1])' = e
  BY <1>00, <1>1 DEF SourceOf, Episode
<1>8. ASSUME Writes(e, c)  PROVE Writes(e, c)'
  <2>1. \A j \in 1..Len(Targets) : Before(j, r) => Before(j, inv[c])
    BY <1>4 DEF Before
  <2> QED  BY <1>1, <1>3, <1>4, <1>6, <1>7, <1>8, <2>1 DEF Writes, Before
<1>9. Writes(Episode(c[1]), c) => Writes(Episode(c[1]), c)'
  BY <1>00, <1>7, <1>8 DEF Writes
<1>10. /\ speech' \in [Tasks -> {"none", "running", "completed", "failed"}]
       /\ faults' \in 0..MaxFaults /\ text' \in [Episodes \X Languages -> Texts]
  BY <1>1, <1>2 DEF Shapes
<1> QED  BY <1>00, <1>1, <1>2, <1>3, <1>4, <1>5, <1>6, <1>9, <1>10, Proceeds

LEMMA ThrowsKeeps ==
    ASSUME Inv, NEW c \in Calls, Throws(c)  PROVE Inv'
<1> DEFINE r == [inv[c] EXCEPT !.phase = "thrown"]
<1>1. /\ c[2] \in RunningCalls(c[1]) /\ inv' = [inv EXCEPT ![c].phase = "thrown"]
      /\ Fault \/ UNCHANGED faults
      /\ UNCHANGED <<uploaded, pending, exec, job, speech, text, manifest, newest, overlapped>>
  BY DEF Throws
<1>2. Shapes /\ c[1] \in Executions /\ c[2] \in 1..MaxInvokes /\ c = <<c[1], c[2]>> /\ Place(c)
  BY Pairs DEF Inv
<1>3. inv[c].phase \in Running /\ inv[c] \in Invocations
  BY <1>1, <1>2, RunningIs DEF Shapes
<1>4. inv' = [inv EXCEPT ![c] = r] /\ inv'[c] = r
  BY <1>1, <1>2 DEF Shapes
<1>5. r \in Invocations /\ r.phase = "thrown"
  BY <1>3 DEF Invocations, Phases
<1> HIDE DEF r
<1>6. Place(c)'
  BY <1>1, <1>2, <1>3, <1>4, <1>5 DEF Place, Running
<1>7. Writes(Episode(c[1]), c)'
  BY <1>4, <1>5 DEF Writes
<1>8. /\ speech' \in [Tasks -> {"none", "running", "completed", "failed"}]
      /\ text' \in [Episodes \X Languages -> Texts]
      /\ manifest' \in [Episodes -> Calls \cup {None}] /\ faults' \in 0..MaxFaults
  BY <1>1, <1>2, Faults DEF Shapes
<1> QED  BY <1>1, <1>4, <1>5, <1>6, <1>7, <1>8, Proceeds

\* The machine calls the function, once more or for the first time; of the
\* call before nobody knows whether it ran, unless that may still write.
LEMMA Invokes ==
    ASSUME Inv, NEW x \in Executions, NEW n \in 1..MaxInvokes, n = exec[x].call + 1,
           exec[x].state \in {"waiting", "invoking"}, job[x].status = "COMPLETED",
           exec' = [exec EXCEPT ![x].state = "invoking", ![x].call = n],
           inv' \in [Calls -> Invocations], inv'[<<x, n>>].phase = "reading",
           \A c \in Calls : c # <<x, n>> =>
              inv'[c] = inv[c] \/ (c = Call(x) /\ inv'[c].phase = "off"),
           overlapped \subseteq overlapped', overlapped' \subseteq Episodes,
           Episode(x) \notin overlapped' =>
              exec[x].call = 0 \/ inv'[Call(x)].phase \notin Running,
           faults' \in 0..MaxFaults,
           UNCHANGED <<uploaded, pending, job, speech, text, manifest, newest>>
    PROVE  Inv'
<1>1. Shapes /\ Course(x) /\ exec[x].call \in 0..MaxInvokes /\ exec[x].call # n
  BY Numbers DEF Inv, Shapes, Runs
<1>2. /\ exec' \in [Executions -> Runs] /\ exec'[x].state = "invoking" /\ exec'[x].call = n
      /\ exec'[x].key = exec[x].key
      /\ \A y \in Executions : y # x => exec'[y] = exec[y]
  <2>1. n \in 0..MaxInvokes
    BY Numbers
  <2> QED  BY <1>1, <2>1 DEF Shapes, Runs, States
<1>3. exec[x].key # None
  BY <1>1 DEF Course
<1>4. Shapes'
  BY <1>1, <1>2 DEF Shapes
<1>5. Call(x)' = <<x, n>> /\ \A y \in Executions : y # x => Call(y)' = Call(y)
  BY <1>2 DEF Call
<1>6. <<x, n>> \in Calls /\ <<x, n>> # Call(x)
  BY <1>1, Pairs DEF Call
<1>7. ASSUME NEW y \in Executions, y # x, Call(y) \in Calls  PROVE inv'[Call(y)] = inv[Call(y)]
  <2>1. Call(y) # <<x, n>> /\ Call(y) # Call(x)
    BY <1>7 DEF Call
  <2> QED  BY <1>7, <2>1
<1>8. \A y \in Executions : exec[y].call \in 1..MaxInvokes => Call(y) \in Calls
  BY Pairs DEF Call
<1>9. ASSUME NEW y \in Executions  PROVE Course(y)'
  <2>1. Course(y)
    BY DEF Inv
  <2>2. CASE y = x
    BY <1>1, <1>2, <1>3, <2>1, <2>2 DEF Course
  <2>3. CASE y # x
    <3>1. exec'[y] = exec[y] /\ Call(y)' = Call(y)
      BY <1>2, <1>5, <2>3
    <3>2. exec[y].state \in {"polling", "succeeded"} =>
            Call(y) \in Calls /\ inv'[Call(y)] = inv[Call(y)]
      BY <1>7, <1>8, <2>1, <2>3 DEF Course
    <3>3. ASSUME exec[y].state = "succeeded", NEW t \in Listed(Call(y))'
          PROVE  speech'[t] = "completed"
      <4>1. t \in Listed(Call(y))
        BY <3>1, <3>2, <3>3, ListedStays DEF Listed
      <4> QED  BY <2>1, <3>3, <4>1 DEF Course
    <3> QED  BY <2>1, <3>1, <3>2, <3>3 DEF Course
  <2> QED  BY <2>2, <2>3
<1>10. ASSUME NEW c \in Calls  PROVE Place(c)'
  <2>1. c[1] \in Executions /\ c[2] \in 1..MaxInvokes /\ c = <<c[1], c[2]>> /\ Place(c)
    BY Pairs DEF Inv
  <2>2. CASE c = <<x, n>>
    <3>1. c[1] = x /\ c[2] = n
      BY <2>2
    <3> QED  BY <1>2, <1>3, <2>2, <3>1 DEF Place
  <2>3. CASE c # <<x, n>> /\ inv'[c] = inv[c]
    <3>1. exec[c[1]].call <= exec'[c[1]].call /\ exec'[c[1]].key = exec[c[1]].key
      <4>1. exec[c[1]].call \in Nat
        BY <1>1, <2>1, Numbers DEF Shapes, Runs
      <4> QED  BY <1>2, <2>1, <4>1
    <3>2. exec[c[1]].call \in Nat /\ exec'[c[1]].call \in Nat
      BY <1>1, <1>4, <2>1, Numbers DEF Shapes, Runs
    <3>3. c[2] <= exec[c[1]].call => c[2] <= exec'[c[1]].call
      BY <2>1, <3>1, <3>2
    <3>4. SourceOf(c)' = SourceOf(c)
      BY DEF SourceOf
    <3> QED  BY <2>1, <2>3, <3>1, <3>3, <3>4 DEF Place
  <2>4. CASE c # <<x, n>> /\ inv'[c].phase = "off"
    BY <2>4 DEF Place
  <2> QED  BY <2>2, <2>3, <2>4
<1>11. \A y \in Executions : \A e : Of(y, e)' <=> Of(y, e)
  BY <1>2 DEF Of, Episode
<1>12. ASSUME NEW y \in Executions, y # x  PROVE RunningCalls(y)' \subseteq RunningCalls(y)
  <2>1. ASSUME NEW m \in 1..MaxInvokes, inv'[<<y, m>>].phase \in Running
        PROVE  inv[<<y, m>>].phase \in Running
    <3>1. <<y, m>> \in Calls /\ <<y, m>> # <<x, n>>
      BY <1>12, Pairs
    <3>2. inv'[<<y, m>>].phase # "off"
      BY <2>1 DEF Running
    <3> QED  BY <2>1, <3>1, <3>2
  <2> QED  BY <2>1 DEF RunningCalls, Running
<1>13. ASSUME NEW m \in RunningCalls(x)', m # n
       PROVE  m \in RunningCalls(x) /\ inv'[<<x, m>>].phase \in Running
  <2>1. m \in 1..MaxInvokes /\ inv'[<<x, m>>].phase \in Running
    BY <1>13 DEF RunningCalls, Running
  <2>2. <<x, m>> \in Calls /\ <<x, m>> # <<x, n>> /\ inv'[<<x, m>>].phase # "off"
    BY <1>13, <2>1, Pairs DEF Running
  <2> QED  BY <2>1, <2>2, RunningIs
<1>14. \A y \in Executions : Active(y)' => Active(y)
  <2>1. Active(x)
    BY DEF Active
  <2> QED  BY <1>2, <1>12, <2>1 DEF Active
<1>15. ASSUME NEW e \in Episodes  PROVE (Newest(e) /\ Alone(e) /\ Own(e) /\ Reads(e))'
  <2>1. Newest(e) /\ Alone(e) /\ Own(e) /\ Reads(e)
    BY DEF Inv
  <2>2. newest[e] # None => newest[e] \in Executions
    BY <1>1 DEF Shapes
  <2>3. Newest(e)'
    BY <1>11, <2>1, <2>2 DEF Newest
  <2>4. Reads(e)'
    BY <1>2, <2>1, <2>2 DEF Reads
  <2>5. ASSUME e \notin overlapped', NEW y \in Executions, Of(y, e), Active(y)'
        PROVE  y = newest[e] /\ RunningCalls(y)' \subseteq {exec'[y].call}
    <3>1. y = newest[e] /\ RunningCalls(y) \subseteq {exec[y].call}
      BY <1>14, <2>1, <2>5 DEF Alone
    <3>2. CASE y # x
      BY <1>2, <1>12, <3>1, <3>2
    <3>3. CASE y = x
      <4>1. ASSUME NEW m \in RunningCalls(x)', m # n  PROVE FALSE
        <5>1. m = exec[x].call /\ inv'[<<x, m>>].phase \in Running /\ m \in 1..MaxInvokes
          BY <1>13, <3>1, <3>3, <4>1 DEF RunningCalls
        <5>2. <<x, m>> = Call(x)
          BY <5>1 DEF Call
        <5>3. Episode(x) = e
          BY <2>5, <3>3 DEF Of
        <5> QED  BY <2>5, <5>1, <5>2, <5>3
      <4> QED  BY <1>2, <3>1, <3>3, <4>1
    <3> QED  BY <3>2, <3>3
  <2>6. Alone(e)'
    BY <1>11, <2>5 DEF Alone
  <2>7. ASSUME newest[e] # None, e \notin overlapped', exec'[newest[e]].call # 0
        PROVE  Writes(e, Call(newest[e]))'
    <3>1. newest[e] \in Executions /\ e \notin overlapped
      BY <2>2, <2>7
    <3>2. PICK y \in Executions : y = newest[e]
      BY <3>1
    <3>3. CASE y = x
      <4>1. Writes(e, <<x, n>>)'
        BY DEF Writes
      <4>2. Call(newest[e])' = <<x, n>>
        BY <1>5, <3>2, <3>3
      <4> QED  BY <4>1, <4>2 DEF Writes
    <3>4. CASE y # x
      <4>1. exec'[y] = exec[y] /\ Call(y)' = Call(y)
        BY <1>2, <1>5, <3>4
      <4>2. Writes(e, Call(y)) /\ exec[y].call \in 1..MaxInvokes
        BY <1>1, <2>1, <2>7, <3>1, <3>2, <4>1 DEF Own, Shapes, Runs
      <4>3. inv'[Call(y)] = inv[Call(y)]
        BY <1>7, <1>8, <3>4, <4>2
      <4>4. PICK c \in Calls : c = Call(y)
        BY <1>8, <4>2
      <4>5. Writes(e, c)'
        BY <4>2, <4>3, <4>4 DEF Writes, SourceOf
      <4>6. Call(newest[e])' = c
        BY <3>2, <4>1, <4>4
      <4> QED  BY <4>5, <4>6 DEF Writes
    <3> QED  BY <3>3, <3>4
  <2>8. Own(e)'
    BY <2>7 DEF Own
  <2> QED  BY <2>3, <2>4, <2>6, <2>8
<1> QED  BY <1>4, <1>9, <1>10, <1>15 DEF Inv

LEMMA GetTranscriptionKeeps ==
    ASSUME Inv, NEW x \in Executions, GetTranscription(x)  PROVE Inv'
<1>1. /\ Shapes /\ Course(x) /\ exec[x].state = "waiting"
      /\ UNCHANGED <<uploaded, pending, job, speech, text, manifest, faults, newest, overlapped>>
  BY DEF Inv, GetTranscription, InState
<1>2. faults' \in 0..MaxFaults /\ job' \in [Executions -> Jobs]
  BY <1>1 DEF Shapes
<1>3. CASE job[x].status = "FAILED"
  <2>1. Goes(x, "failed") /\ UNCHANGED inv
    BY <1>3 DEF GetTranscription
  <2>2. exec'[x].state = "failed" /\ exec'[x].key = exec[x].key
    BY <1>1, <2>1 DEF Shapes, Goes, Runs
  <2>3. Course(x)'
    BY <1>1, <2>2 DEF Course
  <2>4. "failed" \in States /\ ~InState(x, "unused")
    BY <1>1 DEF States, InState
  <2> QED  BY <1>1, <1>2, <2>1, <2>3, <2>4, Moves
<1>4. CASE job[x].status # "FAILED"
  <2>1. /\ job[x].status = "COMPLETED"
        /\ exec' = [exec EXCEPT ![x].state = "invoking", ![x].call = 1]
        /\ inv' = [inv EXCEPT ![<<x, 1>>].phase = "reading"]
    BY <1>4 DEF GetTranscription
  <2>2. PICK n \in 1..MaxInvokes : n = 1
    BY Numbers
  <2>3. n = exec[x].call + 1 /\ exec[x].call = 0 /\ <<x, n>> \in Calls
    BY <1>1, <2>2, Pairs DEF Course
  <2>4. inv' \in [Calls -> Invocations] /\ inv'[<<x, n>>].phase = "reading"
        /\ \A c \in Calls : c # <<x, n>> => inv'[c] = inv[c]
    <3>1. [inv[<<x, n>>] EXCEPT !.phase = "reading"] \in Invocations
          /\ [inv[<<x, n>>] EXCEPT !.phase = "reading"].phase = "reading"
      BY ZenonT(60), <1>1, <2>3 DEF Shapes, Invocations, Phases
    <3>2. inv' = [inv EXCEPT ![<<x, n>>] = [inv[<<x, n>>] EXCEPT !.phase = "reading"]]
      BY <1>1, <2>1, <2>2, <2>3 DEF Shapes
    <3> QED  BY <1>1, <2>3, <3>1, <3>2 DEF Shapes
  <2>5. overlapped' \subseteq Episodes
    BY <1>1 DEF Shapes
  <2>6. exec' = [exec EXCEPT ![x].state = "invoking", ![x].call = n]
    BY <2>1, <2>2
  <2> QED  BY ZenonT(60), <1>1, <1>2, <2>1, <2>3, <2>4, <2>5, <2>6, Invokes
<1> QED  BY <1>3, <1>4

LEMMA InvokeRetriedKeeps ==
    ASSUME Inv, NEW x \in Executions, InvokeRetried(x)  PROVE Inv'
<1>1. /\ Shapes /\ Course(x) /\ exec[x].state = "invoking" /\ exec[x].call < MaxInvokes
      /\ exec' = [exec EXCEPT ![x].call = @ + 1] /\ Fault
      /\ UNCHANGED <<uploaded, pending, job, speech, text, manifest, newest>>
  BY DEF Inv, InvokeRetried, InState
<1>2. exec[x].call \in 1..MaxInvokes /\ job[x].status = "COMPLETED" /\ exec[x].key # None
  BY <1>1 DEF Course
<1>3. PICK n \in 1..MaxInvokes : n = exec[x].call + 1
  BY <1>1, <1>2, Numbers
<1>4. PICK c \in Calls : c = Call(x)
  BY <1>2, Pairs DEF Call
<1>5. <<x, n>> \in Calls /\ <<x, n>> # c
  BY <1>2, <1>3, <1>4, Pairs DEF Call
<1>6. PICK old \in {inv[c].phase} \cup (IF IsAt(c, "reading") THEN {"off"} ELSE {}) :
        /\ inv' = [inv EXCEPT ![c].phase = old, ![<<x, n>>].phase = "reading"]
        /\ overlapped' = IF old \in {"off", "returned", "thrown"} THEN overlapped
                         ELSE overlapped \cup {Episode(x)}
  BY <1>3, <1>4 DEF InvokeRetried
<1>7. inv[c] \in Invocations /\ inv[<<x, n>>] \in Invocations
  BY <1>1, <1>5 DEF Shapes
<1>8. old \in Phases /\ (old = inv[c].phase \/ old = "off")
  BY <1>6, <1>7 DEF Invocations, Phases
<1>9. /\ inv' \in [Calls -> Invocations] /\ inv'[<<x, n>>].phase = "reading"
      /\ inv'[c] = [inv[c] EXCEPT !.phase = old]
      /\ \A d \in Calls : d # <<x, n>> /\ d # c => inv'[d] = inv[d]
  <2>1. [inv[c] EXCEPT !.phase = old] \in Invocations
        /\ [inv[<<x, n>>] EXCEPT !.phase = "reading"] \in Invocations
        /\ [inv[<<x, n>>] EXCEPT !.phase = "reading"].phase = "reading"
    BY <1>7, <1>8 DEF Invocations, Phases
  <2>2. inv' = [inv EXCEPT ![c] = [inv[c] EXCEPT !.phase = old],
                           ![<<x, n>>] = [inv[<<x, n>>] EXCEPT !.phase = "reading"]]
    BY <1>1, <1>5, <1>6 DEF Shapes
  <2> QED  BY <1>1, <1>5, <2>1, <2>2 DEF Shapes
<1>10. inv'[c] = inv[c] \/ inv'[c].phase = "off"
  BY <1>7, <1>8, <1>9 DEF Invocations
<1>11. inv'[c].phase = old
  BY <1>7, <1>8, <1>9 DEF Invocations
<1>12. Episode(x) \in Episodes
  <2>1. exec[x].key \in Keys
    BY <1>1, <1>2 DEF Shapes, Runs
  <2> QED  BY <2>1, Numbers DEF Episode
<1>13. overlapped \subseteq overlapped' /\ overlapped' \subseteq Episodes
  BY <1>1, <1>6, <1>12 DEF Shapes
<1>14. Episode(x) \notin overlapped' => inv'[Call(x)].phase \notin Running
  BY <1>4, <1>6, <1>11 DEF Running
<1>15. exec' = [exec EXCEPT ![x].state = "invoking", ![x].call = n]
  BY <1>1, <1>3 DEF Shapes, Runs
<1>16. \A d \in Calls : d # <<x, n>> =>
          inv'[d] = inv[d] \/ (d = Call(x) /\ inv'[d].phase = "off")
  BY <1>4, <1>9, <1>10
<1>17. faults' \in 0..MaxFaults
  BY <1>1, Faults
<1> QED  BY <1>1, <1>2, <1>3, <1>9, <1>13, <1>14, <1>15, <1>16, <1>17, Invokes

LEMMA TriggerKeeps ==
    ASSUME Inv, NEW x \in Executions, Trigger(x)  PROVE Inv'
<1>1. PICK ev \in pending :
        /\ \/ pending' = pending \ {ev} /\ UNCHANGED faults
           \/ UNCHANGED pending /\ Fault
        /\ exec' = [exec EXCEPT ![x] = [key |-> ev[1], state |-> "starting", call |-> 0]]
        /\ newest' = [newest EXCEPT ![EpisodeOf[ev[1]]] = x]
        /\ overlapped' = IF Busy(EpisodeOf[ev[1]]) THEN overlapped \cup {EpisodeOf[ev[1]]}
                         ELSE overlapped
  BY DEF Trigger
<1>2. /\ Shapes /\ Course(x) /\ exec[x].state = "unused"
      /\ UNCHANGED <<uploaded, job, inv, speech, text, manifest>>
  BY DEF Inv, Trigger, InState
<1>3. ev[1] \in Keys /\ EpisodeOf[ev[1]] \in Episodes
  BY <1>2, Numbers DEF Shapes
<1>4. PICK k \in Keys, a \in Episodes : k = ev[1] /\ a = EpisodeOf[k]
  BY <1>3
<1>5. exec[x].key = None /\ exec[x].call = 0 /\ job[x].status = "none"
  BY <1>2 DEF Course
<1> DEFINE new == [key |-> k, state |-> "starting", call |-> 0]
<1>6. new \in Runs /\ k # None
  BY Numbers DEF Runs, States
<1>7. /\ exec' \in [Executions -> Runs]
      /\ exec'[x].key = k /\ exec'[x].state = "starting" /\ exec'[x].call = 0
      /\ \A y \in Executions : y # x => exec'[y] = exec[y]
  <2>1. exec' = [exec EXCEPT ![x] = new]
    BY <1>1, <1>4
  <2>2. exec'[x] = new
    BY <1>2, <2>1 DEF Shapes
  <2>3. new.key = k /\ new.state = "starting" /\ new.call = 0
    OBVIOUS
  <2> HIDE DEF new
  <2> QED  BY <1>2, <1>6, <2>1, <2>2, <2>3 DEF Shapes
<1>8. /\ newest' \in [Episodes -> Executions \cup {None}] /\ newest'[a] = x
      /\ \A e \in Episodes : e # a => newest'[e] = newest[e]
  BY <1>1, <1>2, <1>4 DEF Shapes
<1>9. /\ overlapped \subseteq overlapped' /\ overlapped' \subseteq Episodes
      /\ (a \notin overlapped' => ~Busy(a))
  BY <1>1, <1>2, <1>4 DEF Shapes
<1>10. faults' \in 0..MaxFaults
  BY <1>1, <1>2, Faults
<1>11. Shapes'
  BY <1>1, <1>2, <1>7, <1>8, <1>9, <1>10 DEF Shapes
<1>12. ASSUME NEW y \in Executions  PROVE Course(y)'
  <2>1. Course(y)
    BY DEF Inv
  <2>2. CASE y = x
    BY <1>2, <1>5, <1>6, <1>7, <2>2 DEF Course
  <2>3. CASE y # x
    <3>1. exec'[y] = exec[y] /\ Call(y)' = Call(y)
      BY <1>7, <2>3 DEF Call
    <3>2. \A t : t \in Listed(Call(y))' => t \in Listed(Call(y))
      BY <1>2, <3>1, ListedStays DEF Listed
    <3> QED  BY <1>2, <2>1, <3>1, <3>2 DEF Course
  <2> QED  BY <2>2, <2>3
<1>13. \A c \in Calls : c[1] = x => inv[c].phase = "off"
  <2> SUFFICES ASSUME NEW c \in Calls, c[1] = x, inv[c].phase # "off"  PROVE FALSE
    OBVIOUS
  <2>1. Place(c)
    BY DEF Inv
  <2> QED  BY <1>5, <2>1 DEF Place
<1>14. ASSUME NEW c \in Calls  PROVE Place(c)'
  <2>1. Place(c) /\ c[1] \in Executions
    BY Pairs DEF Inv
  <2>2. CASE c[1] = x
    BY <1>2, <1>13, <2>2 DEF Place
  <2>3. CASE c[1] # x
    BY <1>2, <1>7, <2>1, <2>3 DEF Place, SourceOf
  <2> QED  BY <2>2, <2>3
<1>15. \A y : RunningCalls(y)' = RunningCalls(y)
  BY <1>2 DEF RunningCalls
<1>16. RunningCalls(x) = {}
  <2>1. ASSUME NEW n \in 1..MaxInvokes  PROVE inv[<<x, n>>].phase = "off"
    BY <1>13, Pairs
  <2> QED  BY <2>1 DEF RunningCalls
<1>17. \A y \in Executions : y # x => (Active(y)' <=> Active(y))
  BY <1>7, <1>15 DEF Active
<1>18. \A y \in Executions : y # x => \A e : Of(y, e)' <=> Of(y, e)
  BY <1>7 DEF Of, Episode
<1>19. \A e : Of(x, e)' <=> e = a
  BY <1>4, <1>6, <1>7 DEF Of, Episode
<1>20. ASSUME NEW e \in Episodes  PROVE (Newest(e) /\ Alone(e) /\ Own(e) /\ Reads(e))'
  <2>1. Newest(e) /\ Alone(e) /\ Own(e) /\ Reads(e)
    BY DEF Inv
  <2>2. newest[e] # None => newest[e] \in Executions /\ newest[e] # x
    BY <1>2, <1>5, <2>1 DEF Shapes, Newest, Of
  <2>3. CASE e = a
    <3>1. Newest(e)'
      BY <1>8, <1>19, <2>3 DEF Newest
    <3>2. Reads(e)'
      BY <1>2, <1>5, <1>8, <2>3 DEF Reads
    <3>3. Own(e)'
      BY <1>7, <1>8, <2>3 DEF Own
    <3>4. ASSUME e \notin overlapped', NEW y \in Executions, Of(y, e)', Active(y)'
          PROVE  y = newest'[e] /\ RunningCalls(y)' \subseteq {exec'[y].call}
      <4>1. ~Busy(e)
        BY <1>9, <2>3, <3>4
      <4>2. y = x
        BY <1>17, <1>18, <3>4, <4>1 DEF Busy, Of
      <4> QED  BY <1>8, <1>15, <1>16, <2>3, <4>2
    <3>5. Alone(e)'
      BY <3>4 DEF Alone
    <3> QED  BY <3>1, <3>2, <3>3, <3>5
  <2>4. CASE e # a
    <3>1. newest'[e] = newest[e]
      BY <1>8, <2>4
    <3>2. Newest(e)'
      BY <1>18, <2>1, <2>2, <3>1 DEF Newest
    <3>3. Reads(e)'
      <4>1. ASSUME NEW w \in pending, EpisodeOf[w[1]] = e  PROVE w \in pending'
        BY <1>1, <1>4, <2>4, <4>1
      <4>2. newest[e] # None => exec'[newest[e]] = exec[newest[e]]
        BY <1>7, <2>2
      <4> QED  BY <1>2, <2>1, <3>1, <4>1, <4>2 DEF Reads
    <3>4. ASSUME e \notin overlapped', NEW y \in Executions, Of(y, e)', Active(y)'
          PROVE  y = newest'[e] /\ RunningCalls(y)' \subseteq {exec'[y].call}
      <4>1. y # x
        BY <1>19, <2>4, <3>4
      <4>2. Of(y, e) /\ Active(y) /\ e \notin overlapped /\ exec'[y] = exec[y]
        BY <1>7, <1>9, <1>17, <1>18, <3>4, <4>1
      <4> QED  BY <1>15, <2>1, <3>1, <4>2 DEF Alone
    <3>5. Alone(e)'
      BY <3>4 DEF Alone
    <3>6. ASSUME newest[e] # None, e \notin overlapped', exec'[newest[e]].call # 0
          PROVE  Writes(e, Call(newest[e]))'
      <4>1. PICK y \in Executions : y = newest[e] /\ y # x
        BY <2>2, <3>6
      <4>2. exec'[y] = exec[y] /\ Call(y)' = Call(y) /\ e \notin overlapped
        BY <1>7, <1>9, <3>6, <4>1 DEF Call
      <4>3. Writes(e, Call(y))
        BY <2>1, <3>6, <4>1, <4>2 DEF Own
      <4>4. Writes(e, Call(y))'
        BY <1>2, <4>2, <4>3 DEF Writes, SourceOf
      <4>5. Call(newest[e])' = Call(y)'
        BY <3>1, <4>1, <4>2 DEF Call
      <4> QED  BY <4>4, <4>5 DEF Writes
    <3>7. Own(e)'
      BY <3>1, <3>6 DEF Own, Call
    <3> QED  BY <3>2, <3>3, <3>5, <3>7
  <2> QED  BY <2>3, <2>4
<1> QED  BY <1>11, <1>12, <1>14, <1>20 DEF Inv

-----------------------------------------------------------------------------
(* What holds for every value of the constants. *)

LEMMA AtFirst == Init => Inv
<1> SUFFICES ASSUME Init  PROVE Inv
  OBVIOUS
<1> USE DEF Init
<1>1. NoExec \in Runs /\ NoJob \in Jobs
  BY Numbers DEF NoExec, NoJob, Runs, Jobs, States
<1>2. NoCall \in Invocations
  <2>1. [l \in ToSet(Targets) |-> <<>>] \in Saying
    BY DEF Saying
  <2>2. 0 \in 0..Len(Targets) + 1 /\ 0 \in 0..MaxParts
    BY Numbers
  <2> QED  BY <2>1, <2>2 DEF NoCall, Invocations, Phases
<1>3. Shapes
  <2>1. 0 \in 0..MaxUploads /\ 0 \in 0..MaxFaults /\ None \in Texts
    BY Numbers DEF Texts
  <2> QED  BY <1>1, <1>2, <2>1 DEF Shapes
<1>4. /\ NoExec.key = None /\ NoExec.state = "unused" /\ NoExec.call = 0
      /\ NoJob.status = "none" /\ NoCall.phase = "off"
  BY DEF NoExec, NoJob, NoCall
<1>5. ASSUME NEW x \in Executions  PROVE Course(x)
  BY <1>4 DEF Course
<1>6. ASSUME NEW c \in Calls  PROVE Place(c)
  BY <1>4 DEF Place
<1>7. ASSUME NEW e \in Episodes  PROVE Newest(e) /\ Alone(e) /\ Own(e) /\ Reads(e)
  BY <1>4 DEF Newest, Alone, Own, Reads, Of
<1> QED  BY <1>3, <1>5, <1>6, <1>7 DEF Inv

LEMMA AnyStep == Inv /\ [Next]_vars => Inv'
<1> SUFFICES ASSUME Inv, [Next]_vars  PROVE Inv'
  OBVIOUS
<1>1. ASSUME NEW k \in Keys, Upload(k)  PROVE Inv'
  BY <1>1, UploadKeeps
<1>2. ASSUME NEW x \in Executions,
             \/ Trigger(x) \/ Machine(x) \/ TranscriptionEnds(x) \/ SpeechEnds(x)
             \/ StartRefused(x) \/ InvokeRetried(x) \/ Dies(x)
      PROVE  Inv'
  BY <1>2, TriggerKeeps, StartTranscriptionKeeps, GetTranscriptionKeeps, MachineKeeps,
     TranscriptionEndsKeeps, SpeechEndsKeeps, InvokeRetriedKeeps DEF Machine
<1>3. ASSUME NEW c \in Calls, Function(c) \/ Throws(c)  PROVE Inv'
  BY <1>3, ReadTranscriptKeeps, TranslateKeeps, StartSpeechKeeps, PutManifestKeeps, ThrowsKeeps
  DEF Function
<1>4. CASE UNCHANGED vars
  <2>1. UNCHANGED <<exec, inv, text, manifest, newest, overlapped, job, speech, uploaded,
                    pending, faults>>
    BY <1>4 DEF vars
  <2>2. Shapes'
    BY <2>1 DEF Inv, Shapes
  <2>3. ASSUME NEW x \in Executions  PROVE Course(x)'
    BY <2>1 DEF Inv, Course, Call, Listed
  <2>4. ASSUME NEW e \in Episodes  PROVE Reads(e)'
    BY <2>1 DEF Inv, Reads
  <2> QED  BY <2>1, <2>2, <2>3, <2>4, Beside
<1> QED  BY <1>1, <1>2, <1>3, <1>4 DEF Next

THEOREM Invariance == Spec => []Inv
<1>1. Init => Inv
  BY AtFirst
<1>2. Inv /\ [Next]_vars => Inv'
  BY AnyStep
<1> QED  BY <1>1, <1>2, PTL DEF Spec

\* No call, part or state is beyond what the machine knows of (podcast-
\* language-encoder-stack.ts, process-transcript/index.ts).
THEOREM TypeCorrect == Spec => []TypeOK
<1>1. Inv => TypeOK
  <2> SUFFICES ASSUME Inv  PROVE TypeOK
    OBVIOUS
  <2>1. Shapes
    BY DEF Inv
  <2>2. ASSUME NEW x \in Executions
        PROVE  /\ exec[x].key \in Keys \cup {None} /\ exec[x].call \in 0..MaxInvokes
               /\ exec[x].state \in States
               /\ job[x].status \in {"none", "queued", "COMPLETED", "FAILED"}
               /\ job[x].language \in Spoken \cup {None} /\ job[x].version \in 0..MaxUploads
    BY <2>1 DEF Shapes, Runs, Jobs
  <2>3. ASSUME NEW c \in Calls
        PROVE  /\ inv[c].phase \in Phases
               /\ inv[c].at \in 0..Len(Targets) + 1 /\ inv[c].started \in 0..MaxParts
               /\ \A l \in ToSet(Targets) : inv[c].said[l] \in Translations \cup {<<>>}
    BY <2>1 DEF Shapes, Invocations, Saying
  <2> QED  BY <2>1, <2>2, <2>3 DEF TypeOK, Shapes, States, Phases
<1> QED  BY <1>1, Invariance, PTL

\* Once the execution started last has succeeded with nothing beside it, what
\* the bucket has of the episode is its own (the keys are made of the episode
\* id, process-transcript/index.ts).
THEOREM PublishesTheNewest == Spec => []PublishedIsNewest
<1>1. Inv => PublishedIsNewest
  <2> SUFFICES ASSUME Inv, NEW e \in Episodes, newest[e] # None, e \notin overlapped,
                      exec[newest[e]].state = "succeeded"
               PROVE  /\ manifest[e] = Call(newest[e])
                      /\ text[<<e, job[newest[e]].language>>] = By(Call(newest[e]), "original")
                      /\ \A l \in ToSet(Targets) \ {job[newest[e]].language} :
                            text[<<e, l>>] = By(Call(newest[e]), "translated")
                      /\ (\A ev \in pending : EpisodeOf[ev[1]] # e) =>
                            job[newest[e]].version = uploaded[exec[newest[e]].key]
    BY DEF PublishedIsNewest
  <2>1. PICK x \in Executions : x = newest[e]
    BY DEF Inv, Shapes
  <2>2. PICK c \in Calls : c = Call(x)
    BY <2>1, Pairs DEF Inv, Course, Call
  <2>3. inv[c].phase = "returned" /\ job[x].status = "COMPLETED" /\ exec[x].call # 0
    BY <2>1, <2>2, Numbers DEF Inv, Course
  <2>4. Writes(e, c) /\ Place(c) /\ Reads(e)
    BY <2>1, <2>2, <2>3 DEF Inv, Own
  <2>5. inv[c].at = Len(Targets) + 1 /\ SourceOf(c) = job[x].language
    BY <2>2, <2>3, <2>4 DEF Place, SourceOf, Call
  <2>6. \A j \in 1..Len(Targets) : Before(j, inv[c])
    BY <2>5, Voices DEF Before
  <2>7. /\ manifest[e] = c /\ text[<<e, job[x].language>>] = By(c, "original")
        /\ \A j \in 1..Len(Targets) : Targets[j] # job[x].language =>
              text[<<e, Targets[j]>>] = By(c, "translated")
    BY <2>3, <2>4, <2>5, <2>6 DEF Writes
  <2>8. \A l \in ToSet(Targets) \ {job[x].language} : text[<<e, l>>] = By(c, "translated")
    BY <2>7, Voices
  <2>9. (\A ev \in pending : EpisodeOf[ev[1]] # e) => job[x].version = uploaded[exec[x].key]
    BY <2>1, <2>3, <2>4 DEF Reads
  <2> QED  BY <2>1, <2>2, <2>7, <2>8, <2>9
<1> QED  BY <1>1, Invariance, PTL

\* A succeeded execution has audio of all of every translation, in parts of
\* which none is too long for Polly and none is empty but for a piece of a
\* sentence that was cut (chunkByBytes; the machine succeeds when every task
\* has).
THEOREM AllIsSpoken == Spec => []AudioIsThere
<1>1. Inv => AudioIsThere
  <2> SUFFICES ASSUME Inv, NEW x \in Executions, exec[x].state = "succeeded",
                      NEW l \in ToSet(Targets)
               PROVE  LET said  == inv[Call(x)].said[l]
                          parts == Parts[said]
                          audio == {i \in DOMAIN parts :
                                      speech[Task(Call(x), l, i)] = "completed"}
                      IN  /\ audio = DOMAIN parts
                          /\ Total(Sounds(parts)) = Total(ToSay(said))
                          /\ \A i \in audio :
                              /\ parts[i].size \in 1..ChunkSize
                              /\ parts[i].heard = 0 =>
                                    \E k \in DOMAIN said : said[k].size > ChunkSize
    BY DEF AudioIsThere, InState
  <2>1. PICK c \in Calls : c = Call(x)
    BY Pairs DEF Inv, Course, Call
  <2>2. \A t \in Listed(c) : speech[t] = "completed"
    BY <2>1 DEF Inv, Course
  <2>3. PICK said \in Translations \cup {<<>>} : said = inv[c].said[l]
    BY DEF Inv, Shapes, Invocations, Saying
  <2>4. \A i \in DOMAIN Parts[said] : Task(c, l, i) \in Listed(c)
    BY <2>3 DEF Listed
  <2>5. /\ Parts[said] \in Seq(Piece) /\ Total(Sounds(Parts[said])) = Total(ToSay(said))
        /\ \A i \in DOMAIN Parts[said] : Parts[said][i].heard = 0 =>
              \E k \in DOMAIN said : said[k].size > ChunkSize
    BY PartsAre DEF EmptyIfCut, Long
  <2>6. \A i \in DOMAIN Parts[said] : Parts[said][i].size \in 1..ChunkSize
    <3>1. \A i \in DOMAIN Parts[said] : Parts[said][i] \in Piece
      BY <2>5, Elements
    <3> QED  BY <3>1 DEF Piece
  <2>7. \A i \in DOMAIN Parts[said] : speech[Task(c, l, i)] = "completed"
    BY <2>2, <2>4
  <2> QED  BY <2>1, <2>3, <2>5, <2>6, <2>7
<1> QED  BY <1>1, Invariance, PTL

=============================================================================
