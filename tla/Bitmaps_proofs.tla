--------------------------- MODULE Bitmaps_proofs ---------------------------
(***************************************************************************)
(* The operations of bitmap.c compute on sets, for words of any width and  *)
(* bitmaps of any size.  An array of words means a set S when the bit at   *)
(* offset i of word k is set for the members k * WordBits + i of S and for *)
(* no other number below the size; what is above is free.  Every operation *)
(* is shown to take arrays that mean some sets to one that means the set   *)
(* that is asked for: the masks by the place of a bit in its word, the     *)
(* loops of the shifts by induction over their rounds, the searches by     *)
(* what the masked words show, and the walks over the set bits by          *)
(* induction from the last one down.                                       *)
(***************************************************************************)
EXTENDS Bitmaps, FiniteSetTheorems, WellFoundedInduction, TLAPS

\* Induction: a set of numbers has a least member.
LEMMA NatMin == ASSUME NEW T, T \subseteq Nat, T # {} PROVE \E x \in T : \A y \in T : x <= y
<1> DEFINE R == {ss \in Nat \X Nat : ss[1] < ss[2]}
<1>0. IsWellFoundedOn(R, Nat) BY NatLessThanWellFounded DEF OpToRel
<1> HIDE DEF R
<1>1. \E x \in T : \A y \in T : ~(<<y, x>> \in R)
  BY <1>0, WFMin
<1>2. PICK x \in T : \A y \in T : ~(<<y, x>> \in R) BY <1>1
<1>3. \A y \in T : ~ (y < x)
  BY <1>2 DEF R
<1> QED BY <1>3

\* A quotient and a remainder are those of only one number ...
LEMMA DivUnique == ASSUME NEW W \in Nat \ {0}, NEW q \in Nat, NEW r \in 0 .. W - 1
                   PROVE (q * W + r) \div W = q /\ (q * W + r) % W = r
OBVIOUS

\* ... and every number has them.
LEMMA DivDef == ASSUME NEW W \in Nat \ {0}, NEW a \in Nat
                   PROVE a = (a \div W) * W + (a % W) /\ a \div W \in Nat /\ a % W \in 0 .. W - 1
<1>1. a \div W \in Nat OBVIOUS
<1>2. a % W \in 0 .. W - 1 OBVIOUS
<1>3. a = W * (a \div W) + (a % W) OBVIOUS
<1>4. a = (a \div W) * W + (a % W) BY <1>1, <1>3
<1> QED BY <1>1, <1>2, <1>4
\* Induction up to a bound.
LEMMA UpTo ==
  ASSUME NEW N \in Nat, NEW S \in SUBSET (0 .. N), 0 \in S, \A j \in 1 .. N : j - 1 \in S => j \in S
  PROVE  S = 0 .. N
<1> DEFINE Bad == (0 .. N) \ S
<1>1. Bad \subseteq Nat OBVIOUS
<1>2. ASSUME Bad # {} PROVE FALSE
  <2>1. PICK x \in Bad : \A y \in Bad : x <= y
    <3> HIDE DEF Bad
    <3> QED BY <1>1, <1>2, NatMin
  <2>2. x \in 1 .. N OBVIOUS
  <2>3. x - 1 \in S BY <2>1, <2>2
  <2> QED BY <2>2, <2>3
<1> QED BY <1>2

\* A recursive function on 0 .. N exists when each of its values follows
\* from the one before.
Iterates(g, V, base, F, N) ==
    g \in [0 .. N -> V] /\ g[0] = base /\ \A j \in 1 .. N : g[j] = F[<<g[j - 1], j>>]

\* There is a function whose values follow each from the one before.
LEMMA Iteration ==
  ASSUME NEW V, NEW base \in V, NEW N \in Nat, NEW F \in [V \X (1 .. N) -> V]
  PROVE  \E g : Iterates(g, V, base, F, N)
<1> DEFINE Good == {n \in 0 .. N : \E g : Iterates(g, V, base, F, n)}
<1>1. Iterates([j \in 0 .. 0 |-> base], V, base, F, 0) BY DEF Iterates
<1>2. ASSUME NEW n \in 0 .. N, n + 1 \in 0 .. N, NEW g, Iterates(g, V, base, F, n)
      PROVE  \E h : Iterates(h, V, base, F, n + 1)
  <2> DEFINE h == [j \in 0 .. n + 1 |-> IF j = n + 1 THEN F[<<g[n], n + 1>>] ELSE g[j]]
  <2>1. g \in [0 .. n -> V] /\ g[n] \in V /\ g[0] = base BY <1>2 DEF Iterates
  <2>2. F[<<g[n], n + 1>>] \in V BY <2>1, <1>2
  <2>3. h \in [0 .. n + 1 -> V] BY <2>1, <2>2
  <2>4. h[0] = base BY <2>1
  <2>5. \A j \in 1 .. n + 1 : h[j] = F[<<h[j - 1], j>>]
    <3> TAKE j \in 1 .. n + 1
    <3>1. CASE j = n + 1
      <4>1. j - 1 = n /\ n \in 0 .. n + 1 /\ n # n + 1 BY <3>1
      <4>2. h[j - 1] = g[n] BY <4>1
      <4>3. h[j] = F[<<g[n], n + 1>>] BY <3>1
      <4> QED BY <3>1, <4>2, <4>3
    <3>2. CASE j \in 1 .. n
      <4>1. h[j] = g[j] /\ h[j - 1] = g[j - 1] BY <3>2
      <4> QED BY <4>1, <3>2, <1>2 DEF Iterates
    <3> QED BY <3>1, <3>2
  <2> HIDE DEF h
  <2>6. Iterates(h, V, base, F, n + 1) BY <2>3, <2>4, <2>5 DEF Iterates
  <2> QED BY <2>6
<1>3. \A j \in 1 .. N : j - 1 \in Good => j \in Good
  <2> TAKE j \in 1 .. N
  <2>1. j - 1 \in 0 .. N /\ (j - 1) + 1 = j OBVIOUS
  <2>2. (\E g : Iterates(g, V, base, F, j - 1)) => \E h : Iterates(h, V, base, F, j)
    BY <1>2, <2>1
  <2> QED BY <2>2
<1>4. Good \in SUBSET (0 .. N) /\ 0 \in Good BY <1>1
<1> HIDE DEF Good
<1>5. Good = 0 .. N BY <1>3, <1>4, UpTo
<1> QED BY <1>5 DEF Good

----------------------------------------------------------------------------
Pos(k, i) == k * WordBits + i

\* A bit is found again at the place it was put ...
LEMMA PosPlace ==
  ASSUME NEW k \in Nat, NEW i \in Offsets
  PROVE  Pos(k, i) \in Nat /\ Pos(k, i) \div WordBits = k /\ Pos(k, i) % WordBits = i
BY WordAssumption, DivUnique DEF Pos, Offsets

\* ... every bit number has a place in a word ...
LEMMA PlaceOf ==
  ASSUME NEW b \in Nat
  PROVE  b = Pos(b \div WordBits, b % WordBits) /\ b \div WordBits \in Nat /\ b % WordBits \in Offsets
BY WordAssumption, DivDef DEF Pos, Offsets

\* ... and a later word holds the larger numbers.
LEMMA PosOrder ==
  ASSUME NEW k \in Nat, NEW i \in Offsets, NEW q \in Nat
  PROVE  /\ k < q => Pos(k, i) < q * WordBits
         /\ q <= k => q * WordBits <= Pos(k, i)
         /\ q * WordBits \in Nat /\ k * WordBits \in Nat /\ Pos(k, i) \in Nat
<1> DEFINE W == WordBits
<1>0. W \in Nat \ {0} /\ i \in 0 .. W - 1 BY WordAssumption DEF Offsets
<1> HIDE DEF W
<1>1. k * W \in Nat /\ q * W \in Nat BY <1>0
<1>2. k + 1 <= q => (k + 1) * W <= q * W BY <1>0
<1>3. (k + 1) * W = k * W + W BY <1>0
<1>4. q <= k => q * W <= k * W BY <1>0
<1> QED BY <1>0, <1>1, <1>2, <1>3, <1>4 DEF Pos, W

\* The words of a bitmap are those that begin within it.
LEMMA WordsOf ==
  ASSUME NEW n \in Nat, NEW k \in Nat
  PROVE  ToLongs(n) \in Nat /\ (k \in Words(n) <=> k * WordBits < n) /\ (k \in Words(n) <=> k < ToLongs(n))
<1> DEFINE W == WordBits
           L == (n + W - 1) \div W
           r == (n + W - 1) % W
<1>0. W \in Nat \ {0} BY WordAssumption
<1>1. n + W - 1 \in Nat BY <1>0
<1>2. n + W - 1 = L * W + r /\ L \in Nat /\ r \in 0 .. W - 1 BY <1>0, <1>1, DivDef
<1> HIDE DEF W, L, r
<1>3. L * W \in Nat /\ k * W \in Nat BY <1>0, <1>2
<1>4. k + 1 <= L => (k + 1) * W <= L * W BY <1>0, <1>2
<1>5. (k + 1) * W = k * W + W BY <1>0
<1>6. L <= k => L * W <= k * W BY <1>0, <1>2
<1>7. k < L <=> k * W < n BY <1>0, <1>2, <1>3, <1>4, <1>5, <1>6
<1>8. ToLongs(n) = L BY DEF ToLongs, L, W
<1> QED BY <1>2, <1>7, <1>8 DEF Words, W

\* A trimmed word has the bits of the word that are below the size.
LEMMA TrimmedBits ==
  ASSUME NEW n \in Nat, NEW k \in Nat, k * WordBits < n, NEW w, NEW i \in Offsets
  PROVE  i \in Trimmed(w, k, n) <=> i \in w /\ Pos(k, i) < n
<1> DEFINE q == n \div WordBits
           r == n % WordBits
<1>1. n = Pos(q, r) /\ q \in Nat /\ r \in Offsets BY PlaceOf
<1>2. k <= q
  <2> HIDE DEF q, r
  <2>1. q < k => Pos(q, r) < k * WordBits BY <1>1, PosOrder
  <2> QED BY <1>1, <2>1, PosOrder
<1>3. CASE k = q
  <2>1. Pos(k, i) < n <=> i < r
    <3> HIDE DEF q, r
    <3>1. k * WordBits \in Nat /\ i \in Int /\ r \in Int BY WordAssumption, <1>1 DEF Offsets
    <3> QED BY <1>1, <1>3, <3>1 DEF Pos
  <2>2. i \in LowMask(r) <=> i < r BY <1>1, WordAssumption DEF LowMask, Offsets
  <2> QED BY <1>3, <2>1, <2>2 DEF Trimmed
<1>4. CASE k < q
  <2>1. Pos(k, i) < q * WordBits /\ q * WordBits <= Pos(q, r) /\ Pos(k, i) \in Nat
        /\ q * WordBits \in Nat /\ Pos(q, r) \in Nat
    <3> HIDE DEF q, r
    <3>1. q <= q BY <1>1
    <3> QED BY <1>1, <1>4, <3>1, PosOrder
  <2>2. Pos(k, i) < n BY <1>1, <2>1
  <2>3. k # q BY <1>1, <1>4
  <2> QED BY <2>2, <2>3 DEF Trimmed
<1> QED BY <1>1, <1>2, <1>3, <1>4

\* a holds the bits of S, and no unused bit if it is clean.
Means(a, S, n) ==
    /\ a \in Arrays(n) /\ S \in SUBSET (0 .. n - 1)
    /\ \A k \in Words(n), i \in Offsets : Pos(k, i) < n => (i \in a[k] <=> Pos(k, i) \in S)
Fits(a, n) == \A k \in Words(n) : \A i \in a[k] : Pos(k, i) < n

\* Words are numbered.
LEMMA WordsNat == ASSUME NEW n \in Nat PROVE Words(n) \subseteq Nat
BY WordsOf DEF Words

\* The place of a bit of the bitmap is in one of its words.
LEMMA BitPlace ==
  ASSUME NEW n \in Nat, NEW b \in 0 .. n - 1
  PROVE  /\ b \in Nat /\ b \div WordBits \in Words(n) /\ b % WordBits \in Offsets
         /\ b = Pos(b \div WordBits, b % WordBits)
<1>1. b \in Nat OBVIOUS
<1>2. b = Pos(b \div WordBits, b % WordBits) /\ b \div WordBits \in Nat /\ b % WordBits \in Offsets
  BY <1>1, PlaceOf
<1>3. (b \div WordBits) * WordBits < n
  <2> DEFINE k == b \div WordBits
             i == b % WordBits
  <2>1. k \in Nat /\ i \in Offsets /\ b = Pos(k, i) BY <1>2
  <2> HIDE DEF k, i
  <2>2. k <= k BY <2>1
  <2>3. k * WordBits <= Pos(k, i) /\ k * WordBits \in Nat BY <2>1, <2>2, PosOrder
  <2>4. k * WordBits < n BY <2>1, <2>3, <1>1
  <2> QED BY <2>4 DEF k
<1> QED BY <1>1, <1>2, <1>3, WordsOf

\* What an array means is what BitsOf reads from it.
LEMMA MeansIsBitsOf ==
  ASSUME NEW n \in Nat, NEW a \in Arrays(n), NEW S \in SUBSET (0 .. n - 1)
  PROVE  Means(a, S, n) <=> BitsOf(a, n) = S
<1>1. ASSUME Means(a, S, n), NEW b \in 0 .. n - 1 PROVE b \in BitsOf(a, n) <=> b \in S
  BY <1>1, BitPlace DEF Means, BitsOf, TestBit
<1>2. ASSUME BitsOf(a, n) = S, NEW k \in Words(n), NEW i \in Offsets, Pos(k, i) < n
      PROVE  i \in a[k] <=> Pos(k, i) \in S
  <2>1. k \in Nat BY WordsNat
  <2>2. Pos(k, i) \in 0 .. n - 1 BY <1>2, <2>1, PosPlace
  <2> QED BY <1>2, <2>1, <2>2, PosPlace DEF BitsOf, TestBit
<1>3. Means(a, S, n) => BitsOf(a, n) = S BY <1>1 DEF BitsOf
<1> QED BY <1>2, <1>3 DEF Means

\* An array is clean when no word has a bit behind the bitmap.
LEMMA CleanIsFits ==
  ASSUME NEW n \in Nat, NEW a \in Arrays(n)
  PROVE  Clean(a, n) <=> Fits(a, n)
<1>1. ASSUME NEW k \in Words(n), NEW i \in Offsets
      PROVE  i \in ArrayOf(BitsOf(a, n), n)[k] <=> i \in a[k] /\ Pos(k, i) < n
  <2>1. k \in Nat BY WordsNat
  <2>2. Pos(k, i) \in Nat /\ Pos(k, i) \div WordBits = k /\ Pos(k, i) % WordBits = i BY <2>1, PosPlace
  <2>3. i \in ArrayOf(BitsOf(a, n), n)[k] <=> Pos(k, i) \in BitsOf(a, n) BY DEF ArrayOf, Pos
  <2> QED BY <2>2, <2>3 DEF BitsOf, TestBit
<1>2. \A k \in Words(n) : a[k] \subseteq Offsets /\ ArrayOf(BitsOf(a, n), n)[k] \subseteq Offsets
  BY DEF Arrays, Word, ArrayOf
<1>3. Clean(a, n) <=> \A k \in Words(n) : a[k] = ArrayOf(BitsOf(a, n), n)[k]
  BY DEF Clean, Arrays, ArrayOf
<1> QED BY <1>1, <1>2, <1>3 DEF Fits

----------------------------------------------------------------------------
\* The operations that set every word, or one bit.
LEMMA ZeroMeans ==
  ASSUME NEW n \in Nat
  PROVE  Means(Zero(n), {}, n) /\ Fits(Zero(n), n)
BY DEF Means, Fits, Zero, Arrays, Word

\* bitmap_fill means every bit, and leaves no unused one set.
LEMMA FillMeans ==
  ASSUME NEW n \in Nat
  PROVE  Means(Fill(n), 0 .. n - 1, n) /\ Fits(Fill(n), n)
<1> DEFINE last == ToLongs(n) - 1
           q == n \div WordBits
           r == n % WordBits
<1>0. WordBits \in Nat \ {0} /\ ToLongs(n) \in Nat BY WordAssumption, ZeroMeans, WordsOf
<1>1. n = Pos(q, r) /\ q \in Nat /\ r \in Offsets BY PlaceOf
<1>2. Fill(n) \in Arrays(n)
  BY <1>0, <1>1 DEF Fill, Arrays, Word, LastWordMask, LowMask, Offsets
<1>3. ASSUME NEW k \in Words(n), NEW i \in Offsets PROVE i \in Fill(n)[k] <=> Pos(k, i) < n
  <2>0. k \in Nat /\ k * WordBits < n /\ k < ToLongs(n) BY WordsNat, WordsOf
  <2>1. CASE k # last
    <3>1. (k + 1) \in Words(n) /\ k + 1 \in Nat BY <1>0, <2>0, <2>1 DEF Words
    <3>2. (k + 1) * WordBits < n BY <3>1, WordsOf
    <3>3. Pos(k, i) < (k + 1) * WordBits /\ (k + 1) * WordBits \in Nat /\ Pos(k, i) \in Nat
      <4>1. k < k + 1 BY <2>0
      <4> QED BY <4>1, <2>0, <3>1, PosOrder
    <3>4. Pos(k, i) < n BY <3>2, <3>3
    <3> QED BY <2>1, <3>4 DEF Fill
  <2>2. CASE k = last
    <3>1. Fill(n)[k] = LastWordMask(n) BY <2>2 DEF Fill
    <3>2. k + 1 \in Nat /\ ~(k + 1 < ToLongs(n)) BY <2>0, <2>2, <1>0
    <3>3. n <= (k + 1) * WordBits
      <4>1. ~((k + 1) * WordBits < n) BY <3>2, WordsOf
      <4>2. (k + 1) * WordBits \in Nat BY <3>2, <1>0
      <4> QED BY <4>1, <4>2
    <3>4. (k + 1) * WordBits = k * WordBits + WordBits /\ k * WordBits \in Nat BY <1>0, <2>0
    <3>5. CASE r = 0
      <4>1. n = q * WordBits BY <1>0, <1>1, <3>5 DEF Pos
      <4>2. q = k + 1
        <5> HIDE DEF q, r
        <5>1. q < k + 1 => (q + 1) * WordBits <= (k + 1) * WordBits BY <1>0, <1>1, <2>0
        <5>2. (q + 1) * WordBits = q * WordBits + WordBits BY <1>0, <1>1
        <5>3. k + 1 < q => (k + 2) * WordBits <= q * WordBits BY <1>0, <1>1, <2>0
        <5>4. (k + 2) * WordBits = (k + 1) * WordBits + WordBits BY <1>0, <2>0
        <5>5. q * WordBits \in Nat BY <1>0, <1>1
        <5> QED BY <5>1, <5>2, <5>3, <5>4, <5>5, <4>1, <3>3, <3>4, <2>0, <1>0, <1>1
      <4>3. Pos(k, i) < n BY <4>1, <4>2, <3>4, <1>0 DEF Pos, Offsets
      <4>4. LastWordMask(n) = Offsets BY <3>5 DEF LastWordMask
      <4> QED BY <3>1, <4>3, <4>4
    <3>6. CASE r # 0
      <4>1. q = k
        <5> HIDE DEF q, r
        <5>1. q < k => Pos(q, r) < k * WordBits BY <1>1, <2>0, PosOrder
        <5>2. k + 1 <= q => (k + 1) * WordBits <= q * WordBits BY <1>0, <1>1, <2>0
        <5>3. q * WordBits \in Nat /\ r \in Nat /\ r > 0 BY <1>0, <1>1, <3>6 DEF Offsets
        <5>4. ~(k + 1 <= q) BY <5>2, <5>3, <1>0, <1>1, <3>3, <3>4 DEF Pos
        <5>5. ~(q < k) BY <5>1, <5>3, <1>1, <2>0, <3>4 DEF Pos
        <5> QED BY <5>4, <5>5, <1>1, <2>0
      <4>2. Pos(k, i) < n <=> i < r
        <5> HIDE DEF q, r
        <5> QED BY <4>1, <1>0, <1>1, <3>4 DEF Pos, Offsets
      <4>3. LastWordMask(n) = LowMask(r) BY <3>6 DEF LastWordMask
      <4>4. i \in LowMask(r) <=> i < r BY <1>0, <1>1 DEF LowMask, Offsets
      <4> QED BY <3>1, <4>2, <4>3, <4>4
    <3> QED BY <3>5, <3>6
  <2> QED BY <2>1, <2>2
<1>4. \A k \in Words(n) : Fill(n)[k] \subseteq Offsets BY <1>2 DEF Arrays, Word
<1>5. \A k \in Words(n), i \in Offsets : Pos(k, i) < n => Pos(k, i) \in 0 .. n - 1
  BY WordsNat, PosPlace
<1> QED BY <1>2, <1>3, <1>4, <1>5 DEF Means, Fits

\* set_bit, clear_bit and change_bit of one bit.
LEMMA OneBitMeans ==
  ASSUME NEW n \in Nat, NEW a, NEW S, Means(a, S, n), NEW b \in 0 .. n - 1
  PROVE  /\ Means(SetBit(a, b), S \union {b}, n) /\ (Fits(a, n) => Fits(SetBit(a, b), n))
         /\ Means(ClearBit(a, b), S \ {b}, n) /\ (Fits(a, n) => Fits(ClearBit(a, b), n))
         /\ Means(ChangeBit(a, b), SymDiff(S, {b}), n) /\ (Fits(a, n) => Fits(ChangeBit(a, b), n))
<1> DEFINE k == b \div WordBits
           i == b % WordBits
<1>1. b \in Nat /\ k \in Words(n) /\ i \in Offsets /\ b = Pos(k, i) BY BitPlace
<1>2. \A x \in Words(n), j \in Offsets : Pos(x, j) = b <=> x = k /\ j = i
  BY <1>1, WordsNat, PosPlace
<1>3. a \in Arrays(n) /\ S \subseteq 0 .. n - 1 BY DEF Means
<1>4. TestBit(a, b) <=> b \in S BY <1>1 DEF Means, TestBit
<1>5. SetBit(a, b) = [a EXCEPT ![k] = a[k] \union {i}] /\ ClearBit(a, b) = [a EXCEPT ![k] = a[k] \ {i}]
  BY DEF SetBit, ClearBit
<1> HIDE DEF k, i
<1>6. SetBit(a, b) \in Arrays(n) /\ ClearBit(a, b) \in Arrays(n) BY <1>1, <1>3, <1>5 DEF Arrays, Word
<1>7. Means(SetBit(a, b), S \union {b}, n)
  <2>1. ASSUME NEW x \in Words(n), NEW j \in Offsets, Pos(x, j) < n
        PROVE  j \in SetBit(a, b)[x] <=> Pos(x, j) \in S \union {b}
    <3>1. j \in a[x] <=> Pos(x, j) \in S BY <2>1 DEF Means
    <3>2. j \in SetBit(a, b)[x] <=> j \in a[x] \/ (x = k /\ j = i) BY <1>1, <1>3, <1>5 DEF Arrays
    <3> QED BY <3>1, <3>2, <1>2
  <2> QED BY <2>1, <1>3, <1>6 DEF Means
<1>8. Means(ClearBit(a, b), S \ {b}, n)
  <2>1. ASSUME NEW x \in Words(n), NEW j \in Offsets, Pos(x, j) < n
        PROVE  j \in ClearBit(a, b)[x] <=> Pos(x, j) \in S \ {b}
    <3>1. j \in a[x] <=> Pos(x, j) \in S BY <2>1 DEF Means
    <3>2. j \in ClearBit(a, b)[x] <=> j \in a[x] /\ ~(x = k /\ j = i) BY <1>1, <1>3, <1>5 DEF Arrays
    <3> QED BY <3>1, <3>2, <1>2
  <2> QED BY <2>1, <1>3, <1>6 DEF Means
<1>9. Fits(a, n) => Fits(SetBit(a, b), n)
  <2>1. Pos(k, i) < n BY <1>1
  <2>2. \A x \in Words(n) : \A j \in SetBit(a, b)[x] : j \in a[x] \/ (x = k /\ j = i)
    BY <1>1, <1>3, <1>5 DEF Arrays
  <2> QED BY <2>1, <2>2 DEF Fits
<1>10. Fits(a, n) => Fits(ClearBit(a, b), n)
  <2>2. \A x \in Words(n) : \A j \in ClearBit(a, b)[x] : j \in a[x] BY <1>1, <1>3, <1>5 DEF Arrays
  <2> QED BY <2>2 DEF Fits
<1>11. SymDiff(S, {b}) = IF b \in S THEN S \ {b} ELSE S \union {b} BY DEF SymDiff
<1>12. ChangeBit(a, b) = IF b \in S THEN ClearBit(a, b) ELSE SetBit(a, b) BY <1>4 DEF ChangeBit
<1> QED BY <1>7, <1>8, <1>9, <1>10, <1>11, <1>12

\* The operations on whole words are those on sets.
LEMMA CombineMeans ==
  ASSUME NEW n \in Nat, NEW a, NEW b, NEW S, NEW T, Means(a, S, n), Means(b, T, n)
  PROVE  /\ Means(And(a, b), S \intersect T, n) /\ (Fits(a, n) => Fits(And(a, b), n))
         /\ Means(Or(a, b), S \union T, n) /\ (Fits(a, n) /\ Fits(b, n) => Fits(Or(a, b), n))
         /\ Means(Xor(a, b), SymDiff(S, T), n) /\ (Fits(a, n) /\ Fits(b, n) => Fits(Xor(a, b), n))
         /\ Means(AndNot(a, b), S \ T, n) /\ (Fits(a, n) => Fits(AndNot(a, b), n))
<1>0. /\ a \in [Words(n) -> SUBSET Offsets] /\ b \in [Words(n) -> SUBSET Offsets]
      /\ S \subseteq 0 .. n - 1 /\ T \subseteq 0 .. n - 1
      /\ \A k \in Words(n), i \in Offsets : Pos(k, i) < n => (i \in a[k] <=> Pos(k, i) \in S)
      /\ \A k \in Words(n), i \in Offsets : Pos(k, i) < n => (i \in b[k] <=> Pos(k, i) \in T)
  BY DEF Means, Arrays, Word
<1>1. Means(And(a, b), S \intersect T, n) BY <1>0 DEF Means, Arrays, Word, And
<1>2. Means(Or(a, b), S \union T, n) BY <1>0 DEF Means, Arrays, Word, Or
<1>3. Means(Xor(a, b), SymDiff(S, T), n) BY <1>0 DEF Means, Arrays, Word, Xor, SymDiff
<1>4. Means(AndNot(a, b), S \ T, n) BY <1>0 DEF Means, Arrays, Word, AndNot
<1>5. Fits(a, n) => Fits(And(a, b), n) /\ Fits(AndNot(a, b), n) BY <1>0 DEF Fits, And, AndNot
<1>6. Fits(a, n) /\ Fits(b, n) => Fits(Or(a, b), n) /\ Fits(Xor(a, b), n)
  BY <1>0 DEF Fits, Or, Xor, SymDiff
<1> QED BY <1>1, <1>2, <1>3, <1>4, <1>5, <1>6

\* The complement, whose last word is masked.
LEMMA ComplementMeans ==
  ASSUME NEW n \in Nat, NEW a, NEW S, Means(a, S, n)
  PROVE  Means(Complement(a, n), (0 .. n - 1) \ S, n) /\ Fits(Complement(a, n), n)
<1>1. ASSUME NEW k \in Words(n), NEW i \in Offsets
      PROVE  i \in Complement(a, n)[k] <=> i \notin a[k] /\ Pos(k, i) < n
  <2>1. k \in Nat /\ k * WordBits < n BY WordsNat, WordsOf
  <2>2. i \in Trimmed(Offsets \ a[k], k, n) <=> i \in Offsets \ a[k] /\ Pos(k, i) < n BY <2>1, TrimmedBits
  <2> QED BY <2>2 DEF Complement
<1>2. \A k \in Words(n) : Complement(a, n)[k] \subseteq Offsets BY DEF Complement, Trimmed
<1>3. Complement(a, n) \in Arrays(n) BY <1>2 DEF Complement, Arrays, Word
<1>4. \A k \in Words(n), i \in Offsets : Pos(k, i) < n => Pos(k, i) \in 0 .. n - 1
  BY WordsNat, PosPlace
<1> QED BY <1>1, <1>2, <1>3, <1>4 DEF Means, Fits

----------------------------------------------------------------------------
\* The shifts.  A round of the loop reads words that no round before it has
\* written, so that it does not matter whether dst and src are one array.
RightWritten(dst, src, inplace, shift, n) ==
    LET written[j \in 0 .. ToLongs(n) - shift \div WordBits] ==
            IF j = 0 THEN dst ELSE PutRight(written[j - 1], j - 1, src, inplace, shift, n)
    IN  written
LeftWritten(dst, src, inplace, shift, n) ==
    LET left == ToLongs(n) - shift \div WordBits
        written[j \in 0 .. left] ==
            IF j = 0 THEN dst ELSE PutLeft(written[j - 1], left - j, src, inplace, shift, n)
    IN  written

\* The words that are shifted out are at most all.
LEMMA ShiftPlace ==
  ASSUME NEW n \in Nat, NEW by \in 0 .. n
  PROVE  /\ by \in Nat /\ by \div WordBits \in Nat /\ by % WordBits \in Offsets
         /\ by = Pos(by \div WordBits, by % WordBits)
         /\ ToLongs(n) - by \div WordBits \in Nat /\ ToLongs(n) \in Nat
<1> DEFINE off == by \div WordBits
           rem == by % WordBits
<1>1. by \in Nat OBVIOUS
<1>2. off \in Nat /\ rem \in Offsets /\ by = Pos(off, rem) BY <1>1, PlaceOf
<1>3. ToLongs(n) \in Nat /\ (ToLongs(n) < off => ToLongs(n) * WordBits < n)
  <2> DEFINE L == ToLongs(n)
  <2>1. L \in Nat BY ZeroMeans, WordsOf
  <2>2. ASSUME L < off PROVE L * WordBits < n
    <3> HIDE DEF L, off, rem
    <3>1. off <= off BY <1>2
    <3>2. off * WordBits <= by /\ off * WordBits \in Nat /\ L * WordBits \in Nat
      BY <1>2, <2>1, <3>1, PosOrder, WordAssumption
    <3>3. L + 1 <= off BY <1>2, <2>1, <2>2
    <3>4. (L + 1) * WordBits <= off * WordBits BY <3>3, <1>2, <2>1, WordAssumption
    <3>5. (L + 1) * WordBits = L * WordBits + WordBits BY <2>1, WordAssumption
    <3> QED BY <3>2, <3>4, <3>5, <1>1, WordAssumption
  <2> QED BY <2>1, <2>2
<1>4. ~(ToLongs(n) * WordBits < n)
  <2>1. ToLongs(n) \in Nat BY <1>3
  <2> QED BY <2>1, WordsOf
<1> QED BY <1>1, <1>2, <1>3, <1>4

\* One word of an array is written.
LEMMA PutWord ==
  ASSUME NEW n, NEW d \in [Words(n) -> SUBSET Offsets], NEW k, NEW R, R \subseteq Offsets
  PROVE  [d EXCEPT ![k] = R] \in [Words(n) -> SUBSET Offsets]
OBVIOUS

\* After each round of the loop of a right shift, also in place, the words
\* before are those of the result, and those to come are not yet written.
LEMMA RightRounds ==
  ASSUME NEW n \in Nat, NEW dst \in Arrays(n), NEW src \in Arrays(n), NEW inplace \in BOOLEAN,
         inplace => dst = src, NEW by \in 0 .. n
  PROVE  \A k \in 0 .. ToLongs(n) - by \div WordBits - 1 :
            ShiftRight(dst, src, inplace, by, n)[k] = Right(src, k, by \div WordBits, by % WordBits, n)
<1> DEFINE off == by \div WordBits
           rem == by % WordBits
           left == ToLongs(n) - off
           V == [Words(n) -> SUBSET Offsets]
           F == [x \in V \X (1 .. left) |-> PutRight(x[1], x[2] - 1, src, inplace, by, n)]
           w == RightWritten(dst, src, inplace, by, n)
<1>0. off \in Nat /\ left \in Nat /\ ToLongs(n) \in Nat /\ rem \in Offsets BY ShiftPlace
<1>1. ASSUME NEW a, NEW k PROVE Right(a, k, off, rem, n) \subseteq Offsets
  BY DEF Right, Trimmed, Shl, Shr
<1>2. F \in [V \X (1 .. left) -> V]
  <2>1. ASSUME NEW d \in V, NEW j \in 1 .. left PROVE PutRight(d, j - 1, src, inplace, by, n) \in V
    BY <1>1 DEF PutRight
  <2> QED BY <2>1
<1>3. dst \in V BY DEF Arrays, Word
<1>4. \A d : \A j \in 1 .. left : d \in V => F[<<d, j>>] = PutRight(d, j - 1, src, inplace, by, n)
  OBVIOUS
<1>5. w[0] = dst /\ \A j \in 1 .. left : w[j] = PutRight(w[j - 1], j - 1, src, inplace, by, n)
  <2> HIDE DEF V, F, w, left
  <2>1. PICK g : Iterates(g, V, dst, F, left) BY <1>0, <1>2, <1>3, Iteration
  <2>2. \A j \in 1 .. left : g[j] = PutRight(g[j - 1], j - 1, src, inplace, by, n)
    <3> TAKE j \in 1 .. left
    <3>1. g[j - 1] \in V BY <2>1, <1>0 DEF Iterates
    <3> QED BY <3>1, <2>1, <1>4 DEF Iterates
  <2>3. g = [j \in 0 .. left |-> IF j = 0 THEN dst ELSE PutRight(g[j - 1], j - 1, src, inplace, by, n)]
    BY <2>1, <2>2, <1>0 DEF Iterates
  <2>4. w = [j \in 0 .. left |-> IF j = 0 THEN dst ELSE PutRight(w[j - 1], j - 1, src, inplace, by, n)]
    BY <2>3, Zenon DEF w, RightWritten, left
  <2> QED BY <2>4, <1>0
<1> DEFINE Done(j) == /\ w[j] \in V
                      /\ \A k \in Words(n) : w[j][k] = IF k < j THEN Right(src, k, off, rem, n) ELSE dst[k]
<1> HIDE DEF w
<1>6. Done(0)
  <2>1. \A k \in Words(n) : ~(k < 0) BY WordsNat
  <2> QED BY <2>1, <1>3, <1>5
<1>7. ASSUME NEW j \in 1 .. left, Done(j - 1) PROVE Done(j)
  <2>1. w[j] = PutRight(w[j - 1], j - 1, src, inplace, by, n) BY <1>5
  <2> DEFINE d == w[j - 1]
             from == IF inplace THEN d ELSE src
  <2>2. w[j] = [d EXCEPT ![j - 1] = Right(from, j - 1, off, rem, n)] BY <2>1 DEF PutRight
  <2>3. j - 1 \in Nat /\ j - 1 \in Words(n) /\ off + (j - 1) \in Words(n) BY <1>0 DEF Words
  <2>4. \A k \in Words(n) : k >= j - 1 => from[k] = src[k] BY <1>7, WordsNat, <2>3
  <2>5. Right(from, j - 1, off, rem, n) = Right(src, j - 1, off, rem, n)
    <3>1. from[off + (j - 1)] = src[off + (j - 1)] BY <2>3, <2>4, <1>0
    <3>2. off + (j - 1) + 1 < ToLongs(n) => from[off + (j - 1) + 1] = src[off + (j - 1) + 1]
      BY <2>3, <2>4, <1>0 DEF Words
    <3>3. off + (j - 1) + 1 >= ToLongs(n) \/ off + (j - 1) + 1 < ToLongs(n) BY <1>0
    <3> HIDE DEF from
    <3> QED BY <3>1, <3>2, <3>3 DEF Right
  <2>6. d \in V BY <1>7
  <2>7. w[j] \in V
    <3> DEFINE R == Right(from, j - 1, off, rem, n)
    <3>2. R \subseteq Offsets BY <1>1
    <3>3. w[j] = [d EXCEPT ![j - 1] = R] BY <2>2
    <3> HIDE DEF d, R
    <3>4. [d EXCEPT ![j - 1] = R] \in V BY <2>6, <3>2, PutWord
    <3> QED BY <3>3, <3>4
  <2>8. ASSUME NEW k \in Words(n) PROVE w[j][k] = IF k < j THEN Right(src, k, off, rem, n) ELSE dst[k]
    <3>1. k \in Nat /\ d[k] = IF k < j - 1 THEN Right(src, k, off, rem, n) ELSE dst[k] BY <1>7, WordsNat
    <3> HIDE DEF d, from
    <3>2. CASE k = j - 1 BY <3>2, <2>2, <2>5, <2>6, <3>1
    <3>3. CASE k # j - 1
      <4>1. w[j][k] = d[k] BY <3>3, <2>2, <2>6
      <4>2. k < j <=> k < j - 1 BY <3>1, <3>3
      <4> QED BY <4>1, <4>2, <3>1
    <3> QED BY <3>2, <3>3
  <2> QED BY <2>7, <2>8
<1>8. Done(left)
  <2> DEFINE Good == {j \in 0 .. left : Done(j)}
  <2> HIDE DEF Done, left
  <2>1. 0 \in Good /\ \A j \in 1 .. left : j - 1 \in Good => j \in Good BY <1>0, <1>6, <1>7
  <2>2. Good \in SUBSET (0 .. left) OBVIOUS
  <2> HIDE DEF Good
  <2>3. Good = 0 .. left BY <1>0, <2>1, <2>2, UpTo
  <2> QED BY <1>0, <2>3 DEF Good
<1>9. ShiftRight(dst, src, inplace, by, n) = [k \in Words(n) |-> IF k < left THEN w[left][k] ELSE {}]
  BY Zenon DEF ShiftRight, RightWritten, w
<1> QED BY <1>8, <1>9, <1>0 DEF Words

\* The same of a left shift, which writes the last word first.
LEMMA LeftRounds ==
  ASSUME NEW n \in Nat, NEW dst \in Arrays(n), NEW src \in Arrays(n), NEW inplace \in BOOLEAN,
         inplace => dst = src, NEW by \in 0 .. n
  PROVE  \A k \in 0 .. ToLongs(n) - by \div WordBits - 1 :
            ShiftLeft(dst, src, inplace, by, n)[k + by \div WordBits] = Left(src, k, by \div WordBits, by % WordBits, n)
<1> DEFINE off == by \div WordBits
           rem == by % WordBits
           left == ToLongs(n) - off
           V == [Words(n) -> SUBSET Offsets]
           F == [x \in V \X (1 .. left) |-> PutLeft(x[1], left - x[2], src, inplace, by, n)]
           w == LeftWritten(dst, src, inplace, by, n)
<1>0. off \in Nat /\ left \in Nat /\ ToLongs(n) \in Nat /\ rem \in Offsets BY ShiftPlace
<1>1. ASSUME NEW a, NEW k PROVE Left(a, k, off, rem, n) \subseteq Offsets
  BY DEF Left, Trimmed, Shl, Shr
<1>2. F \in [V \X (1 .. left) -> V]
  <2>1. ASSUME NEW d \in V, NEW j \in 1 .. left PROVE PutLeft(d, left - j, src, inplace, by, n) \in V
    BY <1>1 DEF PutLeft
  <2> QED BY <2>1
<1>3. dst \in V BY DEF Arrays, Word
<1>4. \A d : \A j \in 1 .. left : d \in V => F[<<d, j>>] = PutLeft(d, left - j, src, inplace, by, n)
  OBVIOUS
<1>5. w[0] = dst /\ \A j \in 1 .. left : w[j] = PutLeft(w[j - 1], left - j, src, inplace, by, n)
  <2> HIDE DEF V, F, w, left
  <2>1. PICK g : Iterates(g, V, dst, F, left) BY <1>0, <1>2, <1>3, Iteration
  <2>2. \A j \in 1 .. left : g[j] = PutLeft(g[j - 1], left - j, src, inplace, by, n)
    <3> TAKE j \in 1 .. left
    <3>1. g[j - 1] \in V BY <2>1, <1>0 DEF Iterates
    <3> QED BY <3>1, <2>1, <1>4 DEF Iterates
  <2>3. g = [j \in 0 .. left |-> IF j = 0 THEN dst ELSE PutLeft(g[j - 1], left - j, src, inplace, by, n)]
    BY <2>1, <2>2, <1>0 DEF Iterates
  <2>4. w = [j \in 0 .. left |-> IF j = 0 THEN dst ELSE PutLeft(w[j - 1], left - j, src, inplace, by, n)]
    BY <2>3, Zenon DEF w, LeftWritten, left
  <2> QED BY <2>4, <1>0
<1> DEFINE Done(j) == /\ w[j] \in V
                      /\ \A k \in Words(n) : w[j][k] = IF k >= ToLongs(n) - j THEN Left(src, k - off, off, rem, n) ELSE dst[k]
<1> HIDE DEF w
<1>6. Done(0)
  <2>1. \A k \in Words(n) : ~(k >= ToLongs(n) - 0) BY WordsNat, <1>0 DEF Words
  <2> QED BY <2>1, <1>3, <1>5
<1>7. ASSUME NEW j \in 1 .. left, Done(j - 1) PROVE Done(j)
  <2>1. w[j] = PutLeft(w[j - 1], left - j, src, inplace, by, n) BY <1>5
  <2> DEFINE d == w[j - 1]
             from == IF inplace THEN d ELSE src
  <2> DEFINE q == left - j
  <2>2. w[j] = [d EXCEPT ![q + off] = Left(from, q, off, rem, n)] BY <2>1 DEF PutLeft
  <2>3. q \in Nat /\ q \in Words(n) /\ q + off \in Words(n) /\ q + off = ToLongs(n) - j
        /\ (q > 0 => q - 1 \in Words(n)) /\ q < ToLongs(n) - (j - 1)
    BY <1>0 DEF Words
  <2>4. \A k \in Words(n) : k < ToLongs(n) - (j - 1) => from[k] = src[k]
    <3>1. \A k \in Words(n) : k < ToLongs(n) - (j - 1) => d[k] = dst[k] BY <1>7, <1>0, WordsNat
    <3> QED BY <3>1
  <2>5. Left(from, q, off, rem, n) = Left(src, q, off, rem, n)
    <3>1. from[q] = src[q] BY <2>3, <2>4
    <3>2. q > 0 => from[q - 1] = src[q - 1] BY <2>3, <2>4, <1>0
    <3> HIDE DEF from, q
    <3> QED BY <3>1, <3>2 DEF Left
  <2>6. d \in V BY <1>7
  <2>7. w[j] \in V
    <3> DEFINE R == Left(from, q, off, rem, n)
    <3>2. R \subseteq Offsets BY <1>1
    <3>3. w[j] = [d EXCEPT ![q + off] = R] BY <2>2
    <3> HIDE DEF d, R, q
    <3>4. [d EXCEPT ![q + off] = R] \in V BY <2>6, <3>2, PutWord
    <3> QED BY <3>3, <3>4
  <2>8. ASSUME NEW k \in Words(n)
        PROVE  w[j][k] = IF k >= ToLongs(n) - j THEN Left(src, k - off, off, rem, n) ELSE dst[k]
    <3>1. /\ k \in Nat
          /\ d[k] = IF k >= ToLongs(n) - (j - 1) THEN Left(src, k - off, off, rem, n) ELSE dst[k]
      BY <1>7, WordsNat
    <3>2. CASE k = q + off
      <4>1. w[j][k] = Left(src, q, off, rem, n)
        <5> HIDE DEF d, from, q
        <5> QED BY <3>2, <2>2, <2>5, <2>6
      <4>2. k - off = q /\ k >= ToLongs(n) - j BY <3>2, <2>3, <1>0
      <4> QED BY <4>1, <4>2
    <3>3. CASE k # q + off
      <4>1. w[j][k] = d[k]
        <5> HIDE DEF d, from, q
        <5> QED BY <3>3, <2>2, <2>6
      <4>2. k >= ToLongs(n) - j <=> k >= ToLongs(n) - (j - 1) BY <3>1, <3>3, <2>3, <1>0
      <4> QED BY <4>1, <4>2, <3>1
    <3> QED BY <3>2, <3>3
  <2> QED BY <2>7, <2>8
<1>8. Done(left)
  <2> DEFINE Good == {j \in 0 .. left : Done(j)}
  <2> HIDE DEF Done, left
  <2>1. 0 \in Good /\ \A j \in 1 .. left : j - 1 \in Good => j \in Good BY <1>0, <1>6, <1>7
  <2>2. Good \in SUBSET (0 .. left) OBVIOUS
  <2> HIDE DEF Good
  <2>3. Good = 0 .. left BY <1>0, <2>1, <2>2, UpTo
  <2> QED BY <1>0, <2>3 DEF Good
<1>9. ShiftLeft(dst, src, inplace, by, n) = [k \in Words(n) |-> IF k >= off THEN w[left][k] ELSE {}]
  BY Zenon DEF ShiftLeft, LeftWritten, w
<1>10. ASSUME NEW k \in 0 .. left - 1 PROVE ShiftLeft(dst, src, inplace, by, n)[k + off] = Left(src, k, off, rem, n)
  <2>1. k + off \in Words(n) /\ k + off >= off /\ k + off >= ToLongs(n) - left /\ (k + off) - off = k
    BY <1>0 DEF Words
  <2>2. w[left][k + off] = Left(src, (k + off) - off, off, rem, n) BY <2>1, <1>8
  <2> QED BY <2>1, <2>2, <1>9
<1> QED BY <1>10

\* A right shift by any number of bits takes every bit down by it ...
LEMMA ShiftRightMeans ==
  ASSUME NEW n \in Nat, NEW dst \in Arrays(n), NEW src, NEW S, Means(src, S, n), NEW inplace \in BOOLEAN,
         inplace => dst = src, NEW by \in 0 .. n
  PROVE  /\ Means(ShiftRight(dst, src, inplace, by, n), {b \in 0 .. n - 1 : b + by \in S}, n)
         /\ Fits(ShiftRight(dst, src, inplace, by, n), n)
<1> DEFINE off == by \div WordBits
           rem == by % WordBits
           left == ToLongs(n) - off
           W == WordBits
           r == ShiftRight(dst, src, inplace, by, n)
           T == {b \in 0 .. n - 1 : b + by \in S}
<1>0. /\ off \in Nat /\ left \in Nat /\ ToLongs(n) \in Nat /\ rem \in 0 .. W - 1 /\ by = off * W + rem
      /\ W \in Nat \ {0} /\ by \in Nat /\ src \in Arrays(n) /\ S \subseteq 0 .. n - 1
  BY ShiftPlace, WordAssumption DEF Means, Offsets, Pos
<1>1. \A k \in 0 .. left - 1 : r[k] = Right(src, k, off, rem, n) BY <1>0, RightRounds
<1>20. \A x \in S : x < n BY <1>0
<1>2. \A k \in Words(n) : ~(k < left) => r[k] = {} BY DEF ShiftRight
<1>3. ASSUME NEW k \in Nat, NEW i \in Offsets, Pos(k, i) < n
      PROVE  \A w : i \in Trimmed(w, k, n) <=> i \in w
  <2>1. k * W < n
    <3>1. k <= k OBVIOUS
    <3>2. k * W <= Pos(k, i) /\ k * W \in Nat /\ Pos(k, i) \in Nat BY <3>1, PosOrder
    <3> QED BY <3>2, <1>3
  <2> QED BY <2>1, <1>3, TrimmedBits
<1> HIDE DEF off, rem, left, r, W
<1>4. ASSUME NEW k \in Words(n), NEW i \in Offsets
      PROVE  i \in r[k] <=> Pos(k, i) < n /\ Pos(k, i) + by \in S
  <2>0. k \in Nat /\ k * W < n /\ k < ToLongs(n) BY WordsNat, WordsOf DEF W
  <2>1. i \in 0 .. W - 1 /\ Pos(k, i) = k * W + i /\ k * W \in Nat /\ Pos(k, i) \in Nat
    BY <2>0, <1>0 DEF Pos, Offsets, W
  <2>2. (k + off) * W = k * W + off * W /\ (off + k + 1) * W = (k + off) * W + W /\ off * W \in Nat
    BY <2>0, <1>0
  <2>3. CASE ~(k < left)
    <3>1. ToLongs(n) <= k + off /\ k + off \in Nat BY <2>3, <2>0, <1>0 DEF left
    <3>2. ~((k + off) * W < n) BY <3>1, <1>0, WordsOf DEF W
    <3>3. n <= Pos(k, i) + by BY <3>2, <2>1, <2>2, <1>0
    <3> QED BY <3>3, <2>1, <2>3, <1>0, <1>2
  <2>4. CASE k < left
    <3>1. off + k \in Words(n) /\ off + k \in Nat /\ (off + k) * W < n
      BY <2>4, <2>0, <1>0, WordsOf DEF left, Words, W
    <3> DEFINE up == off + k + 1
               upper == IF rem = 0 \/ up >= ToLongs(n) THEN {} ELSE Trimmed(src[up], up, n)
               lower == Trimmed(src[off + k], off + k, n)
    <3>2. r[k] = Trimmed(Shl(upper, W - rem) \union Shr(lower, rem), k, n)
      <4>1. k \in 0 .. left - 1 BY <2>4, <2>0, <1>0
      <4>2. r[k] = Right(src, k, off, rem, n) BY <4>1, <1>1
      <4>3. Right(src, k, off, rem, n) = Trimmed(Shl(upper, W - rem) \union Shr(lower, rem), k, n)
        BY DEF Right, W
      <4> QED BY <4>2, <4>3
    <3>3. i \in r[k] <=> Pos(k, i) < n /\ (i \in Shl(upper, W - rem) \/ i \in Shr(lower, rem))
      <4> DEFINE w == Shl(upper, W - rem) \union Shr(lower, rem)
      <4>1. i \in Trimmed(w, k, n) <=> i \in w /\ Pos(k, i) < n
        <5> HIDE DEF w
        <5> QED BY <2>0, TrimmedBits DEF W
      <4> QED BY <3>2, <4>1
    <3>4. lower \subseteq Offsets /\ upper \subseteq Offsets
      BY <3>1, <2>0, <1>0 DEF Means, Arrays, Word, Trimmed, Words
    <3>5. i \in Shr(lower, rem) <=> i + rem \in lower
      BY <3>4, <2>1, <1>0 DEF Shr, Offsets, W
    <3>6. i \in Shl(upper, W - rem) <=> (i + rem) - W \in upper
      BY <3>4, <2>1, <1>0 DEF Shl, Offsets, W
    <3>7. CASE i + rem < W
      <4>1. (i + rem) - W \notin upper BY <3>4, <3>7, <2>1, <1>0 DEF Offsets, W
      <4>2. i + rem \in Offsets BY <3>7, <2>1, <1>0 DEF Offsets, W
      <4>3. Pos(off + k, i + rem) = Pos(k, i) + by BY <2>1, <2>2, <1>0, <3>1 DEF Pos, W
      <4>4. i + rem \in lower <=> i + rem \in src[off + k] /\ Pos(off + k, i + rem) < n
        BY <3>1, <4>2, TrimmedBits DEF W
      <4>5. Pos(off + k, i + rem) < n => (i + rem \in src[off + k] <=> Pos(off + k, i + rem) \in S)
        BY <3>1, <4>2 DEF Means
      <4>6. Pos(off + k, i + rem) \in S => Pos(off + k, i + rem) < n BY <1>20
      <4> HIDE DEF upper, lower
      <4> QED BY <3>3, <3>5, <3>6, <4>1, <4>3, <4>4, <4>5, <4>6
    <3>8. CASE ~(i + rem < W)
      <4>1. i + rem \notin lower BY <3>4, <3>8, <2>1, <1>0 DEF Offsets, W
      <4>2. (i + rem) - W \in Offsets /\ rem # 0 /\ up \in Nat BY <3>8, <2>1, <2>0, <1>0 DEF Offsets, W
      <4>3. Pos(up, (i + rem) - W) = Pos(k, i) + by
        BY <2>1, <2>2, <1>0, <3>1 DEF Pos, W
      <4>4. CASE up >= ToLongs(n)
        <5>1. ~(up * W < n) BY <4>2, <4>4, <1>0, WordsOf DEF W
        <5>2. n <= Pos(k, i) + by BY <5>1, <2>1, <2>2, <1>0, <2>0, <3>8
        <5> QED BY <5>2, <4>1, <4>4, <3>3, <3>5, <3>6, <1>0, <2>1
      <4>5. CASE ~(up >= ToLongs(n))
        <5>1. up \in Words(n) /\ up * W < n BY <4>2, <4>5, <1>0, WordsOf DEF W
        <5>2. upper = Trimmed(src[up], up, n) BY <4>2, <4>5
        <5> DEFINE j == (i + rem) - W
        <5> HIDE DEF j, up, upper, lower
        <5>3. j \in Trimmed(src[up], up, n) <=> j \in src[up] /\ Pos(up, j) < n
          BY <5>1, <4>2, TrimmedBits DEF W, j
        <5>4. Pos(up, j) < n => (j \in src[up] <=> Pos(up, j) \in S) BY <5>1, <4>2 DEF Means, j
        <5>5. Pos(up, j) \in S => Pos(up, j) < n BY <1>20
        <5> QED BY <3>3, <3>5, <3>6, <4>1, <4>3, <5>2, <5>3, <5>4, <5>5 DEF j
      <4> QED BY <4>4, <4>5
    <3> QED BY <3>7, <3>8
  <2> QED BY <2>3, <2>4
<1>5. r \in Arrays(n)
  <2>1. r = [k \in Words(n) |-> r[k]] BY DEF r, ShiftRight
  <2>2. ASSUME NEW k \in Words(n) PROVE r[k] \subseteq Offsets
    <3>1. CASE k < left
      <4>1. r[k] = Right(src, k, off, rem, n) BY <3>1, <1>0, <1>1, WordsNat
      <4> QED BY <4>1 DEF Right, Trimmed, Shl, Shr
    <3> QED BY <3>1, <1>2
  <2> QED BY <2>1, <2>2 DEF Arrays, Word
<1>6. \A k \in Words(n) : r[k] \subseteq Offsets BY <1>5 DEF Arrays, Word
<1>7. \A k \in Words(n), i \in Offsets : Pos(k, i) < n => Pos(k, i) \in 0 .. n - 1
  BY WordsNat, PosPlace
<1>8. Means(r, T, n)
  <2> HIDE DEF T
  <2>1. \A k \in Words(n), i \in Offsets : Pos(k, i) < n => (Pos(k, i) \in T <=> Pos(k, i) + by \in S)
    BY <1>7 DEF T
  <2>2. T \subseteq 0 .. n - 1 BY DEF T
  <2> QED BY <2>1, <2>2, <1>4, <1>5 DEF Means
<1> QED BY <1>4, <1>6, <1>8 DEF Fits, r

\* ... and a left shift up.
LEMMA ShiftLeftMeans ==
  ASSUME NEW n \in Nat, NEW dst \in Arrays(n), NEW src, NEW S, Means(src, S, n), NEW inplace \in BOOLEAN,
         inplace => dst = src, NEW by \in 0 .. n
  PROVE  /\ Means(ShiftLeft(dst, src, inplace, by, n), {b \in 0 .. n - 1 : b - by \in S}, n)
         /\ Fits(ShiftLeft(dst, src, inplace, by, n), n)
<1> DEFINE off == by \div WordBits
           rem == by % WordBits
           left == ToLongs(n) - off
           W == WordBits
           r == ShiftLeft(dst, src, inplace, by, n)
           T == {b \in 0 .. n - 1 : b - by \in S}
<1>0. /\ off \in Nat /\ left \in Nat /\ ToLongs(n) \in Nat /\ rem \in 0 .. W - 1 /\ by = off * W + rem
      /\ W \in Nat \ {0} /\ by \in Nat /\ src \in Arrays(n) /\ S \subseteq 0 .. n - 1
  BY ShiftPlace, WordAssumption DEF Means, Offsets, Pos
<1>1. \A k \in 0 .. left - 1 : r[k + off] = Left(src, k, off, rem, n) BY <1>0, LeftRounds
<1>2. \A k \in Words(n) : ~(k >= off) => r[k] = {} BY DEF ShiftLeft
<1>3. \A x \in S : x \in Nat /\ x < n BY <1>0
<1> HIDE DEF off, rem, left, r, W
<1>4. ASSUME NEW q \in Words(n), NEW i \in Offsets
      PROVE  i \in r[q] <=> Pos(q, i) < n /\ Pos(q, i) - by \in S
  <2>0. q \in Nat /\ q * W < n /\ q < ToLongs(n) BY WordsNat, WordsOf DEF W
  <2>1. i \in 0 .. W - 1 /\ Pos(q, i) = q * W + i /\ q * W \in Nat /\ Pos(q, i) \in Nat
    BY <2>0, <1>0 DEF Pos, Offsets, W
  <2>2. CASE ~(q >= off)
    <3>1. (q + 1) * W <= off * W /\ (q + 1) * W = q * W + W BY <2>2, <2>0, <1>0
    <3>2. off * W \in Nat BY <1>0
    <3>3. Pos(q, i) - by < 0 BY <3>1, <3>2, <2>1, <1>0
    <3> QED BY <3>3, <2>1, <2>2, <1>0, <1>2, <1>3
  <2>3. CASE q >= off
    <3> DEFINE k == q - off
               lower == IF rem # 0 /\ k > 0 THEN src[k - 1] ELSE {}
               own == Trimmed(src[k], k, n)
    <3>1. k \in 0 .. left - 1 /\ k \in Nat /\ k \in Words(n) /\ k + off = q
      BY <2>3, <2>0, <1>0 DEF left, Words
    <3>2. r[q] = Trimmed(Shr(lower, W - rem) \union Shl(own, rem), q, n)
      <4>1. r[q] = Left(src, k, off, rem, n)
        <5> HIDE DEF k
        <5> QED BY <3>1, <1>1
      <4>2. Left(src, k, off, rem, n) = Trimmed(Shr(lower, W - rem) \union Shl(own, rem), k + off, n)
        BY DEF Left, W
      <4> QED BY <3>1, <4>1, <4>2
    <3>3. i \in r[q] <=> Pos(q, i) < n /\ (i \in Shr(lower, W - rem) \/ i \in Shl(own, rem))
      <4> DEFINE w == Shr(lower, W - rem) \union Shl(own, rem)
      <4>1. i \in Trimmed(w, q, n) <=> i \in w /\ Pos(q, i) < n
        <5> HIDE DEF w
        <5> QED BY <2>0, TrimmedBits DEF W
      <4> QED BY <3>2, <4>1
    <3>4. own \subseteq Offsets /\ lower \subseteq Offsets
      <4>1. src[k] \subseteq Offsets BY <3>1, <1>0 DEF Arrays, Word
      <4>2. k > 0 => k - 1 \in Words(n) BY <3>1, <1>0 DEF Words
      <4>3. k > 0 => src[k - 1] \subseteq Offsets BY <4>2, <1>0 DEF Arrays, Word
      <4> HIDE DEF k
      <4> QED BY <4>1, <4>3 DEF Trimmed
    <3>5. q * W = k * W + off * W /\ off * W \in Nat /\ k * W \in Nat
      <4> HIDE DEF k
      <4> QED BY <3>1, <1>0
    <3>6. k * W < n BY <3>1, WordsOf DEF W
    <3>7. i \in Shr(lower, W - rem) <=> i + (W - rem) \in lower
      <4> HIDE DEF lower
      <4> QED BY <3>4, <2>1, <1>0 DEF Shr, Offsets, W
    <3>8. i \in Shl(own, rem) <=> i - rem \in own
      <4> HIDE DEF own
      <4> QED BY <3>4, <2>1, <1>0 DEF Shl, Offsets, W
    <3>9. CASE i >= rem
      <4>1. i + (W - rem) \notin lower
        <5> HIDE DEF lower
        <5> QED BY <3>4, <3>9, <2>1, <1>0 DEF Offsets, W
      <4>2. i - rem \in Offsets BY <3>9, <2>1, <1>0 DEF Offsets, W
      <4>3. Pos(k, i - rem) = Pos(q, i) - by
        <5> HIDE DEF k
        <5> QED BY <2>1, <3>5, <1>0 DEF Pos, W
      <4> DEFINE j == i - rem
      <4>4. j \in own <=> j \in src[k] /\ Pos(k, j) < n
        <5> HIDE DEF j, k
        <5> QED BY <3>1, <3>6, <4>2, TrimmedBits DEF W, j
      <4>5. Pos(k, j) < n => (j \in src[k] <=> Pos(k, j) \in S)
        <5> HIDE DEF k, j
        <5> QED BY <3>1, <4>2 DEF Means, j
      <4>6. Pos(k, j) \in S => Pos(k, j) < n BY <1>3
      <4> HIDE DEF own, lower, k
      <4> QED BY <3>3, <3>7, <3>8, <4>1, <4>3, <4>4, <4>5, <4>6, <2>1, <1>0
    <3>10. CASE ~(i >= rem)
      <4>1. i - rem \notin own
        <5> HIDE DEF own
        <5> QED BY <3>4, <3>10, <2>1, <1>0 DEF Offsets, W
      <4>2. rem # 0 /\ i + (W - rem) \in Offsets BY <3>10, <2>1, <1>0 DEF Offsets, W
      <4>3. CASE k = 0
        <5>1. Pos(q, i) - by < 0
          <6> HIDE DEF k
          <6> QED BY <4>3, <3>5, <3>10, <2>1, <1>0
        <5>2. lower = {} BY <4>3
        <5> HIDE DEF lower, own
        <5> QED BY <5>1, <5>2, <4>1, <3>3, <3>7, <3>8, <1>3, <2>1, <1>0
      <4>4. CASE k > 0
        <5> DEFINE j == i + (W - rem)
                   p == k - 1
        <5>1. p \in Nat /\ p \in Words(n) /\ k = p + 1 BY <4>4, <3>1, <1>0 DEF Words
        <5>2. lower = src[p] BY <4>2, <4>4
        <5>3. j \in Offsets BY <4>2
        <5>4. Pos(p, j) = Pos(q, i) - by
          <6> HIDE DEF k, p
          <6>1. k * W = p * W + W /\ p * W \in Nat BY <5>1, <1>0
          <6> QED BY <6>1, <2>1, <3>5, <1>0 DEF Pos, W, j
        <5> HIDE DEF lower, own, j, p, k
        <5>5. Pos(p, j) < n => (j \in src[p] <=> Pos(p, j) \in S) BY <5>1, <5>3 DEF Means
        <5>6. Pos(q, i) < n => Pos(p, j) < n BY <5>4, <2>1, <1>0
        <5> QED BY <3>3, <3>7, <3>8, <4>1, <5>2, <5>4, <5>5, <5>6 DEF j
      <4> QED BY <4>3, <4>4, <3>1
    <3> QED BY <3>9, <3>10, <2>1, <1>0
  <2> QED BY <2>2, <2>3, <2>0, <1>0
<1>5. r \in Arrays(n)
  <2>1. r = [k \in Words(n) |-> r[k]] BY DEF r, ShiftLeft
  <2>2. ASSUME NEW q \in Words(n) PROVE r[q] \subseteq Offsets
    <3>1. CASE q >= off
      <4>1. q - off \in 0 .. left - 1 /\ (q - off) + off = q BY <3>1, <1>0, WordsNat, WordsOf DEF left, Words
      <4>2. r[q] = Left(src, q - off, off, rem, n)
        <5> DEFINE k == q - off
        <5> HIDE DEF k
        <5>1. r[k + off] = Left(src, k, off, rem, n) BY <4>1, <1>1 DEF k
        <5> QED BY <5>1, <4>1 DEF k
      <4> QED BY <4>2 DEF Left, Trimmed, Shl, Shr
    <3> QED BY <3>1, <1>2
  <2> QED BY <2>1, <2>2 DEF Arrays, Word
<1>6. \A k \in Words(n) : r[k] \subseteq Offsets BY <1>5 DEF Arrays, Word
<1>7. \A k \in Words(n), i \in Offsets : Pos(k, i) < n => Pos(k, i) \in 0 .. n - 1
  BY WordsNat, PosPlace
<1>8. Means(r, T, n)
  <2> HIDE DEF T
  <2>1. \A k \in Words(n), i \in Offsets : Pos(k, i) < n => (Pos(k, i) \in T <=> Pos(k, i) - by \in S)
    BY <1>7 DEF T
  <2>2. T \subseteq 0 .. n - 1 BY DEF T
  <2> QED BY <2>1, <2>2, <1>4, <1>5 DEF Means
<1> QED BY <1>4, <1>6, <1>8 DEF Fits, r

\* A shift of a constant size moves the single word: it is right when no
\* unused bit can come down.
LEMMA SmallShiftMeans ==
  ASSUME NEW n \in Nat \ {0}, n <= WordBits, NEW a, NEW S, Means(a, S, n), Fits(a, n),
         NEW by \in Nat, by < WordBits
  PROVE  /\ Means(SmallShiftRight(a, by), {b \in 0 .. n - 1 : b + by \in S}, n)
         /\ Fits(SmallShiftRight(a, by), n)
<1> DEFINE r == SmallShiftRight(a, by)
           T == {b \in 0 .. n - 1 : b + by \in S}
<1>0. WordBits \in Nat /\ a \in [Words(n) -> SUBSET Offsets] /\ S \subseteq 0 .. n - 1
  BY WordAssumption DEF Means, Arrays, Word
<1>1. \A k \in Words(n) : k = 0
  <2> TAKE k \in Words(n)
  <2>1. k \in Nat /\ k * WordBits < n BY WordsNat, WordsOf
  <2>2. k # 0 => k * WordBits >= WordBits BY <2>1, <1>0
  <2> QED BY <2>1, <2>2, <1>0
<1>2. 0 \in Words(n)
  <2>1. 0 * WordBits < n BY <1>0
  <2> QED BY <2>1, WordsOf
<1>3. ASSUME NEW i \in Offsets PROVE i \in r[0] <=> Pos(0, i) < n /\ Pos(0, i) + by \in S
  <2>1. a[0] \subseteq Offsets /\ r[0] = Shr(a[0], by) BY <1>0, <1>2 DEF SmallShiftRight
  <2>2. i \in r[0] <=> i + by \in a[0] BY <2>1, <1>0 DEF Shr, Offsets
  <2>3. Pos(0, i) = i /\ Pos(0, i + by) = i + by /\ i \in Nat BY <1>0 DEF Pos, Offsets
  <2>4. CASE i + by \in Offsets
    <3>1. i + by \in a[0] => i + by < n BY <1>2, <2>3 DEF Fits
    <3>2. i + by < n => (i + by \in a[0] <=> i + by \in S) BY <1>2, <2>3, <2>4 DEF Means
    <3> QED BY <2>2, <2>3, <3>1, <3>2, <1>0
  <2>5. CASE i + by \notin Offsets
    <3>1. ~(i + by < n) BY <2>5, <2>3, <1>0 DEF Offsets
    <3> QED BY <3>1, <2>1, <2>2, <2>3, <2>5, <1>0
  <2> QED BY <2>4, <2>5
<1>4. r \in Arrays(n)
  <2>1. Shr(a[0], by) \subseteq Offsets BY DEF Shr
  <2> QED BY <1>0, <2>1 DEF SmallShiftRight, Arrays, Word
<1>5. \A i \in Offsets : Pos(0, i) < n => Pos(0, i) \in 0 .. n - 1 BY <1>0 DEF Pos, Offsets
<1>6. \A i \in Offsets : Pos(0, i) < n => (Pos(0, i) \in T <=> Pos(0, i) + by \in S) BY <1>5
<1>7. r[0] \subseteq Offsets /\ T \subseteq 0 .. n - 1 BY <1>2, <1>4 DEF Arrays, Word
<1> HIDE DEF r, T
<1>8. Means(r, T, n) BY <1>1, <1>3, <1>4, <1>6, <1>7 DEF Means
<1>9. Fits(r, n) BY <1>1, <1>3, <1>7 DEF Fits
<1> QED BY <1>8, <1>9 DEF r, T

----------------------------------------------------------------------------
\* Places are in the order of their words, then of their offsets.
LEMMA PosLess ==
  ASSUME NEW k \in Nat, NEW i \in Offsets, NEW q \in Nat, NEW j \in Offsets
  PROVE  Pos(k, i) < Pos(q, j) <=> k < q \/ (k = q /\ i < j)
<1>0. WordBits \in Nat /\ i \in 0 .. WordBits - 1 /\ j \in 0 .. WordBits - 1
  BY WordAssumption DEF Offsets
<1>1. k < q => (k + 1) * WordBits <= q * WordBits /\ (k + 1) * WordBits = k * WordBits + WordBits
  BY <1>0
<1>2. q < k => (q + 1) * WordBits <= k * WordBits /\ (q + 1) * WordBits = q * WordBits + WordBits
  BY <1>0
<1>3. k * WordBits \in Nat /\ q * WordBits \in Nat BY <1>0
<1>4. CASE k < q BY <1>0, <1>1, <1>3, <1>4 DEF Pos
<1>5. CASE q < k BY <1>0, <1>2, <1>3, <1>5 DEF Pos
<1>6. CASE k = q BY <1>0, <1>3, <1>6 DEF Pos
<1> QED BY <1>4, <1>5, <1>6

\* The words and masks of a stretch are those of its bits.
LEMMA StretchPlace ==
  ASSUME NEW start \in Nat, NEW nr \in Nat, NEW k \in Nat, NEW i \in Offsets
  PROVE  (k \in Touched(start, nr) /\ i \in StretchMask(k, start, nr)) <=> Pos(k, i) \in start .. start + nr - 1
<1> DEFINE end == start + nr
           s == start \div WordBits
           rs == start % WordBits
           e == end \div WordBits
           re == end % WordBits
<1>0. WordBits \in Nat \ {0} /\ i \in 0 .. WordBits - 1 BY WordAssumption DEF Offsets
<1>1. start = Pos(s, rs) /\ s \in Nat /\ rs \in Offsets BY PlaceOf
<1>2. end \in Nat OBVIOUS
<1>3. end = Pos(e, re) /\ e \in Nat /\ re \in Offsets BY <1>2, PlaceOf
<1>4. Pos(k, i) \in Nat BY PosPlace
<1>5. k \in Touched(start, nr) <=> k \in s .. e /\ nr > 0 /\ (k < e \/ re # 0) BY DEF Touched
<1>6. i \in StretchMask(k, start, nr) <=>
          /\ k < e \/ re = 0 \/ i < re
          /\ k = s => ~(i < rs)
  <2>1. i \in LastWordMask(end) <=> re = 0 \/ i < re BY <1>0, <1>3 DEF LastWordMask, LowMask, Offsets
  <2>2. i \in FirstWordMask(start) <=> ~(i < rs) BY <1>0, <1>1 DEF FirstWordMask, LowMask, Offsets
  <2>3. StretchMask(k, start, nr) = From(IF k < e THEN Offsets ELSE LastWordMask(end), k, start)
    BY DEF StretchMask
  <2>4. i \in From(IF k < e THEN Offsets ELSE LastWordMask(end), k, start) <=>
          i \in (IF k < e THEN Offsets ELSE LastWordMask(end)) /\ (k = s => i \in FirstWordMask(start))
    BY DEF From
  <2> HIDE DEF end, s, rs, e, re
  <2> QED BY <2>1, <2>2, <2>3, <2>4
<1> HIDE DEF s, rs, e, re, end
<1>7. Pos(k, i) < end <=> k < e \/ (k = e /\ i < re) BY <1>3, PosLess
<1>8. Pos(k, i) < start <=> k < s \/ (k = s /\ i < rs) BY <1>1, PosLess
<1>9. Pos(k, i) \in start .. start + nr - 1 <=> ~(Pos(k, i) < start) /\ Pos(k, i) < end
  BY <1>4 DEF end
<1>10. nr = 0 => start = end BY DEF end
<1>11. re # 0 => re > 0 BY <1>3, <1>0 DEF Offsets
<1>12. i \in Nat /\ re \in Nat /\ rs \in Nat BY <1>0, <1>1, <1>3 DEF Offsets
<1> QED BY <1>1, <1>3, <1>5, <1>6, <1>7, <1>8, <1>9, <1>10, <1>11, <1>12

\* bitmap_set and bitmap_clear change the bits of the stretch only.
LEMMA StretchMeans ==
  ASSUME NEW n \in Nat, NEW a, NEW S, Means(a, S, n), NEW start \in Nat, NEW nr \in Nat, start + nr <= n
  PROVE  /\ Means(SetStretch(a, start, nr), S \union (start .. start + nr - 1), n)
         /\ Means(ClearStretch(a, start, nr), S \ (start .. start + nr - 1), n)
         /\ Fits(a, n) => Fits(SetStretch(a, start, nr), n) /\ Fits(ClearStretch(a, start, nr), n)
<1> DEFINE range == start .. start + nr - 1
<1>0. a \in [Words(n) -> SUBSET Offsets] /\ S \subseteq 0 .. n - 1 /\ range \subseteq 0 .. n - 1
  BY DEF Means, Arrays, Word
<1>1. \A k \in Words(n), i \in Offsets :
        (k \in Touched(start, nr) /\ i \in StretchMask(k, start, nr)) <=> Pos(k, i) \in range
  BY WordsNat, StretchPlace
<1>2. \A k : StretchMask(k, start, nr) \subseteq Offsets
  <2>1. LastWordMask(start + nr) \subseteq Offsets
    <3>1. start + nr \in Nat OBVIOUS
    <3>2. (start + nr) % WordBits \in Offsets BY <3>1, PlaceOf
    <3> QED BY <3>2, WordAssumption DEF LastWordMask, LowMask, Offsets
  <2> QED BY <2>1 DEF StretchMask, From
<1>3. \A k \in Words(n), i \in Offsets : Pos(k, i) < n => (i \in a[k] <=> Pos(k, i) \in S) BY DEF Means
<1>20. \A x \in range : x < n OBVIOUS
<1> HIDE DEF range
<1>4. \A k \in Words(n), i \in Offsets : i \in SetStretch(a, start, nr)[k] <=> i \in a[k] \/ Pos(k, i) \in range
  BY <1>0, <1>1 DEF SetStretch
<1>5. \A k \in Words(n), i \in Offsets : i \in ClearStretch(a, start, nr)[k] <=> i \in a[k] /\ Pos(k, i) \notin range
  BY <1>0, <1>1 DEF ClearStretch
<1>6. SetStretch(a, start, nr) \in [Words(n) -> SUBSET Offsets] BY <1>0, <1>2 DEF SetStretch
<1>7. ClearStretch(a, start, nr) \in [Words(n) -> SUBSET Offsets] BY <1>0, <1>2 DEF ClearStretch
<1>8. Means(SetStretch(a, start, nr), S \union range, n) BY <1>0, <1>3, <1>4, <1>6 DEF Means, Arrays, Word
<1>9. Means(ClearStretch(a, start, nr), S \ range, n) BY <1>0, <1>3, <1>5, <1>7 DEF Means, Arrays, Word
<1>10. \A k \in Words(n), i \in Offsets : Pos(k, i) \in range => Pos(k, i) < n BY <1>20
<1>11. Fits(a, n) => Fits(SetStretch(a, start, nr), n)
  <2>1. \A k \in Words(n) : SetStretch(a, start, nr)[k] \subseteq Offsets BY <1>6
  <2> QED BY <2>1, <1>4, <1>10 DEF Fits
<1>12. Fits(a, n) => Fits(ClearStretch(a, start, nr), n)
  <2>1. \A k \in Words(n) : ClearStretch(a, start, nr)[k] \subseteq Offsets BY <1>7
  <2> QED BY <2>1, <1>5 DEF Fits
<1> QED BY <1>8, <1>9, <1>11, <1>12 DEF range

----------------------------------------------------------------------------
\* The inductive invariant: every array means the set beside it.
BitmapsMean ==
    /\ nbits \in 1 .. MaxBits /\ map \in [Map -> Arrays(nbits)] /\ set \in [Map -> SUBSET Universe]
    /\ \A m \in Map : Means(map[m], set[m], nbits)

\* It holds at first, whatever the unused bits are,
LEMMA BitmapsMeanInit == Init => BitmapsMean
<1> SUFFICES ASSUME Init PROVE BitmapsMean OBVIOUS
<1>0. nbits \in 1 .. MaxBits /\ nbits \in Nat /\ set = [m \in Map |-> {}] BY MaxBitsAssumption DEF Init
<1>1. PICK unused \in SUBSET (nbits .. ToLongs(nbits) * WordBits - 1) : map = [m \in Map |-> ArrayOf(unused, nbits)]
  BY DEF Init
<1>2. ArrayOf(unused, nbits) \in Arrays(nbits) BY DEF ArrayOf, Arrays, Word
<1>3. \A b \in unused : ~(b < nbits)
  <2>1. ToLongs(nbits) \in Nat BY <1>0, ZeroMeans, WordsOf
  <2> QED BY <2>1, <1>0, WordAssumption
<1>4. Means(ArrayOf(unused, nbits), {}, nbits)
  <2>1. \A k \in Words(nbits), i \in Offsets : Pos(k, i) < nbits => i \notin ArrayOf(unused, nbits)[k]
    BY <1>3 DEF ArrayOf, Pos
  <2> QED BY <2>1, <1>2 DEF Means
<1>5. map \in [Map -> Arrays(nbits)] /\ set \in [Map -> SUBSET Universe] BY <1>0, <1>1, <1>2
<1>6. \A m \in Map : Means(map[m], set[m], nbits) BY <1>0, <1>1, <1>4
<1> QED BY <1>0, <1>5, <1>6 DEF BitmapsMean

\* One array and its set are replaced together; the others keep theirs.
LEMMA BecomesMeans ==
  ASSUME BitmapsMean, NEW m \in Map, NEW words, NEW means, Means(words, means, nbits),
         Becomes(m, words, means),
         (\A x \in Map : Fits(map[x], nbits)) => Fits(words, nbits)
  PROVE  BitmapsMean' /\ CleanStaysClean
<1>0. nbits' = nbits /\ nbits \in Nat BY MaxBitsAssumption DEF Becomes, BitmapsMean
<1>1. /\ map' = [map EXCEPT ![m] = words] /\ set' = [set EXCEPT ![m] = means]
      /\ map \in [Map -> Arrays(nbits)] /\ set \in [Map -> SUBSET Universe]
      /\ words \in Arrays(nbits) /\ means \in SUBSET Universe
  BY DEF Becomes, BitmapsMean, Means, Universe
<1>2. map' \in [Map -> Arrays(nbits)] /\ set' \in [Map -> SUBSET Universe] BY <1>1
<1>3. ASSUME NEW x \in Map
      PROVE  Means(map'[x], set'[x], nbits) /\ (map'[x] = words \/ map'[x] = map[x])
  <2>1. Means(map[x], set[x], nbits) BY DEF BitmapsMean
  <2>2. CASE x = m BY <1>1, <2>2
  <2>3. CASE x # m BY <1>1, <2>1, <2>3
  <2> QED BY <2>2, <2>3
<1>4. BitmapsMean'
  <2>1. (nbits \in 1 .. MaxBits)' BY <1>0 DEF BitmapsMean
  <2>2. Universe' = Universe BY <1>0 DEF Universe
  <2>3. (map \in [Map -> Arrays(nbits)])' /\ (set \in [Map -> SUBSET Universe])' BY <1>0, <1>2, <2>2
  <2>4. (\A x \in Map : Means(map[x], set[x], nbits))' BY <1>0, <1>3
  <2> QED BY <2>1, <2>3, <2>4 DEF BitmapsMean
<1>5. \A x \in Map : Clean(map[x], nbits) <=> Fits(map[x], nbits) BY <1>0, <1>1, CleanIsFits
<1>6. \A x \in Map : Clean(map'[x], nbits) <=> Fits(map'[x], nbits) BY <1>0, <1>2, CleanIsFits
<1>7. CleanStaysClean BY <1>3, <1>5, <1>6 DEF CleanStaysClean
<1> QED BY <1>4, <1>7

\* every operation preserves it and leaves clean bitmaps clean,
LEMMA BitmapsMeanNext == BitmapsMean /\ Next => BitmapsMean' /\ CleanStaysClean
<1> SUFFICES ASSUME BitmapsMean, Next PROVE BitmapsMean' /\ CleanStaysClean OBVIOUS
<1>0. /\ nbits \in Nat \ {0} /\ Universe = 0 .. nbits - 1
      /\ \A m \in Map : Means(map[m], set[m], nbits) /\ map[m] \in Arrays(nbits)
  BY MaxBitsAssumption DEF BitmapsMean, Universe
<1>1. ASSUME NEW m \in Map, Assign(m) PROVE BitmapsMean' /\ CleanStaysClean
  <2>1. CASE Becomes(m, Zero(nbits), {}) BY <2>1, <1>0, ZeroMeans, BecomesMeans
  <2>2. CASE Becomes(m, Fill(nbits), Universe) BY <2>2, <1>0, FillMeans, BecomesMeans
  <2>3. CASE \E s \in Map : Becomes(m, map[s], set[s]) BY <2>3, <1>0, BecomesMeans
  <2> QED BY <1>1, <2>1, <2>2, <2>3 DEF Assign
<1>2. ASSUME NEW m \in Map, NEW b \in Universe, OneBit(m, b) PROVE BitmapsMean' /\ CleanStaysClean
  <2>0. /\ Means(SetBit(map[m], b), set[m] \union {b}, nbits)
        /\ Fits(map[m], nbits) => Fits(SetBit(map[m], b), nbits)
        /\ Means(ClearBit(map[m], b), set[m] \ {b}, nbits)
        /\ Fits(map[m], nbits) => Fits(ClearBit(map[m], b), nbits)
        /\ Means(ChangeBit(map[m], b), SymDiff(set[m], {b}), nbits)
        /\ Fits(map[m], nbits) => Fits(ChangeBit(map[m], b), nbits)
    BY <1>0, OneBitMeans
  <2>1. CASE Becomes(m, SetBit(map[m], b), set[m] \union {b}) BY <2>0, <2>1, BecomesMeans
  <2>2. CASE Becomes(m, ClearBit(map[m], b), set[m] \ {b}) BY <2>0, <2>2, BecomesMeans
  <2>3. CASE Becomes(m, ChangeBit(map[m], b), SymDiff(set[m], {b})) BY <2>0, <2>3, BecomesMeans
  <2> QED BY <1>2, <2>1, <2>2, <2>3 DEF OneBit
<1>3. ASSUME NEW m \in Map, NEW s \in Map, Invert(m, s) PROVE BitmapsMean' /\ CleanStaysClean
  BY <1>0, <1>3, ComplementMeans, BecomesMeans DEF Invert
<1>4. ASSUME NEW m \in Map, NEW s \in Map, NEW r \in Map, Combine(m, s, r)
      PROVE  BitmapsMean' /\ CleanStaysClean
  <2> DEFINE a == map[s]
             b == map[r]
  <2>0. /\ Means(And(a, b), set[s] \intersect set[r], nbits) /\ (Fits(a, nbits) => Fits(And(a, b), nbits))
        /\ Means(Or(a, b), set[s] \union set[r], nbits)
        /\ (Fits(a, nbits) /\ Fits(b, nbits) => Fits(Or(a, b), nbits))
        /\ Means(Xor(a, b), SymDiff(set[s], set[r]), nbits)
        /\ (Fits(a, nbits) /\ Fits(b, nbits) => Fits(Xor(a, b), nbits))
        /\ Means(AndNot(a, b), set[s] \ set[r], nbits) /\ (Fits(a, nbits) => Fits(AndNot(a, b), nbits))
    BY <1>0, CombineMeans
  <2>1. CASE Becomes(m, And(a, b), set[s] \intersect set[r]) BY <2>0, <2>1, BecomesMeans
  <2>2. CASE Becomes(m, Or(a, b), set[s] \union set[r]) BY <2>0, <2>2, BecomesMeans
  <2>3. CASE Becomes(m, Xor(a, b), SymDiff(set[s], set[r])) BY <2>0, <2>3, BecomesMeans
  <2>4. CASE Becomes(m, AndNot(a, b), set[s] \ set[r]) BY <2>0, <2>4, BecomesMeans
  <2> QED BY <1>4, <2>1, <2>2, <2>3, <2>4 DEF Combine
<1>5. ASSUME NEW m \in Map, NEW s \in Map, NEW by \in 0 .. nbits, Shift(m, s, by)
      PROVE  BitmapsMean' /\ CleanStaysClean
  <2> DEFINE right == ShiftRight(map[m], map[s], m = s, by, nbits)
             left == ShiftLeft(map[m], map[s], m = s, by, nbits)
             down == {b \in Universe : b + by \in set[s]}
             up == {b \in Universe : b - by \in set[s]}
  <2>0. (m = s) \in BOOLEAN /\ (m = s => map[m] = map[s]) OBVIOUS
  <2>1. Means(right, down, nbits) /\ Fits(right, nbits) BY <1>0, <2>0, ShiftRightMeans
  <2>2. Means(left, up, nbits) /\ Fits(left, nbits) BY <1>0, <2>0, ShiftLeftMeans
  <2>3. Becomes(m, right, down) \/ Becomes(m, left, up) BY <1>5 DEF Shift
  <2> HIDE DEF right, left, down, up
  <2> QED BY <2>1, <2>2, <2>3, BecomesMeans
<1>6. ASSUME NEW m \in Map, NEW s \in Map, NEW by \in 0 .. nbits, SmallShift(m, s, by)
      PROVE  BitmapsMean' /\ CleanStaysClean
  <2> DEFINE words == SmallShiftRight(map[s], by)
             down == {b \in Universe : b + by \in set[s]}
  <2>1. by \in Nat /\ by < WordBits /\ nbits <= WordBits /\ Fits(map[s], nbits)
    BY <1>0, <1>6, CleanIsFits DEF SmallShift
  <2>2. Means(words, down, nbits) /\ Fits(words, nbits) BY <1>0, <2>1, SmallShiftMeans
  <2>3. Becomes(m, words, down) BY <1>6 DEF SmallShift
  <2> HIDE DEF words, down
  <2> QED BY <2>2, <2>3, BecomesMeans
<1>7. ASSUME NEW m \in Map, NEW start \in 0 .. nbits, NEW nr \in 0 .. nbits,
             start + nr <= nbits, Stretch(m, start, nr)
      PROVE  BitmapsMean' /\ CleanStaysClean
  <2> DEFINE ones == SetStretch(map[m], start, nr)
             zeros == ClearStretch(map[m], start, nr)
             range == start .. start + nr - 1
  <2>1. start \in Nat /\ nr \in Nat BY <1>0
  <2>2. /\ Means(ones, set[m] \union range, nbits) /\ Means(zeros, set[m] \ range, nbits)
        /\ Fits(map[m], nbits) => Fits(ones, nbits) /\ Fits(zeros, nbits)
    BY <1>0, <1>7, <2>1, StretchMeans
  <2>3. Becomes(m, ones, set[m] \union range) \/ Becomes(m, zeros, set[m] \ range) BY <1>7 DEF Stretch
  <2> HIDE DEF ones, zeros, range
  <2> QED BY <2>2, <2>3, BecomesMeans
<1> QED BY <1>1, <1>2, <1>3, <1>4, <1>5, <1>6, <1>7 DEF Next

\* and so does a step in which nothing happens.
LEMMA BitmapsMeanStep ==
  ASSUME BitmapsMean, [Next]_vars PROVE BitmapsMean' /\ [CleanStaysClean]_vars
<1>1. CASE UNCHANGED vars BY <1>1 DEF BitmapsMean, vars, Universe
<1>2. CASE Next BY <1>2, BitmapsMeanNext
<1> QED BY <1>1, <1>2

----------------------------------------------------------------------------
\* Min and Max of the community modules, by what they are.
LEMMA MinIs ==
  ASSUME NEW S, S \subseteq Nat, NEW x \in S, \A y \in S : x <= y
  PROVE  Min(S) = x
<1>1. \E z \in S : \A y \in S : z <= y OBVIOUS
<1>2. Min(S) \in S /\ \A y \in S : Min(S) <= y BY <1>1, Zenon DEF Min
<1> DEFINE m == Min(S)
<1>3. m \in S /\ m \in Nat /\ x \in Nat BY <1>2
<1>4. m <= x /\ x <= m BY <1>2
<1> HIDE DEF m
<1> QED BY <1>3, <1>4 DEF m

\* The same of Max,
LEMMA MaxIs ==
  ASSUME NEW S, S \subseteq Nat, NEW x \in S, \A y \in S : y <= x
  PROVE  Max(S) = x
<1>1. \E z \in S : \A y \in S : z >= y OBVIOUS
<1>2. Max(S) \in S /\ \A y \in S : Max(S) >= y BY <1>1, Zenon DEF Max
<1> DEFINE m == Max(S)
<1>3. m \in S /\ m \in Nat /\ x \in Nat BY <1>2
<1>4. m >= x /\ x >= m BY <1>2
<1> HIDE DEF m
<1> QED BY <1>3, <1>4 DEF m

\* which both exist,
LEMMA MinIsLeast ==
  ASSUME NEW S, S \subseteq Nat, S # {}
  PROVE  Min(S) \in S /\ \A y \in S : Min(S) <= y
<1>1. PICK x \in S : \A y \in S : x <= y BY NatMin
<1> QED BY <1>1, MinIs

\* Max for sets that are bounded.
LEMMA MaxIsGreatest ==
  ASSUME NEW n \in Nat, NEW S, S \subseteq 0 .. n, S # {}
  PROVE  Max(S) \in S /\ \A y \in S : y <= Max(S)
<1> DEFINE T == {n - y : y \in S}
<1>1. T \subseteq Nat /\ T # {}
  <2>1. \A y \in S : n - y \in Nat OBVIOUS
  <2>2. PICK y \in S : TRUE OBVIOUS
  <2>3. n - y \in T OBVIOUS
  <2> QED BY <2>1, <2>3
<1>2. PICK t \in T : \A u \in T : t <= u
  <2> HIDE DEF T
  <2> QED BY <1>1, NatMin
<1>3. n - t \in S /\ t \in Nat BY <1>1, <1>2
<1>4. \A y \in S : y <= n - t BY <1>2, <1>3
<1>5. S \subseteq Nat OBVIOUS
<1> DEFINE x == n - t
<1>6. x \in S /\ \A y \in S : y <= x BY <1>3, <1>4
<1> HIDE DEF x
<1>7. Max(S) = x BY <1>5, <1>6, MaxIs
<1> QED BY <1>6, <1>7

\* The words that a loop looks at, masked, are those of the set T: then the
\* loop finds the first of T, or the last.
Sees(seen, T, n) ==
    /\ DOMAIN seen \subseteq Words(n) /\ \A k \in DOMAIN seen : seen[k] \subseteq Offsets
    /\ T \subseteq 0 .. n - 1
    /\ \A k \in Words(n), i \in Offsets : Pos(k, i) \in T <=> k \in DOMAIN seen /\ i \in seen[k]

\* A loop that looks at the words of T sees a bit when T has one.
LEMMA SeesHits ==
  ASSUME NEW n \in Nat, NEW seen, NEW T, Sees(seen, T, n)
  PROVE  /\ {k \in DOMAIN seen : seen[k] # {}} = {} <=> T = {}
         /\ \A b \in T : /\ b \div WordBits \in {k \in DOMAIN seen : seen[k] # {}}
                         /\ b % WordBits \in seen[b \div WordBits]
<1>1. ASSUME NEW b \in T PROVE b \div WordBits \in DOMAIN seen /\ b % WordBits \in seen[b \div WordBits]
  <2>1. b \in 0 .. n - 1 BY DEF Sees
  <2>2. b \div WordBits \in Words(n) /\ b % WordBits \in Offsets /\ b = Pos(b \div WordBits, b % WordBits)
    BY <2>1, BitPlace
  <2> QED BY <2>2 DEF Sees
<1>2. ASSUME NEW k \in DOMAIN seen, NEW i \in seen[k] PROVE Pos(k, i) \in T BY DEF Sees
<1> QED BY <1>1, <1>2

\* The first word with a bit has the first bit of T ...
LEMMA EarliestIs ==
  ASSUME NEW n \in Nat, NEW seen, NEW T, Sees(seen, T, n)
  PROVE  Earliest(seen, n) = IF T = {} THEN n ELSE Min(T)
<1> DEFINE hits == {k \in DOMAIN seen : seen[k] # {}}
           q == Min(hits)
           j == Min(seen[q])
<1>1. CASE T = {} BY <1>1, SeesHits DEF Earliest
<1>2. CASE T # {}
  <2>1. hits # {} /\ hits \subseteq Nat BY <1>2, SeesHits, WordsNat DEF Sees
  <2>2. q \in hits /\ \A k \in hits : q <= k
    <3> HIDE DEF hits
    <3> QED BY <2>1, MinIsLeast
  <2>3. seen[q] \subseteq Offsets /\ seen[q] # {} BY <2>2 DEF Sees
  <2>4. seen[q] \subseteq Nat
    <3> HIDE DEF q
    <3>1. Offsets \subseteq Nat BY WordAssumption DEF Offsets
    <3> QED BY <2>3, <3>1
  <2>5. j \in seen[q] /\ \A i \in seen[q] : j <= i
    <3> HIDE DEF q
    <3> QED BY <2>3, <2>4, MinIsLeast
  <2>6. q \in Nat /\ j \in Offsets /\ q \in Words(n) BY <2>1, <2>2, <2>3, <2>5 DEF Sees
  <2>7. Pos(q, j) \in T /\ T \subseteq Nat BY <2>2, <2>5, <2>6 DEF Sees
  <2>8. ASSUME NEW b \in T PROVE Pos(q, j) <= b
    <3>1. b \div WordBits \in hits /\ b % WordBits \in seen[b \div WordBits] BY SeesHits
    <3>2. b \in Nat BY <2>7
    <3>3. b = Pos(b \div WordBits, b % WordBits) /\ b \div WordBits \in Nat /\ b % WordBits \in Offsets
      BY <3>2, PlaceOf
    <3>4. q <= b \div WordBits /\ (b \div WordBits = q => j <= b % WordBits) BY <2>2, <2>5, <3>1
    <3>5. b < Pos(q, j) <=> b \div WordBits < q \/ (b \div WordBits = q /\ b % WordBits < j)
      <4> DEFINE x == b \div WordBits
                 y == b % WordBits
      <4> HIDE DEF x, y, q, j
      <4> QED BY <3>3, <2>6, PosLess DEF x, y
    <3>6. ~(b < Pos(q, j)) BY <3>3, <3>4, <3>5, <2>6, WordAssumption DEF Offsets
    <3> DEFINE p == Pos(q, j)
    <3>7. p \in Nat /\ ~(b < p) BY <3>6, <2>7
    <3> HIDE DEF p
    <3>8. p <= b BY <3>2, <3>7
    <3> QED BY <3>8 DEF p
  <2>9. Min(T) = Pos(q, j)
    <3> HIDE DEF q, j
    <3> QED BY <2>7, <2>8, MinIs
  <2>10. Earliest(seen, n) = Pos(q, j) BY <2>1 DEF Earliest, Pos
  <2> QED BY <1>2, <2>9, <2>10
<1> QED BY <1>1, <1>2

\* ... and the last one the last.
LEMMA LatestIs ==
  ASSUME NEW n \in Nat, NEW seen, NEW T, Sees(seen, T, n)
  PROVE  Latest(seen, n) = IF T = {} THEN n ELSE Max(T)
<1> DEFINE hits == {k \in DOMAIN seen : seen[k] # {}}
           q == Max(hits)
           j == Max(seen[q])
<1>1. CASE T = {} BY <1>1, SeesHits DEF Latest
<1>2. CASE T # {}
  <2>1. hits # {} /\ hits \subseteq 0 .. ToLongs(n) /\ ToLongs(n) \in Nat
    <3>1. ToLongs(n) \in Nat BY ZeroMeans, WordsOf
    <3>2. Words(n) \subseteq 0 .. ToLongs(n) BY <3>1 DEF Words
    <3>3. hits # {} /\ hits \subseteq Words(n) BY <1>2, SeesHits DEF Sees
    <3> QED BY <3>1, <3>2, <3>3
  <2>2. q \in hits /\ \A k \in hits : k <= q
    <3> HIDE DEF hits
    <3> QED BY <2>1, MaxIsGreatest
  <2>3. seen[q] \subseteq Offsets /\ seen[q] # {} BY <2>2 DEF Sees
  <2>4. seen[q] \subseteq 0 .. WordBits /\ WordBits \in Nat
    <3> HIDE DEF q
    <3>1. Offsets \subseteq 0 .. WordBits /\ WordBits \in Nat BY WordAssumption DEF Offsets
    <3> QED BY <2>3, <3>1
  <2>5. j \in seen[q] /\ \A i \in seen[q] : i <= j
    <3> HIDE DEF q
    <3> QED BY <2>3, <2>4, MaxIsGreatest
  <2>6. q \in Nat /\ j \in Offsets /\ q \in Words(n) BY <2>1, <2>2, <2>3, <2>5 DEF Sees
  <2>7. Pos(q, j) \in T /\ T \subseteq Nat BY <2>2, <2>5, <2>6 DEF Sees
  <2>8. ASSUME NEW b \in T PROVE b <= Pos(q, j)
    <3>1. b \div WordBits \in hits /\ b % WordBits \in seen[b \div WordBits] BY SeesHits
    <3>2. b \in Nat BY <2>7
    <3>3. b = Pos(b \div WordBits, b % WordBits) /\ b \div WordBits \in Nat /\ b % WordBits \in Offsets
      BY <3>2, PlaceOf
    <3>4. b \div WordBits <= q /\ (b \div WordBits = q => b % WordBits <= j) BY <2>2, <2>5, <3>1
    <3>5. Pos(q, j) < b <=> q < b \div WordBits \/ (q = b \div WordBits /\ j < b % WordBits)
      <4> DEFINE x == b \div WordBits
                 y == b % WordBits
      <4> HIDE DEF x, y, q, j
      <4> QED BY <3>3, <2>6, PosLess DEF x, y
    <3>6. ~(Pos(q, j) < b) BY <3>3, <3>4, <3>5, <2>6, WordAssumption DEF Offsets
    <3> DEFINE p == Pos(q, j)
    <3>7. p \in Nat /\ ~(p < b) BY <3>6, <2>7
    <3> HIDE DEF p
    <3>8. b <= p BY <3>2, <3>7
    <3> QED BY <3>8 DEF p
  <2>9. Max(T) = Pos(q, j)
    <3> HIDE DEF q, j
    <3> QED BY <2>7, <2>8, MaxIs
  <2>10. Latest(seen, n) = Pos(q, j) BY <2>1 DEF Latest, Pos
  <2> QED BY <1>2, <2>9, <2>10
<1> QED BY <1>1, <1>2

\* A smaller size has some of the words.
LEMMA WordsWithin == ASSUME NEW n \in Nat, NEW end \in 0 .. n PROVE Words(end) \subseteq Words(n)
<1>0. end \in Nat /\ end <= n OBVIOUS
<1>1. ASSUME NEW k \in Words(end) PROVE k \in Words(n)
  <2>1. k \in Nat BY <1>0, WordsNat
  <2>2. k * WordBits < end /\ k * WordBits \in Nat BY <1>0, <2>1, WordsOf, WordAssumption
  <2>3. k * WordBits < n BY <1>0, <2>2
  <2> QED BY <2>1, <2>3, WordsOf
<1> QED BY <1>1

\* The masks of a search that begins at from and ends before end.
LEMMA SearchMasks ==
  ASSUME NEW n \in Nat, NEW a \in Arrays(n), NEW Q, Q \subseteq 0 .. n - 1, NEW w \in [Words(n) -> SUBSET Offsets],
         \A k \in Words(n), i \in Offsets : Pos(k, i) < n => (i \in w[k] <=> Pos(k, i) \in Q),
         NEW end \in 0 .. n, NEW from \in Nat, from < end
  PROVE  Sees([k \in from \div WordBits .. ToLongs(end) - 1 |-> Trimmed(From(w[k], k, from), k, end)],
              {b \in Q : b >= from /\ b < end}, end)
<1> DEFINE s == from \div WordBits
           rs == from % WordBits
           D == s .. ToLongs(end) - 1
           seen == [k \in D |-> Trimmed(From(w[k], k, from), k, end)]
           T == {b \in Q : b >= from /\ b < end}
<1>0. end \in Nat /\ end <= n /\ ToLongs(end) \in Nat BY ZeroMeans, WordsOf
<1>1. from = Pos(s, rs) /\ s \in Nat /\ rs \in Offsets BY PlaceOf
<1>2. D \subseteq Words(end) /\ D \subseteq Nat BY <1>0, <1>1 DEF Words
<1>3. Words(end) \subseteq Words(n) BY WordsWithin
<1> HIDE DEF s, rs
<1>4. \A k \in D : seen[k] \subseteq Offsets BY <1>2, <1>3 DEF Trimmed, From
<1>5. T \subseteq 0 .. end - 1
  <2>1. ASSUME NEW b \in T PROVE b \in 0 .. end - 1
    <3>1. b \in Nat /\ b < end OBVIOUS
    <3> QED BY <1>0, <3>1
  <2> QED BY <2>1
<1>6. ASSUME NEW k \in Words(end), NEW i \in Offsets PROVE Pos(k, i) \in T <=> k \in DOMAIN seen /\ i \in seen[k]
  <2>1. k \in Nat /\ k * WordBits < end /\ k < ToLongs(end) /\ k \in Words(n)
    BY <1>0, <1>3, WordsNat, WordsOf
  <2>2. Pos(k, i) \in Nat BY <2>1, PosPlace
  <2>3. Pos(k, i) < from <=> k < s \/ (k = s /\ i < rs) BY <1>1, <2>1, PosLess
  <2>4. i \in Trimmed(From(w[k], k, from), k, end) <=> i \in From(w[k], k, from) /\ Pos(k, i) < end
    BY <1>0, <2>1, TrimmedBits
  <2>5. i \in From(w[k], k, from) <=> i \in w[k] /\ (k = s => ~(i < rs))
    <3>1. i \in FirstWordMask(from) <=> ~(i < rs)
      BY <1>1, WordAssumption DEF FirstWordMask, LowMask, Offsets, rs
    <3> QED BY <3>1 DEF From, s
  <2>6. Pos(k, i) < end => Pos(k, i) < n BY <1>0, <2>2
  <2>7. Pos(k, i) \in T <=> Pos(k, i) \in Q /\ ~(Pos(k, i) < from) /\ Pos(k, i) < end
    <3> DEFINE p == Pos(k, i)
    <3>1. p \in Nat BY <2>2
    <3> HIDE DEF p
    <3>2. p >= from <=> ~(p < from) BY <3>1
    <3>3. p \in T <=> p \in Q /\ p >= from /\ p < end OBVIOUS
    <3> QED BY <3>2, <3>3 DEF p
  <2>8. CASE k < s BY <2>3, <2>7, <2>8, <1>1, <2>1
  <2>9. CASE ~(k < s)
    <3>1. k \in D BY <2>1, <2>9, <1>1, <1>0
    <3>2. seen[k] = Trimmed(From(w[k], k, from), k, end) BY <3>1
    <3> HIDE DEF seen, T
    <3>3. k \in DOMAIN seen BY <3>1 DEF seen
    <3> QED BY <3>2, <3>3, <2>1, <2>3, <2>4, <2>5, <2>6, <2>7, <2>9
  <2> QED BY <2>8, <2>9
<1>7. DOMAIN seen = D OBVIOUS
<1> HIDE DEF seen, T, D
<1>8. Sees(seen, T, end) BY <1>2, <1>4, <1>5, <1>6, <1>7 DEF Sees
<1> QED BY <1>8 DEF seen, T, D, s

Zeros(a, n) == [k \in Words(n) |-> Offsets \ a[k]]

\* The complemented words mean the other bits.
LEMMA ZerosMean ==
  ASSUME NEW n \in Nat, NEW a, NEW S, Means(a, S, n)
  PROVE  Means(Zeros(a, n), (0 .. n - 1) \ S, n)
<1>1. \A k \in Words(n), i \in Offsets : Pos(k, i) < n => Pos(k, i) \in 0 .. n - 1
  BY WordsNat, PosPlace
<1>2. Zeros(a, n) \in Arrays(n) BY DEF Zeros, Arrays, Word
<1>3. \A k \in Words(n), i \in Offsets : i \in Zeros(a, n)[k] <=> i \notin a[k] BY DEF Zeros
<1> QED BY <1>1, <1>2, <1>3 DEF Means

Between(Q, from, end) == {b \in Q : b >= from /\ b < end}
LeastOr(T, else) == IF T = {} THEN else ELSE Min(T)

\* find_next_bit and find_next_zero_bit find the next member of the set, or
\* of the others, below the size.
LEMMA NextIs ==
  ASSUME NEW n \in Nat, NEW a, NEW S, Means(a, S, n), NEW end \in 0 .. n, NEW from \in Nat
  PROVE  /\ FindNextBit(a, end, from) = LeastOr(Between(S, from, end), end)
         /\ FindNextZeroBit(a, end, from) = LeastOr(Between((0 .. n - 1) \ S, from, end), end)
<1> DEFINE Z == (0 .. n - 1) \ S
           T == Between(S, from, end)
           U == Between(Z, from, end)
<1>0. a \in Arrays(n) /\ S \subseteq 0 .. n - 1 /\ end \in Nat /\ end <= n BY DEF Means
<1>1. CASE from >= end
  <2>0. \A b \in 0 .. n - 1 : b >= from => ~(b < end) BY <1>1, <1>0
  <2>1. T = {} /\ U = {} BY <2>0, <1>0 DEF Between
  <2> QED BY <1>1, <2>1 DEF FindNextBit, FindNextZeroBit, LeastOr
<1>2. CASE from < end
  <2> DEFINE D == from \div WordBits .. ToLongs(end) - 1
             ones == [k \in D |-> Trimmed(From(a[k], k, from), k, end)]
             zeros == [k \in D |-> Trimmed(From(Offsets \ a[k], k, from), k, end)]
             zeroes == [k \in D |-> Trimmed(From(Zeros(a, n)[k], k, from), k, end)]
  <2>1. Sees(ones, T, end)
    <3>1. a \in [Words(n) -> SUBSET Offsets] BY <1>0 DEF Arrays, Word
    <3>2. \A k \in Words(n), i \in Offsets : Pos(k, i) < n => (i \in a[k] <=> Pos(k, i) \in S) BY DEF Means
    <3> QED BY <1>0, <1>2, <3>1, <3>2, SearchMasks DEF Between
  <2>2. Sees(zeroes, U, end)
    <3>0. Means(Zeros(a, n), Z, n) BY ZerosMean
    <3> HIDE DEF Z
    <3>1. Zeros(a, n) \in [Words(n) -> SUBSET Offsets] /\ Zeros(a, n) \in Arrays(n) /\ Z \subseteq 0 .. n - 1
      BY <3>0 DEF Arrays, Word, Means
    <3>2. \A k \in Words(n), i \in Offsets : Pos(k, i) < n => (i \in Zeros(a, n)[k] <=> Pos(k, i) \in Z)
      BY <3>0 DEF Means
    <3> QED BY <1>0, <1>2, <3>1, <3>2, SearchMasks DEF Between
  <2>3. zeroes = zeros
    <3>1. \A k \in D : k \in Words(n)
      <4>1. from \div WordBits \in Nat BY PlaceOf
      <4>2. ToLongs(end) \in Nat BY <1>0, ZeroMeans, WordsOf
      <4>3. D \subseteq Words(end) BY <4>1, <4>2 DEF Words
      <4> QED BY <4>3, WordsWithin
    <3> HIDE DEF D
    <3>2. \A k \in D : Zeros(a, n)[k] = Offsets \ a[k] BY <3>1 DEF Zeros
    <3> QED BY <3>2
  <2>4. ~(from >= end) BY <1>2, <1>0
  <2>5. FindNextBit(a, end, from) = Earliest(ones, end) BY <2>4 DEF FindNextBit
  <2>6. FindNextZeroBit(a, end, from) = Earliest(zeros, end) BY <2>4 DEF FindNextZeroBit
  <2> HIDE DEF ones, zeros, zeroes, T, U
  <2>7. Earliest(ones, end) = IF T = {} THEN end ELSE Min(T) BY <2>1, <1>0, EarliestIs
  <2>8. Earliest(zeros, end) = IF U = {} THEN end ELSE Min(U) BY <2>2, <2>3, <1>0, EarliestIs
  <2> QED BY <2>5, <2>6, <2>7, <2>8 DEF T, U, LeastOr
<1> QED BY <1>0, <1>1, <1>2

\* The searches that begin at the first word look at every one.
LEMMA WholeMasks ==
  ASSUME NEW n \in Nat, NEW a, NEW S, Means(a, S, n)
  PROVE  Sees([k \in Words(n) |-> Trimmed(a[k], k, n)], S, n)
<1> DEFINE seen == [k \in Words(n) |-> Trimmed(a[k], k, n)]
<1>0. a \in [Words(n) -> SUBSET Offsets] /\ S \subseteq 0 .. n - 1 BY DEF Means, Arrays, Word
<1>1. \A k \in Words(n) : seen[k] \subseteq Offsets BY <1>0 DEF Trimmed
<1>2. ASSUME NEW k \in Words(n), NEW i \in Offsets PROVE Pos(k, i) \in S <=> i \in seen[k]
  <2>1. k \in Nat /\ k * WordBits < n BY WordsNat, WordsOf
  <2>2. i \in Trimmed(a[k], k, n) <=> i \in a[k] /\ Pos(k, i) < n BY <2>1, TrimmedBits
  <2>3. \A x \in S : x < n BY <1>0
  <2> QED BY <2>2, <2>3 DEF Means
<1> QED BY <1>0, <1>1, <1>2 DEF Sees

\* find_first_bit, find_first_zero_bit and find_last_bit.
LEMMA FirstAndLastAre ==
  ASSUME NEW n \in Nat, NEW a, NEW S, Means(a, S, n)
  PROVE  LET Z == (0 .. n - 1) \ S
         IN  /\ FindFirstBit(a, n) = IF S = {} THEN n ELSE Min(S)
             /\ FindFirstZeroBit(a, n) = IF Z = {} THEN n ELSE Min(Z)
             /\ FindLastBit(a, n) = IF S = {} THEN n ELSE Max(S)
<1> DEFINE Z == (0 .. n - 1) \ S
           zeros == [k \in Words(n) |-> Trimmed(Offsets \ a[k], k, n)]
<1>1. Sees([k \in Words(n) |-> Trimmed(a[k], k, n)], S, n) BY WholeMasks
<1>2. Sees([k \in Words(n) |-> Trimmed(Zeros(a, n)[k], k, n)], Z, n)
  <2>1. Means(Zeros(a, n), Z, n) BY ZerosMean
  <2> QED BY <2>1, WholeMasks
<1>3. [k \in Words(n) |-> Trimmed(Zeros(a, n)[k], k, n)] = zeros BY DEF Zeros
<1> HIDE DEF Z
<1>4. FindFirstBit(a, n) = IF S = {} THEN n ELSE Min(S) BY <1>1, EarliestIs DEF FindFirstBit
<1>5. FindLastBit(a, n) = IF S = {} THEN n ELSE Max(S) BY <1>1, LatestIs DEF FindLastBit
<1>6. FindFirstZeroBit(a, n) = IF Z = {} THEN n ELSE Min(Z)
  BY <1>2, <1>3, EarliestIs DEF FindFirstZeroBit
<1> QED BY <1>4, <1>5, <1>6 DEF Z

\* The two halves of NextIs, to be cited.
LEMMA NextBitIs ==
  ASSUME NEW n \in Nat, NEW a, NEW S, Means(a, S, n), NEW end \in 0 .. n, NEW from \in Nat
  PROVE  FindNextBit(a, end, from) = LeastOr(Between(S, from, end), end)
<1> DEFINE Z == (0 .. n - 1) \ S
<1>1. /\ FindNextBit(a, end, from) = LeastOr(Between(S, from, end), end)
      /\ FindNextZeroBit(a, end, from) = LeastOr(Between(Z, from, end), end)
  BY NextIs
<1> QED BY <1>1

\* The other half.
LEMMA NextZeroBitIs ==
  ASSUME NEW n \in Nat, NEW a, NEW S, Means(a, S, n), NEW end \in 0 .. n, NEW from \in Nat
  PROVE  FindNextZeroBit(a, end, from) = LeastOr(Between((0 .. n - 1) \ S, from, end), end)
<1> DEFINE Z == (0 .. n - 1) \ S
<1>1. /\ FindNextBit(a, end, from) = LeastOr(Between(S, from, end), end)
      /\ FindNextZeroBit(a, end, from) = LeastOr(Between(Z, from, end), end)
  BY NextIs
<1> QED BY <1>1

\* The searches agree with the sets.
LEMMA FindsAreRight == BitmapsMean => FindsAgree
<1> SUFFICES ASSUME BitmapsMean, NEW m \in Map
             PROVE  LET a == map[m]
                        ones == set[m]
                        zeros == Universe \ ones
                    IN  /\ FindFirstBit(a, nbits) = Among(ones) /\ FindFirstZeroBit(a, nbits) = Among(zeros)
                        /\ FindLastBit(a, nbits) = (IF ones = {} THEN nbits ELSE Max(ones))
                        /\ \A i \in 0 .. nbits :
                              /\ FindNextBit(a, nbits, i) = Among({b \in ones : b >= i})
                              /\ FindNextZeroBit(a, nbits, i) = Among({b \in zeros : b >= i})
  BY DEF FindsAgree
<1> DEFINE a == map[m]
           ones == set[m]
           zeros == Universe \ ones
<1>0. nbits \in Nat /\ Means(a, ones, nbits) /\ Universe = 0 .. nbits - 1 /\ ones \subseteq Universe
  BY MaxBitsAssumption DEF BitmapsMean, Universe, Means
<1> HIDE DEF a, ones
<1>1. FindFirstBit(a, nbits) = Among(ones) /\ FindFirstZeroBit(a, nbits) = Among(zeros)
      /\ FindLastBit(a, nbits) = (IF ones = {} THEN nbits ELSE Max(ones))
  BY <1>0, FirstAndLastAre DEF Among
<1>2. ASSUME NEW i \in 0 .. nbits
      PROVE  /\ FindNextBit(a, nbits, i) = Among({b \in ones : b >= i})
             /\ FindNextZeroBit(a, nbits, i) = Among({b \in zeros : b >= i})
  <2>0. \A b \in Universe : b < nbits BY <1>0
  <2>1. {b \in ones : b >= i /\ b < nbits} = {b \in ones : b >= i} BY <2>0, <1>0
  <2>2. {b \in zeros : b >= i /\ b < nbits} = {b \in zeros : b >= i} BY <2>0, <1>0
  <2>3. i \in Nat /\ nbits \in 0 .. nbits BY <1>0
  <2> DEFINE T == Between(ones, i, nbits)
             U == Between((0 .. nbits - 1) \ ones, i, nbits)
  <2>4. FindNextBit(a, nbits, i) = LeastOr(T, nbits) /\ FindNextZeroBit(a, nbits, i) = LeastOr(U, nbits)
    <3>1. nbits \in Nat /\ Means(a, ones, nbits) BY <1>0
    <3> QED BY <3>1, <2>3, NextBitIs, NextZeroBitIs
  <2>6. T = {b \in ones : b >= i} /\ U = {b \in zeros : b >= i} BY <2>1, <2>2, <1>0 DEF Between
  <2> HIDE DEF T, U, zeros
  <2> QED BY <2>4, <2>6 DEF Among, LeastOr
<1> QED BY <1>1, <1>2 DEF a, ones

----------------------------------------------------------------------------

\* A bitmap is empty when its set is, whatever the unused bits are.
LEMMA EmptyIs ==
  ASSUME NEW n \in Nat, NEW a, NEW S, Means(a, S, n)
  PROVE  EmptyMap(a, n) <=> S = {}
<1> DEFINE seen == [k \in Words(n) |-> Trimmed(a[k], k, n)]
<1>1. Sees(seen, S, n) BY WholeMasks
<1>2. EmptyMap(a, n) <=> {k \in DOMAIN seen : seen[k] # {}} = {} BY DEF EmptyMap
<1> HIDE DEF seen
<1> QED BY <1>1, <1>2, SeesHits

\* What a bitmap weighs is the sum over its words, in whatever order.
Weighed(a, n) ==
    LET sum[s \in SUBSET Words(n)] ==
            IF s = {} THEN 0
            ELSE LET x == CHOOSE y \in s : TRUE IN Cardinality(Trimmed(a[x], x, n)) + sum[s \ {x}]
    IN  sum

\* The sum of the bits in every word is the number of members.
LEMMA WeightIs ==
  ASSUME NEW n \in Nat, NEW a, NEW S, Means(a, S, n)
  PROVE  Weight(a, n) = Cardinality(S)
<1> DEFINE K == Words(n)
           w == Weighed(a, n)
           ones(x) == Trimmed(a[x], x, n)
           In(s) == {b \in S : b \div WordBits \in s}
           g == [s \in SUBSET K |-> Cardinality(In(s))]
           any(s) == CHOOSE y \in s : TRUE
           seen == [k \in K |-> ones(k)]
<1>0. S \subseteq 0 .. n - 1 /\ S \subseteq Nat BY DEF Means
<1>1. IsFiniteSet(K) /\ IsFiniteSet(S) /\ IsFiniteSet(Offsets)
  <2>1. ToLongs(n) \in Nat BY ZeroMeans, WordsOf
  <2>2. IsFiniteSet(0 .. n - 1) /\ IsFiniteSet(0 .. WordBits - 1) /\ IsFiniteSet(0 .. ToLongs(n) - 1)
    <3>1. ASSUME NEW m \in Nat PROVE IsFiniteSet(0 .. m - 1)
      <4>1. 0 \in Int /\ m - 1 \in Int OBVIOUS
      <4> QED BY <4>1, FS_Interval
    <3> QED BY <2>1, <3>1, WordAssumption
  <2> QED BY <1>0, <2>2, FS_Subset DEF Words, Offsets
<1>2. Sees(seen, S, n) BY WholeMasks
<1>3. ASSUME NEW s \in SUBSET K, NEW x \in s
      PROVE  /\ Cardinality(In(s)) = Cardinality(ones(x)) + Cardinality(In(s \ {x}))
             /\ Cardinality(In(s)) \in Nat
  <2> DEFINE P == {b \in S : b \div WordBits = x}
             Q == In(s \ {x})
             f == [b \in P |-> b % WordBits]
  <2>1. In(s) = P \union Q /\ P \intersect Q = {} OBVIOUS
  <2>2. IsFiniteSet(P) /\ IsFiniteSet(Q) /\ IsFiniteSet(In(s))
    <3>1. P \in SUBSET S /\ Q \in SUBSET S /\ In(s) \in SUBSET S OBVIOUS
    <3> HIDE DEF P, Q, In
    <3> QED BY <1>1, <3>1, FS_Subset
  <2>3. Cardinality(In(s)) = Cardinality(P) + Cardinality(Q)
    <3>1. Cardinality(P \intersect Q) = 0 BY <2>1, FS_EmptySet
    <3>2. Cardinality(P) \in Nat /\ Cardinality(Q) \in Nat BY <2>2, FS_CardinalityType
    <3> HIDE DEF P, Q, In
    <3> QED BY <2>1, <2>2, <3>1, <3>2, FS_Union
  <2>4. Cardinality(P) = Cardinality(ones(x))
    <3>0. x \in K /\ x \in Nat BY WordsNat
    <3>1. ASSUME NEW b \in P
          PROVE  b % WordBits \in Offsets /\ b = Pos(x, b % WordBits) /\ b % WordBits \in ones(x)
      <4>1. b \in Nat /\ b \div WordBits = x /\ b \in S BY <1>0
      <4>2. b = Pos(x, b % WordBits) /\ b % WordBits \in Offsets BY <4>1, PlaceOf
      <4>3. b % WordBits \in seen[x] BY <3>0, <4>1, <4>2, <1>2 DEF Sees
      <4> QED BY <3>0, <4>2, <4>3
    <3>2. ASSUME NEW i \in ones(x) PROVE Pos(x, i) \in P /\ Pos(x, i) % WordBits = i
      <4>1. seen[x] = ones(x) /\ x \in DOMAIN seen BY <3>0
      <4> HIDE DEF seen, ones
      <4>2. i \in Offsets BY <4>1, <1>2 DEF Sees
      <4>3. Pos(x, i) \in S BY <3>0, <4>1, <4>2, <1>2 DEF Sees
      <4> QED BY <3>0, <4>2, <4>3, PosPlace
    <3> HIDE DEF ones
    <3>3. f \in [P -> ones(x)] BY <3>1
    <3>4. \A b, c \in P : f[b] = f[c] => b = c
      <4> TAKE b, c \in P
      <4>1. f[b] = b % WordBits /\ f[c] = c % WordBits OBVIOUS
      <4> HIDE DEF P, f
      <4> QED BY <3>1, <4>1
    <3>5. \A i \in ones(x) : \E b \in P : f[b] = i
      <4> TAKE i \in ones(x)
      <4>1. Pos(x, i) \in P /\ Pos(x, i) % WordBits = i BY <3>2
      <4>2. f[Pos(x, i)] = i BY <4>1
      <4> QED BY <4>1, <4>2
    <3> HIDE DEF P, f
    <3>6. f \in Bijection(P, ones(x))
      BY <3>3, <3>4, <3>5, Zenon DEF Bijection, Injection, Surjection, IsInjective
    <3>7. ExistsBijection(P, ones(x)) BY <3>6 DEF ExistsBijection
    <3> QED BY <2>2, <3>7, FS_Bijection
  <2>5. Cardinality(In(s)) \in Nat BY <2>2, FS_CardinalityType
  <2> HIDE DEF P, In, ones
  <2> QED BY <2>3, <2>4, <2>5
<1>4. Cardinality(In({})) = 0
  <2>1. In({}) = {} OBVIOUS
  <2> QED BY <2>1, FS_EmptySet
<1>5. \A s : s # {} => any(s) \in s OBVIOUS
<1>6. g = [s \in SUBSET K |-> IF s = {} THEN 0 ELSE Cardinality(ones(any(s))) + g[s \ {any(s)}]]
  <2>1. ASSUME NEW s \in SUBSET K
        PROVE  g[s] = IF s = {} THEN 0 ELSE Cardinality(ones(any(s))) + g[s \ {any(s)}]
    <3>1. CASE s = {} BY <3>1, <1>4
    <3>2. CASE s # {}
      <4>1. any(s) \in s /\ s \ {any(s)} \in SUBSET K BY <3>2, <1>5
      <4> HIDE DEF any, In, ones
      <4>2. Cardinality(In(s)) = Cardinality(ones(any(s))) + Cardinality(In(s \ {any(s)})) BY <4>1, <1>3
      <4> QED BY <3>2, <4>1, <4>2
    <3> QED BY <3>1, <3>2
  <2>2. g = [s \in SUBSET K |-> g[s]] OBVIOUS
  <2> HIDE DEF g, any, ones
  <2> QED BY <2>1, <2>2
<1>7. w = [s \in SUBSET K |-> IF s = {} THEN 0 ELSE Cardinality(ones(any(s))) + w[s \ {any(s)}]]
  <2> HIDE DEF g
  <2> QED BY <1>6, Zenon DEF Weighed, w
<1> HIDE DEF w, any, ones, seen
<1>8. \A s \in SUBSET K : w[s] = g[s]
  <2> DEFINE Bad == {s \in SUBSET K : w[s] # g[s]}
             Sizes == {Cardinality(s) : s \in Bad}
  <2>1. SUFFICES ASSUME Bad # {} PROVE FALSE OBVIOUS
  <2>2. \A s \in SUBSET K : IsFiniteSet(s) /\ Cardinality(s) \in Nat
    BY <1>1, FS_Subset, FS_CardinalityType
  <2>3. Sizes \subseteq Nat /\ Sizes # {} BY <2>1, <2>2
  <2>4. PICK least \in Sizes : \A m \in Sizes : least <= m
    <3> HIDE DEF Sizes
    <3> QED BY <2>3, NatMin
  <2>5. PICK s \in Bad : \A m \in Sizes : Cardinality(s) <= m BY <2>4
  <2>6. s # {} BY <1>4, <1>7, <2>5
  <2>7. any(s) \in s /\ s \ {any(s)} \in SUBSET K BY <1>5, <2>6
  <2>8. Cardinality(s \ {any(s)}) = Cardinality(s) - 1 /\ Cardinality(s) \in Nat
    BY <2>2, <2>7, FS_RemoveElement
  <2>9. s \ {any(s)} \notin Bad
    <3> DEFINE r == s \ {any(s)}
    <3>1. r \in Bad => Cardinality(r) \in Sizes OBVIOUS
    <3>2. Cardinality(r) = Cardinality(s) - 1 BY <2>8
    <3> HIDE DEF Bad, Sizes, r
    <3>3. r \in Bad => Cardinality(s) <= Cardinality(r) BY <3>1, <2>5
    <3>4. r \notin Bad BY <3>2, <3>3, <2>8
    <3> QED BY <3>4 DEF r
  <2>10. w[s \ {any(s)}] = g[s \ {any(s)}] BY <2>7, <2>9
  <2>11. w[s] = Cardinality(ones(any(s))) + w[s \ {any(s)}] BY <1>7, <2>6
  <2>12. g[s] = Cardinality(ones(any(s))) + g[s \ {any(s)}]
    <3> HIDE DEF g
    <3> QED BY <1>6, <2>6
  <2> HIDE DEF g
  <2> QED BY <2>10, <2>11, <2>12
<1>9. Weight(a, n) = w[K] BY DEF w, Weighed, Weight, MapThenSumSet, MapThenFoldSet
<1>10. In(K) = S
  <2>1. ASSUME NEW b \in S PROVE b \div WordBits \in K
    <3>1. b \in 0 .. n - 1 BY <1>0
    <3> QED BY <3>1, BitPlace
  <2> QED BY <2>1
<1> HIDE DEF In
<1>11. w[K] = g[K] /\ g[K] = Cardinality(In(K)) BY <1>8
<1> QED BY <1>9, <1>10, <1>11

\* The operations that say whether a word of their result is not zero.
LEMMA AnyIs ==
  ASSUME NEW n \in Nat, NEW a, NEW S, Means(a, S, n), Fits(a, n)
  PROVE  AnyWord(a) <=> S # {}
<1>0. a \in [Words(n) -> SUBSET Offsets] /\ DOMAIN a = Words(n) BY DEF Means, Arrays, Word
<1>1. ASSUME NEW k \in Words(n), a[k] # {} PROVE S # {}
  <2>1. PICK i \in a[k] : TRUE BY <1>1
  <2>2. i \in Offsets /\ Pos(k, i) < n BY <1>0 DEF Fits
  <2> QED BY <2>1, <2>2 DEF Means
<1>2. ASSUME NEW b \in S PROVE a[b \div WordBits] # {} /\ b \div WordBits \in Words(n)
  <2>1. b \in 0 .. n - 1 BY DEF Means
  <2>2. b \div WordBits \in Words(n) /\ b % WordBits \in Offsets /\ b = Pos(b \div WordBits, b % WordBits)
    BY <2>1, BitPlace
  <2>3. b < n BY <2>1
  <2> QED BY <2>2, <2>3 DEF Means
<1> QED BY <1>0, <1>1, <1>2 DEF AnyWord

\* The comparisons and the weight agree with the sets.
LEMMA QuestionsAreRight == BitmapsMean => QuestionsAgree
<1> SUFFICES ASSUME BitmapsMean PROVE QuestionsAgree OBVIOUS
<1> DEFINE a == map["a"]
           b == map["b"]
           S == set["a"]
           T == set["b"]
<1>0. /\ nbits \in Nat /\ Universe = 0 .. nbits - 1
      /\ Means(a, S, nbits) /\ Means(b, T, nbits)
  BY MaxBitsAssumption DEF BitmapsMean, Universe, Map
<1> HIDE DEF a, b, S, T
<1>1. /\ Means(And(a, b), S \intersect T, nbits) /\ (Fits(a, nbits) => Fits(And(a, b), nbits))
      /\ Means(Xor(a, b), SymDiff(S, T), nbits)
      /\ Means(AndNot(a, b), S \ T, nbits) /\ (Fits(a, nbits) => Fits(AndNot(a, b), nbits))
  BY <1>0, CombineMeans
<1>2. a \in Arrays(nbits) /\ DOMAIN a = Words(nbits) /\ S \subseteq Universe BY <1>0 DEF Means, Arrays
<1>3. EmptyMap(a, nbits) <=> S = {} BY <1>0, EmptyIs
<1>4. FullMap(a, nbits) <=> S = Universe
  <2>1. FullMap(a, nbits) = EmptyMap(Zeros(a, nbits), nbits) BY <1>2 DEF FullMap, Zeros
  <2>2. Means(Zeros(a, nbits), Universe \ S, nbits) BY <1>0, ZerosMean
  <2>3. EmptyMap(Zeros(a, nbits), nbits) <=> Universe \ S = {} BY <1>0, <2>2, EmptyIs
  <2> QED BY <2>1, <2>3, <1>2
<1>5. EqualMaps(a, b, nbits) <=> S = T
  <2>1. EmptyMap(Xor(a, b), nbits) <=> SymDiff(S, T) = {} BY <1>0, <1>1, EmptyIs
  <2>2. SymDiff(S, T) = {} <=> S = T BY DEF SymDiff
  <2> QED BY <2>1, <2>2 DEF EqualMaps
<1>6. Intersects(a, b, nbits) <=> S \intersect T # {} BY <1>0, <1>1, EmptyIs DEF Intersects
<1>7. Subset(a, b, nbits) <=> S \subseteq T
  <2>1. EmptyMap(AndNot(a, b), nbits) <=> S \ T = {} BY <1>0, <1>1, EmptyIs
  <2> QED BY <2>1 DEF Subset
<1>8. Weight(a, nbits) = Cardinality(S) BY <1>0, WeightIs
<1>9. Clean(a, nbits) /\ Clean(b, nbits) =>
        (AnyWord(And(a, b)) <=> Intersects(a, b, nbits)) /\ (AnyWord(AndNot(a, b)) <=> ~Subset(a, b, nbits))
  <2>1. Clean(a, nbits) <=> Fits(a, nbits) BY <1>0, <1>2, CleanIsFits
  <2>2. Fits(a, nbits) => (AnyWord(And(a, b)) <=> S \intersect T # {}) BY <1>0, <1>1, AnyIs
  <2>3. Fits(a, nbits) => (AnyWord(AndNot(a, b)) <=> S \ T # {}) BY <1>0, <1>1, AnyIs
  <2> QED BY <2>1, <2>2, <2>3, <1>6, <1>7
<1> QED BY <1>3, <1>4, <1>5, <1>6, <1>7, <1>8, <1>9 DEF QuestionsAgree, a, b, S, T

----------------------------------------------------------------------------
\* A function on 0 .. N exists when each of its values is given, or follows
\* from the one at a place further on.
Follows(g, N, V, stop, out, next, F) ==
    /\ g \in [0 .. N -> V]
    /\ \A x \in 0 .. N : g[x] = IF stop[x] THEN out[x] ELSE F[<<x, g[next[x]]>>]

\* There is a function whose values follow each from one further on.
LEMMA Following ==
  ASSUME NEW N \in Nat, NEW V, NEW stop, NEW out \in [0 .. N -> V], NEW next,
         NEW F \in [(0 .. N) \X V -> V],
         \A x \in 0 .. N : stop[x] \/ next[x] \in x + 1 .. N
  PROVE  \E g : Follows(g, N, V, stop, out, next, F)
<1> DEFINE Value(g, x) == IF stop[x] THEN out[x] ELSE F[<<x, g[next[x]]>>]
           On(g, m) == \A x \in N - m .. N : g[x] \in V /\ g[x] = Value(g, x)
           Good == {m \in 0 .. N : \E g : On(g, m)}
<1>1. \E g : On(g, 0)
  <2> DEFINE g == [x \in 0 .. N |-> out[x]]
  <2>1. \A x \in N - 0 .. N : x = N /\ x \in 0 .. N OBVIOUS
  <2>2. stop[N]
    <3>1. N \in 0 .. N OBVIOUS
    <3>2. stop[N] \/ next[N] \in N + 1 .. N BY <3>1
    <3>3. ~(next[N] \in N + 1 .. N)
      <4>1. \A z \in N + 1 .. N : FALSE OBVIOUS
      <4> QED BY <4>1
    <3> QED BY <3>2, <3>3
  <2>3. On(g, 0) BY <2>1, <2>2
  <2> QED BY <2>3
<1>2. ASSUME NEW m \in 1 .. N, m - 1 \in Good PROVE m \in Good
  <2>1. PICK h : On(h, m - 1) BY <1>2
  <2> DEFINE y == N - m
             g == [x \in 0 .. N |-> IF x = y THEN Value(h, y) ELSE h[x]]
  <2>2. y \in 0 .. N /\ y = N - m /\ y + 1 = N - (m - 1) OBVIOUS
  <2>3. ASSUME NEW x \in y .. N PROVE g[x] \in V /\ g[x] = Value(g, x)
    <3>1. x \in 0 .. N /\ (stop[x] \/ next[x] \in x + 1 .. N) BY <2>2
    <3>2. stop[x] \/ (next[x] \in y + 1 .. N /\ next[x] \in 0 .. N /\ next[x] # y /\ g[next[x]] = h[next[x]])
      <4>1. \A z \in x + 1 .. N : z \in y + 1 .. N /\ z \in 0 .. N /\ z # y BY <2>2
      <4> HIDE DEF y, Value
      <4> QED BY <3>1, <4>1
    <3>3. CASE x = y
      <4>1. g[x] = Value(h, x) BY <3>1, <3>3
      <4> HIDE DEF g
      <4>2. g[x] = Value(g, x) BY <4>1, <3>2
      <4>3. stop[x] \/ h[next[x]] \in V BY <2>1, <2>2, <3>2
      <4>4. stop[x] \/ <<x, h[next[x]]>> \in (0 .. N) \X V BY <3>1, <4>3
      <4>5. Value(h, x) \in V BY <3>1, <4>4
      <4> QED BY <4>1, <4>2, <4>5
    <3>4. CASE x # y
      <4>1. x \in N - (m - 1) .. N BY <2>2, <3>1, <3>4
      <4>2. h[x] = Value(h, x) /\ h[x] \in V BY <2>1, <4>1
      <4>3. g[x] = h[x] BY <3>1, <3>4
      <4> HIDE DEF g
      <4>4. Value(g, x) = Value(h, x) BY <3>2
      <4> HIDE DEF Value
      <4> QED BY <4>2, <4>3, <4>4
    <3> QED BY <3>3, <3>4
  <2> HIDE DEF g, Value
  <2>4. On(g, m) BY <2>2, <2>3
  <2> QED BY <2>4
<1>3. Good \in SUBSET (0 .. N) /\ 0 \in Good BY <1>1
<1> HIDE DEF Good
<1>4. Good = 0 .. N BY <1>2, <1>3, UpTo
<1>5. N \in Good BY <1>4
<1>6. PICK h : On(h, N) BY <1>5 DEF Good
<1> DEFINE g == [x \in 0 .. N |-> h[x]]
<1>7. \A x \in 0 .. N : h[x] \in V /\ h[x] = Value(h, x)
  <2>1. N - N .. N = 0 .. N OBVIOUS
  <2> HIDE DEF Value
  <2> QED BY <1>6, <2>1
<1>8. \A x \in 0 .. N : stop[x] \/ next[x] \in 0 .. N
  <2> TAKE x \in 0 .. N
  <2>1. \A z \in x + 1 .. N : z \in 0 .. N OBVIOUS
  <2> QED BY <2>1
<1>9. \A x \in 0 .. N : g[x] = Value(g, x) BY <1>7, <1>8
<1>10. g \in [0 .. N -> V]
  <2> HIDE DEF Value
  <2> QED BY <1>7
<1> HIDE DEF g
<1>11. Follows(g, N, V, stop, out, next, F) BY <1>9, <1>10 DEF Follows
<1> QED BY <1>11

\* Rounding up to the alignment gives the least multiple that is not before.
LEMMA AlignUp ==
  ASSUME NEW A \in Nat \ {0}, NEW z \in Nat
  PROVE  LET u == ((z + A - 1) \div A) * A
         IN  u \in Nat /\ u >= z /\ u % A = 0 /\ \A i \in Nat : i % A = 0 /\ i >= z => i >= u
<1> DEFINE q == (z + A - 1) \div A
           r == (z + A - 1) % A
           u == q * A
<1>1. z + A - 1 \in Nat OBVIOUS
<1>2. z + A - 1 = q * A + r /\ q \in Nat /\ r \in 0 .. A - 1 BY <1>1, DivDef
<1>3. u % A = 0
  <2> HIDE DEF q
  <2>1. 0 \in 0 .. A - 1 OBVIOUS
  <2>2. (q * A + 0) % A = 0 BY <1>2, <2>1, DivUnique
  <2>3. q * A + 0 = q * A BY <1>2
  <2> QED BY <2>2, <2>3
<1> HIDE DEF q, r
<1>4. u \in Nat /\ u >= z BY <1>2
<1>5. ASSUME NEW i \in Nat, i % A = 0, i >= z PROVE i >= u
  <2> DEFINE j == i \div A
  <2>1. i = j * A + (i % A) /\ j \in Nat BY DivDef
  <2>2. i = j * A BY <2>1, <1>5
  <2> HIDE DEF j
  <2>3. j < q => (j + 1) * A <= q * A BY <1>2, <2>1
  <2>4. (j + 1) * A = j * A + A /\ j * A \in Nat BY <2>1
  <2>5. q <= j => q * A <= j * A BY <1>2, <2>1
  <2> QED BY <2>1, <2>2, <2>3, <2>4, <2>5, <1>2, <1>5
<1> QED BY <1>3, <1>4, <1>5 DEF q

\* What the loop of bitmap_find_next_zero_area answers from each place.
Tries(a, size, nr, align) ==
    LET try[from \in 0 .. size + nr] ==
            LET index == ((FindNextZeroBit(a, size, from) + align - 1) \div align) * align
                end == index + nr
                taken == FindNextBit(a, end, index)
            IN  IF end > size THEN end ELSE IF taken < end THEN try[taken + 1] ELSE index
    IN  try
Index(a, size, align, from) == ((FindNextZeroBit(a, size, from) + align - 1) \div align) * align
Free(S, n, nr, align, from) ==
    {i \in from .. n - nr : i % align = 0 /\ i .. i + nr - 1 \subseteq (0 .. n - 1) \ S}

\* The place of a try is aligned and not before where it begins.
LEMMA IndexIs ==
  ASSUME NEW n \in Nat, NEW a, NEW S, Means(a, S, n), NEW align \in Nat \ {0}, NEW from \in Nat
  PROVE  /\ Index(a, n, align, from) \in Nat /\ Index(a, n, align, from) % align = 0
         /\ from <= n => from <= Index(a, n, align, from)
         /\ \A i \in Nat : i % align = 0 /\ i >= from /\ i \in (0 .. n - 1) \ S => i >= Index(a, n, align, from)
<1> DEFINE Z == (0 .. n - 1) \ S
           B == Between(Z, from, n)
           z == FindNextZeroBit(a, n, from)
<1>1. z = LeastOr(B, n)
  <2>1. n \in 0 .. n OBVIOUS
  <2> QED BY <2>1, NextZeroBitIs
<1>2. B \subseteq Nat /\ \A b \in B : b >= from /\ b < n BY DEF Between
<1> HIDE DEF B
<1>3. (B = {} => z = n) /\ (B # {} => z \in B /\ \A b \in B : z <= b)
  <2>1. B # {} => Min(B) \in B /\ \A b \in B : Min(B) <= b BY <1>2, MinIsLeast
  <2> QED BY <1>1, <2>1 DEF LeastOr
<1> HIDE DEF z
<1>4. z \in Nat /\ (from <= n => from <= z) BY <1>2, <1>3
<1>5. ASSUME NEW i \in Z, i >= from PROVE z <= i
  <2>1. i \in B BY <1>5 DEF B, Between
  <2> QED BY <2>1, <1>3
<1> DEFINE u == ((z + align - 1) \div align) * align
<1>6. u \in Nat /\ u >= z /\ u % align = 0 /\ \A i \in Nat : i % align = 0 /\ i >= z => i >= u
  BY <1>4, AlignUp
<1>7. Index(a, n, align, from) = u BY DEF Index, z
<1> HIDE DEF u
<1>8. from <= n => from <= u BY <1>4, <1>6
<1>9. ASSUME NEW i \in Nat, i % align = 0, i >= from, i \in Z PROVE i >= u
  <2>1. z <= i BY <1>5, <1>9
  <2>2. i >= z BY <2>1, <1>4
  <2> QED BY <2>2, <1>6, <1>9
<1> QED BY <1>6, <1>7, <1>8, <1>9

\* Every try goes on behind the bit that was found to be taken.
LEMMA TriesFollow ==
  ASSUME NEW n \in Nat, NEW a, NEW S, Means(a, S, n), NEW nr \in Nat \ {0}, NEW align \in Nat \ {0}
  PROVE  \A x \in 0 .. n + nr :
            Tries(a, n, nr, align)[x] =
               LET index == Index(a, n, align, x)
                   taken == FindNextBit(a, index + nr, index)
               IN  IF index + nr > n THEN index + nr
                   ELSE IF taken < index + nr THEN Tries(a, n, nr, align)[taken + 1] ELSE index
<1> DEFINE N == n + nr
           index(x) == Index(a, n, align, x)
           end(x) == index(x) + nr
           taken(x) == FindNextBit(a, end(x), index(x))
           stop == [x \in 0 .. N |-> end(x) > n \/ ~(taken(x) < end(x))]
           out == [x \in 0 .. N |-> IF end(x) > n THEN end(x) ELSE index(x)]
           next == [x \in 0 .. N |-> taken(x) + 1]
           F == [p \in (0 .. N) \X Nat |-> p[2]]
           t == Tries(a, n, nr, align)
<1>1. ASSUME NEW x \in 0 .. N PROVE stop[x] \/ next[x] \in x + 1 .. N
  <2>1. SUFFICES ASSUME ~(end(x) > n), taken(x) < end(x) PROVE taken(x) + 1 \in x + 1 .. N OBVIOUS
  <2>2. x \in Nat /\ index(x) \in Nat /\ (x <= n => x <= index(x)) BY IndexIs
  <2>3. index(x) >= n \/ x <= n
    <3>1. x > n => FindNextZeroBit(a, n, x) = n
      <4>1. x > n => x >= n BY <2>2
      <4> QED BY <4>1 DEF FindNextZeroBit
    <3>2. x > n => index(x) >= n
      <4>1. ((n + align - 1) \div align) * align >= n BY AlignUp
      <4> QED BY <3>1, <4>1 DEF Index
    <3> QED BY <2>2, <3>2
  <2> HIDE DEF index
  <2>4. end(x) \in 0 .. n /\ x <= index(x) BY <2>1, <2>2, <2>3
  <2>5. taken(x) = LeastOr(Between(S, index(x), end(x)), end(x)) BY <2>2, <2>4, NextBitIs
  <2> DEFINE B == Between(S, index(x), end(x))
  <2>6. B # {} BY <2>1, <2>4, <2>5 DEF LeastOr
  <2>7. B \subseteq Nat /\ \A b \in B : b >= index(x)
    <3>1. S \subseteq Nat BY DEF Means
    <3> QED BY <3>1 DEF Between
  <2>8. taken(x) = Min(B) /\ Min(B) \in B
    <3> HIDE DEF B
    <3> QED BY <2>5, <2>6, <2>7, MinIsLeast DEF LeastOr, B
  <2>9. taken(x) \in Nat /\ taken(x) >= index(x) BY <2>7, <2>8
  <2> HIDE DEF taken
  <2> QED BY <2>1, <2>2, <2>4, <2>9
<1>2. \E g : Follows(g, N, Nat, stop, out, next, F)
  <2>1. N \in Nat OBVIOUS
  <2>2. out \in [0 .. N -> Nat]
    <3>1. \A x \in 0 .. N : index(x) \in Nat
      <4> TAKE x \in 0 .. N
      <4>1. x \in Nat OBVIOUS
      <4> QED BY <4>1, IndexIs
    <3> HIDE DEF index
    <3> QED BY <3>1
  <2>3. F \in [(0 .. N) \X Nat -> Nat] OBVIOUS
  <2> HIDE DEF N, stop, out, next, F
  <2> QED BY <1>1, <2>1, <2>2, <2>3, Following
<1>3. PICK g : Follows(g, N, Nat, stop, out, next, F) BY <1>2
<1>4. g = [x \in 0 .. N |-> IF end(x) > n THEN end(x) ELSE IF taken(x) < end(x) THEN g[taken(x) + 1] ELSE index(x)]
  <2> DEFINE h == [x \in 0 .. N |-> IF end(x) > n THEN end(x) ELSE IF taken(x) < end(x) THEN g[taken(x) + 1] ELSE index(x)]
  <2>1. g \in [0 .. N -> Nat] BY <1>3 DEF Follows
  <2>2. ASSUME NEW x \in 0 .. N PROVE g[x] = h[x]
    <3>1. g[x] = IF stop[x] THEN out[x] ELSE F[<<x, g[next[x]]>>] BY <1>3 DEF Follows
    <3>2. ~stop[x] => F[<<x, g[next[x]]>>] = g[next[x]]
      <4>1. ~stop[x] => next[x] \in 0 .. N
        <5>1. \A z \in x + 1 .. N : z \in 0 .. N OBVIOUS
        <5> HIDE DEF N, stop, next
        <5> QED BY <1>1, <5>1
      <4> HIDE DEF N, stop, next
      <4> QED BY <2>1, <4>1
    <3>3. ~stop[x] => next[x] = taken(x) + 1 OBVIOUS
    <3> HIDE DEF end, taken, index, F
    <3> QED BY <3>1, <3>2, <3>3
  <2>3. g = [x \in 0 .. N |-> g[x]] /\ h = [x \in 0 .. N |-> h[x]] BY <2>1
  <2> HIDE DEF h
  <2>4. g = h BY <2>2, <2>3
  <2> QED BY <2>4 DEF h
<1>5. t = [x \in 0 .. N |-> IF end(x) > n THEN end(x) ELSE IF taken(x) < end(x) THEN t[taken(x) + 1] ELSE index(x)]
  BY <1>4, Zenon DEF Tries, Index
<1> HIDE DEF t, end, taken, index
<1>6. \A x \in 0 .. N : t[x] = IF end(x) > n THEN end(x) ELSE IF taken(x) < end(x) THEN t[taken(x) + 1] ELSE index(x)
  BY <1>5
<1> QED BY <1>6 DEF t, end, taken, index

\* No bit before the found place begins a free area, by its search or by
\* the bit that was found to be taken.
LEMMA AreaIs ==
  ASSUME NEW n \in Nat, NEW a, NEW S, Means(a, S, n), NEW nr \in Nat \ {0}, NEW align \in Nat \ {0}
  PROVE  \A x \in 0 .. n + nr :
            LET F == Free(S, n, nr, align, x)
            IN  IF F = {} THEN Tries(a, n, nr, align)[x] > n ELSE Tries(a, n, nr, align)[x] = Min(F)
<1> DEFINE N == n + nr
           t == Tries(a, n, nr, align)
           F(x) == Free(S, n, nr, align, x)
           Correct(x) == IF F(x) = {} THEN t[x] > n ELSE t[x] = Min(F(x))
           Wrong == {x \in 0 .. N : ~Correct(x)}
<1> SUFFICES ASSUME Wrong # {} PROVE FALSE OBVIOUS
<1>1. PICK x \in Wrong : \A y \in Wrong : y <= x
  <2>1. N \in Nat /\ Wrong \subseteq 0 .. N OBVIOUS
  <2> HIDE DEF Wrong, N
  <2>2. Max(Wrong) \in Wrong /\ \A y \in Wrong : y <= Max(Wrong) BY <2>1, MaxIsGreatest
  <2> QED BY <2>2
<1> DEFINE index == Index(a, n, align, x)
           end == index + nr
           taken == FindNextBit(a, end, index)
           B == Between(S, index, end)
<1>2. x \in 0 .. N /\ x \in Nat /\ ~Correct(x) OBVIOUS
<1>3. t[x] = IF end > n THEN end ELSE IF taken < end THEN t[taken + 1] ELSE index BY <1>2, TriesFollow
<1>4. /\ index \in Nat /\ index % align = 0 /\ (x <= n => x <= index)
      /\ \A i \in Nat : i % align = 0 /\ i >= x /\ i \in (0 .. n - 1) \ S => i >= index
  BY <1>2, IndexIs
<1>5. \A i : i \in F(x) <=> i \in x .. n - nr /\ i % align = 0 /\ i .. i + nr - 1 \subseteq (0 .. n - 1) \ S
  BY DEF Free
<1>6. S \subseteq Nat /\ S \subseteq 0 .. n - 1 BY DEF Means
<1>7. ASSUME NEW i \in F(x)
      PROVE  i \in Nat /\ x <= i /\ i + nr <= n /\ index <= i /\ x <= index /\ i % align = 0
             /\ i .. i + nr - 1 \subseteq (0 .. n - 1) \ S
  <2>1. i \in x .. n - nr /\ i % align = 0 /\ i .. i + nr - 1 \subseteq (0 .. n - 1) \ S BY <1>5
  <2>2. i \in Nat /\ x <= i /\ i + nr <= n /\ i \in i .. i + nr - 1 BY <2>1, <1>2
  <2>3. i \in (0 .. n - 1) \ S BY <2>1, <2>2
  <2> HIDE DEF index
  <2>4. i >= index /\ x <= n BY <2>1, <2>2, <2>3, <1>2, <1>4
  <2> QED BY <2>1, <2>2, <2>4, <1>4
<1> HIDE DEF index, F, t
<1>8. CASE end > n
  <2>1. F(x) = {}
    <3>1. \A i \in F(x) : FALSE BY <1>4, <1>7, <1>8
    <3> QED BY <3>1
  <2>2. t[x] > n BY <1>3, <1>8
  <2> QED BY <2>1, <2>2, <1>2
<1>9. CASE ~(end > n)
  <2>1. end \in 0 .. n BY <1>4, <1>9
  <2>2. taken = LeastOr(B, end)
    <3> HIDE DEF end
    <3> QED BY <2>1, <1>4, NextBitIs
  <2>3. \A b : b \in B <=> b \in S /\ b >= index /\ b < end BY DEF Between
  <2> HIDE DEF B
  <2>4. B \subseteq Nat BY <2>3, <1>6
  <2>5. (B = {} => taken = end) /\ (B # {} => taken \in B)
    <3>1. B # {} => Min(B) \in B BY <2>4, MinIsLeast
    <3> QED BY <2>2, <3>1 DEF LeastOr
  <2>10. x <= index
    <3>1. x > n => FindNextZeroBit(a, n, x) = n
      <4>1. x > n => x >= n BY <1>2
      <4> QED BY <4>1 DEF FindNextZeroBit
    <3>2. x > n => index >= n
      <4>1. ((n + align - 1) \div align) * align >= n BY AlignUp
      <4> QED BY <3>1, <4>1 DEF Index, index
    <3>3. index < n BY <2>1, <1>4
    <3> QED BY <3>2, <3>3, <1>2, <1>4
  <2> HIDE DEF taken
  <2>6. CASE B # {}
    <3>1. taken \in S /\ taken \in Nat /\ taken >= index /\ taken < end BY <2>3, <2>4, <2>5, <2>6
    <3>2. taken + 1 \in 0 .. N /\ taken + 1 > x BY <2>1, <2>10, <3>1, <1>2, <1>4
    <3>3. F(x) = F(taken + 1)
      <4>1. ASSUME NEW i \in F(x) PROVE i >= taken + 1
        <5>1. i \in Nat /\ index <= i /\ i .. i + nr - 1 \subseteq (0 .. n - 1) \ S BY <1>7
        <5>2. ~(taken \in i .. i + nr - 1) BY <3>1, <5>1
        <5> QED BY <3>1, <5>1, <5>2, <1>4
      <4>2. \A i : i \in F(x) => i \in taken + 1 .. n - nr
        <5>1. \A i \in F(x) : i \in Nat /\ i + nr <= n /\ i >= taken + 1 BY <1>7, <4>1
        <5> QED BY <5>1, <3>1
      <4>3. \A i \in taken + 1 .. n - nr : i \in x .. n - nr BY <3>1, <3>2, <1>2
      <4>4. \A i : i \in F(taken + 1) <=>
              i \in taken + 1 .. n - nr /\ i % align = 0 /\ i .. i + nr - 1 \subseteq (0 .. n - 1) \ S
        BY DEF Free, F
      <4>5. \A i : i \in F(x) <=> i \in F(taken + 1) BY <4>2, <4>3, <4>4, <1>5
      <4> QED BY <4>5
    <3>4. t[x] = t[taken + 1] BY <1>3, <1>9, <3>1
    <3>5. Correct(taken + 1)
      <4>1. taken + 1 \notin Wrong
        <5> HIDE DEF Wrong
        <5>1. x \in Nat BY <1>2
        <5> QED BY <1>1, <3>1, <3>2, <5>1
      <4> QED BY <3>2, <4>1
    <3> QED BY <1>2, <3>3, <3>4, <3>5
  <2>7. CASE B = {}
    <3>1. taken = end /\ ~(taken < end) BY <2>5, <2>7, <2>1
    <3>2. t[x] = index BY <1>3, <1>9, <3>1
    <3>3. index \in F(x)
      <4>1. index \in x .. n - nr BY <2>10, <2>1, <1>2, <1>4
      <4>2. \A b \in index .. index + nr - 1 : b \in (0 .. n - 1) \ S
        <5> TAKE b \in index .. index + nr - 1
        <5>1. b \in Nat /\ b >= index /\ b < end BY <1>4
        <5>2. b \notin S BY <5>1, <2>3, <2>7
        <5>3. b \in 0 .. n - 1 BY <5>1, <2>1
        <5> QED BY <5>2, <5>3
      <4> QED BY <4>1, <4>2, <1>4, <1>5
    <3>4. F(x) \subseteq Nat /\ \A i \in F(x) : index <= i BY <1>7
    <3>5. Min(F(x)) = index BY <3>3, <3>4, MinIs
    <3> QED BY <3>2, <3>3, <3>5, <1>2
  <2> QED BY <2>6, <2>7
<1> QED BY <1>8, <1>9

\* The area that is found is the first one that is free and aligned.
LEMMA AreasAreRight == BitmapsMean => AreasAreFree
<1> SUFFICES ASSUME BitmapsMean, NEW start \in 0 .. nbits - 1, NEW nr \in 1 .. nbits, NEW align \in {1, 2, 4}
             PROVE  LET free == {i \in start .. nbits - nr :
                                    i % align = 0 /\ i .. i + nr - 1 \subseteq Universe \ set["a"]}
                        found == FindNextZeroArea(map["a"], nbits, start, nr, align)
                    IN  IF free = {} THEN found > nbits ELSE found = Min(free)
  BY DEF AreasAreFree
<1> DEFINE S == set["a"]
           a == map["a"]
<1>1. nbits \in Nat /\ Means(a, S, nbits) /\ Universe = 0 .. nbits - 1
  BY MaxBitsAssumption DEF BitmapsMean, Universe, Map
<1>2. start \in 0 .. nbits + nr /\ nr \in Nat \ {0} /\ align \in Nat \ {0} BY <1>1
<1> DEFINE free == Free(S, nbits, nr, align, start)
<1>3. {i \in start .. nbits - nr : i % align = 0 /\ i .. i + nr - 1 \subseteq Universe \ set["a"]} = free
  BY <1>1 DEF Free
<1>4. FindNextZeroArea(map["a"], nbits, start, nr, align) = Tries(a, nbits, nr, align)[start]
  BY Zenon DEF FindNextZeroArea, Tries
<1>5. IF free = {} THEN Tries(a, nbits, nr, align)[start] > nbits ELSE Tries(a, nbits, nr, align)[start] = Min(free)
  <2> HIDE DEF S, a
  <2> QED BY <1>1, <1>2, AreaIs
<1> HIDE DEF free
<1> QED BY <1>3, <1>4, <1>5

----------------------------------------------------------------------------
\* How many members of T come before x, and a sequence of all the members
\* of T in their order.
Rank(T, x) == Cardinality({y \in T : y < x})
Enumerates(w, T) ==
    /\ w \in Seq(T) /\ Len(w) = Cardinality(T)
    /\ \A i \in 1 .. Len(w) : Rank(T, w[i]) = i - 1

\* Sets of bit numbers are finite.
LEMMA Finite == ASSUME NEW n \in Nat, NEW T, T \subseteq 0 .. n
                PROVE  IsFiniteSet(T) /\ Cardinality(T) \in Nat
<1>1. 0 \in Int /\ n \in Int OBVIOUS
<1>2. IsFiniteSet(0 .. n) BY <1>1, FS_Interval
<1> QED BY <1>2, FS_Subset, FS_CardinalityType

\* Members of a set have different ranks, below the number of members.
LEMMA RankGrows ==
  ASSUME NEW n \in Nat, NEW T, T \subseteq 0 .. n, NEW x \in T, NEW z \in T, x < z
  PROVE  Rank(T, x) < Rank(T, z)
<1> DEFINE X == {y \in T : y < x}
           Z == {y \in T : y < z}
<1>1. IsFiniteSet(X) /\ Cardinality(X) \in Nat /\ IsFiniteSet(Z) /\ Cardinality(Z) \in Nat
  <2>1. X \subseteq 0 .. n /\ Z \subseteq 0 .. n OBVIOUS
  <2> HIDE DEF X, Z
  <2> QED BY <2>1, Finite
<1>2. X \subseteq Z /\ x \in Z /\ x \notin X
  <2>1. \A y \in T : y \in Int OBVIOUS
  <2>2. \A y \in T : y < x => y < z BY <2>1
  <2>3. ~(x < x) BY <2>1
  <2> QED BY <2>2, <2>3
<1>3. Cardinality(Z \ {x}) = Cardinality(Z) - 1
  <2> HIDE DEF X, Z
  <2> QED BY <1>1, <1>2, FS_RemoveElement
<1>4. Cardinality(X) <= Cardinality(Z \ {x})
  <2>1. X \subseteq Z \ {x} /\ IsFiniteSet(Z \ {x})
    <3> HIDE DEF X, Z
    <3> QED BY <1>1, <1>2, FS_Subset
  <2> HIDE DEF X, Z
  <2> QED BY <2>1, FS_Subset
<1>5. Cardinality(X) < Cardinality(Z)
  <2> HIDE DEF X, Z
  <2> QED BY <1>1, <1>3, <1>4
<1> QED BY <1>5 DEF Rank

\* So no two of them have the same rank,
LEMMA RankIsInjective ==
  ASSUME NEW n \in Nat, NEW T, T \subseteq 0 .. n, NEW x \in T, NEW z \in T, Rank(T, x) = Rank(T, z)
  PROVE  x = z
<1>1. Rank(T, x) \in Nat
  <2>1. {y \in T : y < x} \subseteq 0 .. n OBVIOUS
  <2> QED BY <2>1, Finite DEF Rank
<1>2. x < z => Rank(T, x) < Rank(T, z) BY RankGrows
<1>3. z < x => Rank(T, z) < Rank(T, x) BY RankGrows
<1>4. x \in Nat /\ z \in Nat OBVIOUS
<1> QED BY <1>1, <1>2, <1>3, <1>4

\* and each is below the number of members.
LEMMA RankIsBelow ==
  ASSUME NEW n \in Nat, NEW T, T \subseteq 0 .. n, NEW x \in T
  PROVE  Rank(T, x) \in 0 .. Cardinality(T) - 1
<1> DEFINE X == {y \in T : y < x}
<1>1. IsFiniteSet(T) /\ Cardinality(T) \in Nat BY Finite
<1>2. Cardinality(T \ {x}) = Cardinality(T) - 1 /\ IsFiniteSet(T \ {x}) BY <1>1, FS_RemoveElement, FS_Subset
<1>3. X \subseteq T \ {x} /\ X \subseteq 0 .. n
  <2>1. x \in Int OBVIOUS
  <2>2. ~(x < x) BY <2>1
  <2> QED BY <2>2
<1>4. Cardinality(X) <= Cardinality(T \ {x}) /\ Cardinality(X) \in Nat
  <2> HIDE DEF X
  <2> QED BY <1>2, <1>3, Finite, FS_Subset
<1>5. Cardinality(X) \in 0 .. Cardinality(T) - 1
  <2> HIDE DEF X
  <2> QED BY <1>1, <1>2, <1>4
<1> QED BY <1>5 DEF Rank

\* So each of them stands in the sequence at the place after its rank.
LEMMA EnumeratesAll ==
  ASSUME NEW n \in Nat, NEW T, T \subseteq 0 .. n, NEW w, Enumerates(w, T), NEW x \in T
  PROVE  Rank(T, x) + 1 \in 1 .. Len(w) /\ w[Rank(T, x) + 1] = x
<1> DEFINE i == Rank(T, x) + 1
<1>1. Rank(T, x) \in 0 .. Cardinality(T) - 1 /\ Cardinality(T) \in Nat BY RankIsBelow, Finite
<1>2. i \in 1 .. Len(w) BY <1>1 DEF Enumerates
<1>3. Rank(T, w[i]) = Rank(T, x) /\ w[i] \in T
  <2>1. Rank(T, w[i]) = i - 1 BY <1>2 DEF Enumerates
  <2>2. w[i] \in T BY <1>2 DEF Enumerates
  <2> QED BY <2>1, <2>2, <1>1
<1>4. w[i] = x
  <2> HIDE DEF i
  <2> QED BY <1>3, RankIsInjective
<1> QED BY <1>2, <1>4

\* It has all the members and no other.
LEMMA EnumeratesRange ==
  ASSUME NEW n \in Nat, NEW T, T \subseteq 0 .. n, NEW w, Enumerates(w, T)
  PROVE  Range(w) = T /\ DOMAIN w = 1 .. Len(w) /\ Len(w) \in Nat
<1>1. DOMAIN w = 1 .. Len(w) /\ Len(w) \in Nat /\ \A i \in 1 .. Len(w) : w[i] \in T BY DEF Enumerates
<1>2. ASSUME NEW x \in T PROVE x \in Range(w)
  <2>1. Rank(T, x) + 1 \in DOMAIN w /\ w[Rank(T, x) + 1] = x BY <1>1, EnumeratesAll
  <2> QED BY <2>1 DEF Range
<1> QED BY <1>1, <1>2 DEF Range

\* One more member before all the others.
LEMMA EnumeratesOneMore ==
  ASSUME NEW n \in Nat, NEW T, T \subseteq 0 .. n, NEW x \in 0 .. n, \A y \in T : x < y,
         NEW w, Enumerates(w, T)
  PROVE  Enumerates(<<x>> \o w, T \union {x})
<1> DEFINE U == T \union {x}
           v == <<x>> \o w
<1>1. w \in Seq(T) /\ Len(w) = Cardinality(T) /\ Len(w) \in Nat /\ w \in Seq(U) /\ <<x>> \in Seq(U)
  BY DEF Enumerates
<1>2. x \notin T OBVIOUS
<1>3. IsFiniteSet(T) /\ U \subseteq 0 .. n BY Finite
<1>4. Cardinality(U) = Cardinality(T) + 1 BY <1>2, <1>3, FS_AddElement
<1>5. v \in Seq(U) /\ Len(v) = Len(w) + 1 /\ v[1] = x /\ \A i \in 2 .. Len(v) : v[i] = w[i - 1]
  <2>1. v \in Seq(U)
    <3> HIDE DEF U
    <3> QED BY <1>1
  <2>2. Len(<<x>>) = 1 /\ <<x>>[1] = x OBVIOUS
  <2>3. Len(v) = Len(w) + 1
    <3> HIDE DEF U
    <3> QED BY <1>1, <2>2
  <2>4. v[1] = x /\ \A i \in 2 .. Len(v) : v[i] = w[i - 1]
    <3> HIDE DEF U
    <3> QED BY <1>1, <2>2, <2>3
  <2> QED BY <2>1, <2>3, <2>4
<1>6. Rank(U, x) = 0
  <2>0. x \in Int /\ ~(x < x) OBVIOUS
  <2>1. \A y \in T : y \in Int /\ x < y /\ ~(y < x)
    <3>1. \A y \in T : y \in Int /\ x < y OBVIOUS
    <3> QED BY <2>0, <3>1
  <2>2. {y \in U : y < x} = {} BY <2>0, <2>1
  <2> QED BY <2>2, FS_EmptySet DEF Rank
<1>7. ASSUME NEW i \in 2 .. Len(v) PROVE Rank(U, v[i]) = i - 1
  <2> DEFINE z == w[i - 1]
             Z == {y \in T : y < z}
  <2>1. i - 1 \in 1 .. Len(w) /\ i \in Nat /\ i - 1 \in Nat BY <1>1, <1>5
  <2>2. z \in T /\ v[i] = z
    <3> HIDE DEF v
    <3> QED BY <1>1, <1>5, <2>1
  <2>3. Cardinality(Z) = (i - 1) - 1 BY <2>1 DEF Enumerates, Rank
  <2>4. {y \in U : y < z} = Z \union {x} /\ x \notin Z /\ Z \subseteq 0 .. n
    <3>1. x < z BY <2>2
    <3> HIDE DEF z
    <3> QED BY <3>1, <1>2
  <2>5. Cardinality(Z \union {x}) = Cardinality(Z) + 1
    <3> HIDE DEF Z
    <3> QED BY <2>4, Finite, FS_AddElement
  <2> HIDE DEF Z, z, v, U
  <2>6. Rank(U, z) = Cardinality({y \in U : y < z}) BY DEF Rank
  <2>7. Rank(U, z) = Cardinality(Z) + 1 BY <2>4, <2>5, <2>6
  <2> QED BY <2>1, <2>2, <2>3, <2>7
<1>8. \A i \in 1 .. Len(v) : Rank(U, v[i]) = i - 1
  <2> TAKE i \in 1 .. Len(v)
  <2>1. i = 1 \/ i \in 2 .. Len(v) BY <1>1, <1>5
  <2> HIDE DEF v, U
  <2> QED BY <2>1, <1>5, <1>6, <1>7
<1> HIDE DEF v, U
<1>9. Enumerates(v, U) BY <1>1, <1>4, <1>5, <1>8 DEF Enumerates
<1> QED BY <1>9 DEF v, U

\* for_each_set_bit visits the bits of the set in their order.
Walk(a, size) ==
    LET walk[b \in 0 .. size] == IF b = size THEN <<>> ELSE <<b>> \o walk[FindNextBit(a, size, b + 1)]
    IN  walk

\* The next bit is the next member, or the end.
LEMMA NextBitStep ==
  ASSUME NEW n \in Nat, NEW a, NEW S, Means(a, S, n), NEW x \in 0 .. n - 1
  PROVE  LET next == FindNextBit(a, n, x + 1)
             later == {y \in S : y >= x + 1}
         IN  /\ next \in x + 1 .. n
             /\ next = n \/ next \in S
             /\ later = {y \in S : y >= next}
<1> DEFINE next == FindNextBit(a, n, x + 1)
           later == {y \in S : y >= x + 1}
<1>0. S \subseteq 0 .. n - 1 /\ n \in 0 .. n /\ x + 1 \in Nat /\ \A y \in S : y \in Nat /\ y < n
  BY DEF Means
<1>1. next = LeastOr(Between(S, x + 1, n), n) BY <1>0, NextBitIs
<1>2. Between(S, x + 1, n) = later BY <1>0 DEF Between
<1>3. CASE later = {}
  <2>1. next = n BY <1>1, <1>2, <1>3 DEF LeastOr
  <2>0. \A y \in S : ~(y >= n) BY <1>0
  <2>2. {y \in S : y >= n} = {} BY <2>0
  <2>3. n \in x + 1 .. n OBVIOUS
  <2> QED BY <2>1, <2>2, <2>3, <1>3
<1>4. CASE later # {}
  <2>1. later \subseteq Nat BY <1>0
  <2>2. Min(later) \in later /\ \A y \in later : Min(later) <= y
    <3> HIDE DEF later
    <3> QED BY <1>4, <2>1, MinIsLeast
  <2>3. next = Min(later) BY <1>1, <1>2, <1>4 DEF LeastOr
  <2>4. next \in S /\ next >= x + 1 /\ \A y \in S : y >= x + 1 => next <= y BY <2>2, <2>3
  <2> HIDE DEF next
  <2>5. next \in x + 1 .. n BY <1>0, <2>4
  <2>6. \A y \in S : y >= x + 1 <=> y >= next
    <3> TAKE y \in S
    <3>1. y \in Nat /\ next \in Nat /\ x + 1 \in Nat BY <1>0, <2>4
    <3> QED BY <2>4, <3>1
  <2>7. later = {y \in S : y >= next} BY <2>6
  <2> HIDE DEF later
  <2>8. next \in x + 1 .. n /\ (next = n \/ next \in S) /\ later = {y \in S : y >= next}
    BY <2>4, <2>5, <2>7
  <2> QED BY <2>8 DEF next, later
<1> QED BY <1>3, <1>4

\* for_each_set_bit goes on at the next bit, as long as there is one.
LEMMA WalkIs ==
  ASSUME NEW n \in Nat, NEW a, NEW S, Means(a, S, n)
  PROVE  \A x \in 0 .. n : Walk(a, n)[x] = IF x = n THEN <<>> ELSE <<x>> \o Walk(a, n)[FindNextBit(a, n, x + 1)]
<1> DEFINE next(x) == FindNextBit(a, n, x + 1)
           V == Seq(0 .. n)
           stop == [x \in 0 .. n |-> x = n]
           out == [x \in 0 .. n |-> <<>>]
           to == [x \in 0 .. n |-> next(x)]
           F == [p \in (0 .. n) \X V |-> <<p[1]>> \o p[2]]
           w == Walk(a, n)
<1>1. ASSUME NEW x \in 0 .. n PROVE stop[x] \/ to[x] \in x + 1 .. n
  <2>1. CASE x = n BY <2>1
  <2>2. CASE x # n
    <3>1. x \in 0 .. n - 1 BY <2>2
    <3>2. next(x) \in x + 1 .. n BY <3>1, NextBitStep
    <3> HIDE DEF next
    <3> QED BY <3>2
  <2> QED BY <2>1, <2>2
<1>2. out \in [0 .. n -> V] /\ F \in [(0 .. n) \X V -> V]
  <2>1. <<>> \in V OBVIOUS
  <2>2. \A x \in 0 .. n : <<x>> \in V OBVIOUS
  <2>3. \A u, v \in V : u \o v \in V OBVIOUS
  <2> HIDE DEF V
  <2> QED BY <2>1, <2>2, <2>3
<1>3. \E g : Follows(g, n, V, stop, out, to, F)
  <2> HIDE DEF V, stop, out, to, F
  <2> QED BY <1>1, <1>2, Following
<1>4. PICK g : Follows(g, n, V, stop, out, to, F) BY <1>3
<1>5. g = [x \in 0 .. n |-> IF x = n THEN <<>> ELSE <<x>> \o g[next(x)]]
  <2> DEFINE h == [x \in 0 .. n |-> IF x = n THEN <<>> ELSE <<x>> \o g[next(x)]]
  <2>1. g \in [0 .. n -> V] BY <1>4 DEF Follows
  <2>2. ASSUME NEW x \in 0 .. n PROVE g[x] = h[x]
    <3>1. g[x] = IF stop[x] THEN out[x] ELSE F[<<x, g[to[x]]>>] BY <1>4 DEF Follows
    <3>2. ~stop[x] => F[<<x, g[to[x]]>>] = <<x>> \o g[to[x]]
      <4>1. ~stop[x] => to[x] \in 0 .. n
        <5>1. \A z \in x + 1 .. n : z \in 0 .. n OBVIOUS
        <5> HIDE DEF stop, to
        <5> QED BY <1>1, <5>1
      <4> HIDE DEF stop, to, V
      <4> QED BY <2>1, <4>1
    <3> HIDE DEF next, F
    <3> QED BY <3>1, <3>2
  <2>3. g = [x \in 0 .. n |-> g[x]] /\ h = [x \in 0 .. n |-> h[x]] BY <2>1
  <2> HIDE DEF h
  <2>4. g = h BY <2>2, <2>3
  <2> QED BY <2>4 DEF h
<1>6. w = [x \in 0 .. n |-> IF x = n THEN <<>> ELSE <<x>> \o w[next(x)]]
  BY <1>5, Zenon DEF Walk
<1> HIDE DEF w, next
<1>7. \A x \in 0 .. n : w[x] = IF x = n THEN <<>> ELSE <<x>> \o w[next(x)] BY <1>6
<1> QED BY <1>7 DEF w, next

\* From a member on it visits the members that are not before it,
LEMMA WalkEnumerates ==
  ASSUME NEW n \in Nat, NEW a, NEW S, Means(a, S, n)
  PROVE  \A x \in S \union {n} : Enumerates(Walk(a, n)[x], {y \in S : y >= x})
<1> DEFINE w == Walk(a, n)
           Onward(x) == {y \in S : y >= x}
           Bad == {x \in S \union {n} : ~Enumerates(w[x], Onward(x))}
<1>0. S \subseteq 0 .. n - 1 /\ S \subseteq 0 .. n /\ n \in 0 .. n /\ \A y \in S : y \in Nat /\ y < n
  BY DEF Means
<1>1. ASSUME Bad # {} PROVE FALSE
  <2>0. Bad \subseteq 0 .. n BY <1>0
  <2> DEFINE x == Max(Bad)
  <2>1. x \in Bad /\ \A y \in Bad : y <= x
    <3> HIDE DEF Bad
    <3> QED BY <1>1, <2>0, MaxIsGreatest
  <2> HIDE DEF x
  <2>2. x \in S \union {n} /\ x \in 0 .. n /\ ~Enumerates(w[x], Onward(x)) BY <2>0, <2>1
  <2>3. w[x] = IF x = n THEN <<>> ELSE <<x>> \o w[FindNextBit(a, n, x + 1)] BY <2>2, WalkIs
  <2>4. CASE x = n
    <3>0. \A y \in S : ~(y >= n) BY <1>0
    <3>1. Onward(n) = {} BY <3>0
    <3>2. Enumerates(<<>>, {})
      <4>1. <<>> \in Seq({}) /\ Len(<<>>) = 0 /\ Cardinality({}) = 0 BY FS_EmptySet
      <4>2. 1 .. Len(<<>>) = {} BY <4>1
      <4> QED BY <4>1, <4>2 DEF Enumerates
    <3> HIDE DEF Onward, w
    <3> QED BY <2>2, <2>3, <2>4, <3>1, <3>2
  <2>5. CASE x # n
    <3> DEFINE next == FindNextBit(a, n, x + 1)
    <3>1. x \in 0 .. n - 1 /\ x \in S BY <1>0, <2>2, <2>5
    <3>2. next \in x + 1 .. n /\ (next = n \/ next \in S) /\ {y \in S : y >= x + 1} = Onward(next)
      BY <3>1, NextBitStep
    <3> HIDE DEF next
    <3>3. next \in S \union {n} /\ next > x /\ next \in Nat /\ x \in Nat BY <3>1, <3>2
    <3>4. next \notin Bad
      <4> HIDE DEF Bad
      <4>1. \A y \in Bad : y <= x BY <2>1
      <4>2. ~(next <= x) BY <3>3
      <4> QED BY <4>1, <4>2
    <3>5. Enumerates(w[next], Onward(next)) BY <3>3, <3>4
    <3>6. Onward(x) = Onward(next) \union {x} /\ Onward(next) \subseteq 0 .. n /\ \A y \in Onward(next) : x < y
      <4>1. \A y \in S : y >= x <=> y >= x + 1 \/ y = x BY <1>0, <3>3
      <4>2. Onward(x) = {y \in S : y >= x + 1} \union {x} BY <3>1, <3>3, <4>1
      <4>3. \A y \in S : y >= x + 1 => x < y BY <1>0, <3>3
      <4> QED BY <1>0, <3>2, <4>2, <4>3
    <3> HIDE DEF Onward
    <3>7. Enumerates(<<x>> \o w[next], Onward(next) \union {x}) BY <2>2, <3>5, <3>6, EnumeratesOneMore
    <3> HIDE DEF w
    <3> QED BY <2>2, <2>3, <2>5, <3>6, <3>7 DEF next
  <2> QED BY <2>4, <2>5
<1> QED BY <1>1

\* and from the first bit on all of them.
LEMMA ForEachIs ==
  ASSUME NEW n \in Nat, NEW a, NEW S, Means(a, S, n)
  PROVE  Enumerates(ForEachSetBit(a, n), S)
<1> DEFINE first == FindFirstBit(a, n)
<1>0. S \subseteq 0 .. n - 1 /\ S \subseteq Nat /\ \A y \in S : y \in Nat /\ y < n BY DEF Means
<1>1. first = IF S = {} THEN n ELSE Min(S) BY FirstAndLastAre
<1>2. S # {} => Min(S) \in S /\ \A y \in S : Min(S) <= y BY <1>0, MinIsLeast
<1>3. first \in S \union {n} /\ {y \in S : y >= first} = S
  <2> HIDE DEF first
  <2>1. CASE S = {} BY <1>1, <2>1
  <2>2. CASE S # {}
    <3>1. first \in S /\ \A y \in S : first <= y BY <1>1, <1>2, <2>2
    <3>2. \A y \in S : y >= first BY <1>0, <3>1
    <3> QED BY <3>1, <3>2
  <2> QED BY <2>1, <2>2
<1>4. ForEachSetBit(a, n) = Walk(a, n)[first] BY Zenon DEF ForEachSetBit, Walk
<1> HIDE DEF first
<1>5. Enumerates(Walk(a, n)[first], {y \in S : y >= first}) BY <1>3, WalkEnumerates
<1> QED BY <1>3, <1>4, <1>5

\* Setting the bits of a set one after the other, in any order.
Setting(bits, n) ==
    LET done[s \in SUBSET bits] ==
            IF s = {} THEN Zero(n)
            ELSE LET x == CHOOSE y \in s : TRUE IN SetBit(done[s \ {x}], x)
    IN  done

\* Whatever the order, the bits that are set in the end are those of the set.
LEMMA SetAllIs ==
  ASSUME NEW n \in Nat, NEW bits, bits \subseteq 0 .. n - 1
  PROVE  SetAll(bits, n) = ArrayOf(bits, n)
<1> DEFINE w == Setting(bits, n)
           g == [s \in SUBSET bits |-> ArrayOf(s, n)]
           any(s) == CHOOSE y \in s : TRUE
<1>1. ASSUME NEW s \in SUBSET bits, NEW x \in s
      PROVE  ArrayOf(s, n) = SetBit(ArrayOf(s \ {x}, n), x)
  <2> DEFINE k0 == x \div WordBits
             i0 == x % WordBits
             a == ArrayOf(s \ {x}, n)
  <2>1. x \in 0 .. n - 1 OBVIOUS
  <2>2. k0 \in Words(n) /\ i0 \in Offsets /\ x = Pos(k0, i0) BY <2>1, BitPlace
  <2>3. a = [k \in Words(n) |-> {i \in Offsets : Pos(k, i) \in s \ {x}}] BY DEF ArrayOf, Pos
  <2>4. SetBit(a, x) = [a EXCEPT ![k0] = @ \union {i0}] BY DEF SetBit
  <2> HIDE DEF a, k0, i0
  <2>5. ASSUME NEW k \in Words(n)
        PROVE  SetBit(a, x)[k] = {i \in Offsets : Pos(k, i) \in s}
    <3>1. ASSUME NEW i \in Offsets PROVE Pos(k, i) = x <=> k = k0 /\ i = i0
      <4>1. k \in Nat /\ k0 \in Nat BY <2>2, WordsNat
      <4>2. Pos(k, i) \div WordBits = k /\ Pos(k, i) % WordBits = i BY <4>1, PosPlace
      <4>3. Pos(k0, i0) \div WordBits = k0 /\ Pos(k0, i0) % WordBits = i0 BY <4>1, <2>2, PosPlace
      <4> QED BY <4>2, <4>3, <2>2
    <3>2. a[k] = {i \in Offsets : Pos(k, i) \in s \ {x}} BY <2>3
    <3>3. SetBit(a, x)[k] = IF k = k0 THEN a[k] \union {i0} ELSE a[k] BY <2>2, <2>3, <2>4
    <3> QED BY <2>2, <3>1, <3>2, <3>3
  <2>6. SetBit(a, x) = [k \in Words(n) |-> SetBit(a, x)[k]] BY <2>3, <2>4
  <2>7. ArrayOf(s, n) = [k \in Words(n) |-> {i \in Offsets : Pos(k, i) \in s}] BY DEF ArrayOf, Pos
  <2>8. ArrayOf(s, n) = SetBit(a, x) BY <2>5, <2>6, <2>7
  <2> QED BY <2>8 DEF a
<1>2. ArrayOf({}, n) = Zero(n) BY DEF ArrayOf, Zero
<1>3. \A s : s # {} => any(s) \in s OBVIOUS
<1>4. g = [s \in SUBSET bits |-> IF s = {} THEN Zero(n) ELSE SetBit(g[s \ {any(s)}], any(s))]
  <2>1. ASSUME NEW s \in SUBSET bits
        PROVE  g[s] = IF s = {} THEN Zero(n) ELSE SetBit(g[s \ {any(s)}], any(s))
    <3>1. CASE s = {} BY <3>1, <1>2
    <3>2. CASE s # {}
      <4>1. any(s) \in s /\ s \ {any(s)} \in SUBSET bits BY <3>2, <1>3
      <4> HIDE DEF any
      <4>2. ArrayOf(s, n) = SetBit(ArrayOf(s \ {any(s)}, n), any(s)) BY <4>1, <1>1
      <4> QED BY <3>2, <4>1, <4>2
    <3> QED BY <3>1, <3>2
  <2>2. g = [s \in SUBSET bits |-> g[s]] OBVIOUS
  <2> HIDE DEF g, any
  <2> QED BY <2>1, <2>2
<1>5. w = [s \in SUBSET bits |-> IF s = {} THEN Zero(n) ELSE SetBit(w[s \ {any(s)}], any(s))]
  <2> HIDE DEF g
  <2> QED BY <1>4, Zenon DEF Setting, w
<1> HIDE DEF w, any
<1>6. \A s \in SUBSET bits : w[s] = g[s]
  <2> DEFINE Bad == {s \in SUBSET bits : w[s] # g[s]}
             Sizes == {Cardinality(s) : s \in Bad}
  <2>1. SUFFICES ASSUME Bad # {} PROVE FALSE OBVIOUS
  <2>2. \A s \in SUBSET bits : IsFiniteSet(s) /\ Cardinality(s) \in Nat
    <3> TAKE s \in SUBSET bits
    <3>1. s \subseteq 0 .. n OBVIOUS
    <3> QED BY <3>1, Finite
  <2>3. Sizes \subseteq Nat /\ Sizes # {} BY <2>1, <2>2
  <2>4. PICK least \in Sizes : \A m \in Sizes : least <= m
    <3> HIDE DEF Sizes
    <3> QED BY <2>3, NatMin
  <2>5. PICK s \in Bad : \A m \in Sizes : Cardinality(s) <= m BY <2>4
  <2>6. s # {} BY <1>2, <1>5, <2>5
  <2>7. any(s) \in s /\ s \ {any(s)} \in SUBSET bits BY <1>3, <2>6
  <2>8. Cardinality(s \ {any(s)}) = Cardinality(s) - 1 /\ Cardinality(s) \in Nat
    BY <2>2, <2>7, FS_RemoveElement
  <2>9. s \ {any(s)} \notin Bad
    <3> DEFINE r == s \ {any(s)}
    <3>1. r \in Bad => Cardinality(r) \in Sizes OBVIOUS
    <3>2. Cardinality(r) = Cardinality(s) - 1 BY <2>8
    <3> HIDE DEF Bad, Sizes, r
    <3>3. r \in Bad => Cardinality(s) <= Cardinality(r) BY <3>1, <2>5
    <3>4. r \notin Bad BY <3>2, <3>3, <2>8
    <3> QED BY <3>4 DEF r
  <2>10. w[s \ {any(s)}] = g[s \ {any(s)}] BY <2>7, <2>9
  <2>11. w[s] = SetBit(w[s \ {any(s)}], any(s)) BY <1>5, <2>6
  <2>12. g[s] = SetBit(g[s \ {any(s)}], any(s))
    <3> HIDE DEF g
    <3> QED BY <1>4, <2>6
  <2> HIDE DEF g
  <2> QED BY <2>10, <2>11, <2>12
<1>7. SetAll(bits, n) = w[bits] BY DEF w, Setting, SetAll, FoldSet, MapThenFoldSet
<1> QED BY <1>6, <1>7

\* An array made for a set means it.
LEMMA ArrayMeans ==
  ASSUME NEW n \in Nat, NEW bits, bits \subseteq 0 .. n - 1
  PROVE  Means(ArrayOf(bits, n), bits, n) /\ BitsOf(ArrayOf(bits, n), n) = bits
<1>1. ArrayOf(bits, n) \in Arrays(n) BY DEF ArrayOf, Arrays, Word
<1>2. Means(ArrayOf(bits, n), bits, n) BY <1>1 DEF Means, ArrayOf, Pos
<1> QED BY <1>1, <1>2, MeansIsBitsOf

\* The place of a bit among the set ones, and back.
LEMMA PosToOrdIs ==
  ASSUME NEW n \in Nat, NEW a, NEW S, Means(a, S, n), NEW pos \in 0 .. n - 1
  PROVE  PosToOrd(a, pos, n) = IF pos \in S THEN Rank(S, pos) ELSE -1
<1>0. a \in Arrays(n) /\ S \in SUBSET (0 .. n - 1) /\ S \subseteq 0 .. n BY DEF Means
<1>1. TestBit(a, pos) <=> pos \in S
  <2>1. BitsOf(a, n) = S BY <1>0, MeansIsBitsOf
  <2> QED BY <2>1 DEF BitsOf
<1>2. ~(pos < 0) /\ ~(pos >= n) OBVIOUS
<1>3. CASE pos \notin S BY <1>1, <1>3 DEF PosToOrd
<1>4. CASE pos \in S
  <2> DEFINE walk == ForEachSetBit(a, n)
             before == {i \in DOMAIN walk : walk[i] < pos}
             r == Rank(S, pos)
  <2>1. PosToOrd(a, pos, n) = Cardinality(before) BY <1>1, <1>2, <1>4 DEF PosToOrd
  <2>2. Enumerates(walk, S) BY ForEachIs
  <2> HIDE DEF walk
  <2>3. DOMAIN walk = 1 .. Len(walk) /\ Len(walk) \in Nat /\ Len(walk) = Cardinality(S)
        /\ \A i \in 1 .. Len(walk) : walk[i] \in S /\ Rank(S, walk[i]) = i - 1
    BY <2>2 DEF Enumerates
  <2>4. r \in 0 .. Cardinality(S) - 1 BY <1>0, <1>4, RankIsBelow
  <2>5. ASSUME NEW i \in 1 .. Len(walk) PROVE walk[i] < pos <=> i <= r
    <3> DEFINE z == walk[i]
    <3>1. z \in S /\ Rank(S, z) = i - 1 BY <2>3
    <3> HIDE DEF z
    <3>2. z \in Nat /\ pos \in Nat BY <1>0, <3>1
    <3>3. z < pos => Rank(S, z) < r BY <1>0, <1>4, <3>1, RankGrows
    <3>4. pos < z => r < Rank(S, z) BY <1>0, <1>4, <3>1, RankGrows
    <3> HIDE DEF r
    <3>5. i \in Nat /\ r \in Nat BY <2>3, <2>4
    <3>6. z = pos => r = i - 1 BY <3>1 DEF r
    <3>7. z < pos <=> i <= r BY <3>1, <3>2, <3>3, <3>4, <3>5, <3>6
    <3> QED BY <3>7 DEF z
  <2> HIDE DEF r
  <2>6. before = 1 .. r
    <3>1. ASSUME NEW i \in 1 .. r PROVE i \in 1 .. Len(walk) /\ i <= r BY <2>3, <2>4
    <3>2. ASSUME NEW i \in 1 .. Len(walk), i <= r PROVE i \in 1 .. r BY <2>3, <2>4, <3>2
    <3> QED BY <2>3, <2>5, <3>1, <3>2
  <2>7. Cardinality(1 .. r) = r
    <3>1. 1 \in Int /\ r \in Int /\ r >= 0 BY <2>4
    <3>2. Cardinality(1 .. r) = IF 1 > r THEN 0 ELSE r - 1 + 1 BY <3>1, FS_Interval
    <3> QED BY <3>1, <3>2
  <2> QED BY <2>1, <2>6, <2>7, <1>4 DEF r
<1> QED BY <1>3, <1>4

\* Nth is the inverse of the rank.
LEMMA NthIs ==
  ASSUME NEW n \in Nat, NEW T, T \subseteq 0 .. n, NEW x \in T
  PROVE  Nth(T, Rank(T, x)) = x
<1>1. \A z \in T : Rank(T, z) = Rank(T, x) => z = x BY RankIsInjective
<1>2. Nth(T, Rank(T, x)) = CHOOSE z \in T : Rank(T, z) = Rank(T, x) BY Zenon DEF Nth, Rank
<1> QED BY <1>1, <1>2

\* bitmap_ord_to_pos gives the member with that rank.
LEMMA OrdToPosIs ==
  ASSUME NEW n \in Nat, NEW a, NEW S, Means(a, S, n), NEW ord \in 0 .. Cardinality(S) - 1
  PROVE  OrdToPos(a, ord, n) = Nth(S, ord) /\ Nth(S, ord) \in S
<1> DEFINE walk == ForEachSetBit(a, n)
           x == walk[ord + 1]
<1>0. S \subseteq 0 .. n - 1 /\ S \subseteq 0 .. n /\ Cardinality(S) \in Nat
  <2>1. S \subseteq 0 .. n - 1 /\ S \subseteq 0 .. n BY DEF Means
  <2> QED BY <2>1, Finite
<1>1. Enumerates(walk, S) BY ForEachIs
<1> HIDE DEF walk
<1>2. ord + 1 \in 1 .. Len(walk) /\ ord < Len(walk) BY <1>0, <1>1 DEF Enumerates
<1>3. x \in S /\ Rank(S, x) = ord
  <2>1. Rank(S, x) = (ord + 1) - 1 /\ x \in S BY <1>1, <1>2 DEF Enumerates
  <2> QED BY <2>1
<1>4. ord \in 0 .. n - 1
  <2>1. Cardinality(S) <= n
    <3>1. Cardinality(0 .. n - 1) = n /\ IsFiniteSet(0 .. n - 1)
      <4>1. 0 \in Int /\ n - 1 \in Int OBVIOUS
      <4>2. Cardinality(0 .. n - 1) = IF 0 > n - 1 THEN 0 ELSE (n - 1) - 0 + 1 BY <4>1, FS_Interval
      <4> QED BY <4>1, <4>2, FS_Interval
    <3> QED BY <1>0, <3>1, FS_Subset
  <2> QED BY <2>1, <1>0
<1>5. OrdToPos(a, ord, n) = x BY <1>2, <1>4 DEF OrdToPos, walk
<1> HIDE DEF x
<1>6. Nth(S, Rank(S, x)) = x BY <1>0, <1>3, NthIs
<1> QED BY <1>3, <1>5, <1>6

\* Where remapping takes a bit.
Image(S, T, b) == IF b \notin S \/ T = {} THEN b ELSE Nth(T, Rank(S, b) % Cardinality(T))

\* bitmap_bitremap takes a bit to its image.
LEMMA BitRemapIs ==
  ASSUME NEW n \in Nat, NEW old, NEW S, Means(old, S, n), NEW new, NEW T, Means(new, T, n),
         NEW b \in 0 .. n - 1
  PROVE  BitRemap(b, old, new, n) = Image(S, T, b) /\ Image(S, T, b) \in 0 .. n - 1
<1>0. S \subseteq 0 .. n /\ T \subseteq 0 .. n - 1 /\ T \subseteq 0 .. n BY DEF Means
<1>1. Weight(new, n) = Cardinality(T) BY WeightIs
<1>2. IsFiniteSet(T) /\ Cardinality(T) \in Nat /\ (Cardinality(T) = 0 <=> T = {})
  <2>1. IsFiniteSet(T) BY <1>0, Finite
  <2> QED BY <2>1, FS_EmptySet, FS_CardinalityType
<1> DEFINE ord == PosToOrd(old, b, n)
<1>3. ord = IF b \in S THEN Rank(S, b) ELSE -1 BY PosToOrdIs
<1>4. BitRemap(b, old, new, n) =
         IF ord < 0 \/ Weight(new, n) = 0 THEN b ELSE OrdToPos(new, ord % Weight(new, n), n)
  BY DEF BitRemap
<1> HIDE DEF ord
<1>5. CASE b \notin S
  <2>1. ord < 0 BY <1>3, <1>5
  <2> QED BY <1>4, <1>5, <2>1 DEF Image
<1>6. CASE T = {} BY <1>1, <1>2, <1>4, <1>6 DEF Image
<1>7. CASE b \in S /\ T # {}
  <2> DEFINE r == Rank(S, b) % Cardinality(T)
  <2>1. Rank(S, b) \in Nat
    <3>1. Rank(S, b) \in 0 .. Cardinality(S) - 1 BY <1>0, <1>7, RankIsBelow
    <3> QED BY <3>1
  <2>2. Cardinality(T) \in Nat \ {0} BY <1>2, <1>7
  <2>3. r \in 0 .. Cardinality(T) - 1 BY <2>1, <2>2
  <2>4. BitRemap(b, old, new, n) = OrdToPos(new, r, n)
    <3>1. ~(ord < 0) /\ ord = Rank(S, b) BY <1>3, <1>7, <2>1
    <3> QED BY <1>1, <1>4, <2>2, <3>1
  <2> HIDE DEF r
  <2>5. OrdToPos(new, r, n) = Nth(T, r) /\ Nth(T, r) \in T BY <2>3, OrdToPosIs
  <2>6. Image(S, T, b) = Nth(T, r) BY <1>7 DEF Image, r
  <2> QED BY <1>0, <2>4, <2>5, <2>6
<1> QED BY <1>5, <1>6, <1>7

\* bitmap_remap gives the images of the set bits.
LEMMA RemapIs ==
  ASSUME NEW n \in Nat, NEW src, NEW R, Means(src, R, n),
         NEW old, NEW S, Means(old, S, n), NEW new, NEW T, Means(new, T, n)
  PROVE  BitsOf(Remap(src, old, new, n), n) = {Image(S, T, b) : b \in R}
<1>0. R \subseteq 0 .. n - 1 /\ R \subseteq 0 .. n BY DEF Means
<1>1. Enumerates(ForEachSetBit(src, n), R) BY ForEachIs
<1>2. Range(ForEachSetBit(src, n)) = R BY <1>0, <1>1, EnumeratesRange
<1>3. \A b \in R : BitRemap(b, old, new, n) = Image(S, T, b) /\ Image(S, T, b) \in 0 .. n - 1
  <2> TAKE b \in R
  <2>1. b \in 0 .. n - 1 BY <1>0
  <2> QED BY <2>1, BitRemapIs
<1> DEFINE Q == {Image(S, T, b) : b \in R}
<1>4. {BitRemap(b, old, new, n) : b \in R} = Q /\ Q \subseteq 0 .. n - 1 BY <1>3
<1>5. Remap(src, old, new, n) = SetAll({BitRemap(b, old, new, n) : b \in R}, n) BY <1>2 DEF Remap
<1> HIDE DEF Q
<1>6. Remap(src, old, new, n) = ArrayOf(Q, n) BY <1>4, <1>5, SetAllIs
<1>7. BitsOf(ArrayOf(Q, n), n) = Q BY <1>4, ArrayMeans
<1> QED BY <1>6, <1>7 DEF Q

\* bitmap_onto gives the m-th bits of relmap, for the set bits m of orig.
LEMMA OntoIs ==
  ASSUME NEW n \in Nat, NEW orig, NEW S, Means(orig, S, n), NEW relmap, NEW T, Means(relmap, T, n)
  PROVE  BitsOf(Onto(orig, relmap, n), n) = {Nth(T, m) : m \in {i \in S : i < Cardinality(T)}}
<1> DEFINE walk == ForEachSetBit(relmap, n)
           Q == {walk[m] : m \in {i \in DOMAIN walk : TestBit(orig, i - 1)}}
           P == {Nth(T, m) : m \in {i \in S : i < Cardinality(T)}}
<1>0. S \subseteq 0 .. n - 1 /\ S \subseteq 0 .. n /\ T \subseteq 0 .. n - 1 /\ T \subseteq 0 .. n
      /\ Cardinality(T) \in Nat /\ orig \in Arrays(n) /\ S \in SUBSET (0 .. n - 1)
  <2>1. /\ S \subseteq 0 .. n - 1 /\ S \subseteq 0 .. n /\ T \subseteq 0 .. n - 1 /\ T \subseteq 0 .. n
        /\ orig \in Arrays(n)
    BY DEF Means
  <2> QED BY <2>1, Finite
<1>1. Cardinality(T) <= n
  <2>1. Cardinality(0 .. n - 1) = n /\ IsFiniteSet(0 .. n - 1)
    <3>1. 0 \in Int /\ n - 1 \in Int OBVIOUS
    <3>2. Cardinality(0 .. n - 1) = IF 0 > n - 1 THEN 0 ELSE (n - 1) - 0 + 1 BY <3>1, FS_Interval
    <3> QED BY <3>1, <3>2, FS_Interval
  <2> QED BY <1>0, <2>1, FS_Subset
<1>2. Enumerates(walk, T) BY ForEachIs
<1>3. Onto(orig, relmap, n) = SetAll(Q, n) BY DEF Onto
<1> HIDE DEF walk
<1>4. /\ DOMAIN walk = 1 .. Cardinality(T)
      /\ \A i \in 1 .. Cardinality(T) : walk[i] \in T /\ Rank(T, walk[i]) = i - 1
  BY <1>0, <1>2 DEF Enumerates
<1>5. \A b \in 0 .. n - 1 : TestBit(orig, b) <=> b \in S
  <2>1. BitsOf(orig, n) = S BY <1>0, MeansIsBitsOf
  <2> QED BY <2>1 DEF BitsOf
<1>6. \A i \in 1 .. Cardinality(T) : walk[i] = Nth(T, i - 1)
  <2> TAKE i \in 1 .. Cardinality(T)
  <2> DEFINE x == walk[i]
  <2>1. x \in T /\ Rank(T, x) = i - 1 BY <1>4
  <2> HIDE DEF x
  <2>2. Nth(T, Rank(T, x)) = x BY <1>0, <2>1, NthIs
  <2> QED BY <2>1, <2>2 DEF x
<1>7. ASSUME NEW q \in Q PROVE q \in P /\ q \in 0 .. n - 1
  <2>1. PICK i \in DOMAIN walk : TestBit(orig, i - 1) /\ q = walk[i] OBVIOUS
  <2>2. i \in 1 .. Cardinality(T) /\ i - 1 \in 0 .. n - 1 /\ i - 1 < Cardinality(T) BY <1>0, <1>1, <1>4, <2>1
  <2>3. i - 1 \in S BY <1>5, <2>1, <2>2
  <2>4. q = Nth(T, i - 1) /\ q \in T BY <1>4, <1>6, <2>1, <2>2
  <2> QED BY <1>0, <2>2, <2>3, <2>4
<1>8. ASSUME NEW p \in P PROVE p \in Q
  <2>1. PICK m \in S : m < Cardinality(T) /\ p = Nth(T, m) OBVIOUS
  <2>2. m \in 0 .. n - 1 /\ m + 1 \in 1 .. Cardinality(T) /\ (m + 1) - 1 = m BY <1>0, <2>1
  <2>3. TestBit(orig, m) BY <1>5, <2>2
  <2>4. walk[m + 1] = p
    <3> DEFINE j == m + 1
    <3>1. j \in 1 .. Cardinality(T) /\ j - 1 = m BY <2>2
    <3> HIDE DEF j
    <3>2. walk[j] = Nth(T, j - 1) BY <1>6, <3>1
    <3> QED BY <2>1, <3>1, <3>2 DEF j
  <2>5. m + 1 \in DOMAIN walk /\ TestBit(orig, (m + 1) - 1) BY <1>4, <2>2, <2>3
  <2> QED BY <2>4, <2>5
<1> HIDE DEF Q, P
<1>9. Q = P /\ Q \subseteq 0 .. n - 1 BY <1>7, <1>8
<1>10. SetAll(Q, n) = ArrayOf(Q, n) /\ BitsOf(ArrayOf(Q, n), n) = Q BY <1>9, SetAllIs, ArrayMeans
<1> QED BY <1>3, <1>9, <1>10 DEF P

\* bitmap_fold gives the bits modulo the size.
LEMMA FoldIs ==
  ASSUME NEW n \in Nat, NEW orig, NEW S, Means(orig, S, n), NEW sz \in 1 .. n
  PROVE  BitsOf(Fold(orig, sz, n), n) = {b % sz : b \in S}
<1> DEFINE Q == {b % sz : b \in S}
<1>0. S \subseteq 0 .. n - 1 /\ S \subseteq 0 .. n BY DEF Means
<1>1. Enumerates(ForEachSetBit(orig, n), S) BY ForEachIs
<1>2. Range(ForEachSetBit(orig, n)) = S BY <1>0, <1>1, EnumeratesRange
<1>3. Fold(orig, sz, n) = SetAll(Q, n) BY <1>2 DEF Fold
<1>4. Q \subseteq 0 .. n - 1
  <2>1. ASSUME NEW b \in S PROVE b % sz \in 0 .. n - 1
    <3>1. b \in Nat /\ sz \in Nat \ {0} /\ sz <= n BY <1>0
    <3>2. b % sz \in 0 .. sz - 1 BY <3>1
    <3> QED BY <3>1, <3>2
  <2> QED BY <2>1
<1> HIDE DEF Q
<1>5. SetAll(Q, n) = ArrayOf(Q, n) /\ BitsOf(ArrayOf(Q, n), n) = Q BY <1>4, SetAllIs, ArrayMeans
<1> QED BY <1>3, <1>5 DEF Q

\* The maps agree with the sets.
LEMMA MapsAreRight == BitmapsMean => MapsAgree
<1> SUFFICES ASSUME BitmapsMean PROVE MapsAgree OBVIOUS
<1> DEFINE a == map["a"]
           b == map["b"]
           S == set["a"]
           T == set["b"]
<1>0. nbits \in Nat /\ Universe = 0 .. nbits - 1 /\ Means(a, S, nbits) /\ Means(b, T, nbits)
  BY MaxBitsAssumption DEF BitmapsMean, Universe, Map
<1> HIDE DEF a, b, S, T
<1>1. \A x \in Universe : BitRemap(x, a, b, nbits) = Image(S, T, x) BY <1>0, BitRemapIs
<1>2. \A R \in {S, T, Universe} :
         BitsOf(Remap(ArrayOf(R, nbits), a, b, nbits), nbits) = {Image(S, T, x) : x \in R}
  <2> TAKE R \in {S, T, Universe}
  <2>1. R \subseteq 0 .. nbits - 1 BY <1>0 DEF Means
  <2>2. Means(ArrayOf(R, nbits), R, nbits) BY <1>0, <2>1, ArrayMeans
  <2> QED BY <1>0, <2>2, RemapIs
<1>3. BitsOf(Onto(a, b, nbits), nbits) = {Nth(T, m) : m \in {i \in S : i < Cardinality(T)}}
  BY <1>0, OntoIs
<1>4. \A sz \in 1 .. nbits : BitsOf(Fold(a, sz, nbits), nbits) = {x % sz : x \in S} BY <1>0, FoldIs
<1> QED BY <1>1, <1>2, <1>3, <1>4, Zenon DEF MapsAgree, Image, Rank, a, b, S, T

----------------------------------------------------------------------------
\* Bitmaps that mean their sets are right ...
LEMMA MeaningBitmaps == ASSUME BitmapsMean PROVE BitmapsAreSets
<1>1. nbits \in Nat BY MaxBitsAssumption DEF BitmapsMean
<1>2. \A m \in Map : BitsOf(map[m], nbits) = set[m]
  BY <1>1, MeansIsBitsOf DEF BitmapsMean, Universe
<1> QED BY <1>2 DEF BitmapsMean, BitmapsTypeOK, BitmapsAreSets

\* ... and so are all answers about them.
LEMMA MeaningAnswers == ASSUME BitmapsMean PROVE AnswersAgree
BY FindsAreRight, QuestionsAreRight, AreasAreRight, MapsAreRight DEF AnswersAgree
============================================================================
