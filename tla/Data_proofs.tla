----------------------------- MODULE Data_proofs -----------------------------
(***************************************************************************)
(* What the data run checks of bitmaps and regions, for words and bitmaps  *)
(* of any size.  The bitmaps are those of Bitmaps_proofs.  Regions are     *)
(* exclusive for words of any power of two bits and regions of any order.  *)
(* The key is RegionIsInterval: the words and masks that __reg_op makes    *)
(* cover exactly the bits of the region when it is aligned, within a word  *)
(* or over several, since two powers of two divide one another.  Then      *)
(* claiming and releasing are union and difference of sets of bits, and    *)
(* the invariant is that every region that is held is aligned and apart    *)
(* from the others.                                                        *)
(***************************************************************************)
EXTENDS MCData, Bitmaps_proofs

\* Powers of two are positive ...
LEMMA PowPos == \A n \in Nat : 2^n \in Nat \ {0}
<1> TAKE n \in Nat
<1>1. IsFiniteSet(1..n) /\ Cardinality(1..n) = n BY FS_Interval
<1>2. Cardinality(SUBSET (1..n)) = 2^n /\ IsFiniteSet(SUBSET (1..n)) BY <1>1, FS_SUBSET
<1>3. 2^n \in Nat BY <1>2, FS_CardinalityType
<1>4. {} \in SUBSET (1..n) OBVIOUS
<1>5. Cardinality(SUBSET (1..n)) # 0 BY <1>2, <1>4, FS_EmptySet
<1> QED BY <1>2, <1>3, <1>5

\* ... and the next one is twice as much.
LEMMA PowNext == ASSUME NEW n \in Nat PROVE 2^(n+1) = 2 * 2^n
<1> DEFINE A == SUBSET (1..n)
           B == {S \union {n+1} : S \in A}
           E == SUBSET (1..n+1)
<1>1. IsFiniteSet(1..n) /\ Cardinality(1..n) = n /\ IsFiniteSet(1..n+1) /\ Cardinality(1..n+1) = n+1 
  BY FS_Interval
<1>2. Cardinality(A) = 2^n /\ IsFiniteSet(A) BY <1>1, FS_SUBSET
<1>3. Cardinality(E) = 2^(n+1) /\ IsFiniteSet(E) BY <1>1, FS_SUBSET
<1>4. ExistsBijection(A, B)
  <2> DEFINE f == [S \in A |-> S \union {n+1}]
  <2>1. \A S \in A : n+1 \notin S OBVIOUS
  <2>2. f \in [A -> B] OBVIOUS
  <2>3. \A S, V \in A : f[S] = f[V] => S = V
    <3> TAKE S, V \in A
    <3>1. S = f[S] \ {n+1} /\ V = f[V] \ {n+1} BY <2>1
    <3> QED BY <3>1
  <2>4. \A U \in B : \E S \in A : f[S] = U OBVIOUS
  <2> HIDE DEF A, B, f
  <2>5. f \in Bijection(A, B)
    BY <2>2, <2>3, <2>4, Zenon DEF Bijection, Injection, Surjection, IsInjective
  <2> QED BY <2>5 DEF ExistsBijection
<1>5. IsFiniteSet(B) /\ Cardinality(B) = 2^n BY <1>2, <1>4, FS_Bijection
<1>6. A \cap B = {} OBVIOUS
<1>7. A \union B = E
  <2>1. \A S \in E : S \in A \/ S \in B
    <3> TAKE S \in E
    <3>1. CASE n+1 \in S
      <4>1. S \ {n+1} \in A OBVIOUS
      <4>2. S = (S \ {n+1}) \union {n+1} BY <3>1
      <4> QED BY <4>1, <4>2
    <3>2. CASE n+1 \notin S
      <4>1. \A x \in S : x \in 1 .. n BY <3>2
      <4> QED BY <4>1
    <3> QED BY <3>1, <3>2
  <2>2. \A S \in A : S \in E OBVIOUS
  <2>3. \A S \in B : S \in E OBVIOUS
  <2> QED BY <2>1, <2>2, <2>3
<1>8. Cardinality(A \cap B) = 0 BY <1>6, FS_EmptySet
<1> HIDE DEF A, B, E
<1>9. Cardinality(A \union B) = Cardinality(A) + Cardinality(B) - Cardinality(A \cap B) BY <1>2, <1>5, FS_Union
<1>10. 2^n \in Nat BY PowPos
<1>11. Cardinality(E) = 2^n + 2^n - 0 BY <1>2, <1>5, <1>7, <1>8, <1>9
<1> QED BY <1>3, <1>10, <1>11

\* A power of two divides the larger ones.
LEMMA PowDivides ==
  ASSUME NEW m \in Nat, NEW n \in Nat, m <= n
  PROVE  \E c \in Nat \ {0} : 2^n = 2^m * c
<1> DEFINE Ok(k) == \E c \in Nat \ {0} : 2^k = 2^m * c
           Bad == {k \in Nat : m <= k /\ ~Ok(k)}
<1>1. 2^m \in Nat \ {0} BY PowPos
<1>2. Ok(m)
  <2>1. 2^m = 2^m * 1 BY <1>1
  <2> QED BY <2>1
<1>3. ASSUME NEW k \in Nat, m <= k, Ok(k) PROVE Ok(k + 1)
  <2>1. PICK c \in Nat \ {0} : 2^k = 2^m * c BY <1>3
  <2>2. 2^(k + 1) = 2 * 2^k BY PowNext
  <2>3. 2^(k + 1) = 2^m * (2 * c) BY <2>1, <2>2, <1>1
  <2>4. 2 * c \in Nat \ {0} OBVIOUS
  <2> QED BY <2>3, <2>4
<1> HIDE DEF Ok
<1>4. ASSUME Bad # {} PROVE FALSE
  <2>1. PICK x \in Bad : \A y \in Bad : x <= y BY <1>4, NatMin
  <2>2. x # m /\ x \in Nat /\ m <= x BY <1>2
  <2>3. x - 1 \in Nat /\ m <= x - 1 BY <2>2
  <2>4. x - 1 \notin Bad BY <2>1, <2>3
  <2>5. Ok((x - 1) + 1) BY <1>3, <2>3, <2>4
  <2> QED BY <2>2, <2>5
<1>5. Ok(n) BY <1>4
<1> QED BY <1>5 DEF Ok

\* A word has a power of two bits: a region smaller than a word divides it,
\* and a word divides every other region.
LEMMA Divides ==
  ASSUME NEW order \in Nat
  PROVE  /\ WordBits \in Nat \ {0} /\ 2^order \in Nat \ {0}
         /\ 2^order < WordBits => \E c \in Nat \ {0} : WordBits = 2^order * c
         /\ WordBits <= 2^order => \E c \in Nat \ {0} : 2^order = WordBits * c
<1>1. PICK w \in 0 .. WordBits : WordBits = 2^w BY RegionsAssumption DEF R!RegionAssumption
<1>2. w \in Nat BY RegionsAssumption DEF R!RegionAssumption
<1>3. WordBits \in Nat \ {0} /\ 2^order \in Nat \ {0} BY PowPos, <1>1, <1>2
<1>4. CASE order <= w
  <2>1. PICK c \in Nat \ {0} : WordBits = 2^order * c BY <1>1, <1>2, <1>4, PowDivides
  <2>2. WordBits <= 2^order => 2^order = WordBits * 1 BY <2>1, <1>3
  <2> QED BY <2>1, <2>2, <1>3
<1>5. CASE w <= order
  <2>1. PICK c \in Nat \ {0} : 2^order = WordBits * c BY <1>1, <1>2, <1>5, PowDivides
  <2>2. ~(2^order < WordBits) BY <2>1, <1>3
  <2> QED BY <2>1, <2>2, <1>3
<1> QED BY <1>2, <1>4, <1>5

Touches(pos, order, b) ==
    /\ b \div WordBits \in DOMAIN R!Region(pos, order)
    /\ b % WordBits \in R!Region(pos, order)[b \div WordBits]

\* __reg_op looks at the bits of an aligned region, all of them and no other.
LEMMA RegionIsInterval ==
  ASSUME NEW order \in Nat, NEW pos \in Nat, pos % 2^order = 0, NEW b \in Nat
  PROVE  Touches(pos, order, b) <=> b \in pos .. pos + 2^order - 1
<1> DEFINE len == 2^order
           W == WordBits
           idx == pos \div W
           m == pos % W
           bd == b \div W
           bm == b % W
           a == pos \div len
<1>1. W \in Nat \ {0} /\ len \in Nat \ {0} BY Divides
<1>2. pos = idx * W + m /\ idx \in Nat /\ m \in 0 .. W - 1 BY <1>1, DivDef
<1>3. b = bd * W + bm /\ bd \in Nat /\ bm \in 0 .. W - 1 BY <1>1, DivDef
<1>4. pos = a * len /\ a \in Nat
  <2>1. pos = a * len + (pos % len) /\ a \in Nat BY <1>1, DivDef
  <2> QED BY <2>1, <1>1
<1> HIDE DEF idx, m, bd, bm, a
<1>5. CASE len < W
  <2>1. PICK c \in Nat \ {0} : W = len * c BY <1>5, Divides
  <2>2. m = len * (a - idx * c) /\ idx * c \in Nat
    <3>1. idx * W = len * (idx * c) BY <1>1, <1>2, <2>1
    <3>2. idx * c \in Nat BY <1>2, <2>1
    <3> QED BY <3>1, <3>2, <1>1, <1>2, <1>4
  <2>3. m + len <= W
    <3> DEFINE j == a - idx * c
    <3>1. j \in Int /\ m = len * j BY <2>2, <1>4
    <3> HIDE DEF j
    <3>2. len * j < len * c BY <3>1, <2>1, <1>2
    <3>3. j < c BY <3>1, <3>2, <1>1
    <3>4. j + 1 <= c BY <3>1, <3>3
    <3>5. len * (j + 1) <= len * c BY <3>4, <3>1, <1>1
    <3>6. len * (j + 1) = len * j + len BY <3>1, <1>1
    <3> QED BY <3>1, <3>5, <3>6, <2>1
  <2>4. R!ToLongs(len) = 1
    <3>1. (1 * W + (len - 1)) \div W = 1 BY <1>1, <1>5, DivUnique
    <3> QED BY <3>1, <1>1 DEF R!ToLongs
  <2> DEFINE bits == {x + m : x \in 0 .. len - 1}
  <2>5. R!Region(pos, order) = [k \in idx .. idx |-> bits \intersect (0 .. W - 1)]
    BY <2>4, <1>5, <1>1, <1>2 DEF R!Region, R!Shl, R!LowMask, R!Offsets, idx, m
  <2>6. Touches(pos, order, b) <=> bd = idx /\ bm \in bits
    <3> HIDE DEF bits
    <3>1. idx .. idx = {idx} BY <1>2
    <3>2. Touches(pos, order, b) <=> bd \in DOMAIN R!Region(pos, order) /\ bm \in R!Region(pos, order)[bd]
      BY Zenon DEF Touches, bd, bm
    <3> QED BY <3>1, <3>2, <2>5, <1>3
  <2>7. ASSUME bd = idx, NEW x \in 0 .. len - 1, bm = x + m PROVE b \in pos .. pos + len - 1
    <3>1. b = pos + x BY <2>7, <1>1, <1>2, <1>3
    <3> QED BY <3>1, <1>1
  <2>8. ASSUME b \in pos .. pos + len - 1 PROVE bd = idx /\ bm = (b - pos) + m /\ b - pos \in 0 .. len - 1
    <3>1. b - pos \in 0 .. len - 1 BY <2>8, <1>1
    <3>2. (b - pos) + m \in 0 .. W - 1 BY <3>1, <2>3, <1>1, <1>2
    <3>3. b = idx * W + ((b - pos) + m) BY <1>1, <1>2, <3>1
    <3> DEFINE r == (b - pos) + m
    <3>4. r \in 0 .. W - 1 /\ b = idx * W + r BY <3>2, <3>3
    <3> HIDE DEF r
    <3>5. b \div W = idx /\ b % W = r BY <3>4, <1>1, <1>2, DivUnique
    <3> QED BY <3>1, <3>5 DEF bd, bm, r
  <2> QED BY <2>6, <2>7, <2>8
<1>6. CASE W <= len
  <2>1. PICK c \in Nat \ {0} : len = W * c BY <1>6, Divides
  <2>2. m = 0 /\ idx = c * a
    <3>1. c * a \in Nat BY <2>1, <1>4
    <3>2. pos = (c * a) * W + 0 BY <2>1, <1>1, <1>4
    <3> DEFINE q == c * a
    <3> HIDE DEF q
    <3>3. q \in Nat /\ pos = q * W + 0 BY <3>1, <3>2 DEF q
    <3>4. 0 \in 0 .. W - 1 BY <1>1
    <3>5. (q * W + 0) \div W = q /\ (q * W + 0) % W = 0 BY <3>3, <3>4, <1>1, DivUnique
    <3> QED BY <3>3, <3>5 DEF idx, m, q
  <2>3. R!ToLongs(len) = c
    <3>1. (c * W + (W - 1)) \div W = c BY <1>1, <2>1, DivUnique
    <3>2. len + W - 1 = c * W + (W - 1) BY <2>1, <1>1
    <3> QED BY <3>1, <3>2 DEF R!ToLongs
  <2>4. R!Shl(R!LowMask(W), 0) = 0 .. W - 1 BY <1>1 DEF R!Shl, R!LowMask, R!Offsets
  <2>5. R!Region(pos, order) = [k \in idx .. idx + c - 1 |-> 0 .. W - 1]
    BY <2>2, <2>3, <2>4, <1>6, <1>1 DEF R!Region, idx, m
  <2>6. Touches(pos, order, b) <=> bd \in idx .. idx + c - 1
    <3>1. Touches(pos, order, b) <=> bd \in DOMAIN R!Region(pos, order) /\ bm \in R!Region(pos, order)[bd]
      BY Zenon DEF Touches, bd, bm
    <3> QED BY <3>1, <2>5, <1>3
  <2>7. pos + len = (idx + c) * W
    <3>1. (idx + c) * W = idx * W + c * W BY <1>1, <1>2, <2>1
    <3>2. idx * W \in Nat /\ pos = idx * W BY <1>1, <1>2, <2>2
    <3>3. c * W = len BY <1>1, <2>1
    <3> QED BY <3>1, <3>2, <3>3
  <2>8. idx <= bd <=> pos <= b
    <3>1. idx <= bd => idx * W <= bd * W BY <1>1, <1>2, <1>3
    <3>2. bd + 1 <= idx => (bd + 1) * W <= idx * W BY <1>1, <1>2, <1>3
    <3>3. (bd + 1) * W = bd * W + W BY <1>1, <1>3
    <3>4. bd * W \in Nat /\ idx * W \in Nat BY <1>1, <1>2, <1>3
    <3>5. pos = idx * W BY <3>4, <1>2, <2>2
    <3> QED BY <3>1, <3>2, <3>3, <3>4, <3>5, <1>1, <1>2, <1>3
  <2>9. bd < idx + c <=> b < pos + len
    <3>1. idx + c <= bd => (idx + c) * W <= bd * W BY <1>1, <1>2, <1>3, <2>1
    <3>2. bd + 1 <= idx + c => (bd + 1) * W <= (idx + c) * W BY <1>1, <1>2, <1>3, <2>1
    <3>3. (bd + 1) * W = bd * W + W BY <1>1, <1>3
    <3>4. bd * W \in Nat /\ (idx + c) * W \in Nat BY <1>1, <1>2, <1>3, <2>1
    <3> QED BY <3>1, <3>2, <3>3, <3>4, <1>1, <1>2, <1>3, <2>1, <2>7
  <2> QED BY <2>6, <2>8, <2>9, <1>1, <1>2, <1>3, <2>1
<1> QED BY <1>1, <1>5, <1>6

\* The words and masks of a region.
LEMMA RegionType ==
  ASSUME NEW order \in Nat, NEW pos \in Nat
  PROVE  \A k \in DOMAIN R!Region(pos, order) :
            k \in Nat /\ R!Region(pos, order)[k] \subseteq 0 .. WordBits - 1
<1>1. WordBits \in Nat \ {0} /\ 2^order \in Nat \ {0} BY Divides
<1>2. pos \div WordBits \in Nat BY <1>1, DivDef
<1> QED BY <1>1, <1>2 DEF R!Region, R!Shl, R!Offsets

\* A bit of the bitmap lies in one of its words.
LEMMA RegionBitPlace ==
  ASSUME NEW n \in Nat, NEW b \in 0 .. n - 1
  PROVE  b \div WordBits \in R!Words(n) /\ b % WordBits \in 0 .. WordBits - 1 /\ b \in Nat
<1> DEFINE W == WordBits
           q == (n - 1) \div W
           r == (n - 1) % W
<1>1. W \in Nat \ {0} /\ 0 \in Nat BY Divides
<1>2. n - 1 \in Nat /\ b \in Nat OBVIOUS
<1>3. n - 1 = q * W + r /\ q \in Nat /\ r \in 0 .. W - 1 BY <1>1, <1>2, DivDef
<1>4. b = (b \div W) * W + (b % W) /\ b \div W \in Nat /\ b % W \in 0 .. W - 1 BY <1>1, <1>2, DivDef
<1> DEFINE bd == b \div W
<1>5. R!ToLongs(n) = q + 1
  <2> HIDE DEF q, r
  <2>1. ((q + 1) * W + r) \div W = q + 1 BY <1>1, <1>3, DivUnique
  <2>2. (q + 1) * W = q * W + W BY <1>1, <1>3
  <2>3. n + W - 1 = (q + 1) * W + r BY <1>1, <1>3, <2>2
  <2> QED BY <2>1, <2>3 DEF R!ToLongs
<1>6. bd <= q
  <2>1. bd \in Nat /\ q \in Nat /\ r \in 0 .. W - 1 /\ bd * W <= q * W + r BY <1>1, <1>2, <1>3, <1>4
  <2> HIDE DEF bd, q, r
  <2>2. q + 1 <= bd => (q + 1) * W <= bd * W BY <2>1, <1>1
  <2>3. (q + 1) * W = q * W + W BY <2>1, <1>1
  <2>4. q * W \in Nat /\ bd * W \in Nat BY <2>1, <1>1
  <2> QED BY <2>1, <2>2, <2>3, <2>4, <1>1
<1> QED BY <1>1, <1>3, <1>4, <1>5, <1>6 DEF R!Words

----------------------------------------------------------------------------
Bits(pos, order) == pos .. pos + 2^order - 1

\* Claiming an aligned region sets its bits, releasing it clears them.
LEMMA AllocSetsRegion ==
  ASSUME NEW n \in Nat, NEW a \in R!Arrays(n), NEW order \in Nat, NEW pos \in Nat, pos % 2^order = 0
  PROVE  /\ R!Alloc(a, pos, order) \in R!Arrays(n)
         /\ R!BitsOf(R!Alloc(a, pos, order), n) = R!BitsOf(a, n) \union (Bits(pos, order) \intersect (0 .. n - 1))
<1>1. R!Alloc(a, pos, order) \in R!Arrays(n) BY RegionType DEF R!Alloc, R!Arrays, R!Word, R!Offsets
<1>2. ASSUME NEW b \in 0 .. n - 1
      PROVE  b \in R!BitsOf(R!Alloc(a, pos, order), n) <=> b \in R!BitsOf(a, n) \/ b \in Bits(pos, order)
  <2>1. b \div WordBits \in R!Words(n) /\ b \in Nat BY RegionBitPlace
  <2>2. Touches(pos, order, b) <=> b \in Bits(pos, order) BY <2>1, RegionIsInterval DEF Bits
  <2>3. DOMAIN a = R!Words(n) BY DEF R!Arrays
  <2> QED BY <2>1, <2>2, <2>3 DEF R!BitsOf, R!TestBit, R!Alloc, Touches
<1> QED BY <1>1, <1>2 DEF R!BitsOf

\* Releasing an aligned region clears its bits and no other.
LEMMA ReleaseClearsRegion ==
  ASSUME NEW n \in Nat, NEW a \in R!Arrays(n), NEW order \in Nat, NEW pos \in Nat, pos % 2^order = 0
  PROVE  /\ R!Release(a, pos, order) \in R!Arrays(n)
         /\ R!BitsOf(R!Release(a, pos, order), n) = R!BitsOf(a, n) \ Bits(pos, order)
<1>1. R!Release(a, pos, order) \in R!Arrays(n) BY RegionType DEF R!Release, R!Arrays, R!Word, R!Offsets
<1>2. ASSUME NEW b \in 0 .. n - 1
      PROVE  b \in R!BitsOf(R!Release(a, pos, order), n) <=> b \in R!BitsOf(a, n) /\ b \notin Bits(pos, order)
  <2>1. b \div WordBits \in R!Words(n) /\ b \in Nat BY RegionBitPlace
  <2>2. Touches(pos, order, b) <=> b \in Bits(pos, order) BY <2>1, RegionIsInterval DEF Bits
  <2>3. DOMAIN a = R!Words(n) BY DEF R!Arrays
  <2> QED BY <2>1, <2>2, <2>3 DEF R!BitsOf, R!TestBit, R!Release, Touches
<1> QED BY <1>1, <1>2 DEF R!BitsOf

\* An aligned region within the bitmap is found free when it has no set bit.
LEMMA FreeIsDisjoint ==
  ASSUME NEW n \in Nat, NEW a \in R!Arrays(n), NEW order \in Nat, NEW pos \in Nat,
         pos % 2^order = 0, pos + 2^order <= n
  PROVE  R!IsFree(a, pos, order) <=> Bits(pos, order) \intersect R!BitsOf(a, n) = {}
<1>0. WordBits \in Nat \ {0} /\ 2^order \in Nat \ {0} BY Divides
<1>1. ASSUME R!IsFree(a, pos, order), NEW b \in Bits(pos, order), b \in R!BitsOf(a, n) PROVE FALSE
  <2>1. b \in Nat BY <1>0 DEF Bits
  <2>2. Touches(pos, order, b) BY <2>1, RegionIsInterval DEF Bits
  <2> QED BY <1>1, <2>2 DEF Touches, R!IsFree, R!BitsOf, R!TestBit
<1>2. ASSUME ~R!IsFree(a, pos, order) PROVE Bits(pos, order) \intersect R!BitsOf(a, n) # {}
  <2>1. PICK k \in DOMAIN R!Region(pos, order) : a[k] \intersect R!Region(pos, order)[k] # {}
    BY <1>2 DEF R!IsFree
  <2>2. PICK x \in 0 .. WordBits - 1 : x \in a[k] /\ x \in R!Region(pos, order)[k] BY <2>1, RegionType
  <2>3. k \in Nat BY RegionType
  <2> DEFINE b == k * WordBits + x
  <2>4. b \in Nat /\ b \div WordBits = k /\ b % WordBits = x
    <3>1. b \div WordBits = k /\ b % WordBits = x BY <1>0, <2>2, <2>3, DivUnique
    <3> QED BY <3>1, <1>0, <2>2, <2>3
  <2> HIDE DEF b
  <2>5. Touches(pos, order, b) BY <2>2, <2>4 DEF Touches
  <2>6. b \in Bits(pos, order) BY <2>4, <2>5, RegionIsInterval DEF Bits
  <2>7. b \in 0 .. n - 1 BY <2>4, <2>6, <1>0 DEF Bits
  <2>8. b \in R!BitsOf(a, n) BY <2>2, <2>4, <2>7 DEF R!BitsOf, R!TestBit
  <2> QED BY <2>6, <2>8
<1> QED BY <1>1, <1>2

\* The search ends at a free region when there is one.
LEMMA FirstFreeRegion ==
  ASSUME NEW order \in Nat, nbits \in Nat, R!FreeRegions(order) # {}
  PROVE  R!Min(R!FreeRegions(order)) \in R!FreeRegions(order)
<1>1. R!FreeRegions(order) \subseteq Nat BY DEF R!FreeRegions, R!Candidates, R!Universe
<1>2. \E x \in R!FreeRegions(order) : \A y \in R!FreeRegions(order) : x <= y BY <1>1, NatMin
<1> QED BY <1>2, Zenon DEF R!Min

----------------------------------------------------------------------------
\* Only aligned regions are handed out: a release clears its own bits.
HeldAligned == \A r \in held : r[1] % 2^r[2] = 0
RegionsInv == R!RegionsTypeOK /\ R!RegionsAreBits /\ HeldAligned

Taken == fixed \union UNION {R!BitsOfRegion(r) : r \in held}

\* At first no region is held.
LEMMA InitInv == R!Init => RegionsInv
<1> SUFFICES ASSUME R!Init PROVE RegionsInv OBVIOUS
<1>1. held = {} BY DEF R!Init
<1>2. R!BitsOf(map, nbits) \subseteq R!Universe BY DEF R!BitsOf, R!Universe
<1> QED BY <1>1, <1>2 DEF R!Init, RegionsInv, R!RegionsTypeOK, R!RegionsAreBits, HeldAligned

\* A region is handed out when none of its bits is set.
LEMMA HandOut ==
  ASSUME RegionsInv, NEW order \in 0 .. MaxOrder, NEW pos \in R!Candidates(order), R!IsFree(map, pos, order),
         map' = R!Alloc(map, pos, order), held' = held \union {<<pos, order>>}, UNCHANGED <<nbits, fixed>>
  PROVE  RegionsInv'
<1> DEFINE new == <<pos, order>>
<1>0. order \in Nat /\ 2^order \in Nat \ {0} BY RegionsAssumption, Divides DEF R!RegionAssumption
<1>1. nbits \in Nat /\ map \in R!Arrays(nbits) BY RegionsAssumption DEF R!RegionAssumption, RegionsInv, R!RegionsTypeOK
<1>2. pos \in R!Universe /\ pos \in Nat /\ pos % 2^order = 0 /\ pos + 2^order <= nbits
  BY <1>1 DEF R!Candidates, R!Universe
<1>3. R!BitsOfRegion(new) = Bits(pos, order) BY DEF R!BitsOfRegion, Bits
<1>4. Bits(pos, order) \subseteq R!Universe BY <1>0, <1>1, <1>2 DEF Bits, R!Universe
<1>5. Bits(pos, order) \intersect R!BitsOf(map, nbits) = {} BY <1>0, <1>1, <1>2, FreeIsDisjoint
<1>6. map' \in R!Arrays(nbits) /\ R!BitsOf(map', nbits) = R!BitsOf(map, nbits) \union Bits(pos, order)
  BY <1>0, <1>1, <1>2, <1>4, AllocSetsRegion DEF R!Universe
<1>7. R!BitsOf(map, nbits) = Taken BY DEF RegionsInv, R!RegionsAreBits, Taken
<1>8. R!RegionsTypeOK'
  BY <1>2, <1>6 DEF RegionsInv, R!RegionsTypeOK, R!Universe
<1>9. HeldAligned' BY <1>2 DEF RegionsInv, HeldAligned
<1>10. Taken' = Taken \union Bits(pos, order) BY <1>3 DEF Taken, R!BitsOfRegion
<1>11. \A r \in held' : R!BitsOfRegion(r) \intersect fixed' = {} /\ R!BitsOfRegion(r) \subseteq R!Universe'
  <2>1. R!Universe' = R!Universe BY DEF R!Universe
  <2>2. Bits(pos, order) \intersect fixed = {} BY <1>5, <1>7 DEF Taken
  <2> QED BY <2>1, <2>2, <1>3, <1>4 DEF RegionsInv, R!RegionsAreBits
<1>12. \A r, q \in held' : r # q => R!BitsOfRegion(r) \intersect R!BitsOfRegion(q) = {}
  <2>1. \A r \in held : R!BitsOfRegion(r) \intersect R!BitsOfRegion(new) = {}
    BY <1>3, <1>5, <1>7 DEF Taken
  <2> QED BY <2>1 DEF RegionsInv, R!RegionsAreBits
<1>13. R!BitsOf(map', nbits') = Taken' BY <1>6, <1>7, <1>10
<1> QED BY <1>8, <1>9, <1>11, <1>12, <1>13 DEF RegionsInv, R!RegionsAreBits, Taken, R!BitsOfRegion, R!Universe

\* Releasing a region that is held clears its bits only,
LEMMA GiveBack ==
  ASSUME RegionsInv, NEW order \in 0 .. MaxOrder, NEW pos \in R!Universe, R!ReleaseRegion(pos, order)
  PROVE  RegionsInv'
<1> DEFINE old == <<pos, order>>
<1>0. order \in Nat /\ 2^order \in Nat \ {0} BY RegionsAssumption, Divides DEF R!RegionAssumption
<1>1. nbits \in Nat /\ map \in R!Arrays(nbits) BY RegionsAssumption DEF R!RegionAssumption, RegionsInv, R!RegionsTypeOK
<1>2. old \in held /\ held' = held \ {old} /\ map' = R!Release(map, pos, order)
      /\ nbits' = nbits /\ fixed' = fixed
  BY DEF R!ReleaseRegion
<1>3. pos \in Nat /\ pos % 2^order = 0 BY <1>1, <1>2 DEF RegionsInv, HeldAligned, R!Universe
<1>4. R!BitsOfRegion(old) = Bits(pos, order) BY DEF R!BitsOfRegion, Bits
<1>5. map' \in R!Arrays(nbits) /\ R!BitsOf(map', nbits) = R!BitsOf(map, nbits) \ Bits(pos, order)
  BY <1>0, <1>1, <1>2, <1>3, ReleaseClearsRegion
<1>6. R!BitsOf(map, nbits) = Taken BY DEF RegionsInv, R!RegionsAreBits, Taken
<1>7. \A r \in held \ {old} : R!BitsOfRegion(r) \intersect Bits(pos, order) = {}
  BY <1>2, <1>4 DEF RegionsInv, R!RegionsAreBits
<1>8. fixed \intersect Bits(pos, order) = {} BY <1>2, <1>4 DEF RegionsInv, R!RegionsAreBits
<1>9. Taken' = Taken \ Bits(pos, order)
  <2> DEFINE In(b, S) == \E r \in S : b \in R!BitsOfRegion(r)
  <2>1. \A b : b \in Taken <=> b \in fixed \/ In(b, held) BY DEF Taken
  <2>2. \A b : b \in Taken' <=> b \in fixed \/ In(b, held \ {old})
    BY <1>2 DEF Taken, R!BitsOfRegion
  <2>3. \A b : In(b, held) <=> In(b, held \ {old}) \/ b \in Bits(pos, order) BY <1>2, <1>4
  <2>4. \A b : In(b, held \ {old}) => b \notin Bits(pos, order) BY <1>7
  <2> HIDE DEF In
  <2>5. \A b : b \in Taken' <=> b \in Taken /\ b \notin Bits(pos, order)
    BY <2>1, <2>2, <2>3, <2>4, <1>8
  <2> QED BY <2>5
<1>10. R!RegionsTypeOK' BY <1>2, <1>5 DEF RegionsInv, R!RegionsTypeOK, R!Universe
<1>11. HeldAligned' BY <1>2 DEF RegionsInv, HeldAligned
<1>12. R!BitsOf(map', nbits') = Taken' BY <1>2, <1>5, <1>6, <1>9
<1> QED BY <1>2, <1>10, <1>11, <1>12 DEF RegionsInv, R!RegionsAreBits, Taken, R!BitsOfRegion, R!Universe

\* so every step preserves the invariant.
LEMMA StepInv == RegionsInv /\ [R!Next]_R!vars => RegionsInv'
<1> SUFFICES ASSUME RegionsInv, [R!Next]_R!vars PROVE RegionsInv' OBVIOUS
<1>1. CASE UNCHANGED R!vars
  BY <1>1 DEF R!vars, RegionsInv, R!RegionsTypeOK, R!RegionsAreBits, HeldAligned, R!Universe, R!BitsOf, R!TestBit,
              R!BitsOfRegion
<1>2. ASSUME NEW order \in 0 .. MaxOrder, R!FindFreeRegion(order) PROVE RegionsInv'
  <2>1. CASE UNCHANGED R!vars BY <2>1, <1>1
  <2>2. CASE ~UNCHANGED R!vars
    <3>1. nbits \in Nat /\ order \in Nat BY RegionsAssumption DEF R!RegionAssumption, RegionsInv, R!RegionsTypeOK
    <3>2. R!FreeRegions(order) # {} BY <1>2, <2>2 DEF R!FindFreeRegion
    <3>3. PICK pos \in R!FreeRegions(order) :
            map' = R!Alloc(map, pos, order) /\ held' = held \union {<<pos, order>>} /\ UNCHANGED <<nbits, fixed>>
      BY <1>2, <3>1, <3>2, FirstFreeRegion DEF R!FindFreeRegion
    <3>4. pos \in R!Candidates(order) /\ R!IsFree(map, pos, order) BY DEF R!FreeRegions
    <3> QED BY <3>3, <3>4, HandOut
  <2> QED BY <2>1, <2>2
<1>3. ASSUME NEW order \in 0 .. MaxOrder, NEW pos \in R!Candidates(order), R!AllocateRegion(pos, order)
      PROVE  RegionsInv'
  <2>1. CASE UNCHANGED R!vars BY <2>1, <1>1
  <2>2. CASE ~UNCHANGED R!vars BY <1>3, <2>2, HandOut DEF R!AllocateRegion
  <2> QED BY <2>1, <2>2
<1> QED BY <1>1, <1>2, <1>3, GiveBack DEF R!Next

\* An aligned region without a set bit is free, so none is when none is found.
LEMMA RefusedOnlyWhenFull == RegionsInv => R!RefusedMeansFull
<1> SUFFICES ASSUME RegionsInv, NEW order \in 0 .. MaxOrder, R!FreeRegions(order) = {}, NEW pos \in R!Universe,
                    pos % 2^order = 0, pos + 2^order <= nbits
             PROVE  (pos .. pos + 2^order - 1)
                    \intersect (fixed \union UNION {R!BitsOfRegion(r) : r \in held}) # {}
  BY DEF R!RefusedMeansFull
<1>1. nbits \in Nat /\ map \in R!Arrays(nbits) /\ order \in Nat
  BY RegionsAssumption DEF R!RegionAssumption, RegionsInv, R!RegionsTypeOK
<1>2. pos \in Nat BY <1>1 DEF R!Universe
<1>3. ~R!IsFree(map, pos, order) BY DEF R!FreeRegions, R!Candidates
<1>4. Bits(pos, order) \intersect R!BitsOf(map, nbits) # {} BY <1>1, <1>2, <1>3, FreeIsDisjoint
<1> QED BY <1>4 DEF RegionsInv, R!RegionsAreBits, Bits

\* The bitmap operations beside the other modules: a step that takes the
\* bitmaps anywhere is one of theirs.
LEMMA BitmapSteps ==
  ASSUME kind = "bitmaps", [DataNext]_<<kind, vars, regions, texts, means, files, codecs, dumps>>
  PROVE  kind' = "bitmaps" /\ [Next]_vars
BY DEF DataNext, BitmapStep

KindOfBitmaps == kind = "bitmaps" => BitmapsMean

LEMMA BitmapsBeside == DataSpec => []KindOfBitmaps
<1>1. DataInit => KindOfBitmaps
  BY BitmapsMeanInit DEF DataInit, KindOfBitmaps
<1>2. KindOfBitmaps /\ [DataNext]_<<kind, vars, regions, texts, means, files, codecs, dumps>>
      => KindOfBitmaps'
  <2> SUFFICES ASSUME KindOfBitmaps, kind' = "bitmaps",
                      [DataNext]_<<kind, vars, regions, texts, means, files, codecs, dumps>>
               PROVE  BitmapsMean'
    BY DEF KindOfBitmaps
  <2>1. kind = "bitmaps" BY DEF DataNext
  <2> QED BY <2>1, BitmapSteps, BitmapsMeanStep DEF KindOfBitmaps
<1> QED BY <1>1, <1>2, PTL DEF DataSpec

\* A bitmap is the set of its bits after every sequence of the operations of
\* bitmap.c, for words of any width and bitmaps of any size, also in place
\* and whatever the unused bits hold.
THEOREM SetsStayKept == DataSpec => []SetsAreKept
<1>1. KindOfBitmaps => SetsAreKept
  BY MeaningBitmaps DEF KindOfBitmaps, SetsAreKept
<1> QED BY <1>1, BitmapsBeside, PTL

\* Every question is answered as it is for the sets: the bit searches, the
\* comparisons and counts, the free areas and the maps of remap, onto, fold.
THEOREM QuestionsStayAnswered == DataSpec => []QuestionsAreAnswered
<1>1. KindOfBitmaps => QuestionsAreAnswered
  BY MeaningAnswers DEF KindOfBitmaps, QuestionsAreAnswered
<1> QED BY <1>1, BitmapsBeside, PTL

\* Operations do not set unused bits when they get none that are set.
THEOREM UnusedStayKept == DataSpec => UnusedAreKept
<1>1. KindOfBitmaps /\ [DataNext]_<<kind, vars, regions, texts, means, files, codecs, dumps>>
      => [kind = "bitmaps" => CleanStaysClean]_<<kind, vars>>
  <2> SUFFICES ASSUME KindOfBitmaps, kind = "bitmaps",
                      [DataNext]_<<kind, vars, regions, texts, means, files, codecs, dumps>>,
                      ~UNCHANGED <<kind, vars>>
               PROVE  CleanStaysClean
    OBVIOUS
  <2>1. [Next]_vars /\ kind' = kind BY BitmapSteps
  <2>2. BitmapsMean /\ ~UNCHANGED vars BY <2>1 DEF KindOfBitmaps
  <2> QED BY <2>1, <2>2, BitmapsMeanStep
<1> QED BY <1>1, BitmapsBeside, PTL DEF DataSpec, UnusedAreKept

\* The set bits are always those of the regions handed out and those set
\* before, no bit is in two of them, and a search for a free region fails
\* only when none is left: whatever is allocated, found and released.
THEOREM RegionsStayKept == DataSpec => []RegionsAreKept
<1> DEFINE Kept == kind = "regions" => RegionsInv
<1>1. DataInit => Kept
  BY InitInv DEF DataInit
<1>2. Kept /\ [DataNext]_<<kind, vars, regions, texts, means, files, codecs, dumps>> => Kept'
  <2> SUFFICES ASSUME Kept, kind' = "regions",
                      [DataNext]_<<kind, vars, regions, texts, means, files, codecs, dumps>>
               PROVE  RegionsInv'
    OBVIOUS
  <2>1. kind = "regions" BY DEF DataNext
  <2>2. [R!Next]_R!vars
    BY <2>1 DEF DataNext, RegionStep, R!vars, vars, regions
  <2> QED BY <2>1, <2>2, StepInv
<1>3. Kept => RegionsAreKept
  BY RefusedOnlyWhenFull DEF RegionsInv, R!RegionsExclusive, RegionsAreKept
<1> QED BY <1>1, <1>2, <1>3, PTL DEF DataSpec
============================================================================
