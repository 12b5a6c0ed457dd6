------------------------------ MODULE Bitmaps -------------------------------
(***************************************************************************)
(* Two bitmaps of nbits bits, and the operations of bitmap.c and bitmap.h  *)
(* on their words.  The words may hold anything in the unused bits of the  *)
(* last one.  What a bitmap means is a set of bit numbers, kept beside it  *)
(* in set and never read by an operation.                                  *)
(***************************************************************************)
EXTENDS BitWords, SequencesExt

CONSTANT MaxBits                    \* of the bitmaps that are tried
ASSUME MaxBitsAssumption == MaxBits \in Nat

Map == {"a", "b"}

VARIABLES nbits, map, set
vars == <<nbits, map, set>>

Universe == 0 .. nbits - 1
Init ==
    /\ nbits \in 1 .. MaxBits
    /\ \E unused \in SUBSET (nbits .. ToLongs(nbits) * WordBits - 1) :
           map = [m \in Map |-> ArrayOf(unused, nbits)]
    /\ set = [m \in Map |-> {}]

Becomes(m, words, means) ==
    /\ map' = [map EXCEPT ![m] = words] /\ set' = [set EXCEPT ![m] = means]
    /\ UNCHANGED nbits

----------------------------------------------------------------------------
\* bitmap_zero, bitmap_fill and bitmap_copy, and the bit operations.
Zero(n) == [k \in Words(n) |-> {}]
Fill(n) == [k \in Words(n) |-> IF k = ToLongs(n) - 1 THEN LastWordMask(n) ELSE Offsets]

Assign(m) ==
    \/ Becomes(m, Zero(nbits), {})
    \/ Becomes(m, Fill(nbits), Universe)
    \/ \E s \in Map : Becomes(m, map[s], set[s])
OneBit(m, b) ==
    \/ Becomes(m, SetBit(map[m], b), set[m] \union {b})
    \/ Becomes(m, ClearBit(map[m], b), set[m] \ {b})
    \/ Becomes(m, ChangeBit(map[m], b), SymDiff(set[m], {b}))

\* The operations on whole words; only the complement clears unused bits.
And(a, b) == [k \in DOMAIN a |-> a[k] \intersect b[k]]
Or(a, b) == [k \in DOMAIN a |-> a[k] \union b[k]]
Xor(a, b) == [k \in DOMAIN a |-> SymDiff(a[k], b[k])]
AndNot(a, b) == [k \in DOMAIN a |-> a[k] \ b[k]]
AnyWord(a) == \E k \in DOMAIN a : a[k] # {}         \* what and and andnot return
(* Mutant: the unused bits are complemented too. *)
ComplementWhole(a, n) == [k \in Words(n) |-> Offsets \ a[k]]
Complement(a, n) == [k \in Words(n) |-> Trimmed(Offsets \ a[k], k, n)]

Combine(m, s, r) ==
    \/ Becomes(m, And(map[s], map[r]), set[s] \intersect set[r])
    \/ Becomes(m, Or(map[s], map[r]), set[s] \union set[r])
    \/ Becomes(m, Xor(map[s], map[r]), SymDiff(set[s], set[r]))
    \/ Becomes(m, AndNot(map[s], map[r]), set[s] \ set[r])
Invert(m, s) == Becomes(m, Complement(map[s], nbits), Universe \ set[s])

\* The shifts, word by word in the order that allows dst and src to be the
\* same array: then a word is read from what the loop has written so far.
(* Mutant: the unused bits of the last word come down. *)
RightUnmasked(a, k, off, rem, n) ==
    LET upper == IF rem = 0 \/ off + k + 1 >= ToLongs(n) THEN {} ELSE a[off + k + 1]
    IN  Trimmed(Shl(upper, WordBits - rem) \union Shr(a[off + k], rem), k, n)
Right(a, k, off, rem, n) ==
    LET upper == IF rem = 0 \/ off + k + 1 >= ToLongs(n) THEN {}
                 ELSE Trimmed(a[off + k + 1], off + k + 1, n)
        lower == Trimmed(a[off + k], off + k, n)
    IN  Trimmed(Shl(upper, WordBits - rem) \union Shr(lower, rem), k, n)
PutRight(d, k, src, inplace, shift, n) ==
    [d EXCEPT ![k] = Right(IF inplace THEN d ELSE src, k, shift \div WordBits, shift % WordBits, n)]
ShiftRight(dst, src, inplace, shift, n) ==
    LET left == ToLongs(n) - shift \div WordBits        \* the words that are not shifted out
        written[j \in 0 .. left] ==
            IF j = 0 THEN dst ELSE PutRight(written[j - 1], j - 1, src, inplace, shift, n)
    IN  [k \in Words(n) |-> IF k < left THEN written[left][k] ELSE {}]
Left(a, k, off, rem, n) ==
    LET lower == IF rem # 0 /\ k > 0 THEN a[k - 1] ELSE {}
    IN  Trimmed(Shr(lower, WordBits - rem) \union Shl(Trimmed(a[k], k, n), rem), k + off, n)
PutLeft(d, k, src, inplace, shift, n) ==
    LET off == shift \div WordBits
    IN  [d EXCEPT ![k + off] = Left(IF inplace THEN d ELSE src, k, off, shift % WordBits, n)]
ShiftLeft(dst, src, inplace, shift, n) ==
    LET off == shift \div WordBits
        left == ToLongs(n) - off
        written[j \in 0 .. left] ==
            IF j = 0 THEN dst ELSE PutLeft(written[j - 1], left - j, src, inplace, shift, n)
    IN  [k \in Words(n) |-> IF k >= off THEN written[left][k] ELSE {}]

Shift(m, s, by) ==
    \/ Becomes(m, ShiftRight(map[m], map[s], m = s, by, nbits), {b \in Universe : b + by \in set[s]})
    \/ Becomes(m, ShiftLeft(map[m], map[s], m = s, by, nbits), {b \in Universe : b - by \in set[s]})

\* bitmap_shift_right of a constant size up to a word is *src >> shift: the
\* unused bits come down, so the caller must have cleared them.
SmallShiftRight(a, shift) == [a EXCEPT ![0] = Shr(@, shift)]
SmallShift(m, s, by) ==
    /\ nbits <= WordBits /\ by < WordBits /\ Clean(map[s], nbits)
    /\ Becomes(m, SmallShiftRight(map[s], by), {b \in Universe : b + by \in set[s]})

\* bitmap_set and bitmap_clear: whole words while nr - bits_to_set >= 0, then
\* what is left in a last one.
Touched(start, nr) ==
    LET end == start + nr
    IN  {k \in start \div WordBits .. end \div WordBits : nr > 0 /\ (k < end \div WordBits \/ end % WordBits # 0)}
StretchMask(k, start, nr) ==
    From(IF k < (start + nr) \div WordBits THEN Offsets ELSE LastWordMask(start + nr), k, start)
SetStretch(a, start, nr) ==
    [k \in DOMAIN a |-> IF k \in Touched(start, nr) THEN a[k] \union StretchMask(k, start, nr) ELSE a[k]]
ClearStretch(a, start, nr) ==
    [k \in DOMAIN a |-> IF k \in Touched(start, nr) THEN a[k] \ StretchMask(k, start, nr) ELSE a[k]]
Stretch(m, start, nr) ==
    \/ Becomes(m, SetStretch(map[m], start, nr), set[m] \union (start .. start + nr - 1))
    \/ Becomes(m, ClearStretch(map[m], start, nr), set[m] \ (start .. start + nr - 1))

Next ==
    \/ \E m \in Map : Assign(m) \/ \E b \in Universe : OneBit(m, b)
    \/ \E m, s \in Map :
          \/ Invert(m, s) \/ \E r \in Map : Combine(m, s, r)
          \/ \E by \in 0 .. nbits : Shift(m, s, by) \/ SmallShift(m, s, by)
    \/ \E m \in Map, start \in 0 .. nbits, nr \in 0 .. nbits :
          start + nr <= nbits /\ Stretch(m, start, nr)
Spec == Init /\ [][Next]_vars

----------------------------------------------------------------------------
\* The operations that answer a question about bitmaps.
EmptyMap(a, n) == \A k \in Words(n) : Trimmed(a[k], k, n) = {}
FullMap(a, n) == EmptyMap([k \in DOMAIN a |-> Offsets \ a[k]], n)
EqualMaps(a, b, n) == EmptyMap(Xor(a, b), n)
Intersects(a, b, n) == ~EmptyMap(And(a, b), n)
Subset(a, b, n) == EmptyMap(AndNot(a, b), n)
Weight(a, n) ==
    MapThenSumSet(LAMBDA k : Cardinality(Trimmed(a[k], k, n)), Words(n))

(* Mutant: the place of a new try is not aligned. *)
FindNextZeroAreaUnaligned(a, size, start, nr, align) ==
    LET try[from \in 0 .. size + nr] ==
            LET index == IF from = start THEN ((FindNextZeroBit(a, size, from) + align - 1) \div align) * align
                         ELSE FindNextZeroBit(a, size, from)
                taken == FindNextBit(a, index + nr, index)
            IN  IF index + nr > size THEN index + nr
                ELSE IF taken < index + nr THEN try[taken + 1] ELSE index
    IN  try[start]
FindNextZeroArea(a, size, start, nr, align) ==
    LET try[from \in 0 .. size + nr] ==
            LET index == ((FindNextZeroBit(a, size, from) + align - 1) \div align) * align
                end == index + nr
                taken == FindNextBit(a, end, index)
            IN  IF end > size THEN end ELSE IF taken < end THEN try[taken + 1] ELSE index
    IN  try[start]

\* bitmap_pos_to_ord, bitmap_ord_to_pos and the maps built from them.
PosToOrd(a, pos, n) ==
    IF pos < 0 \/ pos >= n \/ ~TestBit(a, pos) THEN -1
    ELSE LET walk == ForEachSetBit(a, n) IN Cardinality({i \in DOMAIN walk : walk[i] < pos})
OrdToPos(a, ord, n) ==
    LET walk == ForEachSetBit(a, n)
    IN  IF ord \in 0 .. n - 1 /\ ord < Len(walk) THEN walk[ord + 1] ELSE 0
BitRemap(b, old, new, n) ==
    LET ord == PosToOrd(old, b, n)
    IN  IF ord < 0 \/ Weight(new, n) = 0 THEN b ELSE OrdToPos(new, ord % Weight(new, n), n)
\* Each of the loops sets some bits of dst, which is empty, one by one.
SetAll(bits, n) == FoldSet(LAMBDA b, dst : SetBit(dst, b), Zero(n), bits)
Remap(src, old, new, n) ==
    SetAll({BitRemap(b, old, new, n) : b \in Range(ForEachSetBit(src, n))}, n)
Onto(orig, relmap, n) ==
    LET walk == ForEachSetBit(relmap, n)
    IN  SetAll({walk[m] : m \in {i \in DOMAIN walk : TestBit(orig, i - 1)}}, n)
Fold(orig, sz, n) == SetAll({b % sz : b \in Range(ForEachSetBit(orig, n))}, n)

----------------------------------------------------------------------------
BitmapsTypeOK ==
    /\ nbits \in 1 .. MaxBits /\ map \in [Map -> Arrays(nbits)] /\ set \in [Map -> SUBSET Universe]

\* A bitmap is the set of its bits after every sequence of operations, also
\* in place, by more than a word, and whatever the unused bits hold.
BitmapsAreSets == BitmapsTypeOK /\ \A m \in Map : BitsOf(map[m], nbits) = set[m]

\* Operations do not set unused bits when they get none that are set.
CleanStaysClean == (\A m \in Map : Clean(map[m], nbits)) => \A m \in Map : Clean(map'[m], nbits)
UnusedStayClear == [][CleanStaysClean]_vars

\* The searches find what a look at every bit finds, and never an unused bit.
Among(S) == IF S = {} THEN nbits ELSE Min(S)
FindsAgree ==
    \A m \in Map :
        LET a == map[m]
            ones == set[m]
            zeros == Universe \ ones
        IN  /\ FindFirstBit(a, nbits) = Among(ones) /\ FindFirstZeroBit(a, nbits) = Among(zeros)
            /\ FindLastBit(a, nbits) = (IF ones = {} THEN nbits ELSE Max(ones))
            /\ \A i \in 0 .. nbits :
                  /\ FindNextBit(a, nbits, i) = Among({b \in ones : b >= i})
                  /\ FindNextZeroBit(a, nbits, i) = Among({b \in zeros : b >= i})

\* Questions are answered for the sets, apart from the unused bits.
QuestionsAgree ==
    LET a == map["a"]
        b == map["b"]
        clean == Clean(a, nbits) /\ Clean(b, nbits)
    IN  /\ EmptyMap(a, nbits) <=> set["a"] = {}
        /\ FullMap(a, nbits) <=> set["a"] = Universe
        /\ EqualMaps(a, b, nbits) <=> set["a"] = set["b"]
        /\ Intersects(a, b, nbits) <=> set["a"] \intersect set["b"] # {}
        /\ Subset(a, b, nbits) <=> set["a"] \subseteq set["b"]
        /\ Weight(a, nbits) = Cardinality(set["a"])
        /\ clean => /\ AnyWord(And(a, b)) <=> Intersects(a, b, nbits)
                    /\ AnyWord(AndNot(a, b)) <=> ~Subset(a, b, nbits)

\* A free area that is found is free and aligned, none comes before it, and
\* none is there when the answer is past the end.
AreasAreFree ==
    \A start \in 0 .. nbits - 1, nr \in 1 .. nbits, align \in {1, 2, 4} :
        LET free == {i \in start .. nbits - nr :
                        i % align = 0 /\ i .. i + nr - 1 \subseteq Universe \ set["a"]}
            found == FindNextZeroArea(map["a"], nbits, start, nr, align)
        IN  IF free = {} THEN found > nbits ELSE found = Min(free)

\* Remapping takes the n-th bit of old to the n-th bit of new, modulo the
\* number of those; onto takes m to the m-th bit of relmap; fold is modulo.
Nth(S, n) == CHOOSE x \in S : Cardinality({y \in S : y < x}) = n
MapsAgree ==
    LET Ord(b) == Cardinality({y \in set["a"] : y < b})
        Image(b) == IF b \notin set["a"] \/ set["b"] = {} THEN b
                    ELSE Nth(set["b"], Ord(b) % Cardinality(set["b"]))
        Result(a) == BitsOf(a, nbits)
    IN  /\ \A b \in Universe : BitRemap(b, map["a"], map["b"], nbits) = Image(b)
        /\ \A S \in {set["a"], set["b"], Universe} :
              Result(Remap(ArrayOf(S, nbits), map["a"], map["b"], nbits)) = {Image(b) : b \in S}
        /\ Result(Onto(map["a"], map["b"], nbits)) =
              {Nth(set["b"], m) : m \in {i \in set["a"] : i < Cardinality(set["b"])}}
        /\ \A sz \in 1 .. nbits : Result(Fold(map["a"], sz, nbits)) = {b % sz : b \in set["a"]}

\* Every question about bitmaps is answered as it is for the sets.
AnswersAgree == FindsAgree /\ QuestionsAgree /\ AreasAreFree /\ MapsAgree

\* "The implementation ... ensures that their value will not affect the
\* results of any operation" (bitmap.c:23-27), of the unused bits.
UnusedBitsIgnored ==
    LET a == map["a"]
        b == map["b"]
        Cleaned(c) == ArrayOf(BitsOf(c, nbits), nbits)
    IN  /\ AnyWord(And(a, b)) = AnyWord(And(Cleaned(a), Cleaned(b)))
        /\ AnyWord(AndNot(a, b)) = AnyWord(AndNot(Cleaned(a), Cleaned(b)))
        /\ nbits <= WordBits =>
              \A by \in 0 .. WordBits - 1 :
                  BitsOf(SmallShiftRight(a, by), nbits) = BitsOf(SmallShiftRight(Cleaned(a), by), nbits)
============================================================================
