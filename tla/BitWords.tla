------------------------------ MODULE BitWords ------------------------------
(***************************************************************************)
(* Arrays of words as types.h, find_next_bit.c and find_last_bit.c see     *)
(* them.  A word is the set of the offsets of its ones, so that & is an    *)
(* intersection, and a mask the set of the offsets it keeps.               *)
(***************************************************************************)
EXTENDS Integers, Sequences, FiniteSetsExt

CONSTANT WordBits                   \* BITS_PER_LONG
ASSUME WordAssumption == WordBits \in Nat \ {0}

Offsets == 0 .. WordBits - 1
Word == SUBSET Offsets
ToLongs(n) == (n + WordBits - 1) \div WordBits
Words(n) == 0 .. ToLongs(n) - 1
Arrays(n) == [Words(n) -> Word]

LowMask(n) == 0 .. n - 1            \* (1UL << n) - 1, or ~0UL >> (WordBits - n)
FirstWordMask(start) == Offsets \ LowMask(start % WordBits)
LastWordMask(n) == IF n % WordBits = 0 THEN Offsets ELSE LowMask(n % WordBits)
Shl(w, n) == {i + n : i \in w} \intersect Offsets
Shr(w, n) == {i - n : i \in w} \intersect Offsets

TestBit(a, b) == b % WordBits \in a[b \div WordBits]
SetBit(a, b) == [a EXCEPT ![b \div WordBits] = @ \union {b % WordBits}]
ClearBit(a, b) == [a EXCEPT ![b \div WordBits] = @ \ {b % WordBits}]
ChangeBit(a, b) == IF TestBit(a, b) THEN ClearBit(a, b) ELSE SetBit(a, b)

\* What the array holds as a bitmap of n bits, and an array that holds it.
BitsOf(a, n) == {b \in 0 .. n - 1 : TestBit(a, b)}
ArrayOf(S, n) == [k \in Words(n) |-> {i \in Offsets : k * WordBits + i \in S}]
Clean(a, n) == a = ArrayOf(BitsOf(a, n), n)

\* The word loops: seen is every word they look at, with its masks.
Earliest(seen, size) ==
    LET hits == {k \in DOMAIN seen : seen[k] # {}}
    IN  IF hits = {} THEN size ELSE Min(hits) * WordBits + Min(seen[Min(hits)])
Latest(seen, size) ==
    LET hits == {k \in DOMAIN seen : seen[k] # {}}
    IN  IF hits = {} THEN size ELSE Max(hits) * WordBits + Max(seen[Max(hits)])

\* Only a partial last word is masked, and none is read when there is none.
Trimmed(w, k, size) == IF k = size \div WordBits THEN w \intersect LowMask(size % WordBits) ELSE w
FindFirstBit(a, size) == Earliest([k \in Words(size) |-> Trimmed(a[k], k, size)], size)
FindFirstZeroBit(a, size) == Earliest([k \in Words(size) |-> Trimmed(Offsets \ a[k], k, size)], size)
FindLastBit(a, size) == Latest([k \in Words(size) |-> Trimmed(a[k], k, size)], size)

\* ... and, of the first word, what is below the offset.
From(w, k, offset) == IF k = offset \div WordBits THEN w \intersect FirstWordMask(offset) ELSE w
FindNextBit(a, size, offset) ==
    IF offset >= size THEN size
    ELSE Earliest([k \in offset \div WordBits .. ToLongs(size) - 1 |->
                      Trimmed(From(a[k], k, offset), k, size)], size)
FindNextZeroBit(a, size, offset) ==
    IF offset >= size THEN size
    ELSE Earliest([k \in offset \div WordBits .. ToLongs(size) - 1 |->
                      Trimmed(From(Offsets \ a[k], k, offset), k, size)], size)

\* for_each_set_bit: the bits that the loop visits, in its order.
ForEachSetBit(a, size) ==
    LET walk[b \in 0 .. size] == IF b = size THEN <<>> ELSE <<b>> \o walk[FindNextBit(a, size, b + 1)]
    IN  walk[FindFirstBit(a, size)]
============================================================================
