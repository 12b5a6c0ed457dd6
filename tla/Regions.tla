------------------------------ MODULE Regions -------------------------------
(***************************************************************************)
(* The allocator of bitmap.c: regions of 2^order bits, aligned to their    *)
(* size, are found or claimed, and released by those who hold them.        *)
(***************************************************************************)
EXTENDS BitWords

CONSTANTS MaxBits, MaxOrder         \* bounds of the bitmaps and regions tried

\* A long has 32 or 64 bits: a power of two.
RegionAssumption ==
    /\ \E w \in 0 .. WordBits : WordBits = 2 ^ w
    /\ WordBits \in Nat /\ MaxBits \in Nat /\ MaxOrder \in Nat

VARIABLES
    nbits, map,     \* the bitmap and its size
    fixed,          \* bits that were set before, and stay
    held            \* the regions that have been handed out: <<pos, order>>
vars == <<nbits, map, fixed, held>>

Universe == 0 .. nbits - 1
Init ==
    /\ nbits \in 1 .. MaxBits
    /\ map \in Arrays(nbits) /\ fixed = BitsOf(map, nbits)
    /\ Cardinality(fixed) <= 2
    /\ held = {}

\* __reg_op: the words of the region and the mask that it has in each, the
\* one of a part of a word or all of every word.
Region(pos, order) ==
    LET index == pos \div WordBits
        size == 2 ^ order
    IN  [k \in index .. index + ToLongs(size) - 1 |->
            Shl(LowMask(IF size < WordBits THEN size ELSE WordBits), pos % WordBits)]
(* Mutant: only the first word of the region is looked at. *)
IsFreeFirstWord(a, pos, order) ==
    LET r == Region(pos, order) IN a[pos \div WordBits] \intersect r[pos \div WordBits] = {}
IsFree(a, pos, order) == LET r == Region(pos, order) IN \A k \in DOMAIN r : a[k] \intersect r[k] = {}
Alloc(a, pos, order) ==
    LET r == Region(pos, order)
    IN  [k \in DOMAIN a |-> IF k \in DOMAIN r THEN a[k] \union r[k] ELSE a[k]]
Release(a, pos, order) ==
    LET r == Region(pos, order)
    IN  [k \in DOMAIN a |-> IF k \in DOMAIN r THEN a[k] \ r[k] ELSE a[k]]

\* bitmap_find_free_region: the first one that ends within the bitmap.
Candidates(order) == {pos \in Universe : pos % 2 ^ order = 0 /\ pos + 2 ^ order <= nbits}
FreeRegions(order) == {pos \in Candidates(order) : IsFree(map, pos, order)}

FindFreeRegion(order) ==
    \/ /\ FreeRegions(order) # {}
       /\ LET pos == Min(FreeRegions(order))
          IN  map' = Alloc(map, pos, order) /\ held' = held \union {<<pos, order>>}
       /\ UNCHANGED <<nbits, fixed>>
    \/ FreeRegions(order) = {} /\ UNCHANGED vars                    \* -ENOMEM
AllocateRegion(pos, order) ==
    \/ /\ IsFree(map, pos, order)
       /\ map' = Alloc(map, pos, order) /\ held' = held \union {<<pos, order>>}
       /\ UNCHANGED <<nbits, fixed>>
    \/ ~IsFree(map, pos, order) /\ UNCHANGED vars                   \* -EBUSY
ReleaseRegion(pos, order) ==
    /\ <<pos, order>> \in held /\ held' = held \ {<<pos, order>>}
    /\ map' = Release(map, pos, order) /\ UNCHANGED <<nbits, fixed>>

Next ==
    \E order \in 0 .. MaxOrder :
       \/ FindFreeRegion(order)
       \/ \E pos \in Candidates(order) : AllocateRegion(pos, order)
       \/ \E pos \in Universe : ReleaseRegion(pos, order)
Spec == Init /\ [][Next]_vars

----------------------------------------------------------------------------
RegionsTypeOK ==
    /\ nbits \in 1 .. MaxBits /\ map \in Arrays(nbits)
    /\ fixed \subseteq Universe /\ held \subseteq Universe \X (0 .. MaxOrder)

\* The bits that are set are exactly those of the regions handed out and
\* those set before, and no bit is in two of them: so a release by its
\* holder frees nothing that somebody else was given.
BitsOfRegion(r) == r[1] .. r[1] + 2 ^ r[2] - 1
RegionsAreBits ==
    /\ BitsOf(map, nbits) = fixed \union UNION {BitsOfRegion(r) : r \in held}
    /\ \A r \in held : BitsOfRegion(r) \intersect fixed = {} /\ BitsOfRegion(r) \subseteq Universe
    /\ \A r, q \in held : r # q => BitsOfRegion(r) \intersect BitsOfRegion(q) = {}

\* A region is refused only if no aligned one is free within the bitmap.
RefusedMeansFull ==
    \A order \in 0 .. MaxOrder :
       FreeRegions(order) = {} =>
          \A pos \in Universe :
             pos % 2 ^ order = 0 /\ pos + 2 ^ order <= nbits =>
                (pos .. pos + 2 ^ order - 1) \intersect (fixed \union UNION {BitsOfRegion(r) : r \in held}) # {}

\* Regions stay exclusive, and are refused only when there is no room.
RegionsExclusive == RegionsTypeOK /\ RegionsAreBits /\ RefusedMeansFull
============================================================================
