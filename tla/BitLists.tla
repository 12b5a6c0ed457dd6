------------------------------ MODULE BitLists ------------------------------
(***************************************************************************)
(* Bitmaps as text: bitmap_scnlistprintf and bitmap_parselist ("0-3,8"),   *)
(* bitmap_scnprintf and bitmap_parse (hexadecimal chunks).  A text is a    *)
(* sequence of digits, which are numbers, and of other characters; a NUL   *)
(* may be among them, since bitmap_parse is told the size of a buffer.     *)
(***************************************************************************)
EXTENDS BitWords, SequencesExt

CONSTANTS
    MaxBits, MaxText,       \* of the bitmaps and of the texts that are tried
    Base, UnsignedMax,      \* of decimal numbers, and of an unsigned int
    Digits, DigitBits       \* of a chunk, and bits of a digit: 8 and 4

COMMA == -1
DASH == -2
SPACE == -3
LF == -4
NUL == -5
JUNK == -6
IsBlank(c) == c \in {SPACE, LF}
IsDigit(c) == c >= 0
EINVAL == "EINVAL"
ERANGE == "ERANGE"
EOVERFLOW == "EOVERFLOW"

VARIABLES
    nbits, mask,    \* a bitmap
    text, format,   \* what was printed, or is to be parsed; "list", "hex" or "any"
    means           \* ... and what it says: its bits, or the error it is
vars == <<nbits, mask, text, format, means>>

----------------------------------------------------------------------------
\* The list format.  The ranges are found with the bit searches.
Decimal(i) == IF i < Base THEN <<i>> ELSE <<i \div Base, i % Base>>
Item(r) == IF r[1] = r[2] THEN Decimal(r[1]) ELSE Decimal(r[1]) \o <<DASH>> \o Decimal(r[2])
Joined(items) == FoldLeft(LAMBDA t, i : t \o (IF t = <<>> THEN <<>> ELSE <<COMMA>>) \o i, <<>>, items)
Ranges(a, n) ==
    LET walk == ForEachSetBit(a, n)
        Grow(rs, b) == IF rs # <<>> /\ b = Last(rs)[2] + 1 THEN Front(rs) \o << <<Last(rs)[1], b>> >>
                       ELSE Append(rs, <<b, b>>)
    IN  FoldLeft(Grow, <<>>, walk)
ScnListPrintf(a, n) == LET rs == Ranges(a, n) IN Joined([i \in DOMAIN rs |-> Item(rs[i])])

\* One character of a list.  Blanks are skipped; a comma ends the item.
ListStart == [a |-> 0, b |-> 0, exp_digit |-> TRUE, in_range |-> FALSE, c |-> COMMA,
              totaldigits |-> 0, error |-> "", bits |-> {}]
(* Mutant: a range may end one bit behind the bitmap. *)
EndItemLate(p, n) ==
    IF p.a > p.b THEN [p EXCEPT !.error = EINVAL]
    ELSE IF p.b > n THEN [p EXCEPT !.error = ERANGE]
    ELSE [p EXCEPT !.bits = @ \union (p.a .. p.b), !.a = 0, !.b = 0, !.exp_digit = TRUE, !.in_range = FALSE]
EndItem(p, n) ==
    IF p.a > p.b THEN [p EXCEPT !.error = EINVAL]
    ELSE IF p.b >= n THEN [p EXCEPT !.error = ERANGE]
    ELSE [p EXCEPT !.bits = @ \union (p.a .. p.b), !.a = 0, !.b = 0, !.exp_digit = TRUE, !.in_range = FALSE]
ListChar(p, c, n) ==
    LET q == [p EXCEPT !.c = c]
        number == (p.b * Base + c) % (UnsignedMax + 1)
    IN  IF p.error # "" THEN p
        ELSE IF IsBlank(c) THEN q
        ELSE IF p.totaldigits > 0 /\ IsBlank(p.c) THEN [q EXCEPT !.error = EINVAL]
        ELSE IF c = COMMA THEN EndItem(q, n)
        ELSE IF c = DASH /\ ~p.exp_digit /\ ~p.in_range THEN [q EXCEPT !.b = 0, !.in_range = TRUE, !.exp_digit = TRUE]
        ELSE IF ~IsDigit(c) THEN [q EXCEPT !.error = EINVAL]
        ELSE [q EXCEPT !.b = number, !.a = IF p.in_range THEN @ ELSE number,
                       !.exp_digit = FALSE, !.totaldigits = @ + 1]
\* The list is the first line of the string.  The last item has no comma
\* after it; nothing is read after a last comma.
Before(t, ends) ==
    LET stops == {i \in DOMAIN t : t[i] \in ends}
    IN  IF stops = {} THEN t ELSE SubSeq(t, 1, Min(stops) - 1)
Line(t) == Before(t, {LF, NUL})
ParseList(t, n) ==
    LET read == FoldLeft(LAMBDA p, c : ListChar(p, c, n), ListStart, Line(t))
        end == IF read.error # "" \/ (Line(t) # <<>> /\ read.c = COMMA) THEN read ELSE EndItem(read, n)
    IN  [error |-> end.error, bits |-> end.bits]

----------------------------------------------------------------------------
\* The hexadecimal format: chunks from the highest, of all their digits but
\* for the first, which has those that its bits need.
ChunkBits == Digits * DigitBits
Number(w) == MapThenSumSet(LAMBDA i : 2 ^ i, w)
Value(a, i, size) == Number(Shr(a[i \div WordBits], i % WordBits) \intersect LowMask(size))
Hex(v, digits) == [d \in 1 .. digits |-> (v \div 2 ^ (DigitBits * (digits - d))) % 2 ^ DigitBits]
ScnPrintf(a, n) ==
    LET chunks == (n + ChunkBits - 1) \div ChunkBits
        size(j) == IF j = chunks /\ n % ChunkBits # 0 THEN n % ChunkBits ELSE ChunkBits
        Chunk(j) == Hex(Value(a, (j - 1) * ChunkBits, size(j)), (size(j) + DigitBits - 1) \div DigitBits)
    IN  Joined([i \in 1 .. chunks |-> Chunk(chunks + 1 - i)])

HexStart == [chunk |-> 0, ndigits |-> 0, c |-> COMMA, totaldigits |-> 0, nchunks |-> 0,
             nbits |-> 0, error |-> "", bits |-> {}]
Fls(v) == IF v = 0 THEN 0 ELSE Max({i \in 1 .. ChunkBits : 2 ^ (i - 1) <= v})
EndChunk(p, n) ==
    LET used == p.nbits + IF p.nchunks = 0 THEN Fls(p.chunk) ELSE ChunkBits
        shifted == {b + ChunkBits : b \in p.bits} \intersect (0 .. n - 1)
        ones == {i \in 0 .. ChunkBits - 1 : (p.chunk \div 2 ^ i) % 2 = 1}
        next == [p EXCEPT !.chunk = 0, !.ndigits = 0]
    IN  IF p.ndigits = 0 THEN [p EXCEPT !.error = EINVAL]
        ELSE IF p.nchunks = 0 /\ p.chunk = 0 THEN next
        ELSE [next EXCEPT !.bits = shifted \union ones, !.nchunks = @ + 1, !.nbits = used,
                          !.error = IF used > n THEN EOVERFLOW ELSE ""]
\* A NUL ends the chunk, and the text.
HexChar(p, c, n) ==
    LET q == [p EXCEPT !.c = c]
    IN  IF p.error # "" \/ p.c = NUL THEN p
        ELSE IF IsBlank(c) THEN q
        ELSE IF p.totaldigits > 0 /\ c # NUL /\ IsBlank(p.c) THEN [q EXCEPT !.error = EINVAL]
        ELSE IF c \in {COMMA, NUL} THEN EndChunk(q, n)
        ELSE IF ~IsDigit(c) THEN [q EXCEPT !.error = EINVAL]
        ELSE IF p.chunk >= 2 ^ (ChunkBits - DigitBits) THEN [q EXCEPT !.error = EOVERFLOW]
        ELSE [q EXCEPT !.chunk = @ * 2 ^ DigitBits + c, !.ndigits = @ + 1, !.totaldigits = @ + 1]
Parse(t, n) ==
    LET read == FoldLeft(LAMBDA p, c : HexChar(p, c, n), HexStart, t)
        end == IF read.error # "" \/ (t # <<>> /\ read.c \in {COMMA, NUL}) THEN read
               ELSE EndChunk(read, n)
    IN  [error |-> end.error, bits |-> end.bits]

----------------------------------------------------------------------------
\* What callers begin with: a bitmap whose unused bits may be set, a list
\* of ranges they wrote, or a text of any characters.
Universe == 0 .. nbits - 1
Bits(S) == [error |-> "", bits |-> S]
Error(e) == [error |-> e, bits |-> {}]
Says(rs) ==
    LET bad == {i \in DOMAIN rs : rs[i][1] > rs[i][2] \/ rs[i][2] >= nbits}
    IN  IF bad = {} THEN Bits(UNION {rs[i][1] .. rs[i][2] : i \in DOMAIN rs})
        ELSE Error(IF rs[Min(bad)][1] > rs[Min(bad)][2] THEN EINVAL ELSE ERANGE)
Init ==
    /\ nbits \in 1 .. MaxBits
    /\ \/ mask \in Arrays(nbits) /\ text = <<>> /\ format = "any" /\ means = Bits({})
       \/ /\ mask = ArrayOf({}, nbits) /\ format = "list"
          /\ \E len \in 1 .. 2 : \E rs \in [1 .. len -> (0 .. nbits) \X (0 .. nbits)] :
                text = Joined([i \in DOMAIN rs |-> Item(rs[i])]) /\ means = Says(rs)
       \/ /\ mask = ArrayOf({}, nbits) /\ format = "any" /\ means = Bits({})
          /\ text \in BoundedSeq({0, 1, COMMA, DASH, SPACE, LF, NUL, JUNK}, MaxText)

Write ==
    /\ \/ format' = "list" /\ text' = ScnListPrintf(mask, nbits)
       \/ format' = "hex" /\ text' = ScnPrintf(mask, nbits)
    /\ means' = Bits(BitsOf(mask, nbits)) /\ UNCHANGED <<nbits, mask>>
\* A caller uses the bitmap when the text was accepted.
Read(parsed) ==
    /\ parsed.error = "" /\ mask' = ArrayOf(parsed.bits, nbits)
    /\ UNCHANGED <<nbits, text, format, means>>
Next == Write \/ Read(ParseList(text, nbits)) \/ Read(Parse(text, nbits))
Spec == Init /\ [][Next]_vars

----------------------------------------------------------------------------
BitListsTypeOK ==
    /\ nbits \in 1 .. MaxBits /\ mask \in Arrays(nbits) /\ format \in {"list", "hex", "any"}
    /\ means \in [error : {"", EINVAL, ERANGE}, bits : SUBSET Universe]

AsMeant(parsed) == parsed.error = means.error /\ (parsed.error = "" => parsed.bits = means.bits)

\* bitmap_parselist reads what bitmap_scnlistprintf prints for a bitmap that
\* is not empty, and what callers write as ranges in any order; it refuses a
\* range that goes down or ends beyond the bitmap.
ListsAreRead == format = "list" /\ text # <<>> => AsMeant(ParseList(text, nbits))

\* The comment on bitmap_scnlistprintf: its output is compatible with what
\* bitmap_parselist accepts.  For the empty bitmap, whose list is empty, it
\* is not: what is read is bit 0.
PrintedListsAreRead == format = "list" => AsMeant(ParseList(text, nbits))

\* bitmap_parse reads what bitmap_scnprintf prints, also with a first chunk
\* of fewer digits and chunks of zeros before it.
HexIsRead == format = "hex" => AsMeant(Parse(text, nbits))

Blanks(t) == {i \in DOMAIN t : IsBlank(t[i])}
Without(t, dropped) ==
    LET kept == SetToSortSeq(DOMAIN t \ dropped, <) IN [i \in DOMAIN kept |-> t[kept[i]]]

\* What a list of any characters says, read as items between commas: a blank
\* is no part of it before the first digit and at the end, a missing number
\* is 0, a number is what is left of it in an unsigned int, and what is no
\* number or range goes down, as it were.
Items(t) ==
    LET outside == {i \in Blanks(t) : (\A j \in 1 .. i : ~IsDigit(t[j]))
                                       \/ \A j \in i .. Len(t) : IsBlank(t[j])}
        core == Without(t, outside)
        cuts == SetToSortSeq({i \in DOMAIN core : core[i] = COMMA} \union {0, Len(core) + 1}, <)
        items == [k \in 1 .. Len(cuts) - 1 |-> SubSeq(core, cuts[k] + 1, cuts[k + 1] - 1)]
    IN  IF t # <<>> /\ Last(t) = COMMA THEN Front(items) ELSE items
NumberOf(ds) == FoldLeft(LAMBDA v, d : v * Base + d, 0, ds) % (UnsignedMax + 1)
RangeOf(item) ==
    LET dashes == {i \in DOMAIN item : item[i] = DASH}
        cut == Min(dashes)
    IN  IF \E i \in DOMAIN item \ dashes : ~IsDigit(item[i]) THEN <<1, 0>>
        ELSE IF dashes = {} THEN <<NumberOf(item), NumberOf(item)>>
        ELSE IF dashes # {cut} \/ cut = 1 THEN <<1, 0>>
        ELSE <<NumberOf(SubSeq(item, 1, cut - 1)), NumberOf(SubSeq(item, cut + 1, Len(item)))>>

\* bitmap_parselist takes the bits of all the items of a text, whatever it
\* consists of, or returns the error of the first wrong one: characters that
\* belong nowhere, blanks inside, a second or a leading dash, a range that
\* goes down, a number beyond the bitmap.  It ends at the end of the line.
ListSyntax ==
    format = "any" =>
       LET items == Items(Line(text))
           said == Says([k \in DOMAIN items |-> RangeOf(items[k])])
           parsed == ParseList(text, nbits)
       IN  parsed.error = said.error /\ (parsed.error = "" => parsed.bits = said.bits)

\* bitmap_parse accepts blanks around, not inside, and refuses a chunk of no
\* digits and other characters (its comment), whatever the text.  It lets a
\* buffer end in a comma, but not a text that a NUL ends.
Core(t) ==
    LET rest == DOMAIN t \ Blanks(t)
    IN  IF rest = {} THEN <<>> ELSE SubSeq(t, Min(rest), Max(rest))
WellFormed(t) ==
    LET core == Core(Before(t, {NUL}))
    IN  /\ core # <<>> /\ core[1] # COMMA
        /\ \A i \in DOMAIN core : core[i] = COMMA \/ IsDigit(core[i])
        /\ \A i \in DOMAIN core : core[i] = COMMA =>
              IF i < Len(core) THEN core[i + 1] # COMMA ELSE NUL \notin ToSet(t) /\ Last(t) = COMMA
HexSyntax ==
    format = "any" =>
       LET error == Parse(text, nbits).error
       IN  IF WellFormed(text) THEN error \in {"", EOVERFLOW} ELSE error # ""
============================================================================
