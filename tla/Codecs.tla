------------------------------- MODULE Codecs -------------------------------
(***************************************************************************)
(* base64.c, percent_encode.c, url_encode.c and hex2bin of hexdump.c:      *)
(* bytes as text, and back.  The texts of percent- and URL-encoding are    *)
(* decoded in place, one step per round of the loop; hex2bin may be.       *)
(***************************************************************************)
EXTENDS Integers, SequencesExt

CONSTANTS
    Unit,               \* a byte has 4 * Unit bits, a digit of base64 3 * Unit: 2
    Base,               \* of the digits in %HH: 16
    BytesBase64, BytesUri   \* the data that are tried, as sequences of bytes

\* Characters of percent- and URL-encoded texts are bytes; those below Base are
\* its digits.  The others that matter are one of a kind each.
PERCENT == Base
PLUS == Base + 1
SPACE == Base + 2
TILDE == Base + 3
LETTER == Base + 4
RESERVED == Base + 5

\* Characters of base64 are the values of the digits, and
PAD == -1
JUNK == -2

VARIABLES
    scheme,     \* "base64", "percent", "url", "hex"
    raw,        \* the data; REFUSED for a text that is no encoding
    mem,        \* the bytes or the text, then what is decoded in place
    phase,      \* "raw", "text", "decoding", "done" or "refused"
    to, from    \* of the decoding: what is written, and read
vars == <<scheme, raw, mem, phase, to, from>>

REFUSED == <<JUNK>>

----------------------------------------------------------------------------
Two(n) == 2 ^ (n * Unit)
Or(a, b) == a + b                   \* | of numbers that share no bit

\* Three bytes are four digits.  The last group may have one byte or two.
Group(d, i) ==
    LET n == Min({3, Len(d) - 3 * i})
        Byte(k) == IF k <= n THEN d[3 * i + k] ELSE 0
    IN  <<Byte(1) \div Two(1),
          Or((Byte(1) % Two(1)) * Two(2), Byte(2) \div Two(2)),
          IF n >= 2 THEN Or((Byte(2) % Two(2)) * Two(1), Byte(3) \div Two(3)) ELSE PAD,
          IF n >= 3 THEN Byte(3) % Two(3) ELSE PAD>>
Base64Encode(d) == FlattenSeq([k \in 1 .. (Len(d) + 2) \div 3 |-> Group(d, k - 1)])

\* The digits of a group; the last one is not looked at behind a PAD.
GroupOK(e, i) ==
    /\ e[4 * i + 1] >= 0 /\ e[4 * i + 2] >= 0 /\ e[4 * i + 3] >= PAD
    /\ e[4 * i + 3] # PAD => e[4 * i + 4] >= PAD
Padded(e, i) == PAD \in {e[4 * i + 3], e[4 * i + 4]}
GroupBytes(e, i) ==
    LET c == [k \in 1 .. 4 |-> e[4 * i + k]] IN
    <<Or((c[1] * Two(1)) % Two(4), c[2] \div Two(2))>>
    \o (IF c[3] = PAD THEN <<>> ELSE <<Or((c[2] * Two(2)) % Two(4), c[3] \div Two(1))>>
        \o (IF c[4] = PAD THEN <<>> ELSE <<Or((c[3] * Two(3)) % Two(4), c[4])>>))

\* Padding ends the loop, and may only do so in the last group.
Base64Decode(e) ==
    LET rounds == 0 .. Len(e) \div 4 - 1
        stop == Min({i \in rounds : ~GroupOK(e, i) \/ Padded(e, i)} \union {Len(e) \div 4})
    IN  IF Len(e) % 4 # 0 \/ (stop \in rounds /\ (~GroupOK(e, stop) \/ stop # Len(e) \div 4 - 1))
        THEN REFUSED
        ELSE FlattenSeq([k \in 1 .. Len(e) \div 4 |-> GroupBytes(e, k - 1)])

----------------------------------------------------------------------------
Unreserved(c) == c < Base \/ c = LETTER \/ (c = TILDE /\ scheme = "percent")
Hex(c) == <<PERCENT, c \div Base, c % Base>>
EncodedChar(c) ==
    IF Unreserved(c) THEN <<c>> ELSE IF c = SPACE /\ scheme = "url" THEN <<PLUS>> ELSE Hex(c)
UriEncode(d) == FlattenSeq([k \in DOMAIN d |-> EncodedChar(d[k])])

IsXDigit(c) == c < Base

Encode ==
    /\ phase = "raw" /\ phase' = "text"
    /\ mem' = IF scheme = "base64" THEN Base64Encode(mem) ELSE UriEncode(mem)
    /\ UNCHANGED <<scheme, raw, to, from>>

DecodeBase64 ==
    /\ phase = "text" /\ scheme = "base64"
    /\ mem' = Base64Decode(mem)
    /\ phase' = IF mem' = REFUSED THEN "refused" ELSE "done"
    /\ UNCHANGED <<scheme, raw, to, from>>

\* percent_decode_in_place, url_decode_in_place and hex2bin
BeginDecode ==
    /\ phase = "text" /\ scheme # "base64"
    /\ phase' = "decoding" /\ to' = 1 /\ from' = 1
    /\ UNCHANGED <<scheme, raw, mem>>

DecodeRound ==
    /\ phase = "decoding" /\ scheme # "hex" /\ from <= Len(mem)
    /\ LET c == mem[from]
           broken == from + 2 > Len(mem) \/ ~IsXDigit(mem[from + 1]) \/ ~IsXDigit(mem[from + 2])
           Stored(b, read) == /\ mem' = [mem EXCEPT ![to] = b]
                              /\ to' = to + 1 /\ from' = from + read /\ UNCHANGED phase
       IN  IF c = PERCENT
           THEN IF broken THEN phase' = "refused" /\ UNCHANGED <<mem, to, from>>
                ELSE Stored(mem[from + 1] * Base + mem[from + 2], 3)
           ELSE Stored(IF c = PLUS /\ scheme = "url" THEN SPACE ELSE c, 1)
    /\ UNCHANGED <<scheme, raw>>

HexRound ==
    /\ phase = "decoding" /\ scheme = "hex" /\ from <= Len(mem)
    /\ LET hi == mem[from]
           lo == mem[from + 1]
       IN  \/ /\ IsXDigit(hi) /\ IsXDigit(lo)
              /\ mem' = [mem EXCEPT ![to] = hi * Base + lo]
              /\ to' = to + 1 /\ from' = from + 2 /\ UNCHANGED phase
           \/ /\ ~(IsXDigit(hi) /\ IsXDigit(lo))
              /\ phase' = "refused" /\ UNCHANGED <<mem, to, from>>
    /\ UNCHANGED <<scheme, raw>>

DecodeEnds ==
    /\ phase = "decoding" /\ from > Len(mem)
    /\ phase' = "done" /\ mem' = SubSeq(mem, 1, to - 1)
    /\ UNCHANGED <<scheme, raw, to, from>>

----------------------------------------------------------------------------
\* Data are encoded and decoded again; other texts are spellings of data that
\* the encoder does not choose, or end in what is no encoding.
Broken == {<<PERCENT>>, <<PERCENT, 1>>, <<PERCENT, 1, SPACE>>, <<PERCENT, LETTER, 1>>,
           <<PERCENT, PERCENT, 1, 1>>}
HexText(d) == FlattenSeq([k \in DOMAIN d |-> <<d[k] \div Base, d[k] % Base>>])
Spellings(c) ==
    {Hex(c)} \union (IF c \in {PERCENT, PLUS} THEN {} ELSE {<<c>>})
    \union (IF c = SPACE /\ scheme = "url" THEN {<<PLUS>>} ELSE {})
    \union (IF c = PLUS /\ scheme = "percent" THEN {<<PLUS>>} ELSE {})
Init ==
    /\ to = 1 /\ from = 1
    /\ \/ /\ scheme = "base64"
          /\ \E d \in BytesBase64 :
                \/ raw = d /\ mem = d /\ phase = "raw"
                \/ /\ raw = REFUSED /\ phase = "text"
                   /\ \E e \in {Base64Encode(d)} :
                         \/ e # <<>> /\ mem = Front(e)
                         \/ \E k \in DOMAIN e : Len(d) % 3 # 1 /\ mem = [e EXCEPT ![k] = JUNK]
                         \/ Len(d) % 3 # 0 /\ mem = e \o e
       \/ /\ scheme = "hex" /\ phase = "text"
          /\ \E d \in BytesUri :
                \/ raw = d /\ mem = HexText(d)
                \/ /\ raw = REFUSED
                   /\ \E k \in 1 .. 2 * Len(d), c \in {SPACE, LETTER} : mem = [HexText(d) EXCEPT ![k] = c]
       \/ /\ scheme \in {"percent", "url"}
          /\ \E d \in BytesUri :
                \/ raw = d /\ mem = d /\ phase = "raw"
                \/ /\ phase = "text"
                   /\ \E chosen \in [DOMAIN d -> UNION {Spellings(c) : c \in ToSet(d)}] :
                         /\ \A k \in DOMAIN d : chosen[k] \in Spellings(d[k])
                         /\ \/ raw = d /\ mem = FlattenSeq(chosen)
                            \/ raw = REFUSED /\ \E b \in Broken : mem = FlattenSeq(chosen) \o b
Next ==
    \/ Encode \/ DecodeBase64 \/ BeginDecode \/ DecodeRound \/ HexRound \/ DecodeEnds
    \/ phase \in {"done", "refused"} /\ UNCHANGED vars
Spec == Init /\ [][Next]_vars

----------------------------------------------------------------------------
\* Decoding gives the data back, for each of their spellings, although it
\* writes over the text it reads, and refuses what is none.
CodesAreRead ==
    /\ phase = "done" => mem = raw
    /\ phase = "refused" => raw = REFUSED
    /\ phase = "decoding" => to <= from
=============================================================================
