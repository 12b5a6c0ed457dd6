------------------------------ MODULE HexDump -------------------------------
(***************************************************************************)
(* hexdump.c: a line of a dump, which is cut to the caller's buffer, and   *)
(* dumps of as many lines as it takes, through a buffer of fixed size.  A  *)
(* character is known by the byte it shows, and as what.                   *)
(***************************************************************************)
EXTENDS Integers, SequencesExt

CONSTANTS
    RowSize,            \* the bytes of a line, 16, or twice as many
    Groups,             \* of bytes that are printed as one number: {2, 4, 8}
    MaxDump             \* the length of the dumps that are tried

NUL == <<"nul">>
BLANK == <<"blank">>
Hi(j) == <<"hi", j>>
Lo(j) == <<"lo", j>>
Char(j) == <<"char", j>>

VARIABLES
    dump,       \* what was asked: [call, len, rowsize, groupsize, size, ascii]
    i,          \* of print_hex_dump: the first byte of the next line
    remaining,  \* ... and its local of that name
    linebuf     \* the last line, with the NUL at its end
vars == <<dump, i, remaining, linebuf>>

Row == IF dump.rowsize \in {RowSize, 2 * RowSize} THEN dump.rowsize ELSE RowSize
SizeofLinebuf == 2 * RowSize * 3 + 2 + 2 * RowSize + 1

\* No mixed size output; other sizes than those of numbers are printed as bytes.
GroupSize(len) == IF dump.groupsize \in Groups /\ len % dump.groupsize = 0 THEN dump.groupsize ELSE 1

\* scnprintf cuts to the room there is, but for a NUL.  Numbers are little-endian.
Scnprintf(line, text) == line \o SubSeq(text, 1, Min({Len(text), dump.size - Len(line) - 1}))
Number(from, n) == FlattenSeq([b \in 1 .. n |-> <<Hi(from + n - b), Lo(from + n - b)>>])
HexNumbers(from, len, n) ==
    FoldLeft(LAMBDA line, k : Scnprintf(line, (IF k = 1 THEN <<>> ELSE <<BLANK>>) \o Number(from + (k - 1) * n, n)),
             <<>>, [k \in 1 .. len \div n |-> k])

\* As bytes, while three characters fit; the last blank goes.
HexBytes(from, len) ==
    LET shown == Min({len, dump.size \div 3})
        line == FlattenSeq([j \in 1 .. shown |-> <<Hi(from + j - 1), Lo(from + j - 1), BLANK>>])
    IN  IF shown = 0 THEN <<>> ELSE Front(line)

AsciiColumn(len, n) == IF n = 1 THEN 3 * Row + 2 ELSE (2 * n + 1) * (len \div n) + 2

Blanks(k) == [b \in 1 .. k |-> BLANK]
WithAscii(hex, from, len, column) ==
    LET line == hex \o Blanks(Min({dump.size, column}) - 1 - Len(hex))
        room == dump.size - 2 - Len(line)
    IN  line \o [j \in 1 .. Min({len, room}) |-> Char(from + j - 1)]

HexDumpToBuffer(from, given) ==
    LET len == Min({given, Row})
        n == GroupSize(len)
        hex == IF n = 1 THEN HexBytes(from, len) ELSE HexNumbers(from, len, n)
    IN  IF len = 0 THEN <<NUL>>
        ELSE Append(IF dump.ascii THEN WithAscii(hex, from, len, AsciiColumn(len, n)) ELSE hex, NUL)

----------------------------------------------------------------------------
\* A buffer has room for the NUL at least.
Init ==
    /\ \E call \in {"buffer", "print"}, len \in 0 .. MaxDump, rowsize \in {RowSize, 2 * RowSize, RowSize + 1},
          groupsize \in Groups \union {1, 3}, ascii \in BOOLEAN :
       \E size \in IF call = "print" THEN {SizeofLinebuf} ELSE 1 .. SizeofLinebuf :
          dump = [call |-> call, len |-> len, rowsize |-> rowsize, groupsize |-> groupsize,
                  ascii |-> ascii, size |-> size]
    /\ i = 0 /\ remaining = dump.len /\ linebuf = <<>>

ToBuffer ==
    /\ dump.call = "buffer" /\ linebuf = <<>>
    /\ linebuf' = HexDumpToBuffer(0, dump.len)
    /\ UNCHANGED <<dump, i, remaining>>

\* One line of print_hex_dump.
PrintLine ==
    /\ dump.call = "print" /\ i < dump.len
    /\ linebuf' = HexDumpToBuffer(i, Min({remaining, Row}))
    /\ i' = i + Row /\ remaining' = remaining - Row
    /\ UNCHANGED dump

Dumped == IF dump.call = "buffer" THEN linebuf # <<>> ELSE i >= dump.len
Next == ToBuffer \/ PrintLine \/ (Dumped /\ UNCHANGED vars)
Spec == Init /\ [][Next]_vars

----------------------------------------------------------------------------
\* The bytes of the last line, and where its comment and its examples have
\* them: the digits in groups, each byte as a character two blanks behind the
\* widest line, if it is of bytes, or behind this one.
First == IF dump.call = "buffer" THEN 0 ELSE i - Row
Shown == Min({Row, dump.len - First})
Documented ==
    LET n == GroupSize(Shown)
        Digit(j) == (j \div n) * (2 * n + 1) + 2 * (n - 1 - (j % n))
        Column == 2 + (IF n = 1 THEN 3 * Row - 1 ELSE (Shown \div n) * (2 * n + 1) - 1)
        Bytes == 0 .. Shown - 1
    IN  {<<Digit(j) + 1, Hi(First + j)>> : j \in Bytes} \union {<<Digit(j) + 2, Lo(First + j)>> : j \in Bytes}
        \union (IF dump.ascii THEN {<<Column + j + 1, Char(First + j)>> : j \in Bytes} ELSE {})

\* "The converted output is always NUL-terminated", in the buffer; nothing is
\* at a wrong place, however short the buffer is; and nothing is missing when
\* it is long enough, as that of print_hex_dump always is.
LinesAreDumps ==
    linebuf # <<>> =>
        /\ Len(linebuf) <= dump.size /\ Last(linebuf) = NUL
        /\ \A p \in 1 .. Len(linebuf) - 1 : linebuf[p] = BLANK \/ <<p, linebuf[p]>> \in Documented
        /\ (dump.call = "print" \/ \A d \in Documented : d[1] + 2 <= dump.size) =>
              \A d \in Documented : d[1] < Len(linebuf) /\ linebuf[d[1]] = d[2]
=============================================================================
