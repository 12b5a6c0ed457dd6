------------------------------- MODULE MCData -------------------------------
(***************************************************************************)
(* The modules about bitmaps and texts for TLC, side by side: a behaviour  *)
(* is one of them, chosen in the initial state.                            *)
(***************************************************************************)
EXTENDS Bitmaps

CONSTANTS RegionBits, MaxOrder,
          ListWordBits, ListBits, MaxText, Base, UnsignedMax, Digits, DigitBits,
          LineMax, Unit, UriBase,
          DumpRow, DumpGroups, MaxDump

VARIABLES
    kind,
    fixed, held,                                            \* regions of bitmaps
    mask, text, format,                                     \* bitmaps as text
    means,                                                  \* what a text says
    file, buf, size, reader, out, quoted, fields, section,  \* files
    scheme, raw, mem, phase, to, from,                      \* codecs
    dump, i, remaining, linebuf                             \* hex dumps

R == INSTANCE Regions WITH MaxBits <- RegionBits
ASSUME RegionsAssumption == R!RegionAssumption
T == INSTANCE BitLists WITH WordBits <- ListWordBits, MaxBits <- ListBits

SeqsOf(S, n) == UNION {[1 .. k -> S] : k \in 0 .. n}
Texts == SeqsOf({"x", "quote", "comma", "lf"}, 2)
ShortTexts == SeqsOf({"x", "quote", "lf"}, 1)
Values == SeqsOf({"x", "quote", " ", "=", ";"}, 2)
C == INSTANCE Csv
I == INSTANCE Ini

\* All bytes alone and in pairs, and some in the groups that follow.
BytesBase64 == SeqsOf(0 .. 15, 2) \union [1 .. 3 -> {0, 1, 6, 9, 15}]
               \union [1 .. 4 -> {0, 6, 9}] \union [1 .. 5 -> {5, 10}]
BytesUri == SeqsOf(0 .. 8, 2) \union [1 .. 3 -> {1, 3, 4, 5, 8}]
K == INSTANCE Codecs WITH Base <- UriBase
D == INSTANCE HexDump WITH RowSize <- DumpRow, Groups <- DumpGroups

regions == <<fixed, held>>
texts == <<mask, text, format>>
files == <<file, buf, size, reader, out, quoted, fields, section>>
codecs == <<scheme, raw, mem, phase, to, from>>
dumps == <<dump, i, remaining, linebuf>>
NoBitmaps == set = {}
NoRegions == fixed = {} /\ held = {}
NoTexts == mask = {} /\ text = <<>> /\ format = "any" /\ means = {}
NoBits == nbits = 0 /\ map = {} /\ NoBitmaps /\ NoRegions
NoFiles == file = {} /\ buf = {} /\ size = 0 /\ reader = "" /\ out = {}
NoCsv == quoted = FALSE /\ fields = {}
NoIni == section = {}
NoCodecs == scheme = "" /\ raw = {} /\ mem = {} /\ phase = "" /\ to = 0 /\ from = 0
NoDumps == dump = {} /\ i = 0 /\ remaining = 0 /\ linebuf = {}
NoOthers == NoFiles /\ NoCsv /\ NoIni /\ NoCodecs /\ NoDumps
DataInit ==
    \/ kind = "bitmaps" /\ Init /\ NoRegions /\ NoTexts /\ NoOthers
    \/ kind = "regions" /\ R!Init /\ NoBitmaps /\ NoTexts /\ NoOthers
    \/ kind = "lists" /\ T!Init /\ map = {} /\ NoBitmaps /\ NoRegions /\ NoOthers
    \/ kind = "csv" /\ C!Init /\ NoBits /\ mask = {} /\ text = <<>> /\ format = "any"
          /\ NoIni /\ NoCodecs /\ NoDumps
    \/ kind = "ini" /\ I!Init /\ NoBits /\ mask = {} /\ text = <<>> /\ format = "any"
          /\ NoCsv /\ NoCodecs /\ NoDumps
    \/ kind = "codecs" /\ K!Init /\ NoBits /\ NoTexts /\ NoFiles /\ NoCsv /\ NoIni /\ NoDumps
    \/ kind = "dumps" /\ D!Init /\ NoBits /\ NoTexts /\ NoFiles /\ NoCsv /\ NoIni /\ NoCodecs
BitmapStep == Next /\ UNCHANGED <<regions, texts, means, files, codecs, dumps>>
RegionStep == R!Next /\ UNCHANGED <<set, texts, means, files, codecs, dumps>>
ListStep == T!Next /\ UNCHANGED <<map, set, regions, files, codecs, dumps>>
CsvStep == C!Next /\ UNCHANGED <<vars, regions, texts, section, codecs, dumps>>
IniStep == I!Next /\ UNCHANGED <<vars, regions, texts, quoted, fields, codecs, dumps>>
CodecStep == K!Next /\ UNCHANGED <<vars, regions, texts, means, files, dumps>>
DumpStep == D!Next /\ UNCHANGED <<vars, regions, texts, means, files, codecs>>
DataNext ==
    /\ UNCHANGED kind
    /\ \/ kind = "bitmaps" /\ BitmapStep
       \/ kind = "regions" /\ RegionStep
       \/ kind = "lists" /\ ListStep
       \/ kind = "csv" /\ CsvStep
       \/ kind = "ini" /\ IniStep
       \/ kind = "codecs" /\ CodecStep
       \/ kind = "dumps" /\ DumpStep
DataSpec == DataInit /\ [][DataNext]_<<kind, vars, regions, texts, means, files, codecs, dumps>>

----------------------------------------------------------------------------
\* A bitmap is the set of its bits after every sequence of the operations of
\* bitmap.c, also in place, and whatever the unused bits hold; operations set
\* no unused bit when they are given none, on which bitmap_and's result and
\* the short shifts rely.
SetsAreKept == kind = "bitmaps" => BitmapsAreSets
UnusedAreKept == [][kind = "bitmaps" => CleanStaysClean]_<<kind, vars>>

\* Every question about bitmaps is answered as it is for the sets: searches,
\* comparisons, free areas, and the maps of remap, onto and fold.
QuestionsAreAnswered == kind = "bitmaps" => AnswersAgree

\* The set bits are those of the regions handed out, none in two of them,
\* and bitmap_find_free_region fails only when there is none.
RegionsAreKept == kind = "regions" => R!RegionsExclusive

\* bitmap_parselist and bitmap_parse read what bitmap_scnlistprintf and
\* bitmap_scnprintf print, except for the list of an empty bitmap, and what
\* callers write; of other texts they accept what ListSyntax and HexSyntax
\* describe.  The decoders read what the encoders print and every other
\* spelling of it, and refuse texts that are none.  The dumps of hexdump.c
\* show every byte at its place.
TextsAreRead ==
    /\ kind = "lists" => T!BitListsTypeOK /\ T!ListsAreRead /\ T!HexIsRead /\ T!ListSyntax /\ T!HexSyntax
    /\ kind = "codecs" => K!CodesAreRead
    /\ kind = "dumps" => D!LinesAreDumps

\* csv_parse and ini_parse give the callback what was written, in order and
\* nothing else, however lines and buffer meet and wherever a read fails.
FilesAreRead ==
    /\ kind = "csv" => C!RecordsAreRead
    /\ kind = "ini" => I!ValuesAreRead
============================================================================
