----------------------------- MODULE LineReader -----------------------------
(***************************************************************************)
(* file_each_line of file.c: the lines of a file, in a buffer that doubles *)
(* when a line does not fit.  The reader that it calls for each line says  *)
(* what it does with buf and when it is through (LineRead).                *)
(***************************************************************************)
EXTENDS Naturals, SequencesExt

CONSTANT LineMax            \* LINE_MAX, the first size of the buffer, at least 2

LF == "lf"

VARIABLES
    file,       \* what is left to read
    buf,        \* the line, without what its reader is through with
    size,       \* buf_size
    reader      \* "reading", "parsing" while the callback runs, "done", "failed"
fileVars == <<file, buf, size, reader>>

\* How much fgets reads, and whether it meets the end of the file.
Room == size - Len(buf) - 1
Fgets == Min({Room, Len(file)} \union {i \in DOMAIN file : file[i] = LF})
Feof == Fgets = Len(file) /\ Fgets < Room /\ Last(file) # LF

\* A chunk that fills the buffer may be a part of a line: the rest of the line
\* is appended to it.  A read may fail, and the memory for it (ReadFails).
ReadChunk ==
    /\ reader = "reading" /\ file # <<>>
    /\ LET line == buf \o SubSeq(file, 1, Fgets)
           part == Last(line) # LF /\ Len(line) = size - 1 /\ ~Feof
       IN  /\ file' = SubSeq(file, Fgets + 1, Len(file)) /\ buf' = line
           /\ IF part THEN size' = size * 2 /\ UNCHANGED reader
              ELSE reader' = "parsing" /\ UNCHANGED size

\* The loop ends when fgets reads nothing, also behind a part of a line.
EndOfFile == reader = "reading" /\ file = <<>> /\ reader' = "done" /\ UNCHANGED <<file, buf, size>>
ReadFails == reader = "reading" /\ reader' = "failed" /\ UNCHANGED <<file, buf, size>>
FileStep == ReadChunk \/ EndOfFile \/ ReadFails

\* The callback returns 0, or another value.
LineRead == reader' = "reading" /\ buf' = <<>> /\ UNCHANGED <<file, size>>
LineRefused == reader' = "failed" /\ buf' = <<>> /\ UNCHANGED <<file, size>>

Ended == reader \in {"done", "failed"}
ReadWhole == reader = "done" /\ buf = <<>>

FileInit == buf = <<>> /\ size = LineMax /\ reader = "reading"

\* A text with its lines between ends, and one at the end if terminated.
LinesOf(lines, eol, terminated) ==
    FoldLeft(LAMBDA t, k : t \o lines[k] \o (IF k < Len(lines) \/ terminated THEN eol ELSE <<>>),
             <<>>, [k \in DOMAIN lines |-> k])
=============================================================================
