-------------------------------- MODULE Csv ---------------------------------
(***************************************************************************)
(* csv.c: records of fields, which may be quoted and then hold quotes,     *)
(* commas and line ends, so that a record goes on over several lines.      *)
(* parse_csv gets a line at a time; its loop takes one step per round.     *)
(***************************************************************************)
EXTENDS LineReader

CONSTANT Texts,             \* fields that are tried alone or in pairs
         ShortTexts         \* ... and in files of two records

COMMA == "comma"
QUOTE == "quote"
CR == "cr"
X == "x"

VARIABLES
    quoted,     \* ctx->quoted
    fields,     \* ctx->field
    out,        \* the records that the callback got
    means       \* the records that were written to the file
vars == <<fileVars, quoted, fields, out, means>>
Parsing == reader = "parsing"

First(c) == SelectInSeq(buf, LAMBDA d : d = c)      \* memchr; 0 if there is none
Before(k) == SubSeq(buf, 1, k - 1)
After(k) == SubSeq(buf, k + 1, Len(buf))
Appended(text) == Front(fields) \o <<Last(fields) \o text>>     \* append_to_last_field

\* The record is complete: callback, which may refuse it.
Deliver(record) ==
    /\ out' = Append(out, record) /\ fields' = <<>>
    /\ LineRead \/ LineRefused

\* while (len > 0)
Continue(record, rest) ==
    \/ rest = <<>> /\ Deliver(record)
    \/ rest # <<>> /\ buf' = rest /\ fields' = record /\ UNCHANGED <<file, size, reader, out>>

QuotedGoesOn ==
    /\ Parsing /\ quoted /\ First(QUOTE) = 0
    /\ fields' = Appended(buf)
    /\ LineRead
    /\ UNCHANGED <<quoted, out, means>>

QuotedPair ==
    LET q == First(QUOTE) IN
    /\ Parsing /\ quoted /\ q > 0 /\ q < Len(buf) /\ buf[q + 1] = QUOTE
    /\ Continue(Appended(SubSeq(buf, 1, q)), After(q + 1))
    /\ UNCHANGED <<quoted, means>>

(* Mutant: text behind the field is left out. *)
QuotedEndsBeforeText ==
    LET q == First(QUOTE)
        record == Appended(Before(q))
        rest == After(q)
    IN  /\ Parsing /\ quoted /\ q > 0 /\ ~(q < Len(buf) /\ buf[q + 1] = QUOTE)
        /\ quoted' = FALSE
        /\ \/ ~IsPrefix(<<COMMA>>, rest) /\ Deliver(record)
           \/ rest # <<>> /\ Head(rest) = COMMA /\ Continue(record, Tail(rest))
        /\ UNCHANGED means
QuotedEnds ==
    LET q == First(QUOTE)
        record == Appended(Before(q))
        rest == After(q)
    IN  /\ Parsing /\ quoted /\ q > 0 /\ ~(q < Len(buf) /\ buf[q + 1] = QUOTE)
        /\ quoted' = FALSE
        /\ \/ rest \in {<<>>, <<CR, LF>>, <<CR>>, <<LF>>} /\ Deliver(record)
           \/ rest # <<>> /\ Head(rest) = COMMA /\ Continue(record, Tail(rest))
           \/ /\ rest \notin {<<>>, <<CR, LF>>, <<CR>>, <<LF>>} /\ Head(rest) # COMMA
              /\ LineRefused /\ fields' = record /\ UNCHANGED out
        /\ UNCHANGED means

OpenQuote ==
    /\ Parsing /\ ~quoted /\ Head(buf) = QUOTE
    /\ quoted' = TRUE
    /\ Continue(Append(fields, <<>>), Tail(buf))
    /\ UNCHANGED means

PlainField ==
    LET c == First(COMMA) IN
    /\ Parsing /\ ~quoted /\ Head(buf) # QUOTE /\ c > 0
    /\ Continue(Append(fields, Before(c)), After(c))
    /\ UNCHANGED <<quoted, means>>

Stripped(line) ==
    IF IsSuffix(<<CR, LF>>, line) THEN SubSeq(line, 1, Len(line) - 2)
    ELSE IF Last(line) \in {CR, LF} THEN Front(line) ELSE line
LastField ==
    /\ Parsing /\ ~quoted /\ Head(buf) # QUOTE /\ First(COMMA) = 0
    /\ Deliver(Append(fields, Stripped(buf)))
    /\ UNCHANGED <<quoted, means>>

\* csv_parse returns 0.
ReturnsZero == reader = "done" /\ ~quoted

\* No memory for a field.
FieldFails == Parsing /\ LineRefused /\ UNCHANGED <<quoted, fields, out, means>>

----------------------------------------------------------------------------
\* What writers of RFC 4180 do: every field is quoted, or those that have to.
Quoted(text) ==
    <<QUOTE>> \o FlattenSeq([k \in DOMAIN text |-> IF text[k] = QUOTE THEN <<QUOTE, QUOTE>> ELSE <<text[k]>>])
              \o <<QUOTE>>
Written(text, always) ==
    IF always \/ ToSet(text) \intersect {QUOTE, COMMA, LF, CR} # {} THEN Quoted(text) ELSE text
Row(record, always) ==
    FoldLeft(LAMBDA t, k : t \o (IF k = 1 THEN <<>> ELSE <<COMMA>>) \o Written(record[k], always),
             <<>>, [k \in DOMAIN record |-> k])

\* An empty field at the end of the file needs the line's end or quotes.
WriteFile(records, always, eol, terminated) ==
    /\ terminated \/ always \/ Last(Last(records)) # <<>>
    /\ means = records
    /\ file = LinesOf([k \in DOMAIN records |-> Row(records[k], always)], eol, terminated)

\* A record that csv_parse must not give to the callback: text behind the quoted
\* field, or no end of it.
REFUSED == <<"refused">>
Malformed == {<<QUOTE, X, QUOTE, X>>, <<QUOTE, QUOTE, CR, X>>, <<QUOTE, X>>, <<X, COMMA, QUOTE, COMMA, LF>>}
WriteMalformed(record, bad) ==
    /\ means = <<record, REFUSED>>
    /\ file = LinesOf(<<Row(record, FALSE), bad>>, <<LF>>, FALSE)

Records(texts) == {<<f>> : f \in texts} \union {<<f, g>> : f, g \in texts}
Init ==
    /\ FileInit /\ quoted = FALSE /\ fields = <<>> /\ out = <<>>
    /\ \E always, terminated \in BOOLEAN, eol \in {<<LF>>, <<CR, LF>>} :
          \/ \E r \in Records(Texts) : WriteFile(<<r>>, always, eol, terminated)
          \/ \E r \in Records(ShortTexts), bad \in Malformed : WriteMalformed(r, bad)
          \/ \E r, s \in Records(ShortTexts) : WriteFile(<<r, s>>, always, eol, terminated)

Next ==
    \/ FileStep /\ UNCHANGED <<quoted, fields, out, means>>
    \/ QuotedGoesOn \/ QuotedPair \/ QuotedEnds \/ OpenQuote \/ PlainField \/ LastField \/ FieldFails
    \/ Ended /\ UNCHANGED vars
Spec == Init /\ [][Next]_vars

----------------------------------------------------------------------------
\* Whatever was written is read: the callback gets the records in order, whole
\* and no others, also from a file that fails in the middle; all of them when
\* csv_parse returns 0.  It does so too when the last line has no end and just
\* fills the buffer, and then that line is missing (ReadWhole).
RecordsAreRead ==
    /\ IsPrefix(out, means)
    /\ ReturnsZero /\ ReadWhole => out = means
=============================================================================
