-------------------------------- MODULE Ini ---------------------------------
(***************************************************************************)
(* ini.c: a file of sections, of names with values, which may be quoted,   *)
(* of comments and of blank lines.  parse_ini gets a line at a time.       *)
(***************************************************************************)
EXTENDS LineReader

CONSTANT Values             \* the values that are tried

COMMENT == ";"
OPEN == "["
CLOSE == "]"
EQUALS == "="
SPACE == " "
QUOTE == "quote"
X == "x"
Y == "y"
NoSection == <<"NULL">>

VARIABLES
    section,    \* ctx->section
    out,        \* what the callback got: <<section, name, value>>
    means       \* what was written to the file
vars == <<fileVars, section, out, means>>

\* strlstrip, strrstrip and strstrip.
IsSpace(c) == c \in {SPACE, LF}
StrLStrip(t) == LET k == SelectInSeq(t, LAMBDA c : ~IsSpace(c)) IN IF k = 0 THEN <<>> ELSE SubSeq(t, k, Len(t))
StrRStrip(t) == SubSeq(t, 1, SelectLastInSeq(t, LAMBDA c : ~IsSpace(c)))
StrStrip(t) == StrRStrip(StrLStrip(t))

Unquoted(v) ==
    IF Len(v) >= 2 /\ Head(v) = QUOTE /\ Last(v) = QUOTE THEN SubSeq(v, 2, Len(v) - 1) ELSE v

Parsing == reader = "parsing"
Line == IF Last(buf) = LF THEN Front(buf) ELSE buf
Name == StrStrip(Line)
IsComment == Line # <<>> /\ Head(Line) = COMMENT

SkipLine ==
    /\ Parsing
    /\ IsComment \/ Name = <<>>
    /\ LineRead
    /\ UNCHANGED <<section, out, means>>

SectionLine ==
    /\ Parsing /\ ~IsComment /\ Name # <<>> /\ Head(Name) = OPEN
    /\ IF Last(Name) = CLOSE /\ Len(Name) > 2
       THEN \/ section' = SubSeq(Name, 2, Len(Name) - 1) /\ LineRead
            \/ section' = NoSection /\ LineRefused       \* no memory
       ELSE LineRefused /\ UNCHANGED section
    /\ UNCHANGED <<out, means>>

ValueLine ==
    LET e == SelectInSeq(Name, LAMBDA c : c = EQUALS)
        name == StrRStrip(SubSeq(Name, 1, e - 1))
        value == Unquoted(StrLStrip(SubSeq(Name, e + 1, Len(Name))))
    IN  /\ Parsing /\ ~IsComment /\ Name # <<>> /\ Head(Name) # OPEN
        /\ IF e > 0 /\ name # <<>>
           THEN out' = Append(out, <<section, name, value>>) /\ (LineRead \/ LineRefused)
           ELSE LineRefused /\ UNCHANGED out
        /\ UNCHANGED <<section, means>>

----------------------------------------------------------------------------
\* What writers do: blanks around names and values, quotes around values that
\* begin or end with blanks, or are quoted themselves.
Bare(v) == v # <<>> => Head(v) # SPACE /\ Last(v) # SPACE
                       /\ (Len(v) = 1 \/ Head(v) # QUOTE \/ Last(v) # QUOTE)
ValueLines(v) ==
    {<<X, EQUALS, QUOTE>> \o v \o <<QUOTE>>, <<X, SPACE, EQUALS, SPACE, QUOTE>> \o v \o <<QUOTE, SPACE>>}
    \union (IF Bare(v) THEN {<<X, EQUALS>> \o v, <<SPACE, X, SPACE, EQUALS, SPACE>> \o v \o <<SPACE>>} ELSE {})
Skipped == {<<>>, <<SPACE>>, <<COMMENT, OPEN, X, CLOSE>>, <<COMMENT, X, EQUALS, Y>>}
Section(t) == <<OPEN>> \o t \o <<CLOSE>>
Malformed == {<<X>>, <<EQUALS, X>>, <<SPACE, EQUALS>>, <<OPEN, CLOSE>>, <<OPEN, X>>, <<OPEN>>}
REFUSED == <<"refused">>

\* A value in a section or in none; another line; and one more value.
Init ==
    /\ FileInit /\ section = NoSection /\ out = <<>>
    /\ \E v \in Values, in \in {NoSection, <<X>>, <<X, SPACE, CLOSE>>}, terminated \in BOOLEAN :
       \E line \in ValueLines(v), other \in Skipped \union Malformed \union {Section(<<Y>>)} :
          LET first == IF in = NoSection THEN <<>> ELSE Section(in)
              last == << IF other = Section(<<Y>>) THEN <<Y>> ELSE in, <<Y>>, <<X>> >>
          IN  /\ file = LinesOf(<<first, line, other, <<Y, EQUALS, X>>>>, <<LF>>, terminated)
              /\ means = << <<in, <<X>>, v>>, IF other \in Malformed THEN REFUSED ELSE last >>
Next ==
    \/ FileStep /\ UNCHANGED <<section, out, means>>
    \/ SkipLine \/ SectionLine \/ ValueLine
    \/ Ended /\ UNCHANGED vars
Spec == Init /\ [][Next]_vars

----------------------------------------------------------------------------
\* The callback gets the values in order, each with the section it is in, and
\* nothing of a line that is none; all of them when ini_parse returns 0 (but
\* see ReadWhole).
ValuesAreRead ==
    /\ IsPrefix(out, means)
    /\ ReadWhole => out = means
=============================================================================
