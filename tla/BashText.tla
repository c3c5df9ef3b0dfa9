------------------------------ MODULE BashText ------------------------------
(***************************************************************************)
(* ssh/reconstruct.go: the text that is sent to a bash host for a          *)
(* pipeline; and how a POSIX shell on the host reads that text.            *)
(***************************************************************************)
EXTENDS Validator

\* The characters that the quoting and the reading tell apart.
None        == ""
Quote       == "'"
DoubleQuote == "\""
Space       == " "
Bar         == "|"
Ampersand   == "&"
Special     == {Quote, DoubleQuote, Space, Bar, Ampersand}

SafeShellChars == Alnum \cup {"_", "@", "%", "+", "=", ":", ",", ".", "/", "-"}
isSafeShellToken(token) == CharsOf(token) \subseteq SafeShellChars

\* What these strings are made of.
Escaped == "'\"'\"'"
ASSUME LiteralsAreTexts ==
    /\ None \in STRING /\ Len(None) = 0
    /\ \A c \in Special : c \in STRING /\ Len(c) = 1 /\ c \notin SafeShellChars
    /\ Escaped = Quote \o (DoubleQuote \o (Quote \o (DoubleQuote \o Quote)))
    /\ Operators = {Bar, Bar \o Bar, Ampersand \o Ampersand}

-----------------------------------------------------------------------------
(* Reconstruction                                                          *)

\* Mutant: a quote inside the token is not escaped.
ShellQuoteUnescaped(token) ==
    IF token # None /\ isSafeShellToken(token) THEN token ELSE Quote \o token \o Quote

ShellQuote(token) ==
    IF token # None /\ isSafeShellToken(token) THEN token
    ELSE Quote \o ReplaceAll(token, Quote, Escaped) \o Quote

RenderedSegment(seg) ==
    (IF seg.op = None THEN None ELSE seg.op \o Space)
    \o Join([i \in 1..(Len(seg.args) + 1) |->
                ShellQuote(IF i = 1 THEN seg.cmd ELSE seg.args[i - 1])], Space)

\* The assignments of PATH and PGOPTIONS in front of the text are left out.
ReconstructCommand(pipeline) ==
    Join([i \in DOMAIN pipeline |-> RenderedSegment(pipeline[i])], Space)

-----------------------------------------------------------------------------
(* A POSIX shell reads a line: quoted text is taken literally, blanks      *)
(* separate words, and | && || separate commands.  A character that would  *)
(* start an expansion or something else makes the line unreadable.         *)

\* rest: what is still to be read; quote: the quote that is open; word: the
\* word so far, if open; words, op: the command so far; read: those before it.
ShellStates ==
    [rest : STRING, quote : {None, Quote, DoubleQuote}, open : BOOLEAN, word : STRING,
     words : Seq(STRING), op : Operators \cup {None}, read : Seq(Segments), ok : BOOLEAN]

Stuck(v) == [v EXCEPT !.rest = None, !.ok = FALSE]
EndWord(v) ==
    [v EXCEPT !.words = IF v.open THEN Append(v.words, v.word) ELSE v.words,
              !.open = FALSE, !.word = None]
EndCommand(v) ==
    LET words == EndWord(v).words IN
    IF words = <<>> THEN Stuck(v)
    ELSE [EndWord(v) EXCEPT !.words = <<>>,
                            !.read = Append(v.read, Segment(words[1], Tail(words), v.op))]

ShellRound ==
    [v \in ShellStates |->
        LET c    == Char(v.rest, 1)
            two  == IF Len(v.rest) = 1 THEN None ELSE SubSeq(v.rest, 1, 2)
            next == [v EXCEPT !.rest = From(v.rest, 2)] IN
        IF v.rest = None THEN v
        ELSE IF v.quote # None
        THEN IF c = v.quote THEN [next EXCEPT !.quote = None]
             ELSE IF v.quote = DoubleQuote /\ c \in {"$", Backtick, "\\"} THEN Stuck(v)
             ELSE [next EXCEPT !.word = v.word \o c]
        ELSE IF c \in {Quote, DoubleQuote} THEN [next EXCEPT !.quote = c, !.open = TRUE]
        ELSE IF c = Space THEN EndWord(next)
        ELSE IF two \in Operators
        THEN [EndCommand([v EXCEPT !.rest = From(v.rest, 3)]) EXCEPT !.op = two]
        ELSE IF c \in Operators THEN [EndCommand(next) EXCEPT !.op = c]
        ELSE IF c \in SafeShellChars THEN [next EXCEPT !.word = v.word \o c, !.open = TRUE]
        ELSE Stuck(v)]

\* The commands of a line; none when it cannot be read.
ShellReads(text) ==
    LET last == Iterate(ShellRound,
                        [rest |-> text, quote |-> None, open |-> FALSE, word |-> None,
                         words |-> <<>>, op |-> None, read |-> <<>>, ok |-> TRUE], Len(text))
        end == EndCommand(last) IN
    IF last.quote = None /\ end.ok THEN end.read ELSE <<>>
=============================================================================
