---------------------------- MODULE BashDialect ----------------------------
(***************************************************************************)
(* parser.go: the syntax tree of a bash command as a pipeline of segments. *)
(*                                                                         *)
(* The tree is what mvdan.cc/sh hands over: a statement is [background,    *)
(* redirs, cmd], a command a call, a binary command or a construct that is *)
(* refused whatever is in it; a word is a sequence of parts, each with its *)
(* kind and its text without the quotes.                                   *)
(***************************************************************************)
EXTENDS BashText

CONSTANTS
    MaxPipeSegments,    \* segments a pipeline may have
    MaxArgsPerSegment   \* words a command may have

Refused == [ok |-> FALSE, segments |-> <<>>]
Parsed(segments) == [ok |-> TRUE, segments |-> segments]

-----------------------------------------------------------------------------
(* Words                                                                   *)

Expansions == {"param", "cmdsubst", "procsubst", "arithm", "extglob", "brace"}

\* A double-quoted part with an expansion in it is the kind "dblexp".
checkWordParts(word) ==
    \A i \in DOMAIN word : word[i].kind \notin Expansions \cup {"dblexp"}

\* What the printer prints for a part, and for a word.
PrintedPart(part) ==
    IF part.kind = "sgl" THEN "'" \o part.text \o "'"
    ELSE IF part.kind = "dbl" THEN "\"" \o part.text \o "\""
    ELSE part.text
PrintedWord(word) == Join([i \in DOMAIN word |-> PrintedPart(word[i])], "")

isWrappedInQuotes(s) ==
    Len(s) >= 2 /\ Char(s, 1) \in {"'", "\""} /\ Char(s, Len(s)) = Char(s, 1)

WordAllowed(word) ==
    /\ checkWordParts(word)
    /\ CharsOf(PrintedWord(word)) \cap {"{", "}"} # {} => isWrappedInQuotes(PrintedWord(word))

\* wordToString: one pair of quotes around the whole word is taken off.
wordToString(word) ==
    LET s == PrintedWord(word) IN
    IF isWrappedInQuotes(s) THEN SubSeq(s, 2, Len(s) - 1) ELSE s

\* What a word denotes in bash: a backslash escapes any character outside of
\* quotes, and some inside of double quotes.
Escapable(kind, c) ==
    CASE kind = "sgl" -> FALSE
      [] kind = "dbl" -> c \in {"\\", "\"", "$", Backtick}
      [] OTHER -> TRUE
RECURSIVE Unescaped(_, _)
Unescaped(kind, s) ==
    IF Len(s) < 2 THEN s
    ELSE IF Char(s, 1) = "\\" /\ Escapable(kind, Char(s, 2))
         THEN Char(s, 2) \o Unescaped(kind, From(s, 3))
    ELSE Char(s, 1) \o Unescaped(kind, From(s, 2))
MeaningOf(word) == Join([i \in DOMAIN word |-> Unescaped(word[i].kind, word[i].text)], "")

-----------------------------------------------------------------------------
(* Parse                                                                   *)

\* A call: words that come out empty are dropped.
walkCall(call, operator) ==
    LET tokens == SelectSeq([i \in DOMAIN call.words |-> wordToString(call.words[i])],
                            LAMBDA t : t # "") IN
    IF \/ call.assigns
       \/ call.words = <<>> \/ Len(call.words) > MaxArgsPerSegment
       \/ \E i \in DOMAIN call.words : ~ WordAllowed(call.words[i])
       \/ tokens = <<>>
    THEN Refused
    ELSE Parsed(<<Segment(tokens[1], Tail(tokens), operator)>>)

RECURSIVE walkStmt(_, _)
walkBinary(binary, operator) ==
    LET left  == walkStmt(binary.x, operator)
        right == walkStmt(binary.y, binary.op) IN
    IF binary.op \in Operators /\ left.ok /\ right.ok
    THEN Parsed(left.segments \o right.segments)
    ELSE Refused

walkStmt(stmt, operator) ==
    IF stmt.background \/ stmt.redirs THEN Refused
    ELSE CASE stmt.cmd.kind = "call"   -> walkCall(stmt.cmd, operator)
           [] stmt.cmd.kind = "binary" -> walkBinary(stmt.cmd, operator)
           [] OTHER -> Refused

\* A file is a sequence of statements.
Parse(file) ==
    IF Len(file) # 1 \/ Len(walkStmt(file[1], "").segments) > MaxPipeSegments
    THEN Refused
    ELSE walkStmt(file[1], "")
=============================================================================
