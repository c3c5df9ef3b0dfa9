------------------------- MODULE PowerShellDialect -------------------------
(***************************************************************************)
(* parser/powershell.go: the syntax tree of the safe PowerShell grammar as *)
(* a pipeline of segments; winrm/reconstruct.go: the text for the host;    *)
(* and how PowerShell reads that text.                                     *)
(*                                                                         *)
(* The tree is participle's: a pipeline is a sequence of commands [name,   *)
(* args], an argument a flag and its value, or a value alone, a value a    *)
(* comma list of literals.  The levels of the expression grammar are one   *)
(* sequence of terms, each with the operator in front of it: the walks of  *)
(* the code visit the same atoms in the same order.                        *)
(***************************************************************************)
EXTENDS BashDialect

-----------------------------------------------------------------------------
(* Expressions                                                             *)

RECURSIVE ToLower(_)
ToLower(s) == IF s = "" THEN "" ELSE Lower(Char(s, 1)) \o ToLower(From(s, 2))

TightOperators == {"", "+", "-", "/", "%"}

allowedStaticTypes == {"math", "datetime", "timespan", "int", "int64"}
allowedStaticMembers ==
    {"round", "floor", "ceiling", "abs", "min", "max", "now", "utcnow", "today",
     "fromseconds", "fromminutes", "fromhours", "fromdays", "maxvalue", "minvalue", "parse"}

Interpolates(text) == CharsOf(text) \cap {"$", Backtick} # {}

\* From validateSafeExpr to validateAtom: every atom, through parentheses
\* and the arguments of calls.  A call without arguments has args = <<>>.
RECURSIVE validateSafeExpr(_)
validateStaticCall(atom) ==
    /\ ToLower(atom.type) \in allowedStaticTypes
    /\ ToLower(atom.text) \in allowedStaticMembers
    /\ \A i \in DOMAIN atom.args : validateSafeExpr(atom.args[i])
validateAtom(atom) ==
    CASE atom.kind = "static" -> validateStaticCall(atom)
      [] atom.kind = "paren"  -> validateSafeExpr(atom.expr)
      [] atom.kind = "dq"     -> ~ Interpolates(atom.text)
      [] OTHER -> TRUE
validateSafeExpr(expr) == \A i \in DOMAIN expr : validateAtom(expr[i].atom)

\* From renderSafeExpr to renderAtom.
RECURSIVE renderSafeExpr(_)
renderStaticCall(atom) ==
    "[" \o atom.type \o "]::" \o atom.text
    \o (IF atom.args = <<>> THEN ""
        ELSE "(" \o Join([i \in DOMAIN atom.args |-> renderSafeExpr(atom.args[i])], ",") \o ")")
renderAtom(atom) ==
    CASE atom.kind = "static" -> renderStaticCall(atom)
      [] atom.kind = "var"    -> "$" \o atom.text
      [] atom.kind = "string" -> "'" \o atom.text \o "'"
      [] atom.kind = "dq"     -> "\"" \o atom.text \o "\""
      [] atom.kind = "paren"  -> "(" \o renderSafeExpr(atom.expr) \o ")"
      [] OTHER -> atom.text
RenderedOperator(op) == IF op \in TightOperators THEN op ELSE " " \o op \o " "
renderSafeExpr(expr) ==
    Join([i \in DOMAIN expr |->
             RenderedOperator(expr[i].op) \o (IF expr[i].neg THEN "-" ELSE "")
             \o renderAtom(expr[i].atom)], "")

-----------------------------------------------------------------------------
(* Values                                                                  *)

RECURSIVE validatePSValue(_)
validateLiteral(l) ==
    CASE l.kind = "dq"    -> ~ Interpolates(l.text)
      [] l.kind = "hash"  -> \A i \in DOMAIN l.entries : validatePSValue(l.entries[i].value)
      [] l.kind = "block" -> validateSafeExpr(l.expr)
      [] OTHER -> TRUE
validatePSValue(value) == \A i \in DOMAIN value : validateLiteral(value[i])

RECURSIVE renderPSValue(_)
renderExprBlock(l) == "{" \o renderSafeExpr(l.expr) \o "}"

\* A single literal in a hashtable: what PowerShell should not evaluate is
\* quoted.  renderHashtable: a list is joined as it is.
RECURSIVE renderHashtable(_)
renderHashEntrySingle(l) ==
    CASE l.kind = "block" -> renderExprBlock(l)
      [] l.kind = "hash"  -> renderHashtable(l)
      [] l.kind \in {"number", "size", "env"} -> l.text
      [] OTHER -> "'" \o ReplaceAll(l.text, "'", "''") \o "'"
renderHashtable(l) ==
    "@{" \o Join([i \in DOMAIN l.entries |->
                    LET e == l.entries[i] IN
                    e.key \o "=" \o (IF Len(e.value) = 1 THEN renderHashEntrySingle(e.value[1])
                                     ELSE renderPSValue(e.value))], "; ") \o "}"

renderLiteral(l) ==
    CASE l.kind = "hash"  -> renderHashtable(l)
      [] l.kind = "block" -> renderExprBlock(l)
      [] OTHER -> l.text
renderPSValue(value) == Join([i \in DOMAIN value |-> renderLiteral(value[i])], ",")

-----------------------------------------------------------------------------
(* ParsePowerShell                                                         *)

\* An argument: its flag, or "", and the list of its value, maybe empty.
validatePSPipeline(commands) ==
    \A i \in DOMAIN commands : \A j \in DOMAIN commands[i].args :
        validatePSValue(commands[i].args[j].value)

ArgTokens(arg) ==
    (IF arg.flag = "" THEN <<>> ELSE <<arg.flag>>)
    \o (IF arg.value = <<>> THEN <<>> ELSE <<renderPSValue(arg.value)>>)

RECURSIVE AllTokens(_)
AllTokens(args) ==
    IF args = <<>> THEN <<>> ELSE ArgTokens(Head(args)) \o AllTokens(Tail(args))

convertPSPipeline(commands) ==
    [i \in DOMAIN commands |->
        Segment(ToLower(commands[i].name), AllTokens(commands[i].args),
                IF i = 1 THEN "" ELSE "|")]

\* The text of a command as it was typed, for preScanDangerous.
RECURSIVE TypedValue(_)
TypedLiteral(l) ==
    CASE l.kind = "string" -> "'" \o l.text \o "'"
      [] l.kind = "dq"     -> "\"" \o l.text \o "\""
      [] l.kind = "hash"   -> "@{" \o Join([i \in DOMAIN l.entries |->
                                  l.entries[i].key \o "=" \o TypedValue(l.entries[i].value)], ";") \o "}"
      [] OTHER -> renderLiteral(l)
TypedValue(value) == Join([i \in DOMAIN value |-> TypedLiteral(value[i])], ",")
Typed(commands) ==
    Join([i \in DOMAIN commands |->
             commands[i].name \o " " \o
             Join([j \in DOMAIN commands[i].args |->
                      commands[i].args[j].flag \o " " \o TypedValue(commands[i].args[j].value)], " ")],
         "|")

\* A redirection, a backtick or a call operator outside of single quotes.
preScanDangerous(text) ==
    \E i \in 1..Len(text) : Char(text, i) \in {">", "&", Backtick} /\ ~ InQuote(text, i)

ParsePowerShell(commands) ==
    LET segments == convertPSPipeline(commands) IN
    IF \/ commands = <<>>
       \/ preScanDangerous(Typed(commands))
       \/ ~ validatePSPipeline(commands)
       \/ \E i \in DOMAIN segments : Len(segments[i].args) > MaxArgsPerSegment
       \/ Len(segments) > MaxPipeSegments
    THEN Refused ELSE Parsed(segments)

-----------------------------------------------------------------------------
(* Reconstruction                                                          *)

\* splitTopLevelCommaList: commas outside of braces and quotes.
RECURSIVE SplitTop(_, _, _, _)
SplitTop(s, depth, quoted, part) ==
    IF s = "" THEN <<part>>
    ELSE LET c == Char(s, 1)
             rest == From(s, 2) IN
         IF c = "'" THEN SplitTop(rest, depth, ~ quoted, part \o c)
         ELSE IF quoted THEN SplitTop(rest, depth, TRUE, part \o c)
         ELSE IF c = "{" THEN SplitTop(rest, depth + 1, FALSE, part \o c)
         ELSE IF c = "}" THEN SplitTop(rest, IF depth > 0 THEN depth - 1 ELSE 0, FALSE, part \o c)
         ELSE IF c = "," /\ depth = 0 THEN <<part>> \o SplitTop(rest, 0, FALSE, "")
         ELSE SplitTop(rest, depth, FALSE, part \o c)

IsMixedList(parts) == Len(parts) >= 2 /\ \E i \in DOMAIN parts : HasPrefix(parts[i], "@{")

isPSEnvRef(token) ==
    /\ Len(token) > 5 /\ EqualFold(SubSeq(token, 1, 5), "$env:")
    /\ CharsOf(From(token, 6)) \subseteq WordChars
    /\ Char(token, 6) \notin CharsOf(Digits)

SafePSChars == Alnum \cup {"_", ".", "-", ":", "\\", "/", "*", ","}
isPSSafeToken(token) == CharsOf(token) \subseteq SafePSChars

\* Mutant: the quotes inside a token are not doubled.
RECURSIVE PowerShellQuoteUndoubled(_)
PowerShellQuoteUndoubled(token) ==
    LET parts == SplitTop(token, 0, FALSE, "") IN
    IF token = "" THEN "''"
    ELSE IF HasPrefix(token, "-") \/ HasPrefix(token, "@{") THEN token
    ELSE IF IsMixedList(parts)
         THEN Join([i \in DOMAIN parts |-> PowerShellQuoteUndoubled(parts[i])], ",")
    ELSE IF isPSEnvRef(token) \/ isPSSafeToken(token) THEN token
    ELSE "'" \o token \o "'"

RECURSIVE PowerShellQuote(_)
PowerShellQuote(token) ==
    LET parts == SplitTop(token, 0, FALSE, "") IN
    IF token = "" THEN "''"
    ELSE IF HasPrefix(token, "-") \/ HasPrefix(token, "@{") THEN token
    ELSE IF IsMixedList(parts)
         THEN Join([i \in DOMAIN parts |-> PowerShellQuote(parts[i])], ",")
    ELSE IF isPSEnvRef(token) \/ isPSSafeToken(token) THEN token
    ELSE "'" \o ReplaceAll(token, "'", "''") \o "'"

psAliasBypass(name) == IF name = "curl" THEN "curl.exe" ELSE name

ReconstructPowerShellCommand(pipeline) ==
    Join([i \in DOMAIN pipeline |->
             LET seg == pipeline[i] IN
             (IF seg.op = "" THEN "" ELSE seg.op \o " ")
             \o Join(<<psAliasBypass(seg.cmd)>>
                     \o [j \in DOMAIN seg.args |-> PowerShellQuote(seg.args[j])], " ")], " ")

-----------------------------------------------------------------------------
(* PowerShell on the host: what it reads from a line.  An argument is a     *)
(* list of elements: a text, quoted or bare, a flag, a variable, a script   *)
(* block, or a hashtable.  In a hashtable a bare word is not a text but the *)
(* name of a command.                                                       *)

Element(kind, text) == [kind |-> kind, text |-> text]

Nesting(c) == CASE c = "{" -> 1 [] c = "}" -> -1 [] OTHER -> 0

\* A text cut at the separators outside of braces and quotes.
RECURSIVE Pieces(_, _, _, _, _)
Pieces(s, separator, depth, quote, piece) ==
    LET c == Char(s, 1)
        rest == From(s, 2) IN
    IF s = "" THEN <<piece>>
    ELSE IF quote # ""
         THEN Pieces(rest, separator, depth, IF c = quote THEN "" ELSE quote, piece \o c)
    ELSE IF c \in {"'", "\""} THEN Pieces(rest, separator, depth, c, piece \o c)
    ELSE IF c = separator /\ depth = 0
         THEN <<piece>> \o Pieces(rest, separator, 0, "", "")
    ELSE Pieces(rest, separator, depth + Nesting(c), "", piece \o c)
Cut(s, separator) == Pieces(s, separator, 0, "", "")

\* No brace and no quote is left open.
Closed(s) == LET pieces == Cut(s \o "|", "|") IN pieces[Len(pieces)] = ""

Delimited(s, left, right) ==
    Len(s) >= Len(left) + Len(right) /\ HasPrefix(s, left) /\ HasSuffix(s, right)
Inside(s, left, right) == SubSeq(s, Len(left) + 1, Len(s) - Len(right))

\* Two quotes inside of quotes are one.
RECURSIVE Undoubled(_)
Undoubled(s) ==
    IF s = "" THEN ""
    ELSE IF HasPrefix(s, "''") THEN "'" \o Undoubled(From(s, 3))
    ELSE Char(s, 1) \o Undoubled(From(s, 2))
IsQuoted(s) ==
    /\ Delimited(s, "'", "'")
    /\ Inside(s, "'", "'") = ReplaceAll(Undoubled(Inside(s, "'", "'")), "'", "''")

IsBare(s, inHash) ==
    /\ s # "" /\ Char(s, 1) # "-" /\ CharsOf(s) \subseteq SafePSChars \ {","}
    /\ inHash => Char(s, 1) \in CharsOf(Digits) /\ CharsOf(s) \subseteq Alnum

RECURSIVE ReadList(_, _)
ReadEntry(s) ==
    LET eq == IndexOf(s, "=") IN
    [key |-> SubSeq(s, 1, eq - 1), value |-> ReadList(From(s, eq + 1), TRUE)]
ReadElement(s, inHash) ==
    CASE IsQuoted(s) -> Element("text", Undoubled(Inside(s, "'", "'")))
      [] Delimited(s, "{", "}") -> Element("block", s)
      [] Delimited(s, "@{", "}")
            -> LET entries == Cut(Inside(s, "@{", "}"), ";") IN
               [kind |-> "hash", entries |-> [i \in DOMAIN entries |-> ReadEntry(TrimSpace(entries[i]))]]
      [] HasPrefix(s, "-") /\ ~ inHash -> Element("flag", s)
      [] isPSEnvRef(s) -> Element("env", s)
      [] IsBare(s, inHash) -> Element("text", s)
      [] OTHER -> Element("unreadable", s)
ReadList(s, inHash) ==
    LET elements == Cut(s, ",") IN [i \in DOMAIN elements |-> ReadElement(elements[i], inHash)]

ReadCommand(s) ==
    LET words == SelectSeq(Cut(s, " "), LAMBDA w : w # "") IN
    [cmd |-> Head(words), args |-> [i \in DOMAIN Tail(words) |-> ReadList(words[i + 1], FALSE)]]

\* The commands of a line, or none when it cannot be read.
PowerShellReads(text) ==
    LET commands == Cut(text, "|") IN
    IF Closed(text) THEN [i \in DOMAIN commands |-> ReadCommand(commands[i])] ELSE <<>>

-----------------------------------------------------------------------------
(* What the caller's tree means, in the same terms.                         *)

RECURSIVE MeantList(_)
MeantElement(l) ==
    CASE l.kind = "hash" ->
            [kind |-> "hash",
             entries |-> [i \in DOMAIN l.entries |->
                             [key |-> l.entries[i].key, value |-> MeantList(l.entries[i].value)]]]
      [] l.kind \in {"block", "env"} -> Element(l.kind, renderLiteral(l))
      [] OTHER -> Element("text", l.text)
MeantList(value) == [i \in DOMAIN value |-> MeantElement(value[i])]

RECURSIVE MeantArgs(_)
MeantArgs(args) ==
    IF args = <<>> THEN <<>>
    ELSE (IF Head(args).flag = "" THEN <<>> ELSE <<<<Element("flag", Head(args).flag)>>>>)
         \o (IF Head(args).value = <<>> THEN <<>> ELSE <<MeantList(Head(args).value)>>)
         \o MeantArgs(Tail(args))

PowerShellMeant(commands) ==
    [i \in DOMAIN commands |->
        [cmd |-> psAliasBypass(ToLower(commands[i].name)), args |-> MeantArgs(commands[i].args)]]
=============================================================================
