------------------------------ MODULE Validator ------------------------------
(***************************************************************************)
(* validator.go: a parsed pipeline against the registry.  A validation     *)
(* error is the value FALSE: its wording is left out, the suggestions of   *)
(* closestCmdlet and blockedExecutable with it.                            *)
(*                                                                         *)
(* A segment is [cmd, args, op].  A loop of the code is the function of    *)
(* one round of it, from the values of the loop's variables to the next    *)
(* ones, and the values that enough rounds end with (Loops).               *)
(***************************************************************************)
EXTENDS Manifests

\* The common parameters of PowerShell; all but the switches take a value.
psSwitches == {"-Verbose", "-Debug"}
psCommonParams ==
    psSwitches \cup {"-ErrorAction", "-ErrorVariable", "-WarningAction", "-WarningVariable",
                     "-InformationAction", "-InformationVariable", "-OutVariable", "-OutBuffer",
                     "-PipelineVariable", "-ProgressAction"}
psCommonParamsTakesValue == psCommonParams \ psSwitches

globChars == {"*", "?", "["}

IsPowerShell(m) == m.shell = "powershell"
LooksLikeFlag(arg) == HasPrefix(arg, "-") /\ arg # "-"

\* --name=value is split, anything else is a name without an inline value.
HasInline(arg) == HasPrefix(arg, "--") /\ IndexOf(arg, "=") > 1
FlagName(arg)  == IF HasInline(arg) THEN SubSeq(arg, 1, IndexOf(arg, "=") - 1) ELSE arg
Inline(arg)    == From(arg, IndexOf(arg, "=") + 1)

IsCommon(m, arg) == IsPowerShell(m) /\ FlagName(arg) \in psCommonParams

TakesValue(m, name) == \E f \in GetFlag(m, name) : f.takesValue

\* isNumericCountShorthand: -5 for -n 5.
IsShorthand(m, arg) ==
    /\ Len(arg) > 1 /\ Char(arg, 1) = "-" /\ CharsOf(From(arg, 2)) \subseteq CharsOf(Digits)
    /\ \E f \in GetFlag(m, "-n") : f.takesValue /\ ~ f.deny

\* No common parameter reads like such a count.
ASSUME CommonParamsAreNoCounts ==
    \A p \in psCommonParams : ~ (CharsOf(From(p, 2)) \subseteq CharsOf(Digits))

-----------------------------------------------------------------------------
(* SQL handed to psql -c                                                   *)

InQuote(s, i) == Cardinality({j \in 1..(i - 1) : Char(s, j) = "'"}) % 2 = 1

WordChars == Alnum \cup {"_"}
dmlKeywords == {"DELETE", "INSERT", "UPDATE", "TRUNCATE", "DROP", "ALTER", "CREATE"}

\* A keyword with word boundaries on both sides, outside of quotes.
KeywordAt(s, i) ==
    \E kw \in dmlKeywords :
        /\ i + Len(kw) - 1 <= Len(s)
        /\ EqualFold(SubSeq(s, i, i + Len(kw) - 1), kw)
        /\ i > 1 => Char(s, i - 1) \notin WordChars
        /\ i + Len(kw) <= Len(s) => Char(s, i + Len(kw)) \notin WordChars
        /\ ~ InQuote(s, i)
containsDML(s) == \E i \in 1..Len(s) : KeywordAt(s, i)

\* A keyword is a word without a parenthesis in it.
ASSUME KeywordsAreWords ==
    \A kw \in dmlKeywords :
        /\ Len(kw) \in Nat \ {0}
        /\ \A i \in 1..Len(kw) : \A c \in {"(", ")"} : Lower(Char(kw, i)) # Lower(c)

\* How deep a character takes the parentheses.
Deeper(c, quoted, depth) ==
    IF quoted \/ c \notin {"(", ")"} THEN depth ELSE IF c = "(" THEN depth + 1 ELSE depth - 1

\* extractCTEBody: where the parenthesis at open closes, 0 if nowhere.
CloseStates == [at : Nat, depth : Int, quoted : BOOLEAN, close : Nat]
CloseRound(s) ==
    [v \in CloseStates |->
        IF v.at > Len(s) \/ v.close # 0 THEN v
        ELSE LET c == Char(s, v.at) IN
             [at |-> v.at + 1,
              depth |-> Deeper(c, v.quoted, v.depth),
              quoted |-> (v.quoted # (c = "'")),
              close |-> IF ~ v.quoted /\ c = ")" /\ v.depth = 1 THEN v.at ELSE 0]]
CloseOf(s, open) ==
    Iterate(CloseRound(s), [at |-> open, depth |-> 0, quoted |-> FALSE, close |-> 0], Len(s)).close

\* The body of the parenthesis at open ends somewhere, and nothing in it writes.
BodyReads(s, open) ==
    /\ CloseOf(s, open) # 0
    /\ ~ containsDML(SubSeq(s, open + 1, CloseOf(s, open) - 1))

\* The loop of validateWithCTE; close: where the outermost parentheses closed
\* last.
CTEStates == [at : Nat, depth : Int, quoted : BOOLEAN, close : Nat, ok : BOOLEAN]
CTERound(s) ==
    [v \in CTEStates |->
        IF v.at > Len(s) \/ ~ v.ok THEN v
        ELSE LET c == Char(s, v.at) IN
             [at |-> v.at + 1,
              depth |-> Deeper(c, v.quoted, v.depth),
              quoted |-> (v.quoted # (c = "'")),
              close |-> IF ~ v.quoted /\ c = ")" /\ v.depth = 1 THEN v.at ELSE v.close,
              ok |-> (~ v.quoted /\ c = "(" /\ v.depth = 0) => BodyReads(s, v.at)]]
CTEWalk(s) ==
    Iterate(CTERound(s),
            [at |-> 1, depth |-> 0, quoted |-> FALSE, close |-> 0, ok |-> TRUE], Len(s))

Blank == {" ", "\t", "\n", "\r"}
TrimLeft(s, cut) == From(s, Least({i \in 1..Len(s) : Char(s, i) \notin cut} \cup {Len(s) + 1}))
TrimRight(s, cut) ==
    LET kept == {i \in 1..Len(s) : Char(s, i) \notin cut} \cup {0} IN
    SubSeq(s, 1, CHOOSE i \in kept : \A j \in kept : j <= i)
TrimSpace(s) == TrimRight(TrimLeft(s, Blank), Blank)

HasWord(s, words) ==
    \E w \in words : Len(w) <= Len(s) /\ EqualFold(SubSeq(s, 1, Len(w)), w)
ReadWords == {"SELECT", "EXPLAIN", "SHOW", "WITH"}
MetaCommands == {"\\d", "\\l", "\\x", "\\timing", "\\pset"}

validateWithCTE(s) ==
    LET walk == CTEWalk(s) IN
    /\ walk.ok /\ walk.close # 0
    /\ HasWord(TrimLeft(From(s, walk.close + 1), Blank \cup {","}), ReadWords)

validateSQL(sql) ==
    LET s == TrimSpace(sql) IN
    /\ s # ""
    /\ ";" \notin CharsOf(IF HasSuffix(s, ";") THEN SubSeq(s, 1, Len(s) - 1) ELSE s)
    /\ HasWord(s, ReadWords \cup MetaCommands)
    /\ HasWord(s, {"WITH"}) => validateWithCTE(s)

-----------------------------------------------------------------------------
(* Flags and their values                                                  *)

NamesDenied(m, value) ==
    \E i \in DOMAIN m.flags :
        /\ m.flags[i].deny
        /\ \/ value = m.flags[i].flag
           \/ IsPowerShell(m) /\ EqualFold(value, m.flags[i].flag)

HasGlob(s) == CharsOf(s) \cap globChars # {}

validateFlagValue(command, m, f, value) ==
    /\ f.allowed # {} => value \in f.allowed
    /\ IF command = "psql" /\ f.flag = "-c" THEN validateSQL(value)
       ELSE /\ ~ NamesDenied(m, value)
            /\ IsPowerShell(m) \/ f.pattern \/ ~ HasGlob(value)

\* The loop of validateFlag over the letters of a bundle; the rest of the
\* token is the value of the first one that takes a value.
Letter(flag, i) == "-" \o Char(flag, i)
BundleRound(command, flag, m) ==
    [v \in [at : Nat, verdict : {"open", "accepted", "rejected"}] |->
        IF v.at > Len(flag) \/ v.verdict # "open" THEN v
        ELSE LET sub == GetFlag(m, Letter(flag, v.at)) IN
             [at |-> v.at + 1,
              verdict |->
                IF \A f \in sub : f.deny THEN "rejected"
                ELSE IF ~ TakesValue(m, Letter(flag, v.at)) THEN "open"
                ELSE IF \/ v.at = Len(flag)
                        \/ \A f \in sub : validateFlagValue(command, m, f, From(flag, v.at + 1))
                THEN "accepted" ELSE "rejected"]]
BundleAllowed(command, flag, m) ==
    Iterate(BundleRound(command, flag, m),
            [at |-> 2, verdict |-> "open"], Len(flag)).verdict # "rejected"

Bundles(flag, m) ==
    (~ IsPowerShell(m) \/ m.bundling) /\ Len(flag) > 2 /\ ~ HasPrefix(flag, "--")

validateFlag(command, flag, m) ==
    IF GetFlag(m, flag) # {} THEN \A f \in GetFlag(m, flag) : ~ f.deny
    ELSE Bundles(flag, m) /\ BundleAllowed(command, flag, m)

-----------------------------------------------------------------------------
(* Rules for whole argument lists                                          *)

ArgSet(args) == {args[i] : i \in DOMAIN args}
Short(a) == HasPrefix(a, "-") /\ ~ HasPrefix(a, "--")

validatePsqlRequiresC(command, args) ==
    command = "psql" =>
        \E a \in ArgSet(args) : a = "-c" \/ HasPrefix(a, "--command=")

validateUnzipRequiresMode(command, args) ==
    command = "unzip" =>
        \E a \in ArgSet(args) : Short(a) /\ CharsOf(From(a, 2)) \cap {"l", "p"} # {}

validateTarExtractRequiresStdout(command, args) ==
    LET extracts(a) == \/ a \in {"--extract", "--get"}
                       \/ Short(a) /\ "x" \in CharsOf(From(a, 2)) IN
    (command = "tar" /\ \E a \in ArgSet(args) : extracts(a)) =>
        ArgSet(args) \cap {"-O", "--to-stdout"} # {}

\* Mutant: an inline value is forgotten and the next token skipped too.
SpanIgnoringInline(m, arg) ==
    IF IsCommon(m, arg)
    THEN IF FlagName(arg) \in psCommonParamsTakesValue THEN 2 ELSE 1
    ELSE IF TakesValue(m, FlagName(arg)) THEN 2 ELSE 1

\* How many tokens the flag at the front of the list takes up.
Span(m, arg) ==
    IF ~ HasInline(arg) /\ IF IsCommon(m, arg) THEN FlagName(arg) \in psCommonParamsTakesValue
                           ELSE TakesValue(m, FlagName(arg))
    THEN 2 ELSE 1

\* The name is one that the manifest asks for.
Meets(m, name) ==
    \E r \in m.requires : name = r \/ (IsPowerShell(m) /\ EqualFold(name, r))

\* The loop of validateRequiresOneOf, which stops at a denied flag.
RequirementRound(args, m) ==
    [v \in [idx : Nat, verdict : {"open", "met", "denied"}] |->
        IF v.idx > Len(args) \/ v.verdict # "open" THEN v
        ELSE LET arg == args[v.idx] IN
             IF ~ LooksLikeFlag(arg) THEN [v EXCEPT !.idx = v.idx + 1]
             ELSE IF IsCommon(m, arg) THEN [v EXCEPT !.idx = v.idx + Span(m, arg)]
             ELSE IF Meets(m, FlagName(arg)) THEN [v EXCEPT !.verdict = "met"]
             ELSE IF \E f \in GetFlag(m, FlagName(arg)) : f.deny
                  THEN [v EXCEPT !.verdict = "denied"]
             ELSE [v EXCEPT !.idx = v.idx + Span(m, arg)]]

validateRequiresOneOf(args, m) ==
    \/ m.requires = {}
    \/ Iterate(RequirementRound(args, m), [idx |-> 1, verdict |-> "open"], Len(args)).verdict = "met"

\* path.Clean, for the rooted paths that manifests restrict.
CleanRound ==
    [v \in [rest : STRING, done : STRING] |->
        IF v.rest = "" THEN v
        ELSE LET rest == From(v.rest, 2)
                 next == IF IndexOf(rest, "/") = 0 THEN Len(rest) ELSE IndexOf(rest, "/") - 1
                 part == SubSeq(rest, 1, next)
                 cuts == {k \in 0..(Len(v.done) - 1) :
                            Char(v.done, k + 1) = "/" /\ "/" \notin CharsOf(From(v.done, k + 2))} IN
             [rest |-> From(rest, next + 1),
              done |-> IF part \in {"", "."} THEN v.done
                       ELSE IF part = ".." THEN SubSeq(v.done, 1, IF cuts = {} THEN 0 ELSE Least(cuts))
                       ELSE v.done \o "/" \o part]]
Cleaned(path) == Iterate(CleanRound, [rest |-> path, done |-> ""], Len(path)).done

checkRestrictedPath(arg, m) ==
    \A r \in m.restricted :
        LET cleaned == IF HasPrefix(arg, "/") THEN Cleaned(arg) ELSE arg IN
        cleaned # r /\ ~ HasPrefix(cleaned, r \o "/")

\* The positional argument number n, counted from 0.
validatePositional(arg, n, m) ==
    /\ ~ m.noPositional
    /\ m.allowsPathArgs => checkRestrictedPath(arg, m)
    /\ \A pa \in m.allowlist : n = pa.index => arg \in pa.values
    /\ n \in m.regexArg \/ IsPowerShell(m) \/ ~ HasGlob(arg)

\* A token that is a flag of the manifest, and its value.
FlagAccepted(command, args, m, idx) ==
    LET arg == args[idx] IN
    /\ validateFlag(command, FlagName(arg), m)
    /\ \A f \in GetFlag(m, FlagName(arg)) : f.takesValue =>
         /\ HasInline(arg) \/ idx < Len(args)
         /\ validateFlagValue(command, m, f, IF HasInline(arg) THEN Inline(arg) ELSE args[idx + 1])

\* The loop of validateArgs: idx walks the tokens, n counts positionals.
ArgsStates == [idx : Nat, n : Nat, ok : BOOLEAN]
ArgsRound(command, args, m) ==
    [v \in ArgsStates |->
        IF v.idx > Len(args) \/ ~ v.ok THEN v
        ELSE LET arg == args[v.idx] IN
             IF ~ LooksLikeFlag(arg)
             THEN [idx |-> v.idx + 1, n |-> v.n + 1, ok |-> validatePositional(arg, v.n, m)]
             ELSE IF IsShorthand(m, arg) THEN [v EXCEPT !.idx = v.idx + 1]
             ELSE [idx |-> v.idx + Span(m, arg), n |-> v.n,
                   ok |-> IsCommon(m, arg) \/ FlagAccepted(command, args, m, v.idx)]]
ArgsAccepted(command, args, m) ==
    Iterate(ArgsRound(command, args, m), [idx |-> 1, n |-> 0, ok |-> TRUE], Len(args)).ok

validateArgs(command, args, m) ==
    /\ validatePsqlRequiresC(command, args)
    /\ validateUnzipRequiresMode(command, args)
    /\ validateTarExtractRequiresStdout(command, args)
    /\ validateRequiresOneOf(args, m)
    /\ ArgsAccepted(command, args, m)

-----------------------------------------------------------------------------
(* Segments and pipelines                                                  *)

Operators == {"|", "&&", "||"}
Segments == [cmd : STRING, args : Seq(STRING), op : Operators \cup {""}]
Segment(cmd, args, op) == [cmd |-> cmd, args |-> args, op |-> op]

\* lookupManifest: the exact name, or any PowerShell manifest of that name up
\* to case, in the order in which Go happens to walk the map.
lookupManifest(command, registry) ==
    IF command \in DOMAIN registry THEN {registry[command]}
    ELSE {registry[n] : n \in {k \in DOMAIN registry :
              registry[k].shell = "powershell" /\ EqualFold(registry[k].name, command)}}

\* validateSubcommand: the two-level key if there is one, else the one-level.
SubcommandKey(command, args, registry) ==
    LET two == command \o "_" \o args[1] \o "_" \o args[2] IN
    IF Len(args) >= 2 /\ two \in DOMAIN registry
    THEN [name |-> two, skip |-> 2]
    ELSE [name |-> command \o "_" \o args[1], skip |-> 1]

validateSubcommand(command, args, registry) ==
    LET key == SubcommandKey(command, args, registry) IN
    \E m \in Lookup(registry, key.name) :
        /\ ~ m.deny
        /\ validateArgs(key.name, SubSeq(args, key.skip + 1, Len(args)), m)

\* Where the command that sudo starts begins; 0 for an error.
SudoCommand(args) ==
    LET first == IF Len(args) > 0 /\ args[1] = "-u" THEN 3 ELSE 1 IN
    IF first <= Len(args) /\ ~ HasPrefix(args[first], "-") THEN first ELSE 0

\* The loop of validateXargs over the flags of xargs itself, and where the
\* command behind them begins; 0 for an error.
XargsRound(args, m) ==
    [v \in [idx : Nat, ok : BOOLEAN] |->
        IF v.idx > Len(args) \/ ~ v.ok \/ ~ LooksLikeFlag(args[v.idx]) THEN v
        ELSE [idx |-> v.idx + (IF TakesValue(m, FlagName(args[v.idx])) THEN 2 ELSE 1),
              ok |-> validateFlag("xargs", args[v.idx], m)]]
XargsCommand(args, op, registry) ==
    LET last == Iterate(XargsRound(args, registry["xargs"]), [idx |-> 1, ok |-> TRUE], Len(args)) IN
    IF op = "|" /\ "xargs" \in DOMAIN registry /\ last.ok /\ last.idx <= Len(args)
    THEN last.idx ELSE 0

\* validateSudo and validateXargs: the segment that the wrapper starts is
\* validated in its place.
Wrappers == {"sudo", "xargs"}
InnerSegment(args, first, op) ==
    Segment(args[first], SubSeq(args, first + 1, Len(args)), op)

UnwrapRound(registry) ==
    [v \in [seg : Segments, ok : BOOLEAN] |->
        LET seg   == v.seg
            first == IF seg.cmd = "sudo" THEN SudoCommand(seg.args)
                     ELSE XargsCommand(seg.args, seg.op, registry) IN
        IF ~ v.ok \/ seg.cmd \notin Wrappers THEN v
        ELSE IF first = 0 THEN [v EXCEPT !.ok = FALSE]
        ELSE [v EXCEPT !.seg = InnerSegment(seg.args, first,
                                            IF seg.cmd = "sudo" THEN seg.op ELSE "")]]

validatePlain(seg, registry) ==
    IF seg.cmd \in SubcommandCommands /\ seg.args # <<>>
    THEN validateSubcommand(seg.cmd, seg.args, registry)
    ELSE \E m \in lookupManifest(seg.cmd, registry) :
             ~ m.deny /\ validateArgs(seg.cmd, seg.args, m)

validateSegment(seg, registry) ==
    LET last == Iterate(UnwrapRound(registry), [seg |-> seg, ok |-> TRUE], Len(seg.args) + 1) IN
    last.ok /\ validatePlain(last.seg, registry)

ValidatePipeline(pipeline, registry) ==
    \A i \in DOMAIN pipeline : validateSegment(pipeline[i], registry)
=============================================================================
