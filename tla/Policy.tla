------------------------------- MODULE Policy -------------------------------
(***************************************************************************)
(* What the manifests promise, stated without the validator's loops: the   *)
(* role every token of an argument list plays, the program a wrapper       *)
(* starts, and the rules each of them must meet.  The validator is checked *)
(* against these definitions.                                              *)
(*                                                                         *)
(* One convention is the validator's own: the value of a flag in a bundle  *)
(* of short flags is the rest of the same token.                           *)
(***************************************************************************)
EXTENDS Validator

\* Whether the token after this flag is its value.
TakesNext(m, arg) ==
    /\ ~ HasInline(arg) /\ ~ IsShorthand(m, arg)
    /\ IF IsCommon(m, arg) THEN FlagName(arg) \notin psSwitches
       ELSE TakesValue(m, FlagName(arg))

\* The role of each token: a value follows its flag, whatever it looks like.
Roles(args, m) ==
    LET role[i \in 0..Len(args)] ==
            IF i = 0 THEN "none"
            ELSE IF role[i - 1] = "flag" /\ TakesNext(m, args[i - 1]) THEN "value"
            ELSE IF LooksLikeFlag(args[i]) THEN "flag" ELSE "positional"
    IN role

WithRole(args, m, r) == {i \in DOMAIN args : Roles(args, m)[i] = r}

\* The letters of a bundle that are flags: up to the first that takes a value.
LastLetter(flag, m) ==
    Least({k \in 2..Len(flag) : TakesValue(m, Letter(flag, k))} \cup {Len(flag)})

\* The flags a token names: itself, or the letters of a bundle.
NamedBy(m, arg) ==
    LET name == FlagName(arg) IN
    IF GetFlag(m, name) = {} /\ Bundles(name, m)
    THEN {Letter(name, k) : k \in 2..LastLetter(name, m)} ELSE {name}

\* A flag that the manifest leaves to the caller: each flag it names is
\* declared and none is denied.  The shorthand for -n and the parameters
\* every cmdlet has need no declaration.
Undeclared(m, arg) == IsShorthand(m, arg) \/ IsCommon(m, arg)
FlagAllowed(m, arg) ==
    \/ Undeclared(m, arg)
    \/ \A name \in NamedBy(m, arg) : \E f \in GetFlag(m, name) : ~ f.deny

\* The values that the flag at i is given: after "=", in the next token, or
\* as the rest of a bundle.
InBundle(m, arg) ==
    /\ GetFlag(m, FlagName(arg)) = {} /\ Bundles(FlagName(arg), m)
    /\ LastLetter(FlagName(arg), m) < Len(FlagName(arg))
ValuesGiven(args, m, i) ==
    LET arg == args[i]
        name == FlagName(arg)
        last == LastLetter(name, m)
        valued == {f \in GetFlag(m, name) : f.takesValue} IN
    IF Undeclared(m, arg) THEN {}
    ELSE IF InBundle(m, arg) THEN GetFlag(m, Letter(name, last)) \X {From(name, last + 1)}
    ELSE IF HasInline(arg) THEN valued \X {Inline(arg)}
    ELSE IF i < Len(args) THEN valued \X {args[i + 1]}
    ELSE {}

\* No more than the statements that read, one of them, and nothing in the
\* parentheses of a WITH that writes.
DepthAt(s, i) ==
    LET unquoted(c) == {j \in 1..i : Char(s, j) = c /\ ~ InQuote(s, j)} IN
    Cardinality(unquoted("(")) - Cardinality(unquoted(")"))
OnlyReads(sql) ==
    LET s == TrimSpace(sql) IN
    /\ \A i \in 1..(Len(s) - 1) : Char(s, i) # ";"
    /\ HasWord(s, ReadWords \cup MetaCommands)
    /\ HasWord(s, {"WITH"}) => ~ \E i \in 1..Len(s) : KeywordAt(s, i) /\ DepthAt(s, i) > 0

ValueAllowed(command, m, f, value) ==
    /\ f.allowed # {} => value \in f.allowed
    /\ IF command = "psql" /\ f.flag = "-c" THEN OnlyReads(value)
       ELSE ~ NamesDenied(m, value) /\ (IsPowerShell(m) \/ f.pattern \/ ~ HasGlob(value))

\* How many positional arguments stand before the i-th token.
PositionalIndex(args, m, i) == Cardinality({j \in WithRole(args, m, "positional") : j < i})

\* What each token of the list must be, by its role.
FlagMeetsItsRule(command, args, m, i) ==
    /\ FlagAllowed(m, args[i])
    /\ TakesNext(m, args[i]) /\ ~ IsCommon(m, args[i]) => i < Len(args)
    /\ \A given \in ValuesGiven(args, m, i) : ValueAllowed(command, m, given[1], given[2])
RequirementMet(args, m) ==
    m.requires # {} =>
        \E i \in WithRole(args, m, "flag") :
            ~ IsCommon(m, args[i]) /\ Meets(m, FlagName(args[i]))

UseAllowed(command, args, m) ==
    /\ ~ m.deny
    /\ \A i \in WithRole(args, m, "flag") : FlagMeetsItsRule(command, args, m, i)
    /\ \A i \in WithRole(args, m, "positional") :
         validatePositional(args[i], PositionalIndex(args, m, i), m)
    /\ RequirementMet(args, m)

-----------------------------------------------------------------------------
(* What a segment starts on the host, behind its wrappers.                 *)

\* sudo -u has a user before the command; xargs' own flags and their values
\* come before it.
AfterSudo(args) == IF Len(args) > 0 /\ args[1] = "-u" THEN 3 ELSE 1
AfterXargs(args, registry) ==
    Least({i \in DOMAIN args :
              \A m \in Lookup(registry, "xargs") : Roles(args, m)[i] = "positional"}
          \cup {Len(args) + 1})

StartRound(registry) ==
    [seg \in Segments |->
        LET first == IF seg.cmd = "sudo" THEN AfterSudo(seg.args) ELSE AfterXargs(seg.args, registry) IN
        IF seg.cmd \notin {"sudo", "xargs"} \/ first > Len(seg.args) THEN seg
        ELSE Segment(seg.args[first], SubSeq(seg.args, first + 1, Len(seg.args)), "")]
Started(seg, registry) == Iterate(StartRound(registry), seg, Len(seg.args) + 1)

\* The manifest that speaks for a command, with its name and the arguments
\* that are left to it.
SpeaksFor(seg, registry) ==
    IF seg.cmd \in SubcommandCommands /\ seg.args # <<>>
    THEN LET key == SubcommandKey(seg.cmd, seg.args, registry) IN
         {[name |-> key.name, m |-> m, args |-> SubSeq(seg.args, key.skip + 1, Len(seg.args))] :
             m \in Lookup(registry, key.name)}
    ELSE {[name |-> seg.cmd, m |-> m, args |-> seg.args] : m \in lookupManifest(seg.cmd, registry)}

AllowedToStart(seg, registry) ==
    \E s \in SpeaksFor(Started(seg, registry), registry) : UseAllowed(s.name, s.args, s.m)

-----------------------------------------------------------------------------
(* The verdict on a segment                                                *)

\* No manifest declares a token of the list that the validator reads in
\* another way as well: as --name=value, or as a count for -n unless that
\* changes nothing; and xargs is no cmdlet.
Unambiguous(args, registry) ==
    /\ \A n \in DOMAIN registry, i \in DOMAIN args :
         /\ HasInline(args[i]) => GetFlag(registry[n], args[i]) = {}
         /\ IsShorthand(registry[n], args[i]) =>
              \A f \in GetFlag(registry[n], FlagName(args[i])) : ~ f.takesValue /\ ~ f.deny
    /\ \A m \in Lookup(registry, "xargs") : ~ IsPowerShell(m)

\* Commands with a rule of their own besides their manifest's.
WithMoreRules == {"psql", "unzip", "tar"}

\* What is accepted starts nothing that its manifest does not allow, behind
\* sudo and xargs too; and a command without a wrapper or a rule of its own is
\* accepted whenever its manifest allows it.
VerdictIsRight(seg, registry) ==
    Unambiguous(seg.args, registry) =>
        /\ validateSegment(seg, registry) => AllowedToStart(seg, registry)
        /\ /\ seg.cmd \notin {"sudo", "xargs"}
           /\ \A s \in SpeaksFor(seg, registry) : s.name \notin WithMoreRules
           /\ AllowedToStart(seg, registry)
           => validateSegment(seg, registry)
=============================================================================
