-------------------------------- MODULE Gate --------------------------------
(***************************************************************************)
(* What stands between a caller's command and the host: New loads the      *)
(* manifests, Core.Execute parses the command, validates it against the    *)
(* manifests for the shell of the host, rebuilds its text, sends it with a *)
(* timeout, and cuts what it printed.  ValidateCommand only parses and     *)
(* validates.                                                              *)
(*                                                                         *)
(* The steps of one call follow each other with the host's answer as the   *)
(* only outside event, and calls share nothing here but the registry,      *)
(* which never changes: one call at a time is all there is to see.  The    *)
(* connections of the calls are the business of Core.                      *)
(*                                                                         *)
(* The parsers of the two shells and the reconstruction of PowerShell are   *)
(* parameters here: the modules of the dialects define them.               *)
(***************************************************************************)
EXTENDS Policy, BashText, Output

CONSTANTS
    Bases,              \* directories of manifests a program is built with
    Overlays,           \* manifest_dir of the user, {} when there is none
    BashFiles,          \* what callers send, as the syntax trees of the
    PSPipelines,        \*   bash parser and of the PowerShell grammar
    Printed,            \* what hosts print: [stdout, stderr]
    Limits,             \* MaxOutputBytes
    DefaultTimeout,
    ParseBash(_), ParsePS(_),   \* parser.Parse, parser.ParsePowerShell
    RenderPS(_)                 \* winrm.ReconstructPowerShellCommand

\* In lower case: without a letter that Lower changes.
IsLower(s) == \A i \in 1..Len(s) : Lower(Char(s, i)) = Char(s, i)

\* A parser accepts a command as a pipeline, whose segments but the first have
\* an operator before them (walkStmt), and for PowerShell one whose commands are
\* in lower case (convertPSPipeline); the name of a manifest is a string, its
\* timeout an int; and a limit that the configuration admits is not negative
\* (config.go:271).
Parses == [ok : BOOLEAN, segments : Seq(Segments)]
IsPipeline(segments) ==
    segments # <<>> /\ \A i \in DOMAIN segments : i = 1 <=> segments[i].op = None
ASSUME GateAssumption ==
    /\ \A tree \in BashFiles :
         /\ ParseBash(tree) \in Parses
         /\ ParseBash(tree).ok => IsPipeline(ParseBash(tree).segments)
    /\ \A tree \in PSPipelines :
         /\ ParsePS(tree) \in Parses
         /\ \A i \in DOMAIN ParsePS(tree).segments : IsLower(ParsePS(tree).segments[i].cmd)
    /\ \A dir \in Bases \cup Overlays : \A file \in dir :
         file.name \in STRING /\ file.timeout \in SUBSET Int
    /\ DefaultTimeout \in Int
    /\ Printed \subseteq [stdout : Seq(Byte), stderr : Seq(Byte)]
    /\ Limits \subseteq Nat

VARIABLES
    stage,      \* how far New, and then a call, has come
    registry,   \* Core.Registry
    asked,      \* the call: [shell, tree], shell "" for ValidateCommand
    pipeline,   \* what the parser made of it
    text,       \* what is sent to the host
    timeout,
    printed,    \* [stdout, stderr, limit]
    result      \* CommandResult

call == <<asked, pipeline, text, timeout>>
answer == <<printed, result>>
vars == <<stage, registry, call, answer>>

NoCall    == [shell |-> "", tree |-> <<>>]
NoPrinted == [stdout |-> <<>>, stderr |-> <<>>, limit |-> 0]
NoResult  == [stdout |-> <<>>, stderr |-> <<>>, truncated |-> FALSE, total |-> 0]

Init ==
    /\ stage = "new"
    /\ registry = <<>>
    /\ asked = NoCall /\ pipeline = <<>> /\ text = "" /\ timeout = 0
    /\ printed = NoPrinted /\ result = NoResult

\* New: both directories load, and the user's manifests win; or New fails.
Load ==
    /\ stage = "new"
    /\ \E base \in Bases, overlay \in Overlays :
         IF Loads(base) /\ Loads(overlay)
         THEN /\ stage' = "ready"
              /\ registry' = Merge(loadFromFS(base), loadFromFS(overlay))
         ELSE stage' = "failed" /\ UNCHANGED registry
    /\ UNCHANGED <<call, answer>>

Ask(shell, trees) ==
    /\ stage = "ready"
    /\ \E tree \in trees : asked' = [shell |-> shell, tree |-> tree]
    /\ stage' = "asked"
    /\ printed' = NoPrinted /\ result' = NoResult
    /\ UNCHANGED <<registry, pipeline, text, timeout>>

Execute == Ask("bash", BashFiles) \/ Ask("powershell", PSPipelines)
ValidateCommand == Ask("", BashFiles)

\* The call returns: with an error, or with the verdict of ValidateCommand.
Return ==
    /\ stage' = "ready"
    /\ asked' = NoCall /\ pipeline' = <<>> /\ text' = "" /\ timeout' = 0
    /\ UNCHANGED <<registry, answer>>

ParseCommand ==
    LET parsed == IF asked.shell = "powershell" THEN ParsePS(asked.tree)
                  ELSE ParseBash(asked.tree)
    IN /\ stage = "asked"
       /\ IF parsed.ok
          THEN /\ stage' = "parsed"
               /\ pipeline' = parsed.segments
               /\ UNCHANGED <<registry, asked, text, timeout, answer>>
          ELSE Return

Validate ==
    /\ stage = "parsed"
    /\ IF ValidatePipeline(pipeline, ScopeRegistry(registry, asked.shell))
       THEN stage' = "valid" /\ UNCHANGED <<registry, call, answer>>
       ELSE Return

ReturnVerdict == stage = "valid" /\ asked.shell = "" /\ Return

-----------------------------------------------------------------------------
(* The timeout of a call: the longest of its segments'.  The registry is   *)
(* not scoped here, and a wrapper is looked up by its own name.            *)

\* Mutant: only the first argument is tried as a subcommand.
TimeoutKeyOneLevel(seg) ==
    IF seg.cmd \in SubcommandCommands /\ seg.args # <<>>
    THEN seg.cmd \o "_" \o seg.args[1] ELSE seg.cmd

\* The manifest of a subcommand, if there is one.
TimeoutKey(seg) ==
    IF seg.cmd \in SubcommandCommands /\ seg.args # <<>>
    THEN SubcommandKey(seg.cmd, seg.args, registry).name ELSE seg.cmd

Longer(t, key) ==
    IF key \in DOMAIN registry /\ registry[key].timeout > t THEN registry[key].timeout ELSE t

TimeoutRound ==
    [v \in [i : Nat, max : Int] |->
        IF v.i > Len(pipeline) THEN v
        ELSE LET seg == pipeline[v.i] IN
             [i |-> v.i + 1, max |-> Longer(Longer(v.max, seg.cmd), TimeoutKey(seg))]]
getPipelineTimeout ==
    Iterate(TimeoutRound, [i |-> 1, max |-> DefaultTimeout], Len(pipeline)).max

Reconstruct ==
    /\ stage = "valid" /\ asked.shell # ""
    /\ stage' = "sent"
    /\ text' = IF asked.shell = "powershell" THEN RenderPS(pipeline) ELSE ReconstructCommand(pipeline)
    /\ timeout' = getPipelineTimeout
    /\ UNCHANGED <<registry, asked, pipeline, answer>>

RunnerFails == stage = "sent" /\ Return

\* The host's answer; the rest of the call depends on nothing else.
RunnerAnswers ==
    /\ stage = "sent"
    /\ \E p \in Printed, limit \in Limits :
         printed' = [stdout |-> p.stdout, stderr |-> p.stderr, limit |-> limit]
    /\ stage' = "answered"
    /\ asked' = NoCall /\ pipeline' = <<>> /\ text' = "" /\ timeout' = 0
    /\ UNCHANGED <<registry, result>>

TruncateOutput ==
    /\ stage = "answered"
    /\ result' = [stdout |-> truncateString(printed.stdout, printed.limit),
                  stderr |-> truncateString(printed.stderr, printed.limit),
                  truncated |-> \/ Truncated(printed.stdout, printed.limit)
                                \/ Truncated(printed.stderr, printed.limit),
                  total |-> Len(printed.stdout) + Len(printed.stderr)]
    /\ stage' = "ready"
    /\ UNCHANGED <<registry, call, printed>>

Next ==
    \/ Load \/ Execute \/ ValidateCommand
    \/ ParseCommand \/ Validate \/ ReturnVerdict
    \/ Reconstruct \/ RunnerFails \/ RunnerAnswers \/ TruncateOutput

Spec == Init /\ [][Next]_vars

-----------------------------------------------------------------------------
(* Properties                                                              *)

\* The loops of the validator give every token the role it has: what a
\* segment starts, behind sudo and xargs too, is accepted only if the manifest
\* that speaks for it on that shell allows it, and a command without a wrapper
\* or a rule of its own is accepted whenever it does (validator.go: the walks
\* of validateArgs, validateRequiresOneOf and validateXargs, which skip tokens).
AcceptedExactlyWhenAllowed ==
    stage = "parsed" =>
        \A i \in DOMAIN pipeline :
            VerdictIsRight(pipeline[i], ScopeRegistry(registry, asked.shell))

\* The shell on a bash host reads from the text that is sent the words and the
\* operators that were validated, whatever is in the words (ssh.ShellQuote).
BashReadsWhatWasValidated ==
    stage = "sent" /\ asked.shell = "bash" => ShellReads(text) = pipeline

\* A command that no wrapper starts gets at least the time the manifest that
\* admitted it asks for.  getPipelineTimeout relies on PowerShell manifests
\* with lower-case names (server.go:664), and on a subcommand's manifest not
\* being hidden by a longer one that is for another shell.
TimeoutCoversManifests ==
    stage = "sent" =>
        LET scoped == ScopeRegistry(registry, asked.shell)
            KeyIn(seg, reg) == SubcommandKey(seg.cmd, seg.args, reg) IN
        \A i \in DOMAIN pipeline :
            LET seg == pipeline[i] IN
            /\ seg.cmd \notin {"sudo", "xargs"}
            /\ seg.cmd \in SubcommandCommands /\ seg.args # <<>> =>
                 KeyIn(seg, scoped) = KeyIn(seg, registry)
            => \A s \in SpeaksFor(seg, scoped) :
                   IsLower(s.m.name) \/ s.m.shell # "powershell" => timeout >= s.m.timeout

\* A manifest that asks for one of some flags can be used with each of them:
\* the loader takes none whose flag is missing or denied (manifest.go:252).
\* A common parameter of PowerShell never counts as the flag asked for.
RequiredFlagsUsable ==
    stage = "ready" =>
        \A name \in DOMAIN registry :
            LET m == registry[name] IN
            \A r \in m.requires : ~ m.deny /\ ~ IsCommon(m, r) =>
                \E value \in {"v"} \cup UNION {m.flags[i].allowed : i \in DOMAIN m.flags} :
                    validateArgs(name, <<r>>, m) \/ validateArgs(name, <<r, value>>, m)

\* What the caller gets is the head and the tail of what the host printed,
\* and it says so exactly when something was cut (output.go: the separator
\* is appended over the data the tail is read from).
ResultIsCutRight ==
    stage = "ready" /\ printed # NoPrinted =>
        /\ CutRight(result.stdout, printed.stdout, printed.limit)
        /\ CutRight(result.stderr, printed.stderr, printed.limit)
        /\ result.truncated <=> \/ result.stdout # printed.stdout
                                \/ result.stderr # printed.stderr
=============================================================================
