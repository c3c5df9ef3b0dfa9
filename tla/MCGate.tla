------------------------------- MODULE MCGate -------------------------------
(* A finite instance of Gate for TLC: some manifests that use every field, *)
(* user directories that load or do not, and the commands over small          *)
(* alphabets of tokens, quoted texts and PowerShell values.                    *)
EXTENDS GateDialects

Seqs == INSTANCE SequencesExt

Flag(name) == [flag |-> name, allowed |-> {}, takesValue |-> FALSE, pattern |-> FALSE,
               deny |-> FALSE, bad |-> {}]
Valued(name)  == [Flag(name) EXCEPT !.takesValue = TRUE]
Denied(name)  == [Flag(name) EXCEPT !.deny = TRUE]

File(name) ==
    [path |-> name \o ".yaml", name |-> name, bad |-> {}, flags |-> <<>>, timeout |-> {},
     deny |-> FALSE, allowsPathArgs |-> FALSE, restricted |-> {}, regexArg |-> {},
     shell |-> "", requires |-> {}, bundling |-> FALSE, allowlist |-> {}, noPositional |-> FALSE]
Flagged(name, flags) == [File(name) EXCEPT !.flags = flags]
Windows(name, flags) == [Flagged(name, flags) EXCEPT !.shell = "powershell"]

Grep == [Flagged("grep", <<Flag("-i"), [Valued("-e") EXCEPT !.pattern = TRUE],
                           [Valued("-m") EXCEPT !.allowed = {"x", "q"}], Denied("-f"),
                           Valued("--color"), Denied("--file"), Valued("-n")>>) EXCEPT
            !.timeout = {60}, !.allowsPathArgs = TRUE, !.restricted = {"/s"},
            !.regexArg = {0}, !.allowlist = {[index |-> 1, values |-> {"q"}]}]
Httpd == [Flagged("httpd", <<Flag("-v"), Valued("-t"), Flag("--test")>>) EXCEPT
            !.requires = {"-v", "--test"}, !.noPositional = TRUE]

Base ==
    {Grep, Httpd,
     [File("echo") EXCEPT !.regexArg = {0}],
     [Flagged("docker_ps", <<Flag("-a")>>) EXCEPT !.timeout = {45}],
     [Flagged("docker_image_ls", <<Flag("-a")>>) EXCEPT !.timeout = {120}],
     [File("docker_rm") EXCEPT !.deny = TRUE],
     Flagged("xargs", <<Valued("-n"), Flag("-t"), Denied("-P")>>),
     Flagged("psql", <<Valued("-c"), Flag("-t")>>),
     Flagged("unzip", <<Flag("-l"), Flag("-q")>>),
     Flagged("tar", <<Flag("-x"), Flag("-O"), Flag("-t")>>),
     [Flagged("curl", <<Flag("-k")>>) EXCEPT !.timeout = {45}],
     [Windows("get-item", <<Valued("-Name"), Denied("-Force"), Flag("-All")>>) EXCEPT
        !.timeout = {90}],
     Windows("where-object", <<Flag("-Not")>>),
     [Windows("netstat", <<Flag("-a"), Flag("-o")>>) EXCEPT
        !.bundling = TRUE, !.requires = {"-a", "-o"}],
     [File("_schema") EXCEPT !.bad = {"timeout"}]}

\* The user's own: one replaces two manifests, the others do not load.
User == {[Windows("Get-Svc", <<Flag("-All")>>) EXCEPT !.timeout = {90}],
         [Grep EXCEPT !.timeout = {}, !.restricted = {}]}
NotLoading ==
    {{[Httpd EXCEPT !.requires = {"-x"}]},
     {[Flagged("httpd", <<Flag("-v"), Denied("-t")>>) EXCEPT !.requires = {"-t"}]},
     {[Httpd EXCEPT !.bad = {"timeout"}]},
     {[Httpd EXCEPT !.allowlist = {[index |-> -1, values |-> {"x"}]}]},
     {Httpd, [Httpd EXCEPT !.path = "copy.yaml"]},
     {Flagged("httpd", <<Flag("")>>)}}

MCBases == {Base}
MCOverlays == {{}, User} \cup NotLoading

-----------------------------------------------------------------------------
Lit(t) == <<[kind |-> "lit", text |-> t]>>
Sgl(t) == <<[kind |-> "sgl", text |-> t]>>
Dbl(t) == <<[kind |-> "dbl", text |-> t]>>

Stmt(cmd) == [background |-> FALSE, redirs |-> FALSE, cmd |-> cmd]
Call(words) == Stmt([kind |-> "call", assigns |-> FALSE, words |-> words])
Binary(x, op, y) == Stmt([kind |-> "binary", op |-> op, x |-> x, y |-> y])
Literals(tokens) == [i \in DOMAIN tokens |-> Lit(tokens[i])]
Run(tokens) == Call(Literals(tokens))

\* Commands over the tokens a manifest knows, and some it does not.
Over(cmd, tokens, n) == {<<cmd>> \o args : args \in Seqs!BoundedSeq(tokens, n)}
Plain ==
    Over("grep", {"-i", "-e", "-m", "-f", "-ie", "-mx", "-mf", "--color", "--color=x",
                  "--file=x", "-5", "-", "x", "q", "*", "/a/../s/b"}, 3)
    \cup Over("httpd", {"-v", "-t", "--test", "-vt", "--test=x", "x"}, 3)
    \cup Over("docker", {"ps", "image", "ls", "rm", "-a"}, 3)
    \cup Over("xargs", {"x"}, 1)
    \cup Over("unzip", {"-l", "-q", "-lq"}, 2) \cup Over("tar", {"-x", "-xO", "-O", "-t"}, 2)
    \cup Over("get-item", {"-Name", "x"}, 2) \cup Over("curl", {"-k"}, 1)

Short3 == Over("grep", {"-i", "-e", "-f", "x"}, 2) \cup Over("httpd", {"-v", "-t", "x"}, 2)
          \cup Over("docker", {"ps", "-a"}, 2)
Sudo == {<<"sudo">> \o c : c \in Short3} \cup {<<"sudo", "-u", "u">> \o c : c \in Short3}
        \cup Over("sudo", {"-u", "-i"}, 2)
Xargs == {<<"xargs">> \o own \o c :
            own \in {<<>>, <<"-t">>, <<"-n", "x">>, <<"-nx">>, <<"-t", "-n", "-t">>, <<"-P", "x">>},
            c \in {<<>>} \cup Short3 \cup {<<"sudo">> \o d : d \in Over("docker", {"ps"}, 1)}}

\* Statements: wrapped, joined, and the forms that are refused.
Dock == Run(<<"docker", "ps">>)
Statements ==
    {Run(c) : c \in Plain \cup Sudo}
    \cup {Binary(Dock, op, Run(c)) : op \in {"|", "&&"}, c \in Xargs}
    \cup {Binary(Binary(Dock, op1, Run(<<"curl">>)), op2, Dock) :
            op1 \in {"|", "&&", "||", "|&"}, op2 \in {"|", "||"}}
    \cup {Binary(Binary(Binary(Dock, "|", Dock), "|", Dock), "|", Dock)}
    \cup {[Dock EXCEPT !.background = TRUE], [Dock EXCEPT !.redirs = TRUE],
          [Dock EXCEPT !.cmd.assigns = TRUE], Stmt([kind |-> "subshell"]), Call(<<>>)}

\* Quoted words, of one part and of two, and SQL.
Texts == {s \o t : s, t \in {"", "a", " ", "'", "\"", "\\", "*"}}
Words == {<<[kind |-> k, text |-> t]>> : k \in {"sgl", "dbl"}, t \in Texts}
\* No part ends before its closing quote.
LegalDbl == {t \in Texts : (\A i \in 1..Len(t) : Char(t, i) = "\"" => i = 2 /\ Char(t, 1) = "\\")
                           /\ (HasSuffix(t, "\\") => t = "\\\\")}
Legal(word) == \A i \in DOMAIN word :
    /\ word[i].kind = "sgl" => "'" \notin CharsOf(word[i].text)
    /\ word[i].kind = "dbl" => word[i].text \in LegalDbl
Joined == {Lit("\\a"), Lit("a\\ b"), Lit("*")} \cup {Lit("a") \o w : w \in Words} \cup {w \o Lit("b") : w \in Words}
          \cup {Lit("{a}"), Sgl("{a}"), Lit("") \o <<[kind |-> "param", text |-> "$a"]>>}
Sql == {"SELECT 1", "select ';'", "SELECT 1;", "DROP TABLE t", " ", "\\d t",
        "WITH a AS (SELECT 1) SELECT 2", "WITH a AS (SELECT ')') SELECT 2",
        "WITH a AS (SELECT (1)), b AS (DELETE FROM t) SELECT 2",
        "WITH a AS (SELECT 'DROP x') SELECT 2", "WITH a AS (SELECT 1",
        "WITH a AS (SELECT updated) SHOW x", "WITH a AS (SELECT 1) DROP TABLE t"}
Quoted ==
    {Call(<<Lit("echo"), u>>) : u \in {w \in Words \cup Joined : Legal(w)}}
    \cup {Call(<<Lit("echo"), u, Lit("-"), w>>) :
            u \in {Sgl(" "), Dbl("'"), Lit("a")}, w \in {v \in Words : Legal(v)}}
    \cup {Call(<<Lit("psql"), Lit("-c"), Dbl(s)>>) : s \in Sql}
    \cup {Call(<<Lit("psql"), Dbl("-c" \o s)>>) : s \in Sql}

MCBashFiles == {<<s>> : s \in Statements \cup Quoted} \cup {<<Dock, Dock>>}

-----------------------------------------------------------------------------
One(kind, t) == <<[kind |-> kind, text |-> t]>>
Term(op, neg, atom) == [op |-> op, neg |-> neg, atom |-> atom]
Static(type, member, args) ==
    [kind |-> "static", type |-> type, text |-> member, args |-> args]
Atoms == {[kind |-> "number", text |-> "1"], [kind |-> "var", text |-> "_"],
          [kind |-> "dq", text |-> "$b"], [kind |-> "string", text |-> "b c"],
          Static("math", "Round", <<<<Term("", FALSE, [kind |-> "number", text |-> "2"])>>>>),
          Static("io", "Round", <<>>), Static("datetime", "Exit", <<>>),
          [kind |-> "paren", expr |-> <<Term("", TRUE, [kind |-> "number", text |-> "3"])>>]}
Blocks == {<<[kind |-> "block", expr |-> <<Term("", FALSE, a), Term(op, FALSE, b)>>]>> :
              a, b \in Atoms, op \in {"/", "-eq"}}
Simple == {One("ident", "a"), One("string", "a b"), One("string", ""), One("string", "-a b"),
           One("dq", "it's"), One("dq", "$a"), One("number", "5"), One("size", "1GB"),
           One("env", "$env:A"), One("string", "a,b"), One("string", "$env:A"), One("string", "{a}"), One("string", "@{a}"),
           One("number", "5") \o One("size", "1GB"), One("string", "*"),
           One("ident", "a") \o One("ident", "b"), One("string", "a b") \o One("number", "5")}
Hash(value) == <<[kind |-> "hash",
                  entries |-> <<[key |-> "N", value |-> value], [key |-> "E", value |-> One("number", "1")]>>]>>
Hashes == {Hash(v) : v \in Simple} \cup {Hash(<<b[1]>>) : b \in {c \in Blocks : c[1].expr[2].op = "/"}}
          \cup {Hash(Hash(One("string", "it s")))}
Values == Simple \cup Blocks \cup Hashes \cup {One("ident", "a") \o h : h \in Hashes}
          \cup {h \o One("string", t) : h \in Hashes, t \in {"a", "a b"}}

Arg(flag, value) == [flag |-> flag, value |-> value]
Cmdlets ==
    {<<Arg("-Name", v), a>> : v \in Values,
        a \in {Arg("-All", <<>>), Arg("-all", One("ident", "x")), Arg("-Force", <<>>)}}
    \cup {<<Arg(f, v), Arg(g, w)>> :
            f, g \in {"", "-name", "-Name", "-FORCE", "-Verbose", "-ErrorAction"},
            v, w \in {<<>>, One("ident", "x"), One("string", "-Force")}}
Command(name, args) == [name |-> name, args |-> args]
MCPSPipelines ==
    {<<Command("Get-Item", args)>> : args \in Cmdlets}
    \cup {<<Command(name, <<Arg("-All", <<>>)>>)>> : name \in {"get-svc", "grep", "netstat", "none"}}
    \cup {<<Command("NetStat", <<Arg(f, <<>>)>>)>> : f \in {"-a", "-ao", "-ax", "-A"}}
    \cup {<<Command("Get-Item", <<>>), Command("curl", <<Arg("-k", One("string", t))>>)>> :
            t \in {"a", "a>b", "a|b"}}
    \cup {<<Command("Get-Item", <<>>), Command("Where-Object", <<Arg("", v)>>)>> :
            v \in Blocks \cup {One("ident", "CPU"), One("string", "a b")}}
    \cup {<<Command("curl", <<Arg("-k", One("dq", "a&b"))>>)>>, <<>>}

-----------------------------------------------------------------------------
Bytes(n) == [i \in 1..n |-> i]
MCByte == 1..30
MCSeparator == <<28, 29, 30>>
MCPrinted == [stdout : {Bytes(n) : n \in {0, 4, 17, 25}}, stderr : {Bytes(n) : n \in {0, 18}}]
MCLimits == {0, 2, 3, 7, 15, 16, 17}
=============================================================================
