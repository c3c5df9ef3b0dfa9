---------------------------- MODULE GateDialects ----------------------------
(***************************************************************************)
(* The gate with the parsers and the reconstructions of the two shells,    *)
(* and with the shells on the hosts, which read what is sent.              *)
(***************************************************************************)
EXTENDS Gate, PowerShellDialect

\* The calls of a statement, from left to right.
RECURSIVE CallsOf(_)
CallsOf(stmt) ==
    IF stmt.cmd.kind = "call" THEN <<stmt.cmd>>
    ELSE CallsOf(stmt.cmd.x) \o CallsOf(stmt.cmd.y)

\* The words whose meaning wordToString keeps: of one part, not empty, with
\* nothing escaped and, outside of quotes, no pattern that bash would expand.
Patterns == {"*", "?", "[", "~"}
Kept(word) ==
    /\ Len(word) = 1 /\ word[1].text # ""
    /\ Unescaped(word[1].kind, word[1].text) = word[1].text
    /\ word[1].kind = "lit" => CharsOf(word[1].text) \cap Patterns = {}

MeaningIsKept(call_, seg) ==
    (\A i \in DOMAIN call_.words : Kept(call_.words[i])) =>
        <<seg.cmd>> \o seg.args = [i \in DOMAIN call_.words |-> MeaningOf(call_.words[i])]

\* The values that PowerShellQuote sends as what they are.  It sees the text of
\* a value without its quotes: a script block is no hashtable and gets quotes; a
\* text that begins like a flag or a hashtable, that reads like a variable or
\* has a comma in it gets none; a list is quoted as one text unless it has a
\* hashtable or only safe texts in it; and renderHashtable gives the texts of a
\* list no quotes.
IsText(l) == l.kind \notin {"hash", "block", "env"}
SentAsText(s) ==
    /\ ~ HasPrefix(s, "-") /\ ~ HasPrefix(s, "@{")
    /\ ~ isPSEnvRef(s) /\ "," \notin CharsOf(s)
RECURSIVE EntriesAreKept(_)
EntriesAreKept(l) ==
    l.kind = "hash" => \A i \in DOMAIN l.entries :
        LET value == l.entries[i].value IN
        /\ Len(value) > 1 => \A j \in DOMAIN value : value[j].kind \notin {"ident", "string", "dq"}
        /\ \A j \in DOMAIN value : EntriesAreKept(value[j])
ValueIsKept(value) ==
    /\ \A i \in DOMAIN value :
         /\ value[i].kind # "block"
         /\ IsText(value[i]) => SentAsText(value[i].text)
         /\ EntriesAreKept(value[i])
    /\ Len(value) > 1 => \A i \in DOMAIN value :
         \/ value[i].kind = "hash"
         \/ IsText(value[i]) /\ value[i].text # "" /\ isPSSafeToken(value[i].text)
ValuesAreKept(commands) ==
    \A i \in DOMAIN commands : \A j \in DOMAIN commands[i].args :
        ValueIsKept(commands[i].args[j].value)

\* PowerShell on the host reads from the rebuilt text what the caller's tree
\* means: each value as a text, a variable, a list or a hashtable, as it was
\* (renderPSValue, winrm.PowerShellQuote).  For bash, what is validated is what
\* the caller's words mean (wordToString).  Both for the words and values that
\* the code can tell apart, see Kept and ValueIsKept.
HostReadsWhatWasMeant ==
    stage = "sent" =>
        IF asked.shell = "powershell"
        THEN ValuesAreKept(asked.tree) => PowerShellReads(text) = PowerShellMeant(asked.tree)
        ELSE \A i \in DOMAIN pipeline : MeaningIsKept(CallsOf(asked.tree[1])[i], pipeline[i])

\* A script block given as a filter reaches PowerShell as a script block:
\* "filters like Where-Object { $_.Id -eq 4625 } work" (server.go:385).
FiltersAreSent ==
    stage = "sent" /\ asked.shell = "powershell" =>
        \A i \in DOMAIN asked.tree : \A j \in DOMAIN asked.tree[i].args :
            LET arg == asked.tree[i].args[j]
                read == PowerShellReads(text)[i].args IN
            arg.flag = "" /\ Len(arg.value) = 1 /\ arg.value[1].kind = "block" =>
                \E k \in DOMAIN read : read[k] = MeantList(arg.value)
=============================================================================
