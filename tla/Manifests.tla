------------------------------ MODULE Manifests ------------------------------
(***************************************************************************)
(* manifest.go: a registry maps command names to manifests; a manifest is  *)
(* parsed from a YAML mapping.                                             *)
(*                                                                         *)
(* A YAML mapping is a record with every field the loader reads and the    *)
(* set "bad" of the fields whose value has the wrong type.  A field that   *)
(* may be missing is a set with at most one element, a list a sequence.    *)
(* Descriptions, categories and reasons are left out.                      *)
(***************************************************************************)
EXTENDS Text

defaultTimeout == 30

SubcommandCommands ==
    {"docker", "kubectl", "svn", "systemctl", "aws", "abaqus", "apachectl", "openssl", "net"}

\* A bool of the wrong type counts as false, except stdout's.
defaultBool(file, key) == file[key] /\ key \notin file.bad

-----------------------------------------------------------------------------
(* Flags                                                                   *)

FlagsNamed(m, name) == {i \in DOMAIN m.flags : m.flags[i].flag = name}
FlagsFolded(m, name) ==
    IF m.shell = "powershell"
    THEN {i \in DOMAIN m.flags : EqualFold(m.flags[i].flag, name)}
    ELSE {}

\* GetFlag: the flag declared first, an exact name before a folded one; as a
\* set, for "no such flag".
GetFlag(m, name) ==
    IF FlagsNamed(m, name) # {} THEN {m.flags[Least(FlagsNamed(m, name))]}
    ELSE IF FlagsFolded(m, name) # {} THEN {m.flags[Least(FlagsFolded(m, name))]}
    ELSE {}

\* parseFlags: an entry needs a name and lists of strings.
FlagsParse(file) ==
    /\ "flags" \notin file.bad
    /\ \A i \in DOMAIN file.flags :
         file.flags[i].flag # "" /\ "allowed_values" \notin file.flags[i].bad

parseFlags(file) ==
    [i \in DOMAIN file.flags |->
        LET f == file.flags[i] IN
        [flag |-> f.flag, allowed |-> f.allowed,
         takesValue |-> defaultBool(f, "takesValue"),
         pattern |-> defaultBool(f, "pattern"),
         deny |-> defaultBool(f, "deny")]]

-----------------------------------------------------------------------------
(* Manifests                                                               *)

\* Mutant: an entry that is declared but denied is let through.
RequiresUndenied(file) ==
    \A r \in file.requires : FlagsNamed([flags |-> parseFlags(file)], r) # {}

\* Every requires_one_of entry is declared, and not denied where it is
\* declared first.
RequiresDeclared(file) ==
    LET m == [flags |-> parseFlags(file)] IN
    \A r \in file.requires :
        /\ FlagsNamed(m, r) # {}
        /\ ~ m.flags[Least(FlagsNamed(m, r))].deny

AllowlistParses(file) ==
    /\ "positional_allowlist" \notin file.bad
    /\ \A pa \in file.allowlist : pa.index >= 0 /\ pa.values # {}

ManifestParses(file) ==
    /\ file.name # ""
    /\ FlagsParse(file)
    /\ file.bad \cap {"timeout", "stdout", "regex_arg_position",
                      "restricted_paths", "requires_one_of"} = {}
    /\ RequiresDeclared(file)
    /\ AllowlistParses(file)

parseManifest(file) ==
    [name |-> file.name,
     flags |-> parseFlags(file),
     timeout |-> IF file.timeout = {} THEN defaultTimeout ELSE CHOOSE t \in file.timeout : TRUE,
     deny |-> defaultBool(file, "deny"),
     allowsPathArgs |-> defaultBool(file, "allowsPathArgs"),
     restricted |-> file.restricted,
     regexArg |-> file.regexArg,
     shell |-> file.shell,
     requires |-> file.requires,
     bundling |-> defaultBool(file, "bundling"),
     allowlist |-> file.allowlist,
     noPositional |-> defaultBool(file, "noPositional")]

\* loadFromFS: one bad file, or one name given twice, and nothing is loaded.
Skipped(file) == ~ HasSuffix(file.path, ".yaml") \/ HasPrefix(file.path, "_")
Walked(dir) == {f \in dir : ~ Skipped(f)}
Loads(dir) ==
    /\ \A f \in Walked(dir) : ManifestParses(f)
    /\ \A f, g \in Walked(dir) : f.name = g.name => f = g

loadFromFS(dir) ==
    [n \in {f.name : f \in Walked(dir)} |->
        parseManifest(CHOOSE f \in Walked(dir) : f.name = n)]

Lookup(registry, name) == IF name \in DOMAIN registry THEN {registry[name]} ELSE {}

Merge(base, overlay) ==
    [n \in DOMAIN base \cup DOMAIN overlay |->
        IF n \in DOMAIN overlay THEN overlay[n] ELSE base[n]]

\* validator.ScopeRegistry: what may run on a host with this shell; the
\* empty shell is unknown.
ScopeRegistry(registry, shell) ==
    LET scoped == {n \in DOMAIN registry :
                     shell = "" \/ registry[n].shell \in {"", shell}} IN
    [n \in scoped |-> registry[n]]
=============================================================================
