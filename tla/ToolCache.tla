----------------------------- MODULE ToolCache -----------------------------
(***************************************************************************)
(* toolkit.DeployTools: each missing tool is taken from the local cache,   *)
(* or downloaded, checked against its pinned digest and put into the       *)
(* cache through a temporary file, and then uploaded over SFTP.  Calls of  *)
(* one process or of several share the cache and may share the remote      *)
(* host; a process may die at any step.                                    *)
(*                                                                         *)
(* A file is an inode that a directory entry may name, so that an open     *)
(* file outlives its name.  Contents are chunks 1..Chunks, written in      *)
(* order.  The random part of a temporary name is never that of another    *)
(* running call.  An SFTP request that fails may have been carried out.    *)
(* The operator's override directory, which replaces the cache when it is  *)
(* set, is left out.                                                       *)
(***************************************************************************)
EXTENDS Naturals

CONSTANTS
    Callers,     \* concurrent calls of DeployTools
    Tools,       \* ToolkitTools, and their names in the cache
    TempNames,   \* names that CreateTemp may choose
    Inodes,      \* local files
    Chunks,      \* number of chunks of a tool
    MaxCrashes,  \* bound on the calls that die
    None

ASSUME CacheNamesAssumption ==
    /\ Tools \cap TempNames = {}
    /\ None \notin Tools \cup TempNames \cup Inodes
ASSUME ChunksAssumption == Chunks \in Nat /\ Chunks > 0
ASSUME MaxCrashesAssumption == MaxCrashes \in Nat

VARIABLES
    dir,        \* the cache directory: the inode of each name
    disk,       \* what each inode holds
    remote,     \* the tools' files on the remote host
    call,       \* where each call stands
    orphans,    \* history: temporary files of calls that died
    crashes     \* history: how many died

vars == <<dir, disk, remote, call, orphans, crashes>>
local == <<dir, disk>>
history == <<orphans, crashes>>

Whole == 1..Chunks
Bodies == {"pinned", "other"}

\* body: which bytes, the pinned ones or others; chunks: how many of them.
File == [body : Bodies, chunks : SUBSET Whole, exec : BOOLEAN]
EmptyFile == [body |-> "pinned", chunks |-> {}, exec |-> FALSE]

\* reported: history, a call that had the file for itself reported it deployed
\* and nobody created it anew since.  disturbed: history, it was created anew
\* while it was executable or while another call was writing it.
RemoteFile == [chunks : SUBSET Whole, exec : BOOLEAN, reported : BOOLEAN, disturbed : BOOLEAN]

Idle == [pc |-> "idle", todo |-> {}, tool |-> None, body |-> "pinned", temp |-> None,
         inode |-> None, next |-> 1, renamed |-> FALSE, alone |-> TRUE]

Labels == {"idle", "pick", "stat", "fetch", "create", "write", "chmod", "rename", "remove",
           "open", "send", "upload", "finish"}

Call == [pc : Labels, todo : SUBSET Tools, tool : Tools \cup {None}, body : Bodies,
         temp : TempNames \cup {None}, inode : Inodes \cup {None}, next : 1..Chunks,
         renamed : BOOLEAN, alone : BOOLEAN]

Init ==
    /\ dir = [p \in Tools \cup TempNames |-> None]
    /\ disk = [i \in Inodes |-> EmptyFile]
    /\ remote = [t \in Tools |-> [chunks |-> {}, exec |-> FALSE,
                                  reported |-> FALSE, disturbed |-> FALSE]]
    /\ call = [c \in Callers |-> Idle]
    /\ orphans = {}
    /\ crashes = 0

At(c, label) == call[c].pc = label
Goto(c, label) == call' = [call EXCEPT ![c].pc = label]
Free(i) == /\ \A p \in Tools \cup TempNames : dir[p] # i
           /\ \A c \in Callers : call[c].inode # i

\* The tool goes on the list of problems and the loop to the next one.
Skipped(c) == [Idle EXCEPT !.pc = "pick", !.todo = call[c].todo]
Problem(c) == call' = [call EXCEPT ![c] = Skipped(c)]

-----------------------------------------------------------------------------
(* DeployTools                                                             *)

BeginDeploy(c) ==
    /\ At(c, "idle")
    /\ \E missing \in SUBSET Tools \ {{}} :
         call' = [call EXCEPT ![c] = [Idle EXCEPT !.pc = "pick", !.todo = missing]]
    /\ UNCHANGED <<local, remote, history>>

PickTool(c) ==
    /\ At(c, "pick")
    /\ \/ \E t \in call[c].todo :
            call' = [call EXCEPT ![c] = [Idle EXCEPT !.pc = "stat", !.tool = t,
                                                     !.todo = call[c].todo \ {t}]]
       \/ call[c].todo = {} /\ call' = [call EXCEPT ![c] = Idle]
    /\ UNCHANGED <<local, remote, history>>

-----------------------------------------------------------------------------
(* EnsureLocal                                                             *)

StatCache(c) ==
    /\ At(c, "stat")
    /\ \/ dir[call[c].tool] # None /\ Goto(c, "open")
       \/ dir[call[c].tool] = None /\ Goto(c, "fetch")
       \/ Problem(c)
    /\ UNCHANGED <<local, remote, history>>

\* Mutant: the digest is not compared.
FetchUnverified(c) ==
    /\ At(c, "fetch")
    /\ \/ \E b \in Bodies : call' = [call EXCEPT ![c].pc = "create", ![c].body = b]
       \/ Problem(c)
    /\ UNCHANGED <<local, remote, history>>

\* downloadFile, verifySHA256 and extractFromTarGz: what passes is what was
\* pinned; an error, a body over the limit or another digest is a problem.
Fetch(c) ==
    /\ At(c, "fetch")
    /\ \E b \in Bodies :
         \/ b = "pinned" /\ call' = [call EXCEPT ![c].pc = "create", ![c].body = b]
         \/ Problem(c)
    /\ UNCHANGED <<local, remote, history>>

CreateTemp(c) ==
    /\ At(c, "create")
    /\ \/ \E p \in TempNames, i \in Inodes :
            /\ dir[p] = None /\ \A d \in Callers : call[d].temp # p
            /\ Free(i)
            /\ dir' = [dir EXCEPT ![p] = i]
            /\ disk' = [disk EXCEPT ![i] = [EmptyFile EXCEPT !.body = call[c].body]]
            /\ call' = [call EXCEPT ![c].pc = "write", ![c].temp = p, ![c].inode = i]
       \/ Problem(c) /\ UNCHANGED local
    /\ UNCHANGED <<remote, history>>

WriteTemp(c) ==
    /\ At(c, "write")
    /\ \/ /\ disk' = [disk EXCEPT ![call[c].inode].chunks = @ \cup {call[c].next}]
          /\ IF call[c].next = Chunks THEN Goto(c, "chmod")
             ELSE call' = [call EXCEPT ![c].next = @ + 1]
       \/ Goto(c, "remove") /\ UNCHANGED disk
    /\ UNCHANGED <<dir, remote, history>>

\* tmp.Chmod and tmp.Close.
ChmodTemp(c) ==
    /\ At(c, "chmod")
    /\ \/ Goto(c, "rename") /\ disk' = [disk EXCEPT ![call[c].inode].exec = TRUE]
       \/ Goto(c, "remove") /\ UNCHANGED disk
    /\ UNCHANGED <<dir, remote, history>>

\* os.Rename replaces the cached file in one step.
Rename(c) ==
    /\ At(c, "rename")
    /\ \/ /\ dir' = [dir EXCEPT ![call[c].tool] = call[c].inode, ![call[c].temp] = None]
          /\ call' = [call EXCEPT ![c].pc = "remove", ![c].renamed = TRUE]
       \/ Goto(c, "remove") /\ UNCHANGED dir
    /\ UNCHANGED <<disk, remote, history>>

\* The deferred os.Remove, which finds nothing after the rename; EnsureLocal
\* returns.
RemoveTemp(c) ==
    /\ At(c, "remove")
    /\ dir' = [dir EXCEPT ![call[c].temp] = None]
    /\ IF call[c].renamed
       THEN call' = [call EXCEPT ![c] = [Idle EXCEPT !.pc = "open", !.todo = call[c].todo,
                                                     !.tool = call[c].tool]]
       ELSE Problem(c)
    /\ UNCHANGED <<disk, remote, history>>

-----------------------------------------------------------------------------
(* uploadTool                                                              *)

Uploading(d, t) == call[d].tool = t /\ call[d].pc \in {"upload", "finish"}
Others(c) == {d \in Callers \ {c} : Uploading(d, call[c].tool)}

OpenLocal(c) ==
    /\ At(c, "open")
    /\ \/ /\ dir[call[c].tool] # None
          /\ call' = [call EXCEPT ![c].pc = "send", ![c].inode = dir[call[c].tool]]
       \/ Problem(c)
    /\ UNCHANGED <<local, remote, history>>

\* The remote file is empty; whoever was writing it is not alone.
Truncate(c, exec) ==
    remote' = [remote EXCEPT ![call[c].tool] =
                 [chunks |-> {}, exec |-> exec, reported |-> FALSE,
                  disturbed |-> @.exec \/ Others(c) # {}]]
Overlap(c, own) ==
    call' = [d \in Callers |-> IF d = c THEN own
                               ELSE IF d \in Others(c) THEN [call[d] EXCEPT !.alone = FALSE]
                               ELSE call[d]]

\* Mutant: the file is created executable.
CreateRemoteExecutable(c) ==
    /\ At(c, "send")
    /\ \/ Truncate(c, TRUE) /\ Overlap(c, [call[c] EXCEPT !.pc = "upload", !.alone = Others(c) = {}])
       \/ Truncate(c, TRUE) /\ Overlap(c, Skipped(c))
       \/ Problem(c) /\ UNCHANGED remote
    /\ UNCHANGED <<local, history>>

\* sftpClient.Create truncates the file and keeps the mode it has.
CreateRemote(c) ==
    /\ At(c, "send")
    /\ \/ Truncate(c, remote[call[c].tool].exec) /\ Overlap(c, [call[c] EXCEPT !.pc = "upload", !.alone = Others(c) = {}])
       \/ Truncate(c, remote[call[c].tool].exec) /\ Overlap(c, Skipped(c))
       \/ Problem(c) /\ UNCHANGED remote
    /\ UNCHANGED <<local, history>>

\* io.Copy, at the call's own offset; an error leaves the file as it is.
Upload(c) ==
    /\ At(c, "upload")
    /\ \/ /\ remote' = [remote EXCEPT ![call[c].tool].chunks =
                          @ \cup ({call[c].next} \cap disk[call[c].inode].chunks)]
          /\ IF call[c].next = Chunks THEN Goto(c, "finish")
             ELSE call' = [call EXCEPT ![c].next = @ + 1]
       \/ Problem(c) /\ UNCHANGED remote
    /\ UNCHANGED <<local, history>>

\* Close and Chmod; the tool is reported as deployed.
FinishUpload(c) ==
    /\ At(c, "finish")
    /\ \/ remote' = [remote EXCEPT ![call[c].tool].exec = TRUE,
                                   ![call[c].tool].reported = @ \/ call[c].alone]
       \/ remote' = [remote EXCEPT ![call[c].tool].exec = TRUE]
       \/ UNCHANGED remote
    /\ call' = [call EXCEPT ![c] = Skipped(c)]
    /\ UNCHANGED <<local, history>>

-----------------------------------------------------------------------------
\* The process dies: no deferred function runs.
Crash(c) ==
    /\ ~At(c, "idle") /\ crashes < MaxCrashes
    /\ crashes' = crashes + 1
    /\ orphans' = orphans \cup ({call[c].temp} \ {None})
    /\ call' = [call EXCEPT ![c] = Idle]
    /\ UNCHANGED <<local, remote>>

EnsureLocal(c) ==
    \/ StatCache(c) \/ Fetch(c) \/ CreateTemp(c) \/ WriteTemp(c) \/ ChmodTemp(c)
    \/ Rename(c) \/ RemoveTemp(c)

UploadTool(c) == OpenLocal(c) \/ CreateRemote(c) \/ Upload(c) \/ FinishUpload(c)

DeployTools(c) == BeginDeploy(c) \/ PickTool(c) \/ EnsureLocal(c) \/ UploadTool(c)

Next == \E c \in Callers : DeployTools(c) \/ Crash(c)

Spec == Init /\ [][Next]_vars

-----------------------------------------------------------------------------
(* Properties                                                              *)

TypeOK ==
    /\ dir \in [Tools \cup TempNames -> Inodes \cup {None}]
    /\ disk \in [Inodes -> File]
    /\ remote \in [Tools -> RemoteFile]
    /\ call \in [Callers -> Call]
    /\ orphans \in SUBSET TempNames
    /\ crashes \in 0..MaxCrashes

\* What the cache holds under a tool's name is the pinned program, complete
\* and executable, after any crash and beside any other call: StatCache takes
\* whatever it finds there without another look (toolkit.go:156).
CacheIsPinned ==
    \A t \in Tools : dir[t] # None =>
        /\ disk[dir[t]].body = "pinned" /\ disk[dir[t]].chunks = Whole /\ disk[dir[t]].exec

\* A temporary file in the cache belongs to a call that will remove it, or to
\* one that died.
TempsAreOwned ==
    \A p \in TempNames : dir[p] # None => p \in orphans \/ \E c \in Callers : call[c].temp = p

\* A tool that a call reported as deployed is complete and executable, if no
\* other upload of it overlapped and until one starts.  And an upload that
\* breaks off leaves no executable half of a tool, which the next probe would
\* take for the tool: Chmod comes last.  It may where an executable tool is
\* uploaded again or two uploads overlap.
DeployedIsWhole ==
    \A t \in Tools :
        /\ remote[t].reported => remote[t].chunks = Whole /\ remote[t].exec
        /\ remote[t].exec /\ ~ remote[t].disturbed => remote[t].chunks = Whole
=============================================================================
