------------------------------ MODULE Download ------------------------------
(***************************************************************************)
(* Core.DownloadFile: concurrent calls that save remote files of the same  *)
(* base name into one directory.  collisionSafePath looks for a free name  *)
(* with one Stat per candidate; the file is created, copied and closed in  *)
(* later steps, and removed by its name when one of them fails.  A process *)
(* may die with its calls.                                                 *)
(*                                                                         *)
(* A call runs once.  Names are the candidates of collisionSafePath in     *)
(* order; a file is an inode, so that an open file outlives its name.      *)
(***************************************************************************)
EXTENDS Naturals

CONSTANTS
    Downloaders,  \* calls of DownloadFile
    Files,        \* local files
    PieceCount,   \* number of chunks of each remote file
    MaxRetries,   \* maxCollisionRetries
    Old,          \* the content of a file that was there before
    Nothing

VARIABLES
    names,       \* the download directory: the inode of each candidate name
    data,        \* who wrote each chunk of each inode
    caller       \* where each call stands

downloadVars == <<names, data, caller>>

\* What the values stand for: the content of old files is nobody's, a call is
\* not a value of its own fields, and io.Copy takes at least one step.
Parameters ==
    /\ Nothing \notin Files \cup Downloaders \cup {Old} /\ Old \notin Downloaders
    /\ PieceCount \in Nat \ {0} /\ MaxRetries \in Nat

ASSUME ParametersAssumption == Parameters

Names == 0..MaxRetries
Pieces == 1..PieceCount
Blank == [k \in Pieces |-> Nothing]
All(w) == [k \in Pieces |-> w]

\* shared: history, another call was at work under the same name when this one
\* chose it, or chose it while this one was at work.
Fresh == [pc |-> "stat", name |-> 0, inode |-> Nothing, next |-> 1, shared |-> FALSE]

Stages == {"stat", "choose", "open", "create", "copy", "close", "remove", "done", "failed", "dead"}
Active == {"open", "create", "copy", "close", "remove"}

Caller == [pc : Stages, name : Names, inode : Files \cup {Nothing}, next : 1..(PieceCount + 1),
           shared : BOOLEAN]

\* Any files may be there, each under one name.
DownloadInit ==
    /\ names \in [Names -> Files \cup {Nothing}]
    /\ \A p, q \in Names : names[p] = names[q] => p = q \/ names[p] = Nothing
    /\ data = [i \in Files |-> IF \E p \in Names : names[p] = i THEN All(Old) ELSE Blank]
    /\ caller = [c \in Downloaders |-> Fresh]

CallAt(c, label) == caller[c].pc = label
CallGoes(c, label) == caller' = [caller EXCEPT ![c].pc = label]
Unused(i) ==
    /\ \A p \in Names : names[p] # i
    /\ \A c \in Downloaders : caller[c].inode # i

\* The host has a connection and an SFTP session; the remote path is a file
\* within the limit; the local directory is there.
StatRemote(c) ==
    /\ CallAt(c, "stat")
    /\ CallGoes(c, "choose") \/ CallGoes(c, "failed")
    /\ UNCHANGED <<names, data>>

\* The calls that have chosen the name and may still create or remove its file.
\* One of them may be past its own Create while the name is free: another call
\* of the same name failed and removed the file.
Rivals(p) == {d \in Downloaders : caller[d].name = p /\ caller[d].pc \in Active}

Choose(c) ==
    caller' = [d \in Downloaders |->
                 IF d = c THEN [caller[c] EXCEPT !.pc = "open", !.shared = Rivals(caller[c].name) # {}]
                 ELSE IF d \in Rivals(caller[c].name) THEN [caller[d] EXCEPT !.shared = TRUE]
                 ELSE caller[d]]

\* Mutant: the last candidate is taken without a look.
TryNameLastUnchecked(c) ==
    /\ CallAt(c, "choose")
    /\ \/ (names[caller[c].name] = Nothing \/ caller[c].name = MaxRetries) /\ Choose(c)
       \/ /\ names[caller[c].name] # Nothing /\ caller[c].name < MaxRetries
          /\ caller' = [caller EXCEPT ![c].name = @ + 1]
       \/ CallGoes(c, "failed")
    /\ UNCHANGED <<names, data>>

\* One Stat of collisionSafePath.  It may fail; so does the last candidate
\* when it exists.
TryName(c) ==
    /\ CallAt(c, "choose")
    /\ \/ names[caller[c].name] = Nothing /\ Choose(c)
       \/ /\ names[caller[c].name] # Nothing /\ caller[c].name < MaxRetries
          /\ caller' = [caller EXCEPT ![c].name = @ + 1]
       \/ CallGoes(c, "failed")
    /\ UNCHANGED <<names, data>>

OpenRemote(c) ==
    /\ CallAt(c, "open")
    /\ CallGoes(c, "create") \/ CallGoes(c, "failed")
    /\ UNCHANGED <<names, data>>

\* os.Create truncates a file that has come into being since the Stat.
CreateLocal(c) ==
    /\ CallAt(c, "create")
    /\ LET p == caller[c].name IN
       \/ \E i \in Files :
            /\ IF names[p] = Nothing THEN Unused(i) ELSE i = names[p]
            /\ names' = [names EXCEPT ![p] = i]
            /\ data' = [data EXCEPT ![i] = Blank]
            /\ caller' = [caller EXCEPT ![c].pc = "copy", ![c].inode = i]
       \/ CallGoes(c, "failed") /\ UNCHANGED <<names, data>>

\* Mutant: a copy that breaks off goes on to Close.
CopyChunkUnchecked(c) ==
    /\ CallAt(c, "copy")
    /\ \/ /\ data' = [data EXCEPT ![caller[c].inode][caller[c].next] = c]
          /\ caller' = [caller EXCEPT ![c].next = @ + 1,
                          ![c].pc = IF caller[c].next = PieceCount THEN "close" ELSE "copy"]
       \/ CallGoes(c, "close") /\ UNCHANGED data
    /\ UNCHANGED names

\* io.Copy, at the call's own offset.
CopyChunk(c) ==
    /\ CallAt(c, "copy")
    /\ \/ /\ data' = [data EXCEPT ![caller[c].inode][caller[c].next] = c]
          /\ caller' = [caller EXCEPT ![c].next = @ + 1,
                          ![c].pc = IF caller[c].next = PieceCount THEN "close" ELSE "copy"]
       \/ CallGoes(c, "remove") /\ UNCHANGED data
    /\ UNCHANGED names

\* Mutant: the file is kept when Close fails.
CloseLocalKeeping(c) ==
    /\ CallAt(c, "close")
    /\ CallGoes(c, "done") \/ CallGoes(c, "failed")
    /\ UNCHANGED <<names, data>>

CloseLocal(c) ==
    /\ CallAt(c, "close")
    /\ CallGoes(c, "done") \/ CallGoes(c, "remove")
    /\ UNCHANGED <<names, data>>

\* os.Remove, by name.
RemoveLocal(c) ==
    /\ CallAt(c, "remove")
    /\ names' = [names EXCEPT ![caller[c].name] = Nothing]
    /\ CallGoes(c, "failed")
    /\ UNCHANGED data

\* The process dies.
Die(c) ==
    /\ caller[c].pc \notin {"done", "failed", "dead"}
    /\ CallGoes(c, "dead")
    /\ UNCHANGED <<names, data>>

DownloadFile(c) ==
    \/ StatRemote(c) \/ TryName(c) \/ OpenRemote(c) \/ CreateLocal(c)
    \/ CopyChunk(c) \/ CloseLocal(c) \/ RemoveLocal(c)

DownloadNext == \E c \in Downloaders : DownloadFile(c) \/ Die(c)

DownloadSpec == DownloadInit /\ [][DownloadNext]_downloadVars

-----------------------------------------------------------------------------
(* Properties                                                              *)

DownloadTypeOK ==
    /\ names \in [Names -> Files \cup {Nothing}]
    /\ data \in [Files -> [Pieces -> Downloaders \cup {Old, Nothing}]]
    /\ caller \in [Downloaders -> Caller]

\* A download that was reported is under the reported name, complete and from
\* this call alone, whatever the other calls do, unless two calls were at work
\* under that name at once, each having found it free (server.go:618).
ReportedFileIsThere ==
    \A c \in Downloaders : CallAt(c, "done") /\ ~caller[c].shared =>
        /\ names[caller[c].name] = caller[c].inode
        /\ data[caller[c].inode] = All(c)

\* A failed download leaves nothing of its file in the directory.
FailedLeavesNothing ==
    \A c \in Downloaders : CallAt(c, "failed") /\ caller[c].inode # Nothing =>
        \A p \in Names : names[p] # caller[c].inode

\* A file that was there before is never touched.
OldFilesStay ==
    [][\A p \in Names : names[p] # Nothing /\ data[names[p]] = All(Old) =>
         names'[p] = names[p] /\ data'[names[p]] = All(Old)]_downloadVars
=============================================================================
