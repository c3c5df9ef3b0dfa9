-------------------------- MODULE ToolCacheProofs --------------------------
(***************************************************************************)
(* Proofs about ToolCache, for any number of calls, tools, files, chunks   *)
(* and crashes.  The inductive invariant says who may write what: a        *)
(* temporary file has one name and one call until it is renamed, what is   *)
(* uploaded is complete, and a call that uploads alone has written the     *)
(* remote file up to its own offset.                                       *)
(***************************************************************************)
EXTENDS ToolCache, TLAPS

HoldsTemp(c) == call[c].pc \in {"write", "chmod", "rename"}
Complete(f) == f.body = "pinned" /\ f.chunks = Whole /\ f.exec

Quiet == {"idle", "pick", "stat", "fetch", "create", "open"}

\* What each label says of a call's own fields.
LocalsFit ==
    \A c \in Callers :
        /\ call[c].pc \notin {"idle", "pick"} => call[c].tool \in Tools
        /\ call[c].pc = "create" => call[c].body = "pinned"
        /\ call[c].temp # None <=> HoldsTemp(c) \/ At(c, "remove")
        /\ HoldsTemp(c) \/ call[c].pc \in {"send", "upload", "finish"} => call[c].inode \in Inodes
        /\ call[c].pc \in Quiet => call[c].inode = None
        /\ call[c].pc \in Quiet \cup {"send"} => call[c].next = 1
        /\ At(c, "write") \/ At(c, "upload") => call[c].next \in 1..Chunks

\* A file under a temporary name belongs to one call alone.
TempIsPrivate ==
    \A c \in Callers : HoldsTemp(c) =>
        /\ dir[call[c].temp] = call[c].inode
        /\ \A p \in Tools \cup TempNames : dir[p] = call[c].inode => p = call[c].temp
        /\ \A d \in Callers : d # c => call[d].inode # call[c].inode
TempNamesDiffer ==
    \A c, d \in Callers : c # d /\ call[c].temp # None => call[c].temp # call[d].temp

\* What has been written to it.
TempIsWritten ==
    \A c \in Callers : HoldsTemp(c) =>
        /\ disk[call[c].inode].body = "pinned"
        /\ At(c, "write") => disk[call[c].inode].chunks = 1..(call[c].next - 1)
        /\ ~At(c, "write") => disk[call[c].inode].chunks = Whole
        /\ At(c, "rename") => disk[call[c].inode].exec

SentIsComplete ==
    \A c \in Callers : call[c].pc \in {"send", "upload", "finish"} => Complete(disk[call[c].inode])

CacheInv ==
    /\ TypeOK /\ LocalsFit /\ TempIsPrivate /\ TempNamesDiffer /\ TempIsWritten
    /\ SentIsComplete /\ CacheIsPinned /\ TempsAreOwned

\* The remote files.
IsUploading(c) == call[c].pc \in {"upload", "finish"}

AloneIsAlone ==
    \A c \in Callers : IsUploading(c) /\ call[c].alone =>
        /\ \A d \in Callers : d # c /\ IsUploading(d) => call[d].tool # call[c].tool
        /\ At(c, "upload") => 1..(call[c].next - 1) \subseteq remote[call[c].tool].chunks
        /\ At(c, "finish") => remote[call[c].tool].chunks = Whole

UndisturbedIsAlone ==
    \A c \in Callers : IsUploading(c) /\ ~remote[call[c].tool].disturbed =>
        call[c].alone /\ ~remote[call[c].tool].exec

RemoteInv == AloneIsAlone /\ UndisturbedIsAlone /\ DeployedIsWhole

IndInv == CacheInv /\ RemoteInv

USE CacheNamesAssumption, ChunksAssumption, MaxCrashesAssumption

-----------------------------------------------------------------------------
(* Records of calls.                                                       *)

\* What the cache knows of a call is the same before and after.
Same(p, q) == /\ p.pc = q.pc /\ p.tool = q.tool /\ p.temp = q.temp
              /\ p.inode = q.inode /\ p.next = q.next /\ p.body = q.body

\* Call c becomes r, and at most the field alone of the others changes.
Steps(c, r) ==
    /\ call' \in [Callers -> Call] /\ call'[c] = r
    /\ \A d \in Callers \ {c} : Same(call'[d], call[d])

Moves(c, r) == call' = [call EXCEPT ![c] = r]

LEMMA MovesSteps ==
    ASSUME TypeOK, NEW c \in Callers, NEW r \in Call, Moves(c, r)
    PROVE  /\ Steps(c, r)
           /\ \A d \in Callers \ {c} : call'[d] = call[d]
BY DEF Moves, TypeOK, Steps, Same

LEMMA IdleTyped ==
    /\ Idle \in Call /\ Idle.pc = "idle" /\ Idle.todo = {} /\ Idle.temp = None
    /\ Idle.inode = None /\ Idle.next = 1 /\ Idle.tool = None
BY DEF Idle, Call, Labels, Bodies

\* New records for a tool.
LEMMA OpenTyped ==
    ASSUME NEW T \in SUBSET Tools, NEW t \in Tools
    PROVE  LET r == [Idle EXCEPT !.pc = "open", !.todo = T, !.tool = t] IN
           /\ r \in Call /\ r.pc = "open" /\ r.tool = t /\ r.temp = None
           /\ r.inode = None /\ r.next = 1
<1>1. ASSUME NEW q \in Call
      PROVE  LET r == [q EXCEPT !.pc = "open", !.todo = T, !.tool = t] IN
             /\ r \in Call /\ r.pc = "open" /\ r.tool = t /\ r.temp = q.temp
             /\ r.inode = q.inode /\ r.next = q.next
  BY DEF Call, Labels
<1> QED BY <1>1, IdleTyped

LEMMA StatTyped ==
    ASSUME NEW T \in SUBSET Tools, NEW t \in Tools
    PROVE  LET r == [Idle EXCEPT !.pc = "stat", !.tool = t, !.todo = T] IN
           /\ r \in Call /\ r.pc = "stat" /\ r.tool = t /\ r.temp = None
           /\ r.inode = None /\ r.next = 1
<1>1. ASSUME NEW q \in Call
      PROVE  LET r == [q EXCEPT !.pc = "stat", !.tool = t, !.todo = T] IN
             /\ r \in Call /\ r.pc = "stat" /\ r.tool = t /\ r.temp = q.temp
             /\ r.inode = q.inode /\ r.next = q.next
  BY DEF Call, Labels
<1> QED BY <1>1, IdleTyped

LEMMA PickTyped ==
    ASSUME NEW T \in SUBSET Tools
    PROVE  LET r == [Idle EXCEPT !.pc = "pick", !.todo = T] IN
           r \in Call /\ r.pc = "pick" /\ r.temp = None /\ r.inode = None /\ r.next = 1
<1>1. ASSUME NEW q \in Call
      PROVE  LET r == [q EXCEPT !.pc = "pick", !.todo = T] IN
             r \in Call /\ r.pc = "pick" /\ r.temp = q.temp /\ r.inode = q.inode /\ r.next = q.next
  BY DEF Call, Labels
<1> QED BY <1>1, IdleTyped

LEMMA SkippedTyped ==
    ASSUME TypeOK, NEW c \in Callers
    PROVE  /\ Skipped(c) \in Call /\ Skipped(c).pc = "pick"
           /\ Skipped(c).temp = None /\ Skipped(c).inode = None /\ Skipped(c).next = 1
<1>1. call[c].todo \in SUBSET Tools
  BY DEF TypeOK, Call
<1> QED BY <1>1, PickTyped DEF Skipped

LEMMA ProblemMoves ==
    ASSUME TypeOK, NEW c \in Callers, Problem(c)
    PROVE  \E r \in Call : /\ Moves(c, r) /\ r.pc = "pick" /\ r.temp = None
                           /\ r.inode = None /\ r.next = 1
<1>1. Moves(c, Skipped(c))
  BY DEF Problem, Moves
<1> QED BY <1>1, SkippedTyped

LEMMA GotoMoves ==
    ASSUME TypeOK, NEW c \in Callers, NEW l \in Labels, Goto(c, l)
    PROVE  \E r \in Call :
             /\ Moves(c, r) /\ r.pc = l /\ r.tool = call[c].tool /\ r.temp = call[c].temp
             /\ r.inode = call[c].inode /\ r.next = call[c].next /\ r.body = call[c].body
             /\ r.alone = call[c].alone
<1>1. ASSUME NEW q \in Call
      PROVE  LET r == [q EXCEPT !.pc = l] IN
             /\ r \in Call /\ r.pc = l /\ r.tool = q.tool /\ r.temp = q.temp /\ r.inode = q.inode
             /\ r.next = q.next /\ r.body = q.body /\ r.alone = q.alone
  BY DEF Call
<1>2. call[c] \in Call
  BY DEF TypeOK
<1>3. Moves(c, [call[c] EXCEPT !.pc = l])
  BY DEF Moves, Goto, TypeOK
<1> QED BY <1>1, <1>2, <1>3

LEMMA NextMoves ==
    ASSUME TypeOK, NEW c \in Callers, call[c].next < Chunks,
           call' = [call EXCEPT ![c].next = @ + 1]
    PROVE  \E r \in Call :
             /\ Moves(c, r) /\ r.pc = call[c].pc /\ r.tool = call[c].tool /\ r.temp = call[c].temp
             /\ r.inode = call[c].inode /\ r.next = call[c].next + 1 /\ r.alone = call[c].alone
<1>1. ASSUME NEW q \in Call, q.next < Chunks
      PROVE  LET r == [q EXCEPT !.next = @ + 1] IN
             /\ r \in Call /\ r.pc = q.pc /\ r.tool = q.tool /\ r.temp = q.temp /\ r.inode = q.inode
             /\ r.next = q.next + 1 /\ r.alone = q.alone
  BY <1>1 DEF Call
<1>2. call[c] \in Call
  BY DEF TypeOK
<1>3. Moves(c, [call[c] EXCEPT !.next = @ + 1])
  BY DEF Moves, TypeOK
<1> QED BY <1>1, <1>2, <1>3

-----------------------------------------------------------------------------
(* The ways a call can step, as the cache sees it.                         *)

Frame == /\ remote' \in [Tools -> RemoteFile] /\ crashes' \in 0..MaxCrashes
         /\ orphans \subseteq orphans' /\ orphans' \in SUBSET TempNames

\* To a label at which the call holds nothing.  What temporary file it had is
\* an orphan then.
LEMMA QuietStep ==
    ASSUME CacheInv, NEW c \in Callers, NEW r \in Call, Steps(c, r), Frame, UNCHANGED local,
           r.pc \in Quiet, r.temp = None, r.inode = None, r.next = 1,
           r.pc \notin {"idle", "pick"} => r.tool \in Tools,
           r.pc = "create" => r.body = "pinned",
           call[c].temp # None => call[c].temp \in orphans'
    PROVE  CacheInv'
<1> USE DEF CacheInv, Steps, Same, Frame, local, Quiet
<1>1. TypeOK'
  BY DEF TypeOK
<1>2. LocalsFit'
  BY DEF LocalsFit, HoldsTemp, At
<1>3. TempIsPrivate'
  BY DEF TempIsPrivate, HoldsTemp, LocalsFit
<1>4. TempNamesDiffer'
  BY DEF TempNamesDiffer
<1>5. TempIsWritten'
  BY DEF TempIsWritten, HoldsTemp, At
<1>6. SentIsComplete'
  BY DEF SentIsComplete, Complete
<1>7. CacheIsPinned'
  BY DEF CacheIsPinned
<1>8. TempsAreOwned'
  BY DEF TempsAreOwned
<1> QED BY <1>1, <1>2, <1>3, <1>4, <1>5, <1>6, <1>7, <1>8

\* From one label of an upload to the next.
LEMMA SendStep ==
    ASSUME CacheInv, NEW c \in Callers, NEW r \in Call, Steps(c, r), Frame, UNCHANGED local,
           call[c].pc \in {"send", "upload"}, r.pc \in {"upload", "finish"},
           r.tool = call[c].tool, r.temp = call[c].temp, r.inode = call[c].inode,
           r.pc = "upload" => r.next \in 1..Chunks
    PROVE  CacheInv'
<1> USE DEF CacheInv, Steps, Same, Frame, local
<1>1. TypeOK'
  BY DEF TypeOK
<1>2. LocalsFit'
  BY DEF LocalsFit, HoldsTemp, At, Quiet
<1>3. TempIsPrivate'
  BY DEF TempIsPrivate, HoldsTemp
<1>4. TempNamesDiffer'
  BY DEF TempNamesDiffer
<1>5. TempIsWritten'
  BY DEF TempIsWritten, HoldsTemp, At
<1>6. SentIsComplete'
  BY DEF SentIsComplete, Complete
<1>7. CacheIsPinned'
  BY DEF CacheIsPinned
<1>8. TempsAreOwned'
  BY DEF TempsAreOwned
<1> QED BY <1>1, <1>2, <1>3, <1>4, <1>5, <1>6, <1>7, <1>8

\* A step on the temporary file failed: the deferred os.Remove is next.
LEMMA GiveUpStep ==
    ASSUME CacheInv, NEW c \in Callers, NEW r \in Call, Steps(c, r), Frame, UNCHANGED local,
           HoldsTemp(c), r.pc = "remove", r.tool = call[c].tool, r.temp = call[c].temp,
           r.inode = call[c].inode
    PROVE  CacheInv'
<1> USE DEF CacheInv, Steps, Same, Frame, local
<1>1. TypeOK'
  BY DEF TypeOK
<1>2. LocalsFit'
  BY DEF LocalsFit, HoldsTemp, At, Quiet
<1>3. TempIsPrivate'
  BY DEF TempIsPrivate, HoldsTemp
<1>4. TempNamesDiffer'
  BY DEF TempNamesDiffer
<1>5. TempIsWritten'
  BY DEF TempIsWritten, HoldsTemp, At
<1>6. SentIsComplete'
  BY DEF SentIsComplete, Complete
<1>7. CacheIsPinned'
  BY DEF CacheIsPinned
<1>8. TempsAreOwned'
  BY DEF TempsAreOwned
<1> QED BY <1>1, <1>2, <1>3, <1>4, <1>5, <1>6, <1>7, <1>8

\* The temporary file changes, under its one name.
LEMMA FileStep ==
    ASSUME CacheInv, NEW c \in Callers, NEW r \in Call, Steps(c, r), Frame, UNCHANGED dir,
           HoldsTemp(c), r.pc \in {"write", "chmod", "rename"}, r.tool = call[c].tool,
           r.temp = call[c].temp, r.inode = call[c].inode,
           NEW f \in File, disk' = [disk EXCEPT ![call[c].inode] = f],
           f.body = "pinned",
           r.pc = "write" => r.next \in 1..Chunks /\ f.chunks = 1..(r.next - 1),
           r.pc # "write" => f.chunks = Whole,
           r.pc = "rename" => f.exec
    PROVE  CacheInv'
<1> USE DEF CacheInv, Steps, Same, Frame
<1>0. /\ call[c].inode \in Inodes /\ disk'[call[c].inode] = f
      /\ \A i \in Inodes \ {call[c].inode} : disk'[i] = disk[i]
      /\ \A p \in Tools \cup TempNames : dir[p] = call[c].inode => p = call[c].temp
      /\ \A d \in Callers \ {c} : call[d].inode # call[c].inode
      /\ call[c].temp \in TempNames
  BY DEF LocalsFit, TypeOK, Call, TempIsPrivate
<1>1. TypeOK'
  BY DEF TypeOK
<1>2. LocalsFit'
  BY DEF LocalsFit, HoldsTemp, At, Quiet
<1>3. TempIsPrivate'
  BY DEF TempIsPrivate, HoldsTemp
<1>4. TempNamesDiffer'
  BY DEF TempNamesDiffer
<1>5. TempIsWritten'
  <2>1. ASSUME NEW d \in Callers \ {c}, HoldsTemp(d)' PROVE disk'[call'[d].inode] = disk[call[d].inode]
    BY <1>0, <2>1 DEF LocalsFit, HoldsTemp
  <2> QED BY <1>0, <2>1 DEF TempIsWritten, HoldsTemp, At
<1>6. SentIsComplete'
  <2>1. ASSUME NEW d \in Callers, call'[d].pc \in {"send", "upload", "finish"}
        PROVE  d # c /\ call[d].inode = call'[d].inode /\ call[d].inode \in Inodes
    BY <2>1 DEF LocalsFit
  <2> QED BY <1>0, <2>1 DEF SentIsComplete, Complete
<1>7. CacheIsPinned'
  BY <1>0 DEF CacheIsPinned, TypeOK
<1>8. TempsAreOwned'
  BY DEF TempsAreOwned
<1> QED BY <1>1, <1>2, <1>3, <1>4, <1>5, <1>6, <1>7, <1>8

-----------------------------------------------------------------------------
(* The cache: one lemma for each action.                                   *)

LEMMA FrameHolds ==
    ASSUME CacheInv, UNCHANGED <<remote, history>> PROVE Frame
BY DEF CacheInv, TypeOK, Frame, history

LEMMA QuietHoldsNothing ==
    ASSUME CacheInv, NEW c \in Callers, call[c].pc \in Quiet \cup {"send", "upload", "finish"}
    PROVE  call[c].temp = None
BY DEF CacheInv, LocalsFit, HoldsTemp, At, Quiet

LEMMA ProblemInv ==
    ASSUME CacheInv, NEW c \in Callers, Problem(c), call[c].temp = None, UNCHANGED local, Frame
    PROVE  CacheInv'
<1>1. PICK r \in Call : Moves(c, r) /\ r.pc = "pick" /\ r.temp = None /\ r.inode = None /\ r.next = 1
  BY ProblemMoves DEF CacheInv
<1> QED BY <1>1, MovesSteps, QuietStep DEF Quiet, CacheInv

\* Steps that only change the label of a call that holds nothing.
LEMMA StatGotoInv ==
    ASSUME CacheInv, NEW c \in Callers, NEW l \in {"fetch", "open"}, At(c, "stat"), Goto(c, l),
           UNCHANGED <<local, remote, history>>
    PROVE  CacheInv'
<1>1. l \in Labels
  BY DEF Labels
<1>2. PICK r \in Call : /\ Moves(c, r) /\ r.pc = l /\ r.tool = call[c].tool /\ r.temp = call[c].temp
                        /\ r.inode = call[c].inode /\ r.next = call[c].next
  BY <1>1, GotoMoves DEF CacheInv
<1>3. call[c].temp = None /\ call[c].inode = None /\ call[c].next = 1 /\ call[c].tool \in Tools
  BY DEF At, CacheInv, LocalsFit, HoldsTemp, Quiet
<1>4. r.pc \in Quiet /\ r.pc # "create"
  BY <1>2 DEF Quiet
<1> QED BY <1>2, <1>3, <1>4, FrameHolds, MovesSteps, QuietStep DEF CacheInv

LEMMA BeginDeployInv ==
    ASSUME CacheInv, NEW c \in Callers, BeginDeploy(c) PROVE CacheInv'
<1>1. PICK missing \in SUBSET Tools : Moves(c, [Idle EXCEPT !.pc = "pick", !.todo = missing])
  BY DEF BeginDeploy, Moves
<1>2. call[c].temp = None
  BY QuietHoldsNothing DEF BeginDeploy, At, Quiet
<1>3. UNCHANGED local /\ Frame
  BY FrameHolds DEF BeginDeploy
<1>4. CacheInv
  OBVIOUS
<1> HIDE DEF BeginDeploy
<1> QED BY <1>1, <1>2, <1>3, PickTyped, MovesSteps, QuietStep DEF Quiet, CacheInv

LEMMA PickToolInv ==
    ASSUME CacheInv, NEW c \in Callers, PickTool(c) PROVE CacheInv'
<1>1. call[c].temp = None
  BY QuietHoldsNothing DEF PickTool, At, Quiet
<1>2. UNCHANGED local /\ Frame
  BY FrameHolds DEF PickTool
<1>3. call[c].todo \in SUBSET Tools
  BY DEF CacheInv, TypeOK, Call
<1>4. CASE call' = [call EXCEPT ![c] = Idle]
  <2>1. Moves(c, Idle)
    BY <1>4 DEF Moves
  <2> QED BY <1>1, <1>2, <2>1, IdleTyped, MovesSteps, QuietStep DEF Quiet, CacheInv
<1>5. ASSUME NEW t \in call[c].todo,
             call' = [call EXCEPT ![c] = [Idle EXCEPT !.pc = "stat", !.tool = t,
                                                      !.todo = call[c].todo \ {t}]]
      PROVE  CacheInv'
  <2>1. call[c].todo \ {t} \in SUBSET Tools /\ t \in Tools
    BY <1>3, <1>5
  <2>2. PICK r : r = [Idle EXCEPT !.pc = "stat", !.tool = t, !.todo = call[c].todo \ {t}]
    OBVIOUS
  <2>3. Moves(c, r)
    BY <1>5, <2>2 DEF Moves
  <2>4. r \in Call /\ r.pc = "stat" /\ r.tool = t /\ r.temp = None /\ r.inode = None /\ r.next = 1
    BY <2>1, <2>2, StatTyped
  <2> QED BY <1>1, <1>2, <2>1, <2>3, <2>4, MovesSteps, QuietStep DEF Quiet, CacheInv
<1> QED BY <1>4, <1>5 DEF PickTool

LEMMA StatCacheInv ==
    ASSUME CacheInv, NEW c \in Callers, StatCache(c) PROVE CacheInv'
<1>1. call[c].temp = None /\ UNCHANGED local /\ Frame
  BY QuietHoldsNothing, FrameHolds DEF StatCache, At, Quiet
<1> QED BY <1>1, ProblemInv, StatGotoInv DEF StatCache

LEMMA FetchInv ==
    ASSUME CacheInv, NEW c \in Callers, Fetch(c) PROVE CacheInv'
<1>1. call[c].temp = None /\ call[c].inode = None /\ call[c].next = 1 /\ call[c].tool \in Tools
  BY DEF Fetch, At, CacheInv, LocalsFit, HoldsTemp, Quiet
<1>2. UNCHANGED local /\ Frame
  BY FrameHolds DEF Fetch
<1>3. CASE Problem(c)
  BY <1>1, <1>2, <1>3, ProblemInv
<1>4. CASE call' = [call EXCEPT ![c].pc = "create", ![c].body = "pinned"]
  <2>1. ASSUME NEW q \in Call
        PROVE  LET r == [q EXCEPT !.pc = "create", !.body = "pinned"] IN
               /\ r \in Call /\ r.pc = "create" /\ r.body = "pinned" /\ r.tool = q.tool
               /\ r.temp = q.temp /\ r.inode = q.inode /\ r.next = q.next
    BY DEF Call, Labels, Bodies
  <2>2. PICK r : r = [call[c] EXCEPT !.pc = "create", !.body = "pinned"]
    OBVIOUS
  <2>3. Moves(c, r)
    BY <1>4, <2>2 DEF Moves, CacheInv, TypeOK
  <2>4. call[c] \in Call
    BY DEF CacheInv, TypeOK
  <2> QED BY <1>1, <1>2, <2>1, <2>2, <2>3, <2>4, MovesSteps, QuietStep, ZenonT(60) DEF Quiet, CacheInv
<1> QED BY <1>3, <1>4 DEF Fetch

LEMMA CreateTempInv ==
    ASSUME CacheInv, NEW c \in Callers, CreateTemp(c) PROVE CacheInv'
<1> USE DEF CacheInv
<1>1. call[c].temp = None /\ call[c].tool \in Tools /\ call[c].body = "pinned" /\ call[c].next = 1
  BY DEF CreateTemp, At, LocalsFit, HoldsTemp, Quiet
<1>2. Frame
  BY FrameHolds DEF CreateTemp
<1>3. CASE Problem(c) /\ UNCHANGED local
  BY <1>1, <1>2, <1>3, ProblemInv
<1>4. ASSUME NEW p \in TempNames, NEW i \in Inodes,
             dir[p] = None, \A d \in Callers : call[d].temp # p, Free(i),
             dir' = [dir EXCEPT ![p] = i],
             disk' = [disk EXCEPT ![i] = [EmptyFile EXCEPT !.body = call[c].body]],
             call' = [call EXCEPT ![c].pc = "write", ![c].temp = p, ![c].inode = i]
      PROVE  CacheInv'
  <2>1. PICK r : r = [call[c] EXCEPT !.pc = "write", !.temp = p, !.inode = i]
    OBVIOUS
  <2>2. /\ r \in Call /\ r.pc = "write" /\ r.temp = p /\ r.inode = i /\ r.tool = call[c].tool
        /\ r.next = call[c].next
    <3>1. ASSUME NEW q \in Call
          PROVE  LET s == [q EXCEPT !.pc = "write", !.temp = p, !.inode = i] IN
                 /\ s \in Call /\ s.pc = "write" /\ s.temp = p /\ s.inode = i /\ s.tool = q.tool
                 /\ s.next = q.next
      BY DEF Call, Labels
    <3> QED BY <2>1, <3>1 DEF TypeOK
  <2>3. Steps(c, r)
    <3>1. Moves(c, r)
      BY <1>4, <2>1 DEF Moves, TypeOK
    <3> QED BY <2>2, <3>1, MovesSteps
  <2>4. /\ p \notin Tools /\ dir' \in [Tools \cup TempNames -> Inodes \cup {None}]
        /\ dir'[p] = i /\ \A x \in (Tools \cup TempNames) \ {p} : dir'[x] = dir[x]
    BY <1>4 DEF TypeOK
  <2>5. /\ disk' \in [Inodes -> File]
        /\ disk'[i] = EmptyFile /\ \A x \in Inodes \ {i} : disk'[x] = disk[x]
    BY <1>1, <1>4 DEF TypeOK, EmptyFile, File, Bodies
  <2>6. \A x \in Tools \cup TempNames : dir[x] # i
    BY <1>4 DEF Free
  <2>7. \A d \in Callers : call[d].inode # i /\ call[d].temp # p
    BY <1>4 DEF Free
  <2> USE DEF Steps, Same, Frame
  <2>8. TypeOK'
    BY <1>2, <2>3, <2>4, <2>5 DEF TypeOK
  <2>9. LocalsFit'
    BY <1>1, <2>2, <2>3 DEF LocalsFit, HoldsTemp, At, Quiet
  <2>10. TempIsPrivate'
    <3>1. \A d \in Callers : HoldsTemp(d) => call[d].temp \in TempNames /\ call[d].temp # p
      BY <2>7 DEF LocalsFit, TypeOK, Call
    <3> QED BY <2>2, <2>3, <2>4, <2>6, <2>7, <3>1 DEF TempIsPrivate, HoldsTemp
  <2>11. TempNamesDiffer'
    BY <2>2, <2>3, <2>7 DEF TempNamesDiffer
  <2>12. TempIsWritten'
    <3>1. \A d \in Callers \ {c} : HoldsTemp(d) => disk'[call[d].inode] = disk[call[d].inode]
      BY <2>5, <2>7 DEF LocalsFit
    <3>2. 1..(r.next - 1) = {} /\ EmptyFile.chunks = {} /\ EmptyFile.body = "pinned"
      BY <1>1, <2>2 DEF EmptyFile
    <3>3. ASSUME NEW d \in Callers \ {c}, HoldsTemp(d)'
          PROVE  HoldsTemp(d) /\ disk'[call'[d].inode] = disk[call[d].inode]
      <4>1. call'[d].pc = call[d].pc /\ call'[d].inode = call[d].inode
        BY <2>3
      <4>2. HoldsTemp(d)
        BY <3>3, <4>1 DEF HoldsTemp
      <4>3. disk'[call[d].inode] = disk[call[d].inode]
        BY <3>1, <4>2
      <4> QED BY <4>1, <4>2, <4>3
    <3>4. ASSUME NEW d \in Callers, HoldsTemp(d)'
          PROVE  /\ disk'[call'[d].inode].body = "pinned"
                 /\ At(d, "write")' => disk'[call'[d].inode].chunks = 1..(call'[d].next - 1)
                 /\ ~At(d, "write")' => disk'[call'[d].inode].chunks = Whole
                 /\ At(d, "rename")' => disk'[call'[d].inode].exec
      <4>1. CASE d = c
        BY <2>2, <2>3, <2>5, <3>2, <4>1 DEF At
      <4>2. CASE d # c
        <5>1. HoldsTemp(d) /\ disk'[call'[d].inode] = disk[call[d].inode]
          BY <3>3, <3>4, <4>2
        <5>2. call'[d].pc = call[d].pc /\ call'[d].next = call[d].next
          BY <2>3, <4>2
        <5> QED BY <5>1, <5>2 DEF TempIsWritten, At
      <4> QED BY <4>1, <4>2
    <3> QED BY <3>4 DEF TempIsWritten
  <2>13. SentIsComplete'
    BY <2>2, <2>3, <2>5, <2>7 DEF SentIsComplete, Complete, LocalsFit
  <2>14. CacheIsPinned'
    BY <2>4, <2>5, <2>6 DEF CacheIsPinned, TypeOK
  <2>15. TempsAreOwned'
    BY <1>2, <2>2, <2>3, <2>4, <1>1 DEF TempsAreOwned
  <2> QED BY <2>8, <2>9, <2>10, <2>11, <2>12, <2>13, <2>14, <2>15
<1> QED BY <1>3, <1>4 DEF CreateTemp

\* What a call that holds a temporary file knows of it.
LEMMA TempFile ==
    ASSUME CacheInv, NEW c \in Callers, HoldsTemp(c)
    PROVE  /\ call[c].inode \in Inodes /\ disk[call[c].inode] \in File
           /\ disk[call[c].inode].body = "pinned"
           /\ call[c].temp \in TempNames /\ call[c].tool \in Tools /\ call[c] \in Call
<1>1. call[c].inode \in Inodes /\ call[c].temp # None /\ call[c].tool \in Tools
  BY DEF CacheInv, LocalsFit, HoldsTemp
<1> QED BY <1>1 DEF CacheInv, TypeOK, Call, TempIsWritten

LEMMA GiveUpInv ==
    ASSUME CacheInv, NEW c \in Callers, HoldsTemp(c), Goto(c, "remove"),
           UNCHANGED local, Frame
    PROVE  CacheInv'
<1>1. "remove" \in Labels
  BY DEF Labels
<1>2. PICK r \in Call : /\ Moves(c, r) /\ r.pc = "remove" /\ r.tool = call[c].tool
                        /\ r.temp = call[c].temp /\ r.inode = call[c].inode
  BY <1>1, GotoMoves DEF CacheInv
<1> QED BY <1>2, MovesSteps, GiveUpStep DEF CacheInv

LEMMA WriteTempInv ==
    ASSUME CacheInv, NEW c \in Callers, WriteTemp(c) PROVE CacheInv'
<1>1. HoldsTemp(c) /\ At(c, "write")
  BY DEF WriteTemp, At, HoldsTemp
<1>2. UNCHANGED dir /\ Frame
  BY FrameHolds DEF WriteTemp
<1>3. CASE Goto(c, "remove") /\ UNCHANGED disk
  BY <1>1, <1>2, <1>3, GiveUpInv DEF local
<1>4. ASSUME disk' = [disk EXCEPT ![call[c].inode].chunks = @ \cup {call[c].next}],
             IF call[c].next = Chunks THEN Goto(c, "chmod")
             ELSE call' = [call EXCEPT ![c].next = @ + 1]
      PROVE  CacheInv'
  <2>1. call[c].next \in 1..Chunks
    BY <1>1 DEF CacheInv, LocalsFit
  <2>2. disk[call[c].inode].chunks = 1..(call[c].next - 1)
    BY <1>1 DEF CacheInv, TempIsWritten
  <2>3. PICK f : f = [disk[call[c].inode] EXCEPT !.chunks = @ \cup {call[c].next}]
    OBVIOUS
  <2>4. /\ f \in File /\ f.body = "pinned" /\ f.chunks = 1..call[c].next
    <3>1. ASSUME NEW g \in File
          PROVE  LET h == [g EXCEPT !.chunks = @ \cup {call[c].next}] IN
                 h \in File /\ h.body = g.body /\ h.chunks = g.chunks \cup {call[c].next}
      BY <2>1 DEF File, Whole
    <3>2. 1..(call[c].next - 1) \cup {call[c].next} = 1..call[c].next
      BY <2>1
    <3> QED BY <1>1, <2>2, <2>3, <3>1, <3>2, TempFile
  <2>5. disk' = [disk EXCEPT ![call[c].inode] = f]
    BY <1>1, <1>4, <2>3, TempFile DEF CacheInv, TypeOK
  <2>6. CASE call[c].next = Chunks
    <3>1. "chmod" \in Labels
      BY DEF Labels
    <3>2. PICK r \in Call : /\ Moves(c, r) /\ r.pc = "chmod" /\ r.tool = call[c].tool
                            /\ r.temp = call[c].temp /\ r.inode = call[c].inode
      BY <1>4, <2>6, <3>1, GotoMoves DEF CacheInv
    <3> QED BY <1>1, <1>2, <2>4, <2>5, <2>6, <3>2, MovesSteps, FileStep DEF CacheInv, Whole
  <2>7. CASE call[c].next # Chunks
    <3>1. call[c].next < Chunks
      BY <2>1, <2>7
    <3>2. PICK r \in Call : /\ Moves(c, r) /\ r.pc = "write" /\ r.tool = call[c].tool
                            /\ r.temp = call[c].temp /\ r.inode = call[c].inode
                            /\ r.next = call[c].next + 1
      BY <1>1, <1>4, <2>7, <3>1, NextMoves DEF CacheInv, At
    <3>3. r.next \in 1..Chunks /\ 1..(r.next - 1) = 1..call[c].next
      BY <2>1, <3>1, <3>2
    <3> QED BY <1>1, <1>2, <2>4, <2>5, <3>2, <3>3, MovesSteps, FileStep DEF CacheInv
  <2> QED BY <2>6, <2>7
<1> QED BY <1>3, <1>4 DEF WriteTemp

LEMMA ChmodTempInv ==
    ASSUME CacheInv, NEW c \in Callers, ChmodTemp(c) PROVE CacheInv'
<1>1. HoldsTemp(c) /\ At(c, "chmod") /\ ~At(c, "write")
  BY DEF ChmodTemp, At, HoldsTemp
<1>2. UNCHANGED dir /\ Frame
  BY FrameHolds DEF ChmodTemp
<1>3. CASE Goto(c, "remove") /\ UNCHANGED disk
  BY <1>1, <1>2, <1>3, GiveUpInv DEF local
<1>4. ASSUME Goto(c, "rename"), disk' = [disk EXCEPT ![call[c].inode].exec = TRUE]
      PROVE  CacheInv'
  <2>1. PICK f : f = [disk[call[c].inode] EXCEPT !.exec = TRUE]
    OBVIOUS
  <2>2. f \in File /\ f.body = "pinned" /\ f.chunks = Whole /\ f.exec
    <3>1. ASSUME NEW g \in File
          PROVE  LET h == [g EXCEPT !.exec = TRUE] IN
                 h \in File /\ h.body = g.body /\ h.chunks = g.chunks /\ h.exec
      BY DEF File
    <3>2. disk[call[c].inode].chunks = Whole
      BY <1>1 DEF CacheInv, TempIsWritten
    <3> QED BY <1>1, <2>1, <3>1, <3>2, TempFile
  <2>3. disk' = [disk EXCEPT ![call[c].inode] = f]
    BY <1>1, <1>4, <2>1, TempFile DEF CacheInv, TypeOK
  <2>4. "rename" \in Labels
    BY DEF Labels
  <2>5. PICK r \in Call : /\ Moves(c, r) /\ r.pc = "rename" /\ r.tool = call[c].tool
                          /\ r.temp = call[c].temp /\ r.inode = call[c].inode
    BY <1>4, <2>4, GotoMoves DEF CacheInv
  <2> QED BY <1>1, <1>2, <2>2, <2>3, <2>5, MovesSteps, FileStep DEF CacheInv
<1> QED BY <1>3, <1>4 DEF ChmodTemp

\* The temporary file gets the tool's name.
LEMMA RenameInv ==
    ASSUME CacheInv, NEW c \in Callers, Rename(c) PROVE CacheInv'
<1> USE DEF CacheInv
<1>1. HoldsTemp(c) /\ At(c, "rename") /\ ~At(c, "write")
  BY DEF Rename, At, HoldsTemp
<1>2. UNCHANGED disk /\ Frame
  BY FrameHolds DEF Rename
<1>3. CASE Goto(c, "remove") /\ UNCHANGED dir
  BY <1>1, <1>2, <1>3, GiveUpInv DEF local
<1>4. ASSUME dir' = [dir EXCEPT ![call[c].tool] = call[c].inode, ![call[c].temp] = None],
             call' = [call EXCEPT ![c].pc = "remove", ![c].renamed = TRUE]
      PROVE  CacheInv'
  <2>1. PICK r : r = [call[c] EXCEPT !.pc = "remove", !.renamed = TRUE]
    OBVIOUS
  <2>2. /\ r \in Call /\ r.pc = "remove" /\ r.temp = call[c].temp /\ r.inode = call[c].inode
        /\ r.tool = call[c].tool
    <3>1. ASSUME NEW q \in Call
          PROVE  LET s == [q EXCEPT !.pc = "remove", !.renamed = TRUE] IN
                 /\ s \in Call /\ s.pc = "remove" /\ s.temp = q.temp /\ s.inode = q.inode
                 /\ s.tool = q.tool
      BY DEF Call, Labels
    <3> QED BY <1>1, <2>1, <3>1, TempFile
  <2>3. Steps(c, r)
    <3>1. Moves(c, r)
      BY <1>4, <2>1 DEF Moves, TypeOK
    <3> QED BY <2>2, <3>1, MovesSteps
  <2>4. /\ call[c].temp \in TempNames /\ call[c].tool \in Tools /\ call[c].inode \in Inodes
        /\ call[c].temp \notin Tools
    BY <1>1, TempFile
  <2>5. /\ dir' \in [Tools \cup TempNames -> Inodes \cup {None}]
        /\ dir'[call[c].temp] = None /\ dir'[call[c].tool] = call[c].inode
        /\ \A x \in (Tools \cup TempNames) \ {call[c].temp, call[c].tool} : dir'[x] = dir[x]
    BY <1>4, <2>4 DEF TypeOK
  <2> USE DEF Steps, Same, Frame
  <2>6. TypeOK'
    BY <1>2, <2>3, <2>5 DEF TypeOK
  <2>7. LocalsFit'
    BY <1>1, <2>2, <2>3, <2>4 DEF LocalsFit, HoldsTemp, At, Quiet
  <2>8. TempIsPrivate'
    <3>1. ASSUME NEW d \in Callers, HoldsTemp(d)'
          PROVE  /\ d # c /\ HoldsTemp(d) /\ call'[d].temp = call[d].temp
                 /\ call'[d].inode = call[d].inode
      BY <2>2, <2>3, <3>1 DEF HoldsTemp
    <3>2. ASSUME NEW d \in Callers, HoldsTemp(d)'
          PROVE  /\ call[d].inode \in Inodes /\ call[d].temp \in TempNames
                 /\ call[d].inode # call[c].inode /\ call[d].temp # call[c].temp
                 /\ call[d].temp # call[c].tool
      BY <1>1, <2>4, <3>1, <3>2, TempFile DEF TempIsPrivate, TempNamesDiffer
    <3>3. ASSUME NEW d \in Callers, HoldsTemp(d)'
          PROVE  dir'[call[d].temp] = call[d].inode
      BY <2>5, <3>1, <3>2, <3>3 DEF TempIsPrivate
    <3>4. ASSUME NEW d \in Callers, HoldsTemp(d)', NEW p \in Tools \cup TempNames,
                 dir'[p] = call[d].inode
          PROVE  p = call[d].temp
      <4>1. dir[p] = call[d].inode
        BY <2>5, <3>2, <3>4
      <4> QED BY <3>1, <3>4, <4>1 DEF TempIsPrivate
    <3>5. ASSUME NEW d \in Callers, HoldsTemp(d)', NEW e \in Callers, e # d
          PROVE  call'[e].inode # call[d].inode
      BY <2>2, <2>3, <3>1, <3>5 DEF TempIsPrivate
    <3> QED BY <3>1, <3>3, <3>4, <3>5 DEF TempIsPrivate
  <2>9. TempNamesDiffer'
    BY <2>2, <2>3 DEF TempNamesDiffer
  <2>10. TempIsWritten'
    BY <1>2, <2>2, <2>3 DEF TempIsWritten, HoldsTemp, At
  <2>11. SentIsComplete'
    BY <1>2, <2>2, <2>3 DEF SentIsComplete, Complete
  <2>12. CacheIsPinned'
    <3>1. Complete(disk[call[c].inode])
      BY <1>1 DEF TempIsWritten, Complete
    <3> QED BY <1>2, <2>4, <2>5, <3>1 DEF CacheIsPinned, Complete
  <2>13. TempsAreOwned'
    BY <1>2, <2>3, <2>4, <2>5 DEF TempsAreOwned
  <2> QED BY <2>6, <2>7, <2>8, <2>9, <2>10, <2>11, <2>12, <2>13
<1> QED BY <1>3, <1>4 DEF Rename

\* The temporary name goes, and the call holds nothing.
LEMMA RemoveTempInv ==
    ASSUME CacheInv, NEW c \in Callers, RemoveTemp(c) PROVE CacheInv'
<1> USE DEF CacheInv
<1>1. At(c, "remove") /\ call[c].temp \in TempNames /\ call[c].tool \in Tools
  BY DEF RemoveTemp, At, LocalsFit, TypeOK, Call
<1>2. UNCHANGED disk /\ Frame
  BY FrameHolds DEF RemoveTemp
<1>3. PICK r \in Call : /\ Moves(c, r) /\ r.pc \in {"pick", "open"} /\ r.temp = None
                        /\ r.inode = None /\ r.next = 1 /\ (r.pc = "open" => r.tool \in Tools)
  <2>1. CASE call[c].renamed
    <3>1. PICK T \in SUBSET Tools : T = call[c].todo
      BY DEF TypeOK, Call
    <3>2. PICK t \in Tools : t = call[c].tool
      BY <1>1
    <3>3. PICK r : r = [Idle EXCEPT !.pc = "open", !.todo = T, !.tool = t]
      OBVIOUS
    <3>4. Moves(c, r)
      BY <2>1, <3>1, <3>2, <3>3 DEF RemoveTemp, Moves
    <3>5. r \in Call /\ r.pc = "open" /\ r.tool = t /\ r.temp = None /\ r.inode = None /\ r.next = 1
      BY <3>3, OpenTyped, ZenonT(60)
    <3> QED BY <3>4, <3>5
  <2>2. CASE ~call[c].renamed
    BY <2>2, ProblemMoves DEF RemoveTemp
  <2> QED BY <2>1, <2>2
<1>4. Steps(c, r)
  BY <1>3, MovesSteps
<1>5. /\ dir' \in [Tools \cup TempNames -> Inodes \cup {None}] /\ dir'[call[c].temp] = None
      /\ call[c].temp \notin Tools
      /\ \A x \in (Tools \cup TempNames) \ {call[c].temp} : dir'[x] = dir[x]
  BY <1>1 DEF RemoveTemp, TypeOK
<1> USE DEF Steps, Same, Frame
<1>6. TypeOK'
  BY <1>2, <1>4, <1>5 DEF TypeOK
<1>7. LocalsFit'
  BY <1>3, <1>4 DEF LocalsFit, HoldsTemp, At, Quiet
<1>8. TempIsPrivate'
  <2>1. ASSUME NEW d \in Callers, HoldsTemp(d)'
        PROVE  /\ d # c /\ HoldsTemp(d) /\ call'[d].temp = call[d].temp
               /\ call'[d].inode = call[d].inode
    BY <1>3, <1>4, <2>1 DEF HoldsTemp
  <2>2. ASSUME NEW d \in Callers, HoldsTemp(d)'
        PROVE  /\ call[d].inode \in Inodes /\ call[d].temp \in TempNames
               /\ call[d].temp # call[c].temp
    BY <1>1, <2>1, <2>2, TempFile DEF TempNamesDiffer
  <2>3. ASSUME NEW d \in Callers, HoldsTemp(d)'
        PROVE  dir'[call[d].temp] = call[d].inode
    BY <1>5, <2>1, <2>2, <2>3 DEF TempIsPrivate
  <2>4. ASSUME NEW d \in Callers, HoldsTemp(d)', NEW p \in Tools \cup TempNames,
               dir'[p] = call[d].inode
        PROVE  p = call[d].temp
    <3>1. dir[p] = call[d].inode
      BY <1>5, <2>2, <2>4
    <3> QED BY <2>1, <2>4, <3>1 DEF TempIsPrivate
  <2>5. ASSUME NEW d \in Callers, HoldsTemp(d)', NEW e \in Callers, e # d
        PROVE  call'[e].inode # call[d].inode
    BY <1>3, <1>4, <2>1, <2>2, <2>5 DEF TempIsPrivate
  <2> QED BY <2>1, <2>3, <2>4, <2>5 DEF TempIsPrivate
<1>9. TempNamesDiffer'
  BY <1>3, <1>4 DEF TempNamesDiffer
<1>10. TempIsWritten'
  BY <1>2, <1>3, <1>4 DEF TempIsWritten, HoldsTemp, At
<1>11. SentIsComplete'
  BY <1>2, <1>3, <1>4 DEF SentIsComplete, Complete
<1>12. CacheIsPinned'
  BY <1>2, <1>5 DEF CacheIsPinned
<1>13. TempsAreOwned'
  BY <1>2, <1>4, <1>5 DEF TempsAreOwned
<1> QED BY <1>6, <1>7, <1>8, <1>9, <1>10, <1>11, <1>12, <1>13

LEMMA OpenLocalInv ==
    ASSUME CacheInv, NEW c \in Callers, OpenLocal(c) PROVE CacheInv'
<1> USE DEF CacheInv
<1>1. /\ call[c].temp = None /\ call[c].tool \in Tools /\ call[c].next = 1 /\ At(c, "open")
      /\ call[c] \in Call
  BY DEF OpenLocal, At, LocalsFit, HoldsTemp, Quiet, TypeOK
<1>2. UNCHANGED local /\ Frame
  BY FrameHolds DEF OpenLocal
<1>3. CASE Problem(c)
  BY <1>1, <1>2, <1>3, ProblemInv
<1>4. ASSUME dir[call[c].tool] # None,
             call' = [call EXCEPT ![c].pc = "send", ![c].inode = dir[call[c].tool]]
      PROVE  CacheInv'
  <2>1. PICK i : i = dir[call[c].tool]
    OBVIOUS
  <2>2. i \in Inodes /\ Complete(disk[i])
    BY <1>1, <1>4, <2>1 DEF TypeOK, CacheIsPinned, Complete
  <2>3. PICK r : r = [call[c] EXCEPT !.pc = "send", !.inode = i]
    OBVIOUS
  <2>4. /\ r \in Call /\ r.pc = "send" /\ r.inode = i /\ r.temp = None /\ r.next = 1
        /\ r.tool = call[c].tool
    <3>1. ASSUME NEW q \in Call
          PROVE  LET s == [q EXCEPT !.pc = "send", !.inode = i] IN
                 /\ s \in Call /\ s.pc = "send" /\ s.inode = i /\ s.temp = q.temp
                 /\ s.next = q.next /\ s.tool = q.tool
      BY <2>2 DEF Call, Labels
    <3> QED BY <1>1, <2>3, <3>1
  <2>5. Steps(c, r)
    <3>1. Moves(c, r)
      BY <1>4, <2>1, <2>3 DEF Moves, TypeOK
    <3> QED BY <2>4, <3>1, MovesSteps
  <2> USE DEF Steps, Same, Frame, local
  <2>6. TypeOK'
    BY <1>2, <2>5 DEF TypeOK
  <2>7. LocalsFit'
    BY <1>1, <2>2, <2>4, <2>5 DEF LocalsFit, HoldsTemp, At, Quiet
  <2>8. TempIsPrivate'
    <3>1. ASSUME NEW d \in Callers, HoldsTemp(d) PROVE call[d].inode # i
      BY <1>1, <2>1, <3>1, TempFile DEF TempIsPrivate
    <3> QED BY <1>2, <2>4, <2>5, <3>1 DEF TempIsPrivate, HoldsTemp
  <2>9. TempNamesDiffer'
    BY <2>4, <2>5 DEF TempNamesDiffer
  <2>10. TempIsWritten'
    BY <1>2, <2>4, <2>5 DEF TempIsWritten, HoldsTemp, At
  <2>11. SentIsComplete'
    BY <1>2, <2>2, <2>4, <2>5 DEF SentIsComplete, Complete
  <2>12. CacheIsPinned'
    BY <1>2 DEF CacheIsPinned
  <2>13. TempsAreOwned'
    BY <1>1, <1>2, <2>5 DEF TempsAreOwned
  <2> QED BY <2>6, <2>7, <2>8, <2>9, <2>10, <2>11, <2>12, <2>13
<1> QED BY <1>3, <1>4 DEF OpenLocal

\* CreateRemote changes the field alone of other calls too.
LEMMA OverlapSteps ==
    ASSUME TypeOK, NEW c \in Callers, NEW r \in Call, Overlap(c, r) PROVE Steps(c, r)
<1>1. ASSUME NEW q \in Call
      PROVE  LET s == [q EXCEPT !.alone = FALSE] IN s \in Call /\ Same(s, q)
  BY DEF Call, Same
<1>2. ASSUME NEW d \in Callers \ {c} PROVE call'[d] \in Call /\ Same(call'[d], call[d])
  <2>1. call[d] \in Call
    BY DEF TypeOK
  <2>2. CASE d \in Others(c)
    BY <1>1, <2>1, <2>2 DEF Overlap
  <2>3. CASE d \notin Others(c)
    BY <2>1, <2>3 DEF Overlap, Same
  <2> QED BY <2>2, <2>3
<1>3. call'[c] = r
  BY DEF Overlap
<1>4. call' = [d \in Callers |-> call'[d]]
  BY DEF Overlap
<1> QED BY <1>2, <1>3, <1>4 DEF Steps

LEMMA TruncateFrame ==
    ASSUME CacheInv, NEW c \in Callers, call[c].tool \in Tools,
           Truncate(c, remote[call[c].tool].exec), UNCHANGED history
    PROVE  Frame
<1>1. PICK f : f = [chunks |-> {}, exec |-> remote[call[c].tool].exec, reported |-> FALSE,
                    disturbed |-> remote[call[c].tool].exec \/ Others(c) # {}]
  OBVIOUS
<1>2. f \in RemoteFile
  <2>1. remote[call[c].tool].exec \in BOOLEAN
    BY DEF CacheInv, TypeOK, RemoteFile
  <2> QED BY <1>1, <2>1 DEF RemoteFile
<1>3. remote' = [remote EXCEPT ![call[c].tool] = f]
  BY <1>1 DEF Truncate, CacheInv, TypeOK
<1> QED BY <1>2, <1>3 DEF CacheInv, TypeOK, Frame, history

LEMMA CreateRemoteInv ==
    ASSUME CacheInv, NEW c \in Callers, CreateRemote(c) PROVE CacheInv'
<1>1. At(c, "send") /\ UNCHANGED <<local, history>>
  BY DEF CreateRemote
<1>2. call[c].tool \in Tools /\ call[c].temp = None /\ call[c].next = 1 /\ call[c] \in Call
  BY <1>1, QuietHoldsNothing DEF CacheInv, LocalsFit, At, TypeOK
<1>3. CASE Problem(c) /\ UNCHANGED remote
  BY <1>1, <1>2, <1>3, ProblemInv, FrameHolds
<1>4. CASE /\ Truncate(c, remote[call[c].tool].exec)
           /\ Overlap(c, [call[c] EXCEPT !.pc = "upload", !.alone = Others(c) = {}])
  <2>1. PICK b \in BOOLEAN : b = (Others(c) = {})
    OBVIOUS
  <2>2. PICK r : r = [call[c] EXCEPT !.pc = "upload", !.alone = b]
    OBVIOUS
  <2>3. /\ r \in Call /\ r.pc = "upload" /\ r.tool = call[c].tool /\ r.temp = call[c].temp
        /\ r.inode = call[c].inode /\ r.next = call[c].next
    <3>1. ASSUME NEW q \in Call
          PROVE  LET s == [q EXCEPT !.pc = "upload", !.alone = b] IN
                 /\ s \in Call /\ s.pc = "upload" /\ s.tool = q.tool /\ s.temp = q.temp
                 /\ s.inode = q.inode /\ s.next = q.next
      BY DEF Call, Labels
    <3> QED BY <1>2, <2>2, <3>1
  <2>4. Overlap(c, r)
    BY <1>4, <2>1, <2>2
  <2>5. Steps(c, r)
    BY <2>3, <2>4, OverlapSteps DEF CacheInv
  <2>6. Frame
    BY <1>1, <1>2, <1>4, TruncateFrame
  <2>7. r.next \in 1..Chunks
    BY <1>2, <2>3
  <2> QED BY <1>1, <2>3, <2>5, <2>6, <2>7, SendStep DEF At
<1>5. CASE Truncate(c, remote[call[c].tool].exec) /\ Overlap(c, Skipped(c))
  <2>1. Steps(c, Skipped(c))
    BY <1>5, SkippedTyped, OverlapSteps DEF CacheInv
  <2>2. Frame
    BY <1>1, <1>2, <1>5, TruncateFrame
  <2> QED BY <1>1, <1>2, <2>1, <2>2, SkippedTyped, QuietStep DEF Quiet, CacheInv
<1> QED BY <1>3, <1>4, <1>5 DEF CreateRemote

\* What Upload and FinishUpload write.
LEMMA UploadWrites ==
    ASSUME CacheInv, NEW c \in Callers, At(c, "upload"),
           remote' = [remote EXCEPT ![call[c].tool].chunks =
                        @ \cup ({call[c].next} \cap disk[call[c].inode].chunks)]
    PROVE  \E g \in RemoteFile :
             /\ remote' = [remote EXCEPT ![call[c].tool] = g]
             /\ g.chunks = remote[call[c].tool].chunks \cup {call[c].next}
             /\ g.exec = remote[call[c].tool].exec /\ g.reported = remote[call[c].tool].reported
             /\ g.disturbed = remote[call[c].tool].disturbed
<1>1. call[c].tool \in Tools /\ call[c].next \in Whole /\ disk[call[c].inode].chunks = Whole
  BY DEF CacheInv, LocalsFit, At, SentIsComplete, Complete, Whole
<1>2. PICK s : s = remote[call[c].tool].chunks \cup {call[c].next}
  OBVIOUS
<1>3. remote \in [Tools -> RemoteFile] /\ remote[call[c].tool] \in RemoteFile
  BY <1>1 DEF CacheInv, TypeOK
<1>4. s \in SUBSET Whole
  BY <1>1, <1>2, <1>3 DEF RemoteFile
<1>5. {call[c].next} \cap disk[call[c].inode].chunks = {call[c].next}
  BY <1>1
<1>6. PICK g : g = [remote[call[c].tool] EXCEPT !.chunks = s]
  OBVIOUS
<1>7. remote' = [remote EXCEPT ![call[c].tool] = g]
  <2>1. PICK D : D = {call[c].next} \cap disk[call[c].inode].chunks
    OBVIOUS
  <2>2. s = remote[call[c].tool].chunks \cup D
    BY <1>2, <1>5, <2>1
  <2>3. remote' = [remote EXCEPT ![call[c].tool].chunks = @ \cup D]
    BY <2>1
  <2>4. [remote[call[c].tool] EXCEPT !.chunks = @ \cup D] = g
    BY <1>3, <1>6, <2>2 DEF RemoteFile
  <2>5. remote' = [remote EXCEPT ![call[c].tool] =
                     [remote[call[c].tool] EXCEPT !.chunks = @ \cup D]]
    BY <1>1, <1>3, <2>3
  <2> QED BY <2>4, <2>5
<1>8. /\ g \in RemoteFile /\ g.chunks = s /\ g.exec = remote[call[c].tool].exec
      /\ g.reported = remote[call[c].tool].reported
      /\ g.disturbed = remote[call[c].tool].disturbed
  <2>1. ASSUME NEW f \in RemoteFile
        PROVE  LET h == [f EXCEPT !.chunks = s] IN
               /\ h \in RemoteFile /\ h.chunks = s /\ h.exec = f.exec
               /\ h.reported = f.reported /\ h.disturbed = f.disturbed
    BY <1>4 DEF RemoteFile
  <2> QED BY <1>3, <1>6, <2>1
<1> QED BY <1>2, <1>7, <1>8

LEMMA FinishWrites ==
    ASSUME CacheInv, NEW c \in Callers, At(c, "finish"), FinishUpload(c), remote' # remote
    PROVE  \E g \in RemoteFile :
             /\ remote' = [remote EXCEPT ![call[c].tool] = g]
             /\ g.chunks = remote[call[c].tool].chunks /\ g.exec
             /\ g.reported => remote[call[c].tool].reported \/ call[c].alone
             /\ g.disturbed = remote[call[c].tool].disturbed
<1>1. call[c].tool \in Tools /\ call[c].alone \in BOOLEAN
  BY DEF CacheInv, LocalsFit, At, TypeOK, Call
<1>2. PICK f \in RemoteFile : f = remote[call[c].tool]
  BY <1>1 DEF CacheInv, TypeOK
<1>3. remote \in [Tools -> RemoteFile] /\ f.reported \in BOOLEAN
  BY DEF CacheInv, TypeOK, RemoteFile
<1>4. CASE remote' = [remote EXCEPT ![call[c].tool].exec = TRUE,
                                    ![call[c].tool].reported = @ \/ call[c].alone]
  <2>1. PICK g : g = [f EXCEPT !.exec = TRUE, !.reported = @ \/ call[c].alone]
    OBVIOUS
  <2>2. /\ g \in RemoteFile /\ g.chunks = f.chunks /\ g.exec
        /\ g.reported => f.reported \/ call[c].alone
        /\ g.disturbed = f.disturbed
    BY <1>1, <1>3, <2>1 DEF RemoteFile
  <2>3. remote' = [remote EXCEPT ![call[c].tool] = g]
    BY <1>1, <1>2, <1>3, <1>4, <2>1
  <2> QED BY <1>2, <2>2, <2>3
<1>5. CASE remote' = [remote EXCEPT ![call[c].tool].exec = TRUE]
  <2>1. PICK g : g = [f EXCEPT !.exec = TRUE]
    OBVIOUS
  <2>2. /\ g \in RemoteFile /\ g.chunks = f.chunks /\ g.exec /\ g.reported = f.reported
        /\ g.disturbed = f.disturbed
    BY <2>1 DEF RemoteFile
  <2>3. remote' = [remote EXCEPT ![call[c].tool] = g]
    BY <1>1, <1>2, <1>3, <1>5, <2>1
  <2> QED BY <1>2, <2>2, <2>3
<1> QED BY <1>4, <1>5 DEF FinishUpload

\* How Upload changes the call.
LEMMA UploadMoves ==
    ASSUME CacheInv, NEW c \in Callers, At(c, "upload"),
           IF call[c].next = Chunks THEN Goto(c, "finish")
           ELSE call' = [call EXCEPT ![c].next = @ + 1]
    PROVE  \E r \in Call :
             /\ Moves(c, r) /\ r.tool = call[c].tool /\ r.temp = call[c].temp
             /\ r.inode = call[c].inode /\ r.alone = call[c].alone
             /\ \/ r.pc = "finish" /\ call[c].next = Chunks
                \/ r.pc = "upload" /\ r.next = call[c].next + 1 /\ r.next \in 1..Chunks
<1>1. call[c].next \in 1..Chunks /\ "finish" \in Labels
  BY DEF CacheInv, LocalsFit, At, Labels
<1>2. CASE call[c].next = Chunks
  BY <1>1, <1>2, GotoMoves DEF CacheInv
<1>3. CASE call[c].next # Chunks
  <2>1. call[c].next < Chunks /\ call[c].next + 1 \in 1..Chunks
    BY <1>1, <1>3
  <2> QED BY <1>3, <2>1, NextMoves DEF CacheInv, At
<1> QED BY <1>2, <1>3

LEMMA UploadInv ==
    ASSUME CacheInv, NEW c \in Callers, Upload(c) PROVE CacheInv'
<1>1. At(c, "upload") /\ UNCHANGED <<local, history>> /\ call[c].temp = None
  BY QuietHoldsNothing DEF Upload, At
<1>2. CASE Problem(c) /\ UNCHANGED remote
  BY <1>1, <1>2, ProblemInv, FrameHolds
<1>3. CASE ~(Problem(c) /\ UNCHANGED remote)
  <2>1. PICK r \in Call : /\ Moves(c, r) /\ r.tool = call[c].tool /\ r.temp = call[c].temp
                          /\ r.inode = call[c].inode /\ r.pc \in {"upload", "finish"}
                          /\ r.pc = "upload" => r.next \in 1..Chunks
    BY <1>1, <1>3, UploadMoves DEF Upload
  <2>2. PICK g \in RemoteFile : remote' = [remote EXCEPT ![call[c].tool] = g]
    BY <1>1, <1>3, UploadWrites DEF Upload
  <2>3. Frame
    BY <1>1, <2>2 DEF CacheInv, TypeOK, Frame, history
  <2> QED BY <1>1, <2>1, <2>3, MovesSteps, SendStep DEF At, CacheInv
<1> QED BY <1>2, <1>3

LEMMA FinishUploadInv ==
    ASSUME CacheInv, NEW c \in Callers, FinishUpload(c) PROVE CacheInv'
<1>1. /\ At(c, "finish") /\ UNCHANGED <<local, history>> /\ call[c].temp = None
      /\ Problem(c)
  BY QuietHoldsNothing DEF FinishUpload, At, Problem
<1>2. Frame
  <2>1. CASE remote' = remote
    BY <1>1, <2>1, FrameHolds
  <2>2. CASE remote' # remote
    <3>1. PICK g \in RemoteFile : remote' = [remote EXCEPT ![call[c].tool] = g]
      BY <1>1, <2>2, FinishWrites
    <3> QED BY <1>1, <3>1 DEF CacheInv, TypeOK, Frame, history
  <2> QED BY <2>1, <2>2
<1> QED BY <1>1, <1>2, ProblemInv

LEMMA CrashInv ==
    ASSUME CacheInv, NEW c \in Callers, Crash(c) PROVE CacheInv'
<1>1. Moves(c, Idle) /\ UNCHANGED local
  BY DEF Crash, Moves
<1>2. Frame /\ (call[c].temp # None => call[c].temp \in orphans')
  <2>1. call[c].temp \in TempNames \cup {None}
    BY DEF CacheInv, TypeOK, Call
  <2>2. crashes' \in 0..MaxCrashes
    BY DEF Crash, CacheInv, TypeOK
  <2> QED BY <2>1, <2>2 DEF Crash, CacheInv, TypeOK, Frame
<1> QED BY <1>1, <1>2, IdleTyped, MovesSteps, QuietStep DEF Quiet, CacheInv

LEMMA InitInv == Init => IndInv
<1> SUFFICES ASSUME Init PROVE IndInv
  OBVIOUS
<1> USE DEF Init
<1>1. \A c \in Callers : call[c] = Idle /\ call[c].pc = "idle" /\ call[c].tool = None
                         /\ call[c].temp = None /\ call[c].inode = None /\ call[c].next = 1
  BY IdleTyped
<1>2. TypeOK
  BY IdleTyped DEF TypeOK, File, EmptyFile, Bodies, RemoteFile
<1>3. LocalsFit
  BY <1>1 DEF LocalsFit, HoldsTemp, At, Quiet
<1>4. TempIsPrivate /\ TempNamesDiffer /\ TempIsWritten /\ SentIsComplete
  BY <1>1 DEF TempIsPrivate, TempNamesDiffer, TempIsWritten, SentIsComplete, HoldsTemp
<1>5. CacheIsPinned /\ TempsAreOwned
  BY DEF CacheIsPinned, TempsAreOwned
<1>6. AloneIsAlone /\ UndisturbedIsAlone
  BY <1>1 DEF AloneIsAlone, UndisturbedIsAlone, IsUploading
<1>7. DeployedIsWhole
  BY DEF DeployedIsWhole
<1> QED BY <1>2, <1>3, <1>4, <1>5, <1>6, <1>7 DEF IndInv, CacheInv, RemoteInv

-----------------------------------------------------------------------------
(* The remote files.                                                       *)

\* A step that leaves them alone, of a call that is not uploading after it.
LEMMA AwayStep ==
    ASSUME RemoteInv, NEW c \in Callers, UNCHANGED remote, ~IsUploading(c)',
           \A d \in Callers \ {c} : call'[d] = call[d]
    PROVE  RemoteInv'
<1> USE DEF RemoteInv
<1>1. ASSUME NEW d \in Callers, IsUploading(d)'
      PROVE  d # c /\ call'[d] = call[d] /\ IsUploading(d)
  BY <1>1 DEF IsUploading
<1>2. AloneIsAlone'
  <2> SUFFICES ASSUME NEW d \in Callers, IsUploading(d)', call'[d].alone
               PROVE  /\ \A e \in Callers : e # d /\ IsUploading(e)' => call'[e].tool # call'[d].tool
                      /\ At(d, "upload")' =>
                           1..(call'[d].next - 1) \subseteq remote'[call'[d].tool].chunks
                      /\ At(d, "finish")' => remote'[call'[d].tool].chunks = Whole
    BY DEF AloneIsAlone
  <2>1. call'[d] = call[d] /\ IsUploading(d) /\ call[d].alone
    BY <1>1
  <2>2. ASSUME NEW e \in Callers, e # d, IsUploading(e)'
        PROVE  call'[e].tool # call'[d].tool
    BY <1>1, <2>1, <2>2 DEF AloneIsAlone
  <2> QED BY <2>1, <2>2 DEF AloneIsAlone, At
<1>3. UndisturbedIsAlone'
  BY <1>1 DEF UndisturbedIsAlone
<1>4. DeployedIsWhole'
  BY DEF DeployedIsWhole
<1> QED BY <1>2, <1>3, <1>4

\* The steps before an upload, and those that give it up.
LEMMA AwayActions ==
    ASSUME TypeOK, NEW c \in Callers,
           \/ BeginDeploy(c) \/ PickTool(c) \/ EnsureLocal(c) \/ OpenLocal(c) \/ Problem(c)
           \/ Crash(c)
    PROVE  ~IsUploading(c)' /\ \A d \in Callers \ {c} : call'[d] = call[d]
<1> USE DEF IsUploading
<1>1. ASSUME NEW r, Moves(c, r), r.pc \notin {"upload", "finish"}
      PROVE  ~IsUploading(c)' /\ \A d \in Callers \ {c} : call'[d] = call[d]
  BY <1>1 DEF Moves, TypeOK
<1>2. ASSUME NEW l, l \notin {"upload", "finish"}, Goto(c, l)
      PROVE  ~IsUploading(c)' /\ \A d \in Callers \ {c} : call'[d] = call[d]
  BY <1>2 DEF Goto, TypeOK, Call
<1>3. CASE Problem(c)
  <2>1. Moves(c, Skipped(c))
    BY <1>3 DEF Problem, Moves
  <2> QED BY <1>1, <2>1, SkippedTyped
<1>4. CASE BeginDeploy(c)
  <2>1. PICK missing \in SUBSET Tools : Moves(c, [Idle EXCEPT !.pc = "pick", !.todo = missing])
    BY <1>4 DEF BeginDeploy, Moves
  <2> QED BY <1>1, <2>1, PickTyped
<1>5. CASE PickTool(c)
  <2>1. CASE call' = [call EXCEPT ![c] = Idle]
    BY <1>1, <2>1, IdleTyped DEF Moves
  <2>2. ASSUME NEW t \in call[c].todo,
               call' = [call EXCEPT ![c] = [Idle EXCEPT !.pc = "stat", !.tool = t,
                                                        !.todo = call[c].todo \ {t}]]
        PROVE  ~IsUploading(c)' /\ \A d \in Callers \ {c} : call'[d] = call[d]
    <3>1. t \in Tools
      BY <2>2 DEF TypeOK, Call
    <3>2. PICK T \in SUBSET Tools : T = call[c].todo \ {t}
      BY DEF TypeOK, Call
    <3>3. PICK r : r = [Idle EXCEPT !.pc = "stat", !.tool = t, !.todo = T]
      OBVIOUS
    <3>4. Moves(c, r)
      BY <2>2, <3>2, <3>3 DEF Moves
    <3>5. r.pc = "stat"
      BY <3>1, <3>3, StatTyped
    <3> QED BY <1>1, <3>4, <3>5
  <2> QED BY <1>5, <2>1, <2>2 DEF PickTool
<1>6. CASE StatCache(c)
  BY <1>2, <1>3, <1>6 DEF StatCache
<1>7. CASE Fetch(c)
  <2>1. CASE call' = [call EXCEPT ![c].pc = "create", ![c].body = "pinned"]
    BY <2>1 DEF TypeOK, Call
  <2> QED BY <1>3, <1>7, <2>1 DEF Fetch
<1>8. CASE CreateTemp(c)
  <2>1. ASSUME NEW p, NEW i,
               call' = [call EXCEPT ![c].pc = "write", ![c].temp = p, ![c].inode = i]
        PROVE  ~IsUploading(c)' /\ \A d \in Callers \ {c} : call'[d] = call[d]
    BY <2>1 DEF TypeOK, Call
  <2> QED BY <1>3, <1>8, <2>1 DEF CreateTemp
<1>9. CASE WriteTemp(c)
  <2>1. CASE call' = [call EXCEPT ![c].next = @ + 1]
    BY <1>9, <2>1 DEF WriteTemp, At, TypeOK, Call
  <2> QED BY <1>2, <1>9, <2>1 DEF WriteTemp
<1>10. CASE ChmodTemp(c)
  BY <1>2, <1>10 DEF ChmodTemp
<1>11. CASE Rename(c)
  <2>1. CASE call' = [call EXCEPT ![c].pc = "remove", ![c].renamed = TRUE]
    BY <2>1 DEF TypeOK, Call
  <2> QED BY <1>2, <1>11, <2>1 DEF Rename
<1>12. CASE RemoveTemp(c)
  <2>1. CASE call' = [call EXCEPT ![c] = [Idle EXCEPT !.pc = "open", !.todo = call[c].todo,
                                                      !.tool = call[c].tool]]
    BY <2>1 DEF TypeOK, Idle
  <2> QED BY <1>3, <1>12, <2>1 DEF RemoveTemp
<1>13. CASE OpenLocal(c)
  <2>1. CASE call' = [call EXCEPT ![c].pc = "send", ![c].inode = dir[call[c].tool]]
    BY <2>1 DEF TypeOK, Call
  <2> QED BY <1>3, <1>13, <2>1 DEF OpenLocal
<1>14. CASE Crash(c)
  BY <1>1, <1>14, IdleTyped DEF Crash, Moves
<1> QED BY <1>3, <1>4, <1>5, <1>6, <1>7, <1>8, <1>9, <1>10, <1>11, <1>12, <1>13, <1>14
        DEF EnsureLocal

LEMMA AwayRemote ==
    ASSUME NEW c \in Callers,
           BeginDeploy(c) \/ PickTool(c) \/ EnsureLocal(c) \/ OpenLocal(c) \/ Crash(c)
    PROVE  UNCHANGED remote
BY DEF BeginDeploy, PickTool, EnsureLocal, OpenLocal, Crash, StatCache, Fetch, CreateTemp,
       WriteTemp, ChmodTemp, Rename, RemoveTemp

\* The file is empty, and whoever was writing it is not alone.
LEMMA TruncateInv ==
    ASSUME CacheInv, RemoteInv, NEW c \in Callers, NEW r, call[c].tool \in Tools,
           ~IsUploading(c), Truncate(c, remote[call[c].tool].exec), Overlap(c, r),
           \/ r.pc \notin {"upload", "finish"}
           \/ /\ r.pc = "upload" /\ r.tool = call[c].tool /\ r.next = 1
              /\ r.alone = (Others(c) = {})
    PROVE  RemoteInv'
<1>0. TypeOK
  BY DEF CacheInv
<1> USE DEF RemoteInv
<1>1. /\ remote'[call[c].tool].chunks = {} /\ ~remote'[call[c].tool].reported
      /\ remote'[call[c].tool].exec = remote[call[c].tool].exec
      /\ ~remote'[call[c].tool].disturbed => ~remote[call[c].tool].exec /\ Others(c) = {}
      /\ \A t \in Tools \ {call[c].tool} : remote'[t] = remote[t]
  BY <1>0 DEF Truncate, TypeOK
<1>2. call'[c] = r
  BY DEF Overlap
<1>3. ASSUME NEW d \in Callers \ {c}
      PROVE  /\ call'[d].pc = call[d].pc /\ call'[d].tool = call[d].tool
             /\ call'[d].next = call[d].next
             /\ d \in Others(c) => ~call'[d].alone
             /\ d \notin Others(c) => call'[d] = call[d]
  <2>1. ASSUME NEW q \in Call
        PROVE  LET s == [q EXCEPT !.alone = FALSE] IN
               s.pc = q.pc /\ s.tool = q.tool /\ s.next = q.next /\ ~s.alone
    BY DEF Call
  <2>2. call[d] \in Call
    BY <1>0 DEF TypeOK
  <2> QED BY <2>1, <2>2 DEF Overlap
<1>4. ASSUME NEW d \in Callers \ {c}, IsUploading(d)'
      PROVE  /\ IsUploading(d) /\ call[d].tool \in Tools
             /\ call[d].tool = call[c].tool => d \in Others(c)
  BY <1>3, <1>4 DEF Others, Uploading, IsUploading, CacheInv, LocalsFit
<1>5. IsUploading(c)' => /\ r.pc = "upload" /\ r.tool = call[c].tool /\ r.next = 1
                         /\ r.alone => Others(c) = {}
                         /\ Others(c) = {} => r.alone
  BY <1>2 DEF IsUploading
<1>6. AloneIsAlone'
  <2>1. ASSUME IsUploading(c)', call'[c].alone
        PROVE  /\ \A e \in Callers : e # c /\ IsUploading(e)' => call'[e].tool # call'[c].tool
               /\ At(c, "upload")' =>
                    1..(call'[c].next - 1) \subseteq remote'[call'[c].tool].chunks
               /\ At(c, "finish")' => remote'[call'[c].tool].chunks = Whole
    <3>1. Others(c) = {} /\ call'[c].tool = call[c].tool /\ call'[c].next = 1 /\ call'[c].pc = "upload"
      BY <1>2, <1>5, <2>1
    <3>2. ASSUME NEW e \in Callers, e # c, IsUploading(e)' PROVE call'[e].tool # call'[c].tool
      BY <1>3, <1>4, <3>1, <3>2
    <3>3. 1..(call'[c].next - 1) = {}
      BY <3>1
    <3> QED BY <3>1, <3>2, <3>3 DEF At
  <2>2. ASSUME NEW d \in Callers, d # c, IsUploading(d)', call'[d].alone
        PROVE  /\ \A e \in Callers : e # d /\ IsUploading(e)' => call'[e].tool # call'[d].tool
               /\ At(d, "upload")' =>
                    1..(call'[d].next - 1) \subseteq remote'[call'[d].tool].chunks
               /\ At(d, "finish")' => remote'[call'[d].tool].chunks = Whole
    <3>1. /\ d \notin Others(c) /\ call'[d] = call[d] /\ IsUploading(d) /\ call[d].alone
          /\ call[d].tool \in Tools /\ call[d].tool # call[c].tool
      BY <1>3, <1>4, <2>2
    <3>2. remote'[call[d].tool] = remote[call[d].tool]
      BY <1>1, <3>1
    <3>3. ASSUME NEW e \in Callers, e # d, IsUploading(e)' PROVE call'[e].tool # call'[d].tool
      <4>1. CASE e = c
        BY <1>2, <1>5, <3>1, <3>3, <4>1
      <4>2. CASE e # c
        BY <1>3, <1>4, <3>1, <3>3, <4>2 DEF AloneIsAlone
      <4> QED BY <4>1, <4>2
    <3> QED BY <3>1, <3>2, <3>3 DEF AloneIsAlone, At
  <2> QED BY <2>1, <2>2 DEF AloneIsAlone
<1>7. UndisturbedIsAlone'
  <2>1. ASSUME IsUploading(c)', ~remote'[call'[c].tool].disturbed
        PROVE  call'[c].alone /\ ~remote'[call'[c].tool].exec
    BY <1>1, <1>2, <1>5, <2>1
  <2>2. ASSUME NEW d \in Callers, d # c, IsUploading(d)', ~remote'[call'[d].tool].disturbed
        PROVE  call'[d].alone /\ ~remote'[call'[d].tool].exec
    <3>1. IsUploading(d) /\ call[d].tool \in Tools /\ call'[d].tool = call[d].tool
      BY <1>3, <1>4, <2>2
    <3>2. call[d].tool # call[c].tool
      BY <1>1, <1>4, <2>2, <3>1
    <3>3. remote'[call[d].tool] = remote[call[d].tool]
      BY <1>1, <3>1, <3>2
    <3>4. d \notin Others(c)
      BY <3>2 DEF Others, Uploading
    <3> QED BY <1>3, <2>2, <3>1, <3>3, <3>4 DEF UndisturbedIsAlone
  <2> QED BY <2>1, <2>2 DEF UndisturbedIsAlone
<1>8. DeployedIsWhole'
  BY <1>1 DEF DeployedIsWhole
<1> QED BY <1>6, <1>7, <1>8

LEMMA CreateRemoteRemote ==
    ASSUME CacheInv, RemoteInv, NEW c \in Callers, CreateRemote(c) PROVE RemoteInv'
<1>1. TypeOK /\ call[c].tool \in Tools /\ call[c].next = 1 /\ ~IsUploading(c) /\ call[c] \in Call
  BY DEF CacheInv, LocalsFit, CreateRemote, At, IsUploading, TypeOK
<1>2. CASE Problem(c) /\ UNCHANGED remote
  BY <1>1, <1>2, AwayActions, AwayStep
<1>3. CASE /\ Truncate(c, remote[call[c].tool].exec)
           /\ Overlap(c, [call[c] EXCEPT !.pc = "upload", !.alone = Others(c) = {}])
  <2>1. PICK r : r = [call[c] EXCEPT !.pc = "upload", !.alone = Others(c) = {}]
    OBVIOUS
  <2>2. /\ r.pc = "upload" /\ r.tool = call[c].tool /\ r.next = 1 /\ r.alone = (Others(c) = {})
    <3>1. ASSUME NEW q \in Call
          PROVE  LET s == [q EXCEPT !.pc = "upload", !.alone = Others(c) = {}] IN
                 /\ s.pc = "upload" /\ s.tool = q.tool /\ s.next = q.next
                 /\ s.alone = (Others(c) = {})
      BY DEF Call
    <3> QED BY <1>1, <2>1, <3>1
  <2> QED BY <1>1, <1>3, <2>1, <2>2, TruncateInv
<1>4. CASE Truncate(c, remote[call[c].tool].exec) /\ Overlap(c, Skipped(c))
  BY <1>1, <1>4, SkippedTyped, TruncateInv
<1> QED BY <1>2, <1>3, <1>4 DEF CreateRemote

\* A chunk goes to the file; a call that is alone has written all up to it.
LEMMA UploadRemote ==
    ASSUME CacheInv, RemoteInv, NEW c \in Callers, Upload(c) PROVE RemoteInv'
<1>1. TypeOK /\ call[c].tool \in Tools /\ At(c, "upload") /\ IsUploading(c)
      /\ call[c].next \in 1..Chunks
  BY DEF CacheInv, LocalsFit, Upload, At, IsUploading
<1>2. CASE Problem(c) /\ UNCHANGED remote
  BY <1>1, <1>2, AwayActions, AwayStep
<1>3. CASE ~(Problem(c) /\ UNCHANGED remote)
  <2> USE DEF RemoteInv
  <2>1. PICK r \in Call : /\ Moves(c, r) /\ r.tool = call[c].tool /\ r.alone = call[c].alone
                          /\ \/ r.pc = "finish" /\ call[c].next = Chunks
                             \/ r.pc = "upload" /\ r.next = call[c].next + 1
    BY <1>1, <1>3, UploadMoves DEF Upload
  <2>2. PICK g \in RemoteFile :
             /\ remote' = [remote EXCEPT ![call[c].tool] = g]
             /\ g.chunks = remote[call[c].tool].chunks \cup {call[c].next}
             /\ g.exec = remote[call[c].tool].exec /\ g.reported = remote[call[c].tool].reported
             /\ g.disturbed = remote[call[c].tool].disturbed
    BY <1>1, <1>3, UploadWrites DEF Upload
  <2>3. /\ remote'[call[c].tool] = g
        /\ \A t \in Tools \ {call[c].tool} : remote'[t] = remote[t]
    BY <1>1, <2>2 DEF TypeOK
  <2>4. call'[c] = r /\ \A d \in Callers \ {c} : call'[d] = call[d]
    BY <1>1, <2>1, MovesSteps DEF Steps
  <2>5. IsUploading(c)' /\ \A d \in Callers : IsUploading(d)' => IsUploading(d)
    BY <1>1, <2>1, <2>4 DEF IsUploading
  <2>6. \A d \in Callers : call'[d].tool = call[d].tool /\ call'[d].alone = call[d].alone
    BY <2>1, <2>4
  <2>7. \A d \in Callers : IsUploading(d) => call[d].tool \in Tools
    BY DEF CacheInv, LocalsFit, IsUploading
  <2>8. AloneIsAlone'
    <3>1. ASSUME call[c].alone
          PROVE  /\ At(c, "upload")' => 1..(call'[c].next - 1) \subseteq remote'[call'[c].tool].chunks
                 /\ At(c, "finish")' => remote'[call'[c].tool].chunks = Whole
      <4>1. 1..(call[c].next - 1) \subseteq remote[call[c].tool].chunks
        BY <1>1, <3>1 DEF AloneIsAlone
      <4>2. 1..call[c].next \subseteq g.chunks
        <5>1. 1..call[c].next = 1..(call[c].next - 1) \cup {call[c].next}
          BY <1>1
        <5> QED BY <2>2, <4>1, <5>1
      <4>3. CASE r.pc = "upload"
        <5>1. r.next = call[c].next + 1
          BY <2>1, <4>3
        <5>2. 1..(r.next - 1) = 1..call[c].next
          BY <1>1, <5>1
        <5> QED BY <2>1, <2>3, <2>4, <4>2, <4>3, <5>2 DEF At
      <4>4. CASE r.pc = "finish"
        <5>1. Whole \subseteq g.chunks /\ g.chunks \subseteq Whole
          BY <2>1, <2>2, <4>2, <4>4 DEF Whole, RemoteFile
        <5> QED BY <2>1, <2>3, <2>4, <4>4, <5>1 DEF At
      <4> QED BY <2>1, <4>3, <4>4
    <3>2. ASSUME NEW d \in Callers, d # c, IsUploading(d)', call'[d].alone
          PROVE  /\ At(d, "upload")' => 1..(call'[d].next - 1) \subseteq remote'[call'[d].tool].chunks
                 /\ At(d, "finish")' => remote'[call'[d].tool].chunks = Whole
      <4>1. call'[d] = call[d] /\ IsUploading(d) /\ call[d].alone /\ call[d].tool # call[c].tool
        BY <1>1, <2>4, <2>5, <3>2 DEF AloneIsAlone
      <4>2. remote'[call[d].tool] = remote[call[d].tool]
        BY <2>3, <2>7, <4>1
      <4> QED BY <4>1, <4>2 DEF AloneIsAlone, At
    <3>3. \A d, e \in Callers : IsUploading(d)' /\ call'[d].alone /\ e # d /\ IsUploading(e)'
                                  => call'[e].tool # call'[d].tool
      BY <2>5, <2>6 DEF AloneIsAlone
    <3>4. \A d \in Callers : IsUploading(d)' /\ call'[d].alone => d # c \/ call[c].alone
      BY <2>6
    <3> QED BY <3>1, <3>2, <3>3, <3>4 DEF AloneIsAlone
  <2>9. \A t \in Tools : /\ remote'[t].exec = remote[t].exec
                         /\ remote'[t].reported = remote[t].reported
                         /\ remote'[t].disturbed = remote[t].disturbed
                         /\ remote[t].chunks = Whole => remote'[t].chunks = Whole
    <3>1. g.chunks \subseteq Whole
      BY DEF RemoteFile
    <3> QED BY <2>2, <2>3, <3>1
  <2>10. UndisturbedIsAlone'
    BY <2>5, <2>6, <2>7, <2>9 DEF UndisturbedIsAlone
  <2>11. DeployedIsWhole'
    BY <2>9 DEF DeployedIsWhole
  <2> QED BY <2>8, <2>10, <2>11
<1> QED BY <1>2, <1>3

\* The file becomes executable, and whole if the call was alone.
LEMMA FinishUploadRemote ==
    ASSUME CacheInv, RemoteInv, NEW c \in Callers, FinishUpload(c) PROVE RemoteInv'
<1>1. TypeOK /\ call[c].tool \in Tools /\ At(c, "finish") /\ IsUploading(c) /\ Problem(c)
  BY DEF CacheInv, LocalsFit, FinishUpload, At, IsUploading, Problem
<1>2. ~IsUploading(c)' /\ \A d \in Callers \ {c} : call'[d] = call[d]
  BY <1>1, AwayActions
<1>3. CASE remote' = remote
  BY <1>2, <1>3, AwayStep
<1>4. CASE remote' # remote
  <2> USE DEF RemoteInv
  <2>1. PICK g \in RemoteFile :
             /\ remote' = [remote EXCEPT ![call[c].tool] = g]
             /\ g.chunks = remote[call[c].tool].chunks /\ g.exec
             /\ g.reported => remote[call[c].tool].reported \/ call[c].alone
             /\ g.disturbed = remote[call[c].tool].disturbed
    BY <1>1, <1>4, FinishWrites
  <2>2. /\ remote'[call[c].tool] = g
        /\ \A t \in Tools \ {call[c].tool} : remote'[t] = remote[t]
    BY <1>1, <2>1 DEF TypeOK
  <2>3. ASSUME NEW d \in Callers, IsUploading(d)'
        PROVE  d # c /\ call'[d] = call[d] /\ IsUploading(d) /\ call[d].tool \in Tools
    BY <1>2, <2>3 DEF IsUploading, CacheInv, LocalsFit
  <2>4. \A t \in Tools : remote'[t].chunks = remote[t].chunks
                         /\ remote'[t].disturbed = remote[t].disturbed
    BY <2>1, <2>2
  <2>5. AloneIsAlone'
    <3>1. \A d, e \in Callers : IsUploading(d)' /\ call'[d].alone /\ e # d /\ IsUploading(e)'
                                  => call'[e].tool # call'[d].tool
      BY <2>3 DEF AloneIsAlone
    <3>2. ASSUME NEW d \in Callers, IsUploading(d)', call'[d].alone
          PROVE  /\ At(d, "upload")' => 1..(call'[d].next - 1) \subseteq remote'[call'[d].tool].chunks
                 /\ At(d, "finish")' => remote'[call'[d].tool].chunks = Whole
      <4>1. call'[d] = call[d] /\ IsUploading(d) /\ call[d].alone /\ call[d].tool \in Tools
        BY <2>3, <3>2
      <4>2. remote'[call[d].tool].chunks = remote[call[d].tool].chunks
        BY <2>4, <4>1
      <4> QED BY <4>1, <4>2 DEF AloneIsAlone, At
    <3> QED BY <3>1, <3>2 DEF AloneIsAlone
  <2>6. UndisturbedIsAlone'
    <3> SUFFICES ASSUME NEW d \in Callers, IsUploading(d)', ~remote'[call'[d].tool].disturbed
                 PROVE  call'[d].alone /\ ~remote'[call'[d].tool].exec
      BY DEF UndisturbedIsAlone
    <3>1. d # c /\ call'[d] = call[d] /\ IsUploading(d) /\ call[d].tool \in Tools
      BY <2>3
    <3>2. call[d].alone /\ ~remote[call[d].tool].exec
      BY <2>4, <3>1 DEF UndisturbedIsAlone
    <3>3. call[d].tool # call[c].tool
      BY <1>1, <3>1, <3>2 DEF AloneIsAlone
    <3> QED BY <2>2, <3>1, <3>2, <3>3
  <2>7. DeployedIsWhole'
    <3>1. call[c].alone => g.chunks = Whole
      BY <1>1, <2>1 DEF AloneIsAlone
    <3>2. ~g.disturbed => call[c].alone
      BY <1>1, <2>1 DEF UndisturbedIsAlone
    <3>3. remote[call[c].tool].reported => g.chunks = Whole
      BY <1>1, <2>1 DEF DeployedIsWhole
    <3> QED BY <2>1, <2>2, <3>1, <3>2, <3>3 DEF DeployedIsWhole
  <2> QED BY <2>5, <2>6, <2>7
<1> QED BY <1>3, <1>4

-----------------------------------------------------------------------------
(* The theorems.                                                           *)

LEMMA StepInv == IndInv /\ [Next]_vars => IndInv'
<1> SUFFICES ASSUME IndInv, [Next]_vars PROVE IndInv'
  OBVIOUS
<1>1. CacheInv /\ RemoteInv /\ TypeOK
  BY DEF IndInv, CacheInv
<1>2. CASE UNCHANGED vars
  BY <1>2 DEF IndInv, CacheInv, RemoteInv, TypeOK, LocalsFit, TempIsPrivate, TempNamesDiffer,
              TempIsWritten, SentIsComplete, CacheIsPinned, TempsAreOwned, AloneIsAlone,
              UndisturbedIsAlone, DeployedIsWhole, HoldsTemp, IsUploading, At, vars, Complete
<1>3. ASSUME NEW c \in Callers, DeployTools(c) \/ Crash(c) PROVE IndInv'
  <2>1. CASE BeginDeploy(c)
    BY <1>1, <2>1, BeginDeployInv, AwayActions, AwayRemote, AwayStep DEF IndInv
  <2>2. CASE PickTool(c)
    BY <1>1, <2>2, PickToolInv, AwayActions, AwayRemote, AwayStep DEF IndInv
  <2>3. CASE EnsureLocal(c)
    <3>1. CacheInv'
      BY <1>1, <2>3, StatCacheInv, FetchInv, CreateTempInv, WriteTempInv, ChmodTempInv,
         RenameInv, RemoveTempInv DEF EnsureLocal
    <3> QED BY <1>1, <2>3, <3>1, AwayActions, AwayRemote, AwayStep DEF IndInv
  <2>4. CASE OpenLocal(c)
    BY <1>1, <2>4, OpenLocalInv, AwayActions, AwayRemote, AwayStep DEF IndInv
  <2>5. CASE CreateRemote(c)
    BY <1>1, <2>5, CreateRemoteInv, CreateRemoteRemote DEF IndInv
  <2>6. CASE Upload(c)
    BY <1>1, <2>6, UploadInv, UploadRemote DEF IndInv
  <2>7. CASE FinishUpload(c)
    BY <1>1, <2>7, FinishUploadInv, FinishUploadRemote DEF IndInv
  <2>8. CASE Crash(c)
    BY <1>1, <2>8, CrashInv, AwayActions, AwayRemote, AwayStep DEF IndInv
  <2> QED BY <1>3, <2>1, <2>2, <2>3, <2>4, <2>5, <2>6, <2>7, <2>8 DEF DeployTools, UploadTool
<1> QED BY <1>2, <1>3 DEF Next

\* The inductive invariant of DeployTools holds.
THEOREM DeployInvariant == Spec => []IndInv
BY InitInv, StepInv, PTL DEF Spec

\* Every variable keeps its type.
THEOREM CacheTyped == Spec => []TypeOK
<1>1. IndInv => TypeOK
  BY DEF IndInv, CacheInv
<1> QED BY <1>1, DeployInvariant, PTL

\* EnsureLocal: a name in the cache holds the pinned tool, whole and
\* executable, whoever else writes to the cache and whoever dies.
THEOREM PinnedCache == Spec => []CacheIsPinned
<1>1. IndInv => CacheIsPinned
  BY DEF IndInv, CacheInv
<1> QED BY <1>1, DeployInvariant, PTL

\* EnsureLocal's deferred os.Remove: a temporary file that no running call
\* will remove is one that a dead process left.
THEOREM OwnedTemps == Spec => []TempsAreOwned
<1>1. IndInv => TempsAreOwned
  BY DEF IndInv, CacheInv
<1> QED BY <1>1, DeployInvariant, PTL

\* uploadTool: what a call reports as deployed is whole, and a broken upload
\* leaves nothing executable, as long as uploads of one tool do not overlap.
THEOREM WholeDeploys == Spec => []DeployedIsWhole
<1>1. IndInv => DeployedIsWhole
  BY DEF IndInv, RemoteInv
<1> QED BY <1>1, DeployInvariant, PTL
=============================================================================
