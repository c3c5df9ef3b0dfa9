--------------------------- MODULE DownloadProofs ---------------------------
(***************************************************************************)
(* Theorems about Download, for every number of calls, files, names and    *)
(* chunks.                                                                 *)
(*                                                                         *)
(* A call works on by the name it found free and removes by that name, so  *)
(* what it may do to others' files depends on who else is at work under    *)
(* the name: NamesInv says whose inode a name may hold, RivalsInv what a   *)
(* call that never shared its name may rely on.                            *)
(***************************************************************************)
EXTENDS Download, TLAPS

Holding == {"copy", "close", "remove", "done"}

\* Whether a call has a file yet, and how far its copy is.
Placed(q) ==
    /\ q.pc \in {"stat", "choose", "open", "create"} => q.inode = Nothing /\ q.next = 1
    /\ q.pc \in Holding => q.inode \in Files
    /\ q.pc = "copy" => q.next <= PieceCount
    /\ q.pc \in {"close", "done"} => q.next = PieceCount + 1

CallsInv == Parameters /\ DownloadTypeOK /\ \A c \in Downloaders : Placed(caller[c])

IsOld(i) == data[i] = All(Old)

\* A file has one name, and a call's file never another than the call's.
OneName == \A p, q \in Names : names[p] = names[q] /\ names[p] # Nothing => p = q
OwnName == \A c \in Downloaders, p \in Names :
    caller[c].inode # Nothing /\ names[p] = caller[c].inode => p = caller[c].name

\* A name that a call is at work under holds no old file, and no call's file is
\* one.
NotOld == \A c \in Downloaders :
    /\ caller[c].pc \in Active /\ names[caller[c].name] # Nothing => ~IsOld(names[caller[c].name])
    /\ caller[c].inode # Nothing => ~IsOld(caller[c].inode)

NamesInv == OneName /\ OwnName /\ NotOld /\ FailedLeavesNothing

\* A call that never shared its name has no rival, and keeps its file in place
\* and in one hand.
NoRival == \A c, d \in Downloaders :
    caller[c].pc \in Active \cup {"done"} /\ ~caller[c].shared /\ d # c =>
        caller[d].name # caller[c].name \/ caller[d].pc \notin Active
InPlace == \A c \in Downloaders :
    caller[c].pc \in Holding /\ ~caller[c].shared => names[caller[c].name] = caller[c].inode
OwnData == \A c \in Downloaders, k \in Pieces :
    caller[c].pc \in {"copy", "close", "done"} /\ ~caller[c].shared /\ k < caller[c].next =>
        data[caller[c].inode][k] = c

RivalsInv == NoRival /\ InPlace /\ OwnData

IndInv == CallsInv /\ NamesInv /\ RivalsInv

-----------------------------------------------------------------------------
(* What a step of one call changes                                         *)

Moved(c, r) == caller' = [caller EXCEPT ![c] = r]

LEMMA BlankIsNotOld ==
    ASSUME Parameters
    PROVE  Blank # All(Old)
<1>1. 1 \in Pieces
  BY DEF Parameters, Pieces
<1>2. Blank[1] = Nothing /\ All(Old)[1] = Old
  BY <1>1 DEF Blank, All
<1> QED
  BY <1>2 DEF Parameters

\* A call's record, with another label.
LEMMA RelabelType ==
    ASSUME NEW q \in Caller, NEW l \in Stages
    PROVE  LET r == [q EXCEPT !.pc = l]
           IN  /\ r \in Caller /\ r.pc = l /\ r.name = q.name /\ r.inode = q.inode
               /\ r.next = q.next /\ r.shared = q.shared
BY DEF Caller

LEMMA GotoStep ==
    ASSUME CallsInv, NEW c \in Downloaders, NEW l \in Stages, CallGoes(c, l)
    PROVE  \E r \in Caller :
             /\ Moved(c, r) /\ r.pc = l /\ r.name = caller[c].name /\ r.inode = caller[c].inode
             /\ r.next = caller[c].next /\ r.shared = caller[c].shared
<1> DEFINE r == [caller[c] EXCEPT !.pc = l]
<1>1. caller[c] \in Caller
  BY DEF CallsInv, DownloadTypeOK
<1>2. /\ r \in Caller /\ r.pc = l /\ r.name = caller[c].name /\ r.inode = caller[c].inode
      /\ r.next = caller[c].next /\ r.shared = caller[c].shared
  BY <1>1, RelabelType
<1>3. Moved(c, r)
  BY DEF CallGoes, Moved
<1> QED
  BY <1>2, <1>3

LEMMA CallsStep ==
    ASSUME CallsInv, NEW c \in Downloaders, NEW r \in Caller, Placed(r), Moved(c, r)
    PROVE  /\ caller' \in [Downloaders -> Caller] /\ \A d \in Downloaders : Placed(caller'[d])
           /\ \A d \in Downloaders : caller'[d] = IF d = c THEN r ELSE caller[d]
<1>1. caller \in [Downloaders -> Caller] /\ \A d \in Downloaders : Placed(caller[d])
  BY DEF CallsInv, DownloadTypeOK
<1>2. caller' \in [Downloaders -> Caller]
      /\ \A d \in Downloaders : caller'[d] = IF d = c THEN r ELSE caller[d]
  BY <1>1 DEF Moved
<1>3. ASSUME NEW d \in Downloaders PROVE Placed(caller'[d])
  BY <1>1, <1>2
<1> QED
  BY <1>2, <1>3

\* A step that touches no file and takes up no name.
LEMMA QuietStep ==
    ASSUME IndInv, NEW c \in Downloaders, NEW r \in Caller, Placed(r), Moved(c, r),
           UNCHANGED <<names, data>>,
           r.inode = caller[c].inode, r.shared = caller[c].shared, r.next = caller[c].next,
           r.inode # Nothing => r.name = caller[c].name,
           r.pc \in Active => caller[c].pc \in Active /\ r.name = caller[c].name,
           r.pc \in Holding => caller[c].pc \in Holding,
           r.pc \in {"copy", "close", "done"} => caller[c].pc \in {"copy", "close", "done"},
           r.pc = "done" => caller[c].pc = "close",
           r.pc = "failed" => r.inode = Nothing
    PROVE  IndInv'
<1>1. CallsInv /\ NamesInv /\ RivalsInv
  BY DEF IndInv
<1>2. /\ caller' \in [Downloaders -> Caller] /\ \A d \in Downloaders : Placed(caller'[d])
      /\ \A d \in Downloaders : caller'[d] = IF d = c THEN r ELSE caller[d]
  BY <1>1, CallsStep
<1>3. CallsInv'
  BY <1>1, <1>2 DEF CallsInv, DownloadTypeOK, Parameters
<1>4. names' = names /\ data' = data
  OBVIOUS
<1>5. r.pc = "done" => r.name = caller[c].name
  <2>1. r.pc = "done" => r.inode \in Files
    BY DEF Placed, Holding
  <2> QED
    BY <1>1, <2>1 DEF CallsInv, Parameters
<1>6. NamesInv'
  <2>1. OneName'
    BY <1>1, <1>4 DEF NamesInv, OneName
  <2>2. OwnName'
    BY <1>1, <1>2, <1>4 DEF NamesInv, OwnName
  <2>3. NotOld'
    BY <1>1, <1>2, <1>4 DEF NamesInv, NotOld, IsOld
  <2>4. FailedLeavesNothing'
    BY <1>1, <1>2, <1>4 DEF NamesInv, FailedLeavesNothing, CallAt
  <2> QED
    BY <2>1, <2>2, <2>3, <2>4 DEF NamesInv
<1>7. RivalsInv'
  <2>1. NoRival'
    BY <1>1, <1>2, <1>5 DEF RivalsInv, NoRival, Active
  <2>2. InPlace'
    <3>1. r.pc \in Holding => r.name = caller[c].name
      BY <1>1, <1>5 DEF Holding, Active
    <3> QED
      BY <1>1, <1>2, <1>4, <3>1 DEF RivalsInv, InPlace
  <2>3. OwnData'
    BY <1>1, <1>2, <1>4 DEF RivalsInv, OwnData
  <2> QED
    BY <2>1, <2>2, <2>3 DEF RivalsInv
<1> QED
  BY <1>3, <1>6, <1>7 DEF IndInv

\* A call that goes to another label without a file to lose.
LEMMA GotoKeeps ==
    ASSUME IndInv, NEW c \in Downloaders, NEW l \in Stages, CallGoes(c, l), UNCHANGED <<names, data>>,
           \/ /\ caller[c].pc \in {"stat", "choose"} /\ l \in {"choose", "failed", "dead"}
           \/ /\ caller[c].pc = "open" /\ l \in {"create", "failed", "dead"}
           \/ /\ caller[c].pc = "create" /\ l \in {"failed", "dead"}
           \/ /\ caller[c].pc = "copy" /\ l \in {"remove", "dead"}
           \/ /\ caller[c].pc = "close" /\ l \in {"done", "remove", "dead"}
           \/ /\ caller[c].pc = "remove" /\ l = "dead"
    PROVE  IndInv'
<1>1. CallsInv /\ Placed(caller[c])
  BY DEF IndInv, CallsInv
<1>2. PICK r \in Caller :
             /\ Moved(c, r) /\ r.pc = l /\ r.name = caller[c].name /\ r.inode = caller[c].inode
             /\ r.next = caller[c].next /\ r.shared = caller[c].shared
  BY <1>1, GotoStep
<1>3. Placed(r)
  BY <1>1, <1>2 DEF Placed, Holding
<1>4. /\ r.pc \in Active => caller[c].pc \in Active
      /\ r.pc \in Holding => caller[c].pc \in Holding
      /\ r.pc \in {"copy", "close", "done"} => caller[c].pc \in {"copy", "close", "done"}
      /\ r.pc = "done" => caller[c].pc = "close"
  BY <1>2 DEF Active, Holding
<1>5. r.pc = "failed" => r.inode = Nothing
  BY <1>1, <1>2 DEF Placed
<1> QED
  BY <1>2, <1>3, <1>4, <1>5, QuietStep

-----------------------------------------------------------------------------
(* Every action keeps the invariant                                        *)

LEMMA StartFacts ==
    ASSUME IndInv, NEW c \in Downloaders
    PROVE  /\ CallsInv /\ NamesInv /\ RivalsInv /\ Parameters
           /\ caller[c] \in Caller /\ Placed(caller[c]) /\ caller[c].name \in Names
BY DEF IndInv, CallsInv, DownloadTypeOK, Caller

\* A call takes a free name: whoever is at work under it is a rival from now on.
LEMMA ChooseKeeps ==
    ASSUME IndInv, NEW c \in Downloaders, CallAt(c, "choose"), names[caller[c].name] = Nothing, Choose(c),
           UNCHANGED <<names, data>>
    PROVE  IndInv'
<1> DEFINE p == caller[c].name
<1>1. CallsInv /\ NamesInv /\ RivalsInv /\ Parameters /\ caller[c].inode = Nothing
  BY StartFacts DEF CallAt, Placed
<1>2. caller \in [Downloaders -> Caller]
  BY <1>1 DEF CallsInv, DownloadTypeOK
<1>3. PICK r : r = [caller[c] EXCEPT !.pc = "open", !.shared = Rivals(p) # {}]
  OBVIOUS
<1>4. /\ r \in Caller /\ r.pc = "open" /\ r.name = p /\ r.inode = Nothing /\ r.next = caller[c].next
      /\ r.shared = (Rivals(p) # {})
  <2>1. ASSUME NEW q \in Caller, NEW b \in BOOLEAN
        PROVE  LET s == [q EXCEPT !.pc = "open", !.shared = b]
               IN  /\ s \in Caller /\ s.pc = "open" /\ s.name = q.name /\ s.inode = q.inode
                   /\ s.next = q.next /\ s.shared = b
    BY DEF Caller, Stages
  <2>2. PICK b \in BOOLEAN : b = (Rivals(p) # {})
    OBVIOUS
  <2>3. r = [caller[c] EXCEPT !.pc = "open", !.shared = b] /\ caller[c] \in Caller
    BY <1>2, <1>3, <2>2
  <2>4. /\ r \in Caller /\ r.pc = "open" /\ r.name = p /\ r.inode = caller[c].inode
        /\ r.next = caller[c].next /\ r.shared = b
    BY <2>1, <2>3
  <2> QED
    BY <1>1, <2>2, <2>4
<1>5. ASSUME NEW d \in Downloaders, d # c
      PROVE  /\ caller'[d] \in Caller
             /\ caller'[d].pc = caller[d].pc /\ caller'[d].name = caller[d].name
             /\ caller'[d].inode = caller[d].inode /\ caller'[d].next = caller[d].next
             /\ ~caller'[d].shared => ~caller[d].shared /\ d \notin Rivals(p)
  <2>1. ASSUME NEW q \in Caller
        PROVE  LET s == [q EXCEPT !.shared = TRUE]
               IN  /\ s \in Caller /\ s.pc = q.pc /\ s.name = q.name /\ s.inode = q.inode
                   /\ s.next = q.next /\ s.shared
    BY DEF Caller
  <2>2. caller'[d] = IF d \in Rivals(p) THEN [caller[d] EXCEPT !.shared = TRUE] ELSE caller[d]
    BY <1>5 DEF Choose
  <2>3. CASE d \in Rivals(p)
    BY <1>2, <2>1, <2>2, <2>3
  <2>4. CASE d \notin Rivals(p)
    BY <1>2, <2>2, <2>4
  <2> QED
    BY <2>3, <2>4
<1>6. caller'[c] = r
  BY <1>3 DEF Choose
<1>7. CallsInv'
  <2>1. \A d \in Downloaders : caller'[d] \in Caller
    BY <1>4, <1>5, <1>6
  <2>2. caller' \in [Downloaders -> Caller]
    BY <2>1 DEF Choose
  <2>3. \A d \in Downloaders : Placed(caller'[d])
    <3>1. Placed(caller'[c])
      BY <1>1, <1>4, <1>6 DEF CallsInv, Placed, Holding, CallAt
    <3>2. ASSUME NEW d \in Downloaders, d # c PROVE Placed(caller'[d])
      <4>1. Placed(caller[d])
        BY <1>1 DEF CallsInv
      <4> QED
        BY <1>5, <3>2, <4>1 DEF Placed
    <3> QED
      BY <3>1, <3>2
  <2> QED
    BY <1>1, <2>2, <2>3 DEF CallsInv, DownloadTypeOK, Parameters
<1>8. names' = names /\ data' = data
  OBVIOUS
<1>9. NamesInv'
  <2>1. OneName'
    BY <1>1, <1>8 DEF NamesInv, OneName
  <2>2. OwnName'
    BY <1>1, <1>4, <1>5, <1>6, <1>8 DEF NamesInv, OwnName
  <2>3. NotOld'
    <3>1. ASSUME NEW d \in Downloaders
          PROVE  /\ caller'[d].pc \in Active /\ names[caller'[d].name] # Nothing
                      => ~IsOld(names[caller'[d].name])
                 /\ caller'[d].inode # Nothing => ~IsOld(caller'[d].inode)
      <4>1. CASE d = c
        BY <1>4, <1>6, <4>1
      <4>2. CASE d # c
        BY <1>1, <1>5, <4>2 DEF NamesInv, NotOld
      <4> QED
        BY <4>1, <4>2
    <3> QED
      BY <1>8, <3>1 DEF NotOld, IsOld
  <2>4. FailedLeavesNothing'
    BY <1>1, <1>4, <1>5, <1>6, <1>8 DEF NamesInv, FailedLeavesNothing, CallAt
  <2> QED
    BY <2>1, <2>2, <2>3, <2>4 DEF NamesInv
<1>10. RivalsInv'
  <2>1. NoRival'
    <3>1. ASSUME NEW x \in Downloaders, NEW y \in Downloaders, x # y,
                 caller'[x].pc \in Active \cup {"done"}, ~caller'[x].shared
          PROVE  caller'[y].name # caller'[x].name \/ caller'[y].pc \notin Active
      <4>1. CASE x = c
        <5>1. Rivals(p) = {}
          BY <1>4, <1>6, <3>1, <4>1
        <5>2. caller[y].name # p \/ caller[y].pc \notin Active
          BY <5>1 DEF Rivals
        <5> QED
          BY <1>4, <1>5, <1>6, <3>1, <4>1, <5>2
      <4>2. CASE x # c /\ y = c
        <5>1. /\ caller[x].pc \in Active \cup {"done"} /\ ~caller[x].shared
              /\ caller[x].name # p \/ caller[x].pc \notin Active
          BY <1>5, <3>1, <4>2 DEF Rivals
        <5>2. CASE caller[x].pc = "done"
          <6>1. names[caller[x].name] = caller[x].inode /\ caller[x].inode \in Files
            BY <1>1, <5>1, <5>2 DEF RivalsInv, InPlace, Holding, CallsInv, Placed
          <6>2. caller[x].name # p
            BY <1>1, <6>1 DEF Parameters
          <6> QED
            BY <1>4, <1>5, <1>6, <3>1, <4>2, <6>2
        <5>3. CASE caller[x].pc \in Active
          BY <1>4, <1>5, <1>6, <3>1, <4>2, <5>1, <5>3
        <5> QED
          BY <5>1, <5>2, <5>3
      <4>3. CASE x # c /\ y # c
        BY <1>1, <1>5, <3>1, <4>3 DEF RivalsInv, NoRival
      <4> QED
        BY <4>1, <4>2, <4>3
    <3> QED
      BY <3>1 DEF NoRival
  <2>2. InPlace'
    BY <1>1, <1>4, <1>5, <1>6, <1>8 DEF RivalsInv, InPlace, Holding
  <2>3. OwnData'
    BY <1>1, <1>4, <1>5, <1>6, <1>8 DEF RivalsInv, OwnData
  <2> QED
    BY <2>1, <2>2, <2>3 DEF RivalsInv
<1> QED
  BY <1>7, <1>9, <1>10 DEF IndInv

LEMMA TryNameKeeps ==
    ASSUME IndInv, NEW c \in Downloaders, TryName(c)
    PROVE  IndInv'
<1>1. CallsInv /\ Parameters /\ caller[c] \in Caller /\ Placed(caller[c])
  BY StartFacts
<1>2. CallAt(c, "choose") /\ UNCHANGED <<names, data>>
  BY DEF TryName
<1>3. CASE names[caller[c].name] = Nothing /\ Choose(c)
  BY <1>2, <1>3, ChooseKeeps
<1>4. CASE /\ caller[c].name < MaxRetries
           /\ caller' = [caller EXCEPT ![c].name = @ + 1]
  <2>1. PICK r : r = [caller[c] EXCEPT !.name = @ + 1]
    OBVIOUS
  <2>2. Moved(c, r)
    BY <1>4, <2>1 DEF Moved
  <2>3. caller[c].name + 1 \in Names
    BY <1>1, <1>4 DEF Caller, Names, Parameters
  <2>4. /\ r \in Caller /\ r.pc = "choose" /\ r.inode = caller[c].inode
        /\ r.shared = caller[c].shared /\ r.next = caller[c].next
    BY <1>1, <1>2, <2>1, <2>3 DEF Caller, CallAt
  <2>5. Placed(r) /\ r.inode = Nothing
    BY <1>1, <1>2, <2>4 DEF Placed, Holding, CallAt
  <2>6. r.pc \notin Active /\ r.pc \notin Holding
    BY <2>4 DEF Active, Holding
  <2> QED
    BY <1>2, <2>2, <2>4, <2>5, <2>6, QuietStep
<1>5. CASE CallGoes(c, "failed")
  BY <1>2, <1>5, GotoKeeps DEF CallAt, Stages
<1> QED
  BY <1>3, <1>4, <1>5 DEF TryName

\* The file is new, or truncates one that came into being since the Stat: never
\* an old one, and never that of a call without rivals.
LEMMA CreateKeeps ==
    ASSUME IndInv, NEW c \in Downloaders, CallAt(c, "create"), NEW i \in Files,
           IF names[caller[c].name] = Nothing THEN Unused(i) ELSE i = names[caller[c].name],
           names' = [names EXCEPT ![caller[c].name] = i],
           data' = [data EXCEPT ![i] = Blank],
           caller' = [caller EXCEPT ![c].pc = "copy", ![c].inode = i]
    PROVE  IndInv'
<1> DEFINE p == caller[c].name
<1>1. /\ CallsInv /\ NamesInv /\ RivalsInv /\ Parameters
      /\ caller[c] \in Caller /\ Placed(caller[c]) /\ p \in Names
  BY StartFacts
<1>2. caller[c].inode = Nothing /\ caller[c].pc \in Active /\ i # Nothing
  BY <1>1 DEF CallAt, Placed, Active, Parameters
<1>3. PICK r : r = [caller[c] EXCEPT !.pc = "copy", !.inode = i]
  OBVIOUS
<1>4. /\ r \in Caller /\ r.pc = "copy" /\ r.name = p /\ r.inode = i
      /\ r.next = caller[c].next /\ r.shared = caller[c].shared
  BY <1>1, <1>3 DEF Caller, Stages
<1>5. Moved(c, r)
  BY <1>3 DEF Moved
<1>6. Placed(r)
  <2>1. r.next = 1
    BY <1>1, <1>4 DEF CallAt, Placed
  <2> QED
    BY <1>1, <1>4, <2>1 DEF Placed, Holding, Parameters
<1>7. /\ caller' \in [Downloaders -> Caller] /\ \A d \in Downloaders : Placed(caller'[d])
      /\ \A d \in Downloaders : caller'[d] = IF d = c THEN r ELSE caller[d]
  BY <1>1, <1>4, <1>5, <1>6, CallsStep
<1>8. /\ \A q \in Names : names'[q] = IF q = p THEN i ELSE names[q]
      /\ \A j \in Files : data'[j] = IF j = i THEN Blank ELSE data[j]
      /\ names' \in [Names -> Files \cup {Nothing}]
      /\ data' \in [Files -> [Pieces -> Downloaders \cup {Old, Nothing}]]
  <2>1. Blank \in [Pieces -> Downloaders \cup {Old, Nothing}]
    BY DEF Blank
  <2> QED
    BY <1>1, <2>1 DEF CallsInv, DownloadTypeOK
<1>9. CallsInv'
  BY <1>1, <1>7, <1>8 DEF CallsInv, DownloadTypeOK, Parameters
<1>10. \A q \in Names : q # p => names[q] # i
  BY <1>1, <1>2 DEF NamesInv, OneName, Unused
<1>11. data'[i] # All(Old)
  BY <1>1, <1>8, BlankIsNotOld
<1>12. \A j \in Files : data[j] # All(Old) => data'[j] # All(Old)
  BY <1>8, <1>11
<1>13. \A d \in Downloaders : caller[d].inode = i => caller[d].name = p /\ names[p] = i
  BY <1>1, <1>2 DEF NamesInv, OwnName, Unused
<1>14. NamesInv'
  <2>1. OneName'
    BY <1>1, <1>8, <1>10 DEF NamesInv, OneName
  <2>2. OwnName'
    BY <1>1, <1>4, <1>7, <1>8, <1>10, <1>13 DEF NamesInv, OwnName
  <2>3. NotOld'
    <3>1. ASSUME NEW d \in Downloaders
          PROVE  /\ caller'[d].pc \in Active /\ names'[caller'[d].name] # Nothing
                      => data'[names'[caller'[d].name]] # All(Old)
                 /\ caller'[d].inode # Nothing => data'[caller'[d].inode] # All(Old)
      <4>1. caller'[d].name \in Names /\ caller'[d].inode \in Files \cup {Nothing}
        BY <1>7 DEF Caller
      <4>2. CASE d = c
        BY <1>4, <1>7, <1>8, <1>11, <4>2
      <4>3. CASE d # c
        <5>1. caller'[d] = caller[d] /\ names[caller[d].name] \in Files \cup {Nothing}
          BY <1>1, <1>7, <4>1, <4>3 DEF CallsInv, DownloadTypeOK
        <5>2. CASE caller[d].name = p
          BY <1>1, <1>8, <1>11, <1>12, <4>1, <5>1, <5>2 DEF NamesInv, NotOld, IsOld
        <5>3. CASE caller[d].name # p
          BY <1>1, <1>8, <1>12, <4>1, <5>1, <5>3 DEF NamesInv, NotOld, IsOld
        <5> QED
          BY <5>2, <5>3
      <4> QED
        BY <4>2, <4>3
    <3> QED
      BY <3>1 DEF NotOld, IsOld
  <2>4. FailedLeavesNothing'
    BY <1>1, <1>4, <1>7, <1>8, <1>13 DEF NamesInv, FailedLeavesNothing, CallAt
  <2> QED
    BY <2>1, <2>2, <2>3, <2>4 DEF NamesInv
<1>15. RivalsInv'
  <2>1. NoRival'
    BY <1>1, <1>2, <1>4, <1>7 DEF RivalsInv, NoRival, Active
  <2>2. ASSUME NEW d \in Downloaders, d # c, ~caller[d].shared, caller[d].pc \in Holding
        PROVE  caller[d].name # p /\ caller[d].inode # i /\ caller[d].inode \in Files
    <3>1. caller[d].pc \in Active \cup {"done"}
      BY <2>2 DEF Holding, Active
    <3>2. caller[d].name # p
      BY <1>1, <1>2, <2>2, <3>1 DEF RivalsInv, NoRival
    <3>3. caller[d].inode \in Files
      BY <1>1, <2>2 DEF CallsInv, Placed
    <3> QED
      BY <1>13, <3>2, <3>3
  <2>3. InPlace'
    BY <1>1, <1>4, <1>7, <1>8, <2>2 DEF RivalsInv, InPlace, CallsInv, DownloadTypeOK, Caller
  <2>4. OwnData'
    <3>1. ASSUME NEW d \in Downloaders, NEW k \in Pieces, caller'[d].pc \in {"copy", "close", "done"},
                 ~caller'[d].shared, k < caller'[d].next
          PROVE  data'[caller'[d].inode][k] = d
      <4>1. CASE d = c
        <5>1. caller'[d].next = 1
          BY <1>1, <1>4, <1>7, <4>1 DEF CallAt, Placed
        <5> QED
          BY <3>1, <5>1 DEF Pieces
      <4>2. CASE d # c
        BY <1>1, <1>7, <1>8, <2>2, <3>1, <4>2 DEF RivalsInv, OwnData, Holding
      <4> QED
        BY <4>1, <4>2
    <3> QED
      BY <3>1 DEF OwnData
  <2> QED
    BY <2>1, <2>3, <2>4 DEF RivalsInv
<1> QED
  BY <1>9, <1>14, <1>15 DEF IndInv

LEMMA CreateLocalKeeps ==
    ASSUME IndInv, NEW c \in Downloaders, CreateLocal(c)
    PROVE  IndInv'
<1>1. CASE CallGoes(c, "failed") /\ UNCHANGED <<names, data>>
  BY <1>1, GotoKeeps DEF CreateLocal, CallAt, Stages
<1>2. CASE ~(CallGoes(c, "failed") /\ UNCHANGED <<names, data>>)
  BY <1>2, CreateKeeps DEF CreateLocal
<1> QED
  BY <1>1, <1>2

\* A chunk goes into the call's own file: no old one, and that of no call
\* without rivals but this.
LEMMA ChunkKeeps ==
    ASSUME IndInv, NEW c \in Downloaders, CallAt(c, "copy"), UNCHANGED names,
           data' = [data EXCEPT ![caller[c].inode][caller[c].next] = c],
           caller' = [caller EXCEPT ![c].next = @ + 1,
                        ![c].pc = IF caller[c].next = PieceCount THEN "close" ELSE "copy"]
    PROVE  IndInv'
<1> DEFINE i == caller[c].inode
           n == caller[c].next
           l == IF n = PieceCount THEN "close" ELSE "copy"
<1>1. /\ CallsInv /\ NamesInv /\ RivalsInv /\ Parameters
      /\ caller[c] \in Caller /\ Placed(caller[c]) /\ caller[c].name \in Names
  BY StartFacts
<1>2. i \in Files /\ i # Nothing /\ n \in Nat \ {0} /\ n <= PieceCount /\ n \in Pieces
      /\ caller[c].pc \in Active
  <2>1. i \in Files /\ n <= PieceCount
    BY <1>1 DEF CallAt, Placed, Holding
  <2>2. n \in Nat \ {0}
    BY <1>1 DEF Caller, Parameters
  <2>3. caller[c].pc \in Active
    BY DEF CallAt, Active
  <2> QED
    BY <1>1, <2>1, <2>2, <2>3 DEF Parameters, Pieces
<1>3. PICK r : r = [caller[c] EXCEPT !.next = @ + 1, !.pc = l]
  OBVIOUS
<1>4. /\ r \in Caller /\ r.pc = l /\ r.name = caller[c].name /\ r.inode = i
      /\ r.next = n + 1 /\ r.shared = caller[c].shared
  <2>1. n + 1 \in 1..(PieceCount + 1) /\ l \in Stages
    BY <1>1, <1>2 DEF Parameters, Stages
  <2> QED
    BY <1>1, <1>3, <2>1 DEF Caller
<1>5. Moved(c, r)
  BY <1>3 DEF Moved
<1>6. Placed(r)
  BY <1>1, <1>2, <1>4 DEF Placed, Holding, Parameters
<1>7. /\ caller' \in [Downloaders -> Caller] /\ \A d \in Downloaders : Placed(caller'[d])
      /\ \A d \in Downloaders : caller'[d] = IF d = c THEN r ELSE caller[d]
  BY <1>1, <1>4, <1>5, <1>6, CallsStep
<1>8. PICK row : row = [data[i] EXCEPT ![n] = c]
  OBVIOUS
<1>9. /\ row \in [Pieces -> Downloaders \cup {Old, Nothing}]
      /\ \A k \in Pieces : row[k] = IF k = n THEN c ELSE data[i][k]
  BY <1>1, <1>2, <1>8 DEF CallsInv, DownloadTypeOK
<1>10. /\ data' \in [Files -> [Pieces -> Downloaders \cup {Old, Nothing}]]
       /\ \A j \in Files : data'[j] = IF j = i THEN row ELSE data[j]
  <2>1. data' = [data EXCEPT ![i] = row]
    BY <1>8
  <2> QED
    BY <1>1, <1>2, <1>9, <2>1 DEF CallsInv, DownloadTypeOK
<1>11. CallsInv'
  BY <1>1, <1>7, <1>10 DEF CallsInv, DownloadTypeOK, Parameters
<1>12. row # All(Old)
  <2>1. row[n] = c /\ All(Old)[n] = Old
    BY <1>2, <1>9 DEF All
  <2> QED
    BY <1>1, <2>1 DEF Parameters
<1>13. \A j \in Files : data[j] # All(Old) => data'[j] # All(Old)
  BY <1>10, <1>12
<1>14. NamesInv'
  <2>1. OneName' /\ OwnName'
    BY <1>1, <1>4, <1>7 DEF NamesInv, OneName, OwnName
  <2>2. NotOld'
    <3>1. ASSUME NEW d \in Downloaders
          PROVE  /\ caller'[d].pc \in Active /\ names[caller'[d].name] # Nothing
                      => data'[names[caller'[d].name]] # All(Old)
                 /\ caller'[d].inode # Nothing => data'[caller'[d].inode] # All(Old)
      <4>1. /\ caller'[d].name = caller[d].name /\ caller'[d].inode = caller[d].inode
            /\ caller'[d].pc \in Active => caller[d].pc \in Active
            /\ caller[d].name \in Names /\ caller[d].inode \in Files \cup {Nothing}
        BY <1>1, <1>2, <1>4, <1>7, StartFacts DEF Caller
      <4>2. names[caller[d].name] \in Files \cup {Nothing}
        BY <1>1, <4>1 DEF CallsInv, DownloadTypeOK
      <4> QED
        BY <1>1, <1>13, <4>1, <4>2 DEF NamesInv, NotOld, IsOld
    <3> QED
      BY <3>1 DEF NotOld, IsOld
  <2>3. FailedLeavesNothing'
    BY <1>1, <1>4, <1>7 DEF NamesInv, FailedLeavesNothing, CallAt
  <2> QED
    BY <2>1, <2>2, <2>3 DEF NamesInv
<1>15. RivalsInv'
  <2>1. NoRival'
    BY <1>1, <1>2, <1>4, <1>7 DEF RivalsInv, NoRival, Active
  <2>2. InPlace'
    BY <1>1, <1>4, <1>7 DEF RivalsInv, InPlace, CallAt, Holding
  <2>3. OwnData'
    <3>1. ASSUME NEW d \in Downloaders, NEW k \in Pieces, caller'[d].pc \in {"copy", "close", "done"},
                 ~caller'[d].shared, k < caller'[d].next
          PROVE  data'[caller'[d].inode][k] = d
      <4>1. CASE d = c
        <5>1. caller'[d] = r /\ data'[i] = row
          BY <1>2, <1>7, <1>10, <4>1
        <5>2. k = n \/ k < n
          BY <1>2, <1>4, <3>1, <5>1 DEF Pieces
        <5>3. ~caller[c].shared /\ caller[c].pc \in {"copy", "close", "done"}
          BY <1>4, <3>1, <5>1 DEF CallAt
        <5>4. k < n => data[i][k] = c
          BY <1>1, <5>3 DEF RivalsInv, OwnData
        <5> QED
          BY <1>4, <1>9, <4>1, <5>1, <5>2, <5>4
      <4>2. CASE d # c
        <5>1. caller'[d] = caller[d] /\ caller[d].pc \in Holding /\ caller[d].pc \in Active \cup {"done"}
          BY <1>7, <3>1, <4>2 DEF Holding, Active
        <5>2. names[caller[d].name] = caller[d].inode /\ caller[d].inode \in Files
              /\ caller[d].name \in Names
          BY <1>1, <3>1, <5>1, StartFacts DEF RivalsInv, InPlace, CallsInv, Placed
        <5>3. caller[c].name # caller[d].name
          BY <1>1, <1>2, <3>1, <4>2, <5>1 DEF RivalsInv, NoRival
        <5>4. caller[d].inode # i
          BY <1>1, <1>2, <5>2, <5>3 DEF NamesInv, OwnName
        <5>5. data[caller[d].inode][k] = d
          BY <1>1, <3>1, <5>1 DEF RivalsInv, OwnData
        <5> QED
          BY <1>10, <5>1, <5>2, <5>4, <5>5
      <4> QED
        BY <4>1, <4>2
    <3> QED
      BY <3>1 DEF OwnData
  <2> QED
    BY <2>1, <2>2, <2>3 DEF RivalsInv
<1> QED
  BY <1>11, <1>14, <1>15 DEF IndInv

LEMMA CopyChunkKeeps ==
    ASSUME IndInv, NEW c \in Downloaders, CopyChunk(c)
    PROVE  IndInv'
<1>1. CASE CallGoes(c, "remove") /\ UNCHANGED data
  BY <1>1, GotoKeeps DEF CopyChunk, CallAt, Stages
<1>2. CASE ~(CallGoes(c, "remove") /\ UNCHANGED data)
  BY <1>2, ChunkKeeps DEF CopyChunk
<1> QED
  BY <1>1, <1>2

\* Whatever file the name holds goes: the call's own, or a rival's.
LEMMA RemoveLocalKeeps ==
    ASSUME IndInv, NEW c \in Downloaders, RemoveLocal(c)
    PROVE  IndInv'
<1> DEFINE p == caller[c].name
<1>1. /\ CallsInv /\ NamesInv /\ RivalsInv /\ Parameters
      /\ caller[c] \in Caller /\ Placed(caller[c]) /\ p \in Names
  BY StartFacts
<1>2. CallAt(c, "remove") /\ data' = data /\ caller[c].pc \in Active
  BY DEF RemoveLocal, CallAt, Active
<1>3. /\ \A q \in Names : names'[q] = IF q = p THEN Nothing ELSE names[q]
      /\ names' \in [Names -> Files \cup {Nothing}]
  BY <1>1 DEF RemoveLocal, CallsInv, DownloadTypeOK
<1>4. PICK r \in Caller :
             /\ Moved(c, r) /\ r.pc = "failed" /\ r.name = p /\ r.inode = caller[c].inode
             /\ r.next = caller[c].next /\ r.shared = caller[c].shared
  BY <1>1, GotoStep DEF RemoveLocal, Stages
<1>5. Placed(r)
  BY <1>4 DEF Placed, Holding
<1>6. /\ caller' \in [Downloaders -> Caller] /\ \A d \in Downloaders : Placed(caller'[d])
      /\ \A d \in Downloaders : caller'[d] = IF d = c THEN r ELSE caller[d]
  BY <1>1, <1>4, <1>5, CallsStep
<1>7. CallsInv'
  BY <1>1, <1>2, <1>3, <1>6 DEF CallsInv, DownloadTypeOK, Parameters
<1>8. \A d \in Downloaders : caller'[d].name = caller[d].name /\ caller'[d].inode = caller[d].inode
      /\ caller[d].name \in Names /\ (caller'[d].pc \in Active => caller[d].pc \in Active)
  BY <1>2, <1>4, <1>6, StartFacts
<1>9. NamesInv'
  <2>1. OneName'
    BY <1>1, <1>3 DEF NamesInv, OneName
  <2>2. OwnName'
    BY <1>1, <1>3, <1>8 DEF NamesInv, OwnName
  <2>3. NotOld'
    BY <1>1, <1>2, <1>3, <1>8 DEF NamesInv, NotOld, IsOld
  <2>4. FailedLeavesNothing'
    <3>1. ASSUME NEW d \in Downloaders, caller'[d].pc = "failed", caller'[d].inode # Nothing, NEW q \in Names
          PROVE  names'[q] # caller'[d].inode
      <4>1. CASE d = c
        BY <1>1, <1>3, <1>8, <3>1, <4>1 DEF NamesInv, OwnName
      <4>2. CASE d # c
        <5>1. caller[d].pc = "failed" /\ caller'[d].inode = caller[d].inode
          BY <1>6, <3>1, <4>2
        <5>2. names[q] # caller[d].inode
          BY <1>1, <3>1, <5>1 DEF NamesInv, FailedLeavesNothing, CallAt
        <5> QED
          BY <1>3, <3>1, <5>1, <5>2
      <4> QED
        BY <4>1, <4>2
    <3> QED
      BY <3>1 DEF FailedLeavesNothing, CallAt
  <2> QED
    BY <2>1, <2>2, <2>3, <2>4 DEF NamesInv
<1>10. RivalsInv'
  <2>1. NoRival'
    BY <1>1, <1>4, <1>6, <1>8 DEF RivalsInv, NoRival, Active
  <2>2. InPlace'
    <3>1. ASSUME NEW d \in Downloaders, caller'[d].pc \in Holding, ~caller'[d].shared
          PROVE  names'[caller'[d].name] = caller'[d].inode
      <4>1. d # c
        BY <1>4, <1>6, <3>1 DEF Holding
      <4>2. caller'[d] = caller[d] /\ caller[d].pc \in Active \cup {"done"}
        BY <1>6, <3>1, <4>1 DEF Holding, Active
      <4>3. p # caller[d].name
        BY <1>1, <1>2, <3>1, <4>1, <4>2 DEF RivalsInv, NoRival
      <4> QED
        BY <1>1, <1>3, <1>8, <3>1, <4>2, <4>3 DEF RivalsInv, InPlace
    <3> QED
      BY <3>1 DEF InPlace
  <2>3. OwnData'
    BY <1>1, <1>2, <1>4, <1>6 DEF RivalsInv, OwnData
  <2> QED
    BY <2>1, <2>2, <2>3 DEF RivalsInv
<1> QED
  BY <1>7, <1>9, <1>10 DEF IndInv

LEMMA InitInv == DownloadInit => IndInv
<1> SUFFICES ASSUME Parameters, DownloadInit PROVE IndInv
  BY ParametersAssumption
<1>1. \A c \in Downloaders : caller[c] = Fresh
  BY DEF DownloadInit
<1>2. CallsInv
  <2>1. Fresh \in Caller /\ Placed(Fresh)
    BY DEF Fresh, Caller, Stages, Names, Parameters, Placed, Holding
  <2>2. \A i \in Files : data[i] \in [Pieces -> Downloaders \cup {Old, Nothing}]
    BY DEF DownloadInit, All, Blank
  <2>3. data \in [Files -> [Pieces -> Downloaders \cup {Old, Nothing}]]
    BY <2>2 DEF DownloadInit
  <2>4. caller \in [Downloaders -> Caller]
    BY <2>1 DEF DownloadInit
  <2> QED
    BY <1>1, <2>1, <2>3, <2>4 DEF CallsInv, DownloadTypeOK, DownloadInit
<1>3. \A c \in Downloaders : caller[c].inode = Nothing /\ caller[c].pc = "stat"
  <2>1. Fresh.inode = Nothing /\ Fresh.pc = "stat"
    BY DEF Fresh
  <2> QED
    BY <1>1, <2>1
<1>4. NamesInv
  <2>1. OneName
    BY DEF DownloadInit, OneName
  <2>2. OwnName /\ NotOld
    BY <1>3 DEF OwnName, NotOld, Active
  <2>3. FailedLeavesNothing
    BY <1>3 DEF FailedLeavesNothing, CallAt
  <2> QED
    BY <2>1, <2>2, <2>3 DEF NamesInv
<1>5. RivalsInv
  BY <1>3 DEF RivalsInv, NoRival, InPlace, OwnData, Active, Holding
<1> QED
  BY <1>2, <1>4, <1>5 DEF IndInv

LEMMA NextInv == IndInv /\ [DownloadNext]_downloadVars => IndInv'
<1> SUFFICES ASSUME IndInv, [DownloadNext]_downloadVars PROVE IndInv'
  OBVIOUS
<1>1. ASSUME NEW c \in Downloaders, StatRemote(c) \/ OpenRemote(c) \/ CloseLocal(c) PROVE IndInv'
  <2>1. CASE StatRemote(c)
    BY <2>1, GotoKeeps DEF StatRemote, CallAt, Stages
  <2>2. CASE OpenRemote(c)
    BY <2>2, GotoKeeps DEF OpenRemote, CallAt, Stages
  <2>3. CASE CloseLocal(c)
    BY <2>3, GotoKeeps DEF CloseLocal, CallAt, Stages
  <2> QED
    BY <1>1, <2>1, <2>2, <2>3
<1>2. ASSUME NEW c \in Downloaders, TryName(c) \/ CreateLocal(c) PROVE IndInv'
  BY <1>2, TryNameKeeps, CreateLocalKeeps
<1>3. ASSUME NEW c \in Downloaders, CopyChunk(c) \/ RemoveLocal(c) PROVE IndInv'
  BY <1>3, CopyChunkKeeps, RemoveLocalKeeps
<1>4. ASSUME NEW c \in Downloaders, Die(c) PROVE IndInv'
  <2>1. caller[c].pc \in Stages \ {"done", "failed", "dead"}
    BY <1>4, StartFacts DEF Die, Caller
  <2> QED
    BY <1>4, <2>1, GotoKeeps DEF Die, Stages
<1>5. CASE UNCHANGED downloadVars
  <2>1. names' = names /\ data' = data /\ caller' = caller
    BY <1>5 DEF downloadVars
  <2> QED
    BY <2>1 DEF IndInv, CallsInv, Parameters, DownloadTypeOK, NamesInv, OneName, OwnName, NotOld, IsOld,
                FailedLeavesNothing, CallAt, RivalsInv, NoRival, InPlace, OwnData
<1> QED
  BY <1>1, <1>2, <1>3, <1>4, <1>5 DEF DownloadNext, DownloadFile

LEMMA Inductive == DownloadSpec => []IndInv
<1> QED
  BY InitInv, NextInv, PTL DEF DownloadSpec

-----------------------------------------------------------------------------
(* The theorems                                                            *)

\* Every variable keeps its type.
THEOREM Types == DownloadSpec => []DownloadTypeOK
<1>1. IndInv => DownloadTypeOK
  BY DEF IndInv, CallsInv
<1> QED
  BY <1>1, Inductive, PTL

\* A download that failed has left no file in the directory, even when the name
\* it removed by was another call's too.
THEOREM FailureIsClean == DownloadSpec => []FailedLeavesNothing
<1>1. IndInv => FailedLeavesNothing
  BY DEF IndInv, NamesInv
<1> QED
  BY <1>1, Inductive, PTL

\* A reported download is under its name, whole and nobody else's, unless two
\* calls were at work under that name at once: only the race between Stat and
\* Create can spoil it, however many calls there are.
THEOREM ReportIsTrue == DownloadSpec => []ReportedFileIsThere
<1>1. IndInv => ReportedFileIsThere
  <2> SUFFICES ASSUME IndInv, NEW c \in Downloaders, CallAt(c, "done"), ~caller[c].shared
               PROVE  /\ names[caller[c].name] = caller[c].inode
                      /\ data[caller[c].inode] = All(c)
    BY DEF ReportedFileIsThere
  <2>1. CallsInv /\ RivalsInv /\ Placed(caller[c])
    BY StartFacts
  <2>2. names[caller[c].name] = caller[c].inode
    BY <2>1 DEF RivalsInv, InPlace, CallAt, Holding
  <2>3. caller[c].inode \in Files /\ caller[c].next = PieceCount + 1 /\ PieceCount \in Nat
    BY <2>1 DEF Placed, CallAt, Holding, CallsInv, Parameters
  <2>4. \A k \in Pieces : data[caller[c].inode][k] = c
    BY <2>1, <2>3 DEF RivalsInv, OwnData, CallAt, Pieces
  <2>5. data[caller[c].inode] \in [Pieces -> Downloaders \cup {Old, Nothing}]
    BY <2>1, <2>3 DEF CallsInv, DownloadTypeOK
  <2>6. data[caller[c].inode] = All(c)
    BY <2>4, <2>5 DEF All
  <2> QED
    BY <2>2, <2>6
<1> QED
  BY <1>1, Inductive, PTL

\* A file that was there before keeps its name and its content: no call
\* truncates, writes or removes it.
THEOREM OldFilesAreSafe == DownloadSpec => OldFilesStay
<1>1. IndInv /\ [DownloadNext]_downloadVars =>
        \A p \in Names : names[p] # Nothing /\ data[names[p]] = All(Old) =>
          names'[p] = names[p] /\ data'[names[p]] = All(Old)
  <2> SUFFICES ASSUME IndInv, [DownloadNext]_downloadVars, NEW p \in Names, names[p] # Nothing,
                      data[names[p]] = All(Old)
               PROVE  names'[p] = names[p] /\ data'[names[p]] = All(Old)
    OBVIOUS
  <2> DEFINE i == names[p]
  <2>1. CallsInv /\ NamesInv /\ i \in Files
    BY DEF IndInv, CallsInv, DownloadTypeOK
  <2>2. ASSUME NEW c \in Downloaders, caller[c].pc \in Active
        PROVE  caller[c].name # p
    BY <2>1, <2>2 DEF NamesInv, NotOld, IsOld
  <2>3. ASSUME NEW c \in Downloaders
        PROVE  caller[c].inode # i
    BY <2>1 DEF NamesInv, NotOld, IsOld
  <2>4. CASE UNCHANGED names /\ UNCHANGED data
    BY <2>4
  <2>5. ASSUME NEW c \in Downloaders, CreateLocal(c)
        PROVE  names'[p] = i /\ data'[i] = All(Old)
    <3>1. caller[c].name # p /\ caller[c].name \in Names
      BY <2>2, <2>5, StartFacts DEF CreateLocal, CallAt, Active
    <3>2. ASSUME NEW j \in Files,
                 IF names[caller[c].name] = Nothing THEN Unused(j) ELSE j = names[caller[c].name],
                 names' = [names EXCEPT ![caller[c].name] = j],
                 data' = [data EXCEPT ![j] = Blank]
          PROVE  names'[p] = i /\ data'[i] = All(Old)
      <4>1. j # i
        BY <2>1, <3>1, <3>2 DEF NamesInv, OneName, Unused
      <4> QED
        BY <2>1, <3>1, <3>2, <4>1 DEF CallsInv, DownloadTypeOK
    <3> QED
      BY <2>4, <2>5, <3>2 DEF CreateLocal
  <2>6. ASSUME NEW c \in Downloaders, CopyChunk(c)
        PROVE  names'[p] = i /\ data'[i] = All(Old)
    <3>1. caller[c].inode # i
      BY <2>3
    <3> QED
      BY <2>1, <2>6, <3>1 DEF CopyChunk, CallsInv, DownloadTypeOK
  <2>7. ASSUME NEW c \in Downloaders, RemoveLocal(c)
        PROVE  names'[p] = i /\ data'[i] = All(Old)
    <3>1. caller[c].name # p
      BY <2>2, <2>7 DEF RemoveLocal, CallAt, Active
    <3> QED
      BY <2>1, <2>7, <3>1 DEF RemoveLocal, CallsInv, DownloadTypeOK
  <2> QED
    BY <2>4, <2>5, <2>6, <2>7 DEF DownloadNext, DownloadFile, StatRemote, TryName, OpenRemote, CloseLocal,
                                  Die, downloadVars
<1> QED
  BY <1>1, Inductive, PTL DEF DownloadSpec, OldFilesStay
=============================================================================
