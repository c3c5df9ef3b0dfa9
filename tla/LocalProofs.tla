----------------------------- MODULE LocalProofs -----------------------------
(***************************************************************************)
(* Theorems about LocalSession, for every set of callers, hosts and        *)
(* sessions and every bound.                                               *)
(*                                                                         *)
(* Three invariants, one on another.  CallsInv: the types, and which call  *)
(* may stand where.  LocksInv: who holds which lock, and who can still     *)
(* reach a session.  PipeInv: what lies between the program and a scan,    *)
(* in accum, the channel, the reader and the PTY, is a stretch of what the *)
(* command under way prints; between two commands it is the one newline    *)
(* behind the last marker, which no scan takes.                            *)
(***************************************************************************)
EXTENDS LocalSession, SequenceTheorems, WellFoundedInduction, TLAPS

-----------------------------------------------------------------------------
(* Types and labels                                                        *)

SessionRec ==
    [proc : BOOLEAN, exited : BOOLEAN, tty : BOOLEAN, closed : BOOLEAN,
     input : Seq(0..MaxCommands), output : Seq(Tokens), held : Seq(Tokens),
     readCh : Seq(Seq(Tokens)), accum : Seq(Tokens), lock : Callers \cup {None},
     written : 0..MaxCommands, printed : [0..MaxCommands -> Nat]]

\* One session on its own: a program whose exit was noticed is dead, the
\* channel holds no empty read, and what is to run or has printed was written.
Sane(p) ==
    /\ p.exited => ~p.proc
    /\ Len(p.readCh) <= ChanCap
    /\ \A k \in 1..Len(p.readCh) : p.readCh[k] # <<>>
    /\ \A k \in 1..Len(p.input) : p.input[k] <= p.written
    /\ \A n \in 0..MaxCommands : n > p.written => p.printed[n] = 0

\* One call on its own: which operation is at which label, and which of its
\* fields are set there.
Placed(q) ==
    /\ q.pc \in {"spawn", "init", "store", "ready"} => q.op = "connect"
    /\ q.pc \in {"lookup", "lock", "write", "result", "unlock"} => q.op = "execute"
    /\ q.pc \in {"grab", "sweep"} => q.op = "disconnect"
    /\ q.pc \in {"spawn", "init"} => q.want = "init"
    /\ q.pc \in {"scan", "drain"} =>
           \/ q.op = "connect" /\ q.want = "init"
           \/ q.op = "execute" /\ q.want \in {"end", "code"} /\ q.cmd # 0
    /\ q.pc = "result" => q.cmd # 0
    /\ q.pc # "idle" /\ q.op # "disconnect" => q.host \in Hosts
    /\ q.sess \in Sessions <=> q.pc \notin {"idle", "spawn", "ready", "lookup"} /\ q.op # "disconnect"
    /\ q.victim \in Sessions <=> q.pc \in {"close", "await"}
    /\ q.pc \in {"close", "await"} /\ q.op = "execute" => q.victim = q.sess
    /\ q.pc \in {"close", "await"} => q.host \in Hosts

CallsInv ==
    /\ sessions \in [Hosts -> Sessions \cup {None}]
    /\ mapLock \in Callers \cup {None}
    /\ session \in [Sessions -> SessionRec] /\ \A s \in Sessions : Sane(session[s])
    /\ caller \in [Callers -> Locals] /\ \A c \in Callers : Placed(caller[c])

-----------------------------------------------------------------------------
(* Locks                                                                   *)

\* Under LocalExecutor.mu: Disconnect, and a Connect that replaces a session.
HoldsMap(q) ==
    \/ q.pc = "sweep"
    \/ q.pc \in {"close", "await"} /\ q.op = "disconnect"
    \/ q.pc \in {"close", "await"} /\ q.op = "connect" /\ q.victim # q.sess

\* Under localSession.mu: an Execute that got it.
HoldsSession(q) ==
    q.op = "execute" /\ q.pc \in {"write", "scan", "drain", "result", "unlock", "close", "await"}

MapLocked ==
    \A c \in Callers : /\ HoldsMap(caller[c]) <=> mapLock = c
                       /\ HoldsMap(caller[c]) /\ caller[c].victim # None =>
                              sessions[caller[c].host] = caller[c].victim

SessionLocked ==
    /\ \A c \in Callers : HoldsSession(caller[c]) => session[caller[c].sess].lock = c
    /\ \A s \in Sessions, c \in Callers : session[s].lock = c =>
           HoldsSession(caller[c]) /\ caller[c].sess = s

\* A session that is being set up is nobody else's.
Connecting(q) == q.op = "connect" /\ q.sess # None
Private ==
    \A c \in Callers : Connecting(caller[c]) =>
        /\ \A h \in Hosts : sessions[h] # caller[c].sess
        /\ \A d \in Callers : d # c =>
               caller[d].sess # caller[c].sess /\ caller[d].victim # caller[c].sess

LocksInv == MapLocked /\ SessionLocked /\ Private /\ NoOrphanProgram

-----------------------------------------------------------------------------
(* The pipeline                                                            *)

\* What a session has for command n: the newline left behind by the command
\* before it, what n has printed, is printing or will print, its marker, its
\* exit code and the newline it leaves behind.
Token(p, n, j) ==
    IF n = 0 THEN [cmd |-> 0, part |-> IF j = 1 THEN "init" ELSE "newline"]
    ELSE IF j = 1 THEN [cmd |-> n - 1, part |-> "newline"]
    ELSE [cmd |-> n, part |-> IF j <= p.printed[n] + 1 THEN "out"
                              ELSE IF j = p.printed[n] + 2 THEN "end"
                              ELSE IF j = p.printed[n] + 3 THEN "code" ELSE "newline"]
Total(p, n) == IF n = 0 THEN 2 ELSE p.printed[n] + 4

\* What there is of it before the program prints the marks.
Unmarked(p, n) == IF n = 0 THEN 0 ELSE p.printed[n] + 1

\* x holds the tokens behind the one with number from.
PartOf(p, n, x, from) == \A j \in 1..Len(x) : x[j] = Token(p, n, from + j)

\* at[k] is where the k-th read in the channel begins, the last where the
\* channel ends.
Starts(ch, at) == \A k \in 1..Len(ch) : at[k + 1] = at[k] + Len(ch[k])
Rising(ch, at) == \A k, m \in 1..(Len(ch) + 1) : k < m => at[k] < at[m]
ReadsOf(p, n, ch, at) == \A k \in 1..Len(ch) : PartOf(p, n, ch[k], at[k])

\* All that was printed is at most what there is to print; while the program
\* still has the command to run, it is the output so far; and while the master
\* is open nothing that was printed is lost.
Reaches(p, n, end) ==
    /\ end <= Total(p, n)
    /\ p.input # <<>> => p.input = <<n>> /\ end = Unmarked(p, n)
    /\ p.tty => end \in {Unmarked(p, n), Total(p, n)}

\* accum, the reads in the channel, what the reader holds and what the PTY
\* holds are consecutive stretches of it, from base on.
Stretch(p, n, base, at) ==
    LET last == at[Len(p.readCh) + 1] IN
    /\ at[1] = base + Len(p.accum)
    /\ Starts(p.readCh, at) /\ Rising(p.readCh, at)
    /\ PartOf(p, n, p.accum, base)
    /\ ReadsOf(p, n, p.readCh, at)
    /\ PartOf(p, n, p.held, last)
    /\ PartOf(p, n, p.output, last + Len(p.held))
    /\ Reaches(p, n, last + Len(p.held) + Len(p.output))

Streams(p, n, base) ==
    \E at \in [1..(Len(p.readCh) + 1) -> Nat] : Stretch(p, n, base, at)

\* A session nothing was written to.
Empty(p) ==
    /\ p.input = <<>> /\ p.output = <<>> /\ p.held = <<>> /\ p.readCh = <<>> /\ p.accum = <<>>
    /\ p.written = 0

\* All that is left is the newline behind the last command's exit code.
Clean(p) == Streams(p, p.written, Total(p, p.written) - 1)

\* What a scan for the end marker of command n returns.
Outputs(p, n) == [i \in 1..(p.printed[n] + 1) |-> Token(p, n, i)]

\* What call q may rely on in its session p.
Pipe(p, q) ==
    /\ q.pc = "init" => Empty(p)
    /\ q.pc \in {"write", "result"} => Clean(p)
    /\ q.pc \in {"scan", "drain"} /\ q.want = "init" => Streams(p, 0, 0) /\ p.written = 0
    /\ q.pc \in {"scan", "drain"} /\ q.want = "end" =>
           Streams(p, q.cmd, 0) /\ p.written = q.cmd
    /\ q.pc \in {"scan", "drain"} /\ q.want = "code" =>
           /\ Streams(p, q.cmd, p.printed[q.cmd] + 2) /\ p.written = q.cmd
           /\ q.got = Outputs(p, q.cmd)
    /\ q.pc = "result" => q.got = Outputs(p, q.cmd)

\* The call sets the session up, scans its output, or ends it for that.
Uses(q, s) == q.sess = s /\ (q.pc \in {"init", "scan", "drain"} \/ q.victim = s)

PipeInv ==
    /\ \A c \in Callers : caller[c].sess # None => Pipe(session[caller[c].sess], caller[c])
    /\ \A s \in Sessions :
         (\A c \in Callers : ~Uses(caller[c], s)) => Clean(session[s]) \/ session[s].exited

IndInv == CallsInv /\ LocksInv /\ PipeInv

-----------------------------------------------------------------------------
(* Sequences and constants                                                 *)

LEMMA Constants ==
    /\ None \notin Sessions /\ None \notin Callers /\ None \notin Hosts
    /\ MaxCommands \in Nat /\ MaxOut \in Nat /\ ChanCap \in Nat /\ ChanCap > 0
BY NoneAssumption, BoundsAssumption

\* A set of naturals has a least element.
LEMMA Smallest ==
    ASSUME NEW S \in SUBSET Nat, S # {}
    PROVE  \E n \in S : \A m \in S : n <= m
<1>1. PICK R : R = OpToRel(<, Nat)
  OBVIOUS
<1>2. IsWellFoundedOn(R, Nat)
  BY <1>1, NatLessThanWellFounded
<1>3. PICK x \in S : \A y \in S : ~(<<y, x>> \in R)
  BY <1>2, WFMin
<1>4. \A y \in S : y < x => <<y, x>> \in R
  BY <1>1 DEF OpToRel
<1>5. ASSUME NEW y \in S PROVE x <= y
  <2>1. x \in Nat /\ y \in Nat
    OBVIOUS
  <2>2. ~(y < x)
    BY <1>3, <1>4
  <2> QED
    BY <2>1, <2>2
<1> WITNESS x \in S
<1> QED
  BY <1>5

\* What a scan for a marker returns: no index, or that of a token with it.
Least(I) == IF I = {} THEN 0 ELSE Min(I)

LEMMA MarkerFound ==
    ASSUME NEW q \in Seq(Tokens), NEW w,
           NEW i, i = Least({j \in 1..Len(q) : q[j].part = w})
    PROVE  i \in 0..Len(q) /\ (i # 0 => q[i].part = w)
<1> DEFINE I == {j \in 1..Len(q) : q[j].part = w}
<1>1. CASE I = {}
  BY <1>1 DEF Least
<1>2. CASE I # {}
  <2>1. I \in SUBSET Nat
    OBVIOUS
  <2>2. Min(I) \in I
    BY <2>1, <1>2, Smallest DEF Min
  <2> QED
    BY <1>2, <2>2 DEF Least
<1> QED
  BY <1>1, <1>2

-----------------------------------------------------------------------------
(* What a step does to one session                                         *)

\* A step that leaves the lock alone, and of which no program or exit comes
\* back.
Onward(p, r) ==
    /\ r \in SessionRec /\ Sane(r)
    /\ r.lock = p.lock
    /\ r.proc => p.proc
    /\ p.exited => r.exited

\* What lies between the program and a scan, and what was written.
Flow(p) == <<p.input, p.output, p.held, p.readCh, p.accum, p.tty>>
History(p) == <<p.written, p.printed>>

\* The commands written and the state of the master are as they were.
Records(p, r) == r.written = p.written /\ r.tty = p.tty

Received(p, r) ==
    /\ p.readCh # <<>> /\ r.accum = p.accum \o Head(p.readCh) /\ r.readCh = Tail(p.readCh)
    /\ r.input = p.input /\ r.output = p.output /\ r.held = p.held /\ r.printed = p.printed
    /\ Records(p, r)

TookUp(p, r, i) ==
    /\ p.held = <<>> /\ r.held = SubSeq(p.output, 1, i)
    /\ i \in 1..Len(p.output) /\ r.output = SubSeq(p.output, i + 1, Len(p.output))
    /\ r.input = p.input /\ r.accum = p.accum /\ r.readCh = p.readCh /\ r.printed = p.printed
    /\ Records(p, r)

Sent(p, r) ==
    /\ p.held # <<>> /\ r.held = <<>> /\ r.readCh = Append(p.readCh, p.held)
    /\ r.input = p.input /\ r.output = p.output /\ r.accum = p.accum /\ r.printed = p.printed
    /\ Records(p, r)

CutOff(p, r) ==
    /\ r.input = <<>> /\ r.output \in {<<>>, p.output}
    /\ r.held = p.held /\ r.readCh = p.readCh /\ r.accum = p.accum /\ r.printed = p.printed
    /\ r.written = p.written /\ (r.tty => p.tty /\ r.output = p.output)

Added(p, r, more) ==
    /\ r.output = p.output \o more /\ more \in Seq(Tokens)
    /\ r.held = p.held /\ r.readCh = p.readCh /\ r.accum = p.accum
    /\ Records(p, r)

LEMMA FlagsEffect ==
    ASSUME NEW p \in SessionRec, Sane(p), NEW r,
           \/ ~p.proc /\ r = [p EXCEPT !.exited = TRUE]
           \/ r = [p EXCEPT !.proc = FALSE]
           \/ r = [p EXCEPT !.closed = TRUE]
    PROVE  Onward(p, r) /\ Flow(r) = Flow(p) /\ History(r) = History(p)
BY DEF Onward, SessionRec, Sane, Flow, History

LEMMA ReceiveEffect ==
    ASSUME NEW p \in SessionRec, Sane(p), p.readCh # <<>>, NEW r,
           r = [p EXCEPT !.accum = @ \o Head(p.readCh), !.readCh = Tail(@)]
    PROVE  Onward(p, r) /\ Received(p, r)
<1>1. p.accum \in Seq(Tokens) /\ p.readCh \in Seq(Seq(Tokens))
  BY DEF SessionRec
<1>2. Head(p.readCh) \in Seq(Tokens) /\ Tail(p.readCh) \in Seq(Seq(Tokens))
  BY <1>1, HeadTailProperties
<1>3. p.accum \o Head(p.readCh) \in Seq(Tokens)
  BY <1>1, <1>2, ConcatProperties
<1>4. Len(Tail(p.readCh)) = Len(p.readCh) - 1 /\ Len(p.readCh) \in Nat
      /\ \A k \in 1..Len(Tail(p.readCh)) : Tail(p.readCh)[k] = p.readCh[k + 1]
  BY <1>1, HeadTailProperties, LenProperties
<1>5. r \in SessionRec /\ r.lock = p.lock /\ r.proc = p.proc /\ r.exited = p.exited
      /\ r.written = p.written /\ r.printed = p.printed
      /\ r.input = p.input /\ r.output = p.output /\ r.held = p.held /\ r.tty = p.tty
      /\ r.accum = p.accum \o Head(p.readCh) /\ r.readCh = Tail(p.readCh)
  BY <1>2, <1>3 DEF SessionRec
<1>6. Sane(r)
  BY <1>4, <1>5, Constants DEF Sane
<1> QED
  BY <1>5, <1>6 DEF Onward, Received, Records

LEMMA ReadEffect ==
    ASSUME NEW p \in SessionRec, Sane(p), p.held = <<>>, NEW n \in 1..Len(p.output), NEW r,
           r = [p EXCEPT !.held = SubSeq(p.output, 1, n), !.output = SubSeq(@, n + 1, Len(@))]
    PROVE  Onward(p, r) /\ TookUp(p, r, n)
<1>1. p.output \in Seq(Tokens) /\ Len(p.output) \in Nat
  BY LenProperties DEF SessionRec
<1>2. \A j \in 1..Len(p.output) : p.output[j] \in Tokens
  BY <1>1, ElementOfSeq
<1>3. SubSeq(p.output, 1, n) \in Seq(Tokens)
  BY <1>1, <1>2, SubSeqProperties
<1>4. SubSeq(p.output, n + 1, Len(p.output)) \in Seq(Tokens)
  BY <1>1, <1>2, SubSeqProperties
<1>5. r \in SessionRec /\ r.lock = p.lock /\ r.proc = p.proc /\ r.exited = p.exited
      /\ r.written = p.written /\ r.printed = p.printed
      /\ r.input = p.input /\ r.accum = p.accum /\ r.readCh = p.readCh /\ r.tty = p.tty
      /\ r.held = SubSeq(p.output, 1, n)
      /\ r.output = SubSeq(p.output, n + 1, Len(p.output))
  BY <1>3, <1>4 DEF SessionRec
<1> QED
  BY <1>5 DEF Sane, Onward, TookUp, Records

LEMMA SendEffect ==
    ASSUME NEW p \in SessionRec, Sane(p), p.held # <<>>, Len(p.readCh) < ChanCap, NEW r,
           r = [p EXCEPT !.readCh = Append(@, p.held), !.held = <<>>]
    PROVE  Onward(p, r) /\ Sent(p, r)
<1>1. p.held \in Seq(Tokens) /\ p.readCh \in Seq(Seq(Tokens)) /\ Len(p.readCh) \in Nat
  BY LenProperties DEF SessionRec
<1>2. /\ Append(p.readCh, p.held) \in Seq(Seq(Tokens))
      /\ Len(Append(p.readCh, p.held)) = Len(p.readCh) + 1
      /\ \A k \in 1..Len(p.readCh) : Append(p.readCh, p.held)[k] = p.readCh[k]
      /\ Append(p.readCh, p.held)[Len(p.readCh) + 1] = p.held
  BY <1>1, AppendProperties
<1>3. <<>> \in Seq(Tokens)
  BY EmptySeq
<1>4. r \in SessionRec /\ r.lock = p.lock /\ r.proc = p.proc /\ r.exited = p.exited
      /\ r.written = p.written /\ r.printed = p.printed
      /\ r.input = p.input /\ r.accum = p.accum /\ r.output = p.output /\ r.tty = p.tty
      /\ r.held = <<>> /\ r.readCh = Append(p.readCh, p.held)
  BY <1>2, <1>3 DEF SessionRec
<1>5. Sane(r)
  BY <1>1, <1>2, <1>4, Constants DEF Sane
<1> QED
  BY <1>4, <1>5 DEF Onward, Sent, Records

LEMMA CloseEffect ==
    ASSUME NEW p \in SessionRec, Sane(p), NEW r,
           \/ r = [p EXCEPT !.tty = FALSE, !.input = <<>>, !.output = <<>>]
           \/ r = [p EXCEPT !.proc = FALSE, !.input = <<>>]
    PROVE  Onward(p, r) /\ CutOff(p, r)
<1>1. <<>> \in Seq(Tokens) /\ <<>> \in Seq(0..MaxCommands) /\ Len(<<>>) = 0
  BY EmptySeq
<1>2. /\ r \in SessionRec /\ r.lock = p.lock /\ r.exited = p.exited
      /\ r.written = p.written /\ r.printed = p.printed
      /\ r.input = <<>> /\ r.accum = p.accum /\ r.readCh = p.readCh /\ r.held = p.held
      /\ r.output \in {<<>>, p.output} /\ r.proc \in {FALSE, p.proc}
      /\ r.tty => p.tty /\ r.output = p.output
  BY <1>1 DEF SessionRec
<1>3. Sane(r)
  <2>1. r.exited => ~r.proc
    BY <1>2 DEF Sane
  <2>2. \A k \in 1..Len(r.input) : r.input[k] <= r.written
    BY <1>1, <1>2
  <2> QED
    BY <1>2, <2>1, <2>2 DEF Sane
<1> QED
  BY <1>2, <1>3 DEF Onward, CutOff

\* The command at the head of the input is one that was written.
LEMMA HeadWritten ==
    ASSUME NEW p \in SessionRec, Sane(p), p.input # <<>>
    PROVE  /\ Head(p.input) \in 0..MaxCommands /\ Head(p.input) <= p.written
           /\ Head(p.input) = p.input[1]
           /\ Tail(p.input) \in Seq(0..MaxCommands)
           /\ Len(p.input) \in Nat \ {0} /\ Len(Tail(p.input)) = Len(p.input) - 1
           /\ \A k \in 1..Len(Tail(p.input)) : Tail(p.input)[k] = p.input[k + 1]
<1>1. p.input \in Seq(0..MaxCommands)
  BY DEF SessionRec
<1>2. Len(p.input) \in Nat \ {0} /\ Head(p.input) = p.input[1]
  BY <1>1, EmptySeq
<1>3. p.input[1] <= p.written
  BY <1>2 DEF Sane
<1> QED
  BY <1>1, <1>2, <1>3, HeadTailProperties

\* The command with number n prints once.
OneMore(p, n) == [p EXCEPT !.output = Append(@, [cmd |-> n, part |-> "out"]),
                         !.printed = [p.printed EXCEPT ![n] = @ + 1]]

Printed(p, r, n) ==
    /\ Added(p, r, <<[cmd |-> n, part |-> "out"]>>)
    /\ r.input = p.input /\ r.printed = [p.printed EXCEPT ![n] = @ + 1]

LEMMA PrintEffect ==
    ASSUME NEW p \in SessionRec, Sane(p), p.input # <<>>, NEW n, n = Head(p.input),
           NEW r, r = OneMore(p, n)
    PROVE  Onward(p, r) /\ Printed(p, r, n)
<1>1. n \in 0..MaxCommands /\ n <= p.written
  BY HeadWritten
<1>2. [cmd |-> n, part |-> "out"] \in Tokens
  BY <1>1 DEF Tokens
<1>3. /\ Append(p.output, [cmd |-> n, part |-> "out"]) \in Seq(Tokens)
      /\ Append(p.output, [cmd |-> n, part |-> "out"]) = p.output \o <<[cmd |-> n, part |-> "out"]>>
      /\ <<[cmd |-> n, part |-> "out"]>> \in Seq(Tokens)
  BY <1>2, AppendProperties, AppendIsConcat DEF SessionRec
<1>4. [p.printed EXCEPT ![n] = @ + 1] \in [0..MaxCommands -> Nat]
  BY <1>1 DEF SessionRec
<1>5. r \in SessionRec /\ r.lock = p.lock /\ r.proc = p.proc /\ r.exited = p.exited
      /\ r.input = p.input /\ r.accum = p.accum /\ r.readCh = p.readCh /\ r.held = p.held
      /\ r.tty = p.tty /\ r.output = Append(p.output, [cmd |-> n, part |-> "out"])
      /\ r.written = p.written /\ r.printed = [p.printed EXCEPT ![n] = @ + 1]
  BY <1>3, <1>4 DEF SessionRec, OneMore
<1>6. Sane(r)
  <2>1. \A m \in 0..MaxCommands : m > r.written => r.printed[m] = 0
    <3> SUFFICES ASSUME NEW m \in 0..MaxCommands, m > p.written
                 PROVE  r.printed[m] = 0
      BY <1>5
    <3>1. p.written \in Nat /\ p.printed \in [0..MaxCommands -> Nat]
      BY DEF SessionRec
    <3>2. m # n /\ p.printed[m] = 0
      BY <1>1, <3>1 DEF Sane
    <3> QED
      BY <1>5, <3>1, <3>2
  <2> QED
    BY <1>5, <2>1 DEF Sane
<1> QED
  BY <1>3, <1>5, <1>6 DEF Onward, Added, Printed, Records

\* What the program prints after a command's output.
Marks(n) == LET marks == IF n = 0 THEN <<"init", "newline">> ELSE <<"end", "code", "newline">>
            IN  [i \in DOMAIN marks |-> [cmd |-> n, part |-> marks[i]]]

LEMMA MarksType ==
    ASSUME NEW n \in 0..MaxCommands
    PROVE  /\ Marks(n) \in Seq(Tokens)
           /\ n = 0 => /\ Len(Marks(n)) = 2
                       /\ Marks(n)[1] = [cmd |-> n, part |-> "init"]
                       /\ Marks(n)[2] = [cmd |-> n, part |-> "newline"]
           /\ n # 0 => /\ Len(Marks(n)) = 3
                       /\ Marks(n)[1] = [cmd |-> n, part |-> "end"]
                       /\ Marks(n)[2] = [cmd |-> n, part |-> "code"]
                       /\ Marks(n)[3] = [cmd |-> n, part |-> "newline"]
<1>1. CASE n = 0
  <2>1. Marks(n) = [i \in 1..2 |-> [cmd |-> n, part |-> <<"init", "newline">>[i]]]
    BY <1>1 DEF Marks
  <2>2. /\ Marks(n) \in [1..2 -> Tokens]
        /\ Marks(n)[1] = [cmd |-> n, part |-> "init"]
        /\ Marks(n)[2] = [cmd |-> n, part |-> "newline"]
    BY <2>1 DEF Tokens
  <2>3. Marks(n) \in Seq(Tokens)
    <3>1. \E m \in Nat : Marks(n) \in [1..m -> Tokens]
      BY <2>2
    <3> QED
      BY <3>1, SeqDef
  <2>4. Len(Marks(n)) = 2
    BY <2>1
  <2> QED
    BY <1>1, <2>2, <2>3, <2>4
<1>2. CASE n # 0
  <2>1. Marks(n) = [i \in 1..3 |-> [cmd |-> n, part |-> <<"end", "code", "newline">>[i]]]
    BY <1>2 DEF Marks
  <2>2. /\ Marks(n) \in [1..3 -> Tokens]
        /\ Marks(n)[1] = [cmd |-> n, part |-> "end"]
        /\ Marks(n)[2] = [cmd |-> n, part |-> "code"]
        /\ Marks(n)[3] = [cmd |-> n, part |-> "newline"]
    BY <2>1 DEF Tokens
  <2>3. Marks(n) \in Seq(Tokens)
    <3>1. \E m \in Nat : Marks(n) \in [1..m -> Tokens]
      BY <2>2
    <3> QED
      BY <3>1, SeqDef
  <2>4. Len(Marks(n)) = 3
    BY <2>1
  <2> QED
    BY <1>2, <2>2, <2>3, <2>4
<1> QED
  BY <1>1, <1>2

LEMMA FinishEffect ==
    ASSUME NEW p \in SessionRec, Sane(p), p.input # <<>>, NEW n, n = Head(p.input), NEW r,
           r = [p EXCEPT !.input = Tail(@), !.output = @ \o Marks(n)]
    PROVE  /\ Onward(p, r) /\ Added(p, r, Marks(n))
           /\ r.input = Tail(p.input) /\ r.printed = p.printed
<1>1. n \in 0..MaxCommands /\ Tail(p.input) \in Seq(0..MaxCommands)
  BY HeadWritten
<1>2. p.output \o Marks(n) \in Seq(Tokens) /\ Marks(n) \in Seq(Tokens)
  BY <1>1, MarksType, ConcatProperties DEF SessionRec
<1>3. r \in SessionRec /\ r.lock = p.lock /\ r.proc = p.proc /\ r.exited = p.exited
      /\ r.written = p.written /\ r.printed = p.printed
      /\ r.input = Tail(p.input) /\ r.output = p.output \o Marks(n)
      /\ r.accum = p.accum /\ r.readCh = p.readCh /\ r.held = p.held /\ r.tty = p.tty
  BY <1>1, <1>2 DEF SessionRec
<1>4. Sane(r)
  <2>1. \A k \in 1..Len(r.input) : r.input[k] <= r.written
    <3> SUFFICES ASSUME NEW k \in 1..Len(Tail(p.input))
                 PROVE  Tail(p.input)[k] <= p.written
      BY <1>3
    <3>1. k + 1 \in 1..Len(p.input) /\ Tail(p.input)[k] = p.input[k + 1]
      BY HeadWritten
    <3> QED
      BY <3>1 DEF Sane
  <2> QED
    BY <1>3, <2>1 DEF Sane
<1> QED
  BY <1>2, <1>3, <1>4 DEF Onward, Added, Records

-----------------------------------------------------------------------------
(* What a step of call c keeps, one invariant at a time                    *)

Moved(c, r) == caller' = [caller EXCEPT ![c] = r]

LEMMA MovedTo ==
    ASSUME CallsInv, NEW c \in Callers, NEW r, Moved(c, r)
    PROVE  \A d \in Callers : caller'[d] = IF d = c THEN r ELSE caller[d]
BY DEF CallsInv, Moved

\* What every proof about a call starts from.
LEMMA CallFacts ==
    ASSUME CallsInv, NEW c \in Callers
    PROVE  /\ caller[c] \in Locals /\ Placed(caller[c])
           /\ caller[c].sess \in Sessions \cup {None} /\ caller[c].victim \in Sessions \cup {None}
           /\ caller[c].host \in Hosts \cup {None}
           /\ \A h \in Hosts : sessions[h] \in Sessions \cup {None}
           /\ \A s \in Sessions : session[s] \in SessionRec /\ Sane(session[s])
           /\ None \notin Sessions /\ None \notin Callers /\ None \notin Hosts
BY Constants DEF CallsInv, Locals

LEMMA CallsStep ==
    ASSUME CallsInv, NEW c \in Callers, NEW r \in Locals, Placed(r), Moved(c, r),
           sessions' \in [Hosts -> Sessions \cup {None}], mapLock' \in Callers \cup {None},
           session' \in [Sessions -> SessionRec], \A s \in Sessions : Sane(session'[s])
    PROVE  CallsInv'
<1>1. caller' \in [Callers -> Locals]
  BY DEF CallsInv, Moved
<1>2. ASSUME NEW d \in Callers PROVE Placed(caller'[d])
  BY MovedTo, CallFacts
<1> QED
  BY <1>1, <1>2 DEF CallsInv

LEMMA MapStep ==
    ASSUME CallsInv, MapLocked, NEW c \in Callers, NEW r, Moved(c, r),
           mapLock \in {None, c} \/ sessions' = sessions,
           mapLock' = mapLock \/ {mapLock, mapLock'} \subseteq {None, c},
           HoldsMap(r) <=> mapLock' = c,
           HoldsMap(r) /\ r.victim # None => sessions'[r.host] = r.victim
    PROVE  MapLocked'
<1> SUFFICES ASSUME NEW d \in Callers
             PROVE  /\ HoldsMap(caller'[d]) <=> mapLock' = d
                    /\ HoldsMap(caller'[d]) /\ caller'[d].victim # None =>
                           sessions'[caller'[d].host] = caller'[d].victim
  BY DEF MapLocked
<1>1. caller'[d] = IF d = c THEN r ELSE caller[d]
  BY MovedTo
<1>2. CASE d = c
  BY <1>1, <1>2
<1>3. CASE d # c
  <2>1. /\ HoldsMap(caller[d]) <=> mapLock = d
        /\ HoldsMap(caller[d]) /\ caller[d].victim # None => sessions[caller[d].host] = caller[d].victim
    BY DEF MapLocked
  <2>2. mapLock' = d <=> mapLock = d
    BY <1>3, Constants
  <2>3. mapLock = d => sessions' = sessions
    BY <1>3, Constants
  <2> QED
    BY <1>1, <1>3, <2>1, <2>2, <2>3
<1> QED
  BY <1>2, <1>3

LEMMA LockStep ==
    ASSUME CallsInv, SessionLocked, NEW c \in Callers, NEW r, Moved(c, r),
           \A s \in Sessions : \/ session'[s].lock = session[s].lock
                               \/ {session'[s].lock, session[s].lock} \subseteq {None, c},
           HoldsSession(r) => session'[r.sess].lock = c,
           \A s \in Sessions : session'[s].lock = c => HoldsSession(r) /\ r.sess = s
    PROVE  SessionLocked'
<1>1. ASSUME NEW d \in Callers, HoldsSession(caller'[d]) PROVE session'[caller'[d].sess].lock = d
  <2>1. CASE d = c
    BY <1>1, <2>1, MovedTo
  <2>2. CASE d # c
    <3>1. caller'[d] = caller[d]
      BY <2>2, MovedTo
    <3>2. caller[d].sess \in Sessions
      BY <1>1, <3>1, CallFacts DEF HoldsSession, Placed
    <3>3. session[caller[d].sess].lock = d
      BY <1>1, <3>1 DEF SessionLocked
    <3> QED
      BY <2>2, <3>1, <3>2, <3>3, Constants
  <2> QED
    BY <2>1, <2>2
<1>2. ASSUME NEW s \in Sessions, NEW d \in Callers, session'[s].lock = d
      PROVE  HoldsSession(caller'[d]) /\ caller'[d].sess = s
  <2>1. CASE d = c
    BY <1>2, <2>1, MovedTo
  <2>2. CASE d # c
    <3>1. session[s].lock = d
      BY <1>2, <2>2, Constants
    <3> QED
      BY <2>2, <3>1, MovedTo DEF SessionLocked
  <2> QED
    BY <2>1, <2>2
<1> QED
  BY <1>1, <1>2 DEF SessionLocked

\* A name that is not that of a session another call is setting up.
Shared(x, c) == \A d \in Callers : d # c /\ Connecting(caller[d]) => x # caller[d].sess

LEMMA SharedNames ==
    ASSUME CallsInv, Private, NEW c \in Callers
    PROVE  /\ Shared(None, c) /\ Shared(caller[c].sess, c) /\ Shared(caller[c].victim, c)
           /\ \A h \in Hosts : Shared(sessions[h], c)
BY DEF Shared, Private, Connecting

LEMMA PrivateStep ==
    ASSUME CallsInv, Private, NEW c \in Callers, NEW r, Moved(c, r),
           Shared(r.sess, c), Shared(r.victim, c), \A h \in Hosts : Shared(sessions'[h], c),
           Connecting(r) => /\ \A h \in Hosts : sessions'[h] # r.sess
                            /\ \A d \in Callers : d # c =>
                                   caller[d].sess # r.sess /\ caller[d].victim # r.sess
    PROVE  Private'
<1> SUFFICES ASSUME NEW d \in Callers, Connecting(caller'[d])
             PROVE  /\ \A h \in Hosts : sessions'[h] # caller'[d].sess
                    /\ \A e \in Callers : e # d =>
                           caller'[e].sess # caller'[d].sess /\ caller'[e].victim # caller'[d].sess
  BY DEF Private
<1>1. CASE d = c
  BY <1>1, MovedTo
<1>2. CASE d # c
  <2>1. caller'[d] = caller[d]
    BY <1>2, MovedTo
  <2>2. \A h \in Hosts : sessions'[h] # caller'[d].sess
    BY <1>2, <2>1 DEF Shared
  <2>3. ASSUME NEW e \in Callers, e # d
        PROVE  caller'[e].sess # caller'[d].sess /\ caller'[e].victim # caller'[d].sess
    <3>1. CASE e = c
      BY <1>2, <2>1, <3>1, MovedTo DEF Shared
    <3>2. CASE e # c
      BY <2>1, <2>3, <3>2, MovedTo DEF Private
    <3> QED
      BY <3>1, <3>2
  <2> QED
    BY <2>2, <2>3
<1> QED
  BY <1>1, <1>2

\* The call will end the session or store it.
AnswersFor(q, s) == q.victim = s \/ (q.sess = s /\ q.op = "connect")
Mapped(m, s) == \E h \in Hosts : m[h] = s

LEMMA OrphanStep ==
    ASSUME CallsInv, NoOrphanProgram, NEW c \in Callers, NEW r, Moved(c, r),
           \A s \in Sessions : session'[s].proc =>
               \/ AnswersFor(r, s)
               \/ Mapped(sessions', s)
               \/ session[s].proc /\ ~Mapped(sessions, s) /\ ~AnswersFor(caller[c], s)
    PROVE  NoOrphanProgram'
<1> SUFFICES ASSUME NEW s \in Sessions, session'[s].proc
             PROVE  Mapped(sessions', s) \/ \E d \in Callers : AnswersFor(caller'[d], s)
  BY DEF NoOrphanProgram, Mapped, AnswersFor
<1>1. CASE AnswersFor(r, s)
  BY <1>1, MovedTo
<1>2. CASE Mapped(sessions', s)
  BY <1>2
<1>3. CASE session[s].proc /\ ~Mapped(sessions, s) /\ ~AnswersFor(caller[c], s)
  <2>1. PICK d \in Callers : AnswersFor(caller[d], s)
    BY <1>3 DEF NoOrphanProgram, Mapped, AnswersFor
  <2>2. caller'[d] = caller[d]
    BY <1>3, <2>1, MovedTo
  <2> QED
    BY <2>1, <2>2
<1> QED
  BY <1>1, <1>2, <1>3

\* What any call could rely on in a session that was p, it can in r.
Carries(p, r) == \A q \in Locals : Pipe(p, q) => Pipe(r, q)

Settled(p) == Clean(p) \/ p.exited

LEMMA PipeStep ==
    ASSUME CallsInv, PipeInv, NEW c \in Callers, NEW r \in Locals, Moved(c, r),
           \A d \in Callers : d # c /\ caller[d].sess # None /\ caller[d].pc # "lock" =>
               Carries(session[caller[d].sess], session'[caller[d].sess]),
           r.sess # None => Pipe(session'[r.sess], r),
           \A s \in Sessions : ~Uses(r, s) =>
               \/ Settled(session'[s])
               \/ ~Uses(caller[c], s) /\ (Settled(session[s]) => Settled(session'[s]))
    PROVE  PipeInv'
<1>1. ASSUME NEW d \in Callers, caller'[d].sess # None
      PROVE  Pipe(session'[caller'[d].sess], caller'[d])
  <2>1. CASE d = c
    BY <1>1, <2>1, MovedTo
  <2>2. CASE d # c
    <3>1. caller'[d] = caller[d] /\ caller[d] \in Locals
      BY <2>2, MovedTo, CallFacts
    <3>2. Pipe(session[caller[d].sess], caller[d])
      BY <1>1, <3>1 DEF PipeInv
    <3>3. CASE caller[d].pc = "lock"
      BY <3>1, <3>3 DEF Pipe
    <3>4. CASE caller[d].pc # "lock"
      BY <1>1, <2>2, <3>1, <3>2, <3>4 DEF Carries
    <3> QED
      BY <3>3, <3>4
  <2> QED
    BY <2>1, <2>2
<1>2. ASSUME NEW s \in Sessions, \A d \in Callers : ~Uses(caller'[d], s)
      PROVE  Settled(session'[s])
  <2>1. ~Uses(r, s)
    BY <1>2, MovedTo
  <2>2. CASE ~Uses(caller[c], s) /\ (Settled(session[s]) => Settled(session'[s]))
    <3>1. \A d \in Callers : ~Uses(caller[d], s)
      <4> SUFFICES ASSUME NEW d \in Callers, d # c PROVE ~Uses(caller[d], s)
        BY <2>2
      <4>1. caller'[d] = caller[d]
        BY MovedTo
      <4> QED
        BY <1>2, <4>1
    <3> QED
      BY <2>2, <3>1 DEF PipeInv, Settled
  <2> QED
    BY <2>1, <2>2
<1> QED
  BY <1>1, <1>2 DEF PipeInv, Settled

\* Whoever shares a session with its owner is waiting for its lock.
LEMMA Alone ==
    ASSUME CallsInv, LocksInv, NEW c \in Callers, NEW d \in Callers, d # c,
           HoldsSession(caller[c]) \/ Connecting(caller[c]),
           caller[d].sess = caller[c].sess, caller[d].sess # None
    PROVE  caller[d].pc = "lock"
<1>1. ~Connecting(caller[c]) /\ ~Connecting(caller[d])
  BY DEF LocksInv, Private, Connecting
<1>2. HoldsSession(caller[c]) /\ session[caller[c].sess].lock = c
  BY <1>1 DEF LocksInv, SessionLocked
<1>3. ~HoldsSession(caller[d])
  BY <1>2 DEF LocksInv, SessionLocked
<1>4. caller[d].sess \in Sessions /\ caller[d].op = "execute"
  BY <1>1, CallFacts DEF Connecting, Placed, Locals
<1> QED
  BY <1>3, <1>4, CallFacts DEF HoldsSession, Placed, Locals, Labels

-----------------------------------------------------------------------------
(* Two ways of moving: the sessions alone, or one call alone               *)

\* A step of the session's goroutines or of its program.
LEMMA SessionStep ==
    ASSUME IndInv, NEW s \in Sessions, NEW r, session' = [session EXCEPT ![s] = r],
           Onward(session[s], r), Carries(session[s], r),
           Settled(session[s]) => Settled(r),
           UNCHANGED <<sessions, mapLock, caller>>
    PROVE  IndInv'
<1>1. CallsInv /\ LocksInv /\ PipeInv
  BY DEF IndInv
<1>2. \A t \in Sessions : session'[t] = IF t = s THEN r ELSE session[t]
  BY <1>1 DEF CallsInv
<1>3. \A t \in Sessions : /\ session'[t].lock = session[t].lock
                          /\ session'[t].proc => session[t].proc
                          /\ Settled(session[t]) => Settled(session'[t])
                          /\ Carries(session[t], session'[t])
  BY <1>2 DEF Onward, Carries
<1>4. CallsInv'
  <2>1. session' \in [Sessions -> SessionRec]
    BY <1>1 DEF CallsInv, Onward
  <2>2. \A t \in Sessions : Sane(session'[t])
    BY <1>1, <1>2 DEF CallsInv, Onward
  <2> QED
    BY <1>1, <2>1, <2>2 DEF CallsInv
<1>5. LocksInv'
  <2>1. MapLocked' /\ Private'
    BY <1>1 DEF LocksInv, MapLocked, Private
  <2>2. SessionLocked'
    <3>1. \A c \in Callers : HoldsSession(caller[c]) => caller[c].sess \in Sessions
      BY <1>1, CallFacts DEF HoldsSession, Placed
    <3> QED
      BY <1>1, <1>3, <3>1 DEF LocksInv, SessionLocked
  <2>3. NoOrphanProgram'
    BY <1>1, <1>3 DEF LocksInv, NoOrphanProgram
  <2> QED
    BY <2>1, <2>2, <2>3 DEF LocksInv
<1>6. PipeInv'
  <2>1. \A c \in Callers : caller[c] \in Locals /\ caller[c].sess \in Sessions \cup {None}
    BY <1>1, CallFacts
  <2> QED
    BY <1>1, <1>3, <2>1 DEF PipeInv, Carries, Settled
<1> QED
  BY <1>4, <1>5, <1>6 DEF IndInv

\* A step of one call that takes and gives back no lock and changes at most
\* its own session, which stays its own.
LEMMA OwnStep ==
    ASSUME IndInv, NEW c \in Callers, NEW r \in Locals, Moved(c, r), Placed(r),
           UNCHANGED <<sessions, mapLock>>,
           NEW p, Onward(session[caller[c].sess], p),
           session' = [session EXCEPT ![caller[c].sess] = p],
           caller[c].sess \in Sessions, r.sess = caller[c].sess, r.op = caller[c].op,
           HoldsSession(caller[c]) \/ Connecting(caller[c]),
           HoldsSession(r) <=> HoldsSession(caller[c]),
           ~HoldsMap(r), ~HoldsMap(caller[c]),
           caller[c].victim = None, r.victim \in {None, r.sess},
           Pipe(p, r), Uses(r, r.sess) \/ Settled(p)
    PROVE  IndInv'
<1> DEFINE s == caller[c].sess
<1>1. CallsInv /\ LocksInv /\ PipeInv
  BY DEF IndInv
<1>2. MapLocked /\ SessionLocked /\ Private /\ NoOrphanProgram
  BY <1>1 DEF LocksInv
<1>3. \A t \in Sessions : session'[t] = IF t = s THEN p ELSE session[t]
  BY <1>1 DEF CallsInv
<1>4. \A t \in Sessions : /\ session'[t].lock = session[t].lock
                          /\ session'[t].proc => session[t].proc
  BY <1>3 DEF Onward
<1>5. CallsInv'
  <2>1. session' \in [Sessions -> SessionRec]
    BY <1>1 DEF CallsInv, Onward
  <2>2. \A t \in Sessions : Sane(session'[t])
    BY <1>1, <1>3 DEF CallsInv, Onward
  <2>3. sessions' \in [Hosts -> Sessions \cup {None}] /\ mapLock' \in Callers \cup {None}
    BY <1>1 DEF CallsInv
  <2> QED
    BY <1>1, <2>1, <2>2, <2>3, CallsStep
<1>6. MapLocked'
  BY <1>1, <1>2, MapStep DEF MapLocked
<1>7. SessionLocked'
  <2>1. HoldsSession(r) => session'[r.sess].lock = c
    BY <1>2, <1>4 DEF SessionLocked
  <2>2. \A t \in Sessions : session'[t].lock = c => HoldsSession(r) /\ r.sess = t
    BY <1>2, <1>4 DEF SessionLocked
  <2> QED
    BY <1>1, <1>2, <1>4, <2>1, <2>2, LockStep
<1>8. Private'
  <2>1. Shared(r.sess, c) /\ Shared(r.victim, c) /\ \A h \in Hosts : Shared(sessions'[h], c)
    BY <1>1, <1>2, SharedNames
  <2>2. Connecting(r) => /\ \A h \in Hosts : sessions'[h] # r.sess
                         /\ \A d \in Callers : d # c =>
                               caller[d].sess # r.sess /\ caller[d].victim # r.sess
    BY <1>2 DEF Private, Connecting
  <2> QED
    BY <1>1, <1>2, <2>1, <2>2, PrivateStep
<1>9. NoOrphanProgram'
  <2>1. ASSUME NEW t \in Sessions, session'[t].proc
        PROVE  \/ AnswersFor(r, t) \/ Mapped(sessions', t)
               \/ session[t].proc /\ ~Mapped(sessions, t) /\ ~AnswersFor(caller[c], t)
    BY <1>1, <1>4, <2>1, CallFacts DEF AnswersFor, Mapped
  <2> QED
    BY <1>1, <1>2, <2>1, OrphanStep
<1>10. PipeInv'
  <2>1. ASSUME NEW d \in Callers, d # c, caller[d].sess # None, caller[d].pc # "lock"
        PROVE  Carries(session[caller[d].sess], session'[caller[d].sess])
    <3>1. caller[d].sess # s
      BY <1>1, <2>1, Alone
    <3>2. caller[d].sess \in Sessions
      BY <1>1, <2>1, CallFacts
    <3> QED
      BY <1>3, <3>1, <3>2 DEF Carries
  <2>2. r.sess # None => Pipe(session'[r.sess], r)
    BY <1>3
  <2>3. ASSUME NEW t \in Sessions, ~Uses(r, t)
        PROVE  \/ Settled(session'[t])
               \/ ~Uses(caller[c], t) /\ (Settled(session[t]) => Settled(session'[t]))
    <3>1. CASE t = s
      BY <1>3, <2>3, <3>1
    <3>2. CASE t # s
      BY <1>3, <3>2 DEF Uses
    <3> QED
      BY <3>1, <3>2
  <2> QED
    BY <1>1, <2>1, <2>2, <2>3, PipeStep
<1> QED
  BY <1>5, <1>6, <1>7, <1>8, <1>9, <1>10 DEF IndInv, LocksInv

-----------------------------------------------------------------------------
(* The pipeline moves tokens on and loses none                             *)

LEMMA Lengths ==
    ASSUME NEW p \in SessionRec
    PROVE  /\ Len(p.accum) \in Nat /\ Len(p.held) \in Nat /\ Len(p.output) \in Nat
           /\ Len(p.readCh) \in Nat /\ Len(p.input) \in Nat
           /\ \A k \in 1..Len(p.readCh) : p.readCh[k] \in Seq(Tokens) /\ Len(p.readCh[k]) \in Nat
           /\ p.printed \in [0..MaxCommands -> Nat] /\ p.written \in Nat
<1>1. p.readCh \in Seq(Seq(Tokens)) /\ Len(p.readCh) \in Nat
  BY LenProperties DEF SessionRec
<1>2. ASSUME NEW k \in 1..Len(p.readCh)
      PROVE  p.readCh[k] \in Seq(Tokens) /\ Len(p.readCh[k]) \in Nat
  BY <1>1, ElementOfSeq, LenProperties
<1>3. Len(p.accum) \in Nat /\ Len(p.held) \in Nat /\ Len(p.output) \in Nat /\ Len(p.input) \in Nat
  BY LenProperties DEF SessionRec
<1> QED
  BY <1>1, <1>2, <1>3 DEF SessionRec

\* Only what was printed and what is to be run matter.
LEMMA SameTokens ==
    ASSUME NEW p, NEW r, r.printed = p.printed
    PROVE  /\ \A n, x, from : PartOf(r, n, x, from) <=> PartOf(p, n, x, from)
           /\ \A n, ch, at : ReadsOf(r, n, ch, at) <=> ReadsOf(p, n, ch, at)
           /\ \A n, end : r.input = p.input /\ r.tty = p.tty =>
                               (Reaches(r, n, end) <=> Reaches(p, n, end))
           /\ \A n : /\ Total(r, n) = Total(p, n) /\ Unmarked(r, n) = Unmarked(p, n)
                     /\ Outputs(r, n) = Outputs(p, n)
<1>1. \A n, j : Token(r, n, j) = Token(p, n, j)
  BY DEF Token
<1>2. \A n, x, from : PartOf(r, n, x, from) <=> PartOf(p, n, x, from)
  BY <1>1 DEF PartOf
<1>3. \A n, ch, at : ReadsOf(r, n, ch, at) <=> ReadsOf(p, n, ch, at)
  BY <1>2 DEF ReadsOf
<1>4. \A n : Total(r, n) = Total(p, n) /\ Unmarked(r, n) = Unmarked(p, n)
  BY DEF Total, Unmarked
<1>5. \A n : Outputs(r, n) = Outputs(p, n)
  BY <1>1 DEF Outputs
<1>6. \A n, end : r.input = p.input /\ r.tty = p.tty => (Reaches(r, n, end) <=> Reaches(p, n, end))
  BY <1>4 DEF Reaches
<1> QED
  BY <1>2, <1>3, <1>4, <1>5, <1>6

\* The numbers of tokens.
LEMMA Amounts ==
    ASSUME NEW p \in SessionRec, NEW n \in 0..MaxCommands
    PROVE  /\ p.printed[n] \in Nat /\ Total(p, n) \in Nat /\ Unmarked(p, n) \in Nat
           /\ Total(p, n) - 1 \in Nat /\ Unmarked(p, n) < Total(p, n)
           /\ p.written \in 0..MaxCommands /\ p.written \in Nat
<1>1. p.printed[n] \in Nat /\ p.written \in 0..MaxCommands /\ p.written \in Nat
  BY Constants DEF SessionRec
<1> QED
  BY <1>1 DEF Total, Unmarked

LEMMA StreamsCarry ==
    ASSUME NEW p \in SessionRec, NEW r, Onward(p, r), r.printed = p.printed,
           r.written = p.written, Empty(p) => Empty(r),
           \A n \in 0..MaxCommands, b \in Nat : Streams(p, n, b) => Streams(r, n, b)
    PROVE  Carries(p, r) /\ (Settled(p) => Settled(r))
<1>1. Clean(p) => Clean(r)
  <2>1. /\ p.written \in 0..MaxCommands /\ Total(p, p.written) - 1 \in Nat
        /\ Total(r, p.written) = Total(p, p.written)
    <3>1. p.written \in 0..MaxCommands
      BY DEF SessionRec
    <3> QED
      BY <3>1, Amounts, SameTokens
  <2> QED
    BY <2>1 DEF Clean
<1>2. ASSUME NEW q \in Locals, Pipe(p, q) PROVE Pipe(r, q)
  <2>1. q.cmd \in 0..MaxCommands /\ p.printed[q.cmd] + 2 \in Nat /\ 0 \in 0..MaxCommands
    BY Amounts, Constants DEF Locals
  <2>2. (q.pc = "init" => Empty(r)) /\ (q.pc \in {"write", "result"} => Clean(r))
    BY <1>1, <1>2 DEF Pipe
  <2>3. q.pc \in {"scan", "drain"} /\ q.want = "init" => Streams(r, 0, 0) /\ r.written = 0
    BY <1>2, <2>1 DEF Pipe
  <2>4. q.pc \in {"scan", "drain"} /\ q.want = "end" => Streams(r, q.cmd, 0) /\ r.written = q.cmd
    BY <1>2, <2>1 DEF Pipe
  <2>5. q.pc \in {"scan", "drain"} /\ q.want = "code" =>
            /\ Streams(r, q.cmd, r.printed[q.cmd] + 2) /\ r.written = q.cmd
            /\ q.got = Outputs(r, q.cmd)
    BY <1>2, <2>1, SameTokens DEF Pipe
  <2>6. q.pc = "result" => q.got = Outputs(r, q.cmd)
    BY <1>2, SameTokens DEF Pipe
  <2> QED
    BY <2>2, <2>3, <2>4, <2>5, <2>6 DEF Pipe
<1> QED
  BY <1>1, <1>2 DEF Carries, Settled, Onward

LEMMA SameFlow ==
    ASSUME NEW p \in SessionRec, NEW r, Onward(p, r), Flow(r) = Flow(p), History(r) = History(p)
    PROVE  Carries(p, r) /\ (Settled(p) => Settled(r))
<1>1. /\ r.input = p.input /\ r.output = p.output /\ r.held = p.held /\ r.readCh = p.readCh
      /\ r.accum = p.accum /\ r.tty = p.tty /\ r.printed = p.printed /\ r.written = p.written
  BY DEF Flow, History
<1>2. \A n \in 0..MaxCommands, b \in Nat : Streams(p, n, b) => Streams(r, n, b)
  BY <1>1, SameTokens DEF Streams, Stretch
<1> QED
  BY <1>1, <1>2, StreamsCarry DEF Empty

\* Two parts, one behind the other, and a part in two.
LEMMA Joined ==
    ASSUME NEW p, NEW n, NEW b \in Nat, NEW x \in Seq(Tokens), NEW y \in Seq(Tokens),
           PartOf(p, n, x, b), PartOf(p, n, y, b + Len(x))
    PROVE  PartOf(p, n, x \o y, b)
<1>1. PICK A, B : A = Len(x) /\ B = Len(y)
  OBVIOUS
<1>2. A \in Nat /\ B \in Nat
  BY <1>1, LenProperties
<1>3. PICK z : z = x \o y
  OBVIOUS
<1>4. Len(z) = A + B /\ \A j \in 1..(A + B) : z[j] = IF j <= A THEN x[j] ELSE y[j - A]
  BY <1>1, <1>3, ConcatProperties
<1>5. \A j \in 1..A : x[j] = Token(p, n, b + j)
  BY <1>1 DEF PartOf
<1>6. \A j \in 1..B : y[j] = Token(p, n, (b + A) + j)
  BY <1>1 DEF PartOf
<1>7. ASSUME NEW j \in 1..(A + B) PROVE z[j] = Token(p, n, b + j)
  <2>1. CASE j <= A
    BY <1>2, <1>4, <1>5, <2>1
  <2>2. CASE ~(j <= A)
    <3>1. j - A \in 1..B /\ (b + A) + (j - A) = b + j
      BY <1>2, <2>2
    <3>2. z[j] = y[j - A]
      BY <1>4, <2>2
    <3> QED
      BY <1>6, <3>1, <3>2
  <2> QED
    BY <2>1, <2>2
<1> QED
  BY <1>3, <1>4, <1>7 DEF PartOf

LEMMA CutInTwo ==
    ASSUME NEW p, NEW n, NEW b \in Nat, NEW x \in Seq(Tokens), NEW i \in 0..Len(x),
           PartOf(p, n, x, b)
    PROVE  /\ Len(SubSeq(x, 1, i)) = i /\ PartOf(p, n, SubSeq(x, 1, i), b)
           /\ Len(SubSeq(x, i + 1, Len(x))) = Len(x) - i
           /\ PartOf(p, n, SubSeq(x, i + 1, Len(x)), b + i)
<1>1. PICK A : A = Len(x)
  OBVIOUS
<1>2. A \in Nat /\ i \in 0..A /\ \A j \in 1..A : x[j] \in Tokens
  BY <1>1, LenProperties, ElementOfSeq
<1>3. \A j \in 1..A : x[j] = Token(p, n, b + j)
  BY <1>1 DEF PartOf
<1>4. PICK y, z : y = SubSeq(x, 1, i) /\ z = SubSeq(x, i + 1, A)
  OBVIOUS
<1>5. Len(y) = i /\ \A j \in 1..i : y[j] = x[j]
  BY <1>2, <1>4, SubSeqProperties
<1>6. Len(z) = A - i /\ \A j \in 1..(A - i) : z[j] = x[i + j]
  BY <1>2, <1>4, SubSeqProperties
<1>7. PartOf(p, n, y, b)
  BY <1>2, <1>3, <1>5 DEF PartOf
<1>8. ASSUME NEW j \in 1..(A - i) PROVE z[j] = Token(p, n, (b + i) + j)
  <2>1. i + j \in 1..A /\ b + (i + j) = (b + i) + j
    BY <1>2
  <2> QED
    BY <1>3, <1>6, <2>1
<1> QED
  BY <1>1, <1>4, <1>5, <1>6, <1>7, <1>8 DEF PartOf

Laid(p, n, ch, at) ==
    /\ at \in [1..(Len(ch) + 1) -> Nat]
    /\ Starts(ch, at) /\ Rising(ch, at) /\ ReadsOf(p, n, ch, at)

\* Without its first read, the channel begins at its second and ends as before.
Behind(ch, at, new) == new[1] = at[2] /\ new[Len(Tail(ch)) + 1] = at[Len(ch) + 1]

\* The first read is gone: the others move up.
LEMMA MovedUp ==
    ASSUME NEW p, NEW n, NEW ch \in Seq(Seq(Tokens)), ch # <<>>, NEW at, Laid(p, n, ch, at)
    PROVE  \E new : Laid(p, n, Tail(ch), new) /\ Behind(ch, at, new)
<1>0. /\ at \in [1..(Len(ch) + 1) -> Nat]
      /\ Starts(ch, at) /\ Rising(ch, at) /\ ReadsOf(p, n, ch, at)
  BY DEF Laid
<1>1. PICK L, rest : L = Len(ch) /\ rest = Tail(ch)
  OBVIOUS
<1>2. /\ L \in Nat \ {0} /\ Len(rest) = L - 1 /\ (L - 1) + 1 = L
      /\ \A k \in 1..(L - 1) : rest[k] = ch[k + 1]
  BY <1>1, EmptySeq, HeadTailProperties
<1>3. PICK new : new = [k \in 1..L |-> at[k + 1]]
  OBVIOUS
<1>4. new \in [1..L -> Nat] /\ \A k \in 1..L : new[k] = at[k + 1]
  BY <1>0, <1>1, <1>2, <1>3
<1>5. ASSUME NEW k \in 1..(L - 1)
      PROVE  new[k + 1] = new[k] + Len(rest[k]) /\ PartOf(p, n, rest[k], new[k])
  <2>1. PICK m : m = k + 1
    OBVIOUS
  <2>2. m \in 1..L /\ k \in 1..L /\ rest[k] = ch[m] /\ new[k] = at[m] /\ new[m] = at[m + 1]
    BY <1>2, <1>4, <2>1
  <2>3. at[m + 1] = at[m] + Len(ch[m]) /\ PartOf(p, n, ch[m], at[m])
    BY <1>0, <1>1, <2>2 DEF Starts, ReadsOf
  <2> QED
    BY <2>1, <2>2, <2>3
<1>6. ASSUME NEW k \in 1..L, NEW m \in 1..L, k < m PROVE new[k] < new[m]
  <2>1. k + 1 \in 1..(L + 1) /\ m + 1 \in 1..(L + 1) /\ k + 1 < m + 1
    BY <1>2, <1>6
  <2>2. at[k + 1] < at[m + 1]
    BY <1>0, <1>1, <2>1 DEF Rising
  <2> QED
    BY <1>4, <2>2
<1>7. new[1] = at[2] /\ new[L] = at[L + 1]
  BY <1>2, <1>4
<1>8. Starts(rest, new) /\ ReadsOf(p, n, rest, new)
  BY <1>2, <1>5 DEF Starts, ReadsOf
<1>9. Rising(rest, new)
  BY <1>2, <1>6 DEF Rising
<1>10. Laid(p, n, rest, new)
  BY <1>2, <1>4, <1>8, <1>9 DEF Laid
<1>11. Behind(ch, at, new)
  BY <1>1, <1>2, <1>7 DEF Behind
<1> QED
  BY <1>1, <1>10, <1>11

\* A scan takes the first read from the channel.
LEMMA ReceiveStream ==
    ASSUME NEW p \in SessionRec, NEW r \in SessionRec, Received(p, r),
           NEW n \in 0..MaxCommands, NEW b \in Nat, Streams(p, n, b)
    PROVE  Streams(r, n, b)
<1>1. p.readCh \in Seq(Seq(Tokens)) /\ p.accum \in Seq(Tokens) /\ p.readCh # <<>>
  BY DEF SessionRec, Received
<1>2. PICK H : H = p.readCh[1]
  OBVIOUS
<1>3. H = Head(p.readCh) /\ H \in Seq(Tokens) /\ Len(p.readCh) \in Nat \ {0} /\ Len(H) \in Nat
  BY <1>1, <1>2, EmptySeq, ElementOfSeq, LenProperties
<1>4. PICK at \in [1..(Len(p.readCh) + 1) -> Nat] : Stretch(p, n, b, at)
  BY DEF Streams
<1>5. PICK new : Laid(p, n, Tail(p.readCh), new) /\ Behind(p.readCh, at, new)
  <2>1. Laid(p, n, p.readCh, at)
    BY <1>4 DEF Stretch, Laid
  <2> QED
    BY <1>1, <2>1, MovedUp
<1>6. at[1] = b + Len(p.accum) /\ PartOf(p, n, p.accum, b)
  BY <1>4 DEF Stretch
<1>7. at[2] = at[1] + Len(H) /\ PartOf(p, n, H, at[1])
  <2>1. 1 \in 1..Len(p.readCh) /\ 1 + 1 = 2
    BY <1>3
  <2>2. Starts(p.readCh, at) /\ ReadsOf(p, n, p.readCh, at)
    BY <1>4 DEF Stretch
  <2>3. at[2] = at[1] + Len(p.readCh[1])
    BY <2>1, <2>2 DEF Starts
  <2>4. PartOf(p, n, p.readCh[1], at[1])
    BY <2>1, <2>2 DEF ReadsOf
  <2>5. at[2] = at[1] + Len(H)
    BY <1>2, <2>3
  <2>6. PartOf(p, n, H, at[1])
    BY <1>2, <2>4
  <2> QED
    BY <2>5, <2>6
<1>8. PartOf(p, n, p.accum \o H, b) /\ Len(p.accum \o H) = Len(p.accum) + Len(H)
  BY <1>1, <1>3, <1>6, <1>7, Joined, ConcatProperties, ZenonT(60)
<1>9. new[1] = b + Len(p.accum \o H)
  <2>1. PICK A, B : A = Len(p.accum) /\ B = Len(H)
    OBVIOUS
  <2>2. A \in Nat /\ B \in Nat
    BY <1>1, <1>3, <2>1, LenProperties
  <2>3. new[1] = (b + A) + B
    BY <1>5, <1>6, <1>7, <2>1 DEF Behind
  <2>4. Len(p.accum \o H) = A + B
    BY <1>8, <2>1
  <2> QED
    BY <2>2, <2>3, <2>4
<1>10. /\ r.accum = p.accum \o H /\ r.readCh = Tail(p.readCh) /\ r.printed = p.printed
       /\ r.input = p.input /\ r.output = p.output /\ r.held = p.held /\ r.tty = p.tty
  BY <1>3 DEF Received, Records
<1>11. LET last == at[Len(p.readCh) + 1]
       IN  /\ PartOf(p, n, p.held, last) /\ PartOf(p, n, p.output, last + Len(p.held))
           /\ Reaches(p, n, last + Len(p.held) + Len(p.output))
  BY <1>4 DEF Stretch
<1>12. Stretch(r, n, b, new)
  BY <1>5, <1>8, <1>9, <1>10, <1>11, SameTokens DEF Stretch, Laid, Behind
<1> QED
  BY <1>5, <1>10, <1>12 DEF Streams, Laid

\* The reader takes a part of what the PTY holds.
LEMMA ReadStream ==
    ASSUME NEW p \in SessionRec, NEW r \in SessionRec, NEW i, TookUp(p, r, i),
           NEW n \in 0..MaxCommands, NEW b \in Nat, Streams(p, n, b)
    PROVE  Streams(r, n, b)
<1>1. PICK at \in [1..(Len(p.readCh) + 1) -> Nat] : Stretch(p, n, b, at)
  BY DEF Streams
<1>2. PICK last : last = at[Len(p.readCh) + 1]
  OBVIOUS
<1>3. p.output \in Seq(Tokens) /\ Len(p.output) \in Nat /\ i \in 1..Len(p.output)
      /\ Len(p.held) = 0 /\ last \in Nat
  <2>1. Len(p.output) \in Nat /\ Len(p.readCh) \in Nat /\ i \in 1..Len(p.output) /\ Len(p.held) = 0
    BY Lengths, EmptySeq DEF TookUp
  <2>2. last \in Nat
    BY <1>1, <1>2, <2>1
  <2> QED
    BY <2>1, <2>2 DEF SessionRec
<1>4. /\ r.held = SubSeq(p.output, 1, i) /\ r.output = SubSeq(p.output, i + 1, Len(p.output))
      /\ r.input = p.input /\ r.accum = p.accum /\ r.readCh = p.readCh /\ r.printed = p.printed
      /\ r.tty = p.tty
  BY DEF TookUp, Records
<1>5. PartOf(p, n, p.output, last) /\ Reaches(p, n, last + Len(p.output))
  <2>1. last + Len(p.held) = last
    BY <1>3
  <2> QED
    BY <1>1, <1>2, <2>1 DEF Stretch
<1>6. /\ Len(r.held) = i /\ PartOf(p, n, r.held, last)
      /\ Len(r.output) = Len(p.output) - i /\ PartOf(p, n, r.output, last + i)
  BY <1>3, <1>4, <1>5, CutInTwo
<1>7. last + Len(r.held) + Len(r.output) = last + Len(p.output)
  BY <1>3, <1>6
<1>8. PartOf(r, n, r.held, last) /\ PartOf(r, n, r.output, last + Len(r.held))
      /\ Reaches(r, n, last + Len(r.held) + Len(r.output))
  BY <1>4, <1>5, <1>6, <1>7, SameTokens
<1>9. Stretch(r, n, b, at)
  BY <1>1, <1>2, <1>4, <1>8, SameTokens DEF Stretch
<1> QED
  BY <1>4, <1>9 DEF Streams

\* The reader's read becomes the last in the channel.
LEMMA SendStream ==
    ASSUME NEW p \in SessionRec, NEW r \in SessionRec, Sent(p, r),
           NEW n \in 0..MaxCommands, NEW b \in Nat, Streams(p, n, b)
    PROVE  Streams(r, n, b)
<1>1. PICK L, new, B : L = Len(p.readCh) /\ new = r.readCh /\ B = Len(p.held)
  OBVIOUS
<1>2. L \in Nat /\ B \in Nat \ {0}
  BY <1>1, Lengths, EmptySeq DEF Sent, SessionRec
<1>3. PICK at \in [1..(L + 1) -> Nat] : Stretch(p, n, b, at)
  BY <1>1 DEF Streams
<1>4. PICK last : last = at[L + 1]
  OBVIOUS
<1>5. last \in Nat
  BY <1>2, <1>3, <1>4
<1>6. /\ new = Append(p.readCh, p.held) /\ r.held = <<>> /\ Len(r.held) = 0
      /\ r.input = p.input /\ r.output = p.output /\ r.accum = p.accum /\ r.printed = p.printed
      /\ r.tty = p.tty
  BY <1>1, EmptySeq DEF Sent, Records
<1>7. Len(new) = L + 1 /\ (\A k \in 1..L : new[k] = p.readCh[k]) /\ new[L + 1] = p.held
  BY <1>1, <1>6, AppendProperties DEF SessionRec
<1>8. PICK to : to = [k \in 1..(L + 1 + 1) |-> IF k = L + 1 + 1 THEN last + B ELSE at[k]]
  OBVIOUS
<1>9. /\ to \in [1..(L + 1 + 1) -> Nat] /\ to[L + 1 + 1] = last + B
      /\ \A k \in 1..(L + 1) : to[k] = at[k]
  BY <1>2, <1>3, <1>5, <1>8
<1>10. /\ at[1] = b + Len(p.accum) /\ PartOf(p, n, p.accum, b)
       /\ Starts(p.readCh, at) /\ Rising(p.readCh, at) /\ ReadsOf(p, n, p.readCh, at)
       /\ PartOf(p, n, p.held, last) /\ PartOf(p, n, p.output, last + B)
       /\ Reaches(p, n, last + B + Len(p.output))
  BY <1>1, <1>3, <1>4 DEF Stretch
<1>11. ASSUME NEW k \in 1..(L + 1)
       PROVE  to[k + 1] = to[k] + Len(new[k]) /\ PartOf(p, n, new[k], to[k])
  <2>1. CASE k = L + 1
    BY <1>1, <1>2, <1>4, <1>7, <1>9, <1>10, <2>1
  <2>2. CASE k # L + 1
    <3>1. k \in 1..L /\ k + 1 \in 1..(L + 1) /\ new[k] = p.readCh[k]
      BY <1>2, <1>7, <2>2
    <3>2. at[k + 1] = at[k] + Len(p.readCh[k])
      BY <1>1, <1>10, <3>1 DEF Starts
    <3>3. PartOf(p, n, p.readCh[k], at[k])
      BY <1>1, <1>10, <3>1 DEF ReadsOf
    <3> QED
      BY <1>9, <3>1, <3>2, <3>3
  <2> QED
    BY <2>1, <2>2
<1>12. ASSUME NEW k \in 1..(L + 1 + 1), NEW m \in 1..(L + 1 + 1), k < m PROVE to[k] < to[m]
  <2>1. \A i, j \in 1..(L + 1) : i < j => at[i] < at[j]
    BY <1>1, <1>10 DEF Rising
  <2>2. CASE m # L + 1 + 1
    <3>1. k \in 1..(L + 1) /\ m \in 1..(L + 1)
      BY <1>2, <1>12, <2>2
    <3> QED
      BY <1>9, <1>12, <2>1, <3>1
  <2>3. CASE m = L + 1 + 1
    <3>1. k \in 1..(L + 1) /\ at[k] \in Nat /\ L + 1 \in 1..(L + 1)
      BY <1>2, <1>3, <1>12, <2>3
    <3>2. at[k] <= last
      BY <1>2, <1>4, <1>5, <2>1, <3>1
    <3> QED
      BY <1>2, <1>5, <1>9, <2>3, <3>1, <3>2
  <2> QED
    BY <2>2, <2>3
<1>13. Starts(new, to) /\ ReadsOf(p, n, new, to)
  BY <1>7, <1>11 DEF Starts, ReadsOf
<1>14. Rising(new, to)
  BY <1>7, <1>12 DEF Rising
<1>15. to[1] = b + Len(p.accum)
  BY <1>2, <1>9, <1>10
<1>16. /\ PartOf(p, n, <<>>, last + B) /\ (last + B) + 0 = last + B
       /\ (last + B) + 0 + Len(p.output) = last + B + Len(p.output)
  <2>1. Len(p.output) \in Nat /\ Len(<<>>) = 0
    BY Lengths, EmptySeq
  <2> QED
    BY <1>2, <1>5, <2>1 DEF PartOf
<1>17. /\ PartOf(r, n, r.held, last + B) /\ PartOf(r, n, r.output, last + B + Len(r.held))
       /\ Reaches(r, n, last + B + Len(r.held) + Len(r.output))
  BY <1>6, <1>10, <1>16, SameTokens
<1>18. Stretch(r, n, b, to)
  BY <1>1, <1>6, <1>7, <1>9, <1>10, <1>13, <1>14, <1>15, <1>17, SameTokens DEF Stretch
<1> QED
  BY <1>1, <1>7, <1>9, <1>18 DEF Streams

\* The PTY is closed: what it held is gone, or the program is, with its input.
LEMMA CutStream ==
    ASSUME NEW p \in SessionRec, NEW r \in SessionRec, CutOff(p, r),
           NEW n \in 0..MaxCommands, NEW b \in Nat, Streams(p, n, b)
    PROVE  Streams(r, n, b)
<1>1. PICK at \in [1..(Len(p.readCh) + 1) -> Nat] : Stretch(p, n, b, at)
  BY DEF Streams
<1>2. PICK last : last = at[Len(p.readCh) + 1] + Len(p.held)
  OBVIOUS
<1>3. last \in Nat /\ Len(p.output) \in Nat /\ Len(<<>>) = 0
  <2>1. Len(p.readCh) \in Nat /\ Len(p.held) \in Nat /\ Len(p.output) \in Nat
    BY Lengths
  <2>2. at[Len(p.readCh) + 1] \in Nat
    BY <1>1, <2>1
  <2> QED
    BY <1>2, <2>1, <2>2, EmptySeq
<1>4. /\ r.input = <<>> /\ r.output \in {<<>>, p.output}
      /\ r.held = p.held /\ r.readCh = p.readCh /\ r.accum = p.accum /\ r.printed = p.printed
      /\ r.tty => p.tty /\ r.output = p.output
  BY DEF CutOff
<1>5. PartOf(p, n, p.output, last) /\ Reaches(p, n, last + Len(p.output))
  BY <1>1, <1>2 DEF Stretch
<1>6. PartOf(r, n, r.output, last)
  <2>1. CASE r.output = p.output
    BY <1>4, <1>5, <2>1, SameTokens
  <2>2. CASE r.output = <<>>
    BY <1>3, <2>2 DEF PartOf
  <2> QED
    BY <1>4, <2>1, <2>2
<1>7. Total(p, n) \in Nat
  BY Amounts
<1>8. Reaches(r, n, last + Len(r.output))
  <2>1. Total(r, n) = Total(p, n) /\ Unmarked(r, n) = Unmarked(p, n)
    BY <1>4, SameTokens
  <2>2. PICK O, E, T : O = Len(p.output) /\ E = Len(r.output) /\ T = Total(p, n)
    OBVIOUS
  <2>3. O \in Nat /\ T \in Nat /\ E \in {0, O} /\ last + O <= T
    BY <1>3, <1>4, <1>5, <1>7, <2>2 DEF Reaches
  <2>4. last + E <= T
    BY <1>3, <2>3
  <2>5. r.tty => last + Len(r.output) \in {Unmarked(r, n), Total(r, n)}
    BY <1>4, <1>5, <2>1 DEF Reaches
  <2> QED
    BY <1>4, <2>1, <2>2, <2>4, <2>5 DEF Reaches
<1>9. Stretch(r, n, b, at)
  BY <1>1, <1>2, <1>4, <1>6, <1>8, SameTokens DEF Stretch
<1> QED
  BY <1>4, <1>9 DEF Streams

-----------------------------------------------------------------------------
(* The program's side                                                      *)

\* While the program has a command to run, the end of the stretch is the end of
\* its output so far.
LEMMA AtEnd ==
    ASSUME NEW p \in SessionRec, NEW n \in 0..MaxCommands, NEW b \in Nat,
           NEW at \in [1..(Len(p.readCh) + 1) -> Nat], Stretch(p, n, b, at), p.input # <<>>
    PROVE  LET end == at[Len(p.readCh) + 1] + Len(p.held) + Len(p.output)
           IN  /\ p.input = <<n>> /\ end = Unmarked(p, n)
               /\ Head(p.input) = n /\ Tail(p.input) = <<>>
<1>1. PICK end : end = at[Len(p.readCh) + 1] + Len(p.held) + Len(p.output)
  OBVIOUS
<1>2. Reaches(p, n, end)
  BY <1>1 DEF Stretch
<1>3. p.input = <<n>> /\ end = Unmarked(p, n)
  BY <1>2 DEF Reaches
<1>4. Head(p.input) = n /\ Tail(p.input) = <<>>
  BY <1>3
<1> QED
  BY <1>1, <1>3, <1>4

\* Nothing in the channel begins behind its end.
LEMMA AtMost ==
    ASSUME NEW L \in Nat, NEW at \in [1..(L + 1) -> Nat], NEW ch, Len(ch) = L, Rising(ch, at)
    PROVE  /\ \A k \in 1..(L + 1) : at[k] \in Nat /\ at[k] <= at[L + 1]
           /\ L # 0 => at[1] < at[L + 1]
<1>1. \A k, m \in 1..(L + 1) : k < m => at[k] < at[m]
  BY DEF Rising
<1>2. ASSUME NEW k \in 1..(L + 1) PROVE at[k] \in Nat /\ at[k] <= at[L + 1]
  <2>1. at[k] \in Nat /\ L + 1 \in 1..(L + 1) /\ at[L + 1] \in Nat
    OBVIOUS
  <2>2. CASE k < L + 1
    BY <1>1, <2>1, <2>2
  <2>3. CASE ~(k < L + 1)
    BY <2>1, <2>3
  <2> QED
    BY <2>2, <2>3
<1>3. L # 0 => at[1] < at[L + 1]
  BY <1>1
<1> QED
  BY <1>2, <1>3

\* What is behind the marker was printed only when the command has been run.
LEMMA BehindIsRun ==
    ASSUME NEW p \in SessionRec, NEW n \in 0..MaxCommands, NEW b \in Nat, Streams(p, n, b),
           b > Unmarked(p, n)
    PROVE  p.input = <<>>
<1> SUFFICES ASSUME p.input # <<>> PROVE FALSE
  OBVIOUS
<1>1. PICK L, A, H, O, U : /\ L = Len(p.readCh) /\ A = Len(p.accum) /\ H = Len(p.held)
                           /\ O = Len(p.output) /\ U = Unmarked(p, n)
  OBVIOUS
<1>2. L \in Nat /\ A \in Nat /\ H \in Nat /\ O \in Nat /\ U \in Nat /\ b > U
  BY <1>1, Lengths, Amounts
<1>3. PICK at \in [1..(L + 1) -> Nat] : Stretch(p, n, b, at)
  BY <1>1 DEF Streams
<1>4. at[L + 1] + H + O = U
  BY <1>1, <1>2, <1>3, AtEnd
<1>5. at[1] = b + A /\ Rising(p.readCh, at)
  BY <1>1, <1>3 DEF Stretch
<1>6. at[1] \in Nat /\ at[L + 1] \in Nat /\ at[1] <= at[L + 1]
  <2>1. \A k \in 1..(L + 1) : at[k] \in Nat /\ at[k] <= at[L + 1]
    BY <1>1, <1>2, <1>3, <1>5, AtMost
  <2>2. 1 \in 1..(L + 1) /\ L + 1 \in 1..(L + 1)
    BY <1>2
  <2> QED
    BY <2>1, <2>2
<1> QED
  BY <1>2, <1>4, <1>5, <1>6

\* So the exit code is scanned for, and a session is clean, with nothing to run.
LEMMA CodeIsRun ==
    ASSUME NEW p \in SessionRec, NEW n \in 0..MaxCommands, Streams(p, n, p.printed[n] + 2)
    PROVE  p.input = <<>>
<1>1. PICK b : b = p.printed[n] + 2
  OBVIOUS
<1>2. b \in Nat /\ b > Unmarked(p, n) /\ Streams(p, n, b)
  BY <1>1, Amounts DEF Unmarked
<1> QED
  BY <1>2, BehindIsRun

LEMMA CleanIsRun ==
    ASSUME NEW p \in SessionRec, Clean(p)
    PROVE  p.input = <<>>
<1>1. PICK n, b : n = p.written /\ b = Total(p, n) - 1
  OBVIOUS
<1>2. n \in 0..MaxCommands /\ p.printed[n] \in Nat
  BY <1>1, Amounts DEF SessionRec
<1>3. b \in Nat /\ b > Unmarked(p, n)
  BY <1>1, <1>2 DEF Total, Unmarked
<1>4. Streams(p, n, b)
  BY <1>1 DEF Clean
<1> QED
  BY <1>2, <1>3, <1>4, BehindIsRun

LEMMA PrintStream ==
    ASSUME NEW p \in SessionRec, NEW r \in SessionRec, p.input # <<>>,
           NEW i, i = Head(p.input), i # 0, Printed(p, r, i),
           NEW n \in 0..MaxCommands, NEW b \in Nat, Streams(p, n, b)
    PROVE  Streams(r, n, b)
<1>1. PICK L, A, H, O, P : /\ L = Len(p.readCh) /\ A = Len(p.accum) /\ H = Len(p.held)
                           /\ O = Len(p.output) /\ P = p.printed[n] + 1
  OBVIOUS
<1>2. /\ L \in Nat /\ A \in Nat /\ H \in Nat /\ O \in Nat /\ P \in Nat /\ P - 1 \in Nat
      /\ p.printed[n] = P - 1 /\ p.output \in Seq(Tokens)
  <2>1. p.printed[n] \in Nat
    BY Amounts
  <2>2. P \in Nat /\ P - 1 = p.printed[n]
    BY <1>1, <2>1
  <2> QED
    BY <1>1, <2>1, <2>2, Lengths DEF SessionRec
<1>3. PICK at \in [1..(L + 1) -> Nat] : Stretch(p, n, b, at)
  BY <1>1 DEF Streams
<1>4. PICK last : last = at[L + 1]
  OBVIOUS
<1>5. p.input = <<n>> /\ last + H + O = (IF n = 0 THEN 0 ELSE P) /\ Head(p.input) = n
  BY <1>1, <1>2, <1>3, <1>4, AtEnd DEF Unmarked
<1>6. i = n /\ n # 0 /\ last + H + O = P
  BY <1>5
<1>7. r.printed[n] = P
  BY <1>1, <1>6, Lengths DEF Printed
<1>8. /\ at[1] = b + A /\ PartOf(p, n, p.accum, b)
      /\ Starts(p.readCh, at) /\ Rising(p.readCh, at) /\ ReadsOf(p, n, p.readCh, at)
      /\ PartOf(p, n, p.held, last) /\ PartOf(p, n, p.output, last + H)
  BY <1>1, <1>3, <1>4 DEF Stretch
<1>9. \A k \in 1..(L + 1) : at[k] \in Nat /\ at[k] <= last
  BY <1>1, <1>2, <1>3, <1>4, <1>8, AtMost
<1>10. last \in Nat
  BY <1>2, <1>4, <1>9
<1>11. \A j \in Nat : j <= P => Token(r, n, j) = Token(p, n, j)
  <2> SUFFICES ASSUME NEW j \in Nat, j <= P PROVE Token(r, n, j) = Token(p, n, j)
    OBVIOUS
  <2>1. j <= p.printed[n] + 1 /\ j <= r.printed[n] + 1
    BY <1>2, <1>7
  <2> QED
    BY <1>6, <2>1 DEF Token
<1>12. ASSUME NEW x, NEW from \in Nat, Len(x) \in Nat, from + Len(x) <= P, PartOf(p, n, x, from)
       PROVE  PartOf(r, n, x, from)
  <2> SUFFICES ASSUME NEW j \in 1..Len(x) PROVE x[j] = Token(r, n, from + j)
    BY DEF PartOf
  <2>1. x[j] = Token(p, n, from + j)
    BY <1>12 DEF PartOf
  <2>2. from + j \in Nat /\ from + j <= P
    BY <1>2, <1>12
  <2> QED
    BY <1>11, <2>1, <2>2
<1>13. /\ r.output = p.output \o <<[cmd |-> n, part |-> "out"]>>
       /\ <<[cmd |-> n, part |-> "out"]>> \in Seq(Tokens)
       /\ r.held = p.held /\ r.readCh = p.readCh /\ r.accum = p.accum
  BY <1>6 DEF Added, Printed
<1>14. PartOf(r, n, r.accum, b)
  <2>1. b + A <= P
    BY <1>2, <1>6, <1>8, <1>9, <1>10
  <2> QED
    BY <1>1, <1>2, <1>8, <1>12, <1>13, <2>1
<1>15. ReadsOf(r, n, r.readCh, at)
  <2> SUFFICES ASSUME NEW k \in 1..L PROVE PartOf(r, n, p.readCh[k], at[k])
    BY <1>1, <1>13 DEF ReadsOf
  <2>1. PartOf(p, n, p.readCh[k], at[k])
    BY <1>1, <1>8 DEF ReadsOf
  <2>2. PICK m : m = k + 1
    OBVIOUS
  <2>3. at[m] = at[k] + Len(p.readCh[k])
    BY <1>1, <1>8, <2>2 DEF Starts
  <2>4. m \in 1..(L + 1) /\ k \in 1..(L + 1)
    BY <1>2, <2>2
  <2>5. at[k] \in Nat /\ at[m] \in Nat /\ at[m] <= last
    BY <1>9, <2>4
  <2>6. at[m] <= P
    BY <1>2, <1>6, <1>10, <2>5
  <2>7. Len(p.readCh[k]) \in Nat
    BY <1>1, Lengths
  <2> QED
    BY <1>12, <2>1, <2>3, <2>5, <2>6, <2>7
<1>16. PartOf(r, n, r.held, last) /\ PartOf(r, n, p.output, last + H)
  <2>1. last + H <= P /\ last + H + O <= P /\ last + H \in Nat
    BY <1>2, <1>6, <1>10
  <2> QED
    BY <1>1, <1>2, <1>8, <1>10, <1>12, <1>13, <2>1
<1>17. PartOf(r, n, <<[cmd |-> n, part |-> "out"]>>, P)
  <2>1. Token(r, n, P + 1) = [cmd |-> n, part |-> "out"]
    BY <1>2, <1>6, <1>7 DEF Token
  <2> SUFFICES ASSUME NEW j \in 1..1
               PROVE  <<[cmd |-> n, part |-> "out"]>>[j] = Token(r, n, P + j)
    BY DEF PartOf
  <2>2. j = 1
    OBVIOUS
  <2> QED
    BY <2>1, <2>2
<1>18. PartOf(r, n, r.output, last + H) /\ Len(r.output) = O + 1
  <2>1. last + H \in Nat
    BY <1>2, <1>10
  <2>2. (last + H) + Len(p.output) = P
    BY <1>1, <1>6
  <2>3. PICK m : m = <<[cmd |-> n, part |-> "out"]>>
    OBVIOUS
  <2>4. p.output \in Seq(Tokens) /\ m \in Seq(Tokens) /\ r.output = p.output \o m /\ Len(m) = 1
    BY <1>2, <1>13, <2>3
  <2>5. PartOf(r, n, p.output \o m, last + H)
    BY <1>16, <1>17, <2>1, <2>2, <2>3, <2>4, Joined
  <2>6. Len(p.output \o m) = Len(p.output) + Len(m)
    BY <2>4, ConcatProperties
  <2> QED
    BY <1>1, <2>4, <2>5, <2>6
<1>19. Reaches(r, n, last + H + Len(r.output))
  <2>1. last + H + (O + 1) = P + 1
    BY <1>2, <1>6, <1>10
  <2>2. Total(r, n) = P + 4 /\ Unmarked(r, n) = P + 1
    BY <1>6, <1>7 DEF Total, Unmarked
  <2> QED
    BY <1>2, <1>5, <1>6, <1>18, <2>1, <2>2 DEF Reaches, Printed
<1>20. Stretch(r, n, b, at)
  BY <1>1, <1>4, <1>8, <1>13, <1>14, <1>15, <1>16, <1>18, <1>19 DEF Stretch
<1> QED
  BY <1>1, <1>3, <1>13, <1>20 DEF Streams

LEMMA FinishStream ==
    ASSUME NEW p \in SessionRec, NEW r \in SessionRec, p.input # <<>>,
           Added(p, r, Marks(Head(p.input))), r.input = Tail(p.input), r.printed = p.printed,
           NEW n \in 0..MaxCommands, NEW b \in Nat, Streams(p, n, b)
    PROVE  Streams(r, n, b)
<1>1. PICK L, H, O, P : /\ L = Len(p.readCh) /\ H = Len(p.held)
                        /\ O = Len(p.output) /\ P = Unmarked(p, n)
  OBVIOUS
<1>2. L \in Nat /\ H \in Nat /\ O \in Nat /\ P \in Nat /\ p.output \in Seq(Tokens)
  BY <1>1, Lengths, Amounts DEF SessionRec
<1>3. PICK at \in [1..(L + 1) -> Nat] : Stretch(p, n, b, at)
  BY <1>1 DEF Streams
<1>4. PICK last : last = at[L + 1]
  OBVIOUS
<1>5. last \in Nat
  BY <1>2, <1>3, <1>4
<1>6. last + H + O = P /\ Head(p.input) = n /\ Tail(p.input) = <<>>
  BY <1>1, <1>2, <1>3, <1>4, AtEnd
<1>7. PICK m : m = Marks(n)
  OBVIOUS
<1>8. /\ r.output = p.output \o m /\ m \in Seq(Tokens) /\ r.input = <<>>
      /\ r.held = p.held /\ r.readCh = p.readCh /\ r.accum = p.accum
  BY <1>6, <1>7 DEF Added
<1>9. PartOf(p, n, p.output, last + H)
  BY <1>1, <1>3, <1>4 DEF Stretch
<1>10. PartOf(p, n, m, P) /\ P + Len(m) = Total(p, n) /\ Len(m) \in Nat
  <2>1. CASE n = 0
    <3>1. /\ Len(m) = 2 /\ P = 0
          /\ m[1] = [cmd |-> 0, part |-> "init"] /\ m[2] = [cmd |-> 0, part |-> "newline"]
      BY <1>1, <1>7, <2>1, MarksType DEF Unmarked
    <3>2. Token(p, n, P + 1) = m[1] /\ Token(p, n, P + 2) = m[2]
      BY <2>1, <3>1 DEF Token
    <3>3. ASSUME NEW j \in 1..2 PROVE m[j] = Token(p, n, P + j)
      <4>1. j = 1 \/ j = 2
        OBVIOUS
      <4> QED
        BY <3>2, <4>1
    <3> QED
      BY <2>1, <3>1, <3>3 DEF PartOf, Total
  <2>2. CASE n # 0
    <3>1. /\ Len(m) = 3 /\ P = p.printed[n] + 1 /\ p.printed[n] \in Nat
          /\ m[1] = [cmd |-> n, part |-> "end"] /\ m[2] = [cmd |-> n, part |-> "code"]
          /\ m[3] = [cmd |-> n, part |-> "newline"]
      BY <1>1, <1>7, <2>2, MarksType, Amounts DEF Unmarked
    <3>2. Token(p, n, P + 1) = m[1] /\ Token(p, n, P + 2) = m[2] /\ Token(p, n, P + 3) = m[3]
      <4>1. PICK z : z = p.printed[n]
        OBVIOUS
      <4>2. z \in Nat /\ P + 1 = z + 2 /\ P + 2 = z + 3 /\ P + 3 = z + 4
        BY <3>1, <4>1
      <4>3. ASSUME NEW j \in {2, 3, 4}
            PROVE  Token(p, n, z + j) = [cmd |-> n, part |-> IF j = 2 THEN "end"
                                                          ELSE IF j = 3 THEN "code" ELSE "newline"]
        <5>1. z + j # 1 /\ ~(z + j <= z + 1) /\ (z + j = z + 2 <=> j = 2) /\ (z + j = z + 3 <=> j = 3)
          BY <4>2
        <5> QED
          BY <2>2, <4>1, <5>1 DEF Token
      <4>4. Token(p, n, z + 2) = m[1] /\ Token(p, n, z + 3) = m[2] /\ Token(p, n, z + 4) = m[3]
        BY <3>1, <4>3
      <4> QED
        BY <4>2, <4>4
    <3>3. ASSUME NEW j \in 1..3 PROVE m[j] = Token(p, n, P + j)
      <4>1. j = 1 \/ j = 2 \/ j = 3
        OBVIOUS
      <4> QED
        BY <3>2, <4>1
    <3> QED
      BY <2>2, <3>1, <3>3 DEF PartOf, Total
  <2> QED
    BY <2>1, <2>2
<1>11. PartOf(p, n, r.output, last + H) /\ Len(r.output) = O + Len(m)
  <2>1. last + H \in Nat
    BY <1>2, <1>5
  <2>2. (last + H) + Len(p.output) = P
    BY <1>1, <1>6
  <2>3. p.output \in Seq(Tokens) /\ m \in Seq(Tokens) /\ r.output = p.output \o m
    BY <1>2, <1>8
  <2>4. PartOf(p, n, p.output \o m, last + H)
    BY <1>9, <1>10, <2>1, <2>2, <2>3, Joined
  <2>5. Len(p.output \o m) = Len(p.output) + Len(m)
    BY <2>3, ConcatProperties
  <2> QED
    BY <1>1, <2>3, <2>4, <2>5
<1>12. Reaches(r, n, last + H + Len(r.output))
  <2>1. last + H + (O + Len(m)) = P + Len(m)
    <3>1. PICK M : M = Len(m)
      OBVIOUS
    <3>2. M \in Nat /\ last + H + O = P
      BY <1>6, <1>10, <3>1
    <3>3. last + H + (O + M) = P + M
      BY <1>2, <1>5, <3>2
    <3> QED
      BY <3>1, <3>3
  <2>2. Total(r, n) = Total(p, n)
    BY SameTokens
  <2>3. last + H + Len(r.output) = Total(r, n)
    BY <1>10, <1>11, <2>1, <2>2
  <2>4. Total(r, n) \in Nat
    BY <1>2, <1>10, <2>2
  <2>5. PICK end : end = last + H + Len(r.output)
    OBVIOUS
  <2>6. end <= Total(r, n) /\ end = Total(r, n)
    BY <2>3, <2>4, <2>5
  <2>7. Reaches(r, n, end)
    BY <1>8, <2>6 DEF Reaches
  <2> QED
    BY <2>5, <2>7
<1>13. Stretch(r, n, b, at)
  BY <1>1, <1>3, <1>4, <1>8, <1>11, <1>12, SameTokens DEF Stretch
<1> QED
  BY <1>1, <1>3, <1>8, <1>13 DEF Streams

\* Each of these steps leaves every call what it relies on.
LEMMA ReceiveCarries ==
    ASSUME NEW p \in SessionRec, NEW r, Onward(p, r), Received(p, r)
    PROVE  Carries(p, r) /\ (Settled(p) => Settled(r))
<1>1. r \in SessionRec /\ r.printed = p.printed /\ r.written = p.written /\ ~Empty(p)
  BY DEF Onward, Received, Records, Empty
<1> QED
  BY <1>1, ReceiveStream, StreamsCarry

LEMMA ReadCarries ==
    ASSUME NEW p \in SessionRec, NEW r, NEW i, Onward(p, r), TookUp(p, r, i)
    PROVE  Carries(p, r) /\ (Settled(p) => Settled(r))
<1>1. r \in SessionRec /\ r.printed = p.printed /\ r.written = p.written
  BY DEF Onward, TookUp, Records
<1>2. ~Empty(p)
  BY EmptySeq DEF TookUp, Empty
<1> QED
  BY <1>1, <1>2, ReadStream, StreamsCarry

LEMMA SendCarries ==
    ASSUME NEW p \in SessionRec, NEW r, Onward(p, r), Sent(p, r)
    PROVE  Carries(p, r) /\ (Settled(p) => Settled(r))
<1>1. r \in SessionRec /\ r.printed = p.printed /\ r.written = p.written /\ ~Empty(p)
  BY DEF Onward, Sent, Records, Empty
<1> QED
  BY <1>1, SendStream, StreamsCarry

LEMMA CutCarries ==
    ASSUME NEW p \in SessionRec, NEW r, Onward(p, r), CutOff(p, r)
    PROVE  Carries(p, r) /\ (Settled(p) => Settled(r))
<1>1. r \in SessionRec /\ r.printed = p.printed /\ r.written = p.written /\ (Empty(p) => Empty(r))
  BY DEF Onward, CutOff, Empty
<1> QED
  BY <1>1, CutStream, StreamsCarry

LEMMA FinishCarries ==
    ASSUME NEW p \in SessionRec, NEW r, Onward(p, r), p.input # <<>>,
           Added(p, r, Marks(Head(p.input))), r.input = Tail(p.input), r.printed = p.printed
    PROVE  Carries(p, r) /\ (Settled(p) => Settled(r))
<1>1. r \in SessionRec /\ r.written = p.written /\ ~Empty(p)
  BY DEF Onward, Added, Records, Empty
<1> QED
  BY <1>1, FinishStream, StreamsCarry

LEMMA PrintCarries ==
    ASSUME NEW p \in SessionRec, NEW r, Onward(p, r), p.input # <<>>,
           NEW i, i = Head(p.input), i # 0, Printed(p, r, i)
    PROVE  Carries(p, r) /\ (Settled(p) => Settled(r))
<1>1. r \in SessionRec /\ r.written = p.written /\ ~Empty(p) /\ ~Clean(p)
  BY CleanIsRun DEF Onward, Printed, Added, Records, Empty
<1>2. ASSUME NEW q \in Locals, Pipe(p, q) PROVE Pipe(r, q)
  <2>1. q.cmd \in 0..MaxCommands /\ 0 \in 0..MaxCommands
    BY Constants DEF Locals
  <2>2. q.pc \notin {"init", "write", "result"}
    BY <1>1, <1>2 DEF Pipe
  <2>3. ~(q.pc \in {"scan", "drain"} /\ q.want = "code")
    BY <1>2, <2>1, CodeIsRun DEF Pipe
  <2>4. q.pc \in {"scan", "drain"} /\ q.want = "init" => Streams(r, 0, 0) /\ r.written = 0
    BY <1>1, <1>2, <2>1, PrintStream DEF Pipe
  <2>5. q.pc \in {"scan", "drain"} /\ q.want = "end" => Streams(r, q.cmd, 0) /\ r.written = q.cmd
    BY <1>1, <1>2, <2>1, PrintStream DEF Pipe
  <2> QED
    BY <2>2, <2>3, <2>4, <2>5 DEF Pipe
<1> QED
  BY <1>1, <1>2 DEF Carries, Settled, Onward

-----------------------------------------------------------------------------
(* The sessions' own steps keep the invariant                              *)

LEMMA SessionFacts ==
    ASSUME IndInv, NEW s \in Sessions
    PROVE  CallsInv /\ session[s] \in SessionRec /\ Sane(session[s])
BY DEF IndInv, CallsInv

LEMMA ReaderReadsKeeps ==
    ASSUME IndInv, NEW s \in Sessions, ReaderReads(s)
    PROVE  IndInv'
<1> DEFINE p == session[s]
<1>1. p \in SessionRec /\ Sane(p) /\ CallsInv
  BY SessionFacts
<1>2. PICK n \in 1..Len(p.output) :
          session' = [session EXCEPT ![s].held = SubSeq(p.output, 1, n),
                                     ![s].output = SubSeq(@, n + 1, Len(@))]
  BY DEF ReaderReads
<1>3. PICK r : r = [p EXCEPT !.held = SubSeq(p.output, 1, n), !.output = SubSeq(@, n + 1, Len(@))]
  OBVIOUS
<1>4. session' = [session EXCEPT ![s] = r]
  BY <1>1, <1>2, <1>3 DEF CallsInv
<1>5. p.held = <<>> /\ UNCHANGED <<sessions, mapLock, caller>>
  BY DEF ReaderReads
<1>6. Onward(p, r) /\ TookUp(p, r, n)
  BY <1>1, <1>2, <1>3, <1>5, ReadEffect
<1> QED
  BY <1>1, <1>4, <1>5, <1>6, ReadCarries, SessionStep

LEMMA ReaderSendsKeeps ==
    ASSUME IndInv, NEW s \in Sessions, ReaderSends(s)
    PROVE  IndInv'
<1> DEFINE p == session[s]
<1>1. p \in SessionRec /\ Sane(p) /\ CallsInv
  BY SessionFacts
<1>2. PICK r : r = [p EXCEPT !.readCh = Append(@, p.held), !.held = <<>>]
  OBVIOUS
<1>3. session' = [session EXCEPT ![s] = r]
  BY <1>1, <1>2 DEF CallsInv, ReaderSends
<1>4. p.held # <<>> /\ Len(p.readCh) < ChanCap /\ UNCHANGED <<sessions, mapLock, caller>>
  BY DEF ReaderSends
<1>5. Onward(p, r) /\ Sent(p, r)
  BY <1>1, <1>2, <1>4, SendEffect
<1> QED
  BY <1>1, <1>3, <1>4, <1>5, SendCarries, SessionStep

LEMMA FlagsKeep ==
    ASSUME IndInv, NEW s \in Sessions, ReaderEnds(s) \/ WaitReturns(s)
    PROVE  IndInv'
<1> DEFINE p == session[s]
<1>1. p \in SessionRec /\ Sane(p) /\ CallsInv
  BY SessionFacts
<1>2. PICK r : /\ session' = [session EXCEPT ![s] = r]
               /\ \/ ~p.proc /\ r = [p EXCEPT !.exited = TRUE]
                  \/ r = [p EXCEPT !.closed = TRUE]
  BY <1>1 DEF CallsInv, ReaderEnds, WaitReturns
<1>3. UNCHANGED <<sessions, mapLock, caller>>
  BY DEF ReaderEnds, WaitReturns
<1>4. Onward(p, r) /\ Flow(r) = Flow(p) /\ History(r) = History(p)
  BY <1>1, <1>2, FlagsEffect
<1> QED
  BY <1>1, <1>2, <1>3, <1>4, SameFlow, SessionStep

LEMMA ProgramPrintsKeeps ==
    ASSUME IndInv, NEW s \in Sessions, ProgramPrints(s)
    PROVE  IndInv'
<1>1. PICK p, n : p = session[s] /\ n = Head(p.input)
  OBVIOUS
<1>0. p \in SessionRec /\ Sane(p) /\ CallsInv
  BY <1>1, SessionFacts
<1>2. PICK r : r = OneMore(p, n)
  OBVIOUS
<1>3. session' = [session EXCEPT ![s] = r]
  BY <1>0, <1>1, <1>2 DEF CallsInv, ProgramPrints, OneMore
<1>4. n = Head(p.input) /\ p.input # <<>> /\ n # 0 /\ UNCHANGED <<sessions, mapLock, caller>>
  BY <1>1 DEF ProgramPrints, Reading
<1>5. Onward(p, r) /\ Printed(p, r, n)
  BY <1>0, <1>2, <1>4, PrintEffect
<1>6. Carries(p, r) /\ (Settled(p) => Settled(r))
  BY <1>0, <1>1, <1>4, <1>5, PrintCarries
<1> QED
  BY <1>0, <1>1, <1>3, <1>4, <1>5, <1>6, SessionStep

LEMMA ProgramFinishesKeeps ==
    ASSUME IndInv, NEW s \in Sessions, ProgramFinishes(s)
    PROVE  IndInv'
<1> DEFINE p == session[s]
           n == Head(p.input)
<1>1. p \in SessionRec /\ Sane(p) /\ CallsInv
  BY SessionFacts
<1>2. PICK r : r = [p EXCEPT !.input = Tail(@), !.output = @ \o Marks(n)]
  OBVIOUS
<1>3. session' = [session EXCEPT ![s].input = Tail(@), ![s].output = @ \o Marks(n)]
  BY DEF ProgramFinishes, Marks
<1>4. session' = [session EXCEPT ![s] = r]
  BY <1>1, <1>2, <1>3 DEF CallsInv
<1>5. p.input # <<>> /\ UNCHANGED <<sessions, mapLock, caller>>
  BY DEF ProgramFinishes, Reading
<1>6. Onward(p, r) /\ Added(p, r, Marks(n)) /\ r.input = Tail(p.input) /\ r.printed = p.printed
  BY <1>1, <1>2, <1>5, FinishEffect, ZenonT(60)
<1>7. Carries(p, r) /\ (Settled(p) => Settled(r))
  BY <1>1, <1>5, <1>6, FinishCarries
<1> QED
  BY <1>1, <1>4, <1>5, <1>6, <1>7, SessionStep

LEMMA ProgramExitsKeeps ==
    ASSUME IndInv, NEW s \in Sessions, ProgramExits(s)
    PROVE  IndInv'
<1> DEFINE p == session[s]
<1>1. p \in SessionRec /\ Sane(p) /\ CallsInv
  BY SessionFacts
<1>2. PICK r : r = [p EXCEPT !.proc = FALSE, !.input = <<>>]
  OBVIOUS
<1>3. session' = [session EXCEPT ![s] = r]
  BY <1>1, <1>2 DEF CallsInv, ProgramExits
<1>4. UNCHANGED <<sessions, mapLock, caller>>
  BY DEF ProgramExits
<1>5. Onward(p, r) /\ CutOff(p, r)
  BY <1>1, <1>2, CloseEffect
<1> QED
  BY <1>1, <1>3, <1>4, <1>5, CutCarries, SessionStep

-----------------------------------------------------------------------------
(* How a call moves                                                        *)

Same(q, r) ==
    /\ r.op = q.op /\ r.host = q.host /\ r.sess = q.sess /\ r.cmd = q.cmd
    /\ r.want = q.want /\ r.got = q.got /\ r.todo = q.todo

LEMMA GotoStep ==
    ASSUME CallsInv, NEW c \in Callers, NEW l \in Labels, Goto(c, l)
    PROVE  \E r \in Locals : /\ Moved(c, r) /\ Same(caller[c], r)
                             /\ r.pc = l /\ r.victim = caller[c].victim
<1>1. caller[c] \in Locals
  BY DEF CallsInv
<1>2. PICK r : r = [caller[c] EXCEPT !.pc = l]
  OBVIOUS
<1>3. r \in Locals /\ Same(caller[c], r) /\ r.pc = l /\ r.victim = caller[c].victim
  BY <1>1, <1>2 DEF Locals, Same
<1>4. Moved(c, r)
  BY <1>2 DEF Goto, Moved
<1> QED
  BY <1>3, <1>4

LEMMA TerminateStep ==
    ASSUME CallsInv, NEW c \in Callers, NEW s \in Sessions, Terminate(c, s)
    PROVE  \E r \in Locals : /\ Moved(c, r) /\ Same(caller[c], r)
                             /\ r.pc = "close" /\ r.victim = s
<1>1. caller[c] \in Locals
  BY DEF CallsInv
<1>2. PICK r : r = [caller[c] EXCEPT !.pc = "close", !.victim = s]
  OBVIOUS
<1>3. r \in Locals /\ Same(caller[c], r) /\ r.pc = "close" /\ r.victim = s
  BY <1>1, <1>2 DEF Locals, Same, Labels
<1>4. Moved(c, r)
  BY <1>2 DEF Terminate, Moved
<1> QED
  BY <1>3, <1>4

LEMMA IdleType ==
    /\ Idle \in Locals /\ Placed(Idle)
    /\ Idle.pc = "idle" /\ Idle.sess = None /\ Idle.victim = None
    /\ ~HoldsMap(Idle) /\ ~HoldsSession(Idle) /\ ~Connecting(Idle)
    /\ \A s \in Sessions : ~Uses(Idle, s) /\ ~AnswersFor(Idle, s)
<1>1. Idle = [pc |-> "idle", op |-> "connect", host |-> None, sess |-> None, cmd |-> 0,
              want |-> "init", got |-> <<>>, victim |-> None, todo |-> {}]
  BY DEF Idle
<1>2. <<>> \in Seq(Tokens) /\ None \notin Sessions /\ 0 \in 0..MaxCommands
  BY EmptySeq, Constants
<1>3. Idle \in Locals
  BY <1>1, <1>2 DEF Locals, Labels
<1>4. Placed(Idle)
  BY <1>1, <1>2 DEF Placed
<1> QED
  BY <1>1, <1>2, <1>3, <1>4 DEF HoldsMap, HoldsSession, Connecting, Uses, AnswersFor

LEMMA ReturnStep ==
    ASSUME NEW c \in Callers, Return(c)
    PROVE  Moved(c, Idle)
BY DEF Return, Moved

\* A step of a call that holds no lock and has no session of its own, before
\* and after, and changes nothing else.
LEMMA QuietStep ==
    ASSUME IndInv, NEW c \in Callers, NEW r \in Locals, Moved(c, r), Placed(r),
           UNCHANGED <<sessions, mapLock, session>>,
           ~HoldsMap(r), ~HoldsMap(caller[c]), ~HoldsSession(r), ~HoldsSession(caller[c]),
           ~Connecting(r), r.victim = None, r.pc \notin {"init", "scan", "drain", "write", "result"},
           r.sess = None \/ \E h \in Hosts : r.sess = sessions[h],
           \A s \in Sessions : /\ AnswersFor(caller[c], s) => ~session[s].proc
                               /\ Uses(caller[c], s) => Settled(session[s])
    PROVE  IndInv'
<1>1. CallsInv /\ MapLocked /\ SessionLocked /\ Private /\ NoOrphanProgram /\ PipeInv
  BY DEF IndInv, LocksInv
<1>2. CallsInv'
  <2>1. /\ sessions' \in [Hosts -> Sessions \cup {None}] /\ mapLock' \in Callers \cup {None}
        /\ session' \in [Sessions -> SessionRec] /\ \A s \in Sessions : Sane(session'[s])
    BY <1>1 DEF CallsInv
  <2> QED
    BY <1>1, <2>1, CallsStep
<1>3. MapLocked'
  <2>1. HoldsMap(r) <=> mapLock' = c
    BY <1>1 DEF MapLocked
  <2> QED
    BY <1>1, <2>1, MapStep
<1>4. SessionLocked'
  <2>1. \A s \in Sessions : session'[s].lock = session[s].lock /\ session[s].lock # c
    BY <1>1 DEF SessionLocked
  <2> QED
    BY <1>1, <2>1, LockStep
<1>5. Private'
  <2>1. Shared(r.sess, c) /\ Shared(r.victim, c) /\ \A h \in Hosts : Shared(sessions'[h], c)
    BY <1>1, SharedNames
  <2> QED
    BY <1>1, <2>1, PrivateStep
<1>6. NoOrphanProgram'
  <2>1. \A s \in Sessions : session'[s].proc =>
            \/ AnswersFor(r, s) \/ Mapped(sessions', s)
            \/ session[s].proc /\ ~Mapped(sessions, s) /\ ~AnswersFor(caller[c], s)
    OBVIOUS
  <2> QED
    BY <1>1, <2>1, OrphanStep
<1>7. PipeInv'
  <2>1. \A d \in Callers : d # c /\ caller[d].sess # None /\ caller[d].pc # "lock" =>
            Carries(session[caller[d].sess], session'[caller[d].sess])
    BY DEF Carries
  <2>2. r.sess # None => Pipe(session'[r.sess], r)
    BY DEF Pipe
  <2>3. \A s \in Sessions : ~Uses(r, s) =>
            \/ Settled(session'[s])
            \/ ~Uses(caller[c], s) /\ (Settled(session[s]) => Settled(session'[s]))
    OBVIOUS
  <2> QED
    BY <1>1, <2>1, <2>2, <2>3, PipeStep
<1> QED
  BY <1>2, <1>3, <1>4, <1>5, <1>6, <1>7 DEF IndInv, LocksInv

\* A call at these labels has nothing yet.
LEMMA Unbound ==
    ASSUME CallsInv, NEW c \in Callers, caller[c].pc \in {"idle", "spawn", "ready", "lookup"}
    PROVE  /\ caller[c].sess = None /\ caller[c].victim = None
           /\ ~HoldsMap(caller[c]) /\ ~HoldsSession(caller[c]) /\ ~Connecting(caller[c])
           /\ \A s \in Sessions : ~Uses(caller[c], s) /\ ~AnswersFor(caller[c], s)
<1>1. caller[c].sess = None /\ caller[c].victim = None /\ None \notin Sessions
  BY CallFacts DEF Placed
<1> QED
  BY <1>1 DEF HoldsMap, HoldsSession, Connecting, Uses, AnswersFor

\* Where a call without locks and sessions may go on.
LEMMA UnboundStep ==
    ASSUME IndInv, NEW c \in Callers, caller[c].pc \in {"idle", "spawn", "ready", "lookup"},
           NEW r \in Locals, Moved(c, r), Placed(r), UNCHANGED <<sessions, mapLock, session>>,
           r.pc \in {"idle", "spawn", "ready", "lookup", "lock", "grab"},
           r.sess = None \/ (r.op # "connect" /\ \E h \in Hosts : r.sess = sessions[h])
    PROVE  IndInv'
<1>1. CallsInv
  BY DEF IndInv
<1>2. r.victim = None
  BY <1>1, CallFacts DEF Placed, Locals
<1>3. ~HoldsMap(r) /\ ~HoldsSession(r) /\ ~Connecting(r)
  BY DEF HoldsMap, HoldsSession, Connecting
<1> QED
  BY <1>1, <1>2, <1>3, Unbound, QuietStep

LEMMA BareStep ==
    ASSUME IndInv, NEW c \in Callers, caller[c].pc \in {"idle", "spawn", "ready", "lookup"},
           NEW r \in Locals, Moved(c, r), Placed(r), UNCHANGED <<sessions, mapLock, session>>,
           r.pc \in {"idle", "spawn", "ready", "lookup", "grab"}, r.sess = None
    PROVE  IndInv'
BY UnboundStep

LEMMA BareReturn ==
    ASSUME IndInv, NEW c \in Callers, caller[c].pc \in {"idle", "spawn", "ready", "lookup"},
           Return(c), UNCHANGED <<sessions, mapLock, session>>
    PROVE  IndInv'
<1>1. Moved(c, Idle) /\ Idle \in Locals /\ Placed(Idle) /\ Idle.pc = "idle" /\ Idle.sess = None
  BY ReturnStep, IdleType
<1> QED
  BY <1>1, BareStep

LEMMA BeginKeeps ==
    ASSUME IndInv, NEW c \in Callers, BeginConnect(c) \/ BeginExecute(c) \/ BeginDisconnect(c)
    PROVE  IndInv'
<1>0. None \notin Sessions /\ <<>> \in Seq(Tokens) /\ 0 \in 0..MaxCommands
  BY Constants, EmptySeq
<1>1. CASE BeginConnect(c)
  <2>1. PICK h \in Hosts, pc \in {"spawn", "ready"} :
            Moved(c, [Idle EXCEPT !.pc = pc, !.host = h])
    BY <1>1 DEF BeginConnect, Moved
  <2>2. PICK r : r = [Idle EXCEPT !.pc = pc, !.host = h]
    OBVIOUS
  <2>3. r = [pc |-> pc, op |-> "connect", host |-> h, sess |-> None, cmd |-> 0,
             want |-> "init", got |-> <<>>, victim |-> None, todo |-> {}]
    BY <2>2 DEF Idle
  <2>4. r \in Locals /\ Placed(r) /\ r.sess = None /\ r.pc \in {"spawn", "ready"}
    BY <1>0, <2>3 DEF Locals, Labels, Placed
  <2>5. caller[c].pc = "idle" /\ UNCHANGED <<sessions, mapLock, session>> /\ Moved(c, r)
    BY <1>1, <2>1, <2>2 DEF BeginConnect, At
  <2> QED
    BY <2>4, <2>5, BareStep
<1>2. CASE BeginExecute(c)
  <2>1. PICK h \in Hosts : Moved(c, [Idle EXCEPT !.pc = "lookup", !.op = "execute", !.host = h])
    BY <1>2 DEF BeginExecute, Moved
  <2>2. PICK r : r = [Idle EXCEPT !.pc = "lookup", !.op = "execute", !.host = h]
    OBVIOUS
  <2>3. r = [pc |-> "lookup", op |-> "execute", host |-> h, sess |-> None, cmd |-> 0,
             want |-> "init", got |-> <<>>, victim |-> None, todo |-> {}]
    BY <2>2 DEF Idle
  <2>4. r \in Locals /\ Placed(r) /\ r.sess = None /\ r.pc = "lookup"
    BY <1>0, <2>3 DEF Locals, Labels, Placed
  <2>5. caller[c].pc = "idle" /\ UNCHANGED <<sessions, mapLock, session>> /\ Moved(c, r)
    BY <1>2, <2>1, <2>2 DEF BeginExecute, At
  <2> QED
    BY <2>4, <2>5, BareStep
<1>3. CASE BeginDisconnect(c)
  <2>1. PICK gone \in {{h} : h \in Hosts} \cup {Hosts} :
            Moved(c, [Idle EXCEPT !.pc = "grab", !.op = "disconnect", !.todo = gone])
    BY <1>3 DEF BeginDisconnect, Moved
  <2>2. PICK r : r = [Idle EXCEPT !.pc = "grab", !.op = "disconnect", !.todo = gone]
    OBVIOUS
  <2>3. r = [pc |-> "grab", op |-> "disconnect", host |-> None, sess |-> None, cmd |-> 0,
             want |-> "init", got |-> <<>>, victim |-> None, todo |-> gone]
    BY <2>2 DEF Idle
  <2>4. gone \in SUBSET Hosts
    OBVIOUS
  <2>5. r \in Locals /\ Placed(r) /\ r.sess = None /\ r.pc = "grab"
    BY <1>0, <2>3, <2>4 DEF Locals, Labels, Placed
  <2>6. caller[c].pc = "idle" /\ UNCHANGED <<sessions, mapLock, session>> /\ Moved(c, r)
    BY <1>3, <2>1, <2>2 DEF BeginDisconnect, At
  <2> QED
    BY <2>5, <2>6, BareStep
<1> QED
  BY <1>1, <1>2, <1>3

LEMMA StatelessReturnsKeeps ==
    ASSUME IndInv, NEW c \in Callers, StatelessReturns(c)
    PROVE  IndInv'
BY BareReturn DEF StatelessReturns, At

LEMMA LookupKeeps ==
    ASSUME IndInv, NEW c \in Callers, Lookup(c)
    PROVE  IndInv'
<1>1. CallsInv /\ caller[c] \in Locals /\ Placed(caller[c]) /\ caller[c].pc = "lookup"
      /\ UNCHANGED <<sessions, mapLock, session>>
  BY CallFacts DEF IndInv, Lookup, At
<1>2. CASE Return(c)
  BY <1>1, <1>2, BareReturn
<1>3. CASE ~Return(c)
  <2>1. PICK x : x = sessions[caller[c].host]
    OBVIOUS
  <2>2. x # None /\ caller' = [caller EXCEPT ![c].sess = x, ![c].pc = "lock"]
    BY <1>3, <2>1 DEF Lookup
  <2>3. caller[c].host \in Hosts /\ caller[c].op = "execute" /\ x \in Sessions
    BY <1>1, <2>1, <2>2, CallFacts DEF Placed
  <2>4. PICK r : r = [caller[c] EXCEPT !.sess = x, !.pc = "lock"]
    OBVIOUS
  <2>5. /\ r \in Locals /\ r.pc = "lock" /\ r.op = caller[c].op /\ r.host = caller[c].host
        /\ r.victim = caller[c].victim /\ r.sess = x
    BY <1>1, <2>3, <2>4 DEF Locals, Labels
  <2>6. Placed(r)
    BY <1>1, <2>3, <2>5 DEF Placed
  <2>7. Moved(c, r)
    BY <2>2, <2>4 DEF Moved
  <2> QED
    BY <1>1, <2>1, <2>3, <2>5, <2>6, <2>7, UnboundStep
<1> QED
  BY <1>2, <1>3

\* A call that waited for its session's death.
LEMMA TerminatedFacts ==
    ASSUME IndInv, NEW c \in Callers, Terminated(c)
    PROVE  /\ CallsInv /\ caller[c] \in Locals /\ Placed(caller[c]) /\ caller[c].pc = "await"
           /\ caller[c].victim \in Sessions
           /\ session[caller[c].victim].exited /\ ~session[caller[c].victim].proc
<1>1. CallsInv /\ caller[c].pc = "await" /\ session[caller[c].victim].exited
  BY DEF IndInv, Terminated, At
<1>2. caller[c] \in Locals /\ Placed(caller[c])
  BY <1>1, CallFacts
<1>3. caller[c].victim \in Sessions
  BY <1>1, <1>2 DEF Placed
<1> QED
  BY <1>1, <1>2, <1>3 DEF CallsInv, Sane

LEMMA ConnectFailsKeeps ==
    ASSUME IndInv, NEW c \in Callers, ConnectFails(c)
    PROVE  IndInv'
<1>1. /\ CallsInv /\ caller[c].pc = "await" /\ caller[c].op = "connect"
      /\ caller[c].victim = caller[c].sess /\ caller[c].victim \in Sessions
      /\ session[caller[c].victim].exited /\ ~session[caller[c].victim].proc
  BY TerminatedFacts DEF ConnectFails
<1>2. ~HoldsMap(caller[c]) /\ ~HoldsSession(caller[c])
  BY <1>1 DEF HoldsMap, HoldsSession
<1>3. \A s \in Sessions : /\ AnswersFor(caller[c], s) => ~session[s].proc
                          /\ Uses(caller[c], s) => Settled(session[s])
  BY <1>1 DEF AnswersFor, Uses, Settled
<1>4. Moved(c, Idle) /\ UNCHANGED <<sessions, mapLock, session>>
  BY ReturnStep DEF ConnectFails
<1> QED
  BY <1>2, <1>3, <1>4, IdleType, QuietStep

\* A session starts under a name that nothing refers to.
LEMMA SpawnKeeps ==
    ASSUME IndInv, NEW c \in Callers, Spawn(c)
    PROVE  IndInv'
<1>1. CallsInv /\ caller[c] \in Locals /\ Placed(caller[c]) /\ caller[c].pc = "spawn"
      /\ UNCHANGED <<sessions, mapLock>>
  BY CallFacts DEF IndInv, Spawn, At
<1>2. CASE Return(c) /\ UNCHANGED session
  BY <1>1, <1>2, BareReturn
<1>3. ASSUME NEW s \in Sessions, Unused(s), session' = [session EXCEPT ![s] = Fresh],
             caller' = [caller EXCEPT ![c].pc = "init", ![c].sess = s]
      PROVE  IndInv'
  <2>1. PICK r : r = [caller[c] EXCEPT !.pc = "init", !.sess = s]
    OBVIOUS
  <2>2. /\ r \in Locals /\ r.pc = "init" /\ r.op = "connect" /\ r.host = caller[c].host
        /\ r.victim = None /\ r.sess = s /\ r.want = "init"
    BY <1>1, <2>1, Unbound DEF Locals, Labels, Placed
  <2>3. Placed(r)
    BY <1>1, <2>2, Constants DEF Placed
  <2>4. Moved(c, r)
    BY <1>3, <2>1 DEF Moved
  <2>5. /\ Fresh \in SessionRec /\ Sane(Fresh) /\ Empty(Fresh) /\ Fresh.lock = None
    <3>1. <<>> \in Seq(Tokens) /\ <<>> \in Seq(0..MaxCommands) /\ <<>> \in Seq(Seq(Tokens))
          /\ Len(<<>>) = 0
      BY EmptySeq
    <3>2. Fresh \in SessionRec
      BY <3>1, Constants DEF Fresh, SessionRec
    <3>3. Sane(Fresh)
      BY <3>1, Constants DEF Fresh, Sane
    <3> QED
      BY <3>2, <3>3 DEF Fresh, Empty
  <2>6. \A t \in Sessions : session'[t] = IF t = s THEN Fresh ELSE session[t]
    BY <1>1, <1>3 DEF CallsInv
  <2>7. /\ MapLocked /\ SessionLocked /\ Private /\ NoOrphanProgram /\ PipeInv
        /\ ~HoldsMap(r) /\ ~HoldsMap(caller[c]) /\ ~HoldsSession(r) /\ ~HoldsSession(caller[c])
    BY <1>1, <2>2, Unbound DEF IndInv, LocksInv, HoldsMap, HoldsSession
  <2>8. /\ \A h \in Hosts : sessions[h] # s
        /\ \A d \in Callers : caller[d].sess # s /\ caller[d].victim # s
    BY <1>3 DEF Unused
  <2>9. CallsInv'
    <3>1. session' \in [Sessions -> SessionRec] /\ \A t \in Sessions : Sane(session'[t])
      BY <1>1, <1>3, <2>5, <2>6 DEF CallsInv
    <3>2. sessions' \in [Hosts -> Sessions \cup {None}] /\ mapLock' \in Callers \cup {None}
      BY <1>1 DEF CallsInv
    <3> QED
      BY <1>1, <2>2, <2>3, <2>4, <3>1, <3>2, CallsStep
  <2>10. MapLocked'
    <3>1. HoldsMap(r) <=> mapLock' = c
      BY <1>1, <2>7 DEF MapLocked
    <3> QED
      BY <1>1, <2>2, <2>4, <2>7, <3>1, MapStep
  <2>11. SessionLocked'
    <3>1. \A t \in Sessions : t # s => session'[t].lock = session[t].lock /\ session[t].lock # c
      BY <2>6, <2>7 DEF SessionLocked
    <3>2. session'[s].lock = None /\ session[s].lock = None
      <4>1. session[s].lock \in Callers \cup {None}
        BY <1>1 DEF CallsInv, SessionRec
      <4> QED
        BY <2>5, <2>6, <2>7, <2>8, <4>1 DEF SessionLocked
    <3> QED
      BY <1>1, <2>2, <2>4, <2>7, <3>1, <3>2, Constants, LockStep
  <2>12. Private'
    <3>1. Shared(r.sess, c) /\ Shared(r.victim, c) /\ \A h \in Hosts : Shared(sessions'[h], c)
      BY <1>1, <2>2, <2>7, <2>8, SharedNames DEF Shared
    <3> QED
      BY <1>1, <2>2, <2>4, <2>7, <2>8, <3>1, PrivateStep
  <2>13. NoOrphanProgram'
    <3>1. \A t \in Sessions : session'[t].proc =>
              \/ AnswersFor(r, t) \/ Mapped(sessions', t)
              \/ session[t].proc /\ ~Mapped(sessions, t) /\ ~AnswersFor(caller[c], t)
      BY <1>1, <2>2, <2>6, Unbound DEF AnswersFor
    <3> QED
      BY <1>1, <2>2, <2>4, <2>7, <3>1, OrphanStep
  <2>14. PipeInv'
    <3>1. ASSUME NEW d \in Callers, d # c, caller[d].sess # None
          PROVE  Carries(session[caller[d].sess], session'[caller[d].sess])
      <4>1. caller[d].sess \in Sessions /\ caller[d].sess # s
        BY <1>1, <2>8, <3>1, CallFacts
      <4> QED
        BY <2>6, <4>1 DEF Carries
    <3>2. r.sess # None => Pipe(session'[r.sess], r)
      BY <2>2, <2>5, <2>6 DEF Pipe
    <3>3. \A t \in Sessions : ~Uses(r, t) =>
              \/ Settled(session'[t])
              \/ ~Uses(caller[c], t) /\ (Settled(session[t]) => Settled(session'[t]))
      BY <1>1, <2>2, <2>6, Unbound DEF Settled, Uses
    <3> QED
      BY <1>1, <2>2, <2>4, <2>7, <3>1, <3>2, <3>3, PipeStep
  <2> QED
    BY <2>9, <2>10, <2>11, <2>12, <2>13, <2>14 DEF IndInv, LocksInv
<1> QED
  BY <1>2, <1>3 DEF Spawn

-----------------------------------------------------------------------------
(* A scan that finds its marker                                            *)

\* What is behind the token at i stays in accum.
Consumed(p, t, i) ==
    /\ t.accum = SubSeq(p.accum, i + 1, Len(p.accum))
    /\ t.input = p.input /\ t.output = p.output /\ t.held = p.held /\ t.readCh = p.readCh
    /\ t.printed = p.printed /\ Records(p, t)

LEMMA AccumEffect ==
    ASSUME NEW p \in SessionRec, Sane(p), NEW i \in 1..Len(p.accum), NEW t,
           t = [p EXCEPT !.accum = SubSeq(@, i + 1, Len(@))]
    PROVE  Onward(p, t) /\ Consumed(p, t, i)
<1>1. p.accum \in Seq(Tokens) /\ Len(p.accum) \in Nat
  BY LenProperties DEF SessionRec
<1>2. \A j \in 1..Len(p.accum) : p.accum[j] \in Tokens
  BY <1>1, ElementOfSeq
<1>3. SubSeq(p.accum, i + 1, Len(p.accum)) \in Seq(Tokens)
  BY <1>1, <1>2, SubSeqProperties
<1>4. /\ t \in SessionRec /\ t.lock = p.lock /\ t.proc = p.proc /\ t.exited = p.exited
      /\ t.written = p.written /\ t.printed = p.printed /\ t.tty = p.tty
      /\ t.input = p.input /\ t.output = p.output /\ t.held = p.held /\ t.readCh = p.readCh
      /\ t.accum = SubSeq(p.accum, i + 1, Len(p.accum))
  BY <1>3 DEF SessionRec
<1> QED
  BY <1>4 DEF Sane, Onward, Consumed, Records

\* Without its first i tokens accum begins further on in the same stretch.
LEMMA TakenStream ==
    ASSUME NEW p \in SessionRec, NEW n \in 0..MaxCommands, NEW b \in Nat, Streams(p, n, b),
           NEW i \in 1..Len(p.accum), NEW t \in SessionRec, Consumed(p, t, i)
    PROVE  /\ \A j \in 1..Len(p.accum) : p.accum[j] = Token(p, n, b + j)
           /\ Streams(t, n, b + i)
<1>1. PICK A : A = Len(p.accum)
  OBVIOUS
<1>2. A \in Nat /\ i \in 1..A /\ i \in 0..A /\ p.accum \in Seq(Tokens)
  BY <1>1, Lengths DEF SessionRec
<1>3. PICK at \in [1..(Len(p.readCh) + 1) -> Nat] : Stretch(p, n, b, at)
  BY DEF Streams
<1>4. at[1] = b + A /\ PartOf(p, n, p.accum, b)
  BY <1>1, <1>3 DEF Stretch
<1>5. t.accum = SubSeq(p.accum, i + 1, A)
  BY <1>1 DEF Consumed
<1>6. PartOf(p, n, t.accum, b + i) /\ Len(t.accum) = A - i
  BY <1>1, <1>2, <1>4, <1>5, CutInTwo
<1>7. at[1] = (b + i) + Len(t.accum)
  BY <1>2, <1>4, <1>6
<1>8. Stretch(t, n, b + i, at)
  BY <1>3, <1>6, <1>7, SameTokens DEF Stretch, Consumed, Records
<1>9. t.readCh = p.readCh
  BY DEF Consumed
<1> QED
  BY <1>3, <1>4, <1>8, <1>9 DEF Streams, PartOf

\* The end marker is found behind the whole output.
LEMMA EndFound ==
    ASSUME NEW p \in SessionRec, NEW n \in 1..MaxCommands, Streams(p, n, 0),
           NEW i \in 1..Len(p.accum), p.accum[i].part = "end",
           NEW t \in SessionRec, Consumed(p, t, i)
    PROVE  /\ SubSeq(p.accum, 1, i - 1) = Outputs(p, n)
           /\ Streams(t, n, p.printed[n] + 2)
<1>1. PICK A, P, z : A = Len(p.accum) /\ P = p.printed[n] + 1 /\ z = 0
  OBVIOUS
<1>2. /\ A \in Nat /\ P \in Nat /\ p.accum \in Seq(Tokens) /\ n # 0 /\ n \in 0..MaxCommands
      /\ i \in 1..A /\ p.printed[n] \in Nat /\ z \in Nat
  <2>1. n \in 0..MaxCommands /\ n # 0
    BY Constants
  <2>2. A \in Nat /\ p.printed[n] \in Nat
    BY <1>1, <2>1, Lengths
  <2>3. P \in Nat /\ z \in Nat
    BY <1>1, <2>2
  <2> QED
    BY <1>1, <2>1, <2>2, <2>3 DEF SessionRec
<1>3. (\A j \in 1..A : p.accum[j] = Token(p, n, z + j)) /\ Streams(t, n, z + i)
  <2>1. Streams(p, n, z)
    BY <1>1
  <2> QED
    BY <1>1, <1>2, <2>1, TakenStream
<1>4. \A j \in 1..A : p.accum[j] = Token(p, n, j)
  BY <1>1, <1>2, <1>3
<1>5. i = P + 1
  <2>1. Token(p, n, i).part = "end"
    BY <1>2, <1>4
  <2> QED
    BY <1>1, <1>2, <2>1 DEF Token
<1>6. SubSeq(p.accum, 1, i - 1) = Outputs(p, n)
  <2>1. PICK x : x = SubSeq(p.accum, 1, P)
    OBVIOUS
  <2>2. \A j \in 1..A : p.accum[j] \in Tokens
    BY <1>1, <1>2, ElementOfSeq
  <2>3. x \in Seq(Tokens) /\ Len(x) = P /\ \A j \in 1..P : x[j] = p.accum[j]
    BY <1>1, <1>2, <1>5, <2>1, <2>2, SubSeqProperties
  <2>4. x \in [1..P -> Tokens]
    BY <2>3, LenProperties
  <2>5. \A j \in 1..P : x[j] = Token(p, n, j)
    BY <1>2, <1>4, <1>5, <2>3
  <2>6. x = [j \in 1..P |-> Token(p, n, j)]
    BY <2>4, <2>5
  <2>7. i - 1 = P
    BY <1>2, <1>5
  <2> QED
    BY <1>1, <2>1, <2>6, <2>7 DEF Outputs
<1>7. z + i = p.printed[n] + 2
  BY <1>1, <1>2, <1>5
<1> QED
  BY <1>3, <1>6, <1>7

\* Behind the output and the end marker, the exit code comes first.
LEMMA CodeIsFirst ==
    ASSUME NEW p, NEW n, n # 0, NEW P \in Nat, P = p.printed[n], NEW i \in Nat, i >= 1,
           Token(p, n, (P + 2) + i).part = "code"
    PROVE  i = 1
<1>1. PICK k \in Nat : k = (P + 2) + i
  OBVIOUS
<1>2. k # 1 /\ ~(k <= P + 1) /\ k # P + 2
  BY <1>1
<1>3. Token(p, n, k) = [cmd |-> n, part |-> IF k = P + 3 THEN "code" ELSE "newline"]
  BY <1>2 DEF Token
<1>4. Token(p, n, k).part = (IF k = P + 3 THEN "code" ELSE "newline")
  BY <1>3
<1>5. k = P + 3
  BY <1>1, <1>4
<1> QED
  BY <1>1, <1>5

\* The init marker and the exit code leave the newline behind them.
LEMMA LastFound ==
    ASSUME NEW p \in SessionRec, NEW n \in 0..MaxCommands, NEW b \in Nat, Streams(p, n, b),
           p.written = n, b + 2 = Total(p, n),
           NEW i \in 1..Len(p.accum), p.accum[i].part = (IF n = 0 THEN "init" ELSE "code"),
           NEW t \in SessionRec, Consumed(p, t, i)
    PROVE  Clean(t)
<1>1. p.accum[i] = Token(p, n, b + i) /\ Streams(t, n, b + i)
  BY TakenStream
<1>2. p.printed[n] \in Nat /\ i \in Nat /\ i >= 1
  BY Amounts, Lengths
<1>3. i = 1
  <2>1. Token(p, n, b + i).part = (IF n = 0 THEN "init" ELSE "code")
    BY <1>1
  <2>2. CASE n = 0
    <3>1. b = 0
      BY <2>2 DEF Total
    <3> QED
      BY <1>2, <2>1, <2>2, <3>1 DEF Token
  <2>3. CASE n # 0
    <3>1. PICK P \in Nat : P = p.printed[n]
      BY <1>2
    <3>2. b + 2 = P + 4
      BY <2>3, <3>1 DEF Total
    <3>3. b = P + 2
      BY <3>2
    <3>4. Token(p, n, (P + 2) + i).part = "code"
      BY <2>1, <2>3, <3>3
    <3> QED
      BY <1>2, <2>3, <3>1, <3>4, CodeIsFirst
  <2> QED
    BY <2>2, <2>3
<1>4. t.written = n /\ Total(t, n) = Total(p, n)
  BY SameTokens DEF Consumed, Records
<1>5. b + i = Total(t, n) - 1
  BY <1>3, <1>4, Amounts
<1> QED
  BY <1>1, <1>4, <1>5 DEF Clean

LEMMA MarkerTaken ==
    ASSUME NEW p \in SessionRec, NEW q \in Locals, Placed(q), Pipe(p, q),
           q.pc \in {"scan", "drain"}, NEW i \in 1..Len(p.accum), p.accum[i].part = q.want,
           NEW t \in SessionRec, Consumed(p, t, i)
    PROVE  /\ q.want # "end" => Clean(t)
           /\ q.want = "end" => /\ SubSeq(p.accum, 1, i - 1) = Outputs(p, q.cmd)
                                /\ Streams(t, q.cmd, p.printed[q.cmd] + 2)
                                /\ t.written = q.cmd
<1>1. q.want \in {"init", "end", "code"} /\ q.cmd \in 0..MaxCommands /\ 0 \in 0..MaxCommands
  BY Constants DEF Locals
<1>2. CASE q.want = "init"
  <2>1. Streams(p, 0, 0) /\ p.written = 0
    BY <1>2 DEF Pipe
  <2>2. PICK z : z = 0
    OBVIOUS
  <2>3. Streams(p, z, z) /\ z + 2 = Total(p, z) /\ z \in Nat /\ z \in 0..MaxCommands /\ p.written = z
    BY <1>1, <2>1, <2>2 DEF Total
  <2>4. p.accum[i].part = (IF z = 0 THEN "init" ELSE "code")
    BY <1>2, <2>2
  <2> QED
    BY <1>2, <2>3, <2>4, LastFound
<1>3. CASE q.want = "end"
  <2>1. q.cmd \in 1..MaxCommands /\ Streams(p, q.cmd, 0) /\ p.written = q.cmd
    BY <1>1, <1>3 DEF Pipe, Placed
  <2>2. t.written = q.cmd
    BY <2>1 DEF Consumed, Records
  <2> QED
    BY <1>3, <2>1, <2>2, EndFound
<1>4. CASE q.want = "code"
  <2>1. q.cmd # 0 /\ Streams(p, q.cmd, p.printed[q.cmd] + 2) /\ p.written = q.cmd
    BY <1>4 DEF Pipe, Placed
  <2>2. PICK b : b = p.printed[q.cmd] + 2
    OBVIOUS
  <2>3. p.printed[q.cmd] \in Nat
    BY <1>1, Lengths
  <2>4. b \in Nat /\ b + 2 = Total(p, q.cmd)
    BY <2>1, <2>2, <2>3 DEF Total
  <2>5. p.accum[i].part = (IF q.cmd = 0 THEN "init" ELSE "code")
    BY <1>4, <2>1
  <2> QED
    BY <1>1, <1>4, <2>1, <2>2, <2>4, <2>5, LastFound
<1> QED
  BY <1>1, <1>2, <1>3, <1>4

-----------------------------------------------------------------------------
(* The owner of a session works in it                                      *)

LEMMA Owner ==
    ASSUME IndInv, NEW c \in Callers, caller[c].pc \in {"init", "scan", "drain", "write"}
    PROVE  /\ CallsInv /\ caller[c] \in Locals /\ Placed(caller[c])
           /\ caller[c].sess \in Sessions /\ caller[c].victim = None
           /\ session[caller[c].sess] \in SessionRec /\ Sane(session[caller[c].sess])
           /\ HoldsSession(caller[c]) \/ Connecting(caller[c])
           /\ ~HoldsMap(caller[c]) /\ Pipe(session[caller[c].sess], caller[c])
<1>1. CallsInv /\ PipeInv
  BY DEF IndInv
<1>2. caller[c] \in Locals /\ Placed(caller[c]) /\ None \notin Sessions
  BY <1>1, CallFacts
<1>3. caller[c].op \in {"connect", "execute"}
  BY <1>2 DEF Placed
<1>4. caller[c].sess \in Sessions /\ caller[c].victim = None
  BY <1>2, <1>3 DEF Placed, Locals
<1>5. HoldsSession(caller[c]) \/ Connecting(caller[c])
  BY <1>2, <1>3, <1>4 DEF HoldsSession, Connecting, Placed
<1>6. ~HoldsMap(caller[c])
  BY DEF HoldsMap
<1>7. Pipe(session[caller[c].sess], caller[c])
  BY <1>1, <1>2, <1>4, SMTT(30) DEF PipeInv
<1> QED
  BY <1>1, <1>2, <1>4, <1>5, <1>6, <1>7, CallFacts

LEMMA MarkerAtFound ==
    ASSUME NEW c \in Callers, session[caller[c].sess] \in SessionRec
    PROVE  /\ MarkerAt(c) \in 0..Len(session[caller[c].sess].accum)
           /\ MarkerAt(c) # 0 =>
                  session[caller[c].sess].accum[MarkerAt(c)].part = caller[c].want
<1>1. session[caller[c].sess].accum \in Seq(Tokens)
  BY DEF SessionRec
<1>2. MarkerAt(c) = Least({j \in 1..Len(session[caller[c].sess].accum) :
                               session[caller[c].sess].accum[j].part = caller[c].want})
  BY DEF MarkerAt, Sess, SelectInSeq, Least
<1> QED
  BY <1>1, <1>2, MarkerFound

LEMMA FoundKeeps ==
    ASSUME IndInv, NEW c \in Callers, caller[c].pc \in {"scan", "drain"}, Found(c),
           UNCHANGED <<sessions, mapLock>>
    PROVE  IndInv'
<1>1. PICK q, s, p, i : q = caller[c] /\ s = caller[c].sess /\ p = session[caller[c].sess] /\ i = MarkerAt(c)
  OBVIOUS
<1>2. /\ CallsInv /\ q \in Locals /\ Placed(q) /\ s \in Sessions /\ q.victim = None
      /\ p \in SessionRec /\ Sane(p) /\ (HoldsSession(q) \/ Connecting(q))
      /\ ~HoldsMap(q) /\ Pipe(p, q) /\ q.sess = s /\ q.pc \in {"scan", "drain"}
  BY <1>1, Owner
<1>3. i \in 1..Len(p.accum) /\ p.accum[i].part = q.want
  <2>1. i \in 0..Len(p.accum) /\ (i # 0 => p.accum[i].part = q.want)
    BY <1>1, <1>2, MarkerAtFound
  <2>2. i > 0
    BY <1>1 DEF Found
  <2> QED
    BY <2>1, <2>2
<1>4. PICK t : t = [p EXCEPT !.accum = SubSeq(@, i + 1, Len(@))]
  OBVIOUS
<1>5. session' = [session EXCEPT ![s] = t]
  BY <1>1, <1>2, <1>4 DEF CallsInv, Found
<1>6. Onward(p, t) /\ Consumed(p, t, i)
  BY <1>2, <1>3, <1>4, AccumEffect
<1>7. PICK after : after = CASE q.want = "init" -> "store"
                            [] q.want = "end"  -> "scan"
                            [] q.want = "code" -> "result"
  OBVIOUS
<1>8. PICK r : r = [q EXCEPT !.pc = after, !.want = IF @ = "end" THEN "code" ELSE @,
                             !.got = IF q.want = "end" THEN SubSeq(p.accum, 1, i - 1) ELSE @]
  OBVIOUS
<1>9. Moved(c, r)
  <2>1. caller' = [caller EXCEPT ![c].pc = after, ![c].want = IF @ = "end" THEN "code" ELSE @,
                        ![c].got = IF q.want = "end" THEN SubSeq(p.accum, 1, i - 1) ELSE @]
    BY <1>1, <1>7 DEF Found, Sess
  <2> QED
    BY <1>1, <1>8, <2>1 DEF Moved
<1>10. SubSeq(p.accum, 1, i - 1) \in Seq(Tokens)
  <2>1. p.accum \in Seq(Tokens) /\ \A j \in 1..Len(p.accum) : p.accum[j] \in Tokens
    BY <1>2, ElementOfSeq DEF SessionRec
  <2>2. Len(p.accum) \in Nat
    BY <1>2, Lengths
  <2> QED
    BY <1>3, <2>1, <2>2, SubSeqProperties
<1>11. q.want \in {"init", "end", "code"}
  BY <1>2 DEF Locals
<1>12. /\ r \in Locals /\ r.pc = after /\ r.op = q.op /\ r.host = q.host /\ r.sess = s
       /\ r.victim = None /\ r.cmd = q.cmd
       /\ r.want = (IF q.want = "end" THEN "code" ELSE q.want)
       /\ r.got = (IF q.want = "end" THEN SubSeq(p.accum, 1, i - 1) ELSE q.got)
  BY <1>2, <1>7, <1>8, <1>10, <1>11 DEF Locals, Labels
<1>13. /\ q.want = "init" => after = "store"
       /\ q.want = "end" => after = "scan"
       /\ q.want = "code" => after = "result"
  BY <1>7
<1>14. Placed(r)
  BY <1>2, <1>11, <1>12, <1>13, Constants DEF Placed
<1>15. /\ HoldsSession(r) <=> HoldsSession(q)
       /\ ~HoldsMap(r)
  BY <1>2, <1>11, <1>12, <1>13 DEF HoldsSession, HoldsMap, Placed
<1>16. /\ q.want # "end" => Clean(t)
       /\ q.want = "end" => /\ SubSeq(p.accum, 1, i - 1) = Outputs(p, q.cmd)
                            /\ Streams(t, q.cmd, p.printed[q.cmd] + 2)
                            /\ t.written = q.cmd
  <2>1. t \in SessionRec
    BY <1>6 DEF Onward
  <2> QED
    BY <1>2, <1>3, <1>6, <2>1, MarkerTaken
<1>17. t.printed = p.printed /\ Outputs(t, q.cmd) = Outputs(p, q.cmd)
  BY <1>6, SameTokens DEF Consumed
<1>18. Pipe(t, r)
  <2>1. CASE q.want = "init"
    BY <1>12, <1>13, <2>1 DEF Pipe
  <2>2. CASE q.want = "end"
    BY <1>12, <1>13, <1>16, <1>17, <2>2 DEF Pipe
  <2>3. CASE q.want = "code"
    BY <1>2, <1>12, <1>13, <1>16, <1>17, <2>3 DEF Pipe
  <2> QED
    BY <1>11, <2>1, <2>2, <2>3
<1>19. Uses(r, s) \/ Settled(t)
  BY <1>11, <1>12, <1>13, <1>16 DEF Uses, Settled
<1> QED
  BY <1>1, <1>2, <1>5, <1>6, <1>9, <1>12, <1>14, <1>15, <1>18, <1>19, OwnStep

LEMMA StayingIsOnward ==
    ASSUME CallsInv, NEW s \in Sessions, UNCHANGED session
    PROVE  Onward(session[s], session[s]) /\ session' = [session EXCEPT ![s] = session[s]]
BY DEF CallsInv, Onward

\* The scan, or the write of the init line, fails: the session is to be ended.
LEMMA GivesUp ==
    ASSUME IndInv, NEW c \in Callers, caller[c].pc \in {"init", "scan", "drain"},
           Terminate(c, caller[c].sess), UNCHANGED <<sessions, mapLock, session>>
    PROVE  IndInv'
<1>1. /\ CallsInv /\ Placed(caller[c]) /\ caller[c].sess \in Sessions /\ caller[c].victim = None
      /\ (HoldsSession(caller[c]) \/ Connecting(caller[c])) /\ ~HoldsMap(caller[c])
  BY Owner
<1>2. PICK r \in Locals : Moved(c, r) /\ Same(caller[c], r) /\ r.pc = "close" /\ r.victim = caller[c].sess
  BY <1>1, TerminateStep
<1>3. r.sess = caller[c].sess /\ r.op = caller[c].op /\ r.host = caller[c].host /\ r.victim = r.sess
  BY <1>2 DEF Same
<1>4. caller[c].op \in {"connect", "execute"}
  BY <1>1 DEF Placed
<1>5. Placed(r)
  BY <1>1, <1>2, <1>3, <1>4 DEF Placed
<1>6. (HoldsSession(r) <=> HoldsSession(caller[c])) /\ ~HoldsMap(r)
  BY <1>1, <1>2, <1>3, <1>4 DEF HoldsSession, HoldsMap, Placed
<1>7. Pipe(session[caller[c].sess], r) /\ Uses(r, r.sess)
  BY <1>2, <1>3 DEF Pipe, Uses
<1>8. Onward(session[caller[c].sess], session[caller[c].sess])
      /\ session' = [session EXCEPT ![caller[c].sess] = session[caller[c].sess]]
  BY <1>1, StayingIsOnward
<1> QED
  BY <1>1, <1>2, <1>3, <1>5, <1>6, <1>7, <1>8, OwnStep

LEMMA ReceiveKeeps ==
    ASSUME IndInv, NEW c \in Callers, caller[c].sess \in Sessions, Receive(c),
           UNCHANGED <<sessions, mapLock>>
    PROVE  IndInv'
<1>1. PICK s, p : s = caller[c].sess /\ p = session[caller[c].sess]
  OBVIOUS
<1>2. p \in SessionRec /\ Sane(p) /\ CallsInv
  BY <1>1, SessionFacts
<1>3. PICK r : r = [p EXCEPT !.accum = @ \o Head(p.readCh), !.readCh = Tail(@)]
  OBVIOUS
<1>4. session' = [session EXCEPT ![s] = r] /\ p.readCh # <<>> /\ UNCHANGED caller
  BY <1>1, <1>2, <1>3 DEF CallsInv, Receive, Sess
<1>5. Onward(p, r) /\ Received(p, r)
  BY <1>2, <1>3, <1>4, ReceiveEffect
<1>6. Carries(p, r) /\ (Settled(p) => Settled(r))
  BY <1>2, <1>5, ReceiveCarries
<1> QED
  BY <1>1, <1>4, <1>5, <1>6, SessionStep

\* The session has ended: the scan goes on with what is left of it.
LEMMA DrainsNext ==
    ASSUME IndInv, NEW c \in Callers, caller[c].pc = "scan", Goto(c, "drain"),
           UNCHANGED <<sessions, mapLock, session>>
    PROVE  IndInv'
<1>1. /\ CallsInv /\ Placed(caller[c]) /\ caller[c].sess \in Sessions /\ caller[c].victim = None
      /\ (HoldsSession(caller[c]) \/ Connecting(caller[c])) /\ ~HoldsMap(caller[c])
      /\ Pipe(session[caller[c].sess], caller[c])
  BY Owner
<1>2. PICK r \in Locals : /\ Moved(c, r) /\ Same(caller[c], r)
                          /\ r.pc = "drain" /\ r.victim = caller[c].victim
  BY <1>1, GotoStep DEF Labels
<1>3. Placed(r) /\ r.sess = caller[c].sess /\ r.op = caller[c].op
  BY <1>1, <1>2 DEF Placed, Same
<1>4. (HoldsSession(r) <=> HoldsSession(caller[c])) /\ ~HoldsMap(r)
  BY <1>2, <1>3 DEF HoldsSession, HoldsMap
<1>5. Pipe(session[caller[c].sess], r) /\ Uses(r, r.sess)
  BY <1>1, <1>2 DEF Pipe, Same, Uses
<1>6. Onward(session[caller[c].sess], session[caller[c].sess])
      /\ session' = [session EXCEPT ![caller[c].sess] = session[caller[c].sess]]
  BY <1>1, StayingIsOnward
<1> QED
  BY <1>1, <1>2, <1>3, <1>4, <1>5, <1>6, OwnStep

LEMMA ScanKeeps ==
    ASSUME IndInv, NEW c \in Callers, Scan(c) \/ ScanTimesOut(c) \/ Drain(c)
    PROVE  IndInv'
<1>1. caller[c].pc \in {"scan", "drain"} /\ UNCHANGED <<sessions, mapLock>>
  BY DEF Scan, ScanTimesOut, Drain, At
<1>2. caller[c].sess \in Sessions
  BY <1>1, Owner
<1>3. CASE Found(c)
  BY <1>1, <1>3, FoundKeeps
<1>4. CASE Receive(c)
  BY <1>1, <1>2, <1>4, ReceiveKeeps
<1>5. CASE ScanFailed(c) /\ UNCHANGED session
  BY <1>1, <1>5, GivesUp DEF ScanFailed
<1>6. CASE At(c, "scan") /\ Goto(c, "drain") /\ UNCHANGED session
  BY <1>1, <1>6, DrainsNext DEF At
<1> QED
  BY <1>3, <1>4, <1>5, <1>6 DEF Scan, ScanTimesOut, Drain

LEMMA KillKeeps ==
    ASSUME IndInv, NEW c \in Callers, Kill(c)
    PROVE  IndInv'
<1>1. PICK s, p : s = caller[c].victim /\ p = session[caller[c].victim]
  OBVIOUS
<1>2. s \in Sessions
  BY <1>1, CallFacts DEF IndInv, Kill, At, Placed
<1>3. p \in SessionRec /\ Sane(p) /\ CallsInv
  BY <1>1, <1>2, SessionFacts
<1>4. PICK r : r = [p EXCEPT !.proc = FALSE]
  OBVIOUS
<1>5. session' = [session EXCEPT ![s] = r] /\ UNCHANGED <<sessions, mapLock, caller>>
  BY <1>1, <1>3, <1>4 DEF CallsInv, Kill
<1>6. Onward(p, r) /\ Flow(r) = Flow(p) /\ History(r) = History(p)
  BY <1>3, <1>4, FlagsEffect
<1>7. Carries(p, r) /\ (Settled(p) => Settled(r))
  BY <1>3, <1>6, SameFlow
<1> QED
  BY <1>1, <1>2, <1>5, <1>6, <1>7, SessionStep

\* A command, or the init line, is written.
Started(p, r, n) ==
    /\ r.input \in {<<>>, <<n>>} /\ r.written = n /\ (n # 0 => r.printed[n] = 0)
    /\ r.output = p.output /\ r.held = p.held /\ r.readCh = p.readCh /\ r.accum = p.accum
    /\ r.tty = p.tty

LEMMA WriteEffect ==
    ASSUME NEW p \in SessionRec, Sane(p), NEW n, NEW x, x \in {<<>>, <<n>>}, NEW r,
           \/ n = 0 /\ p.written = 0 /\ r = [p EXCEPT !.input = x]
           \/ n = p.written + 1 /\ n <= MaxCommands /\ r = [p EXCEPT !.written = n, !.input = x]
    PROVE  n \in 0..MaxCommands /\ Onward(p, r) /\ Started(p, r, n)
<1>1. p.written \in 0..MaxCommands /\ p.printed \in [0..MaxCommands -> Nat] /\ MaxCommands \in Nat
  BY Constants DEF SessionRec
<1>2. n \in 0..MaxCommands
  BY <1>1
<1>3. x \in Seq(0..MaxCommands) /\ Len(x) \in 0..1 /\ \A k \in 1..Len(x) : x[k] = n
  <2>1. CASE x = <<>>
    BY <2>1, EmptySeq
  <2>2. CASE x = <<n>>
    BY <1>2, <2>2
  <2> QED
    BY <2>1, <2>2
<1>4. PICK w : w = r.written
  OBVIOUS
<1>5. /\ r \in SessionRec /\ r.lock = p.lock /\ r.proc = p.proc /\ r.exited = p.exited
      /\ r.output = p.output /\ r.held = p.held /\ r.readCh = p.readCh /\ r.accum = p.accum
      /\ r.input = x /\ r.printed = p.printed /\ r.tty = p.tty /\ w = n
      /\ n = p.written \/ n = p.written + 1
  BY <1>2, <1>3, <1>4 DEF SessionRec
<1>6. w \in Nat /\ n <= w /\ p.written <= w
  BY <1>1, <1>2, <1>5
<1>7. \A m \in 0..MaxCommands : m > p.written => p.printed[m] = 0
  BY DEF Sane
<1>8. Sane(r)
  <2>1. \A k \in 1..Len(r.input) : r.input[k] <= r.written
    BY <1>3, <1>4, <1>5, <1>6
  <2>2. ASSUME NEW m \in 0..MaxCommands, m > r.written PROVE r.printed[m] = 0
    <3>1. m > p.written
      BY <1>1, <1>4, <1>6, <2>2
    <3> QED
      BY <1>5, <1>7, <3>1
  <2> QED
    BY <1>5, <2>1, <2>2 DEF Sane
<1>9. n # 0 => r.printed[n] = 0
  BY <1>1, <1>2, <1>5, <1>7
<1> QED
  BY <1>2, <1>4, <1>5, <1>8, <1>9 DEF Onward, Started

\* The init line begins with nothing before it.
LEMMA InitStream ==
    ASSUME NEW r \in SessionRec, NEW p, NEW n \in 0..MaxCommands, n = 0, Empty(p), Started(p, r, n)
    PROVE  Streams(r, n, 0)
<1>1. Len(<<>>) = 0
  BY EmptySeq
<1>2. /\ r.output = <<>> /\ r.held = <<>> /\ r.readCh = <<>> /\ r.accum = <<>>
      /\ r.input \in {<<>>, <<n>>}
  BY DEF Started, Empty
<1>3. PICK at : at = [k \in 1..1 |-> 0]
  OBVIOUS
<1>4. at \in [1..(0 + 1) -> Nat] /\ at[0 + 1] = 0 /\ at[1] = 0
  BY <1>3
<1>5. \A from : PartOf(r, n, <<>>, from)
  BY <1>1 DEF PartOf
<1>6. Starts(<<>>, at) /\ Rising(<<>>, at) /\ ReadsOf(r, n, <<>>, at)
  BY <1>1 DEF Starts, Rising, ReadsOf
<1>7. Reaches(r, n, 0)
  BY <1>2 DEF Reaches, Total, Unmarked
<1>8. Stretch(r, n, 0, at)
  BY <1>1, <1>2, <1>4, <1>5, <1>6, <1>7 DEF Stretch
<1> QED
  BY <1>1, <1>2, <1>4, <1>8 DEF Streams

\* A command begins with the newline the one before it left, wherever in the
\* pipeline that is.
LEMMA CommandStream ==
    ASSUME NEW p \in SessionRec, NEW r \in SessionRec, Clean(p), p.tty,
           NEW n \in 0..MaxCommands, n = p.written + 1, Started(p, r, n)
    PROVE  Streams(r, n, 0)
<1>1. PICK L, A, H, O, w, b : /\ L = Len(p.readCh) /\ A = Len(p.accum) /\ H = Len(p.held)
                              /\ O = Len(p.output) /\ w = p.written /\ b = Total(p, w) - 1
  OBVIOUS
<1>2. /\ L \in Nat /\ A \in Nat /\ H \in Nat /\ O \in Nat /\ w \in 0..MaxCommands /\ w \in Nat
      /\ n = w + 1 /\ n # 0 /\ n - 1 = w
  <2>1. w \in 0..MaxCommands /\ w \in Nat
    BY <1>1, Amounts
  <2>2. L \in Nat /\ A \in Nat /\ H \in Nat /\ O \in Nat
    BY <1>1, Lengths
  <2> QED
    BY <1>1, <2>1, <2>2
<1>3. b \in Nat /\ Total(p, w) = b + 1 /\ Unmarked(p, w) < b
  <2>1. p.printed[w] \in Nat /\ b = Total(p, w) - 1
    BY <1>1, <1>2, Amounts
  <2>2. CASE w = 0
    BY <2>1, <2>2 DEF Total, Unmarked
  <2>3. CASE w # 0
    BY <2>1, <2>3 DEF Total, Unmarked
  <2> QED
    BY <2>2, <2>3
<1>4. PICK at \in [1..(L + 1) -> Nat] : Stretch(p, w, b, at)
  BY <1>1 DEF Clean, Streams
<1>5. PICK last : last = at[L + 1]
  OBVIOUS
<1>6. /\ at[1] = b + A /\ PartOf(p, w, p.accum, b)
      /\ Starts(p.readCh, at) /\ Rising(p.readCh, at) /\ ReadsOf(p, w, p.readCh, at)
      /\ PartOf(p, w, p.held, last) /\ PartOf(p, w, p.output, last + H)
      /\ Reaches(p, w, last + H + O)
  BY <1>1, <1>4, <1>5 DEF Stretch
<1>7. \A k, m \in 1..(L + 1) : k < m => at[k] < at[m]
  BY <1>1, <1>6 DEF Rising
<1>8. \A k \in 1..(L + 1) : at[k] \in Nat /\ b <= at[k] /\ at[k] <= last /\ at[1] <= at[k]
  <2>1. \A k \in 1..(L + 1) : at[k] \in Nat /\ at[k] <= last
    BY <1>1, <1>2, <1>4, <1>5, <1>6, AtMost
  <2>2. ASSUME NEW k \in 1..(L + 1) PROVE at[1] <= at[k]
    <3>1. 1 \in 1..(L + 1) /\ at[1] \in Nat /\ at[k] \in Nat
      BY <1>2
    <3>2. CASE k = 1
      BY <3>1, <3>2
    <3>3. CASE k # 1
      <4>1. 1 < k
        BY <1>2, <3>3
      <4> QED
        BY <1>7, <3>1, <4>1
    <3> QED
      BY <3>2, <3>3
  <2> QED
    BY <1>2, <1>3, <1>6, <2>1, <2>2
<1>9. last \in Nat /\ b + A <= last
  <2>1. L + 1 \in 1..(L + 1)
    BY <1>2
  <2> QED
    BY <1>5, <1>6, <1>8, <2>1
<1>10. last + H + O = b + 1
  <2>1. last + H + O \in {Unmarked(p, w), b + 1}
    BY <1>3, <1>6 DEF Reaches
  <2>2. last + H + O >= b
    BY <1>2, <1>3, <1>9
  <2>3. last + H + O # Unmarked(p, w)
    BY <1>2, <1>3, <1>9, <2>2, Amounts
  <2> QED
    BY <2>1, <2>3
<1>11. Token(p, w, b + 1) = [cmd |-> w, part |-> "newline"]
       /\ Token(r, n, 1) = [cmd |-> w, part |-> "newline"]
  <2>1. p.printed[w] \in Nat
    BY <1>2, Amounts
  <2>2. CASE w = 0
    BY <1>2, <1>3, <2>2 DEF Token, Total
  <2>3. CASE w # 0
    <3>1. PICK z : z = p.printed[w]
      OBVIOUS
    <3>2. z \in Nat /\ b + 1 = z + 4
      BY <1>3, <2>1, <2>3, <3>1 DEF Total
    <3>3. Token(p, w, z + 4) = [cmd |-> w, part |-> "newline"]
      BY <2>3, <3>1, <3>2 DEF Token
    <3>4. Token(r, n, 1) = [cmd |-> w, part |-> "newline"]
      BY <1>2 DEF Token
    <3> QED
      BY <3>2, <3>3, <3>4
  <2> QED
    BY <2>2, <2>3
<1>12. ASSUME NEW x, NEW from \in Nat, Len(x) \in Nat, b <= from, from + Len(x) <= b + 1,
              PartOf(p, w, x, from)
       PROVE  PartOf(r, n, x, from - b)
  <2> SUFFICES ASSUME NEW j \in 1..Len(x) PROVE x[j] = Token(r, n, (from - b) + j)
    BY DEF PartOf
  <2>1. from = b /\ j = 1 /\ (from - b) + j = 1
    BY <1>3, <1>12
  <2>2. x[j] = Token(p, w, from + j)
    BY <1>12 DEF PartOf
  <2> QED
    BY <1>11, <2>1, <2>2
<1>13. PICK to : to = [k \in 1..(L + 1) |-> at[k] - b]
  OBVIOUS
<1>14. to \in [1..(L + 1) -> Nat] /\ \A k \in 1..(L + 1) : to[k] = at[k] - b
  BY <1>3, <1>8, <1>13
<1>15. /\ r.held = p.held /\ r.readCh = p.readCh /\ r.accum = p.accum /\ r.output = p.output
       /\ r.input \in {<<>>, <<n>>} /\ r.printed[n] = 0
  BY <1>2 DEF Started
<1>16. PartOf(r, n, p.accum, 0)
  <2>1. b + A <= b + 1 /\ b - b = 0
    BY <1>2, <1>3, <1>9, <1>10
  <2>2. PartOf(r, n, p.accum, b - b)
    BY <1>1, <1>2, <1>3, <1>6, <1>12, <2>1
  <2> QED
    BY <2>1, <2>2
<1>17. ASSUME NEW k \in 1..L
       PROVE  to[k + 1] = to[k] + Len(p.readCh[k]) /\ PartOf(r, n, p.readCh[k], to[k])
  <2>1. PICK m, B : m = k + 1 /\ B = Len(p.readCh[k])
    OBVIOUS
  <2>2. k \in 1..(L + 1) /\ m \in 1..(L + 1)
    BY <1>2, <2>1
  <2>3. B \in Nat
    BY <1>1, <2>1, Lengths
  <2>4. at[m] = at[k] + B /\ PartOf(p, w, p.readCh[k], at[k])
    BY <1>1, <1>6, <2>1 DEF Starts, ReadsOf
  <2>5. at[k] \in Nat /\ at[m] \in Nat /\ b <= at[k] /\ at[m] <= last
    BY <1>8, <2>2
  <2>6. at[k] + B <= b + 1
    BY <1>2, <1>3, <1>9, <1>10, <2>4, <2>5
  <2>7. PartOf(r, n, p.readCh[k], at[k] - b)
    BY <1>12, <2>1, <2>3, <2>4, <2>5, <2>6
  <2>8. to[m] = at[m] - b /\ to[k] = at[k] - b
    BY <1>14, <2>2
  <2>9. to[m] = to[k] + B
    BY <1>3, <2>3, <2>4, <2>5, <2>8
  <2> QED
    BY <2>1, <2>7, <2>8, <2>9
<1>18. Starts(p.readCh, to) /\ ReadsOf(r, n, p.readCh, to)
  BY <1>1, <1>17 DEF Starts, ReadsOf
<1>19. Rising(p.readCh, to)
  <2>1. ASSUME NEW k \in 1..(L + 1), NEW m \in 1..(L + 1), k < m PROVE to[k] < to[m]
    BY <1>3, <1>7, <1>8, <1>14, <2>1
  <2> QED
    BY <1>1, <2>1 DEF Rising
<1>20. PICK first, end : first = to[1] /\ end = to[L + 1]
  OBVIOUS
<1>21. first = 0 + A /\ end = last - b /\ end \in Nat
  <2>1. 1 \in 1..(L + 1) /\ L + 1 \in 1..(L + 1)
    BY <1>2
  <2> QED
    BY <1>2, <1>3, <1>5, <1>6, <1>9, <1>14, <1>20, <2>1
<1>22. PartOf(r, n, p.held, end) /\ PartOf(r, n, p.output, end + H)
  <2>1. b <= last /\ last + H <= b + 1 /\ b <= last + H /\ (last + H) + O <= b + 1 /\ last + H \in Nat
    BY <1>2, <1>3, <1>9, <1>10
  <2>2. PartOf(r, n, p.held, last - b)
    BY <1>1, <1>2, <1>6, <1>9, <1>12, <2>1
  <2>3. PartOf(r, n, p.output, (last + H) - b)
    BY <1>1, <1>2, <1>6, <1>12, <2>1
  <2>4. (last + H) - b = end + H
    BY <1>2, <1>3, <1>9, <1>21
  <2> QED
    BY <1>21, <2>2, <2>3, <2>4
<1>23. Reaches(r, n, end + H + O)
  <2>1. end + H + O = 1
    BY <1>2, <1>3, <1>9, <1>10, <1>21
  <2>2. Total(r, n) = 4 /\ Unmarked(r, n) = 1
    BY <1>2, <1>15 DEF Total, Unmarked
  <2> QED
    BY <1>15, <2>1, <2>2 DEF Reaches
<1>24. Stretch(r, n, 0, to)
  BY <1>1, <1>15, <1>16, <1>18, <1>19, <1>20, <1>21, <1>22, <1>23 DEF Stretch
<1> QED
  BY <1>1, <1>14, <1>15, <1>24 DEF Streams

LEMMA WriteInitKeeps ==
    ASSUME IndInv, NEW c \in Callers, WriteInit(c)
    PROVE  IndInv'
<1>1. PICK q, s, p : q = caller[c] /\ s = caller[c].sess /\ p = session[caller[c].sess]
  OBVIOUS
<1>2. q.pc = "init" /\ UNCHANGED <<sessions, mapLock>>
  BY <1>1 DEF WriteInit, At
<1>3. /\ CallsInv /\ q \in Locals /\ Placed(q) /\ s \in Sessions /\ q.victim = None
      /\ p \in SessionRec /\ Sane(p) /\ (HoldsSession(q) \/ Connecting(q))
      /\ ~HoldsMap(q) /\ Pipe(p, q) /\ q.sess = s
  BY <1>1, <1>2, Owner
<1>4. CASE Terminate(c, caller[c].sess) /\ UNCHANGED session
  BY <1>1, <1>2, <1>4, GivesUp
<1>5. ASSUME session' = [session EXCEPT ![caller[c].sess].input = IF Sess(c).proc THEN << 0 >> ELSE <<>>],
             Goto(c, "scan")
      PROVE  IndInv'
  <2>1. PICK x : x = IF p.proc THEN << 0 >> ELSE <<>>
    OBVIOUS
  <2>2. PICK t : t = [p EXCEPT !.input = x]
    OBVIOUS
  <2>3. session' = [session EXCEPT ![s] = t]
    BY <1>1, <1>3, <1>5, <2>1, <2>2 DEF CallsInv, Sess
  <2>4. Empty(p) /\ p.written = 0 /\ x \in {<<>>, << 0 >>}
    BY <1>2, <1>3, <2>1 DEF Pipe, Empty
  <2>5. 0 \in 0..MaxCommands /\ Onward(p, t) /\ Started(p, t, 0)
    BY <1>3, <2>2, <2>4, WriteEffect
  <2>6. Streams(t, 0, 0) /\ t.written = 0
    BY <2>4, <2>5, InitStream DEF Onward, Started
  <2>7. PICK r \in Locals : Moved(c, r) /\ Same(caller[c], r) /\ r.pc = "scan" /\ r.victim = caller[c].victim
    BY <1>3, <1>5, GotoStep DEF Labels
  <2>8. /\ r.sess = s /\ r.op = q.op /\ r.host = q.host /\ r.want = q.want /\ r.victim = None
        /\ q.op = "connect" /\ q.want = "init"
    BY <1>1, <1>2, <1>3, <2>7 DEF Same, Placed
  <2>9. Placed(r)
    BY <1>2, <1>3, <2>7, <2>8 DEF Placed
  <2>10. (HoldsSession(r) <=> HoldsSession(q)) /\ ~HoldsMap(r)
    BY <2>7, <2>8 DEF HoldsSession, HoldsMap
  <2>11. Pipe(t, r) /\ Uses(r, r.sess)
    BY <2>6, <2>7, <2>8 DEF Pipe, Uses
  <2> QED
    BY <1>1, <1>2, <1>3, <2>3, <2>5, <2>7, <2>8, <2>9, <2>10, <2>11, OwnStep
<1> QED
  BY <1>4, <1>5 DEF WriteInit

LEMMA WriteKeeps ==
    ASSUME IndInv, NEW c \in Callers, Write(c)
    PROVE  IndInv'
<1>1. PICK q, s, p, n : /\ q = caller[c] /\ s = caller[c].sess /\ p = session[caller[c].sess]
                        /\ n = p.written + 1
  OBVIOUS
<1>2. q.pc = "write" /\ UNCHANGED <<sessions, mapLock>>
  BY <1>1 DEF Write, At
<1>3. /\ CallsInv /\ q \in Locals /\ Placed(q) /\ s \in Sessions /\ q.victim = None
      /\ p \in SessionRec /\ Sane(p) /\ (HoldsSession(q) \/ Connecting(q))
      /\ ~HoldsMap(q) /\ Pipe(p, q) /\ q.sess = s
  BY <1>1, <1>2, Owner
<1>4. Clean(p) /\ q.op = "execute" /\ q.host \in Hosts
  BY <1>2, <1>3 DEF Pipe, Placed
<1>5. CASE Goto(c, "unlock") /\ UNCHANGED session
  <2>1. PICK r \in Locals : Moved(c, r) /\ Same(caller[c], r) /\ r.pc = "unlock" /\ r.victim = caller[c].victim
    BY <1>3, <1>5, GotoStep DEF Labels
  <2>2. r.sess = s /\ r.op = q.op /\ r.host = q.host /\ r.victim = None
    BY <1>1, <1>3, <2>1 DEF Same
  <2>3. Placed(r)
    BY <1>2, <1>3, <1>4, <2>1, <2>2 DEF Placed
  <2>4. (HoldsSession(r) <=> HoldsSession(q)) /\ ~HoldsMap(r) /\ Pipe(p, r) /\ Settled(p)
    BY <1>2, <1>4, <2>1, <2>2 DEF HoldsSession, HoldsMap, Pipe, Settled
  <2>5. Onward(p, p) /\ session' = [session EXCEPT ![s] = p]
    BY <1>1, <1>3, <1>5, StayingIsOnward
  <2> QED
    BY <1>1, <1>2, <1>3, <2>1, <2>2, <2>3, <2>4, <2>5, OwnStep
<1>6. ASSUME p.tty, n <= MaxCommands,
             session' = [session EXCEPT ![s].written = n,
                             ![s].input = IF p.proc THEN Append(@, n) ELSE <<>>],
             caller' = [caller EXCEPT ![c].pc = "scan", ![c].cmd = n, ![c].want = "end"]
      PROVE  IndInv'
  <2>1. PICK x : x = IF p.proc THEN <<n>> ELSE <<>>
    OBVIOUS
  <2>2. PICK t : t = [p EXCEPT !.written = n, !.input = x]
    OBVIOUS
  <2>3. session' = [session EXCEPT ![s] = t]
    <3>1. p.input = <<>> /\ Append(<<>>, n) = <<n>>
      BY <1>3, <1>4, CleanIsRun
    <3>2. session' = [session EXCEPT ![s] = [p EXCEPT !.written = n,
                                                 !.input = IF p.proc THEN Append(@, n) ELSE <<>>]]
      BY <1>1, <1>3, <1>6 DEF CallsInv
    <3>3. (IF p.proc THEN Append(p.input, n) ELSE <<>>) = x
      BY <2>1, <3>1
    <3> QED
      BY <2>2, <3>2, <3>3
  <2>4. x \in {<<>>, <<n>>}
    BY <2>1
  <2>5. n \in 0..MaxCommands /\ Onward(p, t) /\ Started(p, t, n)
    BY <1>1, <1>3, <1>6, <2>2, <2>4, WriteEffect
  <2>6. Streams(t, n, 0) /\ t.written = n
    BY <1>1, <1>3, <1>4, <1>6, <2>5, CommandStream DEF Onward, Started
  <2>7. PICK r : r = [q EXCEPT !.pc = "scan", !.cmd = n, !.want = "end"]
    OBVIOUS
  <2>8. /\ r \in Locals /\ r.pc = "scan" /\ r.cmd = n /\ r.want = "end" /\ r.sess = s
        /\ r.op = q.op /\ r.host = q.host /\ r.victim = None
    BY <1>3, <2>5, <2>7 DEF Locals, Labels
  <2>9. Moved(c, r) /\ n # 0
    <3>1. p.written \in Nat
      BY <1>3, Lengths
    <3>2. n # 0
      BY <1>1, <3>1
    <3>3. Moved(c, r)
      BY <1>1, <1>6, <2>7 DEF Moved
    <3> QED
      BY <3>2, <3>3
  <2>10. Placed(r)
    BY <1>2, <1>3, <1>4, <2>8, <2>9, Constants DEF Placed
  <2>11. (HoldsSession(r) <=> HoldsSession(q)) /\ ~HoldsMap(r) /\ Pipe(t, r) /\ Uses(r, r.sess)
    BY <1>2, <1>4, <2>6, <2>8 DEF HoldsSession, HoldsMap, Pipe, Uses
  <2> QED
    BY <1>1, <1>2, <1>3, <2>3, <2>5, <2>8, <2>9, <2>10, <2>11, OwnStep
<1> QED
  BY <1>1, <1>5, <1>6 DEF Write, Sess

-----------------------------------------------------------------------------
(* Under the map's lock                                                    *)

\* A step of Connect or Disconnect that takes, holds or gives back the map's
\* lock and touches no session.
LEMMA MapMove ==
    ASSUME IndInv, NEW c \in Callers, NEW r \in Locals, Moved(c, r), Placed(r), UNCHANGED session,
           ~HoldsSession(r), ~HoldsSession(caller[c]),
           sessions' \in [Hosts -> Sessions \cup {None}],
           mapLock \in {None, c}, mapLock' \in {None, c}, HoldsMap(r) <=> mapLock' = c,
           HoldsMap(r) /\ r.victim # None => sessions'[r.host] = r.victim,
           r.sess = None \/ (r.sess = caller[c].sess /\ r.op = caller[c].op /\ sessions' = sessions),
           Shared(r.victim, c), \A h \in Hosts : Shared(sessions'[h], c),
           r.pc \notin {"init", "scan", "drain", "write", "result"},
           \A s \in Sessions : session[s].proc =>
               \/ AnswersFor(r, s) \/ Mapped(sessions', s)
               \/ ~Mapped(sessions, s) /\ ~AnswersFor(caller[c], s),
           \A s \in Sessions : ~Uses(caller[c], s)
    PROVE  IndInv'
<1>1. CallsInv /\ MapLocked /\ SessionLocked /\ Private /\ NoOrphanProgram /\ PipeInv
  BY DEF IndInv, LocksInv
<1>2. CallsInv'
  <2>1. /\ mapLock' \in Callers \cup {None}
        /\ session' \in [Sessions -> SessionRec] /\ \A s \in Sessions : Sane(session'[s])
    BY <1>1 DEF CallsInv
  <2> QED
    BY <1>1, <2>1, CallsStep
<1>3. MapLocked'
  BY <1>1, MapStep
<1>4. SessionLocked'
  <2>1. \A s \in Sessions : session'[s].lock = session[s].lock /\ session[s].lock # c
    BY <1>1 DEF SessionLocked
  <2> QED
    BY <1>1, <2>1, LockStep
<1>5. Private'
  <2>1. Shared(r.sess, c)
    BY <1>1, SharedNames
  <2>2. Connecting(r) => /\ \A h \in Hosts : sessions'[h] # r.sess
                         /\ \A d \in Callers : d # c =>
                               caller[d].sess # r.sess /\ caller[d].victim # r.sess
    BY <1>1 DEF Private, Connecting
  <2> QED
    BY <1>1, <2>1, <2>2, PrivateStep
<1>6. NoOrphanProgram'
  <2>1. \A s \in Sessions : session'[s].proc =>
            \/ AnswersFor(r, s) \/ Mapped(sessions', s)
            \/ session[s].proc /\ ~Mapped(sessions, s) /\ ~AnswersFor(caller[c], s)
    OBVIOUS
  <2> QED
    BY <1>1, <2>1, OrphanStep
<1>7. PipeInv'
  <2>1. \A d \in Callers : d # c /\ caller[d].sess # None /\ caller[d].pc # "lock" =>
            Carries(session[caller[d].sess], session'[caller[d].sess])
    BY DEF Carries
  <2>2. r.sess # None => Pipe(session'[r.sess], r)
    BY DEF Pipe
  <2>3. \A s \in Sessions : ~Uses(r, s) =>
            \/ Settled(session'[s])
            \/ ~Uses(caller[c], s) /\ (Settled(session[s]) => Settled(session'[s]))
    OBVIOUS
  <2> QED
    BY <1>1, <2>1, <2>2, <2>3, PipeStep
<1> QED
  BY <1>2, <1>3, <1>4, <1>5, <1>6, <1>7 DEF IndInv, LocksInv

LEMMA GrabKeeps ==
    ASSUME IndInv, NEW c \in Callers, Grab(c)
    PROVE  IndInv'
<1>1. /\ CallsInv /\ MapLocked /\ Private
      /\ caller[c] \in Locals /\ Placed(caller[c]) /\ caller[c].pc = "grab"
      /\ mapLock = None /\ mapLock' = c /\ UNCHANGED <<sessions, session>>
      /\ None \notin Sessions /\ None \notin Callers
  BY CallFacts DEF IndInv, LocksInv, Grab, At
<1>2. caller[c].op = "disconnect" /\ caller[c].sess = None /\ caller[c].victim = None
  BY <1>1 DEF Placed, Locals
<1>3. PICK r \in Locals : Moved(c, r) /\ Same(caller[c], r) /\ r.pc = "sweep" /\ r.victim = caller[c].victim
  BY <1>1, GotoStep DEF Grab, Labels
<1>4. r.op = "disconnect" /\ r.sess = None /\ r.victim = None
  BY <1>2, <1>3 DEF Same
<1>5. Placed(r) /\ HoldsMap(r) /\ ~HoldsSession(r) /\ ~HoldsSession(caller[c])
  BY <1>1, <1>2, <1>3, <1>4 DEF Placed, HoldsMap, HoldsSession
<1>6. Shared(r.victim, c) /\ \A h \in Hosts : Shared(sessions'[h], c)
  BY <1>1, <1>4, SharedNames
<1>7. \A s \in Sessions : ~Uses(caller[c], s) /\ ~AnswersFor(caller[c], s)
  BY <1>1, <1>2 DEF Uses, AnswersFor
<1>8. sessions' \in [Hosts -> Sessions \cup {None}]
  BY <1>1 DEF CallsInv
<1> QED
  BY <1>1, <1>3, <1>4, <1>5, <1>6, <1>7, <1>8, MapMove

LEMMA SweepKeeps ==
    ASSUME IndInv, NEW c \in Callers, Sweep(c)
    PROVE  IndInv'
<1>1. PICK q, left : q = caller[c] /\ left = {h \in caller[c].todo : sessions[h] # None}
  OBVIOUS
<1>2. /\ CallsInv /\ MapLocked /\ Private
      /\ q \in Locals /\ Placed(q) /\ q.pc = "sweep" /\ UNCHANGED <<sessions, session>>
      /\ None \notin Sessions /\ None \notin Callers
  BY <1>1, CallFacts DEF IndInv, LocksInv, Sweep, At
<1>3. q.op = "disconnect" /\ q.sess = None /\ q.victim = None
  BY <1>2 DEF Placed, Locals
<1>4. mapLock = c
  BY <1>1, <1>2 DEF MapLocked, HoldsMap
<1>5. \A s \in Sessions : ~Uses(q, s) /\ ~AnswersFor(q, s)
  BY <1>2, <1>3 DEF Uses, AnswersFor
<1>6. ~HoldsSession(q) /\ sessions' \in [Hosts -> Sessions \cup {None}]
  BY <1>2, <1>3 DEF HoldsSession, CallsInv
<1>7. Shared(None, c) /\ \A h \in Hosts : Shared(sessions[h], c)
  BY <1>2, SharedNames
<1>8. CASE mapLock' = None /\ Return(c)
  <2>1. Moved(c, Idle) /\ Idle \in Locals /\ Placed(Idle) /\ Idle.sess = None
        /\ ~HoldsMap(Idle) /\ ~HoldsSession(Idle) /\ Idle.victim = None /\ Idle.pc = "idle"
    BY <1>8, ReturnStep, IdleType
  <2> QED
    BY <1>1, <1>2, <1>4, <1>5, <1>6, <1>7, <1>8, <2>1, MapMove
<1>9. ASSUME NEW h \in left, mapLock' = mapLock,
             caller' = [caller EXCEPT ![c].pc = "close", ![c].host = h,
                                      ![c].victim = sessions[h], ![c].todo = left]
      PROVE  IndInv'
  <2>1. h \in Hosts /\ left \subseteq Hosts /\ sessions[h] # None
    BY <1>1, <1>2 DEF Locals
  <2>2. sessions[h] \in Sessions
    BY <1>2, <2>1, CallFacts
  <2>3. PICK r : r = [q EXCEPT !.pc = "close", !.host = h, !.victim = sessions[h], !.todo = left]
    OBVIOUS
  <2>4. r \in Locals /\ r.pc = "close" /\ r.host = h /\ r.victim = sessions[h]
        /\ r.op = "disconnect" /\ r.sess = None
    BY <1>2, <1>3, <2>1, <2>2, <2>3 DEF Locals, Labels
  <2>5. Moved(c, r)
    BY <1>1, <1>9, <2>3 DEF Moved
  <2>6. Placed(r) /\ HoldsMap(r) /\ ~HoldsSession(r)
    BY <1>2, <2>1, <2>2, <2>4 DEF Placed, HoldsMap, HoldsSession
  <2>7. Shared(r.victim, c)
    BY <1>7, <2>1, <2>4
  <2> QED
    BY <1>1, <1>2, <1>4, <1>5, <1>6, <1>7, <1>9, <2>4, <2>5, <2>6, <2>7, MapMove
<1> QED
  BY <1>1, <1>8, <1>9 DEF Sweep

LEMMA DeleteKeeps ==
    ASSUME IndInv, NEW c \in Callers, Delete(c)
    PROVE  IndInv'
<1>1. PICK q, v : q = caller[c] /\ v = caller[c].victim
  OBVIOUS
<1>2. /\ CallsInv /\ MapLocked /\ Private /\ NoOrphanProgram
      /\ q \in Locals /\ Placed(q) /\ q.pc = "await" /\ v \in Sessions /\ ~session[v].proc
      /\ q.op = "disconnect" /\ UNCHANGED <<mapLock, session>>
      /\ None \notin Sessions /\ None \notin Callers
  BY <1>1, TerminatedFacts, Constants DEF IndInv, LocksInv, Delete
<1>3. q.sess = None /\ q.host \in Hosts /\ HoldsMap(q) /\ v # None
  BY <1>2 DEF Placed, Locals, HoldsMap
<1>4. mapLock = c /\ sessions[q.host] = v
  BY <1>1, <1>2, <1>3 DEF MapLocked
<1>5. sessions' = [sessions EXCEPT ![q.host] = None]
      /\ caller' = [caller EXCEPT ![c].pc = "sweep", ![c].host = None, ![c].victim = None]
  BY <1>1 DEF Delete
<1>6. /\ sessions' \in [Hosts -> Sessions \cup {None}]
      /\ \A h \in Hosts : sessions'[h] = IF h = q.host THEN None ELSE sessions[h]
  BY <1>2, <1>3, <1>5 DEF CallsInv
<1>7. PICK r : r = [q EXCEPT !.pc = "sweep", !.host = None, !.victim = None]
  OBVIOUS
<1>8. r \in Locals /\ r.pc = "sweep" /\ r.victim = None /\ r.op = "disconnect" /\ r.sess = None
  BY <1>2, <1>3, <1>7 DEF Locals, Labels
<1>9. Moved(c, r)
  BY <1>1, <1>5, <1>7 DEF Moved
<1>10. Placed(r) /\ HoldsMap(r) /\ ~HoldsSession(r) /\ ~HoldsSession(q)
  BY <1>2, <1>8 DEF Placed, HoldsMap, HoldsSession
<1>11. Shared(r.victim, c) /\ \A h \in Hosts : Shared(sessions'[h], c)
  BY <1>2, <1>6, <1>8, SharedNames
<1>12. \A s \in Sessions : ~Uses(q, s)
  BY <1>2, <1>3 DEF Uses
<1>13. ASSUME NEW s \in Sessions, session[s].proc
       PROVE  Mapped(sessions', s) \/ (~Mapped(sessions, s) /\ ~AnswersFor(q, s))
  <2>1. s # v /\ ~AnswersFor(q, s)
    BY <1>1, <1>2, <1>3, <1>13 DEF AnswersFor
  <2>2. ASSUME NEW h \in Hosts, sessions[h] = s PROVE sessions'[h] = s
    BY <1>4, <1>6, <2>1, <2>2
  <2> QED
    BY <2>1, <2>2 DEF Mapped
<1> QED
  BY <1>1, <1>2, <1>4, <1>6, <1>8, <1>9, <1>10, <1>11, <1>12, <1>13, MapMove

LEMMA StoreKeeps ==
    ASSUME IndInv, NEW c \in Callers, Store(c)
    PROVE  IndInv'
<1>1. PICK q, s, h : q = caller[c] /\ s = caller[c].sess /\ h = caller[c].host
  OBVIOUS
<1>2. /\ CallsInv /\ MapLocked /\ Private
      /\ q \in Locals /\ Placed(q) /\ q.pc = "store" /\ UNCHANGED session
      /\ mapLock = None /\ None \notin Sessions /\ None \notin Callers
  BY <1>1, CallFacts DEF IndInv, LocksInv, Store, At
<1>3. q.op = "connect" /\ s \in Sessions /\ q.victim = None /\ h \in Hosts /\ q.sess = s
  BY <1>1, <1>2 DEF Placed, Locals
<1>4. \A t \in Sessions : ~Uses(q, t) /\ (AnswersFor(q, t) => t = s)
  BY <1>2, <1>3 DEF Uses, AnswersFor
<1>5. ~HoldsSession(q) /\ Connecting(q)
  BY <1>2, <1>3 DEF HoldsSession, Connecting
<1>6. Shared(None, c) /\ Shared(s, c) /\ \A x \in Hosts : Shared(sessions[x], c)
  BY <1>1, <1>2, SharedNames
<1>7. CASE sessions[h] = None
  <2>1. sessions' = [sessions EXCEPT ![h] = s] /\ Return(c) /\ UNCHANGED mapLock
    BY <1>1, <1>7 DEF Store
  <2>2. /\ sessions' \in [Hosts -> Sessions \cup {None}]
        /\ \A x \in Hosts : sessions'[x] = IF x = h THEN s ELSE sessions[x]
    BY <1>2, <1>3, <2>1 DEF CallsInv
  <2>3. Moved(c, Idle) /\ Idle \in Locals /\ Placed(Idle) /\ Idle.sess = None
        /\ ~HoldsMap(Idle) /\ ~HoldsSession(Idle) /\ Idle.victim = None /\ Idle.pc = "idle"
    BY <2>1, ReturnStep, IdleType
  <2>4. \A x \in Hosts : Shared(sessions'[x], c)
    BY <1>6, <2>2
  <2>5. ASSUME NEW t \in Sessions
        PROVE  Mapped(sessions', t) \/ (~Mapped(sessions, t) /\ ~AnswersFor(q, t))
    <3>1. CASE t = s
      BY <1>3, <2>2, <3>1 DEF Mapped
    <3>2. CASE t # s
      <4>1. ASSUME NEW x \in Hosts, sessions[x] = t PROVE sessions'[x] = t
        BY <1>2, <1>7, <2>2, <4>1
      <4> QED
        BY <1>4, <3>2, <4>1 DEF Mapped
    <3> QED
      BY <3>1, <3>2
  <2> QED
    BY <1>1, <1>2, <1>4, <1>5, <1>6, <2>1, <2>2, <2>3, <2>4, <2>5, MapMove
<1>8. CASE sessions[h] # None
  <2>1. Terminate(c, sessions[h]) /\ mapLock' = c /\ UNCHANGED sessions
    BY <1>1, <1>8 DEF Store
  <2>2. sessions[h] \in Sessions /\ sessions[h] # s
    BY <1>1, <1>2, <1>3, <1>5, <1>8, CallFacts DEF Private
  <2>3. PICK r \in Locals : Moved(c, r) /\ Same(caller[c], r) /\ r.pc = "close" /\ r.victim = sessions[h]
    BY <1>2, <2>1, <2>2, TerminateStep
  <2>4. r.op = q.op /\ r.sess = s /\ r.host = h /\ r.op = "connect"
    BY <1>1, <1>3, <2>3 DEF Same
  <2>5. Placed(r) /\ HoldsMap(r) /\ ~HoldsSession(r)
    BY <1>2, <1>3, <2>2, <2>3, <2>4 DEF Placed, HoldsMap, HoldsSession
  <2>6. \A t \in Sessions : AnswersFor(q, t) => AnswersFor(r, t)
    BY <1>4, <2>4 DEF AnswersFor
  <2>7. Shared(r.victim, c) /\ sessions' \in [Hosts -> Sessions \cup {None}]
    BY <1>2, <1>3, <1>6, <2>1, <2>3 DEF CallsInv
  <2>8. \A t \in Sessions : session[t].proc =>
            AnswersFor(r, t) \/ Mapped(sessions', t) \/ (~Mapped(sessions, t) /\ ~AnswersFor(q, t))
    BY <2>1, <2>6 DEF Mapped
  <2>9. HoldsMap(r) /\ r.victim # None => sessions'[r.host] = r.victim
    BY <2>1, <2>3, <2>4
  <2> QED
    BY <1>1, <1>2, <1>3, <1>4, <1>5, <1>6, <2>1, <2>3, <2>4, <2>5, <2>7, <2>8, <2>9, MapMove
<1> QED
  BY <1>7, <1>8

LEMMA ReplaceKeeps ==
    ASSUME IndInv, NEW c \in Callers, Replace(c)
    PROVE  IndInv'
<1>1. PICK q, s, v, h : /\ q = caller[c] /\ s = caller[c].sess
                        /\ v = caller[c].victim /\ h = caller[c].host
  OBVIOUS
<1>2. /\ CallsInv /\ MapLocked /\ Private
      /\ q \in Locals /\ Placed(q) /\ q.pc = "await" /\ v \in Sessions /\ ~session[v].proc
      /\ q.op = "connect" /\ v # s /\ q.victim = v /\ q.sess = s /\ UNCHANGED session
      /\ None \notin Sessions /\ None \notin Callers
  BY <1>1, TerminatedFacts, Constants DEF IndInv, LocksInv, Replace
<1>3. s \in Sessions /\ h \in Hosts /\ HoldsMap(q) /\ v # None /\ q.host = h
  BY <1>1, <1>2 DEF Placed, HoldsMap
<1>4. mapLock = c /\ sessions[h] = v
  BY <1>1, <1>2, <1>3 DEF MapLocked
<1>5. sessions' = [sessions EXCEPT ![h] = s] /\ mapLock' = None /\ Return(c)
  BY <1>1 DEF Replace
<1>6. /\ sessions' \in [Hosts -> Sessions \cup {None}]
      /\ \A x \in Hosts : sessions'[x] = IF x = h THEN s ELSE sessions[x]
  BY <1>2, <1>3, <1>5 DEF CallsInv
<1>7. Moved(c, Idle) /\ Idle \in Locals /\ Placed(Idle) /\ Idle.sess = None
      /\ ~HoldsMap(Idle) /\ ~HoldsSession(Idle) /\ Idle.victim = None /\ Idle.pc = "idle"
  BY <1>5, ReturnStep, IdleType
<1>8. ~HoldsSession(q) /\ \A t \in Sessions : ~Uses(q, t)
  BY <1>2, <1>3 DEF HoldsSession, Uses
<1>9. Shared(None, c) /\ \A x \in Hosts : Shared(sessions'[x], c)
  BY <1>1, <1>2, <1>6, SharedNames
<1>10. ASSUME NEW t \in Sessions, session[t].proc
       PROVE  Mapped(sessions', t) \/ (~Mapped(sessions, t) /\ ~AnswersFor(q, t))
  <2>1. t # v
    BY <1>2, <1>10
  <2>2. CASE t = s
    BY <1>3, <1>6, <2>2 DEF Mapped
  <2>3. CASE t # s
    <3>1. ASSUME NEW x \in Hosts, sessions[x] = t PROVE sessions'[x] = t
      BY <1>4, <1>6, <2>1, <3>1
    <3>2. ~AnswersFor(q, t)
      BY <1>2, <2>1, <2>3 DEF AnswersFor
    <3> QED
      BY <3>1, <3>2 DEF Mapped
  <2> QED
    BY <2>2, <2>3
<1> QED
  BY <1>1, <1>2, <1>4, <1>5, <1>6, <1>7, <1>8, <1>9, <1>10, MapMove

-----------------------------------------------------------------------------
(* The end of a session, and its lock                                      *)

LEMMA CloseMasterKeeps ==
    ASSUME IndInv, NEW c \in Callers, CloseMaster(c)
    PROVE  IndInv'
<1>1. PICK q, v, p : q = caller[c] /\ v = caller[c].victim /\ p = session[caller[c].victim]
  OBVIOUS
<1>2. /\ CallsInv /\ MapLocked /\ SessionLocked /\ Private /\ NoOrphanProgram /\ PipeInv
      /\ q \in Locals /\ Placed(q) /\ q.pc = "close" /\ UNCHANGED <<sessions, mapLock>>
      /\ None \notin Sessions
  BY <1>1, CallFacts DEF IndInv, LocksInv, CloseMaster, At
<1>3. v \in Sessions /\ q.victim = v
  BY <1>1, <1>2 DEF Placed
<1>4. p \in SessionRec /\ Sane(p)
  BY <1>1, <1>3, SessionFacts
<1>5. PICK t : t = [p EXCEPT !.tty = FALSE, !.input = <<>>, !.output = <<>>]
  OBVIOUS
<1>6. session' = [session EXCEPT ![v] = t]
  BY <1>1, <1>2, <1>5 DEF CallsInv, CloseMaster
<1>7. Onward(p, t) /\ Carries(p, t) /\ (Settled(p) => Settled(t))
  BY <1>4, <1>5, CloseEffect, CutCarries
<1>8. \A s \in Sessions : session'[s] = IF s = v THEN t ELSE session[s]
  BY <1>2, <1>6 DEF CallsInv
<1>9. \A s \in Sessions : /\ session'[s].lock = session[s].lock
                          /\ session'[s].proc => session[s].proc
                          /\ Settled(session[s]) => Settled(session'[s])
                          /\ Carries(session[s], session'[s])
  BY <1>1, <1>7, <1>8 DEF Onward, Carries
<1>10. PICK r \in Locals : Moved(c, r) /\ Same(q, r) /\ r.pc = "await" /\ r.victim = v
  BY <1>1, <1>2, GotoStep DEF CloseMaster, Labels
<1>11. r.sess = q.sess /\ r.op = q.op /\ r.host = q.host
  BY <1>10 DEF Same
<1>12. Placed(r)
  BY <1>2, <1>3, <1>10, <1>11 DEF Placed
<1>13. /\ HoldsMap(r) <=> HoldsMap(q)
       /\ HoldsSession(r) <=> HoldsSession(q)
       /\ \A s \in Sessions : (Uses(r, s) <=> Uses(q, s)) /\ (AnswersFor(r, s) <=> AnswersFor(q, s))
  BY <1>2, <1>3, <1>10, <1>11 DEF HoldsMap, HoldsSession, Uses, AnswersFor
<1>14. CallsInv'
  <2>1. session' \in [Sessions -> SessionRec] /\ \A s \in Sessions : Sane(session'[s])
    BY <1>2, <1>6, <1>7, <1>8 DEF CallsInv, Onward
  <2>2. sessions' \in [Hosts -> Sessions \cup {None}] /\ mapLock' \in Callers \cup {None}
    BY <1>2 DEF CallsInv
  <2> QED
    BY <1>2, <1>10, <1>12, <2>1, <2>2, CallsStep
<1>15. MapLocked'
  <2>1. /\ HoldsMap(q) <=> mapLock = c
        /\ HoldsMap(q) /\ q.victim # None => sessions[q.host] = q.victim
    BY <1>1, <1>2 DEF MapLocked
  <2> QED
    BY <1>2, <1>3, <1>10, <1>11, <1>13, <2>1, MapStep
<1>16. SessionLocked'
  <2>1. HoldsSession(r) => session'[r.sess].lock = c
    <3>1. HoldsSession(q) => q.sess \in Sessions /\ session[q.sess].lock = c
      BY <1>1, <1>2 DEF SessionLocked, HoldsSession, Placed
    <3> QED
      BY <1>9, <1>11, <1>13, <3>1
  <2>2. \A s \in Sessions : session'[s].lock = c => HoldsSession(r) /\ r.sess = s
    BY <1>1, <1>2, <1>9, <1>11, <1>13 DEF SessionLocked
  <2> QED
    BY <1>2, <1>9, <1>10, <2>1, <2>2, LockStep
<1>17. Private'
  <2>1. Shared(r.sess, c) /\ Shared(r.victim, c) /\ \A h \in Hosts : Shared(sessions'[h], c)
    BY <1>1, <1>2, <1>10, <1>11, SharedNames
  <2>2. Connecting(r) => /\ \A h \in Hosts : sessions'[h] # r.sess
                         /\ \A d \in Callers : d # c =>
                               caller[d].sess # r.sess /\ caller[d].victim # r.sess
    BY <1>1, <1>2, <1>11 DEF Private, Connecting
  <2> QED
    BY <1>2, <1>10, <2>1, <2>2, PrivateStep
<1>18. NoOrphanProgram'
  <2>1. \A s \in Sessions : session'[s].proc =>
            \/ AnswersFor(r, s) \/ Mapped(sessions', s)
            \/ session[s].proc /\ ~Mapped(sessions, s) /\ ~AnswersFor(caller[c], s)
    BY <1>1, <1>2, <1>9, <1>13
  <2> QED
    BY <1>2, <1>10, <2>1, OrphanStep
<1>19. PipeInv'
  <2>1. \A d \in Callers : d # c /\ caller[d].sess # None /\ caller[d].pc # "lock" =>
            Carries(session[caller[d].sess], session'[caller[d].sess])
    BY <1>2, <1>9, CallFacts
  <2>2. r.sess # None => Pipe(session'[r.sess], r)
    BY <1>10 DEF Pipe
  <2>3. \A s \in Sessions : ~Uses(r, s) =>
            \/ Settled(session'[s])
            \/ ~Uses(caller[c], s) /\ (Settled(session[s]) => Settled(session'[s]))
    BY <1>1, <1>9, <1>13
  <2> QED
    BY <1>2, <1>10, <2>1, <2>2, <2>3, PipeStep
<1> QED
  BY <1>14, <1>15, <1>16, <1>17, <1>18, <1>19 DEF IndInv, LocksInv

LEMMA LockEffect ==
    ASSUME NEW p \in SessionRec, Sane(p), NEW l \in Callers \cup {None}, NEW t,
           t = [p EXCEPT !.lock = l]
    PROVE  /\ t \in SessionRec /\ Sane(t) /\ t.lock = l /\ t.proc = p.proc
           /\ \A q \in Locals : Pipe(p, q) => Pipe(t, q)
           /\ Settled(p) => Settled(t)
<1>1. /\ t \in SessionRec /\ t.lock = l /\ t.proc = p.proc /\ t.exited = p.exited
      /\ t.input = p.input /\ t.output = p.output /\ t.held = p.held /\ t.readCh = p.readCh
      /\ t.accum = p.accum /\ t.printed = p.printed /\ t.written = p.written /\ t.tty = p.tty
  BY DEF SessionRec
<1>2. Sane(t)
  BY <1>1 DEF Sane
<1>3. \A n, b : Streams(p, n, b) => Streams(t, n, b)
  BY <1>1, SameTokens, Zenon DEF Streams, Stretch
<1>4. \A n : Outputs(t, n) = Outputs(p, n) /\ Total(t, n) = Total(p, n)
  BY <1>1, SameTokens
<1>5. (Empty(p) => Empty(t)) /\ (Clean(p) => Clean(t)) /\ (Settled(p) => Settled(t))
  BY <1>1, <1>3, <1>4 DEF Empty, Clean, Settled
<1>6. ASSUME NEW q \in Locals, Pipe(p, q) PROVE Pipe(t, q)
  BY <1>1, <1>3, <1>4, <1>5, <1>6 DEF Pipe
<1> QED
  BY <1>1, <1>2, <1>5, <1>6

\* An Execute takes its session's lock, or gives it back.
LEMMA LockMove ==
    ASSUME IndInv, NEW c \in Callers, NEW r \in Locals, Moved(c, r), Placed(r),
           UNCHANGED <<sessions, mapLock>>, NEW s \in Sessions, NEW l \in {None, c},
           session' = [session EXCEPT ![s].lock = l], session[s].lock \in {None, c},
           \A t \in Sessions : t # s => session[t].lock # c,
           ~HoldsMap(r), ~HoldsMap(caller[c]), ~Connecting(r), r.victim = None,
           r.sess = None \/ (r.sess = s /\ caller[c].sess = s /\ Pipe(session[s], r)),
           HoldsSession(r) => l = c, l = c => HoldsSession(r) /\ r.sess = s,
           \A t \in Sessions : /\ AnswersFor(caller[c], t) => ~session[t].proc
                               /\ Uses(caller[c], t) => Settled(session[t])
    PROVE  IndInv'
<1>1. CallsInv /\ MapLocked /\ SessionLocked /\ Private /\ NoOrphanProgram /\ PipeInv
  BY DEF IndInv, LocksInv
<1>2. session[s] \in SessionRec /\ Sane(session[s]) /\ None \notin Callers /\ l \in Callers \cup {None}
  BY <1>1, CallFacts
<1>3. PICK p : p = [session[s] EXCEPT !.lock = l]
  OBVIOUS
<1>4. /\ p \in SessionRec /\ Sane(p) /\ p.lock = l /\ p.proc = session[s].proc
      /\ \A q \in Locals : Pipe(session[s], q) => Pipe(p, q)
      /\ Settled(session[s]) => Settled(p)
  BY <1>2, <1>3, LockEffect
<1>5. session' = [session EXCEPT ![s] = p]
  BY <1>1, <1>3 DEF CallsInv
<1>6. \A t \in Sessions : session'[t] = IF t = s THEN p ELSE session[t]
  BY <1>1, <1>5 DEF CallsInv
<1>7. \A t \in Sessions : /\ session'[t].proc = session[t].proc
                          /\ Settled(session[t]) => Settled(session'[t])
                          /\ Carries(session[t], session'[t])
  BY <1>4, <1>6 DEF Carries
<1>8. CallsInv'
  <2>1. session' \in [Sessions -> SessionRec] /\ \A t \in Sessions : Sane(session'[t])
    BY <1>1, <1>4, <1>5, <1>6 DEF CallsInv
  <2>2. sessions' \in [Hosts -> Sessions \cup {None}] /\ mapLock' \in Callers \cup {None}
    BY <1>1 DEF CallsInv
  <2> QED
    BY <1>1, <2>1, <2>2, CallsStep
<1>9. MapLocked'
  <2>1. HoldsMap(r) <=> mapLock' = c
    BY <1>1 DEF MapLocked
  <2> QED
    BY <1>1, <2>1, MapStep
<1>10. SessionLocked'
  <2>1. \A t \in Sessions : \/ session'[t].lock = session[t].lock
                            \/ {session'[t].lock, session[t].lock} \subseteq {None, c}
    BY <1>4, <1>6
  <2>2. HoldsSession(r) => session'[r.sess].lock = c
    BY <1>4, <1>6
  <2>3. \A t \in Sessions : session'[t].lock = c => HoldsSession(r) /\ r.sess = t
    BY <1>4, <1>6
  <2> QED
    BY <1>1, <2>1, <2>2, <2>3, LockStep
<1>11. Private'
  <2>1. Shared(r.sess, c) /\ Shared(r.victim, c) /\ \A h \in Hosts : Shared(sessions'[h], c)
    BY <1>1, SharedNames
  <2> QED
    BY <1>1, <2>1, PrivateStep
<1>12. NoOrphanProgram'
  <2>1. \A t \in Sessions : session'[t].proc =>
            \/ AnswersFor(r, t) \/ Mapped(sessions', t)
            \/ session[t].proc /\ ~Mapped(sessions, t) /\ ~AnswersFor(caller[c], t)
    BY <1>7
  <2> QED
    BY <1>1, <2>1, OrphanStep
<1>13. PipeInv'
  <2>1. \A d \in Callers : d # c /\ caller[d].sess # None /\ caller[d].pc # "lock" =>
            Carries(session[caller[d].sess], session'[caller[d].sess])
    BY <1>1, <1>7, CallFacts
  <2>2. r.sess # None => Pipe(session'[r.sess], r)
    BY <1>4, <1>6
  <2>3. \A t \in Sessions : ~Uses(r, t) =>
            \/ Settled(session'[t])
            \/ ~Uses(caller[c], t) /\ (Settled(session[t]) => Settled(session'[t]))
    BY <1>7
  <2> QED
    BY <1>1, <2>1, <2>2, <2>3, PipeStep
<1> QED
  BY <1>8, <1>9, <1>10, <1>11, <1>12, <1>13 DEF IndInv, LocksInv

\* Nobody is at work in a session that is in the map and not locked.
LEMMA FreeIsSettled ==
    ASSUME IndInv, NEW c \in Callers, caller[c].pc = "lock", NEW s, s = caller[c].sess,
           session[s].lock = None
    PROVE  s \in Sessions /\ Settled(session[s])
<1>1. CallsInv /\ SessionLocked /\ Private /\ PipeInv
  BY DEF IndInv, LocksInv
<1>2. Placed(caller[c]) /\ caller[c].op = "execute" /\ None \notin Callers /\ None \notin Sessions
  BY <1>1, CallFacts DEF Placed
<1>3. s \in Sessions
  BY <1>2 DEF Placed
<1>4. ASSUME NEW d \in Callers, Uses(caller[d], s) PROVE FALSE
  <2>1. caller[d].sess = s /\ caller[d] \in Locals /\ Placed(caller[d])
    BY <1>1, <1>4, CallFacts DEF Uses
  <2>2. ~HoldsSession(caller[d])
    BY <1>1, <1>2, <2>1 DEF SessionLocked
  <2>3. caller[d].op # "disconnect"
    BY <1>3, <2>1 DEF Placed
  <2>4. caller[d].op # "connect"
    <3>1. caller[d].op = "connect" => Connecting(caller[d]) /\ d # c
      BY <1>2, <1>3, <2>1 DEF Connecting
    <3> QED
      BY <1>1, <2>1, <3>1 DEF Private
  <2>5. caller[d].op = "execute"
    BY <2>1, <2>3, <2>4 DEF Locals
  <2>6. caller[d].pc \in {"scan", "drain", "close", "await"}
    BY <1>3, <1>4, <2>1, <2>5 DEF Uses, Placed
  <2> QED
    BY <2>2, <2>5, <2>6 DEF HoldsSession
<1> QED
  BY <1>1, <1>3, <1>4 DEF PipeInv, Settled

LEMMA LockSessionKeeps ==
    ASSUME IndInv, NEW c \in Callers, LockSession(c)
    PROVE  IndInv'
<1>1. PICK q, s : q = caller[c] /\ s = caller[c].sess
  OBVIOUS
<1>2. /\ CallsInv /\ SessionLocked /\ q \in Locals /\ Placed(q) /\ q.pc = "lock"
      /\ session[s].lock = None /\ UNCHANGED <<sessions, mapLock>>
      /\ session' = [session EXCEPT ![s].lock = c] /\ None \notin Sessions
  BY <1>1, CallFacts DEF IndInv, LocksInv, LockSession, At, Sess
<1>3. s \in Sessions /\ Settled(session[s])
  BY <1>1, <1>2, FreeIsSettled
<1>4. q.op = "execute" /\ q.victim = None /\ q.host \in Hosts /\ q.sess = s
  BY <1>1, <1>2 DEF Placed, Locals
<1>5. PICK l \in {"unlock", "write"} : Goto(c, l) /\ (l = "write" => ~session[s].exited)
  BY <1>1 DEF LockSession, Sess
<1>6. PICK r \in Locals : Moved(c, r) /\ Same(q, r) /\ r.pc = l /\ r.victim = q.victim
  BY <1>1, <1>2, <1>5, GotoStep DEF Labels
<1>7. r.op = "execute" /\ r.sess = s /\ r.host = q.host /\ r.victim = None
  BY <1>4, <1>6 DEF Same
<1>8. Placed(r)
  BY <1>2, <1>3, <1>4, <1>6, <1>7 DEF Placed
<1>9. HoldsSession(r) /\ ~HoldsSession(q) /\ ~HoldsMap(r) /\ ~HoldsMap(q) /\ ~Connecting(r)
  BY <1>2, <1>4, <1>5, <1>6, <1>7 DEF HoldsSession, HoldsMap, Connecting
<1>10. \A t \in Sessions : session[t].lock # c
  BY <1>1, <1>2, <1>9 DEF SessionLocked
<1>11. Pipe(session[s], r)
  BY <1>3, <1>5, <1>6 DEF Settled, Pipe
<1>12. \A t \in Sessions : ~AnswersFor(q, t) /\ ~Uses(q, t)
  BY <1>2, <1>4 DEF AnswersFor, Uses
<1> QED
  BY <1>1, <1>2, <1>3, <1>6, <1>7, <1>8, <1>9, <1>10, <1>11, <1>12, LockMove

LEMMA UnlockKeeps ==
    ASSUME IndInv, NEW c \in Callers, Unlock(c)
    PROVE  IndInv'
<1>1. PICK q, s : q = caller[c] /\ s = caller[c].sess
  OBVIOUS
<1>2. /\ CallsInv /\ SessionLocked /\ q \in Locals /\ Placed(q) /\ q.sess = s
      /\ UNCHANGED <<sessions, mapLock>> /\ session' = [session EXCEPT ![s].lock = None]
      /\ None \notin Sessions
  BY <1>1, CallFacts DEF IndInv, LocksInv, Unlock
<1>3. /\ q.op = "execute" /\ q.pc \in {"result", "unlock", "await"}
      /\ q.pc = "await" => session[q.victim].exited
  BY <1>1, <1>2 DEF Unlock, Terminated, At, Placed
<1>4. s \in Sessions /\ HoldsSession(q) /\ ~HoldsMap(q) /\ q.victim \in {None, s}
  BY <1>2, <1>3 DEF Placed, Locals, HoldsSession, HoldsMap
<1>5. session[s].lock = c /\ \A t \in Sessions : t # s => session[t].lock # c
  BY <1>1, <1>2, <1>4 DEF SessionLocked
<1>6. q.victim = s => session[s].exited /\ ~session[s].proc
  <2>1. q.victim = s => q.pc = "await"
    BY <1>2, <1>3, <1>4 DEF Placed
  <2> QED
    BY <1>2, <1>3, <1>4, <2>1, CallFacts DEF Sane
<1>7. \A t \in Sessions : /\ AnswersFor(q, t) => ~session[t].proc
                          /\ Uses(q, t) => Settled(session[t])
  BY <1>2, <1>3, <1>4, <1>6 DEF AnswersFor, Uses, Settled
<1>8. Moved(c, Idle) /\ Idle \in Locals /\ Placed(Idle) /\ Idle.sess = None /\ Idle.victim = None
      /\ ~HoldsMap(Idle) /\ ~HoldsSession(Idle) /\ ~Connecting(Idle)
  BY ReturnStep, IdleType DEF Unlock
<1>9. None # c
  BY Constants
<1> QED
  BY <1>1, <1>2, <1>4, <1>5, <1>7, <1>8, <1>9, LockMove

-----------------------------------------------------------------------------
(* The theorems                                                            *)

LEMMA Initially ==
    ASSUME Init
    PROVE  IndInv
<1>1. caller = [c \in Callers |-> Idle] /\ sessions = [h \in Hosts |-> None] /\ mapLock = None
      /\ session = [s \in Sessions |-> Gone]
  BY DEF Init
<1>2. /\ Idle \in Locals /\ Placed(Idle) /\ Idle.sess = None /\ Idle.victim = None
      /\ ~HoldsMap(Idle) /\ ~HoldsSession(Idle) /\ ~Connecting(Idle)
  BY IdleType
<1>3. /\ Gone \in SessionRec /\ Sane(Gone) /\ Gone.exited /\ Gone.lock = None /\ ~Gone.proc
  <2>1. <<>> \in Seq(Tokens) /\ <<>> \in Seq(0..MaxCommands) /\ <<>> \in Seq(Seq(Tokens))
        /\ Len(<<>>) = 0
    BY EmptySeq
  <2>2. /\ Fresh \in SessionRec /\ Fresh.printed = [n \in 0..MaxCommands |-> 0]
        /\ Fresh.input = <<>> /\ Fresh.output = <<>> /\ Fresh.held = <<>> /\ Fresh.readCh = <<>>
        /\ Fresh.accum = <<>> /\ Fresh.lock = None /\ Fresh.written = 0
    BY <2>1, Constants DEF SessionRec, Fresh
  <2>3. /\ Gone.exited = TRUE /\ Gone.proc = FALSE /\ Gone \in SessionRec
        /\ Gone.input = <<>> /\ Gone.output = <<>> /\ Gone.held = <<>> /\ Gone.readCh = <<>>
        /\ Gone.accum = <<>> /\ Gone.lock = None /\ Gone.written = 0
        /\ Gone.printed = [n \in 0..MaxCommands |-> 0]
    BY <2>2 DEF SessionRec, Gone
  <2>4. Sane(Gone)
    BY <2>1, <2>3, Constants DEF Sane
  <2> QED
    BY <2>3, <2>4
<1>4. None \notin Callers
  BY Constants
<1>5. CallsInv
  BY <1>1, <1>2, <1>3 DEF CallsInv
<1>6. LocksInv
  <2>1. MapLocked /\ Private
    BY <1>1, <1>2, <1>4 DEF MapLocked, Private
  <2>2. SessionLocked
    BY <1>1, <1>2, <1>3, <1>4 DEF SessionLocked
  <2>3. NoOrphanProgram
    BY <1>1, <1>3 DEF NoOrphanProgram
  <2> QED
    BY <2>1, <2>2, <2>3 DEF LocksInv
<1>7. PipeInv
  BY <1>1, <1>2, <1>3 DEF PipeInv
<1> QED
  BY <1>5, <1>6, <1>7 DEF IndInv

LEMMA Inductive ==
    ASSUME IndInv, [Next]_vars
    PROVE  IndInv'
<1>1. ASSUME NEW c \in Callers, BeginConnect(c) \/ BeginExecute(c) \/ BeginDisconnect(c)
      PROVE  IndInv'
  BY <1>1, BeginKeeps
<1>2. ASSUME NEW c \in Callers, Locking(c)
      PROVE  IndInv'
  BY <1>2, StoreKeeps, LookupKeeps, LockSessionKeeps, GrabKeeps DEF Locking
<1>3. ASSUME NEW c \in Callers, CallSteps(c)
      PROVE  IndInv'
  <2>1. CASE Spawn(c) \/ WriteInit(c) \/ Replace(c) \/ ConnectFails(c) \/ StatelessReturns(c)
    BY <2>1, SpawnKeeps, WriteInitKeeps, ReplaceKeeps, ConnectFailsKeeps, StatelessReturnsKeeps
  <2>2. CASE Write(c) \/ Unlock(c) \/ Sweep(c) \/ Delete(c)
    BY <2>2, WriteKeeps, UnlockKeeps, SweepKeeps, DeleteKeeps
  <2>3. CASE Scan(c) \/ ScanTimesOut(c) \/ Drain(c) \/ CloseMaster(c) \/ Kill(c)
    BY <2>3, ScanKeeps, CloseMasterKeeps, KillKeeps
  <2> QED
    BY <1>3, <2>1, <2>2, <2>3 DEF CallSteps
<1>4. ASSUME NEW s \in Sessions, Goroutines(s)
      PROVE  IndInv'
  BY <1>4, ReaderReadsKeeps, ReaderSendsKeeps, FlagsKeep DEF Goroutines
<1>5. ASSUME NEW s \in Sessions, Program(s)
      PROVE  IndInv'
  BY <1>5, ProgramPrintsKeeps, ProgramFinishesKeeps, ProgramExitsKeeps DEF Program
<1>6. CASE UNCHANGED vars
  BY <1>6 DEF vars, IndInv, CallsInv, LocksInv, MapLocked, SessionLocked, Private,
              NoOrphanProgram, PipeInv
<1> QED
  BY <1>1, <1>2, <1>3, <1>4, <1>5, <1>6 DEF Next

LEMMA Invariant == Spec => []IndInv
<1>1. Init => IndInv
  BY Initially
<1>2. IndInv /\ [Next]_vars => IndInv'
  BY Inductive
<1> QED
  BY <1>1, <1>2, PTL DEF Spec

\* Every variable keeps its type, and the channel its bound.
THEOREM Types == Spec => []TypeOK
<1>1. IndInv => TypeOK
  <2> SUFFICES ASSUME IndInv PROVE TypeOK
    OBVIOUS
  <2>1. CallsInv
    BY DEF IndInv
  <2>2. ASSUME NEW s \in Sessions
        PROVE  /\ {session[s].proc, session[s].exited, session[s].tty, session[s].closed} \subseteq BOOLEAN
               /\ session[s].input \in Seq(0..MaxCommands)
               /\ {session[s].output, session[s].held, session[s].accum} \subseteq Seq(Tokens)
               /\ session[s].readCh \in Seq(Seq(Tokens)) /\ Len(session[s].readCh) <= ChanCap
               /\ session[s].lock \in Callers \cup {None}
    BY <2>1, SMTT(30) DEF CallsInv, SessionRec, Sane
  <2> QED
    BY <2>1, <2>2 DEF TypeOK, CallsInv
<1> QED
  BY <1>1, Invariant, PTL

\* However the calls interleave, whatever fails and whenever a program exits
\* or is killed: a program that still runs is the one the map has for a host,
\* or a call is about to store it or to wait for its death.  No pty.Start in
\* Connect leaves a process behind that nothing will ever end.
THEOREM NoOrphans == Spec => []NoOrphanProgram
<1>1. IndInv => NoOrphanProgram
  BY DEF IndInv, LocksInv
<1> QED
  BY <1>1, Invariant, PTL

\* What an Execute on a persistent session returns is exactly the newline the
\* marker before it left and what its own command printed, although output
\* passes through the PTY, the reader, a bounded channel and the accumulator in
\* pieces of any size, although the markers of all commands read the same, and
\* although earlier commands were cut off by their timeout: their session was
\* ended with them.
THEOREM OutputsAreOwn == Spec => []OutputIsOwn
<1>1. IndInv => OutputIsOwn
  <2> SUFFICES ASSUME IndInv, NEW c \in Callers, At(c, "result")
               PROVE  LET n == caller[c].cmd
                          own == [i \in 1..Sess(c).printed[n] |-> [cmd |-> n, part |-> "out"]]
                      IN  caller[c].got = <<[cmd |-> n - 1, part |-> "newline"]>> \o own
    BY DEF OutputIsOwn
  <2>1. PICK n, P, own : /\ n = caller[c].cmd /\ P = Sess(c).printed[n]
                         /\ own = [i \in 1..P |-> [cmd |-> n, part |-> "out"]]
    OBVIOUS
  <2>2. /\ CallsInv /\ PipeInv /\ caller[c] \in Locals /\ caller[c].pc = "result"
        /\ caller[c].sess \in Sessions /\ None \notin Sessions
        /\ n # 0 /\ n \in 0..MaxCommands /\ n - 1 \in 0..MaxCommands
    <3>1. Placed(caller[c]) /\ caller[c] \in Locals /\ caller[c].pc = "result"
          /\ CallsInv /\ PipeInv /\ None \notin Sessions
      BY CallFacts DEF At, IndInv
    <3> QED
      BY <2>1, <3>1, Constants DEF Placed, Locals
  <2>3. PICK p : p = Sess(c)
    OBVIOUS
  <2>4. p \in SessionRec /\ Pipe(p, caller[c]) /\ P \in Nat /\ P = p.printed[n]
    BY <2>1, <2>2, <2>3, Amounts DEF CallsInv, PipeInv, Sess
  <2>5. caller[c].got = [i \in 1..(P + 1) |-> Token(p, n, i)]
    BY <2>1, <2>2, <2>4 DEF Pipe, Outputs
  <2>6. PICK nl, all : nl = <<[cmd |-> n - 1, part |-> "newline"]>> /\ all = nl \o own
    OBVIOUS
  <2>7. nl \in Seq(Tokens) /\ Len(nl) = 1 /\ nl[1] = [cmd |-> n - 1, part |-> "newline"]
    BY <2>2, <2>6 DEF Tokens
  <2>8. own \in Seq(Tokens) /\ Len(own) = P
    <3>1. own \in [1..P -> Tokens]
      BY <2>1, <2>2 DEF Tokens
    <3>2. own \in Seq(Tokens)
      BY <2>4, <3>1, SeqDef
    <3> QED
      BY <2>4, <3>1, <3>2, LenProperties
  <2>9. /\ all \in Seq(Tokens) /\ Len(all) = 1 + P
        /\ \A i \in 1..(1 + P) : all[i] = IF i <= 1 THEN nl[i] ELSE own[i - 1]
    BY <2>6, <2>7, <2>8, ConcatProperties
  <2>10. ASSUME NEW i \in 1..(P + 1) PROVE all[i] = Token(p, n, i)
    <3>1. CASE i = 1
      BY <2>2, <2>4, <2>7, <2>9, <3>1 DEF Token
    <3>2. CASE i # 1
      <4>1. i - 1 \in 1..P /\ i <= P + 1 /\ all[i] = own[i - 1]
        BY <2>4, <2>9, <3>2
      <4>2. own[i - 1] = [cmd |-> n, part |-> "out"]
        BY <2>1, <4>1
      <4> QED
        BY <2>2, <2>4, <3>2, <4>1, <4>2 DEF Token
    <3> QED
      BY <3>1, <3>2
  <2>11. all = [i \in 1..(P + 1) |-> Token(p, n, i)]
    <3>1. 1 + P = P + 1
      BY <2>4
    <3>2. all \in [1..(P + 1) -> Tokens]
      BY <2>9, <3>1, LenProperties
    <3> QED
      BY <2>10, <3>2
  <2> QED
    BY <2>1, <2>5, <2>6, <2>11
<1> QED
  BY <1>1, Invariant, PTL
=============================================================================
