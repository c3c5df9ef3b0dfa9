---------------------------- MODULE LocalSession ----------------------------
(***************************************************************************)
(* server.LocalExecutor with persistent sessions: a program under a PTY,   *)
(* a reader goroutine that copies the PTY's output into a bounded channel, *)
(* and calls that write a command and scan the output for markers.  One    *)
(* action is one lock operation, one system call or one channel operation. *)
(*                                                                         *)
(* Output is a sequence of tokens, one for each command's output, for its  *)
(* end marker (with the newline in front of it, which execute trims off    *)
(* again), for the exit code behind it and for the newline behind both,    *)
(* which no scan takes; the reader takes any prefix of what the PTY holds. *)
(* The marker's text is the same for every command of a session, so a scan *)
(* matches a token's part and not its command.                             *)
(***************************************************************************)
EXTENDS Naturals, Sequences, SequencesExt

CONSTANTS
    Callers,        \* concurrent calls on the executor
    Hosts,          \* host names
    Sessions,       \* names for localSessions
    MaxCommands,    \* commands written to one session (bound)
    MaxOut,         \* outputs of one command (bound)
    ChanCap,        \* capacity of readCh, 16 in the code
    None

ASSUME NoneAssumption == None \notin Sessions \cup Callers \cup Hosts
ASSUME BoundsAssumption == MaxCommands \in Nat /\ MaxOut \in Nat /\ ChanCap \in Nat \ {0}

VARIABLES
    sessions,   \* LocalExecutor.sessions
    mapLock,    \* LocalExecutor.mu: its holder, or None
    session,    \* the localSessions
    caller      \* where each call stands

vars == <<sessions, mapLock, session, caller>>

\* Command 0 is the init line.
Tokens == [cmd : 0..MaxCommands, part : {"out", "init", "end", "code", "newline"}]

\* proc: the child; exited: cmd.Wait returned; tty: the master is open; input
\* and output: what the two directions of the PTY hold; held: what the reader
\* has read and not sent; closed: readCh is; lock: localSession.mu; written and
\* printed: history, the commands written and how often each has printed.
Fresh == [proc |-> TRUE, exited |-> FALSE, tty |-> TRUE, input |-> <<>>, output |-> <<>>,
          held |-> <<>>, closed |-> FALSE, readCh |-> <<>>, accum |-> <<>>, lock |-> None,
          written |-> 0, printed |-> [n \in 0..MaxCommands |-> 0]]

Gone == [Fresh EXCEPT !.proc = FALSE, !.exited = TRUE, !.tty = FALSE, !.closed = TRUE]

\* cmd: the command's number in its session; want: the marker scanned for;
\* got: the output; victim: the session terminate works on; todo: the hosts
\* Disconnect has left.
Idle == [pc |-> "idle", op |-> "connect", host |-> None, sess |-> None, cmd |-> 0,
         want |-> "init", got |-> <<>>, victim |-> None, todo |-> {}]

Labels == {"idle", "spawn", "init", "store", "ready", "lookup", "lock", "write", "scan",
           "drain", "result", "unlock", "grab", "sweep", "close", "await"}

Locals == [pc : Labels, op : {"connect", "execute", "disconnect"}, host : Hosts \cup {None},
           sess : Sessions \cup {None}, cmd : 0..MaxCommands, want : {"init", "end", "code"},
           got : Seq(Tokens), victim : Sessions \cup {None}, todo : SUBSET Hosts]

Init ==
    /\ sessions = [h \in Hosts |-> None]
    /\ mapLock = None
    /\ session = [s \in Sessions |-> Gone]
    /\ caller = [c \in Callers |-> Idle]

At(c, label) == caller[c].pc = label
Goto(c, label) == caller' = [caller EXCEPT ![c].pc = label]
Return(c) == caller' = [caller EXCEPT ![c] = Idle]

Sess(c) == session[caller[c].sess]

\* A name is used again when the session is over and nothing refers to it.
Unused(s) ==
    /\ session[s].exited /\ session[s].closed
    /\ \A h \in Hosts : sessions[h] # s
    /\ \A c \in Callers : caller[c].sess # s /\ caller[c].victim # s

-----------------------------------------------------------------------------
(* consumeUntil and terminate                                              *)

Terminate(c, s) == caller' = [caller EXCEPT ![c].pc = "close", ![c].victim = s]

ScanFailed(c) == Terminate(c, caller[c].sess)

MarkerAt(c) == SelectInSeq(Sess(c).accum, LAMBDA t : t.part = caller[c].want)

\* The marker is in accum: what precedes it is the output, and both go.
Found(c) ==
    LET s == caller[c].sess
        i == MarkerAt(c)
        after == CASE caller[c].want = "init" -> "store"
                   [] caller[c].want = "end"  -> "scan"
                   [] caller[c].want = "code" -> "result"
    IN  /\ i > 0
        /\ session' = [session EXCEPT ![s].accum = SubSeq(@, i + 1, Len(@))]
        /\ caller' = [caller EXCEPT ![c].pc = after,
                        ![c].want = IF @ = "end" THEN "code" ELSE @,
                        ![c].got = IF caller[c].want = "end"
                                   THEN SubSeq(Sess(c).accum, 1, i - 1) ELSE @]

Receive(c) ==
    LET s == caller[c].sess IN
    /\ Sess(c).readCh # <<>>
    /\ session' = [session EXCEPT ![s].accum = @ \o Head(Sess(c).readCh),
                                  ![s].readCh = Tail(@)]
    /\ UNCHANGED caller

\* One turn of consumeUntil's loop: the scan first, then whichever of readCh,
\* the timer and exited the select takes.
Scan(c) ==
    /\ At(c, "scan")
    /\ \/ Found(c)
       \/ /\ MarkerAt(c) = 0
          /\ \/ Receive(c)
             \/ Sess(c).readCh = <<>> /\ Sess(c).closed /\ ScanFailed(c) /\ UNCHANGED session
             \/ Sess(c).exited /\ Goto(c, "drain") /\ UNCHANGED session
    /\ UNCHANGED <<sessions, mapLock>>

\* Mutant: a command that timed out leaves its session as it is.
ScanTimesOutKeeping(c) ==
    /\ At(c, "scan") /\ MarkerAt(c) = 0
    /\ Goto(c, "unlock")
    /\ UNCHANGED <<sessions, mapLock, session>>

ScanTimesOut(c) ==
    /\ At(c, "scan") /\ MarkerAt(c) = 0
    /\ ScanFailed(c)
    /\ UNCHANGED <<sessions, mapLock, session>>

\* After the exit: what is queued at this moment, then one last scan.
Drain(c) ==
    /\ At(c, "drain")
    /\ \/ Receive(c)
       \/ /\ Sess(c).readCh = <<>>
          /\ \/ Found(c)
             \/ MarkerAt(c) = 0 /\ ScanFailed(c) /\ UNCHANGED session
    /\ UNCHANGED <<sessions, mapLock>>

\* SIGTERM, which the program may ignore (dying is ProgramExits), and the
\* master is closed: what the PTY held is lost.
CloseMaster(c) ==
    /\ At(c, "close")
    /\ session' = [session EXCEPT ![caller[c].victim].tty = FALSE,
                     ![caller[c].victim].input = <<>>, ![caller[c].victim].output = <<>>]
    /\ Goto(c, "await")
    /\ UNCHANGED <<sessions, mapLock>>

\* Mutant: SIGTERM again, not SIGKILL.
KillPolitely(c) ==
    /\ At(c, "await") /\ session[caller[c].victim].proc
    /\ UNCHANGED vars

\* 500 ms have passed.
Kill(c) ==
    /\ At(c, "await") /\ session[caller[c].victim].proc
    /\ session' = [session EXCEPT ![caller[c].victim].proc = FALSE]
    /\ UNCHANGED <<sessions, mapLock, caller>>

\* exited is closed: terminate returns.
Terminated(c) == At(c, "await") /\ session[caller[c].victim].exited

-----------------------------------------------------------------------------
(* Connect                                                                 *)

BeginConnect(c) ==
    /\ At(c, "idle")
    /\ \E h \in Hosts, pc \in {"spawn", "ready"} :     \* with a Command, or without one
         caller' = [caller EXCEPT ![c] = [Idle EXCEPT !.pc = pc, !.host = h]]
    /\ UNCHANGED <<sessions, mapLock, session>>

\* pty.Start and the two goroutines.
Spawn(c) ==
    /\ At(c, "spawn")
    /\ \/ \E s \in {x \in Sessions : Unused(x)} :
            /\ session' = [session EXCEPT ![s] = Fresh]
            /\ caller' = [caller EXCEPT ![c].pc = "init", ![c].sess = s]
       \/ /\ Return(c)
          /\ UNCHANGED session
    /\ UNCHANGED <<sessions, mapLock>>

\* The master takes what is written while it is open, and may refuse it once
\* the program has closed its end.
WriteInit(c) ==
    /\ At(c, "init")
    /\ \/ /\ session' = [session EXCEPT ![caller[c].sess].input = IF Sess(c).proc THEN <<0>> ELSE <<>>]
          /\ Goto(c, "scan")
       \/ /\ ~Sess(c).proc
          /\ Terminate(c, caller[c].sess)
          /\ UNCHANGED session
    /\ UNCHANGED <<sessions, mapLock>>

\* Mutant: the old session is overwritten.
StoreOverwriting(c) ==
    /\ At(c, "store") /\ mapLock = None
    /\ sessions' = [sessions EXCEPT ![caller[c].host] = caller[c].sess]
    /\ Return(c)
    /\ UNCHANGED <<mapLock, session>>

\* Under the map's lock: the old session, if any, is terminated first.
Store(c) ==
    LET h == caller[c].host IN
    /\ At(c, "store") /\ mapLock = None
    /\ \/ /\ sessions[h] = None
          /\ sessions' = [sessions EXCEPT ![h] = caller[c].sess]
          /\ Return(c)
          /\ UNCHANGED mapLock
       \/ /\ sessions[h] # None
          /\ mapLock' = c
          /\ Terminate(c, sessions[h])
          /\ UNCHANGED sessions
    /\ UNCHANGED session

Replace(c) ==
    /\ Terminated(c) /\ caller[c].op = "connect" /\ caller[c].victim # caller[c].sess
    /\ sessions' = [sessions EXCEPT ![caller[c].host] = caller[c].sess]
    /\ mapLock' = None
    /\ Return(c)
    /\ UNCHANGED session

ConnectFails(c) ==
    /\ Terminated(c) /\ caller[c].op = "connect" /\ caller[c].victim = caller[c].sess
    /\ Return(c)
    /\ UNCHANGED <<sessions, mapLock, session>>

\* Connect without a Command returns.
StatelessReturns(c) ==
    /\ At(c, "ready")
    /\ Return(c)
    /\ UNCHANGED <<sessions, mapLock, session>>

-----------------------------------------------------------------------------
(* Execute                                                                 *)

BeginExecute(c) ==
    /\ At(c, "idle")
    /\ \E h \in Hosts :
         caller' = [caller EXCEPT ![c] = [Idle EXCEPT !.pc = "lookup", !.op = "execute", !.host = h]]
    /\ UNCHANGED <<sessions, mapLock, session>>

\* getSession; without a session the command runs in a shell of its own, which
\* shares nothing with the rest.
Lookup(c) ==
    LET s == sessions[caller[c].host] IN
    /\ At(c, "lookup") /\ mapLock = None
    /\ IF s = None THEN Return(c)
       ELSE caller' = [caller EXCEPT ![c].sess = s, ![c].pc = "lock"]
    /\ UNCHANGED <<sessions, mapLock, session>>

LockSession(c) ==
    /\ At(c, "lock") /\ Sess(c).lock = None
    /\ session' = [session EXCEPT ![caller[c].sess].lock = c]
    /\ Goto(c, IF Sess(c).exited THEN "unlock" ELSE "write")
    /\ UNCHANGED <<sessions, mapLock>>

\* A failed write ends the call and not the session.  (At the bound
\* MaxCommands every write fails.)
Write(c) ==
    LET s == caller[c].sess
        n == Sess(c).written + 1
    IN
    /\ At(c, "write")
    /\ \/ /\ Sess(c).tty /\ n <= MaxCommands
          /\ session' = [session EXCEPT ![s].written = n,
                           ![s].input = IF Sess(c).proc THEN Append(@, n) ELSE <<>>]
          /\ caller' = [caller EXCEPT ![c].pc = "scan", ![c].cmd = n, ![c].want = "end"]
       \/ /\ ~(Sess(c).tty /\ Sess(c).proc) \/ n > MaxCommands
          /\ Goto(c, "unlock")
          /\ UNCHANGED session
    /\ UNCHANGED <<sessions, mapLock>>

\* The result, or the error, is returned and the session's lock released.
Unlock(c) ==
    /\ At(c, "result") \/ At(c, "unlock") \/ (Terminated(c) /\ caller[c].op = "execute")
    /\ session' = [session EXCEPT ![caller[c].sess].lock = None]
    /\ Return(c)
    /\ UNCHANGED <<sessions, mapLock>>

-----------------------------------------------------------------------------
(* Disconnect: under the map's lock throughout                             *)

BeginDisconnect(c) ==
    /\ At(c, "idle")
    /\ \E gone \in {{h} : h \in Hosts} \cup {Hosts} :
         caller' = [caller EXCEPT ![c] = [Idle EXCEPT !.pc = "grab", !.op = "disconnect", !.todo = gone]]
    /\ UNCHANGED <<sessions, mapLock, session>>

Grab(c) ==
    /\ At(c, "grab") /\ mapLock = None
    /\ mapLock' = c
    /\ Goto(c, "sweep")
    /\ UNCHANGED <<sessions, session>>

Sweep(c) ==
    LET left == {h \in caller[c].todo : sessions[h] # None} IN
    /\ At(c, "sweep")
    /\ \/ /\ \E h \in left : caller' = [caller EXCEPT ![c].pc = "close", ![c].host = h,
                                       ![c].victim = sessions[h], ![c].todo = left]
          /\ UNCHANGED mapLock
       \/ /\ left = {}
          /\ mapLock' = None
          /\ Return(c)
    /\ UNCHANGED <<sessions, session>>

Delete(c) ==
    /\ Terminated(c) /\ caller[c].op = "disconnect"
    /\ sessions' = [sessions EXCEPT ![caller[c].host] = None]
    /\ caller' = [caller EXCEPT ![c].pc = "sweep", ![c].host = None, ![c].victim = None]
    /\ UNCHANGED <<mapLock, session>>

-----------------------------------------------------------------------------
(* The session's goroutines, and the program under the PTY                 *)

ReaderReads(s) ==
    /\ session[s].held = <<>> /\ ~session[s].closed
    /\ session[s].tty
    /\ \E n \in 1..Len(session[s].output) :
         session' = [session EXCEPT ![s].held = SubSeq(session[s].output, 1, n),
                                    ![s].output = SubSeq(@, n + 1, Len(@))]
    /\ UNCHANGED <<sessions, mapLock, caller>>

\* Mutant: readCh has no bound.
ReaderSendsUnbounded(s) ==
    /\ session[s].held # <<>>
    /\ session' = [session EXCEPT ![s].readCh = Append(@, session[s].held), ![s].held = <<>>]
    /\ UNCHANGED <<sessions, mapLock, caller>>

ReaderSends(s) ==
    /\ session[s].held # <<>> /\ Len(session[s].readCh) < ChanCap
    /\ session' = [session EXCEPT ![s].readCh = Append(@, session[s].held), ![s].held = <<>>]
    /\ UNCHANGED <<sessions, mapLock, caller>>

\* Read fails: the master was closed, or the program's end was and nothing is
\* left to read.
ReaderEnds(s) ==
    /\ session[s].held = <<>> /\ ~session[s].closed
    /\ ~session[s].tty \/ (~session[s].proc /\ session[s].output = <<>>)
    /\ session' = [session EXCEPT ![s].closed = TRUE]
    /\ UNCHANGED <<sessions, mapLock, caller>>

WaitReturns(s) ==
    /\ ~session[s].proc /\ ~session[s].exited
    /\ session' = [session EXCEPT ![s].exited = TRUE]
    /\ UNCHANGED <<sessions, mapLock, caller>>

\* The environment.  The program runs its input line by line and may print,
\* finish, hang or exit.
Reading(s) == session[s].proc /\ session[s].tty /\ session[s].input # <<>>

ProgramPrints(s) ==
    LET n == Head(session[s].input) IN
    /\ Reading(s) /\ n # 0 /\ session[s].printed[n] < MaxOut
    /\ session' = [session EXCEPT ![s].output = Append(@, [cmd |-> n, part |-> "out"]),
                                  ![s].printed[n] = @ + 1]
    /\ UNCHANGED <<sessions, mapLock, caller>>

ProgramFinishes(s) ==
    LET n == Head(session[s].input)
        marks == IF n = 0 THEN <<"init", "newline">> ELSE <<"end", "code", "newline">>
    IN
    /\ Reading(s)
    /\ session' = [session EXCEPT ![s].input = Tail(@),
                     ![s].output = @ \o [i \in DOMAIN marks |-> [cmd |-> n, part |-> marks[i]]]]
    /\ UNCHANGED <<sessions, mapLock, caller>>

ProgramExits(s) ==
    /\ session[s].proc
    /\ session' = [session EXCEPT ![s].proc = FALSE, ![s].input = <<>>]
    /\ UNCHANGED <<sessions, mapLock, caller>>

-----------------------------------------------------------------------------

Locking(c) == Store(c) \/ Lookup(c) \/ LockSession(c) \/ Grab(c)

CallSteps(c) ==
    \/ Spawn(c) \/ WriteInit(c) \/ Replace(c) \/ ConnectFails(c) \/ StatelessReturns(c)
    \/ Write(c) \/ Unlock(c) \/ Sweep(c) \/ Delete(c)
    \/ Scan(c) \/ ScanTimesOut(c) \/ Drain(c) \/ CloseMaster(c) \/ Kill(c)

Goroutines(s) == ReaderReads(s) \/ ReaderSends(s) \/ ReaderEnds(s) \/ WaitReturns(s)

Program(s) == ProgramPrints(s) \/ ProgramFinishes(s) \/ ProgramExits(s)

Next ==
    \/ \E c \in Callers : BeginConnect(c) \/ BeginExecute(c) \/ BeginDisconnect(c)
                             \/ Locking(c) \/ CallSteps(c)
    \/ \E s \in Sessions : Goroutines(s) \/ Program(s)

\* Timers fire and goroutines are scheduled; sync.Mutex hands over to whoever
\* waits longest, so a lock that keeps coming free is got.  Nothing is assumed
\* of the program under the PTY.
Fairness ==
    /\ \A c \in Callers : WF_vars(CallSteps(c)) /\ SF_vars(Locking(c))
    /\ \A s \in Sessions : WF_vars(Goroutines(s))

Spec == Init /\ [][Next]_vars /\ Fairness

-----------------------------------------------------------------------------
(* Properties                                                              *)

TypeOK ==
    /\ sessions \in [Hosts -> Sessions \cup {None}]
    /\ mapLock \in Callers \cup {None}
    /\ DOMAIN session = Sessions
    /\ \A s \in Sessions :
         /\ {session[s].proc, session[s].exited, session[s].tty, session[s].closed} \subseteq BOOLEAN
         /\ session[s].input \in Seq(0..MaxCommands)
         /\ {session[s].output, session[s].held, session[s].accum} \subseteq Seq(Tokens)
         /\ session[s].readCh \in Seq(Seq(Tokens)) /\ Len(session[s].readCh) <= ChanCap
         /\ session[s].lock \in Callers \cup {None}
    /\ caller \in [Callers -> Locals]

\* A successful Execute returns what its own command printed, behind the one
\* newline that the previous marker of the session left in accum: nothing is
\* lost in the PTY, the channel or at the drain, and nothing else is left over,
\* from a command that timed out in particular (its end marker reads the same).
OutputIsOwn ==
    \A c \in Callers : At(c, "result") =>
        LET n == caller[c].cmd
            own == [i \in 1..Sess(c).printed[n] |-> [cmd |-> n, part |-> "out"]]
        IN  caller[c].got = <<[cmd |-> n - 1, part |-> "newline"]>> \o own

\* A live program is never out of the executor's reach: its session is in the
\* map, or a call is about to store it there or to wait for its death.
NoOrphanProgram ==
    \A s \in Sessions : session[s].proc =>
        \/ \E h \in Hosts : sessions[h] = s
        \/ \E c \in Callers :
             \/ caller[c].victim = s
             \/ caller[c].sess = s /\ caller[c].op = "connect"

\* Every call returns, whatever the program under the PTY does: a hung
\* program, a full channel and the locks held while a session is terminated
\* included.
CallsReturn == \A c \in Callers : ~At(c, "idle") ~> At(c, "idle")

\* "It exits (closing readCh) when Read returns an error, which happens when
\* the subprocess closes its end or terminate() closes the master fd."
ReaderExits == \A s \in Sessions : session[s].exited ~> session[s].closed

\* "In stateless mode (Connect called without a Command), each Execute spawns
\* a fresh sh -c <command> subprocess" (for a sole caller).  The code does not
\* keep this after a Connect with a Command: the old session stays.
StatelessConnect ==
    \A c \in Callers : At(c, "ready") /\ caller[c].sess = None => sessions[caller[c].host] = None
=============================================================================
