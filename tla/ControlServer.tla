--------------------------- MODULE ControlServer ---------------------------
(***************************************************************************)
(* control.Server beside RunStdio: a process listens on a local port,      *)
(* writes the address to a file and answers the lines of each connection   *)
(* in turn, until its context is cancelled.  Processes that are given the  *)
(* same SHELLGUARD_CONTROL_ADDR share the file.                            *)
(*                                                                         *)
(* Core is known here by the hosts it lists as connected (module Core has  *)
(* the detail); a line is read and classified in one step, so that lines   *)
(* a client has sent ahead are lines that are still to be read.            *)
(***************************************************************************)
EXTENDS Naturals

CONSTANTS
    Servers,    \* processes, each with one control server
    Conns,      \* client connections
    Hosts,      \* host names
    MaxLines,   \* bound on the lines of a connection
    None,       \* no file; no server; no host
    Blank       \* the file, truncated and not yet written

ASSUME NamesAssumption ==
    /\ None \notin Servers \cup Hosts /\ Blank \notin Servers \cup {None}
ASSUME MaxLinesAssumption == MaxLines \in Nat

VARIABLES
    stdio,      \* how far RunStdio is, per process
    serve,      \* how far ListenAndServe is, per process
    cancelled,  \* whether the context is cancelled
    listening,  \* whether the listener is open
    wg,         \* Server.wg: the handlers it counts
    links,      \* the hosts that Core lists as connected
    conn,       \* the connections and their handlers
    file,       \* the address file: None, Blank or the server it names
    clobbered   \* history: servers whose file another server wrote or removed

procVars == <<stdio, cancelled, links>>
fileVars == <<file, clobbered>>
vars == <<stdio, serve, cancelled, listening, wg, links, conn, file, clobbered>>

\* answer: whether the response at hand says that the host is connected.
\* left: the client has closed its end.  History: the hosts that the client was
\* told are connected, and those that were disconnected since this connection
\* last registered them.
Fresh(label) == [pc |-> label, server |-> None, host |-> None, answer |-> "other",
                 lines |-> 0, left |-> FALSE, told |-> {}, cut |-> {}]
Unused == Fresh("none")
Ended == Fresh("ended")

ConnLabels == {"none", "queued", "read", "connect", "probe", "disconnect", "reply", "close",
               "ended"}
ServeLabels == {"listen", "truncate", "write", "accept", "wait", "remove", "done"}
Answers == {"connected", "other"}

Connection == [pc : ConnLabels, server : Servers \cup {None}, host : Hosts \cup {None},
               answer : Answers, lines : 0..MaxLines, left : BOOLEAN, told : SUBSET Hosts,
               cut : SUBSET Hosts]

Init ==
    /\ stdio = [s \in Servers |-> "serving"]
    /\ serve = [s \in Servers |-> "listen"]
    /\ cancelled = [s \in Servers |-> FALSE]
    /\ listening = [s \in Servers |-> FALSE]
    /\ wg = [s \in Servers |-> {}]
    /\ links = [s \in Servers |-> {}]
    /\ conn = [c \in Conns |-> Unused]
    /\ file = None
    /\ clobbered = {}

Alive(s) == stdio[s] # "exited"
Handled(c) == conn[c].pc \in {"read", "connect", "probe", "disconnect", "reply", "close"}
At(c, label) == conn[c].pc = label /\ Alive(conn[c].server)
ServeAt(s, label) == serve[s] = label /\ Alive(s)
Goto(s, label) == serve' = [serve EXCEPT ![s] = label]
SetListening(s, open) == listening' = [listening EXCEPT ![s] = open]

\* Connections in the listener's queue are reset when it closes.
ResetQueued(s) ==
    conn' = [c \in Conns |-> IF conn[c].pc = "queued" /\ conn[c].server = s
                             THEN Ended ELSE conn[c]]

\* What the file loses when server s changes it.
Clobber(s) == clobbered' = clobbered \cup ({file} \ {s, None, Blank})

-----------------------------------------------------------------------------
(* ListenAndServe                                                          *)

Listen(s) ==
    /\ ServeAt(s, "listen")
    /\ \/ Goto(s, "truncate") /\ SetListening(s, TRUE)
       \/ Goto(s, "done") /\ UNCHANGED listening
    /\ UNCHANGED <<procVars, wg, conn, fileVars>>

\* os.WriteFile opens the file and truncates it, ...
TruncateFile(s) ==
    /\ ServeAt(s, "truncate")
    /\ \/ /\ Goto(s, "write")
          /\ file' = Blank /\ Clobber(s)
          /\ UNCHANGED <<listening, conn>>
       \/ /\ Goto(s, "done") /\ SetListening(s, FALSE) /\ ResetQueued(s)
          /\ UNCHANGED fileVars
    /\ UNCHANGED <<procVars, wg>>

\* ... then writes it.  A write that fails may have written the address.
WriteFile(s) ==
    /\ ServeAt(s, "write")
    /\ \/ /\ Goto(s, "accept")
          /\ file' = s
          /\ UNCHANGED <<listening, conn>>
       \/ /\ Goto(s, "done") /\ SetListening(s, FALSE) /\ ResetQueued(s)
          /\ file' \in {file, s}
    /\ clobbered' = (clobbered \cup ({file} \ {s, None, Blank})) \ (IF file' = s THEN {s} ELSE {})
    /\ UNCHANGED <<procVars, wg>>

\* The goroutine that waits for the context.
CloseListener(s) ==
    /\ Alive(s) /\ cancelled[s] /\ listening[s]
    /\ serve[s] \in {"accept", "wait", "remove", "done"}
    /\ SetListening(s, FALSE)
    /\ ResetQueued(s)
    /\ UNCHANGED <<procVars, serve, wg, fileVars>>

\* Mutant: wg.Add is forgotten.
AcceptUncounted(s, c) ==
    /\ ServeAt(s, "accept") /\ listening[s]
    /\ conn[c].pc = "queued" /\ conn[c].server = s
    /\ conn' = [conn EXCEPT ![c].pc = "read"]
    /\ UNCHANGED <<procVars, serve, listening, wg, fileVars>>

Accept(s, c) ==
    /\ ServeAt(s, "accept") /\ listening[s]
    /\ conn[c].pc = "queued" /\ conn[c].server = s
    /\ conn' = [conn EXCEPT ![c].pc = "read"]
    /\ wg' = [wg EXCEPT ![s] = @ \cup {c}]
    /\ UNCHANGED <<procVars, serve, listening, fileVars>>

\* Mutant: the file is removed before the handlers have ended.
AcceptLoopEndsRemoving(s) ==
    /\ ServeAt(s, "accept")
    /\ ~listening[s] \/ cancelled[s]
    /\ Goto(s, "wait")
    /\ file' = None /\ Clobber(s)
    /\ UNCHANGED <<procVars, listening, wg, conn>>

\* Accept failed: the listener is closed, or the error is another one and the
\* context is cancelled.  Other errors go round the loop.
AcceptLoopEnds(s) ==
    /\ ServeAt(s, "accept")
    /\ ~listening[s] \/ cancelled[s]
    /\ Goto(s, "wait")
    /\ UNCHANGED <<procVars, listening, wg, conn, fileVars>>

WaitHandlers(s) ==
    /\ ServeAt(s, "wait") /\ wg[s] = {}
    /\ Goto(s, "remove")
    /\ UNCHANGED <<procVars, listening, wg, conn, fileVars>>

\* os.Remove removes what is there, whoever wrote it.
RemoveFile(s) ==
    /\ ServeAt(s, "remove")
    /\ Goto(s, "done")
    /\ file' = None /\ Clobber(s)
    /\ UNCHANGED <<procVars, listening, wg, conn>>

-----------------------------------------------------------------------------
(* handleConn and dispatch                                                 *)

NextLine(c) == At(c, "read") /\ conn[c].lines < MaxLines
Step(c, label) == conn' = [conn EXCEPT ![c].pc = label, ![c].lines = @ + 1]

SkipEmpty(c) ==
    /\ NextLine(c)
    /\ Step(c, "read")
    /\ UNCHANGED <<procVars, serve, listening, wg, fileVars>>

\* Invalid JSON, invalid parameters or an unknown command.
Reject(c) ==
    /\ NextLine(c)
    /\ Step(c, "reply")
    /\ UNCHANGED <<procVars, serve, listening, wg, fileVars>>

DispatchStatus(c) ==
    /\ NextLine(c)
    /\ Step(c, "reply")
    /\ UNCHANGED <<procVars, serve, listening, wg, fileVars>>

Dispatch(c, command) ==
    /\ NextLine(c)
    /\ \E h \in Hosts : conn' = [conn EXCEPT ![c].pc = command, ![c].host = h, ![c].lines = @ + 1]
    /\ UNCHANGED <<procVars, serve, listening, wg, fileVars>>

\* Hosts H of process s are disconnected.
Cut(r, H) == [r EXCEPT !.cut = @ \cup H]
CutOff(s, H, conns) ==
    [d \in Conns |-> IF conns[d].server = s THEN Cut(conns[d], H) ELSE conns[d]]

\* Mutant: the handler's error is dropped.
ConnectRegistersUnchecked(c) ==
    /\ At(c, "connect")
    /\ conn' = [conn EXCEPT ![c].pc = "probe", ![c].cut = @ \ {conn[c].host}]
    /\ \/ links' = [links EXCEPT ![conn[c].server] = @ \cup {conn[c].host}]
       \/ UNCHANGED links
    /\ UNCHANGED <<stdio, serve, cancelled, listening, wg, fileVars>>

\* Core.Connect, as far as setConnected; or its error.
ConnectRegisters(c) ==
    /\ At(c, "connect")
    /\ \/ /\ conn' = [conn EXCEPT ![c].pc = "probe", ![c].cut = @ \ {conn[c].host}]
          /\ links' = [links EXCEPT ![conn[c].server] = @ \cup {conn[c].host}]
       \/ /\ conn' = [conn EXCEPT ![c].pc = "reply"]
          /\ UNCHANGED links
    /\ UNCHANGED <<stdio, serve, cancelled, listening, wg, fileVars>>

\* The rest of Core.Connect, the probes of the remote host among it: the call
\* succeeds, whatever has become of the host meanwhile.
ConnectReturns(c) ==
    /\ At(c, "probe")
    /\ conn' = [conn EXCEPT ![c].pc = "reply", ![c].answer = "connected"]
    /\ UNCHANGED <<procVars, serve, listening, wg, fileVars>>

\* CoreAdapter.Disconnect returns; its error leaves the host connected.
DisconnectReturns(c) ==
    /\ At(c, "disconnect")
    /\ LET s == conn[c].server
           h == conn[c].host IN
       \/ /\ links' = [links EXCEPT ![s] = @ \ {h}]
          /\ conn' = [CutOff(s, {h}, conn) EXCEPT ![c].pc = "reply"]
       \/ /\ conn' = [conn EXCEPT ![c].pc = "reply"]
          /\ UNCHANGED links
    /\ UNCHANGED <<stdio, serve, cancelled, listening, wg, fileVars>>

\* Mutant: a failed write ends the handler without its deferred calls.
WriteResponseReturning(c) ==
    /\ At(c, "reply")
    /\ conn' = [conn EXCEPT ![c] = IF conn[c].left THEN Ended
                  ELSE [@ EXCEPT !.pc = "read", !.answer = "other", !.host = None]]
    /\ UNCHANGED <<procVars, serve, listening, wg, fileVars>>

\* A write that fails is logged; the lines that were sent ahead still run.
WriteResponse(c) ==
    /\ At(c, "reply")
    /\ conn' = [conn EXCEPT ![c].pc = "read", ![c].answer = "other", ![c].host = None,
                  ![c].told = IF conn[c].answer = "connected" /\ ~conn[c].left
                              THEN @ \cup {conn[c].host} ELSE @]
    /\ UNCHANGED <<procVars, serve, listening, wg, fileVars>>

\* Scan returns false: the client has left, or a line is longer than 1 MB.
ScanEnds(c) ==
    /\ At(c, "read")
    /\ conn[c].left \/ conn[c].lines < MaxLines
    /\ conn' = [conn EXCEPT ![c].pc = "close"]
    /\ UNCHANGED <<procVars, serve, listening, wg, fileVars>>

\* The deferred conn.Close and wg.Done.
HandlerEnds(c) ==
    /\ At(c, "close")
    /\ conn' = [conn EXCEPT ![c] = Ended]
    /\ wg' = [wg EXCEPT ![conn[c].server] = @ \ {c}]
    /\ UNCHANGED <<procVars, serve, listening, fileVars>>

-----------------------------------------------------------------------------
(* Clients, the MCP server and the process                                 *)

\* A client reads the file and connects, in one step.  With an empty file or
\* the address of a server that is gone it has nobody to talk to.
Dial(c) ==
    /\ conn[c].pc = "none"
    /\ file \in Servers /\ listening[file]
    /\ conn' = [conn EXCEPT ![c].pc = "queued", ![c].server = file]
    /\ UNCHANGED <<procVars, serve, listening, wg, fileVars>>

Leave(c) ==
    /\ conn[c].pc \notin {"none", "ended"} /\ ~conn[c].left
    /\ conn' = [conn EXCEPT ![c].left = TRUE]
    /\ UNCHANGED <<procVars, serve, listening, wg, fileVars>>

\* A disconnect by the MCP client, on the same Core, or a link that breaks.  A
\* connect by the MCP client takes nothing from a control client: left out.
OtherDisconnect(s) ==
    /\ Alive(s)
    /\ \E h \in links[s] :
         /\ links' = [links EXCEPT ![s] = @ \ {h}]
         /\ conn' = CutOff(s, {h}, conn)
    /\ UNCHANGED <<stdio, serve, cancelled, listening, wg, fileVars>>

Cancel(s) ==
    /\ Alive(s) /\ ~cancelled[s]
    /\ cancelled' = [cancelled EXCEPT ![s] = TRUE]
    /\ UNCHANGED <<stdio, serve, listening, wg, links, conn, fileVars>>

\* server.RunStdio returns, for the context is cancelled or stdin has ended,
\* and the deferred Core.Close runs.  Nothing stops the control server.
CoreClose(s) ==
    /\ stdio[s] = "serving"
    /\ stdio' = [stdio EXCEPT ![s] = "returned"]
    /\ links' = [links EXCEPT ![s] = {}]
    /\ conn' = CutOff(s, Hosts, conn)
    /\ UNCHANGED <<serve, cancelled, listening, wg, fileVars>>

\* main returns after RunStdio, or the process dies at any point: its
\* goroutines are gone, its sockets close, and the file stays.
Exit(s) ==
    /\ Alive(s)
    /\ stdio' = [stdio EXCEPT ![s] = "exited"]
    /\ listening' = [listening EXCEPT ![s] = FALSE]
    /\ wg' = [wg EXCEPT ![s] = {}]
    /\ links' = [links EXCEPT ![s] = {}]
    /\ clobbered' = clobbered \ {s}
    /\ conn' = [c \in Conns |-> IF conn[c].server = s
                                THEN Ended ELSE conn[c]]
    /\ serve' = [serve EXCEPT ![s] = "done"]
    /\ cancelled' = [cancelled EXCEPT ![s] = TRUE]
    /\ UNCHANGED file

Serve(s) ==
    \/ Listen(s) \/ TruncateFile(s) \/ WriteFile(s) \/ AcceptLoopEnds(s)
    \/ WaitHandlers(s) \/ RemoveFile(s)
    \/ \E c \in Conns : Accept(s, c)

Answer(c) ==
    ConnectRegisters(c) \/ ConnectReturns(c) \/ DisconnectReturns(c) \/ WriteResponse(c)

Handle(c) ==
    \/ SkipEmpty(c) \/ Reject(c) \/ DispatchStatus(c)
    \/ Dispatch(c, "connect") \/ Dispatch(c, "disconnect")
    \/ Answer(c) \/ ScanEnds(c) \/ HandlerEnds(c)

Process(s) ==
    OtherDisconnect(s) \/ Cancel(s) \/ CoreClose(s) \/ Exit(s)

Next ==
    \/ \E s \in Servers : Serve(s) \/ CloseListener(s) \/ Process(s)
    \/ \E c \in Conns : Handle(c) \/ Dial(c) \/ Leave(c)

Spec == Init /\ [][Next]_vars

\* Goroutines that can run do; calls of Core return (see CallsReturn of the
\* runners' modules); clients leave in the end.
Fairness ==
    /\ \A s \in Servers : WF_vars(Serve(s)) /\ WF_vars(CloseListener(s))
    /\ \A c \in Conns : WF_vars(Answer(c)) /\ WF_vars(HandlerEnds(c))

ClientsLeave ==
    \A c \in Conns : WF_vars(Leave(c)) /\ WF_vars(conn[c].left /\ ScanEnds(c))

FairSpec == Spec /\ Fairness /\ ClientsLeave

-----------------------------------------------------------------------------
(* Properties                                                              *)

TypeOK ==
    /\ stdio \in [Servers -> {"serving", "returned", "exited"}]
    /\ serve \in [Servers -> ServeLabels]
    /\ cancelled \in [Servers -> BOOLEAN]
    /\ listening \in [Servers -> BOOLEAN]
    /\ wg \in [Servers -> SUBSET Conns]
    /\ links \in [Servers -> SUBSET Hosts]
    /\ conn \in [Conns -> Connection]
    /\ file \in Servers \cup {None, Blank}
    /\ clobbered \in SUBSET Servers

\* ListenAndServe does not return, and does not take its address back, while
\* a handler of it runs (the wait group of control.go:115 counts them all).
ReturnsAfterHandlers ==
    \A s \in Servers : serve[s] \in {"remove", "done"} =>
        \A c \in Conns : Handled(c) => conn[c].server # s

\* While a server accepts or drains, the file names it, unless another server
\* that shares the path has written or removed the file since.
AddressIsPublished ==
    \A s \in Servers : Alive(s) /\ serve[s] \in {"accept", "wait"} => file = s \/ s \in clobbered

\* A host whose connect a client was told to have succeeded is one that Core
\* lists, unless a disconnect, a broken link or Close has come since the host
\* was registered.  That may be before the client is told: Core.Connect answers
\* after its probes, without looking again.
ToldIsConnected ==
    \A c \in Conns :
        conn[c].told \ conn[c].cut \subseteq
            (IF conn[c].server = None THEN {} ELSE links[conn[c].server])

\* After cancellation ListenAndServe returns once its clients have left; a
\* client that stays is waited for (no handler looks at the context).
ServerStops ==
    \A s \in Servers : cancelled[s] ~> serve[s] = "done" \/ ~Alive(s)
=============================================================================
