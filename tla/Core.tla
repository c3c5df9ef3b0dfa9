-------------------------------- MODULE Core --------------------------------
(***************************************************************************)
(* server.Core: the hub every MCP tool call and every control-socket call  *)
(* goes through.  Core keeps three maps under one RWMutex -- servers,      *)
(* probeState, toolkitDeployed -- and owns three runners (SSH, local,      *)
(* WinRM), each with a connection map of its own.  A handler takes the     *)
(* lock once per helper, never across the whole handler, and the calls run *)
(* concurrently: one action below is one lock section of a handler, or one *)
(* call it makes to a runner or to the remote host.                        *)
(*                                                                         *)
(* Abstractions: a command is known only by the dialect it was validated   *)
(* for; a connection is its entry in a runner's map; a remote host is the  *)
(* toolkit directory and the tools found on it.                            *)
(***************************************************************************)
EXTENDS FiniteSets

CONSTANTS
    Calls,      \* calls in flight at the same time (MCP and control socket)
    Hosts,      \* host names a client may use
    NoHost,     \* the empty host name
    Tools,      \* toolkit.ToolkitTools
    NoProbe,    \* absence of an entry in probeState
    Ops,        \* the tools the clients use
    HasWinRM    \* whether Core.WinRMRunner is set

AllOps == {"connect", "execute", "provision", "disconnect", "disconnectAll", "close"}

ASSUME HostAssumption == NoHost \notin Hosts
ASSUME ToolAssumption == IsFiniteSet(Tools)
ASSUME OpsAssumption == Ops \subseteq AllOps /\ HasWinRM \in BOOLEAN

Transports == {"ssh", "local", "winrm"}

ProbeResult == [missing : SUBSET Tools, arch : {"known", "unknown"}]

ASSUME ProbeAssumption == NoProbe \notin ProbeResult

VARIABLES
    servers,    \* Core.servers: transport of the entry, or "absent"
    probe,      \* Core.probeState
    toolkit,    \* Core.toolkitDeployed
    conns,      \* entries of the runners' maps: <<runner, host>>
    binDir,     \* hosts on which ~/.shellguard/bin exists
    installed,  \* tools the probe command finds on each host
    call,       \* where each call stands, with its local variables
    phase,      \* RunStdio: "serving", "closing", "returned"
    overtaken,  \* history: calls that another call overtook, see Overtake
    hollow,     \* history: hosts entered by a connect that had lost its client
    unlisted,   \* history: hosts that state was stored for while they had no entry
    late        \* history: connections stored since Close began

maps    == <<servers, probe, toolkit>>
remote  == <<binDir, installed>>
history == <<overtaken, hollow, unlisted, late>>
vars    == <<maps, conns, remote, call, phase, history>>

-----------------------------------------------------------------------------
(* Helpers of Core                                                         *)

ShellOf(transport) == IF transport = "winrm" THEN "powershell" ELSE "bash"

ConnectedHostsSnapshot == {h \in Hosts : servers[h] # "absent"}

\* getShellType and getTransport: a host without an entry (the empty name
\* among them) is taken for an SSH host with a bash shell.
getTransport(h) ==
    IF h \in ConnectedHostsSnapshot THEN servers[h] ELSE "ssh"
getShellType(h) == ShellOf(getTransport(h))

resolveRunner(h) ==
    IF getTransport(h) = "winrm" /\ ~HasWinRM THEN "ssh" ELSE getTransport(h)

\* The hosts a request without a host name may stand for: the only
\* connected one, if there is exactly one.
SoleHost == {h \in Hosts : ConnectedHostsSnapshot = {h}}

resolveHostForState(h) ==
    IF h = NoHost /\ SoleHost # {} THEN CHOOSE s \in Hosts : s \in SoleHost ELSE h

\* resolveProvisionHost: the host it returns, or NoHost for its errors.
resolveProvisionHost(h) ==
    IF h = NoHost \/ h \in ConnectedHostsSnapshot THEN resolveHostForState(h) ELSE NoHost

\* ResolveConnection of the SSH and WinRM managers: the host whose client is
\* used, or NoHost for "not connected" and "host is required".
RunnerHosts(r) == {h \in Hosts : <<r, h>> \in conns}
ResolveConnection(r, h) ==
    IF h \in RunnerHosts(r) THEN h
    ELSE IF h = NoHost /\ \E s \in Hosts : RunnerHosts(r) = {s}
         THEN CHOOSE s \in Hosts : RunnerHosts(r) = {s}
         ELSE NoHost

-----------------------------------------------------------------------------
(* Calls                                                                   *)

\* host: as requested; via: transport or runner; at: the resolved host;
\* on: where a command runs (NoHost: a fresh sh on this machine).
Idle == [pc |-> "idle", host |-> NoHost, via |-> "ssh", at |-> NoHost, on |-> NoHost,
         shell |-> "bash", prefix |-> FALSE, seen |-> NoProbe]

Labels == {"idle",
           "dial", "register", "resetToolkit", "resetProbe", "probe",
           "storeProbe", "checkDir", "storeDir",
           "shell", "path", "runner", "dispatch", "sent",
           "readProbe", "sftp", "mkdir", "upload", "storeDeployed", "dropProbe", "claimed",
           "drop", "clear",
           "closeSSH", "closeLocal", "closeWinRM", "closeClear"}

Locals == [pc : Labels,
           host : Hosts \cup {NoHost}, via : Transports,
           at : Hosts \cup {NoHost}, on : Hosts \cup {NoHost},
           shell : {"bash", "powershell"}, prefix : BOOLEAN,
           seen : ProbeResult \cup {NoProbe}]

Init ==
    /\ servers = [h \in Hosts |-> "absent"]
    /\ probe = [h \in Hosts |-> NoProbe]
    /\ toolkit = [h \in Hosts |-> FALSE]
    /\ conns = {}
    /\ binDir \in SUBSET Hosts
    /\ installed \in [Hosts -> SUBSET Tools]
    /\ call = [c \in Calls |-> Idle]
    /\ phase = "serving"
    /\ overtaken = {}
    /\ hollow = {}
    /\ unlisted = {}
    /\ late = {}

At(c, label) == call[c].pc = label
Goto(c, label) == call' = [call EXCEPT ![c].pc = label]
Return(c) == call' = [call EXCEPT ![c] = Idle]

\* Nothing stops a call from starting while Close runs, or after it: RunStdio
\* waits neither for the control server it started nor for its calls.
Begin(c, op) == At(c, "idle") /\ op \in Ops

\* History.  A connect between the runner's Connect and setConnected is
\* overtaken when its client is dropped; an execute between getShellType and
\* resolveRunner is overtaken when the entry of its host is written.
Overtake(calls) == overtaken' = overtaken \cup calls
Registering(xs) == {d \in Calls : At(d, "register") /\ <<call[d].via, call[d].host>> \in xs}
Reading(hs)     == {d \in Calls : call[d].pc \in {"path", "runner"} /\ call[d].at \in hs}

\* What is known of a host is stored by lock sections after setConnected.
NoteStored(h) == unlisted' = IF servers[h] = "absent" THEN unlisted \cup {h} ELSE unlisted

-----------------------------------------------------------------------------
(* Connect                                                                 *)

\* A local connect without a Command calls no runner; a WinRM connect
\* without a WinRM runner is refused before anything changes.
BeginConnect(c) ==
    /\ Begin(c, "connect")
    /\ \E h \in Hosts, t \in Transports, first \in {"dial", "register"} :
         /\ t = "winrm" => HasWinRM
         /\ first = "register" => t = "local"
         /\ call' = [call EXCEPT ![c] = [Idle EXCEPT !.pc = first, !.host = h, !.via = t]]
    /\ UNCHANGED <<maps, conns, remote, phase, history>>

\* The runner's map after a Connect that succeeds.
StoreClient(c) ==
    LET client == <<call[c].via, call[c].host>>
    IN  /\ conns' = conns \cup {client}
        /\ late' = IF phase = "serving" THEN late ELSE late \cup {client}

\* Mutant: the runner's error is ignored.
RunnerConnectIgnoringError(c) ==
    /\ At(c, "dial")
    /\ StoreClient(c) \/ UNCHANGED <<conns, late>>
    /\ Goto(c, "register")
    /\ UNCHANGED <<maps, remote, phase, overtaken, hollow, unlisted>>

\* The runner's Connect: the client it stores replaces the host's old one,
\* a failure leaves the map as it was.
RunnerConnect(c) ==
    /\ At(c, "dial")
    /\ \/ StoreClient(c) /\ Goto(c, "register")
       \/ Return(c) /\ UNCHANGED <<conns, late>>
    /\ UNCHANGED <<maps, remote, phase, overtaken, hollow, unlisted>>

SetConnected(c) ==
    /\ At(c, "register")
    /\ LET h == call[c].host
       IN  /\ servers' = [servers EXCEPT ![h] = call[c].via]
           /\ overtaken' = (overtaken \cup Reading({h})) \ {c}
           /\ hollow' = IF c \in overtaken THEN hollow \cup {h} ELSE hollow \ {h}
           /\ unlisted' = unlisted \ {h}
    /\ IF call[c].via = "ssh" THEN Goto(c, "resetToolkit") ELSE Return(c)
    /\ UNCHANGED <<probe, toolkit, conns, remote, phase, late>>

ResetToolkit(c) ==
    /\ At(c, "resetToolkit")
    /\ toolkit' = [toolkit EXCEPT ![call[c].host] = FALSE]
    /\ Goto(c, "resetProbe")
    /\ UNCHANGED <<servers, probe, conns, remote, phase, history>>

ResetProbe(c) ==
    /\ At(c, "resetProbe")
    /\ probe' = [probe EXCEPT ![call[c].host] = NoProbe]
    /\ Goto(c, "probe")
    /\ UNCHANGED <<servers, toolkit, conns, remote, phase, history>>

\* Mutant: the found tools are taken for the missing ones.
ProbeInverted(c) ==
    /\ At(c, "probe")
    /\ \/ /\ <<"ssh", call[c].host>> \in conns
          /\ \E a \in {"known", "unknown"} :
               call' = [call EXCEPT ![c].pc = "storeProbe",
                          ![c].seen = [missing |-> installed[call[c].host], arch |-> a]]
       \/ Goto(c, "checkDir")
    /\ UNCHANGED <<maps, conns, remote, phase, history>>

\* ExecuteRaw(BuildProbeCommand()): an error is swallowed, the reply is
\* stored by a later step.
Probe(c) ==
    /\ At(c, "probe")
    /\ \/ /\ <<"ssh", call[c].host>> \in conns
          /\ \E a \in {"known", "unknown"} :
               call' = [call EXCEPT ![c].pc = "storeProbe",
                          ![c].seen = [missing |-> Tools \ installed[call[c].host], arch |-> a]]
       \/ Goto(c, "checkDir")
    /\ UNCHANGED <<maps, conns, remote, phase, history>>

SetProbeState(c) ==
    /\ At(c, "storeProbe")
    /\ probe' = [probe EXCEPT ![call[c].host] = call[c].seen]
    /\ NoteStored(call[c].host)
    /\ Goto(c, "checkDir")
    /\ UNCHANGED <<servers, toolkit, conns, remote, phase, overtaken, hollow, late>>

\* Mutant: the reply is not compared with "yes".
CheckDirAnyReply(c) ==
    /\ At(c, "checkDir")
    /\ \/ <<"ssh", call[c].host>> \in conns /\ Goto(c, "storeDir")
       \/ Return(c)
    /\ UNCHANGED <<maps, conns, remote, phase, history>>

\* ExecuteRaw("test -d $HOME/.shellguard/bin && echo yes")
CheckDir(c) ==
    /\ At(c, "checkDir")
    /\ \/ /\ <<"ssh", call[c].host>> \in conns
          /\ call[c].host \in binDir
          /\ Goto(c, "storeDir")
       \/ Return(c)
    /\ UNCHANGED <<maps, conns, remote, phase, history>>

StoreDir(c) ==
    /\ At(c, "storeDir")
    /\ toolkit' = [toolkit EXCEPT ![call[c].host] = TRUE]
    /\ NoteStored(call[c].host)
    /\ Return(c)
    /\ UNCHANGED <<servers, probe, conns, remote, phase, overtaken, hollow, late>>

-----------------------------------------------------------------------------
(* Execute                                                                 *)

BeginExecute(c) ==
    /\ Begin(c, "execute")
    /\ \E h \in Hosts \cup {NoHost} :
         call' = [call EXCEPT ![c] = [Idle EXCEPT !.pc = "shell", !.host = h,
                                                  !.at = resolveHostForState(h)]]
    /\ UNCHANGED <<maps, conns, remote, phase, history>>

\* getShellType picks the parser and scopes the registry; a command the
\* parser or the validator rejects goes no further.
ParseAndValidate(c) ==
    /\ At(c, "shell")
    /\ \/ LET sh == getShellType(call[c].at)
          IN  call' = [call EXCEPT ![c].shell = sh,
                         ![c].pc = IF sh = "bash" THEN "path" ELSE "runner"]
       \/ Return(c)
    /\ UNCHANGED <<maps, conns, remote, phase, history>>

\* Reconstruct puts ~/.shellguard/bin on the PATH when isToolkitDeployed.
ReadToolkit(c) ==
    /\ At(c, "path")
    /\ call' = [call EXCEPT ![c].pc = "runner",
                  ![c].prefix = call[c].at \in Hosts /\ toolkit[call[c].at]]
    /\ UNCHANGED <<maps, conns, remote, phase, history>>

\* Mutant: the runner is looked up by the requested name, not the resolved one.
PickExecRunnerOfInput(c) ==
    /\ At(c, "runner")
    /\ call' = [call EXCEPT ![c].pc = "dispatch", ![c].via = resolveRunner(call[c].host)]
    /\ UNCHANGED <<maps, conns, remote, phase, history>>

\* resolveRunner reads the transport again, in a lock section of its own.
PickExecRunner(c) ==
    /\ At(c, "runner")
    /\ call' = [call EXCEPT ![c].pc = "dispatch", ![c].via = resolveRunner(call[c].at)]
    /\ UNCHANGED <<maps, conns, remote, phase, history>>

\* runner.Execute(ctx, in.Host, ...): note in.Host, not the resolved host.
\* SSH and WinRM resolve it to a client or fail; the local executor uses the
\* PTY session stored under that very name and otherwise a fresh sh.
Dispatch(c) ==
    /\ At(c, "dispatch")
    /\ LET r == call[c].via
           target == IF r = "local" /\ call[c].host = NoHost THEN NoHost
                     ELSE ResolveConnection(r, call[c].host)
       IN  IF r # "local" /\ target = NoHost
           THEN /\ Return(c)
                /\ overtaken' = overtaken \ {c}
           ELSE /\ call' = [call EXCEPT ![c].pc = "sent", ![c].on = target]
                /\ UNCHANGED overtaken
    /\ UNCHANGED <<maps, conns, remote, phase, hollow, unlisted, late>>

FinishExecute(c) ==
    /\ At(c, "sent")
    /\ Return(c)
    /\ overtaken' = overtaken \ {c}
    /\ UNCHANGED <<maps, conns, remote, phase, hollow, unlisted, late>>

-----------------------------------------------------------------------------
(* Provision                                                               *)

BeginProvision(c) ==
    /\ Begin(c, "provision")
    /\ \E h \in Hosts \cup {NoHost} :
         /\ resolveProvisionHost(h) # NoHost
         /\ call' = [call EXCEPT ![c] = [Idle EXCEPT !.pc = "readProbe", !.host = h,
                                                     !.at = resolveProvisionHost(h)]]
    /\ UNCHANGED <<maps, conns, remote, phase, history>>

\* Mutant: an unknown architecture is taken for nothing to deploy.
GetProbeStateLax(c) ==
    /\ At(c, "readProbe")
    /\ LET p == probe[call[c].at]
       IN  \/ /\ p = NoProbe
              /\ Goto(c, "claimed")
           \/ /\ p # NoProbe
              /\ p.missing = {} \/ p.arch = "unknown"
              /\ call' = [call EXCEPT ![c].pc = "claimed", ![c].seen = p]
    /\ UNCHANGED <<maps, conns, remote, phase, history>>

\* "claimed": the answer is "All toolkit tools are already available."
GetProbeState(c) ==
    /\ At(c, "readProbe")
    /\ LET p == probe[call[c].at]
       IN  \/ /\ p = NoProbe
              /\ Goto(c, "claimed")
           \/ /\ p # NoProbe
              /\ p.missing = {}
              /\ call' = [call EXCEPT ![c].pc = "claimed", ![c].seen = p]
           \/ /\ p # NoProbe
              /\ p.missing # {} /\ p.arch = "unknown"
              /\ Return(c)
           \/ /\ p # NoProbe
              /\ p.missing # {} /\ p.arch = "known"
              /\ call' = [call EXCEPT ![c].pc = "sftp", ![c].seen = p]
    /\ UNCHANGED <<maps, conns, remote, phase, history>>

\* The session is always asked of the SSH runner, whatever the transport.
SFTPSession(c) ==
    /\ At(c, "sftp")
    /\ \/ <<"ssh", call[c].at>> \in conns /\ Goto(c, "mkdir")
       \/ Return(c)
    /\ UNCHANGED <<maps, conns, remote, phase, history>>

MkdirRemote(c) ==
    /\ At(c, "mkdir")
    /\ \/ /\ binDir' = binDir \cup {call[c].at}
          /\ Goto(c, "upload")
       \/ /\ Return(c)
          /\ UNCHANGED binDir
    /\ UNCHANGED <<maps, conns, installed, phase, history>>

\* DeployTools goes on after a tool that fails and returns no error even
\* when every tool failed.
UploadTools(c) ==
    /\ At(c, "upload")
    /\ \E uploaded \in SUBSET call[c].seen.missing :
         installed' = [installed EXCEPT ![call[c].at] = @ \cup uploaded]
    /\ Goto(c, "storeDeployed")
    /\ UNCHANGED <<maps, conns, binDir, phase, history>>

StoreDeployed(c) ==
    /\ At(c, "storeDeployed")
    /\ toolkit' = [toolkit EXCEPT ![call[c].at] = TRUE]
    /\ NoteStored(call[c].at)
    /\ Goto(c, "dropProbe")
    /\ UNCHANGED <<servers, probe, conns, remote, phase, overtaken, hollow, late>>

DropProbe(c) ==
    /\ At(c, "dropProbe")
    /\ probe' = [probe EXCEPT ![call[c].at] = NoProbe]
    /\ Return(c)
    /\ UNCHANGED <<servers, toolkit, conns, remote, phase, history>>

FinishClaim(c) ==
    /\ At(c, "claimed")
    /\ Return(c)
    /\ UNCHANGED <<maps, conns, remote, phase, history>>

-----------------------------------------------------------------------------
(* Disconnect and Close                                                    *)

BeginDisconnect(c) ==
    /\ \E h \in Hosts \cup {NoHost} :
         /\ Begin(c, IF h = NoHost THEN "disconnectAll" ELSE "disconnect")
         /\ call' = [call EXCEPT ![c] = [Idle EXCEPT !.pc = "drop", !.host = h,
                                                     !.via = resolveRunner(h)]]
    /\ UNCHANGED <<maps, conns, remote, phase, history>>

\* A runner's Disconnect: one host's client, or all of them for NoHost.
Dropped(r, h) == {x \in conns : x[1] = r /\ (h = NoHost \/ x[2] = h)}

DropClients(xs) ==
    /\ conns' = conns \ xs
    /\ late' = late \ xs
    /\ Overtake(Registering(xs))

RunnerDisconnect(c) ==
    /\ At(c, "drop")
    /\ DropClients(Dropped(call[c].via, call[c].host))
    /\ Goto(c, "clear")
    /\ UNCHANGED <<maps, remote, phase, hollow, unlisted>>

\* Mutant: the toolkit flag survives.
clearHostStateKeepingToolkit(h) ==
    LET kept(x) == h # NoHost /\ x # h
    IN  /\ servers' = [x \in Hosts |-> IF kept(x) THEN servers[x] ELSE "absent"]
        /\ probe' = [x \in Hosts |-> IF kept(x) THEN probe[x] ELSE NoProbe]
        /\ UNCHANGED toolkit

clearHostState(h) ==
    LET kept(x) == h # NoHost /\ x # h
    IN  /\ servers' = [x \in Hosts |-> IF kept(x) THEN servers[x] ELSE "absent"]
        /\ probe' = [x \in Hosts |-> IF kept(x) THEN probe[x] ELSE NoProbe]
        /\ toolkit' = [x \in Hosts |-> IF kept(x) THEN toolkit[x] ELSE FALSE]

\* The history of the hosts that clearHostState forgets.
ClearHistory(h) ==
    LET cleared == {x \in Hosts : h = NoHost \/ x = h}
    IN  /\ Overtake(Reading(cleared))
        /\ hollow' = hollow \ cleared
        /\ unlisted' = unlisted \ cleared
        /\ UNCHANGED late

ClearDisconnected(c) ==
    /\ At(c, "clear")
    /\ clearHostState(call[c].host)
    /\ ClearHistory(call[c].host)
    /\ Return(c)
    /\ UNCHANGED <<conns, remote, phase>>

\* Core.Close, which RunStdio defers, once.
BeginClose(c) ==
    /\ Begin(c, "close")
    /\ phase = "serving"
    /\ phase' = "closing"
    /\ Goto(c, "closeSSH")
    /\ UNCHANGED <<maps, conns, remote, history>>

CloseRunner(c, label, r, next) ==
    /\ At(c, label)
    /\ DropClients(Dropped(r, NoHost))
    /\ Goto(c, next)
    /\ UNCHANGED <<maps, remote, phase, hollow, unlisted>>

CloseSSH(c) == CloseRunner(c, "closeSSH", "ssh", "closeLocal")
\* Mutant: Close forgets the WinRM runner.
CloseLocalLast(c) == CloseRunner(c, "closeLocal", "local", "closeClear")

CloseLocal(c) == CloseRunner(c, "closeLocal", "local", IF HasWinRM THEN "closeWinRM" ELSE "closeClear")
CloseWinRM(c) == CloseRunner(c, "closeWinRM", "winrm", "closeClear")

CloseClear(c) ==
    /\ At(c, "closeClear")
    /\ clearHostState(NoHost)
    /\ ClearHistory(NoHost)
    /\ phase' = "returned"
    /\ Return(c)
    /\ UNCHANGED <<conns, remote>>

-----------------------------------------------------------------------------

Connect(c) ==
    \/ BeginConnect(c) \/ RunnerConnect(c) \/ SetConnected(c)
    \/ ResetToolkit(c) \/ ResetProbe(c) \/ Probe(c) \/ SetProbeState(c)
    \/ CheckDir(c) \/ StoreDir(c)

Execute(c) ==
    \/ BeginExecute(c) \/ ParseAndValidate(c) \/ ReadToolkit(c)
    \/ PickExecRunner(c) \/ Dispatch(c) \/ FinishExecute(c)

Provision(c) ==
    \/ BeginProvision(c) \/ GetProbeState(c) \/ SFTPSession(c) \/ MkdirRemote(c)
    \/ UploadTools(c) \/ StoreDeployed(c) \/ DropProbe(c) \/ FinishClaim(c)

Disconnect(c) == BeginDisconnect(c) \/ RunnerDisconnect(c) \/ ClearDisconnected(c)

Close(c) == BeginClose(c) \/ CloseSSH(c) \/ CloseLocal(c) \/ CloseWinRM(c) \/ CloseClear(c)

Next ==
    \E c \in Calls : Connect(c) \/ Execute(c) \/ Provision(c) \/ Disconnect(c) \/ Close(c)

Spec == Init /\ [][Next]_vars

-----------------------------------------------------------------------------
(* Properties                                                              *)

TypeOK ==
    /\ servers \in [Hosts -> Transports \cup {"absent"}]
    /\ probe \in [Hosts -> ProbeResult \cup {NoProbe}]
    /\ toolkit \in [Hosts -> BOOLEAN]
    /\ conns \subseteq Transports \X Hosts
    /\ binDir \subseteq Hosts
    /\ installed \in [Hosts -> SUBSET Tools]
    /\ call \in [Calls -> Locals]
    /\ phase \in {"serving", "closing", "returned"}
    /\ overtaken \subseteq Calls
    /\ hollow \subseteq Hosts
    /\ unlisted \subseteq Hosts
    /\ late \subseteq conns

\* The toolkit directory is put on a command's PATH, and the flag that says so
\* is set, only for a host that has the directory -- whatever connects,
\* disconnects and provisions run in between (Core.isToolkitDeployed).
ToolkitPathExists ==
    /\ \A h \in Hosts : toolkit[h] => h \in binDir
    /\ \A c \in Calls : call[c].prefix => call[c].at \in binDir

\* A probe result never hides a missing tool, however late it is stored
\* (Core.probeState): what Provision is told to deploy includes all it should.
ProbeCoversMissing ==
    \A h \in Hosts : probe[h] # NoProbe => Tools \ installed[h] \subseteq probe[h].missing

\* Provision's "All toolkit tools are already available" is true when it is
\* read off a stored probe.
ClaimFromProbeIsTrue ==
    \A c \in Calls : At(c, "claimed") /\ call[c].seen # NoProbe => installed[call[c].at] = Tools

Quiescent == \A c \in Calls : At(c, "idle")

\* A host Status lists as connected over SSH or WinRM has its client in that
\* runner, whatever connects, disconnects and Close run in between -- unless
\* the client was gone before the connect that dialled it had entered the host
\* (Core.Connect: runner.Connect and setConnected are two steps).
RegisteredIsConnected ==
    Quiescent => \A h \in Hosts \ hollow :
        servers[h] \in {"ssh", "winrm"} => <<servers[h], h>> \in conns

\* Probe and toolkit state outlives the entry of its host only where a connect
\* or a provision stored it after the entry was gone (Core.clearHostState).
NoStateWithoutEntry ==
    \A h \in Hosts \ unlisted :
        probe[h] # NoProbe \/ toolkit[h] => servers[h] # "absent"

\* A command is sent to a runner that speaks the dialect it was parsed,
\* validated and reconstructed for, unless another call wrote the entry of its
\* host between the two reads of it (Core.Execute: getShellType and
\* resolveRunner take the lock separately).
DialectMatchesRunner ==
    \A c \in Calls : At(c, "sent") /\ c \notin overtaken => call[c].shell = ShellOf(call[c].via)

\* "empty disconnects all" (DisconnectInput): when Core lists no host any more,
\* no runner holds a connection.
AllDisconnected == Quiescent /\ ConnectedHostsSnapshot = {} => conns = {}

\* Once RunStdio has returned, the only connections left are those that calls
\* stored after Close had begun (Core.Close): none that was there before.
ClosedIsClean == phase = "returned" => conns \subseteq late
=============================================================================
