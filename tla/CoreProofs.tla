------------------------------ MODULE CoreProofs ------------------------------
(***************************************************************************)
(* Theorems about Core, for every set of calls, hosts and tools.           *)
(*                                                                         *)
(* A flag or a probe result is stored by a later lock section than the one *)
(* that learned it, with other calls in between, so the invariants of the  *)
(* maps hold only together with what each call in flight is about to       *)
(* store: that is what IndInv adds.  The registry and the runners, which   *)
(* other calls change between two steps of a handler, are at the end, with *)
(* an invariant (AgreeInv) that the history of Core makes exact.           *)
(***************************************************************************)
EXTENDS Core, TLAPS

ConnectLabels == {"dial", "register", "resetToolkit", "resetProbe", "probe",
                  "storeProbe", "checkDir", "storeDir"}
ProvisionLabels == {"readProbe", "sftp", "mkdir", "upload", "storeDeployed", "dropProbe", "claimed"}

\* What call c holds: hosts where its next step indexes a map by one, results
\* where it is about to store or use them.  A call about to set the toolkit
\* flag has seen, or made, the directory; a probe result on its way to the map
\* is as good as one in it.
CallInv(c) ==
    /\ call[c].pc \in ConnectLabels => call[c].host \in Hosts
    /\ call[c].pc \in ProvisionLabels => call[c].at \in Hosts
    /\ call[c].pc = "readProbe" => call[c].seen = NoProbe
    /\ call[c].pc \in {"sftp", "mkdir", "upload"} => call[c].seen \in ProbeResult
    /\ call[c].pc = "storeDir" => call[c].host \in binDir
    /\ call[c].pc \in {"upload", "storeDeployed"} => call[c].at \in binDir
    /\ call[c].pc = "storeProbe" =>
           /\ call[c].seen \in ProbeResult
           /\ Tools \ installed[call[c].host] \subseteq call[c].seen.missing
    /\ call[c].prefix => call[c].at \in binDir
    /\ call[c].pc = "claimed" /\ call[c].seen # NoProbe => installed[call[c].at] = Tools

\* The maps on their own.
MapInv ==
    /\ servers \in [Hosts -> Transports \cup {"absent"}]
    /\ probe \in [Hosts -> ProbeResult \cup {NoProbe}]
    /\ toolkit \in [Hosts -> BOOLEAN]
    /\ conns \subseteq Transports \X Hosts
    /\ binDir \subseteq Hosts
    /\ installed \in [Hosts -> SUBSET Tools]
    /\ phase \in {"serving", "closing", "returned"}
    /\ \A h \in Hosts : toolkit[h] => h \in binDir
    /\ ProbeCoversMissing

IndInv ==
    /\ MapInv
    /\ call \in [Calls -> Locals]
    /\ \A c \in Calls : CallInv(c)

-----------------------------------------------------------------------------

\* resolveHostForState returns its argument or a connected host.
LEMMA ResolveHostType ==
    ASSUME NEW h \in Hosts \cup {NoHost}
    PROVE  resolveHostForState(h) \in Hosts \cup {NoHost}
<1>1. CASE h = NoHost /\ SoleHost # {}
  <2>1. \E s \in Hosts : s \in SoleHost
    BY <1>1 DEF SoleHost
  <2>2. (CHOOSE s \in Hosts : s \in SoleHost) \in Hosts
    BY <2>1
  <2>3. QED
    BY <1>1, <2>2 DEF resolveHostForState
<1>2. CASE ~(h = NoHost /\ SoleHost # {})
  BY <1>2 DEF resolveHostForState
<1>3. QED
  BY <1>1, <1>2

\* The host Provision works on, unless it gives up, is one of Hosts.
LEMMA ResolveProvisionType ==
    ASSUME NEW h \in Hosts \cup {NoHost}
    PROVE  resolveProvisionHost(h) \in Hosts \cup {NoHost}
BY ResolveHostType DEF resolveProvisionHost

\* ResolveConnection returns a host of the runner's map, or NoHost.
LEMMA ResolveConnectionType ==
    ASSUME NEW h \in Hosts \cup {NoHost}, NEW r
    PROVE  ResolveConnection(r, h) \in Hosts \cup {NoHost}
<1>1. CASE h \in RunnerHosts(r)
  BY <1>1 DEF ResolveConnection
<1>2. CASE h \notin RunnerHosts(r) /\ h = NoHost /\ \E s \in Hosts : RunnerHosts(r) = {s}
  <2>1. (CHOOSE s \in Hosts : RunnerHosts(r) = {s}) \in Hosts
    BY <1>2
  <2>2. QED
    BY <1>2, <2>1 DEF ResolveConnection
<1>3. CASE h \notin RunnerHosts(r) /\ ~(h = NoHost /\ \E s \in Hosts : RunnerHosts(r) = {s})
  BY <1>3 DEF ResolveConnection
<1>4. QED
  BY <1>1, <1>2, <1>3

\* resolveRunner returns one of the three runners.
LEMMA ResolveRunnerType ==
    ASSUME MapInv, NEW h
    PROVE  resolveRunner(h) \in Transports
BY DEF resolveRunner, getTransport, ConnectedHostsSnapshot, MapInv, Transports

LEMMA IdleType == Idle \in Locals
BY DEF Idle, Locals, Labels, Transports

\* The updates of Execute's locals keep their types.
LEMMA LocalsUpdate ==
    ASSUME NEW r \in Locals, NEW label \in Labels
    PROVE  /\ \A s \in {"bash", "powershell"} : [r EXCEPT !.shell = s, !.pc = label] \in Locals
           /\ \A b \in BOOLEAN : [r EXCEPT !.pc = label, !.prefix = b] \in Locals
           /\ \A h \in Hosts \cup {NoHost} : [r EXCEPT !.pc = label, !.on = h] \in Locals
<1>1. ASSUME NEW s \in {"bash", "powershell"} PROVE [r EXCEPT !.shell = s, !.pc = label] \in Locals
  BY DEF Locals
<1>2. ASSUME NEW b \in BOOLEAN PROVE [r EXCEPT !.pc = label, !.prefix = b] \in Locals
  BY DEF Locals
<1>3. ASSUME NEW h \in Hosts \cup {NoHost} PROVE [r EXCEPT !.pc = label, !.on = h] \in Locals
  BY DEF Locals
<1>4. QED
  BY <1>1, <1>2, <1>3

LEMMA InitIndInv == Init => IndInv
BY IdleType DEF Init, IndInv, MapInv, CallInv, Idle, Transports, ProbeCoversMissing,
   ConnectLabels, ProvisionLabels

\* What Goto does to the calls.
LEMMA GotoEffect ==
    ASSUME call \in [Calls -> Locals], NEW c \in Calls, NEW label \in Labels, Goto(c, label)
    PROVE  /\ call' \in [Calls -> Locals]
           /\ call'[c].pc = label
           /\ call'[c].host = call[c].host /\ call'[c].at = call[c].at
           /\ call'[c].seen = call[c].seen /\ call'[c].prefix = call[c].prefix
           /\ \A d \in Calls \ {c} : call'[d] = call[d]
<1>1. [call[c] EXCEPT !.pc = label] \in Locals
  BY DEF Locals
<1>2. call' = [call EXCEPT ![c] = [call[c] EXCEPT !.pc = label]]
  BY DEF Goto
<1>3. call' \in [Calls -> Locals] /\ \A d \in Calls \ {c} : call'[d] = call[d]
  BY <1>1, <1>2
<1>4. call'[c] = [call[c] EXCEPT !.pc = label]
  BY <1>2
<1>5. QED
  BY <1>3, <1>4 DEF Locals

\* What Return does to the calls.
LEMMA ReturnEffect ==
    ASSUME call \in [Calls -> Locals], NEW c \in Calls, Return(c)
    PROVE  /\ call' \in [Calls -> Locals]
           /\ call'[c] = Idle
           /\ \A d \in Calls \ {c} : call'[d] = call[d]
BY IdleType DEF Return

\* An idle call needs nothing.
LEMMA IdleInv ==
    ASSUME NEW c, call[c] = Idle
    PROVE  CallInv(c)
BY DEF CallInv, Idle, ConnectLabels, ProvisionLabels

\* A call is not disturbed by the others: the directory stays, and tools are
\* only ever added.
LEMMA OthersKept ==
    ASSUME IndInv, NEW c \in Calls, NEW d \in Calls, call'[d] = call[d],
           binDir \subseteq binDir',
           installed' \in [Hosts -> SUBSET Tools],
           \A h \in Hosts : installed[h] \subseteq installed'[h]
    PROVE  CallInv(d)'
<1>1. CallInv(d) /\ call[d] \in Locals
  BY DEF IndInv
<1>2. call[d].pc = "storeProbe" => call[d].host \in Hosts
  BY <1>1 DEF CallInv, ConnectLabels
<1>3. call[d].pc = "claimed" => call[d].at \in Hosts
  BY <1>1 DEF CallInv, ProvisionLabels
<1>4. installed \in [Hosts -> SUBSET Tools]
  BY DEF IndInv, MapInv
<1>5. /\ call[d].pc = "storeProbe" => Tools \ installed'[call[d].host] \subseteq call[d].seen.missing
      /\ call[d].pc = "claimed" /\ call[d].seen # NoProbe => installed'[call[d].at] = Tools
  BY <1>1, <1>2, <1>3, <1>4 DEF CallInv
<1>6. QED
  BY <1>1, <1>5 DEF CallInv

\* The frame of a step of call c: the maps are fine, the others' calls are
\* untouched, and c's own new state is fine.
LEMMA StepInv ==
    ASSUME IndInv, NEW c \in Calls,
           call' \in [Calls -> Locals],
           \A d \in Calls \ {c} : call'[d] = call[d],
           MapInv', CallInv(c)',
           binDir \subseteq binDir',
           \A h \in Hosts : installed[h] \subseteq installed'[h]
    PROVE  IndInv'
<1>1. ASSUME NEW d \in Calls PROVE CallInv(d)'
  <2>1. CASE d = c
    BY <2>1
  <2>2. CASE d # c
    BY <2>2, OthersKept DEF MapInv
  <2>3. QED
    BY <2>1, <2>2
<1>2. QED
  BY <1>1 DEF IndInv

\* A step that leaves the maps and the remote hosts alone.
LEMMA QuietStepInv ==
    ASSUME IndInv, NEW c \in Calls,
           call' \in [Calls -> Locals],
           \A d \in Calls \ {c} : call'[d] = call[d],
           CallInv(c)',
           conns' \subseteq Transports \X Hosts,
           phase' \in {"serving", "closing", "returned"},
           UNCHANGED <<maps, remote>>
    PROVE  IndInv'
<1>1. MapInv'
  BY DEF IndInv, MapInv, maps, remote, ProbeCoversMissing
<1>2. QED
  BY <1>1, StepInv DEF maps, remote

\* A step that changes one call only.
LEMMA CallStepInv ==
    ASSUME IndInv, NEW c \in Calls, NEW r \in Locals,
           call' = [call EXCEPT ![c] = r], CallInv(c)',
           UNCHANGED <<maps, conns, remote, phase>>
    PROVE  IndInv'
<1>1. call \in [Calls -> Locals] /\ conns \subseteq Transports \X Hosts
      /\ phase \in {"serving", "closing", "returned"}
  BY DEF IndInv, MapInv
<1>2. call' \in [Calls -> Locals] /\ \A d \in Calls \ {c} : call'[d] = call[d]
  BY <1>1
<1>3. QED
  BY <1>1, <1>2, QuietStepInv DEF maps, remote

-----------------------------------------------------------------------------

\* Every step of a Connect keeps the invariant.
LEMMA ConnectStep ==
    ASSUME IndInv, NEW c \in Calls, Connect(c)
    PROVE  IndInv'
<1> USE DEF maps, remote
<1>0. /\ MapInv /\ call \in [Calls -> Locals] /\ CallInv(c)
      /\ call[c] \in Locals
  BY DEF IndInv
<1>1. CASE BeginConnect(c)
  <2>1. PICK h \in Hosts, t \in Transports, first \in {"dial", "register"} :
           call' = [call EXCEPT ![c] = [Idle EXCEPT !.pc = first, !.host = h, !.via = t]]
    BY <1>1 DEF BeginConnect
  <2>2. [Idle EXCEPT !.pc = first, !.host = h, !.via = t] \in Locals
    BY IdleType DEF Locals, Labels
  <2>3. CallInv(c)'
    BY <1>0, <2>1 DEF CallInv, Idle, ConnectLabels, ProvisionLabels
  <2>4. UNCHANGED <<maps, conns, remote, phase>>
    BY <1>1 DEF BeginConnect
  <2>5. QED
    BY <2>1, <2>2, <2>3, <2>4, CallStepInv
<1>2. CASE RunnerConnect(c)
  <2>1. conns' \subseteq Transports \X Hosts
    BY <1>0, <1>2 DEF RunnerConnect, StoreClient, At, MapInv, CallInv, ConnectLabels, Locals
  <2>2. CASE Goto(c, "register")
    <3>1. CallInv(c)'
      BY <1>0, <1>2, <2>1, <2>2, GotoEffect
         DEF RunnerConnect, At, CallInv, ConnectLabels, ProvisionLabels, Locals, Labels
    <3>2. QED
      BY <1>0, <1>2, <2>1, <2>2, <3>1, GotoEffect, QuietStepInv DEF RunnerConnect, MapInv, Labels
  <2>3. CASE Return(c)
    <3>1. CallInv(c)'
      BY <1>0, <1>2, <2>1, <2>3, ReturnEffect
         DEF RunnerConnect, CallInv, Idle, ConnectLabels, ProvisionLabels
    <3>2. QED
      BY <1>0, <1>2, <2>1, <2>3, <3>1, ReturnEffect, QuietStepInv DEF RunnerConnect, MapInv
  <2>4. QED
    BY <1>2, <2>2, <2>3 DEF RunnerConnect
<1>3. CASE SetConnected(c)
  <2>1. MapInv'
    BY <1>0, <1>3 DEF SetConnected, MapInv, Locals, ProbeCoversMissing
  <2>2. CASE Goto(c, "resetToolkit")
    <3>1. CallInv(c)'
      BY <1>0, <1>3, <2>1, <2>2, GotoEffect
         DEF SetConnected, At, CallInv, ConnectLabels, ProvisionLabels, Locals, Labels
    <3>2. QED
      BY <1>0, <1>3, <2>1, <2>2, <3>1, GotoEffect, StepInv DEF SetConnected, Labels
  <2>3. CASE Return(c)
    <3>1. CallInv(c)'
      BY <1>0, <1>3, <2>1, <2>3, ReturnEffect
         DEF SetConnected, CallInv, Idle, ConnectLabels, ProvisionLabels
    <3>2. QED
      BY <1>0, <1>3, <2>1, <2>3, <3>1, ReturnEffect, StepInv DEF SetConnected
  <2>4. QED
    BY <1>3, <2>2, <2>3 DEF SetConnected
<1>4. CASE ResetToolkit(c)
  <2>1. MapInv'
    BY <1>0, <1>4 DEF ResetToolkit, MapInv, ProbeCoversMissing
  <2>2. QED
    <3>1. CallInv(c)'
      BY <1>0, <1>4, <2>1, GotoEffect
         DEF ResetToolkit, At, CallInv, ConnectLabels, ProvisionLabels, Locals, Labels
    <3>2. QED
      BY <1>0, <1>4, <2>1, <3>1, GotoEffect, StepInv DEF ResetToolkit, Labels
<1>5. CASE ResetProbe(c)
  <2>1. MapInv'
    BY <1>0, <1>5 DEF ResetProbe, MapInv, ProbeCoversMissing
  <2>2. QED
    <3>1. CallInv(c)'
      BY <1>0, <1>5, <2>1, GotoEffect
         DEF ResetProbe, At, CallInv, ConnectLabels, ProvisionLabels, Locals, Labels
    <3>2. QED
      BY <1>0, <1>5, <2>1, <3>1, GotoEffect, StepInv DEF ResetProbe, Labels
<1>6. CASE Probe(c)
  <2>1. CASE Goto(c, "checkDir")
    <3>1. CallInv(c)'
      BY <1>0, <1>6, <2>1, GotoEffect
         DEF Probe, At, CallInv, ConnectLabels, ProvisionLabels, Locals, Labels
    <3>2. QED
      BY <1>0, <1>6, <2>1, <3>1, GotoEffect, QuietStepInv, SMTT(30) DEF Probe, MapInv, Labels
  <2>2. CASE \E a \in {"known", "unknown"} :
               call' = [call EXCEPT ![c].pc = "storeProbe",
                          ![c].seen = [missing |-> Tools \ installed[call[c].host], arch |-> a]]
    <3>1. PICK a \in {"known", "unknown"} :
               call' = [call EXCEPT ![c].pc = "storeProbe",
                          ![c].seen = [missing |-> Tools \ installed[call[c].host], arch |-> a]]
      BY <2>2
    <3> DEFINE reply == [missing |-> Tools \ installed[call[c].host], arch |-> a]
    <3>2. reply \in ProbeResult
      BY DEF ProbeResult
    <3>3. [call[c] EXCEPT !.pc = "storeProbe", !.seen = reply] \in Locals
      BY <1>0, <3>2 DEF Locals, Labels
    <3>4. call' = [call EXCEPT ![c] = [call[c] EXCEPT !.pc = "storeProbe", !.seen = reply]]
      BY <3>1
    <3>5. CallInv(c)'
      BY <1>0, <1>6, <3>2, <3>4
         DEF Probe, At, CallInv, ConnectLabels, ProvisionLabels, Locals
    <3>6. UNCHANGED <<maps, conns, remote, phase>>
      BY <1>6 DEF Probe
    <3>7. QED
      BY <3>3, <3>4, <3>5, <3>6, CallStepInv
  <2>3. QED
    BY <1>6, <2>1, <2>2 DEF Probe
<1>7. CASE SetProbeState(c)
  <2>1. MapInv'
    BY <1>0, <1>7
       DEF SetProbeState, At, MapInv, CallInv, ProbeCoversMissing, ConnectLabels
  <2>2. QED
    <3>1. CallInv(c)'
      BY <1>0, <1>7, <2>1, GotoEffect
         DEF SetProbeState, At, CallInv, ConnectLabels, ProvisionLabels, Locals, Labels
    <3>2. QED
      BY <1>0, <1>7, <2>1, <3>1, GotoEffect, StepInv DEF SetProbeState, Labels
<1>8. CASE CheckDir(c)
  <2>1. CASE call[c].host \in binDir /\ Goto(c, "storeDir")
    <3>1. CallInv(c)'
      BY <1>0, <1>8, <2>1, GotoEffect
         DEF CheckDir, At, CallInv, ConnectLabels, ProvisionLabels, Locals, Labels
    <3>2. QED
      BY <1>0, <1>8, <2>1, <3>1, GotoEffect, QuietStepInv DEF CheckDir, MapInv, Labels
  <2>2. CASE Return(c)
    <3>1. CallInv(c)'
      BY <1>0, <1>8, <2>2, ReturnEffect
         DEF CheckDir, CallInv, Idle, ConnectLabels, ProvisionLabels
    <3>2. QED
      BY <1>0, <1>8, <2>2, <3>1, ReturnEffect, QuietStepInv DEF CheckDir, MapInv
  <2>3. QED
    BY <1>8, <2>1, <2>2 DEF CheckDir
<1>9. CASE StoreDir(c)
  <2>1. MapInv'
    BY <1>0, <1>9 DEF StoreDir, At, MapInv, CallInv, ProbeCoversMissing
  <2>2. QED
    <3>1. CallInv(c)'
      BY <1>0, <1>9, <2>1, ReturnEffect
         DEF StoreDir, CallInv, Idle, ConnectLabels, ProvisionLabels
    <3>2. QED
      BY <1>0, <1>9, <2>1, <3>1, ReturnEffect, StepInv DEF StoreDir
<1>10. QED
  BY <1>1, <1>2, <1>3, <1>4, <1>5, <1>6, <1>7, <1>8, <1>9 DEF Connect

\* Every step of an Execute keeps the invariant.
LEMMA ExecuteStep ==
    ASSUME IndInv, NEW c \in Calls, Execute(c)
    PROVE  IndInv'
<1> USE DEF maps, remote
<1>0. /\ MapInv /\ call \in [Calls -> Locals] /\ CallInv(c)
      /\ call[c] \in Locals
  BY DEF IndInv
<1>1. CASE BeginExecute(c)
  <2>1. PICK h \in Hosts \cup {NoHost} :
           call' = [call EXCEPT ![c] = [Idle EXCEPT !.pc = "shell", !.host = h,
                                                    !.at = resolveHostForState(h)]]
    BY <1>1 DEF BeginExecute
  <2>2. resolveHostForState(h) \in Hosts \cup {NoHost}
    BY ResolveHostType
  <2>3. [Idle EXCEPT !.pc = "shell", !.host = h, !.at = resolveHostForState(h)] \in Locals
    BY <2>2, IdleType DEF Locals, Labels
  <2>4. CallInv(c)'
    BY <1>0, <2>1 DEF CallInv, Idle, ConnectLabels, ProvisionLabels
  <2>5. UNCHANGED <<maps, conns, remote, phase>>
    BY <1>1 DEF BeginExecute
  <2>6. QED
    BY <2>1, <2>3, <2>4, <2>5, CallStepInv
<1>2. CASE ParseAndValidate(c)
  <2>1. CASE Return(c)
    <3>1. CallInv(c)'
      BY <1>0, <1>2, <2>1, ReturnEffect
         DEF ParseAndValidate, CallInv, Idle, ConnectLabels, ProvisionLabels
    <3>2. QED
      BY <1>0, <1>2, <2>1, <3>1, ReturnEffect, QuietStepInv DEF ParseAndValidate, MapInv
  <2>2. CASE ~Return(c)
    <3> DEFINE sh == getShellType(call[c].at)
               next == IF sh = "bash" THEN "path" ELSE "runner"
    <3>1. call' = [call EXCEPT ![c] = [call[c] EXCEPT !.shell = sh, !.pc = next]]
      BY <1>2, <2>2 DEF ParseAndValidate
    <3>2. sh \in {"bash", "powershell"}
      BY SMTT(30) DEF getShellType, ShellOf
    <3>3. [call[c] EXCEPT !.shell = sh, !.pc = next] \in Locals
      <4>1. next \in Labels
        BY DEF Labels
      <4>2. QED
        BY <1>0, <3>2, <4>1, LocalsUpdate
    <3>4. CallInv(c)'
      BY <1>0, <1>2, <3>1
         DEF ParseAndValidate, At, CallInv, ConnectLabels, ProvisionLabels, Locals
    <3>5. UNCHANGED <<maps, conns, remote, phase>>
      BY <1>2 DEF ParseAndValidate
    <3>6. QED
      BY <3>1, <3>3, <3>4, <3>5, CallStepInv
  <2>3. QED
    BY <2>1, <2>2
<1>3. CASE ReadToolkit(c)
  <2> DEFINE prefixed == call[c].at \in Hosts /\ toolkit[call[c].at]
  <2>1. call' = [call EXCEPT ![c] = [call[c] EXCEPT !.pc = "runner", !.prefix = prefixed]]
    BY <1>3 DEF ReadToolkit
  <2>2. prefixed \in BOOLEAN
    BY <1>0 DEF MapInv
  <2>3. [call[c] EXCEPT !.pc = "runner", !.prefix = prefixed] \in Locals
    BY <1>0, <2>2, LocalsUpdate DEF Labels
  <2>4. prefixed => call[c].at \in binDir
    BY <1>0 DEF MapInv
  <2> HIDE DEF prefixed
  <2>5. CallInv(c)'
    BY <1>0, <1>3, <2>1, <2>4
       DEF ReadToolkit, At, CallInv, ConnectLabels, ProvisionLabels, Locals
  <2>6. UNCHANGED <<maps, conns, remote, phase>>
    BY <1>3 DEF ReadToolkit
  <2>7. QED
    BY <2>1, <2>3, <2>5, <2>6, CallStepInv
<1>4. CASE PickExecRunner(c)
  <2>1. resolveRunner(call[c].at) \in Transports
    BY <1>0, ResolveRunnerType
  <2>2. [call[c] EXCEPT !.pc = "dispatch", !.via = resolveRunner(call[c].at)] \in Locals
    BY <1>0, <2>1 DEF Locals, Labels
  <2>3. call' = [call EXCEPT ![c] = [call[c] EXCEPT !.pc = "dispatch",
                                                   !.via = resolveRunner(call[c].at)]]
    BY <1>4 DEF PickExecRunner
  <2>4. CallInv(c)'
    BY <1>0, <1>4, <2>3
       DEF PickExecRunner, At, CallInv, ConnectLabels, ProvisionLabels, Locals
  <2>5. UNCHANGED <<maps, conns, remote, phase>>
    BY <1>4 DEF PickExecRunner
  <2>6. QED
    BY <2>2, <2>3, <2>4, <2>5, CallStepInv
<1>5. CASE Dispatch(c)
  <2>1. CASE Return(c)
    <3>1. CallInv(c)'
      BY <1>0, <1>5, <2>1, ReturnEffect
         DEF Dispatch, CallInv, Idle, ConnectLabels, ProvisionLabels
    <3>2. QED
      BY <1>0, <1>5, <2>1, <3>1, ReturnEffect, QuietStepInv DEF Dispatch, MapInv
  <2>2. CASE ~Return(c)
    <3> DEFINE target == IF call[c].via = "local" /\ call[c].host = NoHost THEN NoHost
                         ELSE ResolveConnection(call[c].via, call[c].host)
    <3>1. call' = [call EXCEPT ![c] = [call[c] EXCEPT !.pc = "sent", !.on = target]]
      BY <1>5, <2>2 DEF Dispatch
    <3>2. call[c].host \in Hosts \cup {NoHost}
      BY <1>0 DEF Locals
    <3>3. target \in Hosts \cup {NoHost}
      BY <3>2, ResolveConnectionType, SMTT(30)
    <3>4. [call[c] EXCEPT !.pc = "sent", !.on = target] \in Locals
      BY <1>0, <3>3, LocalsUpdate DEF Labels
    <3>5. CallInv(c)'
      BY <1>0, <1>5, <3>1 DEF Dispatch, At, CallInv, ConnectLabels, ProvisionLabels, Locals
    <3>6. UNCHANGED <<maps, conns, remote, phase>>
      BY <1>5 DEF Dispatch
    <3>7. QED
      BY <3>1, <3>4, <3>5, <3>6, CallStepInv
  <2>3. QED
    BY <2>1, <2>2
<1>6. CASE FinishExecute(c)
  <2>1. CallInv(c)'
    BY <1>0, <1>6, ReturnEffect
       DEF FinishExecute, CallInv, Idle, ConnectLabels, ProvisionLabels
  <2>2. QED
    BY <1>0, <1>6, <2>1, ReturnEffect, QuietStepInv DEF FinishExecute, MapInv
<1>7. QED
  BY <1>1, <1>2, <1>3, <1>4, <1>5, <1>6 DEF Execute

\* Every step of a Provision keeps the invariant.
LEMMA ProvisionStep ==
    ASSUME IndInv, NEW c \in Calls, Provision(c)
    PROVE  IndInv'
<1> USE DEF maps, remote
<1>0. /\ MapInv /\ call \in [Calls -> Locals] /\ CallInv(c)
      /\ call[c] \in Locals
  BY DEF IndInv
<1>1. CASE BeginProvision(c)
  <2>1. PICK h \in Hosts \cup {NoHost} :
           /\ resolveProvisionHost(h) # NoHost
           /\ call' = [call EXCEPT ![c] = [Idle EXCEPT !.pc = "readProbe", !.host = h,
                                                       !.at = resolveProvisionHost(h)]]
    BY <1>1 DEF BeginProvision
  <2>2. resolveProvisionHost(h) \in Hosts
    BY <2>1, ResolveProvisionType
  <2>3. [Idle EXCEPT !.pc = "readProbe", !.host = h, !.at = resolveProvisionHost(h)] \in Locals
    BY <2>2, IdleType DEF Locals, Labels
  <2>4. CallInv(c)'
    BY <1>0, <2>1, <2>2 DEF CallInv, Idle, ConnectLabels, ProvisionLabels
  <2>5. UNCHANGED <<maps, conns, remote, phase>>
    BY <1>1 DEF BeginProvision
  <2>6. QED
    BY <2>1, <2>3, <2>4, <2>5, CallStepInv
<1>2. CASE GetProbeState(c)
  <2> DEFINE p == probe[call[c].at]
  <2>0. call[c].at \in Hosts /\ p \in ProbeResult \cup {NoProbe}
    BY <1>0, <1>2, SMTT(30) DEF GetProbeState, At, CallInv, MapInv, ProvisionLabels
  <2>1. CASE p = NoProbe
    <3>1. Goto(c, "claimed")
      BY <1>2, <2>1 DEF GetProbeState
    <3>2. call[c].seen = NoProbe
      BY <1>0, <1>2, SMTT(30) DEF GetProbeState, At, CallInv
    <3>3. CallInv(c)'
      BY <1>0, <1>2, <2>0, <3>1, <3>2, GotoEffect
         DEF GetProbeState, At, CallInv, ConnectLabels, ProvisionLabels, Labels
    <3>4. QED
      BY <1>0, <1>2, <3>1, <3>3, GotoEffect, QuietStepInv DEF GetProbeState, MapInv, Labels
  <2>2. CASE p # NoProbe /\ Return(c)
    <3>1. CallInv(c)'
      BY <1>0, <1>2, <2>2, ReturnEffect
         DEF GetProbeState, CallInv, Idle, ConnectLabels, ProvisionLabels
    <3>2. QED
      BY <1>0, <1>2, <2>2, <3>1, ReturnEffect, QuietStepInv DEF GetProbeState, MapInv
  <2>3. CASE p # NoProbe /\ p.missing = {} /\ call' = [call EXCEPT ![c].pc = "claimed", ![c].seen = p]
    <3>1. call' = [call EXCEPT ![c] = [call[c] EXCEPT !.pc = "claimed", !.seen = p]]
      BY <2>3
    <3>2. [call[c] EXCEPT !.pc = "claimed", !.seen = p] \in Locals
      BY <1>0, <2>0 DEF Locals, Labels
    <3>3. installed[call[c].at] = Tools
      BY <1>0, <2>0, <2>3 DEF MapInv, ProbeCoversMissing
    <3>4. CallInv(c)'
      BY <1>0, <1>2, <2>0, <3>1, <3>3
         DEF GetProbeState, At, CallInv, ConnectLabels, ProvisionLabels, Locals
    <3>5. UNCHANGED <<maps, conns, remote, phase>>
      BY <1>2 DEF GetProbeState
    <3>6. QED
      BY <3>1, <3>2, <3>4, <3>5, CallStepInv
  <2>4. CASE p # NoProbe /\ call' = [call EXCEPT ![c].pc = "sftp", ![c].seen = p]
    <3>1. call' = [call EXCEPT ![c] = [call[c] EXCEPT !.pc = "sftp", !.seen = p]]
      BY <2>4
    <3>2. [call[c] EXCEPT !.pc = "sftp", !.seen = p] \in Locals
      BY <1>0, <2>0 DEF Locals, Labels
    <3>3. CallInv(c)'
      BY <1>0, <1>2, <2>0, <2>4, <3>1
         DEF GetProbeState, At, CallInv, ConnectLabels, ProvisionLabels, Locals
    <3>4. UNCHANGED <<maps, conns, remote, phase>>
      BY <1>2 DEF GetProbeState
    <3>5. QED
      BY <3>1, <3>2, <3>3, <3>4, CallStepInv
  <2>5. QED
    BY <1>2, <2>1, <2>2, <2>3, <2>4 DEF GetProbeState
<1>3. CASE SFTPSession(c)
  <2>1. CASE Goto(c, "mkdir")
    <3>1. CallInv(c)'
      BY <1>0, <1>3, <2>1, GotoEffect
         DEF SFTPSession, At, CallInv, ConnectLabels, ProvisionLabels, Locals, Labels
    <3>2. QED
      BY <1>0, <1>3, <2>1, <3>1, GotoEffect, QuietStepInv DEF SFTPSession, MapInv, Labels
  <2>2. CASE Return(c)
    <3>1. CallInv(c)'
      BY <1>0, <1>3, <2>2, ReturnEffect
         DEF SFTPSession, CallInv, Idle, ConnectLabels, ProvisionLabels
    <3>2. QED
      BY <1>0, <1>3, <2>2, <3>1, ReturnEffect, QuietStepInv DEF SFTPSession, MapInv
  <2>3. QED
    BY <1>3, <2>1, <2>2 DEF SFTPSession
<1>4. CASE MkdirRemote(c)
  <2>1. CASE binDir' = binDir \cup {call[c].at} /\ Goto(c, "upload")
    <3>1. MapInv'
      BY <1>0, <1>4, <2>1
         DEF MkdirRemote, At, MapInv, CallInv, ProvisionLabels, ProbeCoversMissing
    <3>2. QED
      <4>1. CallInv(c)'
        BY <1>0, <1>4, <2>1, <3>1, GotoEffect
           DEF MkdirRemote, At, CallInv, ConnectLabels, ProvisionLabels, Locals, Labels
      <4>2. QED
        BY <1>0, <1>4, <2>1, <3>1, <4>1, GotoEffect, StepInv DEF MkdirRemote, Labels
  <2>2. CASE Return(c) /\ UNCHANGED binDir
    <3>1. CallInv(c)'
      BY <1>0, <1>4, <2>2, ReturnEffect
         DEF MkdirRemote, CallInv, Idle, ConnectLabels, ProvisionLabels
    <3>2. QED
      BY <1>0, <1>4, <2>2, <3>1, ReturnEffect, QuietStepInv DEF MkdirRemote, MapInv
  <2>3. QED
    BY <1>4, <2>1, <2>2 DEF MkdirRemote
<1>5. CASE UploadTools(c)
  <2>1. PICK uploaded \in SUBSET call[c].seen.missing :
           installed' = [installed EXCEPT ![call[c].at] = @ \cup uploaded]
    BY <1>5 DEF UploadTools
  <2>2. uploaded \subseteq Tools /\ call[c].at \in Hosts
    BY <1>0, <1>5 DEF UploadTools, At, CallInv, ProbeResult, ProvisionLabels
  <2>3. installed' \in [Hosts -> SUBSET Tools] /\ \A h \in Hosts : installed[h] \subseteq installed'[h]
    BY <1>0, <2>1, <2>2 DEF MapInv
  <2>4. MapInv'
    BY <1>0, <1>5, <2>3 DEF UploadTools, MapInv, ProbeCoversMissing
  <2>5. CallInv(c)'
    BY <1>0, <1>5, GotoEffect
       DEF UploadTools, At, CallInv, ConnectLabels, ProvisionLabels, Locals, Labels
  <2>6. QED
    BY <1>0, <1>5, <2>3, <2>4, <2>5, GotoEffect, StepInv DEF UploadTools, Labels
<1>6. CASE StoreDeployed(c)
  <2>1. MapInv'
    BY <1>0, <1>6 DEF StoreDeployed, At, MapInv, CallInv, ProbeCoversMissing
  <2>2. QED
    <3>1. CallInv(c)'
      BY <1>0, <1>6, <2>1, GotoEffect
         DEF StoreDeployed, At, CallInv, ConnectLabels, ProvisionLabels, Locals, Labels
    <3>2. QED
      BY <1>0, <1>6, <2>1, <3>1, GotoEffect, StepInv DEF StoreDeployed, Labels
<1>7. CASE DropProbe(c)
  <2>1. MapInv'
    BY <1>0, <1>7 DEF DropProbe, MapInv, ProbeCoversMissing
  <2>2. QED
    <3>1. CallInv(c)'
      BY <1>0, <1>7, <2>1, ReturnEffect
         DEF DropProbe, CallInv, Idle, ConnectLabels, ProvisionLabels
    <3>2. QED
      BY <1>0, <1>7, <2>1, <3>1, ReturnEffect, StepInv DEF DropProbe
<1>8. CASE FinishClaim(c)
  <2>1. CallInv(c)'
    BY <1>0, <1>8, ReturnEffect
       DEF FinishClaim, CallInv, Idle, ConnectLabels, ProvisionLabels
  <2>2. QED
    BY <1>0, <1>8, <2>1, ReturnEffect, QuietStepInv DEF FinishClaim, MapInv
<1>9. QED
  BY <1>1, <1>2, <1>3, <1>4, <1>5, <1>6, <1>7, <1>8 DEF Provision

\* clearHostState keeps the invariant of the maps: it only removes.
LEMMA ClearInv ==
    ASSUME MapInv, NEW h, clearHostState(h), UNCHANGED <<conns, binDir, installed>>,
           phase' \in {"serving", "closing", "returned"}
    PROVE  MapInv'
<1>1. /\ servers' \in [Hosts -> Transports \cup {"absent"}]
      /\ probe' \in [Hosts -> ProbeResult \cup {NoProbe}]
      /\ toolkit' \in [Hosts -> BOOLEAN]
  BY DEF clearHostState, MapInv
<1>2. \A x \in Hosts : toolkit'[x] => toolkit[x]
  BY DEF clearHostState
<1>3. \A x \in Hosts : probe'[x] # NoProbe => probe'[x] = probe[x]
  BY DEF clearHostState
<1>4. QED
  BY <1>1, <1>2, <1>3 DEF MapInv, ProbeCoversMissing

\* Every step of a Disconnect or of Close keeps the invariant.
LEMMA DisconnectStep ==
    ASSUME IndInv, NEW c \in Calls, Disconnect(c) \/ Close(c)
    PROVE  IndInv'
<1> USE DEF maps, remote
<1>0. /\ MapInv /\ call \in [Calls -> Locals] /\ CallInv(c)
      /\ call[c] \in Locals
  BY DEF IndInv
<1>1. CASE BeginDisconnect(c)
  <2>1. PICK h \in Hosts \cup {NoHost} :
           call' = [call EXCEPT ![c] = [Idle EXCEPT !.pc = "drop", !.host = h,
                                                    !.via = resolveRunner(h)]]
    BY <1>1 DEF BeginDisconnect
  <2>2. resolveRunner(h) \in Transports
    BY <1>0, ResolveRunnerType
  <2>3. [Idle EXCEPT !.pc = "drop", !.host = h, !.via = resolveRunner(h)] \in Locals
    BY <2>2, IdleType DEF Locals, Labels
  <2>4. CallInv(c)'
    BY <1>0, <2>1 DEF CallInv, Idle, ConnectLabels, ProvisionLabels
  <2>5. UNCHANGED <<maps, conns, remote, phase>>
    BY <1>1 DEF BeginDisconnect
  <2>6. QED
    BY <2>1, <2>3, <2>4, <2>5, CallStepInv
<1>2. CASE RunnerDisconnect(c)
  <2>1. conns' \subseteq Transports \X Hosts
    BY <1>0, <1>2 DEF RunnerDisconnect, DropClients, MapInv
  <2>2. QED
    <3>1. CallInv(c)'
      BY <1>0, <1>2, <2>1, GotoEffect
         DEF RunnerDisconnect, At, CallInv, ConnectLabels, ProvisionLabels, Locals, Labels
    <3>2. QED
      BY <1>0, <1>2, <2>1, <3>1, GotoEffect, QuietStepInv DEF RunnerDisconnect, MapInv, Labels
<1>3. CASE ClearDisconnected(c)
  <2>1. MapInv'
    BY <1>0, <1>3, ClearInv DEF ClearDisconnected, MapInv
  <2>2. QED
    <3>1. CallInv(c)'
      BY <1>0, <1>3, <2>1, ReturnEffect
         DEF ClearDisconnected, CallInv, Idle, ConnectLabels, ProvisionLabels
    <3>2. QED
      BY <1>0, <1>3, <2>1, <3>1, ReturnEffect, StepInv DEF ClearDisconnected
<1>4. CASE BeginClose(c)
  <2>1. CallInv(c)'
    BY <1>0, <1>4, GotoEffect
       DEF BeginClose, Begin, At, CallInv, ConnectLabels, ProvisionLabels, Locals, Labels
  <2>2. QED
    BY <1>0, <1>4, <2>1, GotoEffect, QuietStepInv DEF BeginClose, Begin, MapInv, Labels
<1>5. ASSUME NEW label \in {"closeSSH", "closeLocal", "closeWinRM"}, NEW r,
             NEW next \in {"closeLocal", "closeWinRM", "closeClear"},
             CloseRunner(c, label, r, next)
      PROVE  IndInv'
  <2>1. conns' \subseteq Transports \X Hosts
    BY <1>0, <1>5 DEF CloseRunner, DropClients, MapInv
  <2>2. next \in Labels
    BY DEF Labels
  <2>3. CallInv(c)'
    BY <1>0, <1>5, <2>2, GotoEffect
       DEF CloseRunner, At, CallInv, ConnectLabels, ProvisionLabels
  <2>4. QED
    BY <1>0, <1>5, <2>1, <2>2, <2>3, GotoEffect, QuietStepInv DEF CloseRunner, MapInv
<1>6. CASE CloseSSH(c) \/ CloseLocal(c) \/ CloseWinRM(c)
  BY <1>5, <1>6 DEF CloseSSH, CloseLocal, CloseWinRM
<1>7. CASE CloseClear(c)
  <2>1. MapInv'
    BY <1>0, <1>7, ClearInv DEF CloseClear, MapInv
  <2>2. QED
    <3>1. CallInv(c)'
      BY <1>0, <1>7, <2>1, ReturnEffect
         DEF CloseClear, CallInv, Idle, ConnectLabels, ProvisionLabels
    <3>2. QED
      BY <1>0, <1>7, <2>1, <3>1, ReturnEffect, StepInv DEF CloseClear
<1>8. QED
  BY <1>1, <1>2, <1>3, <1>4, <1>6, <1>7 DEF Disconnect, Close

\* A stuttering step changes nothing.
LEMMA StutterStep ==
    ASSUME IndInv, UNCHANGED vars
    PROVE  IndInv'
BY DEF IndInv, MapInv, CallInv, ProbeCoversMissing, vars, maps, remote, history

-----------------------------------------------------------------------------

\* IndInv is an inductive invariant of Core.
THEOREM CoreInvariant == Spec => []IndInv
<1>1. Init => IndInv
  BY InitIndInv
<1>2. IndInv /\ [Next]_vars => IndInv'
  BY ConnectStep, ExecuteStep, ProvisionStep, DisconnectStep, StutterStep DEF Next
<1>3. QED
  BY <1>1, <1>2, PTL DEF Spec

\* The toolkit directory is on a command's PATH only where it exists: a flag
\* set late, by a call that others have overtaken, is still true of the host.
THEOREM ToolkitPath == Spec => []ToolkitPathExists
<1>1. IndInv => ToolkitPathExists
  BY DEF IndInv, MapInv, CallInv, ToolkitPathExists
<1>2. QED
  BY <1>1, CoreInvariant, PTL

\* A stored probe result names every tool the host lacks.
THEOREM ProbeComplete == Spec => []ProbeCoversMissing
<1>1. IndInv => ProbeCoversMissing
  BY DEF IndInv, MapInv
<1>2. QED
  BY <1>1, CoreInvariant, PTL

\* "All toolkit tools are already available", read off a stored probe, is true.
THEOREM ClaimTrue == Spec => []ClaimFromProbeIsTrue
<1>1. IndInv => ClaimFromProbeIsTrue
  BY DEF IndInv, CallInv, ClaimFromProbeIsTrue, At
<1>2. QED
  BY <1>1, CoreInvariant, PTL

-----------------------------------------------------------------------------
(* The registry, the runners and what a call read earlier.                 *)
(*                                                                         *)
(* Each part of AgreeInv says what a call holds on to between two of its   *)
(* steps as long as no other call has overtaken it, and what the maps owe  *)
(* to a Disconnect or a Close that has dropped clients and not cleared yet. *)

ExecuteLabels == {"shell", "path", "runner", "dispatch", "sent"}
CloseLabels == {"closeSSH", "closeLocal", "closeWinRM", "closeClear"}

\* The call at q is about to clear the entry of h.
Clearing(q, h) ==
    \/ q.pc = "clear" /\ q.host \in {NoHost, h}
    \/ q.pc \in {"closeLocal", "closeWinRM", "closeClear"}

HistoryTyped ==
    /\ overtaken \subseteq Calls
    /\ hollow \subseteq Hosts
    /\ unlisted \subseteq Hosts
    /\ late \subseteq conns

\* WinRM is only ever used where Core has a WinRM runner.
WinRMFits ==
    /\ \A h \in Hosts : servers[h] = "winrm" => HasWinRM
    /\ \A x \in conns : x[1] = "winrm" => HasWinRM
    /\ \A c \in Calls : call[c].pc \in ConnectLabels /\ call[c].via = "winrm" => HasWinRM

\* An entry has its client, or is about to be cleared; so has a connect that
\* is about to make the entry.
EntriesFit ==
    /\ \A h \in Hosts \ hollow : servers[h] \in {"ssh", "winrm"} =>
           <<servers[h], h>> \in conns \/ \E d \in Calls : Clearing(call[d], h)
    /\ \A c \in Calls \ overtaken : call[c].pc = "register" /\ call[c].via # "local" =>
           <<call[c].via, call[c].host>> \in conns

\* The dialect a command was validated for is still that of its host.
DialectFits(c) ==
    /\ call[c].pc \in {"path", "runner"} => call[c].shell = getShellType(call[c].at)
    /\ call[c].pc \in {"dispatch", "sent"} => call[c].shell = ShellOf(call[c].via)

\* How far Close has come.
CloseFits ==
    /\ \A c \in Calls : call[c].pc \in CloseLabels => phase = "closing"
    /\ \A c, d \in Calls : call[c].pc \in CloseLabels /\ call[d].pc \in CloseLabels => c = d
    /\ \A c \in Calls, x \in conns \ late :
           /\ call[c].pc \in {"closeLocal", "closeWinRM", "closeClear"} => x[1] # "ssh"
           /\ call[c].pc \in {"closeWinRM", "closeClear"} => x[1] # "local"
           /\ call[c].pc # "closeClear"
    /\ phase = "returned" => conns \subseteq late

AgreeInv ==
    /\ HistoryTyped
    /\ WinRMFits
    /\ NoStateWithoutEntry
    /\ EntriesFit
    /\ \A c \in Calls \ overtaken : DialectFits(c)
    /\ CloseFits

-----------------------------------------------------------------------------

\* Goto leaves the call's locals alone.
LEMMA GotoKeeps ==
    ASSUME call \in [Calls -> Locals], NEW c \in Calls, NEW label \in Labels, Goto(c, label)
    PROVE  /\ call'[c].pc = label
           /\ call'[c].host = call[c].host /\ call'[c].at = call[c].at
           /\ call'[c].via = call[c].via /\ call'[c].shell = call[c].shell
           /\ \A d \in Calls \ {c} : call'[d] = call[d]
<1>1. call'[c] = [call[c] EXCEPT !.pc = label] /\ \A d \in Calls \ {c} : call'[d] = call[d]
  BY DEF Goto
<1>2. call[c] \in Locals
  OBVIOUS
<1>3. QED
  BY <1>1, <1>2 DEF Locals

\* A call that has returned holds nothing.
LEMMA IdleAgrees ==
    ASSUME call \in [Calls -> Locals], NEW c \in Calls, Return(c)
    PROVE  /\ call'[c].pc = "idle"
           /\ \A d \in Calls \ {c} : call'[d] = call[d]
           /\ DialectFits(c)'
BY ReturnEffect DEF Idle, DialectFits

\* A step of c that changes neither the registry nor the runners.
LEMMA QuietAgree ==
    ASSUME IndInv, AgreeInv, NEW c \in Calls,
           \A d \in Calls \ {c} : call'[d] = call[d],
           UNCHANGED <<servers, conns, phase, overtaken, hollow, late>>,
           unlisted' \subseteq Hosts,
           NoStateWithoutEntry',
           call[c].pc \notin CloseLabels \cup {"clear"},
           call'[c].pc \notin CloseLabels,
           call'[c].pc = "register" => call'[c].via = "local",
           call'[c].pc \in ConnectLabels /\ call'[c].via = "winrm" => HasWinRM,
           c \notin overtaken => DialectFits(c)'
    PROVE  AgreeInv'
<1>1. HistoryTyped'
  BY DEF AgreeInv, HistoryTyped
<1>2. WinRMFits'
  BY DEF AgreeInv, WinRMFits
<1>3. EntriesFit'
  <2>1. \A d \in Calls, h \in Hosts : Clearing(call[d], h) => d # c
    BY DEF Clearing, CloseLabels
  <2>2. \A d \in Calls, h \in Hosts : Clearing(call[d], h) => Clearing(call'[d], h)
    BY <2>1
  <2>3. QED
    BY <2>2 DEF AgreeInv, EntriesFit
<1>4. \A d \in Calls \ overtaken' : DialectFits(d)'
  BY DEF AgreeInv, DialectFits, getShellType, getTransport, ConnectedHostsSnapshot
<1>5. CloseFits'
  BY SMTT(30) DEF AgreeInv, CloseFits, CloseLabels
<1>6. QED
  BY <1>1, <1>2, <1>3, <1>4, <1>5 DEF AgreeInv

\* The first step of a call.
LEMMA BeginAgrees ==
    ASSUME IndInv, AgreeInv, NEW c \in Calls,
           BeginConnect(c) \/ BeginExecute(c) \/ BeginProvision(c) \/ BeginDisconnect(c)
    PROVE  AgreeInv'
<1> USE DEF maps, history
<1>1. call \in [Calls -> Locals] /\ call[c].pc = "idle"
  BY Zenon DEF IndInv, BeginConnect, BeginExecute, BeginProvision, BeginDisconnect, Begin, At
<1>2. /\ UNCHANGED <<servers, probe, toolkit, conns, phase, overtaken, hollow, unlisted, late>>
  BY DEF BeginConnect, BeginExecute, BeginProvision, BeginDisconnect
<1>3. NoStateWithoutEntry' /\ unlisted' \subseteq Hosts
  BY <1>2 DEF AgreeInv, NoStateWithoutEntry, HistoryTyped
<1>4. CASE BeginConnect(c)
  <2>1. PICK h \in Hosts, t \in Transports, first \in {"dial", "register"} :
           /\ t = "winrm" => HasWinRM
           /\ first = "register" => t = "local"
           /\ call' = [call EXCEPT ![c] = [Idle EXCEPT !.pc = first, !.host = h, !.via = t]]
    BY <1>4 DEF BeginConnect
  <2>2. call'[c].pc = first /\ call'[c].via = t /\ \A d \in Calls \ {c} : call'[d] = call[d]
    BY <1>1, <2>1 DEF Idle
  <2>3. QED
    BY <1>1, <1>2, <1>3, <2>1, <2>2, QuietAgree DEF DialectFits, CloseLabels
<1>5. CASE ~BeginConnect(c)
  <2>1. call'[c].pc \in {"shell", "readProbe", "drop"} /\ \A d \in Calls \ {c} : call'[d] = call[d]
    BY <1>1, <1>5 DEF BeginExecute, BeginProvision, BeginDisconnect, Idle
  <2>2. QED
    BY <1>1, <1>2, <1>3, <2>1, QuietAgree DEF DialectFits, CloseLabels, ConnectLabels
<1>6. QED
  BY <1>4, <1>5

\* The steps of a Connect after setConnected.
LEMMA ProbingAgrees ==
    ASSUME IndInv, AgreeInv, NEW c \in Calls,
           \/ ResetToolkit(c) \/ ResetProbe(c) \/ Probe(c) \/ SetProbeState(c)
           \/ CheckDir(c) \/ StoreDir(c)
    PROVE  AgreeInv'
<1> USE DEF maps, history
<1>0. /\ call \in [Calls -> Locals] /\ CallInv(c) /\ MapInv
      /\ NoStateWithoutEntry /\ unlisted \subseteq Hosts
      /\ call[c].via = "winrm" /\ call[c].pc \in ConnectLabels => HasWinRM
  BY DEF IndInv, AgreeInv, HistoryTyped, WinRMFits
<1>1. call[c].pc \in ConnectLabels \ {"dial", "register"}
  BY DEF ResetToolkit, ResetProbe, Probe, SetProbeState, CheckDir, StoreDir, At, ConnectLabels
<1>2. UNCHANGED <<servers, conns, phase, overtaken, hollow, late>>
  BY DEF ResetToolkit, ResetProbe, Probe, SetProbeState, CheckDir, StoreDir
<1>3. call[c].host \in Hosts
  BY <1>0, <1>1 DEF CallInv
<1>4. unlisted' \subseteq Hosts /\ NoStateWithoutEntry'
  <2>1. CASE ResetToolkit(c) \/ ResetProbe(c) \/ Probe(c) \/ CheckDir(c)
    BY <1>0, <1>3, <2>1 DEF ResetToolkit, ResetProbe, Probe, CheckDir, NoStateWithoutEntry, MapInv
  <2>2. CASE SetProbeState(c)
    <3>1. probe' = [probe EXCEPT ![call[c].host] = call[c].seen] /\ UNCHANGED <<servers, toolkit>>
          /\ unlisted' = IF servers[call[c].host] = "absent" THEN unlisted \cup {call[c].host} ELSE unlisted
      BY <2>2 DEF SetProbeState, NoteStored
    <3>2. \A h \in Hosts : h # call[c].host => probe'[h] = probe[h]
      BY <1>0, <3>1 DEF MapInv
    <3>3. QED
      BY <1>0, <1>3, <3>1, <3>2 DEF NoStateWithoutEntry
  <2>3. CASE StoreDir(c)
    <3>1. toolkit' = [toolkit EXCEPT ![call[c].host] = TRUE] /\ UNCHANGED <<servers, probe>>
          /\ unlisted' = IF servers[call[c].host] = "absent" THEN unlisted \cup {call[c].host} ELSE unlisted
      BY <2>3 DEF StoreDir, NoteStored
    <3>2. \A h \in Hosts : h # call[c].host => toolkit'[h] = toolkit[h]
      BY <1>0, <3>1 DEF MapInv
    <3>3. QED
      BY <1>0, <1>3, <3>1, <3>2 DEF NoStateWithoutEntry
  <2>4. QED
    BY <2>1, <2>2, <2>3
<1>5. ASSUME Return(c) PROVE AgreeInv'
  BY <1>0, <1>1, <1>2, <1>4, <1>5, IdleAgrees, QuietAgree DEF ConnectLabels, CloseLabels
<1>6. ASSUME NEW label \in ConnectLabels \ {"dial", "register"},
             call'[c].pc = label, call'[c].via = call[c].via, \A d \in Calls \ {c} : call'[d] = call[d]
      PROVE  AgreeInv'
  BY <1>0, <1>1, <1>2, <1>4, <1>6, QuietAgree DEF ConnectLabels, CloseLabels, DialectFits
<1>7. ASSUME NEW label \in ConnectLabels \ {"dial", "register"}, Goto(c, label) PROVE AgreeInv'
  BY <1>0, <1>6, <1>7, GotoKeeps DEF ConnectLabels, Labels
<1>8. CASE Probe(c) /\ ~Goto(c, "checkDir")
  <2>1. PICK a \in {"known", "unknown"} :
           call' = [call EXCEPT ![c].pc = "storeProbe",
                      ![c].seen = [missing |-> Tools \ installed[call[c].host], arch |-> a]]
    BY <1>8 DEF Probe
  <2>2. /\ call'[c].pc = "storeProbe" /\ call'[c].via = call[c].via
        /\ \A d \in Calls \ {c} : call'[d] = call[d]
    BY <1>0, <2>1 DEF Locals
  <2>3. QED
    BY <1>6, <2>2 DEF ConnectLabels
<1>9. QED
  BY <1>5, <1>7, <1>8 DEF ResetToolkit, ResetProbe, Probe, SetProbeState, CheckDir, StoreDir, ConnectLabels

\* The runner's Connect adds a client, and the connect that dialled it holds on
\* to it.
LEMMA DialAgrees ==
    ASSUME IndInv, AgreeInv, NEW c \in Calls, RunnerConnect(c)
    PROVE  AgreeInv'
<1>0. /\ call \in [Calls -> Locals] /\ CallInv(c) /\ MapInv /\ HistoryTyped /\ WinRMFits
      /\ NoStateWithoutEntry /\ EntriesFit /\ CloseFits /\ \A d \in Calls \ overtaken : DialectFits(d)
      /\ call[c].pc = "dial" /\ UNCHANGED <<servers, probe, toolkit, phase, overtaken, hollow, unlisted>>
  BY DEF IndInv, AgreeInv, RunnerConnect, At, maps
<1>1. NoStateWithoutEntry' /\ unlisted' \subseteq Hosts
  BY <1>0 DEF NoStateWithoutEntry, HistoryTyped
<1>2. CASE Return(c) /\ UNCHANGED <<conns, late>>
  BY <1>0, <1>1, <1>2, IdleAgrees, QuietAgree DEF ConnectLabels, CloseLabels
<1>3. CASE StoreClient(c) /\ Goto(c, "register")
  <2> DEFINE client == <<call[c].via, call[c].host>>
  <2>1. /\ conns' = conns \cup {client}
        /\ late' = IF phase = "serving" THEN late ELSE late \cup {client}
    BY <1>3 DEF StoreClient
  <2>2. /\ call'[c].pc = "register" /\ call'[c].host = call[c].host /\ call'[c].via = call[c].via
        /\ \A d \in Calls \ {c} : call'[d] = call[d]
    BY <1>0, <1>3, GotoKeeps DEF Labels
  <2>3. call[c].via = "winrm" => HasWinRM
    BY <1>0 DEF WinRMFits, ConnectLabels
  <2>4. HistoryTyped'
    BY <1>0, <2>1 DEF HistoryTyped
  <2>5. WinRMFits'
    BY <1>0, <2>1, <2>2, <2>3 DEF WinRMFits
  <2>6. EntriesFit'
    <3>1. \A d \in Calls, h \in Hosts : Clearing(call[d], h) => Clearing(call'[d], h)
      BY <1>0, <2>2 DEF Clearing
    <3>2. QED
      BY <1>0, <2>1, <2>2, <3>1 DEF EntriesFit
  <2>7. \A d \in Calls \ overtaken' : DialectFits(d)'
    BY <1>0, <2>2 DEF DialectFits, getShellType, getTransport, ConnectedHostsSnapshot
  <2>8. CloseFits'
    <3>1. call'[c].pc \notin CloseLabels
      BY <2>2 DEF CloseLabels
    <3>2. \A d \in Calls : call'[d].pc \in CloseLabels => call'[d] = call[d] /\ phase = "closing"
      BY <1>0, <2>2, <3>1 DEF CloseFits
    <3>3. phase # "serving" => conns' \ late' \subseteq conns \ late
      BY <2>1
    <3>4. QED
      BY <1>0, <2>1, <3>2, <3>3 DEF CloseFits, CloseLabels
  <2>9. QED
    BY <1>1, <2>4, <2>5, <2>6, <2>7, <2>8 DEF AgreeInv
<1>4. QED
  BY <1>2, <1>3 DEF RunnerConnect
\* Nobody but c is disturbed by what c writes into the entry of a host: an
\* Execute that reads it in between has been overtaken.
LEMMA ReadersKept ==
    ASSUME AgreeInv, NEW c \in Calls, NEW hs \in SUBSET Hosts,
           \A d \in Calls \ {c} : call'[d] = call[d],
           \A h \in Hosts \ hs : servers'[h] = servers[h],
           overtaken \cup Reading(hs) \subseteq overtaken' \cup {c},
           NEW d \in Calls \ overtaken', d # c
    PROVE  DialectFits(d)'
<1>1. d \notin overtaken /\ d \notin Reading(hs) /\ call'[d] = call[d]
  OBVIOUS
<1>2. call[d].pc \in {"path", "runner"} => call[d].at \notin hs
  BY <1>1 DEF Reading
<1>3. call[d].pc \in {"path", "runner"} => getShellType(call[d].at)' = getShellType(call[d].at)
  BY <1>1, <1>2 DEF getShellType, getTransport, ConnectedHostsSnapshot
<1>4. QED
  BY <1>1, <1>3 DEF AgreeInv, DialectFits

\* The connect enters its host: with its client, unless it has been overtaken.
LEMMA EnterAgrees ==
    ASSUME IndInv, AgreeInv, NEW c \in Calls, SetConnected(c)
    PROVE  AgreeInv'
<1> DEFINE h == call[c].host
           t == call[c].via
<1>0. /\ call \in [Calls -> Locals] /\ CallInv(c) /\ MapInv /\ HistoryTyped /\ WinRMFits
      /\ NoStateWithoutEntry /\ EntriesFit /\ CloseFits
      /\ call[c].pc = "register" /\ UNCHANGED <<probe, toolkit, conns, phase, late>>
      /\ servers' = [servers EXCEPT ![h] = t]
      /\ overtaken' = (overtaken \cup Reading({h})) \ {c}
      /\ hollow' = IF c \in overtaken THEN hollow \cup {h} ELSE hollow \ {h}
      /\ unlisted' = unlisted \ {h}
  BY DEF IndInv, AgreeInv, SetConnected, At
<1>1. h \in Hosts /\ t \in Transports /\ (t = "winrm" => HasWinRM) /\ t # "absent"
  BY <1>0 DEF CallInv, ConnectLabels, Locals, WinRMFits, Transports
<1>2. \A x \in Hosts : servers'[x] = IF x = h THEN t ELSE servers[x]
  BY <1>0 DEF MapInv
<1>3. /\ \A d \in Calls \ {c} : call'[d] = call[d]
      /\ call'[c].pc \in {"resetToolkit", "idle"}
      /\ call'[c].pc = "resetToolkit" => call'[c].via = call[c].via
  BY <1>0, GotoKeeps, IdleAgrees DEF SetConnected, Labels
<1> HIDE DEF h, t
<1>4. HistoryTyped'
  BY <1>0, <1>1 DEF HistoryTyped, Reading
<1>5. WinRMFits'
  BY <1>0, <1>1, <1>2, <1>3 DEF WinRMFits, ConnectLabels, t
<1>6. NoStateWithoutEntry'
  BY <1>0, <1>1, <1>2 DEF NoStateWithoutEntry
<1>7. EntriesFit'
  <2>1. \A d \in Calls, x \in Hosts : Clearing(call[d], x) => Clearing(call'[d], x)
    BY <1>0, <1>3 DEF Clearing
  <2>2. c \notin overtaken /\ t # "local" => <<t, h>> \in conns
    BY <1>0 DEF EntriesFit, t, h
  <2>3. ASSUME NEW x \in Hosts \ hollow', servers'[x] \in {"ssh", "winrm"}
        PROVE  <<servers'[x], x>> \in conns' \/ \E d \in Calls : Clearing(call'[d], x)
    <3>1. CASE x = h
      BY <1>0, <1>1, <1>2, <2>2, <2>3, <3>1
    <3>2. CASE x # h
      BY <1>0, <1>2, <2>1, <2>3, <3>2 DEF EntriesFit
    <3>3. QED
      BY <3>1, <3>2
  <2>4. ASSUME NEW d \in Calls \ overtaken', call'[d].pc = "register", call'[d].via # "local"
        PROVE  <<call'[d].via, call'[d].host>> \in conns'
    BY <1>0, <1>3, <2>4 DEF EntriesFit
  <2>5. QED
    BY <2>3, <2>4 DEF EntriesFit
<1>8. \A d \in Calls \ overtaken' : DialectFits(d)'
  <2>1. DialectFits(c)'
    BY <1>3 DEF DialectFits
  <2>2. \A x \in Hosts \ {h} : servers'[x] = servers[x]
    BY <1>2
  <2>3. overtaken \cup Reading({h}) \subseteq overtaken' \cup {c}
    BY <1>0
  <2>4. QED
    BY <1>1, <1>3, <2>1, <2>2, <2>3, ReadersKept
<1>9. CloseFits'
  BY <1>0, <1>3 DEF CloseFits, CloseLabels
<1>10. QED
  BY <1>4, <1>5, <1>6, <1>7, <1>8, <1>9 DEF AgreeInv

\* Every step of a Connect.
LEMMA ConnectAgrees ==
    ASSUME IndInv, AgreeInv, NEW c \in Calls, Connect(c)
    PROVE  AgreeInv'
BY BeginAgrees, ProbingAgrees, DialAgrees, EnterAgrees DEF Connect

\* The runner that an Execute picks speaks the shell of the host.
LEMMA RunnerSpeaks ==
    ASSUME WinRMFits, NEW h
    PROVE  ShellOf(resolveRunner(h)) = getShellType(h)
BY DEF resolveRunner, getShellType, getTransport, ConnectedHostsSnapshot, WinRMFits

\* Every step of an Execute.
LEMMA ExecuteAgrees ==
    ASSUME IndInv, AgreeInv, NEW c \in Calls, Execute(c)
    PROVE  AgreeInv'
<1> USE DEF maps, history
<1>0. /\ call \in [Calls -> Locals] /\ call[c] \in Locals /\ MapInv /\ HistoryTyped /\ WinRMFits
      /\ NoStateWithoutEntry /\ EntriesFit /\ CloseFits /\ \A d \in Calls \ overtaken : DialectFits(d)
  BY DEF IndInv, AgreeInv
<1>1. CASE BeginExecute(c)
  BY <1>1, BeginAgrees
<1>2. ASSUME ~BeginExecute(c)
      PROVE  /\ UNCHANGED <<servers, probe, toolkit, conns, phase, hollow, unlisted, late>>
             /\ call[c].pc \in ExecuteLabels
  BY <1>2 DEF Execute, ParseAndValidate, ReadToolkit, PickExecRunner, Dispatch, FinishExecute, ExecuteLabels, At
<1>3. (NoStateWithoutEntry' /\ unlisted' \subseteq Hosts) \/ BeginExecute(c)
  BY <1>0, <1>2 DEF NoStateWithoutEntry, HistoryTyped
<1>4. ASSUME ~BeginExecute(c), UNCHANGED overtaken, \A d \in Calls \ {c} : call'[d] = call[d],
             call'[c].pc \in ExecuteLabels \cup {"idle"}, c \notin overtaken => DialectFits(c)'
      PROVE  AgreeInv'
  BY <1>2, <1>3, <1>4, QuietAgree DEF ExecuteLabels, CloseLabels, ConnectLabels
<1>5. CASE ParseAndValidate(c)
  <2>1. UNCHANGED overtaken /\ call[c].pc = "shell" /\ ~BeginExecute(c)
    BY <1>5 DEF ParseAndValidate, BeginExecute, Begin, At
  <2>2. CASE Return(c)
    BY <1>0, <1>4, <2>1, <2>2, IdleAgrees
  <2>3. CASE ~Return(c)
    <3> DEFINE sh == getShellType(call[c].at)
               next == IF sh = "bash" THEN "path" ELSE "runner"
    <3>1. call' = [call EXCEPT ![c] = [call[c] EXCEPT !.shell = sh, !.pc = next]]
      BY <1>5, <2>3 DEF ParseAndValidate
    <3>2. /\ call'[c].pc = next /\ call'[c].shell = sh /\ call'[c].at = call[c].at
          /\ \A d \in Calls \ {c} : call'[d] = call[d]
      BY <1>0, <3>1 DEF Locals
    <3>3. getShellType(call[c].at)' = getShellType(call[c].at)
      BY <1>2, <2>1, <3>2 DEF getShellType, getTransport, ConnectedHostsSnapshot
    <3>4. QED
      BY <1>4, <2>1, <3>2, <3>3 DEF DialectFits, ExecuteLabels
  <2>4. QED
    BY <2>2, <2>3
<1>6. CASE ReadToolkit(c)
  <2>1. UNCHANGED overtaken /\ call[c].pc = "path" /\ ~BeginExecute(c)
    BY <1>6 DEF ReadToolkit, BeginExecute, Begin, At
  <2>2. /\ call'[c].pc = "runner" /\ call'[c].shell = call[c].shell /\ call'[c].at = call[c].at
        /\ \A d \in Calls \ {c} : call'[d] = call[d]
    BY <1>0, <1>6 DEF ReadToolkit, Locals
  <2>3. getShellType(call[c].at)' = getShellType(call[c].at)
    BY <1>2, <2>1, <2>2 DEF getShellType, getTransport, ConnectedHostsSnapshot
  <2>4. QED
    BY <1>0, <1>4, <2>1, <2>2, <2>3 DEF DialectFits, ExecuteLabels
<1>7. CASE PickExecRunner(c)
  <2>1. UNCHANGED overtaken /\ call[c].pc = "runner" /\ ~BeginExecute(c)
    BY <1>7 DEF PickExecRunner, BeginExecute, Begin, At
  <2>2. /\ call'[c].pc = "dispatch" /\ call'[c].shell = call[c].shell
        /\ call'[c].via = resolveRunner(call[c].at)
        /\ \A d \in Calls \ {c} : call'[d] = call[d]
    BY <1>0, <1>7 DEF PickExecRunner, Locals
  <2>3. QED
    BY <1>0, <1>4, <2>1, <2>2, RunnerSpeaks DEF DialectFits, ExecuteLabels
<1>8. CASE Dispatch(c) /\ ~Return(c)
  <2>1. UNCHANGED overtaken /\ call[c].pc = "dispatch" /\ ~BeginExecute(c)
    BY <1>8 DEF Dispatch, BeginExecute, Begin, At
  <2>2. \E target : call' = [call EXCEPT ![c].pc = "sent", ![c].on = target]
    BY <1>8 DEF Dispatch
  <2>3. /\ call'[c].pc = "sent" /\ call'[c].shell = call[c].shell /\ call'[c].via = call[c].via
        /\ \A d \in Calls \ {c} : call'[d] = call[d]
    BY <1>0, <2>2 DEF Locals
  <2>4. QED
    BY <1>0, <1>4, <2>1, <2>3 DEF DialectFits, ExecuteLabels
<1>9. CASE Return(c) /\ (Dispatch(c) \/ FinishExecute(c))
  <2>1. overtaken' = overtaken \ {c} \/ UNCHANGED overtaken
    BY <1>9 DEF Dispatch, FinishExecute
  <2>2. /\ UNCHANGED <<servers, probe, toolkit, conns, phase, hollow, unlisted, late>>
        /\ call[c].pc \in ExecuteLabels
    BY <1>9 DEF Dispatch, FinishExecute, At, ExecuteLabels
  <2>3. call'[c].pc = "idle" /\ DialectFits(c)' /\ \A d \in Calls \ {c} : call'[d] = call[d]
    BY <1>0, <1>9, IdleAgrees
  <2>4. HistoryTyped' /\ WinRMFits' /\ NoStateWithoutEntry'
    BY <1>0, <2>1, <2>2, <2>3 DEF HistoryTyped, WinRMFits, NoStateWithoutEntry, ConnectLabels
  <2>5. EntriesFit'
    <3>1. \A d \in Calls, h \in Hosts : Clearing(call[d], h) => Clearing(call'[d], h)
      BY <2>2, <2>3 DEF Clearing, ExecuteLabels
    <3>2. QED
      BY <1>0, <2>1, <2>2, <2>3, <3>1 DEF EntriesFit
  <2>6. \A d \in Calls \ overtaken' : DialectFits(d)'
    BY <1>0, <2>1, <2>2, <2>3 DEF DialectFits, getShellType, getTransport, ConnectedHostsSnapshot
  <2>7. CloseFits'
    BY <1>0, <2>2, <2>3 DEF CloseFits, CloseLabels
  <2>8. QED
    BY <2>4, <2>5, <2>6, <2>7 DEF AgreeInv
<1>10. QED
  BY <1>1, <1>5, <1>6, <1>7, <1>8, <1>9 DEF Execute, FinishExecute
\* Every step of a Provision.
LEMMA ProvisionAgrees ==
    ASSUME IndInv, AgreeInv, NEW c \in Calls, Provision(c)
    PROVE  AgreeInv'
<1> USE DEF maps, remote, history
<1>0. /\ call \in [Calls -> Locals] /\ call[c] \in Locals /\ CallInv(c) /\ MapInv
      /\ NoStateWithoutEntry /\ unlisted \subseteq Hosts
  BY DEF IndInv, AgreeInv, HistoryTyped
<1>1. CASE BeginProvision(c)
  BY <1>1, BeginAgrees
<1>2. CASE ~BeginProvision(c)
  <2>1. call[c].pc \in ProvisionLabels
    BY <1>2 DEF Provision, GetProbeState, SFTPSession, MkdirRemote, UploadTools, StoreDeployed, DropProbe,
       FinishClaim, At, ProvisionLabels
  <2>2. UNCHANGED <<servers, conns, phase, overtaken, hollow, late>>
    BY <1>2 DEF Provision, GetProbeState, SFTPSession, MkdirRemote, UploadTools, StoreDeployed, DropProbe, FinishClaim
  <2>3. call[c].at \in Hosts
    BY <1>0, <2>1 DEF CallInv
  <2>4. unlisted' \subseteq Hosts /\ NoStateWithoutEntry'
    <3>1. CASE StoreDeployed(c)
      <4>1. toolkit' = [toolkit EXCEPT ![call[c].at] = TRUE] /\ UNCHANGED <<servers, probe>>
            /\ unlisted' = IF servers[call[c].at] = "absent" THEN unlisted \cup {call[c].at} ELSE unlisted
        BY <3>1 DEF StoreDeployed, NoteStored
      <4>2. \A h \in Hosts : h # call[c].at => toolkit'[h] = toolkit[h]
        BY <1>0, <4>1 DEF MapInv
      <4>3. QED
        BY <1>0, <2>3, <4>1, <4>2 DEF NoStateWithoutEntry
    <3>2. CASE DropProbe(c)
      <4>1. probe' = [probe EXCEPT ![call[c].at] = NoProbe] /\ UNCHANGED <<servers, toolkit, unlisted>>
        BY <3>2 DEF DropProbe
      <4>2. \A h \in Hosts : probe'[h] # NoProbe => probe[h] # NoProbe
        BY <1>0, <4>1 DEF MapInv
      <4>3. QED
        BY <1>0, <4>1, <4>2 DEF NoStateWithoutEntry
    <3>3. CASE ~StoreDeployed(c) /\ ~DropProbe(c)
      <4>1. UNCHANGED <<servers, probe, toolkit, unlisted>>
        BY <1>2, <3>3 DEF Provision, GetProbeState, SFTPSession, MkdirRemote, UploadTools, FinishClaim
      <4>2. QED
        BY <1>0, <4>1 DEF NoStateWithoutEntry
    <3>4. QED
      BY <3>1, <3>2, <3>3
  <2>5. ASSUME call'[c].pc \in ProvisionLabels \cup {"idle"}, \A d \in Calls \ {c} : call'[d] = call[d]
        PROVE  AgreeInv'
    <3>1. DialectFits(c)'
      BY <2>5 DEF DialectFits, ProvisionLabels
    <3>2. QED
      BY <2>1, <2>2, <2>4, <2>5, <3>1, QuietAgree DEF ProvisionLabels, CloseLabels, ConnectLabels
  <2>6. ASSUME Return(c) PROVE AgreeInv'
    BY <1>0, <2>5, <2>6, IdleAgrees
  <2>7. ASSUME NEW label \in ProvisionLabels, Goto(c, label) PROVE AgreeInv'
    BY <1>0, <2>5, <2>7, GotoKeeps DEF ProvisionLabels, Labels
  <2>8. ASSUME NEW label \in ProvisionLabels, NEW p, call' = [call EXCEPT ![c].pc = label, ![c].seen = p]
        PROVE  AgreeInv'
    <3>1. call'[c].pc = label /\ \A d \in Calls \ {c} : call'[d] = call[d]
      BY <1>0, <2>8 DEF Locals
    <3>2. QED
      BY <2>5, <3>1
  <2>9. CASE GetProbeState(c)
    BY <2>6, <2>7, <2>8, <2>9 DEF GetProbeState, ProvisionLabels
  <2>10. CASE ~GetProbeState(c)
    BY <1>2, <2>6, <2>7, <2>10 DEF Provision, SFTPSession, MkdirRemote, UploadTools, StoreDeployed, DropProbe,
       FinishClaim, ProvisionLabels
  <2>11. QED
    BY <2>9, <2>10
<1>3. QED
  BY <1>1, <1>2

\* Clients are dropped: whoever was about to enter one of them has been
\* overtaken, and the entries that lose theirs are about to be cleared.
LEMMA DropAgrees ==
    ASSUME IndInv, AgreeInv, NEW c \in Calls, NEW xs \in SUBSET conns, DropClients(xs),
           UNCHANGED <<servers, probe, toolkit, phase, hollow, unlisted>>,
           \A d \in Calls \ {c} : call'[d] = call[d],
           call'[c].pc \in {"clear", "closeLocal", "closeWinRM", "closeClear"},
           \A x \in xs : Clearing(call'[c], x[2]),
           \A h \in Hosts : Clearing(call[c], h) => Clearing(call'[c], h),
           CloseFits'
    PROVE  AgreeInv'
<1>0. /\ call \in [Calls -> Locals] /\ MapInv /\ HistoryTyped /\ WinRMFits
      /\ NoStateWithoutEntry /\ EntriesFit
      /\ conns' = conns \ xs /\ late' = late \ xs /\ overtaken' = overtaken \cup Registering(xs)
  BY DEF IndInv, AgreeInv, DropClients, Overtake
<1>1. HistoryTyped'
  BY <1>0 DEF HistoryTyped, Registering
<1>2. WinRMFits'
  BY <1>0 DEF WinRMFits, ConnectLabels
<1>3. NoStateWithoutEntry'
  BY <1>0 DEF NoStateWithoutEntry
<1>4. EntriesFit'
  <2>1. \A d \in Calls, h \in Hosts : Clearing(call[d], h) => Clearing(call'[d], h)
    OBVIOUS
  <2>2. ASSUME NEW h \in Hosts \ hollow', servers'[h] \in {"ssh", "winrm"}
        PROVE  <<servers'[h], h>> \in conns' \/ \E d \in Calls : Clearing(call'[d], h)
    <3>1. CASE <<servers[h], h>> \in xs
      <4>1. <<servers[h], h>>[2] = h
        OBVIOUS
      <4>2. Clearing(call'[c], h)
        BY <3>1, <4>1
      <4>3. QED
        BY <4>2
    <3>2. CASE <<servers[h], h>> \notin xs
      BY <1>0, <2>1, <2>2, <3>2 DEF EntriesFit
    <3>3. QED
      BY <3>1, <3>2
  <2>3. ASSUME NEW d \in Calls \ overtaken', call'[d].pc = "register", call'[d].via # "local"
        PROVE  <<call'[d].via, call'[d].host>> \in conns'
    <3>1. d # c /\ call'[d] = call[d] /\ d \notin overtaken /\ d \notin Registering(xs)
      BY <1>0, <2>3
    <3>2. <<call[d].via, call[d].host>> \in conns
      BY <1>0, <2>3, <3>1 DEF EntriesFit
    <3>3. <<call[d].via, call[d].host>> \notin xs
      BY <2>3, <3>1 DEF Registering, At
    <3>4. QED
      BY <1>0, <3>1, <3>2, <3>3
  <2>4. QED
    BY <2>2, <2>3 DEF EntriesFit
<1>5. \A d \in Calls \ overtaken' : DialectFits(d)'
  <2>1. DialectFits(c)'
    BY DEF DialectFits
  <2>2. QED
    BY <1>0, <2>1 DEF AgreeInv, DialectFits, getShellType, getTransport, ConnectedHostsSnapshot
<1>6. QED
  BY <1>1, <1>2, <1>3, <1>4, <1>5 DEF AgreeInv

\* Entries are cleared, and what is known of their hosts with them.
LEMMA ClearAgrees ==
    ASSUME IndInv, AgreeInv, NEW c \in Calls, NEW h \in Hosts \cup {NoHost},
           clearHostState(h), ClearHistory(h), Return(c), UNCHANGED conns,
           \A x \in Hosts : Clearing(call[c], x) => h \in {NoHost, x},
           CloseFits'
    PROVE  AgreeInv'
<1> DEFINE cleared == {x \in Hosts : h = NoHost \/ x = h}
<1>0. /\ call \in [Calls -> Locals] /\ MapInv /\ HistoryTyped /\ WinRMFits
      /\ NoStateWithoutEntry /\ EntriesFit
      /\ overtaken' = overtaken \cup Reading(cleared)
      /\ hollow' = hollow \ cleared /\ unlisted' = unlisted \ cleared /\ late' = late
  BY DEF IndInv, AgreeInv, ClearHistory, Overtake
<1>1. \A x \in Hosts : /\ servers'[x] = IF x \in cleared THEN "absent" ELSE servers[x]
                       /\ probe'[x] = IF x \in cleared THEN NoProbe ELSE probe[x]
                       /\ toolkit'[x] = IF x \in cleared THEN FALSE ELSE toolkit[x]
  BY DEF clearHostState
<1>2. /\ call'[c].pc = "idle" /\ DialectFits(c)' /\ \A d \in Calls \ {c} : call'[d] = call[d]
  BY <1>0, IdleAgrees
<1>3. cleared \in SUBSET Hosts /\ \A x \in Hosts : Clearing(call[c], x) => x \in cleared
  OBVIOUS
<1> HIDE DEF cleared
<1>4. HistoryTyped'
  BY <1>0 DEF HistoryTyped, Reading
<1>5. WinRMFits'
  BY <1>0, <1>1, <1>2 DEF WinRMFits, ConnectLabels
<1>6. NoStateWithoutEntry'
  BY <1>0, <1>1 DEF NoStateWithoutEntry
<1>7. EntriesFit'
  <2>1. ASSUME NEW x \in Hosts \ hollow', servers'[x] \in {"ssh", "winrm"}
        PROVE  <<servers'[x], x>> \in conns' \/ \E d \in Calls : Clearing(call'[d], x)
    <3>1. x \notin cleared /\ servers'[x] = servers[x] /\ x \notin hollow
      BY <1>0, <1>1, <2>1
    <3>2. <<servers[x], x>> \in conns \/ \E d \in Calls : Clearing(call[d], x)
      BY <1>0, <2>1, <3>1 DEF EntriesFit
    <3>3. \A d \in Calls : Clearing(call[d], x) => d # c /\ Clearing(call'[d], x)
      BY <1>2, <1>3, <3>1
    <3>4. QED
      BY <3>1, <3>2, <3>3
  <2>2. \A d \in Calls \ overtaken' : call'[d].pc = "register" => d # c /\ call'[d] = call[d] /\ d \notin overtaken
    BY <1>0, <1>2
  <2>3. QED
    BY <1>0, <2>1, <2>2 DEF EntriesFit
<1>8. \A d \in Calls \ overtaken' : DialectFits(d)'
  <2>1. \A x \in Hosts \ cleared : servers'[x] = servers[x]
    BY <1>1
  <2>2. QED
    BY <1>0, <1>2, <1>3, <2>1, ReadersKept
<1>9. QED
  BY <1>4, <1>5, <1>6, <1>7, <1>8 DEF AgreeInv

\* Every step of a Disconnect or of Close.
LEMMA DisconnectAgrees ==
    ASSUME IndInv, AgreeInv, NEW c \in Calls, Disconnect(c) \/ Close(c)
    PROVE  AgreeInv'
<1> USE DEF maps, remote, history
<1>0. /\ call \in [Calls -> Locals] /\ call[c] \in Locals /\ MapInv /\ CloseFits /\ HistoryTyped /\ WinRMFits
  BY DEF IndInv, AgreeInv
<1>1. CASE BeginDisconnect(c)
  BY <1>1, BeginAgrees
<1>2. ASSUME NEW xs \in SUBSET conns, DropClients(xs)
      PROVE  conns' \ late' \subseteq conns \ late /\ (conns \subseteq late => conns' \subseteq late')
  BY <1>2 DEF DropClients
<1>3. CASE RunnerDisconnect(c)
  <2> DEFINE xs == Dropped(call[c].via, call[c].host)
  <2>1. /\ DropClients(xs) /\ Goto(c, "clear") /\ call[c].pc = "drop"
        /\ UNCHANGED <<servers, probe, toolkit, phase, hollow, unlisted>>
    BY <1>3 DEF RunnerDisconnect, At
  <2>2. xs \in SUBSET conns /\ \A x \in xs : call[c].host \in {NoHost, x[2]}
    BY DEF Dropped
  <2> HIDE DEF xs
  <2>3. /\ call'[c].pc = "clear" /\ call'[c].host = call[c].host /\ \A d \in Calls \ {c} : call'[d] = call[d]
    BY <1>0, <2>1, GotoKeeps DEF Labels
  <2>4. CloseFits'
    <3>1. \A d \in Calls : call'[d].pc \in CloseLabels => call'[d] = call[d]
      BY <2>3 DEF CloseLabels
    <3>2. conns' \ late' \subseteq conns \ late /\ (conns \subseteq late => conns' \subseteq late')
      BY <1>2, <2>1, <2>2
    <3>3. \A d \in Calls, e \in Calls : call'[d].pc \in CloseLabels /\ call'[e].pc \in CloseLabels => d = e
      BY <1>0, <3>1 DEF CloseFits
    <3>4. \A d \in Calls, x \in conns' \ late' :
             /\ call'[d].pc \in {"closeLocal", "closeWinRM", "closeClear"} => x[1] # "ssh"
             /\ call'[d].pc \in {"closeWinRM", "closeClear"} => x[1] # "local"
             /\ call'[d].pc # "closeClear"
      BY <1>0, <3>1, <3>2 DEF CloseFits, CloseLabels
    <3>5. QED
      BY <1>0, <2>1, <3>1, <3>2, <3>3, <3>4 DEF CloseFits
  <2>5. /\ \A x \in xs : Clearing(call'[c], x[2])
        /\ \A h \in Hosts : ~Clearing(call[c], h)
    BY <2>1, <2>2, <2>3 DEF Clearing
  <2>6. QED
    BY <2>1, <2>2, <2>3, <2>4, <2>5, DropAgrees
<1>4. CASE ClearDisconnected(c)
  <2>1. /\ call[c].pc = "clear" /\ Return(c) /\ UNCHANGED <<conns, phase, late>>
        /\ clearHostState(call[c].host) /\ ClearHistory(call[c].host)
    BY <1>4 DEF ClearDisconnected, At, ClearHistory
  <2>2. call'[c].pc = "idle" /\ \A d \in Calls \ {c} : call'[d] = call[d]
    BY <1>0, <2>1, IdleAgrees
  <2>3. CloseFits'
    BY <1>0, <2>1, <2>2 DEF CloseFits, CloseLabels
  <2>4. call[c].host \in Hosts \cup {NoHost} /\ \A x \in Hosts : Clearing(call[c], x) => call[c].host \in {NoHost, x}
    BY <1>0, <2>1 DEF Clearing, Locals
  <2>5. QED
    BY <2>1, <2>3, <2>4, ClearAgrees
<1>5. CASE BeginClose(c)
  <2>1. /\ call[c].pc = "idle" /\ phase = "serving" /\ phase' = "closing" /\ Goto(c, "closeSSH")
        /\ UNCHANGED <<servers, probe, toolkit, conns, overtaken, hollow, unlisted, late>>
    BY <1>5 DEF BeginClose, Begin, At
  <2>2. call'[c].pc = "closeSSH" /\ \A d \in Calls \ {c} : call'[d] = call[d]
    BY <1>0, <2>1, GotoKeeps DEF Labels
  <2>3. \A d \in Calls : call[d].pc \notin CloseLabels
    BY <1>0, <2>1 DEF CloseFits
  <2>4. CloseFits'
    BY <2>1, <2>2, <2>3 DEF CloseFits, CloseLabels
  <2>5. HistoryTyped' /\ WinRMFits' /\ NoStateWithoutEntry'
    BY <2>1, <2>2 DEF AgreeInv, HistoryTyped, WinRMFits, NoStateWithoutEntry, ConnectLabels
  <2>6. EntriesFit'
    <3>1. \A d \in Calls, h \in Hosts : Clearing(call[d], h) => Clearing(call'[d], h)
      BY <2>1, <2>2 DEF Clearing
    <3>2. QED
      BY <2>1, <2>2, <3>1 DEF AgreeInv, EntriesFit
  <2>7. \A d \in Calls \ overtaken' : DialectFits(d)'
    BY <2>1, <2>2 DEF AgreeInv, DialectFits, getShellType, getTransport, ConnectedHostsSnapshot
  <2>8. QED
    BY <2>4, <2>5, <2>6, <2>7 DEF AgreeInv
<1>6. ASSUME NEW label \in {"closeSSH", "closeLocal", "closeWinRM"}, NEW r \in Transports,
             NEW next \in {"closeLocal", "closeWinRM", "closeClear"},
             CloseRunner(c, label, r, next),
             \/ label = "closeSSH" /\ r = "ssh" /\ next = "closeLocal"
             \/ label = "closeLocal" /\ r = "local" /\ next = "closeWinRM"
             \/ label = "closeLocal" /\ r = "local" /\ next = "closeClear" /\ ~HasWinRM
             \/ label = "closeWinRM" /\ r = "winrm" /\ next = "closeClear"
      PROVE  AgreeInv'
  <2> DEFINE xs == Dropped(r, NoHost)
  <2>1. /\ DropClients(xs) /\ Goto(c, next) /\ call[c].pc = label
        /\ UNCHANGED <<servers, probe, toolkit, phase, hollow, unlisted>>
    BY <1>6 DEF CloseRunner, At
  <2>2. xs = {x \in conns : x[1] = r}
    BY DEF Dropped
  <2> HIDE DEF xs
  <2>3. call'[c].pc = next /\ \A d \in Calls \ {c} : call'[d] = call[d]
    BY <1>0, <2>1, GotoKeeps DEF Labels
  <2>4. \A d \in Calls : call[d].pc \in CloseLabels => d = c
    BY <1>0, <2>1 DEF CloseFits, CloseLabels
  <2>5. \A d \in Calls : call'[d].pc \in CloseLabels => d = c /\ phase' = "closing"
    BY <1>0, <2>1, <2>3, <2>4 DEF CloseFits, CloseLabels
  <2>6. \A x \in conns' \ late' : x \in conns \ late /\ x[1] # r
    BY <2>1, <2>2 DEF DropClients
  <2>7. \A x \in conns : x[1] \in Transports
    BY <1>0 DEF MapInv
  <2>8. \A x \in conns' \ late' : /\ next \in {"closeLocal", "closeWinRM", "closeClear"} => x[1] # "ssh"
                                  /\ next \in {"closeWinRM", "closeClear"} => x[1] # "local"
                                  /\ next # "closeClear"
    BY <1>0, <1>6, <2>1, <2>6, <2>7 DEF CloseFits, WinRMFits, Transports
  <2>9. CloseFits'
    <3>1. phase' # "returned"
      BY <1>0, <2>1, <1>6 DEF CloseFits, CloseLabels
    <3>2. \A d \in Calls : call'[d].pc \in {"closeLocal", "closeWinRM", "closeClear"} => call'[d].pc = next
      BY <2>3, <2>5 DEF CloseLabels
    <3>3. \A d, e \in Calls : call'[d].pc \in CloseLabels /\ call'[e].pc \in CloseLabels => d = e
      BY <2>5
    <3>4. ASSUME NEW d \in Calls, NEW x \in conns' \ late'
          PROVE  /\ call'[d].pc \in {"closeLocal", "closeWinRM", "closeClear"} => x[1] # "ssh"
                 /\ call'[d].pc \in {"closeWinRM", "closeClear"} => x[1] # "local"
                 /\ call'[d].pc # "closeClear"
      <4>1. /\ next \in {"closeLocal", "closeWinRM", "closeClear"} => x[1] # "ssh"
            /\ next \in {"closeWinRM", "closeClear"} => x[1] # "local"
            /\ next # "closeClear"
        BY <2>8, <3>4
      <4>2. call'[d].pc = next \/ call'[d].pc \notin {"closeLocal", "closeWinRM", "closeClear"}
        BY <3>2
      <4>3. QED
        BY <4>1, <4>2
    <3>5. QED
      BY <2>5, <3>1, <3>3, <3>4 DEF CloseFits
  <2>10. /\ xs \in SUBSET conns /\ \A x \in xs : Clearing(call'[c], x[2])
         /\ \A h \in Hosts : Clearing(call[c], h) => Clearing(call'[c], h)
    BY <2>2, <2>3, <2>1 DEF Clearing
  <2>11. QED
    BY <2>1, <2>3, <2>9, <2>10, DropAgrees
<1>7. CASE CloseSSH(c) \/ CloseLocal(c) \/ CloseWinRM(c)
  BY <1>6, <1>7 DEF CloseSSH, CloseLocal, CloseWinRM, Transports
<1>8. CASE CloseClear(c)
  <2>1. /\ call[c].pc = "closeClear" /\ Return(c) /\ UNCHANGED <<conns, late>> /\ phase' = "returned"
        /\ clearHostState(NoHost) /\ ClearHistory(NoHost)
    BY <1>8 DEF CloseClear, At, ClearHistory
  <2>2. call'[c].pc = "idle" /\ \A d \in Calls \ {c} : call'[d] = call[d]
    BY <1>0, <2>1, IdleAgrees
  <2>3. \A d \in Calls : call'[d].pc \notin CloseLabels
    BY <1>0, <2>1, <2>2 DEF CloseFits, CloseLabels
  <2>4. conns \subseteq late
    BY <1>0, <2>1 DEF CloseFits
  <2>5. CloseFits'
    BY <2>1, <2>3, <2>4 DEF CloseFits, CloseLabels
  <2>6. QED
    BY <2>1, <2>5, ClearAgrees
<1>9. QED
  BY <1>1, <1>3, <1>4, <1>5, <1>7, <1>8 DEF Disconnect, Close

-----------------------------------------------------------------------------

LEMMA InitAgrees == Init => AgreeInv
BY DEF Init, AgreeInv, HistoryTyped, WinRMFits, NoStateWithoutEntry, EntriesFit, DialectFits, CloseFits,
   Clearing, Idle, CloseLabels, ConnectLabels

LEMMA StutterAgrees ==
    ASSUME AgreeInv, UNCHANGED vars
    PROVE  AgreeInv'
BY DEF AgreeInv, HistoryTyped, WinRMFits, NoStateWithoutEntry, EntriesFit, DialectFits, CloseFits,
   Clearing, getShellType, getTransport, ConnectedHostsSnapshot, vars, maps, history

\* AgreeInv is an inductive invariant of Core, relative to IndInv.
THEOREM CoreAgrees == Spec => []AgreeInv
<1>1. Init => AgreeInv
  BY InitAgrees
<1>2. IndInv /\ AgreeInv /\ [Next]_vars => AgreeInv'
  BY ConnectAgrees, ExecuteAgrees, ProvisionAgrees, DisconnectAgrees, StutterAgrees DEF Next
<1>3. QED
  BY <1>1, <1>2, CoreInvariant, PTL DEF Spec

\* Type correctness.
THEOREM CoreTyped == Spec => []TypeOK
<1>1. IndInv /\ AgreeInv => TypeOK
  BY DEF IndInv, MapInv, AgreeInv, HistoryTyped, TypeOK
<1>2. QED
  BY <1>1, CoreInvariant, CoreAgrees, PTL

\* A listed host has its client, for any number of calls in any order, unless
\* its connect was overtaken.
THEOREM EntriesAreConnected == Spec => []RegisteredIsConnected
<1>1. AgreeInv => RegisteredIsConnected
  BY DEF AgreeInv, EntriesFit, RegisteredIsConnected, Quiescent, Clearing, At
<1>2. QED
  BY <1>1, CoreAgrees, PTL

\* No state outlives its host's entry, unless it was stored afterwards.
THEOREM StateHasAnEntry == Spec => []NoStateWithoutEntry
<1>1. AgreeInv => NoStateWithoutEntry
  BY DEF AgreeInv
<1>2. QED
  BY <1>1, CoreAgrees, PTL

\* Dialect and runner agree for any number of calls in any order: only a write
\* of the host's entry between the two reads can part them.
THEOREM DialectsMatch == Spec => []DialectMatchesRunner
<1>1. AgreeInv => DialectMatchesRunner
  BY DEF AgreeInv, DialectFits, DialectMatchesRunner, At
<1>2. QED
  BY <1>1, CoreAgrees, PTL

\* Close leaves no connection that was there when it began, whatever the calls
\* it does not wait for do meanwhile.
THEOREM CloseIsClean == Spec => []ClosedIsClean
<1>1. AgreeInv => ClosedIsClean
  BY DEF AgreeInv, CloseFits, ClosedIsClean
<1>2. QED
  BY <1>1, CoreAgrees, PTL

=============================================================================
