# ShellGuard in TLA+

ShellGuard is an MCP server that gives a language model guarded shell access to
remote machines over SSH and WinRM, and to the local one.  A tool call names a
host and a command; the server parses the command, validates it against a
registry of manifests, renders it again from the parse, runs it over the host's
connection and returns its truncated output.  A second front end, the control
socket, connects and disconnects hosts while tool calls run.

This directory holds TLA+ modules that model that program from the manifests it
loads to the connections it keeps, the TLC configurations that check them and
proofs for TLAPS.  Paths below are
relative to the repository's root.

## Inventory

| Part | State | Operations | Hard behaviour | What makes it correct |
|---|---|---|---|---|
| `server/server.go`, Core | `servers`, `probeState`, `toolkitDeployed` under one RWMutex; three runners | Connect, Execute, Provision, Disconnect, Close, Sleep, ValidateCommand, Status | every helper takes the lock on its own, so calls interleave between a handler's helpers; state is read, a remote call is made, and the state is used | registry, per-host state and the runners' connections agree; a command reaches a shell of its dialect; toolkit claims are true |
| `server/server.go`, DownloadFile | the local download directory | collisionSafePath, create, copy, remove | a name is looked up in one step and taken in another; failures after the file is there | a reported file is whole; a failed one is gone; older files stay |
| `shellguard.go` | the Core, the control server's goroutine | New, RunStdio | shutdown while control-socket calls run | no connection is left |
| `ssh/ssh.go`, SSHManager and native dialer | `connections` under a mutex | Connect, Execute, ExecuteRaw, SFTPSession, Disconnect | dials and commands run outside the lock; retries with back-off; captured clients are closed under a running call | no client leaks, no command is resent beyond the retry loop, calls return |
| `ssh/hostkey.go` | the known_hosts file | the strict, accept-new and off callbacks | read and append are separate steps, of several dials | a key that is accepted is on record; a changed key is refused |
| `ssh/system.go` | ControlMaster sockets shared per user and host | Dial, Execute, SFTPSession, Close | closing a client ends the master that its replacement uses | a stored client works |
| `ssh/auth.go`, `resolve.go` | none | authentication methods, ssh_config resolution | - | precedence of methods and settings |
| `winrm/winrm.go` | `connections`, `dialing` under a mutex; a one-slot channel per client | Connect, Execute, Disconnect | single-flight dials, joiners, cancellation, turns on one NTLM session | one dial per host, one outcome for all who joined, commands never overlap, no turn is lost |
| `server/local.go` | `sessions` under a mutex; per session a PTY, a reader and a waiter goroutine, a bounded channel, an accumulator, a mutex | Connect, Execute, Disconnect | timeouts, a hung or exiting program, a full channel, terminate under the executor's lock | a result is its own command's output, no orphaned program, calls return |
| `toolkit/toolkit.go` | a cache on disk; the remote tool directory | probe, EnsureLocal, DeployTools | crash between write and rename; concurrent writers of one cache; partial and overlapping uploads | a cached tool is the pinned one, whole; what is reported deployed is |
| `control/` | a listener, an address file, a wait group, connections | connect, disconnect, status | shutdown beside running handlers; processes that share the file; idle clients | no handler outlives the server; the file names a server that listens; answers are true |
| `output/output.go` | none | TruncateOutput | in-place append over the data's own array | the limit is kept; head and tail are the data's |
| `validator/`, `manifest/` | the registry, read-only | Validate, loading | rule order, nested commands | what a manifest denies never runs |
| `parser/` | none | bash and PowerShell pipelines | two grammars | nothing outside the grammar gets through |
| `ssh/reconstruct.go`, `winrm/reconstruct.go` | none | rendering | quoting; PATH prefix | the rendered command parses back to the validated one |
| `winrm/fileclient.go`, `clixml.go` | none | file operations by script, error decoding | chunked writes | not reached from Core |
| `config/` | none | loading, defaults | - | values within their ranges |

How they interact: MCP tools and the control socket call Core; Core calls a
runner chosen by the host's transport; a runner calls its dialer and client; a
client talks to the host.  The only callbacks are the host key callback of the
SSH handshake and the context's cancellation.  Every runner keeps a connection
map of its own, which Core's registry is meant to mirror.

The hazards, each at its line, are listed in `PROJECT.json` with the properties
that cover them.

## Modules

| Module | Models | Run or use |
|---|---|---|
| `Core`, `MCCore` | `server.Core`, the runners' maps as it sees them, the remote toolkit directory, the shutdown | `core_concurrent`, `core_disconnect_all` |
| `WinRM`, `MCWinRM` | `WinRMManager` and `winrmClient` | `winrm` |
| `NTLMSession` | abstract specification: what a WinRM client promises its session | refined by `WinRM` (`SessionSpec`) |
| `SSH`, `MCSSH` | `SSHManager`, the native dialer, the host key callbacks | `ssh`, `ssh_handshake` |
| `LocalSession`, `MCLocalSession` | `LocalExecutor` and its PTY sessions | `local`, `local_replace`, `local_reader` |
| `ControlServer`, `MCControlServer` | `control.Server` and `RunStdio` around it, in several processes | `control` |
| `ToolCache` | `DeployTools`, `EnsureLocal`, `uploadTool` with crashes | `transfers` |
| `Download` | `Core.DownloadFile` and its local files | `transfers` |
| `MCTransfers` | the instance of these two | `transfers` |
| `Loops` | a Go loop as a function of one round, iterated | used |
| `Text` | Go's `strings` operations that the next modules use | used |
| `Manifests` | loading, merging and scoping of manifests | used |
| `Validator` | `validator.go` | used |
| `BashText` | `ssh/reconstruct.go`, and how a shell reads its text | used |
| `BashDialect` | the bash parser's walk | used |
| `PowerShellDialect` | the PowerShell grammar's checks, `winrm/reconstruct.go`, how PowerShell reads the result | used |
| `Policy` | reference definition: what the manifests promise | compared with `Validator` |
| `Output` | `output.go` | used |
| `Gate` | the composition: `New`'s registry, then one command from its text to its truncated output, for any two parsers | used |
| `GateDialects`, `MCGate` | the gate with the two dialects, and its instance | `gate` |
| `CoreProofs`, `WinRMProofs`, `SSHProofs`, `LocalProofs`, `ControlProofs`, `ToolCacheProofs`, `DownloadProofs`, `GateProofs` | theorems about the module of that name | - |

### Core

A handler of Core takes the lock once per helper (`setConnected`,
`clearProbeState`, `getShellType`, ...) and never across the handler, and calls
run concurrently.  An action is one such lock section, or one call to a runner
or the remote host.  `call[c]` holds a call's label and its local variables:
`host` as requested, `at` as resolved, `shell` as read for parsing, `via` the
runner picked later, `on` where the runner sent the command.  `conns` is the
union of the runners' connection maps.  `binDir` and `installed` are what a probe
would find on the hosts.

| Code | Actions |
|---|---|
| `Connect`, `connectWinRM` | `BeginConnect`, `RunnerConnect`, `SetConnected`, `ResetToolkit`, `ResetProbe`, `Probe`, `SetProbeState`, `CheckDir`, `StoreDir` |
| `Execute` | `BeginExecute`, `ParseAndValidate`, `ReadToolkit`, `PickExecRunner`, `Dispatch`, `FinishExecute` |
| `Provision`, `DeployTools` | `BeginProvision`, `GetProbeState`, `SFTPSession`, `MkdirRemote`, `UploadTools`, `StoreDeployed`, `DropProbe`, `FinishClaim` |
| `Disconnect` | `BeginDisconnect`, `RunnerDisconnect`, `ClearDisconnected` |
| `RunStdio`, `Close` | `BeginClose`, `CloseSSH`, `CloseLocal`, `CloseWinRM`, `CloseClear` |

Calls start at any time: `RunStdio` waits neither for the control server's
goroutine nor for its calls, so a connect may run during Close and after it.

Handlers that overlap can leave registry and runners apart (see "Known
divergences"), and the code promises nothing then.  What the properties say is
that nothing else does: four history variables mark exactly the overlaps at
fault, and everywhere else the pieces agree, whatever runs in between.

| Property | What it says | History that excludes |
|---|---|---|
| `RegisteredIsConnected` | with no call under way, a listed SSH or WinRM host has its client | `hollow`: the client was dropped between the runner's Connect and `setConnected` |
| `NoStateWithoutEntry` | probe and toolkit state belongs to a listed host | `unlisted`: it was stored when the entry was gone |
| `DialectMatchesRunner` | a command reaches a shell of the dialect it was validated for | `overtaken`: the entry was written between `getShellType` and `resolveRunner` |
| `ClosedIsClean` | after `RunStdio` no connection is left | `late`: it was stored after Close had begun |

`ToolkitPathExists`, `ProbeCoversMissing` and `ClaimFromProbeIsTrue` need no
exclusion: the toolkit flag and the probe results never say more than the host
has, under every interleaving.

Assumed of the environment: nobody removes the toolkit directory or tools from a
host while the server runs, and a host name means one machine.

### WinRM

`Connect` is single-flight: the first caller puts a `dialAttempt` into `dialing`
and dials, others wait on its `done` channel.  The dial's end is three steps in
the code's order (`SetErr`, `CloseDone`, `Cleanup`), with other callers in
between.  `Execute` takes the client's slot (`TakeTurn`) or gives up
(`WaitCancelled`), runs (`RunEnds`) and gives the slot back (`GiveTurnBack`).  A
`dialAttempt` and the client it makes share a name; a name is used again when
nothing refers to it.

`NTLMSession` says what all this is for: commands on one session never overlap.
`SessionSpec` is the refinement, with `using` mapped to the calls at `run`.

### SSH

`Connect` dials with retries outside the lock (`TCPConnect`, `VerifyHostKey`,
`RecordHostKey`, `Authenticate`) and stores the client under it (`Store`), closing
the one it replaces.  `Execute` captures a client (`BeginExecute`) and tries up to
`Retries + 1` times (`NewSession`, `RunEnds`, `NextAttempt`); `ExecuteRaw` tries
once; `SFTPSession` captures a client and opens a session on it (`OpenSFTP`).
`Disconnect` closes and deletes under the lock.  `mode` is the host key mode of
the process: `VerifyStrictly` only reads `known`, the known_hosts file;
`VerifyNothing` is mode `off`; accept-new reads it at `VerifyHostKey` and appends
at `RecordHostKey`.  `Rekey` gives a server a new key.  `LoseTransport` is a peer that hangs
up or a network that fails: the client is then in `lost`, still in `open` (nobody has closed it) and
still in the map, since nothing in the manager watches a transport; a call on it fails, and
it goes when its host is connected again or disconnected.  Whether an error is
retriable is left open, except for host key errors, which the code never retries.

### LocalSession

A session is the program's life (`proc`, `exited`), the PTY (`tty`, `input`,
`output`), the reader (`held`), the channel (`readCh`, `closed`), the accumulator
and the session's lock.  Output is a sequence of tokens; the reader takes any
prefix of what the PTY holds, so an end marker and the exit code behind it may
arrive apart.  `printf` ends each marker's line with a newline (`local.go:102`, `195`), which
`consumeUntil` leaves in the accumulator (`local.go:242`): every result begins with the newline of the marker before it.
`OutputIsOwn` says so exactly: that newline, then the command's own output.  The tests
do not see it because they trim (`local_test.go:89`, `103`).  The marker's text does not name its command, as in the code, so a
scan matches any command's marker.  `Scan` is one turn of `consumeUntil`'s loop
with its `select`, `Drain` the loop after the exit; `CloseMaster`, `Kill` and the
steps guarded by `Terminated` are `terminate`.  `Store` and `Disconnect` hold the
executor's lock (`mapLock`) while they terminate a session, as the code does.

A command without a session runs in a shell of its own that shares nothing with
the rest, so `Lookup` ends it.

### ControlServer

Several processes may be given one `SHELLGUARD_CONTROL_ADDR`, so `file` is shared
and everything else belongs to a process.  `serve[s]` walks through
`ListenAndServe`: listen, `os.WriteFile` as truncate and write, the accept loop, the wait group, the
deferred remove.  The goroutine that closes the listener on cancellation is
`CloseListener`; a connection waits in the listener's queue, is accepted, and its
handler reads a line, calls Core and replies until the client leaves or a write
fails.  A connect is two steps, as far as `setConnected` (`ConnectRegisters`) and the probes behind it with
the answer (`ConnectReturns`); `cut` is history: the hosts that were disconnected since they were
registered, which may be before the client is told.  `stdio[s]` is `RunStdio` beside it: it returns, Core is closed, and the
process exits without waiting for the control server, or it dies at any other
point; properties about the file and about stopping speak of processes that are alive.  Core appears as the hosts it lists
(`links`); its interleavings are module `Core`'s.

### ToolCache and Download

Both are about files that several calls write at once.  A file is an inode that
a directory entry may name, so that a file outlives its name while a call has it
open; contents are chunks, written in order, each step one system call.

`ToolCache` has `EnsureLocal` step by step: `StatCache`, `Fetch` (download, digest
and extraction, with a failure in each), `CreateTemp`, `WriteTemp`, `ChmodTemp`,
`Rename` and the deferred `RemoveTemp`, and `uploadTool`: `OpenLocal`,
`CreateRemote` (which truncates and keeps the mode), `Upload`, `FinishUpload`.  An
SFTP request that fails may have been carried out.  `Crash` ends a call between
any two steps.  `reported`, `disturbed` and `alone` are history: two provisions of one
host may write one remote file, and the properties say what holds unless they do.

`Download` has `collisionSafePath` (one `TryName` per `Stat`), `CreateLocal`
(which truncates what has come into being since), `CopyChunk`, `CloseLocal` and
`RemoveLocal`.  `shared` is history: another call was at work under the call's
name at some time since the call chose it.  Being at work ends with the call, and not with
its `Create`: two calls may share a name, one of them fail and remove the file, a
third find the name free, and the second, past its own `Create`, fail and remove
the third's file.  The proof of `ReportIsTrue` asks for this meaning of `shared`,
and the run has the third call.

### Gate

`Gate` composes the stateless parts in the order one command meets them: `Load`
(both manifest directories load and the user's win, or `New` fails), `ParseCommand`,
`Validate`, `Reconstruct` with the timeout, the host's answer and
`TruncateOutput`.  The parts are operators in modules of their own.  A command is
the syntax tree that the bash parser or the PowerShell grammar delivers; a YAML file is a
record with the fields the loader reads and the set of those of the wrong type.
Strings are real strings where their characters matter (flags in a bundle, quotes,
SQL) and short.

The loops of the code (the walks of `validateArgs`, `validateRequiresOneOf`, `validateSudo`,
`validateXargs` and `getPipelineTimeout`, the SQL scanner) are functions of one round
that `Loops.Iterate` repeats: one round is one turn of the Go loop, its
fields are the loop's variables.  The two parsers and PowerShell's
reconstruction walk trees and are recursive, so they are constants of `Gate`
(`ParseBash`, `ParsePS`, `RenderPS`), which `GateDialects` brings together with
their definitions and the configuration binds to them.  `GateAssumption` is what `Gate` relies on: a parser accepts
only pipelines (`IsPipeline`: every segment but the first has an operator; for
PowerShell the commands are in lower case), manifests are named by strings and have
integers for timeouts, and a limit that the configuration admits is not negative.  TLC evaluates it
for the parsers of the run.  Three other assumptions are ground facts about the program's tables and
literals, which TLC evaluates and a prover cannot: `CommonParamsAreNoCounts`,
`KeywordsAreWords` and `LiteralsAreTexts`.

`Policy` is the reference: the role of every token of an argument list, what a
chain of `sudo` and `xargs` starts in the end, and what the manifest that speaks
for it allows, as sets and quantifiers.  `AcceptedExactlyWhenAllowed` compares the
validator's loops with it: nothing is accepted that is not allowed, and what
is allowed is accepted when it is plain (no wrapper, no rule of the command's own).
`Unambiguous` leaves out manifests that declare a token which the validator reads in another
way as well: a flag whose name contains `=`, or a digit (`-5`) that is also the count of `-n`.

`ShellReads` and `PowerShellReads` read the rebuilt text as the shell on the host would.
`BashReadsWhatWasValidated` asks for the words and operators that were validated, whatever is
in them.  For PowerShell an argument is a list of texts, variables, hashtables and
script blocks, and a quoted text is none of the others: `HostReadsWhatWasMeant` compares what PowerShell
reads with what the caller's tree means (`PowerShellMeant`), hashtables entry by entry.  `ValueIsKept`
names the values for which it holds; each of its conditions is needed, for without it TLC finds
a value that arrives as another (see "Known divergences").  For bash, which is sent the validated
words, it compares these with what the caller's words mean (`MeaningOf`, which undoes
backslashes as bash does), for the words in `Kept`.
`TimeoutCoversManifests` leaves out a
subcommand whose manifest is hidden by a longer one of another shell, since
`getPipelineTimeout` does not scope the registry.

## Runs, bounds and fairness

| Run | Instance | What it shows, and why the bounds are enough |
|---|---|---|
| `core_concurrent` | 2 calls, 1 host, 2 tools | a race needs two calls, and each property is about one host's entry, state and connections; two tools let a probe be partly right |
| `winrm` | 3 callers, 1 host, 2 attempts | an owner, a joiner and a disconnecting or reconnecting third; the state of two hosts is disjoint |
| `ssh` | 2 callers, 1 host, 3 clients, 2 keys, 1 retry, each host key mode, transports lost at any time | a stored client, its replacement and one in flight; a second key to change to |
| `local` | 2 callers, 1 session, 2 commands, 1 output each, channel of 1 | a command that timed out, one that follows it, and a channel that is full |
| `local_replace` | 2 callers, 2 hosts, 2 sessions, 1 command | a session replaces another while a third call disconnects all |
| `control` | 2 processes, 1 file, 1 client, 2 lines | a server that shuts down while another starts on the same path; a client that speaks before, during and after a shutdown |
| `transfers` | 2 calls, 1 tool, 3 temporary names, 4 files, 2 chunks, 1 crash; 3 downloads, 2 candidate names | a writer, a second one and the file of a dead third; a half-written file needs two chunks; three downloads are the fewest that lose a file to a call that never met it |
| `gate` | some 13000 commands, 15 manifests, 8 user directories, limits around 16 bytes | every field of a manifest, every wrapper and every kind of quoting in short combinations; texts on both sides of every boundary of the cut |

Bounds named in the modules: `Retries` (the code's own), `MaxCommands` (a write
beyond it fails), `MaxOut`, `ChanCap` (16 in the code, 1 here so that it fills),
`MaxLines`, `MaxCrashes`, `MaxRetries` (of `collisionSafePath`), `Chunks` and `PieceCount`,
`MaxPipeSegments` and `MaxArgsPerSegment` (the parser's limits, small here).
Four further runs use the same bounds or smaller ones to find their
counterexample.  Symmetry is used only in runs without liveness; `transfers` has
an action property and no liveness.  `transfers` and `gate` do not check deadlock
because downloads run once and `New` may fail, `control` because a process may
exit; every other run checks it.

Fairness.  `WinRM` and `LocalSession`: steps that a timer or the scheduler bounds
are weakly fair; taking a channel slot or a mutex is strongly fair, since Go
serves blocked senders in order and a mutex hands over to a starved waiter.
Nothing is assumed of a program under the PTY: it may hang, ignore SIGTERM or
exit.  `SSH` separates the program's own steps (`ProgramSteps`, fair in `Spec`)
from those that wait for the peer under no timer (`PeerSteps`); the run `ssh`
checks `CallsReturn` under `SpecWithLivePeers`, the run `ssh_handshake` shows what
happens without it.  `ControlServer`: goroutines that can run do (`Fairness`), and
clients leave in the end (`ClientsLeave`, kept apart because the code does not
enforce it: no handler looks at the context, and a client that stays is waited
for).  Starting a call is never fair.

Every property of a passing run has a mutant: a named variant of one action or
operator, as a plausible bug would change it, with which TLC finds the property
violated.  They stand before the definitions they vary.

### Disagreements between code and text

Four runs expect a violation; each is a finding in `PROJECT.json` with the
quoted line.

- `core_disconnect_all`: disconnecting with an empty host reaches the SSH runner only.
- `ssh_handshake`: the connect timeout does not reach the handshake.
- `local_reader`: the reader goroutine stays behind when a session ends with a full channel.
- `gate_blocks`: a script block that is an argument of its own, as in `Where-Object { $_.Id -eq 4625 }`, is
  sent in quotes, and PowerShell reads a string.

### Known divergences without a run

Core, where handlers overlap; the histories of `Core` mark these cases:

- Execute reads the shell and the transport at two moments (`server.go:398` and
  `445`).  With a connect over another transport in between, text of one dialect goes to
  the other shell.
- A disconnect between a runner's Connect and `setConnected` (`server.go:293` and `302`)
  leaves the host listed without a client; a probe result or toolkit flag that is stored after
  `clearHostState` outlives the entry.
- A connect of the control socket that overlaps Close, or follows it, leaves its
  connection open, while `shellguard.go:132` says that all SSH connections are closed when `RunStdio`
  returns.  Nothing waits for the control server (`shellguard.go:143`).
- The control socket answers "connected" although a disconnect came while Core
  probed the host (`server.go:302` to `328`).

One call is enough for these:

- A command without a host name, when the only host is a local one: Core validates for that host and
  labels the result with it (`server.go:467`), but passes the empty name on (`445`), and the local
  executor finds no session under it and runs a fresh `sh` (`local.go:130`).  The tool's text lets the
  name be omitted (`server.go:139`).
- The result of every command in a PTY session begins with the newline of the marker before it
  (see LocalSession).
- A dead SSH client stays in the map, and on Core's list, until its host is disconnected or
  connected again: `ssh.go:206` retries on the same client.
- `wordToString` strips one pair of quotes around a word and nothing else: a word of several parts
  keeps its inner quotes, an escape its backslash, and an empty word disappears.
  `docs/ARCHITECTURE.md:55` says that quotes are stripped to semantic values.
- `PowerShellQuote` sees a value's text without its quotes.  A string that begins with `-` or `@{`, reads
  like `$env:NAME` or contains a comma and nothing unsafe is sent bare, and PowerShell reads a flag, a hashtable,
  a variable or a list.  A list with an unsafe element and without a hashtable is sent as one
  string, a list that begins with a hashtable without any quotes; and `renderHashtable` writes a list of strings in an entry without
  their quotes (`powershell.go:878`).

Two more properties are stated in the modules and do not hold of the code in
general; TLC refutes each in a few steps when it is added to a configuration.

- `WinRM.ConnectMeansConnected`: between `close(done)` and `delete(dialing)`
  (`winrm.go:214`) a connect joins a dial that is over, whose connection a
  disconnect may have closed.
- `LocalSession.StatelessConnect`: connecting without a command keeps an earlier
  persistent session (`local.go:66`), although `local.go:25` says otherwise.

## Proofs

All proofs are for any values of the constants under the modules' named
assumptions: the "none" values lie outside the sets they extend, sets that must
be finite are, bounds are natural numbers.

`CoreProofs` proves, for any sets of calls, hosts and tools, `TypeOK`,
`ToolkitPathExists`, `ProbeCoversMissing` and `ClaimFromProbeIsTrue` of every
interleaving.  None is inductive: a flag or probe result is learnt in one step and
stored in a later one.  `IndInv` adds, per call and label, what the call is about to
store (`CallInv`): a call at `storeDir` has seen the directory, one at `storeProbe`
holds a result that covers the missing tools, and so on.  The proof has one lemma
per handler and one step per action.

The second half of `CoreProofs` proves `RegisteredIsConnected`, `NoStateWithoutEntry`,
`DialectMatchesRunner` and `ClosedIsClean` (theorems `EntriesAreConnected`, `StateHasAnEntry`,
`DialectsMatch`, `CloseIsClean`), again for any number of calls that overlap in any way.  Their invariant
`AgreeInv` says what a call holds on to between two of its steps, as long as nobody has overtaken it:
an entry has its client, or a Disconnect or Close that has dropped it is about to clear the entry
(`Clearing`), and a connect about to make an entry has a client for it (`EntriesFit`); the dialect a command
was validated for is still that of its host, then that of the runner picked for it (`DialectFits`);
at each label of Close certain runners hold late connections only (`CloseFits`).  There is
one lemma per handler (`ConnectAgrees`, `ExecuteAgrees`, `ProvisionAgrees`, `DisconnectAgrees`).

`WinRMProofs` proves, for any sets of callers, hosts and attempts, the
safety properties and the refinement of `NTLMSession`.  `IndInv` has four parts:
types, turns (`TurnInv`: the slot is taken exactly while its holder runs), dials
(`DialInv`: at most one per host, on an attempt of its own, as long as its entry
stands) and outcomes (`OutcomeInv`: what `done`, `err` and `stored` say at each
point of a dial).  Names in use are never reallocated because `Unused` asks every
map and every call.

`SSHProofs` proves the five safety properties of `SSH`, for any numbers of callers, hosts,
clients, keys and retries.  `Sound` says which operation may stand at which label and
how often its command has been started (the bound on resends is inductive only with the
label that is about to start one); `ClientInv` says whose a client is that nobody has closed, whether or
not its transport is up: the map's, for one host, or that of exactly one call at `store`.

`LocalProofs` proves `TypeOK`, `NoOrphanProgram` and `OutputIsOwn`, for any number of
callers, hosts, sessions and commands, any length of output and any channel.  It is the longest
proof, and its invariant has three layers.  `CallsInv`: types, and per label which
fields of a call are set.  `LocksInv`: exactly the calls at certain labels hold the executor's and
the session's lock, and a session under construction is its constructor's
alone (`Private`).  `PipeInv` is about the data: between the program and the scan,
what lies in the accumulator, the channel, the reader and the PTY is one stretch of what the
command under way prints, each container beginning where the one before it
ends (`Stretch`), and between two commands all that is left is the newline behind the last exit
code, wherever it lies (`Clean`).  So a scan
finds the marker of its own command, although a marker's text names no command, because
a session in which a scan gave up is never used again.
TLC checked the invariant on two instances before the proof, with a channel of 2 and two
outputs, and with two hosts and two sessions.

`ControlProofs` proves `TypeOK`, `ReturnsAfterHandlers`, `AddressIsPublished` and
`ToldIsConnected` for any number of processes, clients, hosts and lines.  The invariant
ties a connection's label to its server's stage, the wait group to the handlers
that run, and what a client was told to the handler's answer at hand:
what is told, about to be told or about to be returned is true, or its host was cut off since
(`TellsTheTruth`).

`ToolCacheProofs` proves `TypeOK`, `CacheIsPinned`, `TempsAreOwned` and
`DeployedIsWhole` for any number of calls, tools, files, chunks and crashes.  The
invariant has two halves.  `CacheInv`: a temporary file has one name and one
call until it is renamed (`TempIsPrivate`, `TempNamesDiffer`), at each label it
holds what has been written so far (`TempIsWritten`), and what is sent is complete
(`SentIsComplete`).  `RemoteInv`: a call that uploads alone has written the remote
file up to its own offset (`AloneIsAlone`), and a file that nobody disturbed is
being written by such a call (`UndisturbedIsAlone`).  Four lemmas state the ways a
call can step (to rest, on to the next chunk, to the clean-up, on its file); each
action is an instance of one of them, save the three that change the directory or
open a cached file.

`DownloadProofs` proves `DownloadTypeOK`, `FailedLeavesNothing`, `ReportedFileIsThere` and the action property
`OldFilesStay`, for any number of calls, files, names and chunks.  `NamesInv`: a
file has one name, a call's file no other than the call's, and neither is an old one.
`RivalsInv`: a call that never shared its name has no other call at work under it, its file
stays in place, and what it has copied is its own.  The assumption on the constants
(`ParametersAssumption`) is evaluated by the run `transfers`.

`GateProofs` proves four of the six properties of `Gate`, for every registry, every pair
of parsers that meet `GateAssumption` and texts of every length.  A loop is a function of its
round, and what it computes is proved by `LoopRule`: an invariant per number of rounds that
each round takes to the next.  The induction under it is done here and not cited: a set of
numbers with a member has a least one (`LeastMember`), because its initial intervals are finite
sets and finite sets are well-founded under inclusion.  From there:

- `AcceptanceIsRight`: the walk over the arguments gives each token its role
  (`WalkSkipsValues`, `ArgsAreJudged`), so do bundles (`BundleIsAllowed`), the requirement of a flag
  (`RequirementIsJudged`) and the search of the wrappers for their command (`RoundsOfWrappers`,
  `UnwrapFollowsStart`).  For psql the scanner's depth and quotes are those of the text
  (`DepthByDepth`, `QuoteByQuote`), it finds the end of each CTE (`CloseIsFound`), and
  no keyword that writes is left inside one or behind them (`NothingWritesInside`).
- `BashReadsItBack`: what `ShellQuote` makes of a word, a shell reads as that word
  (`SafeWordIsRead`, `QuotedWordIsRead`, where each quote in the word closes, escapes and opens again),
  the words of a command in order (`WordsAreRead`), the commands of a pipeline with their operators
  (`SegmentsAreRead`), and it is through after as many rounds as the text has characters (`LineIsReadToItsEnd`).
- `TimeoutIsLongEnough`: the loop's maximum covers every name it looked up
  (`TimeoutIsLongest`), and what the validator found for a command, also by folding
  case, is one of these names.
- `ResultIsRight`: the tail begins beyond the last byte that the separator overwrites
  (`TailIsNotOverwritten`), for every text, limit and separator.

`GateInv` ties them to the steps: each manifest stands under its own name (`RegistryType`), a parsed
command is a pipeline (`CallType`), what is sent is that pipeline's text and has the time of every
manifest of its commands (`SentType`), and what was printed is kept for the result (`PrintedType`).
The first three theorems have a hypothesis beside the assumptions, `STRING = Seq(Character)` or
`\subseteq`: that a string is a sequence of characters, which is how the TLA+ book defines
strings and what the prover is not told.

The type invariants of `Core`, `WinRM`, `SSH`, `ControlServer`, `ToolCache` and `Download` are proved and
not run.

Model-checked only:

- `HostReadsWhatWasMeant`: the parsers' and PowerShell's walks over trees are recursive operators, which
  this prover cannot use.
- `RequiredFlagsUsable`: it is about the manifests at hand and not about all, since a
  command with rules of its own (a manifest named `psql` that asks for another flag than `-c`) can
  be unusable.
- Every liveness property (`CallsReturn` of `SSH` and of `LocalSession`, `ConnectReturns`,
  `WaitersProceed`, `ServerStops`): leads-to under fairness is outside its reach.
- The four expected violations.

## Not modelled, and the plan

Not modelled:

- The system ssh dialer: whether a client works depends on the ControlMaster
  process of another program, and the code around it starts and stops processes.
- Authentication methods and ssh_config resolution: a stateless preparation of a
  dial, whose outcome is the failure branch of `Authenticate`.
- `winrm/fileclient.go` and `clixml.go`: Core does not reach the file client; the
  decoding of errors is text processing.
- Config loading, flag parsing, logging, the MCP schema and tool wiring, `Sleep` and `Status`:
  no state, or state that nothing else reads.
- In the parsers: lexing, comments, limits on length, and the wording of errors; a model
  command is a tree.  In the renderers: the `PATH` and `PGOPTIONS` prefixes and the wrapping for
  the WinRM wire.  A blank command, refused before it is parsed.
- In the toolkit: the operator's override directory and the inside of archives.

Planned, in this order:

1. An abstract registry that Core refines when calls do not overlap.
2. PowerShell's quoting (`PowerShellQuote`, `PowerShellReads`) as rounds like those of `BashText`, so that
   its round trip can be proved too.
3. The system dialer's shared control socket, as far as the code's own steps go.
