-------------------------------- MODULE SSH --------------------------------
(***************************************************************************)
(* ssh.SSHManager over the native dialer (XCryptoDialer), with its three   *)
(* ways to check a host key.  Connect dials with retries and puts the      *)
(* client into the map; Execute captures a client and may send the command *)
(* again on a retriable error; ExecuteRaw and SFTPSession try once.  One   *)
(* action is one section under the manager's mutex, one exchange with the  *)
(* peer or one file access.  The peer or the network may end a client's    *)
(* transport at any moment: the manager is not told, and keeps the client  *)
(* until a Disconnect or another Connect to the host.                      *)
(*                                                                         *)
(* A client's name is used again once nothing refers to it.  Which errors  *)
(* are retriable is left open, except where isRetriable decides by type.   *)
(***************************************************************************)
EXTENDS Naturals

CONSTANTS
    Callers,    \* concurrent calls on the manager
    Hosts,      \* host names
    Clients,    \* names for dialled clients
    Keys,       \* host keys
    Retries,    \* SSHManager.retries
    None

ASSUME NoneAssumption == None \notin Clients \cup Hosts \cup Keys
ASSUME RetriesAssumption == Retries \in Nat

VARIABLES
    connections,    \* SSHManager.connections
    open,           \* the clients dialled and not closed by the program
    lost,           \* those of them whose transport the peer or the network ended
    known,          \* known_hosts: the keys on record for each host
    mode,           \* XCryptoDialer.HostKeyMode
    hostKey,        \* the key each server presents
    caller          \* where each call stands

vars == <<connections, open, lost, known, mode, hostKey, caller>>

\* op: "connect" and "execute" have retries, "raw" and "sftp" have not; ran is
\* history: how often the command was started.
Idle == [pc |-> "idle", op |-> "connect", host |-> None, client |-> None,
         key |-> None, attempt |-> 0, ran |-> 0]

Modes == {"accept-new", "strict", "off"}

Labels == {"idle", "dial", "verify", "record", "auth", "store", "backoff", "session", "run"}

Locals == [pc : Labels, op : {"connect", "execute", "raw", "sftp"}, host : Hosts \cup {None},
           client : Clients \cup {None}, key : Keys \cup {None},
           attempt : 0..Retries, ran : 0..(Retries + 1)]

Init ==
    /\ connections = [h \in Hosts |-> None]
    /\ open = {}
    /\ lost = {}
    /\ known \in [Hosts -> {{}} \cup {{k} : k \in Keys}]
    /\ mode \in Modes
    /\ hostKey \in [Hosts -> Keys]
    /\ caller = [c \in Callers |-> Idle]

At(c, label) == caller[c].pc = label
Goto(c, label) == caller' = [caller EXCEPT ![c].pc = label]
Return(c) == caller' = [caller EXCEPT ![c] = Idle]

Usable(k) == k \in open \ lost

\* Client.Close on each of ks that is not closed already.
Close(ks) == open' = open \ ks /\ lost' = lost \ ks

Unused(k) ==
    /\ k \notin open
    /\ \A h \in Hosts : connections[h] # k
    /\ \A c \in Callers : caller[c].client # k

\* An attempt failed: another one after a back-off if the error is retriable
\* and an attempt is left, else the error is returned.
Failed(c) ==
    \/ /\ caller[c].op \in {"connect", "execute"} /\ caller[c].attempt < Retries
       /\ Goto(c, "backoff")
    \/ Return(c)

\* Mutant: the attempt is not counted.
NextAttemptUncounted(c) ==
    /\ At(c, "backoff")
    /\ Goto(c, IF caller[c].op = "connect" THEN "dial" ELSE "session")
    /\ UNCHANGED <<connections, open, lost, known, mode, hostKey>>

\* Mutant: only a command's attempts are counted.
NextAttemptCountingCommands(c) ==
    /\ At(c, "backoff")
    /\ IF caller[c].op = "connect" THEN Goto(c, "dial")
       ELSE caller' = [caller EXCEPT ![c].attempt = @ + 1, ![c].pc = "session"]
    /\ UNCHANGED <<connections, open, lost, known, mode, hostKey>>

\* sleepWithContext, and round the loop.
NextAttempt(c) ==
    /\ At(c, "backoff")
    /\ caller' = [caller EXCEPT ![c].attempt = @ + 1,
                    ![c].pc = IF caller[c].op = "connect" THEN "dial" ELSE "session"]
    /\ UNCHANGED <<connections, open, lost, known, mode, hostKey>>

BackoffCancelled(c) ==
    /\ At(c, "backoff")
    /\ Return(c)
    /\ UNCHANGED <<connections, open, lost, known, mode, hostKey>>

-----------------------------------------------------------------------------
(* Connect                                                                 *)

BeginConnect(c) ==
    /\ At(c, "idle")
    /\ \E h \in Hosts : caller' = [caller EXCEPT ![c] = [Idle EXCEPT !.pc = "dial", !.host = h]]
    /\ UNCHANGED <<connections, open, lost, known, mode, hostKey>>

\* DialContext; the operating system bounds it.
TCPConnect(c) ==
    /\ At(c, "dial")
    /\ Goto(c, "verify") \/ Failed(c)
    /\ UNCHANGED <<connections, open, lost, known, mode, hostKey>>

\* Mutant: an unknown host is accepted without being recorded.
VerifyHostKeyForgetting(c) ==
    LET h == caller[c].host IN
    /\ At(c, "verify") /\ mode = "accept-new"
    /\ \/ /\ known[h] = {} \/ hostKey[h] \in known[h]
          /\ caller' = [caller EXCEPT ![c].pc = "auth", ![c].key = hostKey[h]]
       \/ /\ known[h] # {} /\ hostKey[h] \notin known[h]
          /\ Return(c)
       \/ Failed(c)
    /\ UNCHANGED <<connections, open, lost, known, mode, hostKey>>

\* The callback of accept-new: the peer's key arrives and is looked up in
\* known_hosts.  A host on record with another key is a HostKeyError, which is
\* never retried.
VerifyHostKey(c) ==
    LET h == caller[c].host IN
    /\ At(c, "verify") /\ mode = "accept-new"
    /\ \/ /\ known[h] = {} \/ hostKey[h] \in known[h]
          /\ caller' = [caller EXCEPT ![c].key = hostKey[h],
                          ![c].pc = IF known[h] = {} THEN "record" ELSE "auth"]
       \/ /\ known[h] # {} /\ hostKey[h] \notin known[h]
          /\ Return(c)
       \/ Failed(c)
    /\ UNCHANGED <<connections, open, lost, known, mode, hostKey>>

\* The callback of the strict mode, which Dial makes from the file: nobody
\* writes the file in this mode.  Its error is of no retriable kind.
VerifyStrictly(c) ==
    LET h == caller[c].host IN
    /\ At(c, "verify") /\ mode = "strict"
    /\ \/ /\ hostKey[h] \in known[h]
          /\ caller' = [caller EXCEPT ![c].pc = "auth", ![c].key = hostKey[h]]
       \/ /\ hostKey[h] \notin known[h]
          /\ Return(c)
       \/ Failed(c)
    /\ UNCHANGED <<connections, open, lost, known, mode, hostKey>>

\* InsecureIgnoreHostKey.
VerifyNothing(c) ==
    /\ At(c, "verify") /\ mode = "off"
    /\ Goto(c, "auth") \/ Failed(c)
    /\ UNCHANGED <<connections, open, lost, known, mode, hostKey>>

\* appendKnownHost: the file was read in another step, and each Dial has a
\* callback and a mutex of its own.
RecordHostKey(c) ==
    /\ At(c, "record")
    /\ \/ /\ known' = [known EXCEPT ![caller[c].host] = @ \cup {caller[c].key}]
          /\ Goto(c, "auth")
       \/ /\ Failed(c)
          /\ UNCHANGED known
    /\ UNCHANGED <<connections, open, lost, mode, hostKey>>

\* The rest of the handshake: a client, or an error and the socket is closed.
Authenticate(c) ==
    /\ At(c, "auth")
    /\ \/ \E k \in {x \in Clients : Unused(x)} :
            /\ open' = open \cup {k}
            /\ caller' = [caller EXCEPT ![c].pc = "store", ![c].client = k]
       \/ /\ Failed(c)
          /\ UNCHANGED open
    /\ UNCHANGED <<connections, lost, known, mode, hostKey>>

\* Mutant: the host's old client is not closed.
StoreLeaking(c) ==
    /\ At(c, "store")
    /\ connections' = [connections EXCEPT ![caller[c].host] = caller[c].client]
    /\ Return(c)
    /\ UNCHANGED <<open, lost, known, mode, hostKey>>

Store(c) ==
    LET h == caller[c].host IN
    /\ At(c, "store")
    /\ Close({connections[h]})
    /\ connections' = [connections EXCEPT ![h] = caller[c].client]
    /\ Return(c)
    /\ UNCHANGED <<known, mode, hostKey>>

-----------------------------------------------------------------------------
(* Execute, ExecuteRaw and SFTPSession                                     *)

\* ResolveConnection: a named host's client, or the only one.
Resolved(h) ==
    LET live == {g \in Hosts : connections[g] # None}
    IN  IF h # None THEN {connections[h]} \ {None}
        ELSE {connections[g] : g \in {x \in live : live = {x}}}

BeginExecute(c) ==
    /\ At(c, "idle")
    /\ \E h \in Hosts \cup {None}, op \in {"execute", "raw", "sftp"} : \E k \in Resolved(h) :
         caller' = [caller EXCEPT ![c] = [Idle EXCEPT !.pc = "session", !.op = op, !.client = k]]
    /\ UNCHANGED <<connections, open, lost, known, mode, hostKey>>

\* NewSession on the captured client, which may be closed or dead by now.
NewSession(c) ==
    /\ At(c, "session") /\ caller[c].op # "sftp" /\ Usable(caller[c].client)
    /\ \/ caller' = [caller EXCEPT ![c].pc = "run", ![c].ran = @ + 1]
       \/ Failed(c)
    /\ UNCHANGED <<connections, open, lost, known, mode, hostKey>>

\* sftp.NewClient: the session is the caller's, and ends with the client.
OpenSFTP(c) ==
    /\ At(c, "session") /\ caller[c].op = "sftp" /\ Usable(caller[c].client)
    /\ Return(c)
    /\ UNCHANGED <<connections, open, lost, known, mode, hostKey>>

\* Client.Execute and SFTPSession on a client that was closed, or whose
\* transport is gone.
NewSessionOnClosed(c) ==
    /\ At(c, "session") /\ ~Usable(caller[c].client)
    /\ Failed(c)
    /\ UNCHANGED <<connections, open, lost, known, mode, hostKey>>

\* The command's result, its timeout (retriable) or the error of a transport
\* that is lost.
RunEnds(c) ==
    /\ At(c, "run")
    /\ Return(c) \/ Failed(c)
    /\ UNCHANGED <<connections, open, lost, known, mode, hostKey>>

-----------------------------------------------------------------------------

\* Mutant: Disconnect closes the client and keeps the entry.
DisconnectKeepingEntry(c) ==
    /\ At(c, "idle")
    /\ \E gone \in {{h} : h \in Hosts} \cup {Hosts} :
         Close({connections[h] : h \in gone})
    /\ UNCHANGED <<connections, known, mode, hostKey, caller>>

\* One host's client, or all of them.
Disconnect(c) ==
    /\ At(c, "idle")
    /\ \E gone \in {{h} : h \in Hosts} \cup {Hosts} :
         /\ Close({connections[h] : h \in gone})
         /\ connections' = [h \in Hosts |-> IF h \in gone THEN None ELSE connections[h]]
    /\ UNCHANGED <<known, mode, hostKey, caller>>

\* The environment: a server is given another host key.
Rekey(h) ==
    /\ \E k \in Keys \ {hostKey[h]} : hostKey' = [hostKey EXCEPT ![h] = k]
    /\ UNCHANGED <<connections, open, lost, known, mode, caller>>

\* The environment: the peer hangs up or the network fails.  Nothing in the
\* manager watches a transport, so its map stays as it is.
LoseTransport(k) ==
    /\ Usable(k)
    /\ lost' = lost \cup {k}
    /\ UNCHANGED <<connections, open, known, mode, hostKey, caller>>

Verify(c) == VerifyHostKey(c) \/ VerifyStrictly(c) \/ VerifyNothing(c)

Connect(c) ==
    \/ BeginConnect(c) \/ TCPConnect(c) \/ Verify(c) \/ RecordHostKey(c)
    \/ Authenticate(c) \/ Store(c)

Execute(c) ==
    \/ BeginExecute(c) \/ NewSession(c) \/ OpenSFTP(c) \/ NewSessionOnClosed(c)
    \/ RunEnds(c)

Next ==
    \/ \E c \in Callers : Connect(c) \/ Execute(c) \/ NextAttempt(c) \/ BackoffCancelled(c)
                            \/ Disconnect(c)
    \/ \E h \in Hosts : Rekey(h)
    \/ \E k \in Clients : LoseTransport(k)

\* What goes on without the peer: timers, the operating system's bound on a
\* TCP connect, the command's own timeout.
ProgramSteps(c) ==
    \/ TCPConnect(c) \/ RecordHostKey(c) \/ Store(c) \/ NextAttempt(c)
    \/ NewSessionOnClosed(c) \/ RunEnds(c)

\* What waits for the peer, under no timer of the program.
PeerSteps(c) == Verify(c) \/ Authenticate(c) \/ NewSession(c) \/ OpenSFTP(c)

Spec == Init /\ [][Next]_vars /\ \A c \in Callers : WF_vars(ProgramSteps(c))

SpecWithLivePeers == Spec /\ \A c \in Callers : WF_vars(PeerSteps(c))

-----------------------------------------------------------------------------
(* Properties                                                              *)

TypeOK ==
    /\ connections \in [Hosts -> Clients \cup {None}]
    /\ open \subseteq Clients
    /\ lost \subseteq open
    /\ known \in [Hosts -> SUBSET Keys]
    /\ mode \in Modes
    /\ hostKey \in [Hosts -> Keys]
    /\ caller \in [Callers -> Locals]

\* The clients the manager answers for: each host's, and those about to be
\* stored.
Owners(k) ==
    {h \in Hosts : connections[h] = k} \cup {c \in Callers : At(c, "store") /\ caller[c].client = k}

\* No client that is not closed is ever out of the manager's reach, dead
\* ones included, so that Disconnect can close it: whatever is replaced,
\* retried, cancelled or cut off meanwhile (SSHManager.Connect, Disconnect).
NoLeakedClient == \A k \in open : Owners(k) # {}

\* The converse: a host's entry is a client nobody has closed, and belongs to
\* that host alone, so that closing one host's client never ends another's
\* session and Execute is never handed a client the manager itself closed
\* (Connect and Disconnect close and replace under one lock).  The transport
\* may be gone: a dead client stays in the map.
EntriesAreUnclosed ==
    \A h \in Hosts : connections[h] # None =>
        connections[h] \in open /\ Owners(connections[h]) = {h}

\* A command is started again only by the retry loop: at most Retries times
\* more, and never for ExecuteRaw (the probes of Core.Connect).
BoundedResend ==
    \A c \in Callers :
        /\ caller[c].ran <= caller[c].attempt + 1
        /\ caller[c].ran <= Retries + 1
        /\ caller[c].op = "raw" => caller[c].ran <= 1

\* A client comes only from a server whose key is on record by then, unless
\* checking is off (tofuCallback and the strict callback).
KeyIsOnRecord ==
    mode # "off" => \A c \in Callers :
        At(c, "auth") \/ At(c, "store") => caller[c].key \in known[caller[c].host]

\* Every call returns, provided the peers answer.
CallsReturn == \A c \in Callers : ~At(c, "idle") ~> At(c, "idle")

\* "TCP + SSH handshake timeout": a dial ends whatever the peer does.
Dialing(c) == caller[c].pc \in {"dial", "verify", "record", "auth"}
DialEnds == \A c \in Callers : Dialing(c) ~> ~Dialing(c)
=============================================================================
