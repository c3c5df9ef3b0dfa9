------------------------------- MODULE WinRM -------------------------------
(***************************************************************************)
(* winrm.WinRMManager and winrmClient.  Connect is single-flight: the      *)
(* first caller for a host dials, callers that arrive meanwhile wait on    *)
(* its dialAttempt.  Execute takes a turn on the client's one-slot channel *)
(* before it runs.  One action is one section under the manager's mutex,   *)
(* one channel operation or one wire call.                                 *)
(*                                                                         *)
(* A dial makes one dialAttempt and one client; both carry the same name   *)
(* here.  A name is used again only when nothing refers to it any more.    *)
(***************************************************************************)
EXTENDS FiniteSets

CONSTANTS
    Callers,    \* concurrent calls on the manager
    Hosts,      \* host names
    Attempts,   \* names for dialAttempts and the clients they make
    None

ASSUME NoneAssumption == None \notin Attempts \cup Hosts

VARIABLES
    dialing,        \* WinRMManager.dialing
    connections,    \* WinRMManager.connections
    attempt,        \* the dialAttempts; "stored" is history: its client got into the map
    sem,            \* winrmClient.sem: whether its slot is taken
    caller          \* where each call stands

vars == <<dialing, connections, attempt, sem, caller>>

\* "saw" is history: the host was connected at some moment of this Connect.
Idle == [pc |-> "idle", host |-> None, att |-> None, err |-> FALSE, saw |-> FALSE]

Labels == {"idle", "join", "dial", "store", "setErr", "closeDone", "cleanup",
           "connected", "failed", "wait", "run", "release"}

Locals == [pc : Labels, host : Hosts \cup {None}, att : Attempts \cup {None},
           err : BOOLEAN, saw : BOOLEAN]

Init ==
    /\ dialing = [h \in Hosts |-> None]
    /\ connections = [h \in Hosts |-> None]
    /\ attempt = [a \in Attempts |-> [done |-> FALSE, err |-> FALSE, stored |-> FALSE]]
    /\ sem = [a \in Attempts |-> FALSE]
    /\ caller = [c \in Callers |-> Idle]

At(c, label) == caller[c].pc = label
Goto(c, label) == caller' = [caller EXCEPT ![c].pc = label]
Return(c) == caller' = [caller EXCEPT ![c] = Idle]

Unused(a) ==
    /\ \A h \in Hosts : dialing[h] # a /\ connections[h] # a
    /\ \A c \in Callers : caller[c].att # a

-----------------------------------------------------------------------------
(* Connect                                                                 *)

BeginConnect(c) ==
    /\ At(c, "idle")
    /\ \E h \in Hosts :
         LET begun(pc, a) == [caller EXCEPT ![c] =
                 [Idle EXCEPT !.pc = pc, !.host = h, !.att = a, !.saw = connections[h] # None]]
         IN  \/ /\ dialing[h] # None
                /\ caller' = begun("join", dialing[h])
                /\ UNCHANGED <<dialing, attempt, sem>>
             \/ /\ dialing[h] = None
                /\ \E a \in {x \in Attempts : Unused(x)} :
                     /\ dialing' = [dialing EXCEPT ![h] = a]
                     /\ attempt' = [attempt EXCEPT ![a] =
                                      [done |-> FALSE, err |-> FALSE, stored |-> FALSE]]
                     /\ sem' = [sem EXCEPT ![a] = FALSE]
                     /\ caller' = begun("dial", a)
    /\ UNCHANGED connections

\* select: attempt.done, and then its err, ...
JoinDone(c) ==
    /\ At(c, "join")
    /\ attempt[caller[c].att].done
    /\ Goto(c, IF attempt[caller[c].att].err THEN "failed" ELSE "connected")
    /\ UNCHANGED <<dialing, connections, attempt, sem>>

\* Mutant: a joiner that gives up deletes the dialing entry.
JoinCancelledDeleting(c) ==
    /\ At(c, "join")
    /\ dialing' = [dialing EXCEPT ![caller[c].host] = None]
    /\ Return(c)
    /\ UNCHANGED <<connections, attempt, sem>>

\* ... or the caller's own context.
JoinCancelled(c) ==
    /\ At(c, "join")
    /\ Return(c)
    /\ UNCHANGED <<dialing, connections, attempt, sem>>

\* dialOnce up to the connectivity test: the new client is not shared yet,
\* so the test command's turn on it is uncontended.
DialOnce(c) ==
    /\ At(c, "dial")
    /\ \/ Goto(c, "store")
       \/ caller' = [caller EXCEPT ![c].pc = "setErr", ![c].err = TRUE]
    /\ UNCHANGED <<dialing, connections, attempt, sem>>

Store(c) ==
    LET h == caller[c].host IN
    /\ At(c, "store")
    /\ connections' = [connections EXCEPT ![h] = caller[c].att]
    /\ attempt' = [attempt EXCEPT ![caller[c].att].stored = TRUE]
    /\ caller' = [d \in Callers |->
                    IF d = c THEN [caller[c] EXCEPT !.pc = "setErr", !.saw = TRUE]
                    ELSE IF caller[d].host = h THEN [caller[d] EXCEPT !.saw = TRUE]
                    ELSE caller[d]]
    /\ UNCHANGED <<dialing, sem>>

\* Mutant: the attempt's err is never set.
SetErrForgotten(c) ==
    /\ At(c, "setErr")
    /\ Goto(c, "closeDone")
    /\ UNCHANGED <<dialing, connections, attempt, sem>>

SetErr(c) ==
    /\ At(c, "setErr")
    /\ attempt' = [attempt EXCEPT ![caller[c].att].err = caller[c].err]
    /\ Goto(c, "closeDone")
    /\ UNCHANGED <<dialing, connections, sem>>

\* Mutant: done is closed only after a success.
CloseDoneOnSuccess(c) ==
    /\ At(c, "closeDone")
    /\ attempt' = [attempt EXCEPT ![caller[c].att].done = ~caller[c].err]
    /\ Goto(c, "cleanup")
    /\ UNCHANGED <<dialing, connections, sem>>

CloseDone(c) ==
    /\ At(c, "closeDone")
    /\ attempt' = [attempt EXCEPT ![caller[c].att].done = TRUE]
    /\ Goto(c, "cleanup")
    /\ UNCHANGED <<dialing, connections, sem>>

\* Mutant: a failed dial returns before the cleanup.
CleanupOnSuccess(c) ==
    /\ At(c, "cleanup")
    /\ dialing' = [dialing EXCEPT ![caller[c].host] = IF caller[c].err THEN @ ELSE None]
    /\ Goto(c, IF caller[c].err THEN "failed" ELSE "connected")
    /\ UNCHANGED <<connections, attempt, sem>>

Cleanup(c) ==
    /\ At(c, "cleanup")
    /\ dialing' = [dialing EXCEPT ![caller[c].host] = None]
    /\ Goto(c, IF caller[c].err THEN "failed" ELSE "connected")
    /\ UNCHANGED <<connections, attempt, sem>>

FinishConnect(c) ==
    /\ caller[c].pc \in {"connected", "failed"}
    /\ Return(c)
    /\ UNCHANGED <<dialing, connections, attempt, sem>>

-----------------------------------------------------------------------------
(* Execute                                                                 *)

\* resolveConnection: a named host's client, or the only one.
Resolved(h) ==
    IF h # None THEN {connections[h]} \ {None}
    ELSE LET live == {g \in Hosts : connections[g] # None}
         IN  IF Cardinality(live) = 1 THEN {connections[g] : g \in live} ELSE {}

BeginExecute(c) ==
    /\ At(c, "idle")
    /\ \E h \in Hosts \cup {None} : \E a \in Resolved(h) :
         caller' = [caller EXCEPT ![c] = [Idle EXCEPT !.pc = "wait", !.att = a]]
    /\ UNCHANGED <<dialing, connections, attempt, sem>>

\* Mutant: the channel has room for everyone.
TakeTurnUnbounded(c) ==
    /\ At(c, "wait")
    /\ sem' = [sem EXCEPT ![caller[c].att] = TRUE]
    /\ Goto(c, "run")
    /\ UNCHANGED <<dialing, connections, attempt>>

\* select: a slot in sem, ...
TakeTurn(c) ==
    /\ At(c, "wait")
    /\ ~sem[caller[c].att]
    /\ sem' = [sem EXCEPT ![caller[c].att] = TRUE]
    /\ Goto(c, "run")
    /\ UNCHANGED <<dialing, connections, attempt>>

\* Mutant: the release is deferred before the select.
WaitCancelledReleasing(c) ==
    /\ At(c, "wait")
    /\ sem' = [sem EXCEPT ![caller[c].att] = FALSE]
    /\ Return(c)
    /\ UNCHANGED <<dialing, connections, attempt>>

\* ... or the request's context; a cancelled waiter has no slot to give back.
WaitCancelled(c) ==
    /\ At(c, "wait")
    /\ Return(c)
    /\ UNCHANGED <<dialing, connections, attempt, sem>>

\* Mutant: an error returns without giving the turn back.
RunEndsLosingTurn(c) ==
    /\ At(c, "run")
    /\ Goto(c, "release") \/ Return(c)
    /\ UNCHANGED <<dialing, connections, attempt, sem>>

\* The wire call ends: with a result, an error, a timeout or a cancellation.
RunEnds(c) ==
    /\ At(c, "run")
    /\ Goto(c, "release")
    /\ UNCHANGED <<dialing, connections, attempt, sem>>

GiveTurnBack(c) ==
    /\ At(c, "release")
    /\ sem' = [sem EXCEPT ![caller[c].att] = FALSE]
    /\ Return(c)
    /\ UNCHANGED <<dialing, connections, attempt>>

-----------------------------------------------------------------------------
(* Disconnect: drops the entry; the client needs no closing.               *)

Disconnect(c) ==
    /\ At(c, "idle")
    /\ \E gone \in {{h} : h \in Hosts} \cup {Hosts} :
         connections' = [h \in Hosts |-> IF h \in gone THEN None ELSE connections[h]]
    /\ UNCHANGED <<dialing, attempt, sem, caller>>

-----------------------------------------------------------------------------

Connect(c) ==
    \/ BeginConnect(c) \/ JoinDone(c) \/ JoinCancelled(c) \/ DialOnce(c) \/ Store(c)
    \/ SetErr(c) \/ CloseDone(c) \/ Cleanup(c) \/ FinishConnect(c)

Execute(c) ==
    BeginExecute(c) \/ TakeTurn(c) \/ WaitCancelled(c) \/ RunEnds(c) \/ GiveTurnBack(c)

Next == \E c \in Callers : Connect(c) \/ Execute(c) \/ Disconnect(c)

\* A call that can go on does: a dial and a command are bounded by timeouts,
\* and a channel serves its blocked senders in turn (hence SF for the turn).
Fairness ==
    \A c \in Callers :
        /\ WF_vars(DialOnce(c) \/ Store(c) \/ SetErr(c) \/ CloseDone(c) \/ Cleanup(c))
        /\ WF_vars(JoinDone(c)) /\ WF_vars(FinishConnect(c))
        /\ SF_vars(TakeTurn(c)) /\ WF_vars(RunEnds(c) \/ GiveTurnBack(c))

Spec == Init /\ [][Next]_vars /\ Fairness

-----------------------------------------------------------------------------
(* Properties                                                              *)

Dialing(c) == caller[c].pc \in {"dial", "store", "setErr", "closeDone", "cleanup"}

\* Types; a call under way holds an attempt or a client, never nil.
TypeOK ==
    /\ dialing \in [Hosts -> Attempts \cup {None}]
    /\ connections \in [Hosts -> Attempts \cup {None}]
    /\ attempt \in [Attempts -> [done : BOOLEAN, err : BOOLEAN, stored : BOOLEAN]]
    /\ sem \in [Attempts -> BOOLEAN]
    /\ caller \in [Callers -> Locals]
    /\ \A c \in Callers : caller[c].pc # "idle" => caller[c].att \in Attempts

\* Single flight: one caller at a time dials a host, and the dialing entry is
\* its attempt -- so only the owner can delete it (WinRMManager.Connect).
OneDialPerHost ==
    \A c \in Callers : Dialing(c) =>
        /\ dialing[caller[c].host] = caller[c].att
        /\ \A d \in Callers \ {c} : Dialing(d) => caller[d].host # caller[c].host

\* A dialing entry never outlives the Connect that made it, or every later
\* Connect to the host would join a dial that nobody performs.
NoAbandonedDial ==
    \A h \in Hosts : dialing[h] # None => \E c \in Callers : Dialing(c) /\ caller[c].host = h

\* A caller that joined a dial returns what the dial came to: success if and
\* only if the attempt put a client into the map (attempt.err before done).
JoinersShareOutcome ==
    \A c \in Callers :
        /\ At(c, "connected") => attempt[caller[c].att].stored
        /\ At(c, "failed") => ~attempt[caller[c].att].stored

\* Commands on one client never overlap (winrmClient.sem).
TurnsExclusive ==
    \A c, d \in Callers :
        caller[c].pc \in {"run", "release"} /\ caller[d].pc \in {"run", "release"}
            /\ caller[c].att = caller[d].att => c = d

\* A turn is never lost: a slot that is taken is some running command's.
NoLostTurn ==
    \A a \in Attempts : sem[a] =>
        \E c \in Callers : caller[c].pc \in {"run", "release"} /\ caller[c].att = a

\* A Connect that returns success was connected at some moment of its run.
\* The code does not keep this: a Connect that arrives between CloseDone and
\* Cleanup joins a dial that is over, and the host may be gone since.
ConnectMeansConnected == \A c \in Callers : At(c, "connected") => caller[c].saw

\* Every Connect returns, the joiners' too.
ConnectReturns == \A c \in Callers : Dialing(c) \/ At(c, "join") ~> At(c, "idle")

\* A command that waits for its turn on a busy client gets it or is cancelled.
WaitersProceed == \A c \in Callers : At(c, "wait") ~> ~At(c, "wait")

\* The client keeps its promise to the NTLM session.
Session == INSTANCE NTLMSession WITH
    Clients <- Attempts,
    using <- [a \in Attempts |-> {c \in Callers : At(c, "run") /\ caller[c].att = a}]
SessionSpec == Session!Spec
=============================================================================
