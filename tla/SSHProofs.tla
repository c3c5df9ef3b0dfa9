------------------------------ MODULE SSHProofs ------------------------------
(***************************************************************************)
(* Theorems about SSH, for every set of callers, hosts, clients and keys   *)
(* and every number of retries.                                            *)
(*                                                                         *)
(* A call keeps its host, key and client from one section to the next      *)
(* while the others go on, and the back-off sends it round the loop: what  *)
(* the map holds is right only together with what each call may still do,  *)
(* which Sound and ClientInv add.                                          *)
(***************************************************************************)
EXTENDS SSH, TLAPS

DialLabels == {"dial", "verify", "record", "auth", "store"}
RunLabels == {"session", "run"}

\* Where a call may stand: only Connect dials, for a host, and has the peer's
\* key in hand before it writes known_hosts; only Connect and
\* Execute back off, with an attempt left; a command has been started at most
\* once per attempt, and not yet in the present one while it opens a session.
Sound(q) ==
    /\ q.pc \in DialLabels => q.op = "connect" /\ q.host \in Hosts
    /\ q.pc = "record" => q.key \in Keys
    /\ q.pc \in RunLabels => q.op # "connect"
    /\ q.pc = "backoff" =>
           /\ q.op \in {"connect", "execute"} /\ q.attempt < Retries
           /\ q.op = "connect" => q.host \in Hosts
    /\ q.ran <= q.attempt + 1
    /\ q.pc = "session" => q.ran <= q.attempt
    /\ q.op \in {"raw", "sftp"} => q.attempt = 0

CallsInv == TypeOK /\ \A c \in Callers : Sound(caller[c])

\* Whose the clients are that nobody has closed.  A client about to be stored
\* is one of them, in nobody else's hands to store, and not in the map.  None of
\* it speaks of the transports, which may be gone.
UnclosedIsOwned == \A k \in open :
    (\E h \in Hosts : connections[h] = k)
        \/ (\E c \in Callers : At(c, "store") /\ caller[c].client = k)
MapIsUnclosed == \A h \in Hosts : connections[h] # None => connections[h] \in open
MapIsInjective ==
    \A g, h \in Hosts : connections[g] = connections[h] /\ connections[g] # None => g = h
FreshIsUnclosed == \A c \in Callers : At(c, "store") =>
    /\ caller[c].client \in open
    /\ \A h \in Hosts : connections[h] # caller[c].client
FreshIsAlone == \A c, d \in Callers :
    At(c, "store") /\ At(d, "store") /\ caller[c].client = caller[d].client => c = d

ClientInv == UnclosedIsOwned /\ MapIsUnclosed /\ MapIsInjective /\ FreshIsUnclosed /\ FreshIsAlone

IndInv == CallsInv /\ ClientInv /\ KeyIsOnRecord
-----------------------------------------------------------------------------
(* What a step of one call changes                                         *)

\* Call c goes on as r, and every other call stays where it is.
Moved(c, r) == caller' = [caller EXCEPT ![c] = r]

\* What a call at "auth" or "store" owes to KeyIsOnRecord.
KeyKept(q, onRecord) == q.pc \in {"auth", "store"} => q.key \in onRecord[q.host]

LEMMA RetriesNat == Retries \in Nat
BY RetriesAssumption

LEMMA IdleType == Idle \in Locals /\ Sound(Idle)
BY RetriesNat DEF Idle, Locals, Labels, Sound, DialLabels, RunLabels

\* A call's record, with another label.
LEMMA RelabelType ==
    ASSUME NEW q \in Locals, NEW l \in Labels
    PROVE  LET r == [q EXCEPT !.pc = l]
           IN  /\ r \in Locals /\ r.pc = l /\ r.op = q.op /\ r.host = q.host
               /\ r.client = q.client /\ r.key = q.key /\ r.attempt = q.attempt /\ r.ran = q.ran
BY DEF Locals

\* A call's next attempt.
LEMMA AttemptType ==
    ASSUME NEW q \in Locals, NEW l \in Labels, q.attempt < Retries
    PROVE  LET r == [q EXCEPT !.attempt = @ + 1, !.pc = l]
           IN  /\ r \in Locals /\ r.pc = l /\ r.op = q.op /\ r.host = q.host /\ r.client = q.client
               /\ r.key = q.key /\ r.attempt = q.attempt + 1 /\ r.ran = q.ran
<1>1. q.attempt + 1 \in 0..Retries
  BY RetriesNat DEF Locals
<1> QED
  BY <1>1 DEF Locals

LEMMA GotoStep ==
    ASSUME CallsInv, NEW c \in Callers, NEW l \in Labels, Goto(c, l)
    PROVE  \E r \in Locals :
             /\ Moved(c, r) /\ r.pc = l /\ r.op = caller[c].op /\ r.host = caller[c].host
             /\ r.client = caller[c].client /\ r.key = caller[c].key
             /\ r.attempt = caller[c].attempt /\ r.ran = caller[c].ran
<1> DEFINE r == [caller[c] EXCEPT !.pc = l]
<1>1. caller[c] \in Locals
  BY DEF CallsInv, TypeOK
<1>2. /\ r \in Locals /\ r.pc = l /\ r.op = caller[c].op /\ r.host = caller[c].host
      /\ r.client = caller[c].client /\ r.key = caller[c].key
      /\ r.attempt = caller[c].attempt /\ r.ran = caller[c].ran
  BY <1>1, RelabelType
<1>3. Moved(c, r)
  BY DEF Goto, Moved
<1> QED
  BY <1>2, <1>3

LEMMA ReturnStep ==
    ASSUME NEW c \in Callers, Return(c)
    PROVE  Moved(c, Idle)
BY DEF Return, Moved

\* A failed attempt ends in a back-off or in the answer.
LEMMA FailedStep ==
    ASSUME CallsInv, NEW c \in Callers, Failed(c),
           caller[c].op = "connect" => caller[c].host \in Hosts
    PROVE  \E r \in Locals : Moved(c, r) /\ Sound(r) /\ r.pc \in {"idle", "backoff"}
<1>1. CASE Return(c)
  BY <1>1, ReturnStep, IdleType DEF Idle
<1>2. CASE /\ caller[c].op \in {"connect", "execute"} /\ caller[c].attempt < Retries
           /\ Goto(c, "backoff")
  <2>1. PICK r \in Locals :
             /\ Moved(c, r) /\ r.pc = "backoff" /\ r.op = caller[c].op /\ r.host = caller[c].host
             /\ r.attempt = caller[c].attempt /\ r.ran = caller[c].ran
    BY <1>2, GotoStep DEF Labels
  <2>2. Sound(caller[c])
    BY DEF CallsInv
  <2>3. Sound(r)
    BY <1>2, <2>1, <2>2 DEF Sound, DialLabels, RunLabels
  <2> QED
    BY <2>1, <2>3
<1> QED
  BY <1>1, <1>2 DEF Failed

\* The types and the soundness of every call, after a step of one.
LEMMA CallsStep ==
    ASSUME CallsInv, NEW c \in Callers, NEW r \in Locals, Sound(r), Moved(c, r)
    PROVE  caller' \in [Callers -> Locals] /\ \A d \in Callers : Sound(caller'[d])
<1>1. caller \in [Callers -> Locals] /\ \A d \in Callers : Sound(caller[d])
  BY DEF CallsInv, TypeOK
<1>2. caller' \in [Callers -> Locals]
  BY <1>1 DEF Moved
<1>3. ASSUME NEW d \in Callers PROVE Sound(caller'[d])
  <2>1. caller'[d] = IF d = c THEN r ELSE caller[d]
    BY <1>1 DEF Moved
  <2> QED
    BY <1>1, <2>1
<1> QED
  BY <1>2, <1>3

LEMMA KeyStep ==
    ASSUME CallsInv, KeyIsOnRecord, NEW c \in Callers, NEW r \in Locals, Moved(c, r),
           mode' = mode, \A h \in Hosts : known[h] \subseteq known'[h],
           mode # "off" => KeyKept(r, known')
    PROVE  KeyIsOnRecord'
<1> SUFFICES ASSUME mode # "off", NEW d \in Callers, At(d, "auth")' \/ At(d, "store")'
             PROVE  (caller[d].key \in known[caller[d].host])'
  BY DEF KeyIsOnRecord
<1>1. caller'[d] = IF d = c THEN r ELSE caller[d]
  BY DEF CallsInv, TypeOK, Moved
<1>2. CASE d = c
  BY <1>1, <1>2 DEF KeyKept, At
<1>3. CASE d # c
  <2>1. caller'[d] = caller[d] /\ (At(d, "auth") \/ At(d, "store"))
    BY <1>1, <1>3 DEF At
  <2>2. caller[d].host \in Hosts
    BY <2>1 DEF CallsInv, Sound, At, DialLabels
  <2>3. caller[d].key \in known[caller[d].host]
    BY <2>1 DEF KeyIsOnRecord
  <2> QED
    BY <2>1, <2>2, <2>3
<1> QED
  BY <1>2, <1>3

\* A step that neither stores a client nor has one to store.
LEMMA ClientStep ==
    ASSUME CallsInv, ClientInv, NEW c \in Callers, NEW r \in Locals, Moved(c, r),
           UNCHANGED <<connections, open, lost>>, ~At(c, "store"), r.pc # "store"
    PROVE  ClientInv'
<1>1. \A d \in Callers : caller'[d] = IF d = c THEN r ELSE caller[d]
  BY DEF CallsInv, TypeOK, Moved
<1>2. \A d \in Callers : /\ At(d, "store")' <=> At(d, "store")
                         /\ At(d, "store") => caller'[d] = caller[d]
  BY <1>1 DEF At
<1>3. UnclosedIsOwned'
  BY <1>2 DEF ClientInv, UnclosedIsOwned
<1>4. MapIsUnclosed' /\ MapIsInjective'
  BY DEF ClientInv, MapIsUnclosed, MapIsInjective
<1>5. FreshIsUnclosed'
  BY <1>2 DEF ClientInv, FreshIsUnclosed
<1>6. FreshIsAlone'
  BY <1>2 DEF ClientInv, FreshIsAlone
<1> QED
  BY <1>3, <1>4, <1>5, <1>6 DEF ClientInv

\* The two together: a step of one call that leaves the map, the clients and
\* the host keys alone, and forgets no key on record.
LEMMA QuietStep ==
    ASSUME IndInv, NEW c \in Callers, NEW r \in Locals, Sound(r), Moved(c, r),
           UNCHANGED <<connections, open, lost, mode, hostKey>>,
           known' \in [Hosts -> SUBSET Keys], \A h \in Hosts : known[h] \subseteq known'[h],
           ~At(c, "store"), r.pc # "store", mode # "off" => KeyKept(r, known')
    PROVE  IndInv'
<1>1. CallsInv /\ ClientInv /\ KeyIsOnRecord
  BY DEF IndInv
<1>2. ClientInv' /\ KeyIsOnRecord'
  BY <1>1, ClientStep, KeyStep
<1>3. caller' \in [Callers -> Locals] /\ \A d \in Callers : Sound(caller'[d])
  BY <1>1, CallsStep
<1>4. CallsInv'
  BY <1>1, <1>3 DEF CallsInv, TypeOK
<1> QED
  BY <1>2, <1>4 DEF IndInv

\* The same, when the known hosts are left alone too.
LEMMA SilentStep ==
    ASSUME IndInv, NEW c \in Callers, NEW r \in Locals, Sound(r), Moved(c, r),
           UNCHANGED <<connections, open, lost, known, mode, hostKey>>,
           ~At(c, "store"), r.pc # "store", mode # "off" => KeyKept(r, known)
    PROVE  IndInv'
<1>1. known' \in [Hosts -> SUBSET Keys] /\ \A h \in Hosts : known[h] \subseteq known'[h]
  BY DEF IndInv, CallsInv, TypeOK
<1>2. mode # "off" => KeyKept(r, known')
  OBVIOUS
<1> QED
  BY <1>1, <1>2, QuietStep

-----------------------------------------------------------------------------
(* Every action keeps the invariant                                        *)

\* An attempt that failed, in an action that changes nothing else.
LEMMA FailedKeeps ==
    ASSUME IndInv, NEW c \in Callers, Failed(c), ~At(c, "store"),
           caller[c].op = "connect" => caller[c].host \in Hosts,
           UNCHANGED <<connections, open, lost, known, mode, hostKey>>
    PROVE  IndInv'
<1>1. CallsInv
  BY DEF IndInv
<1>2. PICK r \in Locals : Moved(c, r) /\ Sound(r) /\ r.pc \in {"idle", "backoff"}
  BY <1>1, FailedStep
<1>3. r.pc # "store" /\ KeyKept(r, known)
  BY <1>2 DEF KeyKept
<1> QED
  BY <1>2, <1>3, SilentStep

\* So does an answer.
LEMMA ReturnKeeps ==
    ASSUME IndInv, NEW c \in Callers, Return(c), ~At(c, "store"),
           UNCHANGED <<connections, open, lost, known, mode, hostKey>>
    PROVE  IndInv'
<1>1. Idle.pc # "store" /\ KeyKept(Idle, known)
  BY DEF Idle, KeyKept
<1> QED
  BY <1>1, ReturnStep, IdleType, SilentStep

\* Facts every action of Connect starts from.
LEMMA DialFacts ==
    ASSUME IndInv, NEW c \in Callers
    PROVE  /\ CallsInv /\ caller[c] \in Locals /\ Sound(caller[c])
           /\ caller[c].pc \in DialLabels => caller[c].op = "connect" /\ caller[c].host \in Hosts
BY DEF IndInv, CallsInv, TypeOK, Sound

LEMMA NextAttemptKeeps ==
    ASSUME IndInv, NEW c \in Callers, NextAttempt(c)
    PROVE  IndInv'
<1> DEFINE l == IF caller[c].op = "connect" THEN "dial" ELSE "session"
<1>1. CallsInv /\ caller[c] \in Locals /\ Sound(caller[c])
  BY DialFacts
<1>2. /\ caller[c].op \in {"connect", "execute"} /\ caller[c].attempt < Retries
      /\ caller[c].op = "connect" => caller[c].host \in Hosts
      /\ caller[c].ran <= caller[c].attempt + 1
  BY <1>1 DEF NextAttempt, At, Sound
<1>3. PICK r : r = [caller[c] EXCEPT !.attempt = @ + 1, !.pc = l]
  OBVIOUS
<1>4. Moved(c, r)
  BY <1>3 DEF NextAttempt, Moved
<1>5. /\ r \in Locals /\ r.pc = l /\ r.op = caller[c].op /\ r.host = caller[c].host
      /\ r.attempt = caller[c].attempt + 1 /\ r.ran = caller[c].ran
  <2>1. l \in Labels
    BY DEF Labels
  <2> QED
    BY <1>1, <1>2, <1>3, <2>1, AttemptType, Zenon
<1>6. Sound(r)
  BY <1>1, <1>2, <1>5, RetriesNat DEF Sound, DialLabels, RunLabels, Locals
<1>7. r.pc # "store" /\ KeyKept(r, known)
  BY <1>5 DEF KeyKept
<1>8. ~At(c, "store") /\ UNCHANGED <<connections, open, lost, known, mode, hostKey>>
  BY DEF NextAttempt, At
<1> QED
  BY <1>4, <1>5, <1>6, <1>7, <1>8, SilentStep

LEMMA BeginConnectKeeps ==
    ASSUME IndInv, NEW c \in Callers, BeginConnect(c)
    PROVE  IndInv'
<1>1. PICK h \in Hosts : caller' = [caller EXCEPT ![c] = [Idle EXCEPT !.pc = "dial", !.host = h]]
  BY DEF BeginConnect
<1>2. PICK r : r = [Idle EXCEPT !.pc = "dial", !.host = h]
  OBVIOUS
<1>3. r \in Locals /\ Sound(r) /\ r.pc = "dial"
  <2>1. r = [pc |-> "dial", op |-> "connect", host |-> h, client |-> None,
             key |-> None, attempt |-> 0, ran |-> 0]
    BY <1>2 DEF Idle
  <2>2. r \in Locals
    BY <2>1, RetriesNat DEF Locals, Labels
  <2> QED
    BY <2>1, <2>2 DEF Sound, DialLabels, RunLabels
<1>4. Moved(c, r) /\ KeyKept(r, known) /\ ~At(c, "store")
  BY <1>1, <1>2, <1>3 DEF Moved, KeyKept, BeginConnect, At
<1>5. UNCHANGED <<connections, open, lost, known, mode, hostKey>>
  BY DEF BeginConnect
<1> QED
  BY <1>3, <1>4, <1>5, SilentStep

\* A dial that goes on to the next label without a key to answer for.
LEMMA DialOnKeeps ==
    ASSUME IndInv, NEW c \in Callers, NEW l \in {"verify", "auth"}, Goto(c, l),
           caller[c].pc \in {"dial", "verify"}, l = "auth" => mode = "off",
           UNCHANGED <<connections, open, lost, known, mode, hostKey>>
    PROVE  IndInv'
<1>1. CallsInv /\ Sound(caller[c]) /\ caller[c].op = "connect" /\ caller[c].host \in Hosts
  BY DialFacts DEF DialLabels
<1>2. l \in Labels
  BY DEF Labels
<1>3. PICK r \in Locals :
             /\ Moved(c, r) /\ r.pc = l /\ r.op = caller[c].op /\ r.host = caller[c].host
             /\ r.attempt = caller[c].attempt /\ r.ran = caller[c].ran
  BY <1>1, <1>2, GotoStep
<1>4. Sound(r) /\ r.pc # "store"
  BY <1>1, <1>3 DEF Sound, DialLabels, RunLabels
<1>5. mode # "off" => KeyKept(r, known)
  BY <1>3 DEF KeyKept
<1>6. ~At(c, "store")
  BY DEF At
<1> QED
  BY <1>3, <1>4, <1>5, <1>6, SilentStep

LEMMA TCPConnectKeeps ==
    ASSUME IndInv, NEW c \in Callers, TCPConnect(c)
    PROVE  IndInv'
<1>1. caller[c].op = "connect" /\ caller[c].host \in Hosts
  BY DialFacts DEF TCPConnect, At, DialLabels
<1>2. ~At(c, "store") /\ UNCHANGED <<connections, open, lost, known, mode, hostKey>>
  BY DEF TCPConnect, At
<1>3. CASE Goto(c, "verify")
  BY <1>2, <1>3, DialOnKeeps DEF TCPConnect, At
<1>4. CASE Failed(c)
  BY <1>1, <1>2, <1>4, FailedKeeps
<1> QED
  BY <1>3, <1>4 DEF TCPConnect

LEMMA VerifyNothingKeeps ==
    ASSUME IndInv, NEW c \in Callers, VerifyNothing(c)
    PROVE  IndInv'
<1>1. caller[c].op = "connect" /\ caller[c].host \in Hosts
  BY DialFacts DEF VerifyNothing, At, DialLabels
<1>2. ~At(c, "store") /\ UNCHANGED <<connections, open, lost, known, mode, hostKey>>
  BY DEF VerifyNothing, At
<1>3. CASE Goto(c, "auth")
  BY <1>2, <1>3, DialOnKeeps DEF VerifyNothing, At
<1>4. CASE Failed(c)
  BY <1>1, <1>2, <1>4, FailedKeeps
<1> QED
  BY <1>3, <1>4 DEF VerifyNothing

\* The callback accepts the key: it is on record, or about to be.
LEMMA AcceptKeeps ==
    ASSUME IndInv, NEW c \in Callers, NEW l \in {"record", "auth"}, At(c, "verify"),
           caller' = [caller EXCEPT ![c].key = hostKey[caller[c].host], ![c].pc = l],
           l = "auth" => hostKey[caller[c].host] \in known[caller[c].host],
           UNCHANGED <<connections, open, lost, known, mode, hostKey>>
    PROVE  IndInv'
<1>1. CallsInv /\ caller[c] \in Locals /\ Sound(caller[c])
      /\ caller[c].op = "connect" /\ caller[c].host \in Hosts
  BY DialFacts DEF At, DialLabels
<1>2. hostKey[caller[c].host] \in Keys
  BY <1>1 DEF CallsInv, TypeOK
<1>3. PICK r : r = [caller[c] EXCEPT !.key = hostKey[caller[c].host], !.pc = l]
  OBVIOUS
<1>4. Moved(c, r)
  BY <1>3 DEF Moved
<1>5. /\ r \in Locals /\ r.pc = l /\ r.op = caller[c].op /\ r.host = caller[c].host
      /\ r.key = hostKey[caller[c].host]
      /\ r.attempt = caller[c].attempt /\ r.ran = caller[c].ran
  BY <1>1, <1>2, <1>3 DEF Locals, Labels
<1>6. Sound(r) /\ r.pc # "store"
  BY <1>1, <1>2, <1>5 DEF Sound, DialLabels, RunLabels
<1>7. KeyKept(r, known)
  BY <1>5 DEF KeyKept
<1>8. ~At(c, "store")
  BY DEF At
<1> QED
  BY <1>4, <1>5, <1>6, <1>7, <1>8, SilentStep

LEMMA VerifyHostKeyKeeps ==
    ASSUME IndInv, NEW c \in Callers, VerifyHostKey(c)
    PROVE  IndInv'
<1> DEFINE h == caller[c].host
           l == IF known[h] = {} THEN "record" ELSE "auth"
<1>1. caller[c].op = "connect" /\ h \in Hosts /\ At(c, "verify") /\ ~At(c, "store")
  BY DialFacts DEF VerifyHostKey, At, DialLabels
<1>2. UNCHANGED <<connections, open, lost, known, mode, hostKey>>
  BY DEF VerifyHostKey
<1>3. CASE /\ known[h] = {} \/ hostKey[h] \in known[h]
           /\ caller' = [caller EXCEPT ![c].key = hostKey[h], ![c].pc = l]
  BY <1>1, <1>2, <1>3, AcceptKeeps
<1>4. CASE Return(c)
  BY <1>1, <1>2, <1>4, ReturnKeeps
<1>5. CASE Failed(c)
  BY <1>1, <1>2, <1>5, FailedKeeps
<1> QED
  BY <1>3, <1>4, <1>5 DEF VerifyHostKey

LEMMA VerifyStrictlyKeeps ==
    ASSUME IndInv, NEW c \in Callers, VerifyStrictly(c)
    PROVE  IndInv'
<1> DEFINE h == caller[c].host
<1>1. caller[c].op = "connect" /\ h \in Hosts /\ At(c, "verify") /\ ~At(c, "store")
  BY DialFacts DEF VerifyStrictly, At, DialLabels
<1>2. UNCHANGED <<connections, open, lost, known, mode, hostKey>>
  BY DEF VerifyStrictly
<1>3. CASE /\ hostKey[h] \in known[h]
           /\ caller' = [caller EXCEPT ![c].pc = "auth", ![c].key = hostKey[h]]
  <2>1. caller' = [caller EXCEPT ![c].key = hostKey[h], ![c].pc = "auth"]
    BY <1>3
  <2> QED
    BY <1>1, <1>2, <1>3, <2>1, AcceptKeeps
<1>4. CASE Return(c)
  BY <1>1, <1>2, <1>4, ReturnKeeps
<1>5. CASE Failed(c)
  BY <1>1, <1>2, <1>5, FailedKeeps
<1> QED
  BY <1>3, <1>4, <1>5 DEF VerifyStrictly

LEMMA RecordHostKeyKeeps ==
    ASSUME IndInv, NEW c \in Callers, RecordHostKey(c)
    PROVE  IndInv'
<1>1. CallsInv /\ caller[c] \in Locals /\ Sound(caller[c])
      /\ caller[c].op = "connect" /\ caller[c].host \in Hosts /\ ~At(c, "store")
  BY DialFacts DEF RecordHostKey, At, DialLabels
<1>2. UNCHANGED <<connections, open, lost, mode, hostKey>>
  BY DEF RecordHostKey
<1>3. CASE Failed(c) /\ UNCHANGED known
  BY <1>1, <1>2, <1>3, FailedKeeps
<1>4. CASE /\ known' = [known EXCEPT ![caller[c].host] = @ \cup {caller[c].key}]
           /\ Goto(c, "auth")
  <2>1. PICK r \in Locals :
             /\ Moved(c, r) /\ r.pc = "auth" /\ r.op = caller[c].op /\ r.host = caller[c].host
             /\ r.key = caller[c].key
             /\ r.attempt = caller[c].attempt /\ r.ran = caller[c].ran
    BY <1>1, <1>4, GotoStep DEF Labels
  <2>2. Sound(r)
    BY <1>1, <2>1 DEF Sound, DialLabels, RunLabels
  <2>3. caller[c].key \in Keys /\ known \in [Hosts -> SUBSET Keys]
    BY <1>1 DEF RecordHostKey, At, Sound, CallsInv, TypeOK
  <2>5. known' \in [Hosts -> SUBSET Keys] /\ \A h \in Hosts : known[h] \subseteq known'[h]
    BY <1>4, <2>3
  <2>4. KeyKept(r, known')
    BY <1>1, <1>4, <2>1 DEF KeyKept, CallsInv, TypeOK
  <2> QED
    BY <1>1, <1>2, <2>1, <2>2, <2>4, <2>5, QuietStep
<1> QED
  BY <1>3, <1>4 DEF RecordHostKey

\* The steps of the commands that end in an answer or in a failed attempt.
LEMMA RunFacts ==
    ASSUME IndInv, NEW c \in Callers, caller[c].pc \in RunLabels
    PROVE  caller[c].op # "connect" /\ ~At(c, "store")
BY DialFacts DEF Sound, RunLabels, At

LEMMA BeginExecuteKeeps ==
    ASSUME IndInv, NEW c \in Callers, BeginExecute(c)
    PROVE  IndInv'
<1>1. PICK op \in {"execute", "raw", "sftp"}, h \in Hosts \cup {None} : \E k \in Resolved(h) :
         caller' = [caller EXCEPT ![c] = [Idle EXCEPT !.pc = "session", !.op = op, !.client = k]]
  BY DEF BeginExecute
<1>2. PICK k \in Resolved(h) :
         caller' = [caller EXCEPT ![c] = [Idle EXCEPT !.pc = "session", !.op = op, !.client = k]]
  BY <1>1
<1>3. k \in Clients \cup {None}
  BY <1>2 DEF Resolved, IndInv, CallsInv, TypeOK
<1>4. PICK r : r = [Idle EXCEPT !.pc = "session", !.op = op, !.client = k]
  OBVIOUS
<1>5. r \in Locals /\ Sound(r) /\ r.pc = "session"
  <2>1. r = [pc |-> "session", op |-> op, host |-> None, client |-> k,
             key |-> None, attempt |-> 0, ran |-> 0]
    BY <1>4 DEF Idle
  <2>2. r \in Locals
    BY <1>3, <2>1, RetriesNat DEF Locals, Labels
  <2> QED
    BY <2>1, <2>2 DEF Sound, DialLabels, RunLabels
<1>6. Moved(c, r) /\ KeyKept(r, known) /\ ~At(c, "store")
  BY <1>2, <1>4, <1>5 DEF Moved, KeyKept, BeginExecute, At
<1>7. UNCHANGED <<connections, open, lost, known, mode, hostKey>>
  BY DEF BeginExecute
<1> QED
  BY <1>5, <1>6, <1>7, SilentStep

LEMMA NewSessionKeeps ==
    ASSUME IndInv, NEW c \in Callers, NewSession(c)
    PROVE  IndInv'
<1>1. CallsInv /\ caller[c] \in Locals /\ Sound(caller[c])
  BY DialFacts
<1>2. caller[c].op # "connect" /\ ~At(c, "store") /\ caller[c].pc = "session"
  BY RunFacts DEF NewSession, At, RunLabels
<1>3. UNCHANGED <<connections, open, lost, known, mode, hostKey>>
  BY DEF NewSession
<1>4. CASE Failed(c)
  BY <1>2, <1>3, <1>4, FailedKeeps
<1>5. CASE caller' = [caller EXCEPT ![c].pc = "run", ![c].ran = @ + 1]
  <2>1. PICK r : r = [caller[c] EXCEPT !.pc = "run", !.ran = @ + 1]
    OBVIOUS
  <2>2. Moved(c, r)
    BY <1>5, <2>1 DEF Moved
  <2>3. caller[c].ran <= caller[c].attempt
    BY <1>1, <1>2 DEF Sound
  <2>4. caller[c].ran + 1 \in 0..(Retries + 1)
    BY <1>1, <2>3, RetriesNat DEF Locals
  <2>5. /\ r \in Locals /\ r.pc = "run" /\ r.op = caller[c].op /\ r.host = caller[c].host
        /\ r.attempt = caller[c].attempt /\ r.ran = caller[c].ran + 1
    BY <1>1, <2>1, <2>4 DEF Locals, Labels
  <2>6. caller[c].ran + 1 <= caller[c].attempt + 1
    BY <1>1, <2>3, RetriesNat DEF Locals
  <2>7. Sound(r)
    BY <1>1, <1>2, <2>5, <2>6 DEF Sound, DialLabels, RunLabels
  <2>8. r.pc # "store" /\ KeyKept(r, known)
    BY <2>5 DEF KeyKept
  <2> QED
    BY <1>2, <1>3, <2>2, <2>5, <2>7, <2>8, SilentStep
<1> QED
  BY <1>4, <1>5 DEF NewSession

LEMMA ExecuteKeeps ==
    ASSUME IndInv, NEW c \in Callers,
           Execute(c) \/ BackoffCancelled(c)
    PROVE  IndInv'
<1>1. CASE BeginExecute(c)
  BY <1>1, BeginExecuteKeeps
<1>2. CASE NewSession(c)
  BY <1>2, NewSessionKeeps
<1>3. CASE OpenSFTP(c)
  BY <1>3, RunFacts, ReturnKeeps DEF OpenSFTP, At, RunLabels
<1>4. CASE NewSessionOnClosed(c)
  BY <1>4, RunFacts, FailedKeeps DEF NewSessionOnClosed, At, RunLabels
<1>5. CASE RunEnds(c)
  BY <1>5, RunFacts, ReturnKeeps, FailedKeeps DEF RunEnds, At, RunLabels
<1>6. CASE BackoffCancelled(c)
  BY <1>6, ReturnKeeps DEF BackoffCancelled, At
<1> QED
  BY <1>1, <1>2, <1>3, <1>4, <1>5, <1>6 DEF Execute

\* The handshake succeeds: the client gets a name nothing else refers to, so
\* it is in the map for no host and no other call is about to store it.
LEMMA AuthenticateKeeps ==
    ASSUME IndInv, NEW c \in Callers, Authenticate(c)
    PROVE  IndInv'
<1>1. CallsInv /\ ClientInv /\ KeyIsOnRecord /\ caller[c] \in Locals /\ Sound(caller[c])
      /\ caller[c].op = "connect" /\ caller[c].host \in Hosts /\ At(c, "auth")
  BY DialFacts DEF Authenticate, At, DialLabels, IndInv
<1>2. UNCHANGED <<connections, lost, known, mode, hostKey>> /\ ~At(c, "store")
  BY <1>1 DEF Authenticate, At
<1>3. CASE Failed(c) /\ UNCHANGED open
  BY <1>1, <1>2, <1>3, FailedKeeps
<1>4. CASE \E k \in {x \in Clients : Unused(x)} :
              /\ open' = open \cup {k}
              /\ caller' = [caller EXCEPT ![c].pc = "store", ![c].client = k]
  <2>1. PICK k \in Clients : /\ Unused(k) /\ open' = open \cup {k}
                             /\ caller' = [caller EXCEPT ![c].pc = "store", ![c].client = k]
    BY <1>4
  <2>2. PICK r : r = [caller[c] EXCEPT !.pc = "store", !.client = k]
    OBVIOUS
  <2>3. Moved(c, r)
    BY <2>1, <2>2 DEF Moved
  <2>4. /\ r \in Locals /\ r.pc = "store" /\ r.op = caller[c].op /\ r.host = caller[c].host
        /\ r.client = k /\ r.key = caller[c].key
        /\ r.attempt = caller[c].attempt /\ r.ran = caller[c].ran
    BY <1>1, <2>2 DEF Locals, Labels
  <2>5. Sound(r)
    BY <1>1, <2>4 DEF Sound, DialLabels, RunLabels
  <2>6. KeyIsOnRecord'
    <3>1. mode # "off" => KeyKept(r, known')
      BY <1>1, <1>2, <2>4 DEF KeyKept, KeyIsOnRecord
    <3>2. mode' = mode /\ \A h \in Hosts : known[h] \subseteq known'[h]
      BY <1>2
    <3> QED
      BY <1>1, <2>3, <2>4, <3>1, <3>2, KeyStep
  <2>7. caller' \in [Callers -> Locals] /\ \A d \in Callers : Sound(caller'[d])
    BY <1>1, <2>3, <2>4, <2>5, CallsStep
  <2>8. CallsInv'
    BY <1>1, <1>2, <2>1, <2>7 DEF CallsInv, TypeOK
  <2>9. ClientInv'
    <3>1. \A d \in Callers : caller'[d] = IF d = c THEN r ELSE caller[d]
      BY <1>1, <2>3 DEF CallsInv, TypeOK, Moved
    <3>2. \A d \in Callers : /\ d # c => (At(d, "store")' <=> At(d, "store"))
                             /\ d # c => caller'[d].client = caller[d].client
                             /\ d = c => At(d, "store")' /\ ~At(d, "store") /\ caller'[d].client = k
      BY <1>2, <2>4, <3>1 DEF At
    <3>3. /\ k \notin open /\ \A h \in Hosts : connections[h] # k
          /\ \A d \in Callers : caller[d].client # k
      BY <2>1 DEF Unused
    <3>4. UnclosedIsOwned'
      <4>1. ASSUME NEW j \in open'
            PROVE  (\E h \in Hosts : connections'[h] = j)
                     \/ (\E d \in Callers : At(d, "store")' /\ caller'[d].client = j)
        <5>1. CASE j = k
          BY <3>2, <5>1
        <5>2. CASE j \in open
          BY <1>1, <1>2, <3>2, <5>2 DEF ClientInv, UnclosedIsOwned
        <5> QED
          BY <2>1, <4>1, <5>1, <5>2
      <4> QED
        BY <4>1 DEF UnclosedIsOwned
    <3>5. MapIsUnclosed' /\ MapIsInjective'
      BY <1>1, <1>2, <2>1 DEF ClientInv, MapIsUnclosed, MapIsInjective
    <3>6. FreshIsUnclosed'
      <4>1. ASSUME NEW d \in Callers, At(d, "store")'
            PROVE  caller'[d].client \in open' /\ \A h \in Hosts : connections'[h] # caller'[d].client
        <5>1. connections' = connections /\ open \subseteq open' /\ k \in open'
          BY <1>2, <2>1
        <5>2. CASE d = c
          <6>1. caller'[d].client = k
            BY <3>2, <5>2
          <6> QED
            BY <3>3, <5>1, <6>1
        <5>3. CASE d # c
          <6>1. At(d, "store") /\ caller'[d].client = caller[d].client
            BY <3>2, <4>1, <5>3
          <6>2. caller[d].client \in open /\ \A h \in Hosts : connections[h] # caller[d].client
            BY <1>1, <6>1 DEF ClientInv, FreshIsUnclosed
          <6> QED
            BY <5>1, <6>1, <6>2
        <5> QED
          BY <5>2, <5>3
      <4> QED
        BY <4>1 DEF FreshIsUnclosed
    <3>7. FreshIsAlone'
      BY <1>1, <3>2, <3>3 DEF ClientInv, FreshIsAlone
    <3> QED
      BY <3>4, <3>5, <3>6, <3>7 DEF ClientInv
  <2> QED
    BY <2>6, <2>8, <2>9 DEF IndInv
<1> QED
  BY <1>3, <1>4 DEF Authenticate

\* The new client takes the old one's place, which is closed in the same
\* section.
LEMMA StoreKeeps ==
    ASSUME IndInv, NEW c \in Callers, Store(c)
    PROVE  IndInv'
<1> DEFINE h == caller[c].host
           k == caller[c].client
<1>1. CallsInv /\ ClientInv /\ KeyIsOnRecord /\ caller[c] \in Locals
      /\ h \in Hosts /\ At(c, "store")
  BY DialFacts DEF Store, At, DialLabels, IndInv
<1>2. /\ open' = open \ {connections[h]} /\ lost' = lost \ {connections[h]}
      /\ connections' = [connections EXCEPT ![h] = k]
      /\ UNCHANGED <<known, mode, hostKey>>
  BY DEF Store, Close
<1>3. Moved(c, Idle)
  BY ReturnStep DEF Store
<1>4. KeyIsOnRecord'
  BY <1>1, <1>2, <1>3, IdleType, KeyStep DEF KeyKept, Idle
<1>5. caller' \in [Callers -> Locals] /\ \A d \in Callers : Sound(caller'[d])
  BY <1>1, <1>3, IdleType, CallsStep
<1>6. k \in open /\ (\A g \in Hosts : connections[g] # k) /\ k # connections[h]
  BY <1>1 DEF ClientInv, FreshIsUnclosed
<1>7. CallsInv'
  BY <1>1, <1>2, <1>5, <1>6 DEF CallsInv, TypeOK
<1>8. ClientInv'
  <2>1. /\ \A d \in Callers : caller'[d] = IF d = c THEN Idle ELSE caller[d]
        /\ \A g \in Hosts : connections'[g] = IF g = h THEN k ELSE connections[g]
    BY <1>1, <1>2, <1>3 DEF CallsInv, TypeOK, Moved
  <2>2. \A d \in Callers : At(d, "store")' => d # c /\ At(d, "store") /\ caller'[d] = caller[d]
    BY <2>1 DEF At, Idle
  <2>3. UnclosedIsOwned'
    <3>1. SUFFICES ASSUME NEW j \in open' PROVE
            (\E g \in Hosts : connections'[g] = j)
              \/ (\E d \in Callers : At(d, "store")' /\ caller'[d].client = j)
      BY DEF UnclosedIsOwned
    <3>2. CASE j = k
      BY <1>1, <2>1, <3>2
    <3>3. CASE \E g \in Hosts : connections[g] = j
      BY <1>2, <2>1, <3>1, <3>3
    <3>4. CASE \E d \in Callers : At(d, "store") /\ caller[d].client = j /\ j # k
      BY <2>1, <3>4 DEF At
    <3> QED
      BY <1>1, <1>2, <3>1, <3>2, <3>3, <3>4 DEF ClientInv, UnclosedIsOwned
  <2>4. MapIsUnclosed'
    BY <1>1, <1>2, <1>6, <2>1 DEF ClientInv, MapIsUnclosed, MapIsInjective
  <2>5. MapIsInjective'
    BY <1>1, <1>6, <2>1 DEF ClientInv, MapIsInjective
  <2>6. FreshIsUnclosed'
    BY <1>1, <1>2, <2>1, <2>2 DEF ClientInv, FreshIsUnclosed, FreshIsAlone
  <2>7. FreshIsAlone'
    BY <1>1, <2>2 DEF ClientInv, FreshIsAlone
  <2> QED
    BY <2>3, <2>4, <2>5, <2>6, <2>7 DEF ClientInv
<1> QED
  BY <1>4, <1>7, <1>8 DEF IndInv

LEMMA DisconnectKeeps ==
    ASSUME IndInv, NEW c \in Callers, Disconnect(c)
    PROVE  IndInv'
<1>1. PICK gone \in {{h} : h \in Hosts} \cup {Hosts} :
         /\ open' = open \ {connections[h] : h \in gone}
         /\ lost' = lost \ {connections[h] : h \in gone}
         /\ connections' = [h \in Hosts |-> IF h \in gone THEN None ELSE connections[h]]
  BY DEF Disconnect, Close
<1>2. UNCHANGED <<known, mode, hostKey, caller>> /\ gone \subseteq Hosts
  BY <1>1 DEF Disconnect
<1>3. CallsInv /\ ClientInv /\ KeyIsOnRecord
  BY DEF IndInv
<1>4. CallsInv'
  BY <1>1, <1>2, <1>3 DEF CallsInv, TypeOK
<1>5. KeyIsOnRecord'
  BY <1>2, <1>3 DEF KeyIsOnRecord, At
<1>6. \A h \in Hosts : connections'[h] = IF h \in gone THEN None ELSE connections[h]
  BY <1>1
<1>7. None \notin open
  BY <1>3, NoneAssumption DEF CallsInv, TypeOK
<1>8. UnclosedIsOwned'
  BY <1>1, <1>2, <1>3, <1>6 DEF ClientInv, UnclosedIsOwned, At
<1>9. MapIsUnclosed' /\ MapIsInjective'
  BY <1>1, <1>2, <1>3, <1>6 DEF ClientInv, MapIsUnclosed, MapIsInjective
<1>10. FreshIsUnclosed'
  <2>1. ASSUME NEW d \in Callers, At(d, "store")'
        PROVE  (caller[d].client \in open /\ \A h \in Hosts : connections[h] # caller[d].client)'
    BY <1>1, <1>2, <1>3, <1>6, <1>7, <2>1 DEF ClientInv, FreshIsUnclosed, At
  <2> QED
    BY <2>1 DEF FreshIsUnclosed
<1>11. FreshIsAlone'
  BY <1>2, <1>3 DEF ClientInv, FreshIsAlone, At
<1> QED
  BY <1>4, <1>5, <1>8, <1>9, <1>10, <1>11 DEF IndInv, ClientInv

\* A step of the environment changes what the servers present only.
LEMMA RekeyKeeps ==
    ASSUME IndInv, NEW h \in Hosts, Rekey(h)
    PROVE  IndInv'
<1>1. /\ hostKey' \in [Hosts -> Keys]
      /\ UNCHANGED <<connections, open, lost, known, mode, caller>>
  BY DEF IndInv, CallsInv, TypeOK, Rekey
<1>2. CallsInv'
  BY <1>1 DEF IndInv, CallsInv, TypeOK
<1>3. KeyIsOnRecord'
  BY <1>1 DEF IndInv, KeyIsOnRecord, At
<1>4. ClientInv'
  BY <1>1 DEF IndInv, ClientInv, UnclosedIsOwned, MapIsUnclosed, MapIsInjective, FreshIsUnclosed,
              FreshIsAlone, At
<1> QED
  BY <1>2, <1>3, <1>4 DEF IndInv

\* A transport that is lost leaves the manager's map as it is.
LEMMA LoseTransportKeeps ==
    ASSUME IndInv, NEW k \in Clients, LoseTransport(k)
    PROVE  IndInv'
<1>1. /\ k \in open /\ lost' = lost \cup {k}
      /\ UNCHANGED <<connections, open, known, mode, hostKey, caller>>
  BY DEF LoseTransport, Usable
<1>2. CallsInv'
  BY <1>1 DEF IndInv, CallsInv, TypeOK
<1>3. KeyIsOnRecord'
  BY <1>1 DEF IndInv, KeyIsOnRecord, At
<1>4. ClientInv'
  BY <1>1 DEF IndInv, ClientInv, UnclosedIsOwned, MapIsUnclosed, MapIsInjective,
              FreshIsUnclosed, FreshIsAlone, At
<1> QED
  BY <1>2, <1>3, <1>4 DEF IndInv

LEMMA InitInv == Init => IndInv
<1> SUFFICES ASSUME Init PROVE IndInv
  OBVIOUS
<1>1. CallsInv
  <2>1. known \in [Hosts -> SUBSET Keys]
    BY DEF Init
  <2> QED
    BY <2>1, IdleType DEF Init, CallsInv, TypeOK
<1>2. \A c \in Callers : ~At(c, "auth") /\ ~At(c, "store")
  BY DEF Init, At, Idle
<1>3. ClientInv
  BY <1>2 DEF Init, ClientInv, UnclosedIsOwned, MapIsUnclosed, MapIsInjective,
              FreshIsUnclosed, FreshIsAlone
<1>4. KeyIsOnRecord
  BY <1>2 DEF KeyIsOnRecord
<1> QED
  BY <1>1, <1>3, <1>4 DEF IndInv

LEMMA NextInv == IndInv /\ [Next]_vars => IndInv'
<1> SUFFICES ASSUME IndInv, [Next]_vars PROVE IndInv'
  OBVIOUS
<1>1. ASSUME NEW c \in Callers, Connect(c) PROVE IndInv'
  <2>1. CASE Verify(c)
    BY <2>1, VerifyHostKeyKeeps, VerifyStrictlyKeeps, VerifyNothingKeeps DEF Verify
  <2>2. CASE BeginConnect(c) \/ TCPConnect(c) \/ RecordHostKey(c)
    BY <2>2, BeginConnectKeeps, TCPConnectKeeps, RecordHostKeyKeeps
  <2>3. CASE Authenticate(c) \/ Store(c)
    BY <2>3, AuthenticateKeeps, StoreKeeps
  <2> QED
    BY <1>1, <2>1, <2>2, <2>3 DEF Connect
<1>2. ASSUME NEW c \in Callers, Execute(c) \/ BackoffCancelled(c) PROVE IndInv'
  BY <1>2, ExecuteKeeps
<1>3. ASSUME NEW c \in Callers, NextAttempt(c) \/ Disconnect(c) PROVE IndInv'
  BY <1>3, NextAttemptKeeps, DisconnectKeeps
<1>4. ASSUME NEW h \in Hosts, Rekey(h) PROVE IndInv'
  BY <1>4, RekeyKeeps
<1>5. ASSUME NEW k \in Clients, LoseTransport(k) PROVE IndInv'
  BY <1>5, LoseTransportKeeps
<1>6. CASE UNCHANGED vars
  <2>1. UNCHANGED connections /\ UNCHANGED open /\ UNCHANGED lost /\ UNCHANGED known
        /\ UNCHANGED mode /\ UNCHANGED hostKey /\ UNCHANGED caller
    BY <1>6 DEF vars
  <2> QED
    BY <2>1 DEF IndInv, CallsInv, TypeOK, KeyIsOnRecord, ClientInv, UnclosedIsOwned, MapIsUnclosed,
                MapIsInjective, FreshIsUnclosed, FreshIsAlone, At
<1> QED
  BY <1>1, <1>2, <1>3, <1>4, <1>5, <1>6 DEF Next

LEMMA Inductive == Spec => []IndInv
<1> QED
  BY InitInv, NextInv, PTL DEF Spec

-----------------------------------------------------------------------------
(* The theorems                                                            *)

\* Every variable keeps its type: the manager's map, the known hosts and what
\* each call holds.
THEOREM Types == Spec => []TypeOK
<1>1. IndInv => TypeOK
  BY DEF IndInv, CallsInv
<1> QED
  BY <1>1, Inductive, PTL

\* A client nobody has closed is in the map or about to be stored (Connect
\* stores and closes under one lock), so a retried, replaced, cancelled or
\* cut-off connect leaves none behind, however many calls are under way.
THEOREM ClientsAreOwned == Spec => []NoLeakedClient
<1>1. IndInv => NoLeakedClient
  BY DEF IndInv, ClientInv, UnclosedIsOwned, NoLeakedClient, Owners
<1> QED
  BY <1>1, Inductive, PTL

\* A host's entry is a client nobody has closed, it is no other host's, and
\* nobody is about to store it for another, whichever transports are lost
\* (Connect and Disconnect close and replace under one lock).
THEOREM MapIsSound == Spec => []EntriesAreUnclosed
<1>1. IndInv => EntriesAreUnclosed
  <2> SUFFICES ASSUME IndInv, NEW h \in Hosts, connections[h] # None
               PROVE  connections[h] \in open /\ Owners(connections[h]) = {h}
    BY DEF EntriesAreUnclosed
  <2>1. connections[h] \in open
    BY DEF IndInv, ClientInv, MapIsUnclosed
  <2>2. \A g \in Hosts : connections[g] = connections[h] <=> g = h
    BY DEF IndInv, ClientInv, MapIsInjective
  <2>3. \A c \in Callers : ~(At(c, "store") /\ caller[c].client = connections[h])
    BY DEF IndInv, ClientInv, FreshIsUnclosed
  <2>4. Owners(connections[h]) = {h}
    BY <2>2, <2>3 DEF Owners
  <2> QED
    BY <2>1, <2>4
<1> QED
  BY <1>1, Inductive, PTL

\* The loop of Execute starts a command at most Retries + 1 times and
\* ExecuteRaw at most once, for every number of retries.
THEOREM ResendIsBounded == Spec => []BoundedResend
<1>1. IndInv => BoundedResend
  <2> SUFFICES ASSUME IndInv, NEW c \in Callers
               PROVE  /\ caller[c].ran <= caller[c].attempt + 1
                      /\ caller[c].ran <= Retries + 1
                      /\ caller[c].op = "raw" => caller[c].ran <= 1
    BY DEF BoundedResend
  <2>1. caller[c] \in Locals /\ Sound(caller[c])
    BY DialFacts
  <2>2. /\ caller[c].ran <= caller[c].attempt + 1
        /\ caller[c].op = "raw" => caller[c].attempt = 0
    BY <2>1 DEF Sound
  <2>3. caller[c].ran \in Nat /\ caller[c].attempt \in Nat /\ caller[c].attempt <= Retries
    BY <2>1, RetriesNat DEF Locals
  <2> QED
    BY <2>2, <2>3, RetriesNat
<1> QED
  BY <1>1, Inductive, PTL

\* Unless checking is off, a handshake is completed and a client stored only
\* for a host whose presented key is on record by then, even while other dials
\* record keys of the same host and the servers are given new ones.
THEOREM KeysAreOnRecord == Spec => []KeyIsOnRecord
<1>1. IndInv => KeyIsOnRecord
  BY DEF IndInv
<1> QED
  BY <1>1, Inductive, PTL
=============================================================================
