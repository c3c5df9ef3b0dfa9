----------------------------- MODULE WinRMProofs -----------------------------
(***************************************************************************)
(* Theorems about WinRM, for every set of callers, hosts and attempts:     *)
(* single flight, the shared outcome, and the turns on a client, with the  *)
(* refinement of NTLMSession they amount to.                               *)
(***************************************************************************)
EXTENDS WinRM, TLAPS

\* Type correctness, with the host a Connect has in hand.
Typed ==
    /\ TypeOK
    /\ \A c \in Callers : Dialing(c) => caller[c].host \in Hosts

\* Turns: a running command holds the slot, and the slot's holder is running.
TurnInv ==
    /\ TurnsExclusive
    /\ NoLostTurn
    /\ \A c \in Callers : caller[c].pc \in {"run", "release"} => sem[caller[c].att]

\* Dials: a host has at most one, on an attempt of its own, as long as its
\* dialing entry stands.
DialInv ==
    /\ OneDialPerHost
    /\ NoAbandonedDial
    /\ \A c, d \in Callers : Dialing(c) /\ Dialing(d) /\ caller[c].att = caller[d].att => c = d

\* Outcomes: what an attempt says at each point of its dial.
OutcomeInv ==
    /\ \A a \in Attempts : attempt[a].done => attempt[a].stored = ~attempt[a].err
    /\ \A c \in Callers : Dialing(c) =>
          LET a == attempt[caller[c].att] IN
          /\ a.done = (caller[c].pc = "cleanup")
          /\ caller[c].pc \in {"dial", "store"} => ~a.stored /\ ~caller[c].err
          /\ caller[c].pc \notin {"dial", "store"} => a.stored = ~caller[c].err
          /\ caller[c].pc = "closeDone" => a.err = caller[c].err
    /\ \A c \in Callers : caller[c].pc \in {"connected", "failed"} => attempt[caller[c].att].done
    /\ JoinersShareOutcome

-----------------------------------------------------------------------------

LEMMA IdleType == Idle \in Locals
BY DEF Idle, Locals, Labels

\* What Goto does to the callers.
LEMMA GotoEffect ==
    ASSUME caller \in [Callers -> Locals], NEW c \in Callers, NEW label \in Labels, Goto(c, label)
    PROVE  /\ caller' \in [Callers -> Locals]
           /\ caller'[c].pc = label
           /\ caller'[c].host = caller[c].host /\ caller'[c].att = caller[c].att
           /\ caller'[c].err = caller[c].err
           /\ \A d \in Callers \ {c} : caller'[d] = caller[d]
<1>1. [caller[c] EXCEPT !.pc = label] \in Locals
  BY DEF Locals
<1>2. caller' = [caller EXCEPT ![c] = [caller[c] EXCEPT !.pc = label]]
  BY DEF Goto
<1>3. caller' \in [Callers -> Locals] /\ \A d \in Callers \ {c} : caller'[d] = caller[d]
  BY <1>1, <1>2
<1>4. caller'[c] = [caller[c] EXCEPT !.pc = label]
  BY <1>2
<1>5. QED
  BY <1>3, <1>4 DEF Locals

\* What Return does to the callers.
LEMMA ReturnEffect ==
    ASSUME caller \in [Callers -> Locals], NEW c \in Callers, Return(c)
    PROVE  /\ caller' \in [Callers -> Locals]
           /\ caller'[c] = Idle
           /\ \A d \in Callers \ {c} : caller'[d] = caller[d]
BY IdleType DEF Return

\* What Store does to the callers.
LEMMA StoreEffect ==
    ASSUME Typed, NEW c \in Callers, Store(c)
    PROVE  /\ caller' \in [Callers -> Locals]
           /\ caller'[c].pc = "setErr"
           /\ \A d \in Callers \ {c} : caller'[d].pc = caller[d].pc
           /\ \A d \in Callers : /\ caller'[d].host = caller[d].host
                                 /\ caller'[d].att = caller[d].att
                                 /\ caller'[d].err = caller[d].err
<1>1. caller \in [Callers -> Locals]
  BY DEF Typed, TypeOK
<1>2. caller' = [d \in Callers |->
                    IF d = c THEN [caller[c] EXCEPT !.pc = "setErr", !.saw = TRUE]
                    ELSE IF caller[d].host = caller[c].host THEN [caller[d] EXCEPT !.saw = TRUE]
                    ELSE caller[d]]
  BY DEF Store
<1>3. \A d \in Callers : /\ [caller[d] EXCEPT !.pc = "setErr", !.saw = TRUE] \in Locals
                         /\ [caller[d] EXCEPT !.saw = TRUE] \in Locals
  BY <1>1 DEF Locals, Labels
<1>4. caller' \in [Callers -> Locals]
  BY <1>1, <1>2, <1>3
<1>5. \A d \in Callers :
        caller'[d] = IF d = c THEN [caller[c] EXCEPT !.pc = "setErr", !.saw = TRUE]
                     ELSE IF caller[d].host = caller[c].host THEN [caller[d] EXCEPT !.saw = TRUE]
                     ELSE caller[d]
  BY <1>2
<1>6. ASSUME NEW d \in Callers
      PROVE  /\ caller'[d].host = caller[d].host /\ caller'[d].att = caller[d].att
             /\ caller'[d].err = caller[d].err
             /\ caller'[d].pc = IF d = c THEN "setErr" ELSE caller[d].pc
  <2>1. caller[d] \in Locals
    BY <1>1
  <2>2. CASE d = c
    BY <1>5, <2>1, <2>2 DEF Locals
  <2>3. CASE d # c /\ caller[d].host = caller[c].host
    BY <1>5, <2>1, <2>3 DEF Locals
  <2>4. CASE d # c /\ caller[d].host # caller[c].host
    BY <1>5, <2>4
  <2>5. QED
    BY <2>2, <2>3, <2>4
<1>7. QED
  BY <1>4, <1>6

\* A Connect begins by joining the host's dial or by starting one on a name
\* nothing refers to.
LEMMA BeginConnectEffect ==
    ASSUME Typed, NEW c \in Callers, BeginConnect(c)
    PROVE  /\ caller' \in [Callers -> Locals]
           /\ caller[c].pc = "idle"
           /\ \A d \in Callers \ {c} : caller'[d] = caller[d]
           /\ \E h \in Hosts, a \in Attempts :
                /\ caller'[c].host = h /\ caller'[c].att = a /\ ~caller'[c].err
                /\ \/ /\ dialing[h] = a
                      /\ caller'[c].pc = "join"
                      /\ UNCHANGED <<dialing, attempt, sem>>
                   \/ /\ dialing[h] = None /\ Unused(a)
                      /\ caller'[c].pc = "dial"
                      /\ dialing' = [dialing EXCEPT ![h] = a]
                      /\ attempt' = [attempt EXCEPT ![a] =
                                       [done |-> FALSE, err |-> FALSE, stored |-> FALSE]]
                      /\ sem' = [sem EXCEPT ![a] = FALSE]
<1> DEFINE begun(h, pc, a) ==
        [Idle EXCEPT !.pc = pc, !.host = h, !.att = a, !.saw = connections[h] # None]
<1>0. caller \in [Callers -> Locals] /\ dialing \in [Hosts -> Attempts \cup {None}]
  BY DEF Typed, TypeOK
<1>1. PICK h \in Hosts :
        \/ /\ dialing[h] # None
           /\ caller' = [caller EXCEPT ![c] = begun(h, "join", dialing[h])]
           /\ UNCHANGED <<dialing, attempt, sem>>
        \/ /\ dialing[h] = None
           /\ \E a \in {x \in Attempts : Unused(x)} :
                /\ dialing' = [dialing EXCEPT ![h] = a]
                /\ attempt' = [attempt EXCEPT ![a] =
                                 [done |-> FALSE, err |-> FALSE, stored |-> FALSE]]
                /\ sem' = [sem EXCEPT ![a] = FALSE]
                /\ caller' = [caller EXCEPT ![c] = begun(h, "dial", a)]
  BY DEF BeginConnect
<1>2. \A a \in Attempts, pc \in {"join", "dial"} :
        /\ begun(h, pc, a) \in Locals
        /\ begun(h, pc, a).pc = pc /\ begun(h, pc, a).host = h
        /\ begun(h, pc, a).att = a /\ ~begun(h, pc, a).err
  <2>1. ASSUME NEW a \in Attempts, NEW pc \in {"join", "dial"}, NEW saw \in BOOLEAN
        PROVE  [Idle EXCEPT !.pc = pc, !.host = h, !.att = a, !.saw = saw] \in Locals
    BY DEF Idle, Locals, Labels
  <2>2. QED
    BY <2>1 DEF Idle
<1>3. caller[c].pc = "idle"
  BY DEF BeginConnect, At
<1> HIDE DEF begun
<1>4. CASE dialing[h] # None /\ caller' = [caller EXCEPT ![c] = begun(h, "join", dialing[h])]
             /\ UNCHANGED <<dialing, attempt, sem>>
  BY <1>0, <1>2, <1>3, <1>4
<1>5. CASE dialing[h] = None /\ \E a \in {x \in Attempts : Unused(x)} :
                /\ dialing' = [dialing EXCEPT ![h] = a]
                /\ attempt' = [attempt EXCEPT ![a] =
                                 [done |-> FALSE, err |-> FALSE, stored |-> FALSE]]
                /\ sem' = [sem EXCEPT ![a] = FALSE]
                /\ caller' = [caller EXCEPT ![c] = begun(h, "dial", a)]
  <2>1. PICK a \in Attempts :
          /\ Unused(a)
          /\ dialing' = [dialing EXCEPT ![h] = a]
          /\ attempt' = [attempt EXCEPT ![a] =
                           [done |-> FALSE, err |-> FALSE, stored |-> FALSE]]
          /\ sem' = [sem EXCEPT ![a] = FALSE]
          /\ caller' = [caller EXCEPT ![c] = begun(h, "dial", a)]
    BY <1>5
  <2>2. /\ caller' \in [Callers -> Locals] /\ caller'[c] = begun(h, "dial", a)
        /\ \A d \in Callers \ {c} : caller'[d] = caller[d]
    BY <1>0, <1>2, <2>1
  <2>3. /\ caller'[c].host = h /\ caller'[c].att = a /\ ~caller'[c].err
        /\ caller'[c].pc = "dial"
    BY <1>2, <2>2
  <2>4. QED
    BY <1>3, <1>5, <2>1, <2>2, <2>3
<1>6. QED
  BY <1>1, <1>4, <1>5

\* resolveConnection returns clients only.
LEMMA ResolvedType ==
    ASSUME TypeOK, NEW h \in Hosts \cup {None}
    PROVE  Resolved(h) \subseteq Attempts
<1>1. connections \in [Hosts -> Attempts \cup {None}]
  BY DEF TypeOK
<1>2. CASE h # None
  BY <1>1, <1>2 DEF Resolved
<1>3. CASE h = None
  BY <1>1, <1>3 DEF Resolved
<1>4. QED
  BY <1>2, <1>3

\* What BeginExecute does to the callers.
LEMMA BeginExecuteEffect ==
    ASSUME Typed, NEW c \in Callers, BeginExecute(c)
    PROVE  /\ caller' \in [Callers -> Locals]
           /\ caller'[c].pc = "wait" /\ caller'[c].att \in Attempts
           /\ \A d \in Callers \ {c} : caller'[d] = caller[d]
<1>0. PICK h \in Hosts \cup {None} : \E a \in Resolved(h) :
        caller' = [caller EXCEPT ![c] = [Idle EXCEPT !.pc = "wait", !.att = a]]
  BY DEF BeginExecute
<1>1. PICK a \in Resolved(h) :
        caller' = [caller EXCEPT ![c] = [Idle EXCEPT !.pc = "wait", !.att = a]]
  BY <1>0
<1>2. a \in Attempts
  BY <1>1, ResolvedType DEF Typed
<1>3. [Idle EXCEPT !.pc = "wait", !.att = a] \in Locals
  BY <1>2, IdleType DEF Locals, Labels
<1>4. QED
  BY <1>1, <1>2, <1>3 DEF Typed, TypeOK, Idle

\* What DialOnce does to the callers.
LEMMA DialOnceEffect ==
    ASSUME Typed, NEW c \in Callers, DialOnce(c)
    PROVE  /\ caller' \in [Callers -> Locals]
           /\ \/ caller'[c].pc = "store" /\ caller'[c].err = caller[c].err
              \/ caller'[c].pc = "setErr" /\ caller'[c].err
           /\ caller'[c].host = caller[c].host /\ caller'[c].att = caller[c].att
           /\ \A d \in Callers \ {c} : caller'[d] = caller[d]
<1>0. caller \in [Callers -> Locals]
  BY DEF Typed, TypeOK
<1>1. CASE Goto(c, "store")
  BY <1>0, <1>1, GotoEffect DEF Labels
<1>2. CASE caller' = [caller EXCEPT ![c].pc = "setErr", ![c].err = TRUE]
  <2>1. caller' = [caller EXCEPT ![c] = [caller[c] EXCEPT !.pc = "setErr", !.err = TRUE]]
    BY <1>2
  <2>2. [caller[c] EXCEPT !.pc = "setErr", !.err = TRUE] \in Locals
    BY <1>0 DEF Locals, Labels
  <2>3. caller[c] \in Locals
    BY <1>0
  <2>4. QED
    BY <1>0, <2>1, <2>2, <2>3 DEF Locals
<1>3. QED
  BY <1>1, <1>2 DEF DialOnce

-----------------------------------------------------------------------------

\* Types are preserved.
LEMMA TypedStep == Typed /\ [Next]_vars => Typed'
<1> SUFFICES ASSUME Typed, [Next]_vars PROVE Typed'
  OBVIOUS
<1> USE DEF Typed, TypeOK, Dialing
<1>0. caller \in [Callers -> Locals]
  OBVIOUS
<1>1. ASSUME NEW c \in Callers, BeginConnect(c) PROVE Typed'
  <2>1. UNCHANGED connections
    BY <1>1 DEF BeginConnect
  <2>2. /\ caller' \in [Callers -> Locals]
        /\ \A d \in Callers \ {c} : caller'[d] = caller[d]
    BY <1>1, BeginConnectEffect
  <2>3. PICK h \in Hosts, a \in Attempts :
          /\ caller'[c].host = h /\ caller'[c].att = a
          /\ \/ UNCHANGED <<dialing, attempt, sem>>
             \/ /\ dialing' = [dialing EXCEPT ![h] = a]
                /\ attempt' = [attempt EXCEPT ![a] =
                                 [done |-> FALSE, err |-> FALSE, stored |-> FALSE]]
                /\ sem' = [sem EXCEPT ![a] = FALSE]
    BY <1>1, BeginConnectEffect
  <2>4. /\ dialing' \in [Hosts -> Attempts \cup {None}]
        /\ attempt' \in [Attempts -> [done : BOOLEAN, err : BOOLEAN, stored : BOOLEAN]]
        /\ sem' \in [Attempts -> BOOLEAN]
    <3>1. [done |-> FALSE, err |-> FALSE, stored |-> FALSE]
            \in [done : BOOLEAN, err : BOOLEAN, stored : BOOLEAN]
      OBVIOUS
    <3>2. CASE UNCHANGED <<dialing, attempt, sem>>
      BY <3>2
    <3>3. CASE ~UNCHANGED <<dialing, attempt, sem>>
      <4>1. /\ dialing' = [dialing EXCEPT ![h] = a]
            /\ attempt' = [attempt EXCEPT ![a] =
                              [done |-> FALSE, err |-> FALSE, stored |-> FALSE]]
            /\ sem' = [sem EXCEPT ![a] = FALSE]
        BY <2>3, <3>3
      <4>2. dialing' \in [Hosts -> Attempts \cup {None}]
        BY <4>1
      <4>3. attempt' \in [Attempts -> [done : BOOLEAN, err : BOOLEAN, stored : BOOLEAN]]
        BY <3>1, <4>1
      <4>4. sem' \in [Attempts -> BOOLEAN]
        BY <4>1
      <4>5. QED
        BY <4>2, <4>3, <4>4
    <3>4. QED
      BY <3>2, <3>3
  <2>5. ASSUME NEW d \in Callers
        PROVE  /\ caller'[d].pc # "idle" => caller'[d].att \in Attempts
               /\ caller'[d].pc \in {"dial", "store", "setErr", "closeDone", "cleanup"}
                    => caller'[d].host \in Hosts
    BY <2>2, <2>3
  <2>6. QED
    BY <2>1, <2>2, <2>4, <2>5
<1>2. ASSUME NEW c \in Callers, JoinDone(c) PROVE Typed'
  BY <1>2, GotoEffect DEF JoinDone, Labels, At
<1>3. ASSUME NEW c \in Callers, JoinCancelled(c) PROVE Typed'
  BY <1>3, ReturnEffect DEF JoinCancelled, Idle
<1>4. ASSUME NEW c \in Callers, DialOnce(c) PROVE Typed'
  BY <1>4, DialOnceEffect DEF DialOnce, At
<1>5. ASSUME NEW c \in Callers, Store(c) PROVE Typed'
  <2>1. caller[c].att \in Attempts /\ caller[c].host \in Hosts
    BY <1>5 DEF Store, At
  <2>2. connections' \in [Hosts -> Attempts \cup {None}]
        /\ attempt' \in [Attempts -> [done : BOOLEAN, err : BOOLEAN, stored : BOOLEAN]]
    BY <1>5, <2>1 DEF Store
  <2>3. UNCHANGED <<dialing, sem>>
    BY <1>5 DEF Store
  <2>4. /\ caller' \in [Callers -> Locals]
        /\ \A d \in Callers \ {c} : caller'[d].pc = caller[d].pc
        /\ \A d \in Callers : caller'[d].host = caller[d].host /\ caller'[d].att = caller[d].att
    BY <1>5, StoreEffect
  <2>5. \A d \in Callers : caller'[d].pc # "idle" => caller'[d].att \in Attempts
    BY <2>1, <2>4
  <2>6. \A d \in Callers :
          caller'[d].pc \in {"dial", "store", "setErr", "closeDone", "cleanup"}
            => caller'[d].host \in Hosts
    BY <2>1, <2>4
  <2>7. QED
    BY <2>2, <2>3, <2>4, <2>5, <2>6
<1>6. ASSUME NEW c \in Callers, SetErr(c) PROVE Typed'
  <2>1. caller[c].att \in Attempts /\ caller[c].err \in BOOLEAN
    BY <1>6 DEF SetErr, At, Locals
  <2>2. attempt' \in [Attempts -> [done : BOOLEAN, err : BOOLEAN, stored : BOOLEAN]]
    BY <1>6, <2>1 DEF SetErr
  <2>3. At(c, "setErr") /\ Goto(c, "closeDone") /\ UNCHANGED <<dialing, connections, sem>>
    BY <1>6 DEF SetErr
  <2>4. QED
    BY <2>1, <2>2, <2>3, GotoEffect DEF Labels, At
<1>7. ASSUME NEW c \in Callers, CloseDone(c) PROVE Typed'
  <2>1. caller[c].att \in Attempts
    BY <1>7 DEF CloseDone, At
  <2>2. attempt' \in [Attempts -> [done : BOOLEAN, err : BOOLEAN, stored : BOOLEAN]]
    BY <1>7, <2>1 DEF CloseDone
  <2>3. At(c, "closeDone") /\ Goto(c, "cleanup") /\ UNCHANGED <<dialing, connections, sem>>
    BY <1>7 DEF CloseDone
  <2>4. QED
    BY <2>1, <2>2, <2>3, GotoEffect DEF Labels, At
<1>8. ASSUME NEW c \in Callers, Cleanup(c) PROVE Typed'
  <2>1. dialing' \in [Hosts -> Attempts \cup {None}] /\ UNCHANGED <<connections, attempt, sem>>
    BY <1>8 DEF Cleanup
  <2>2. At(c, "cleanup") /\ caller[c].att \in Attempts
        /\ \E label \in {"failed", "connected"} : Goto(c, label)
    BY <1>8 DEF Cleanup, At
  <2>3. QED
    BY <2>1, <2>2, GotoEffect DEF Labels, At
<1>9. ASSUME NEW c \in Callers, FinishConnect(c) PROVE Typed'
  BY <1>9, ReturnEffect DEF FinishConnect, Idle
<1>10. ASSUME NEW c \in Callers, BeginExecute(c) PROVE Typed'
  BY <1>10, BeginExecuteEffect DEF BeginExecute
<1>11. ASSUME NEW c \in Callers, TakeTurn(c) PROVE Typed'
  <2>1. sem' \in [Attempts -> BOOLEAN] /\ UNCHANGED <<dialing, connections, attempt>>
    BY <1>11 DEF TakeTurn
  <2>2. At(c, "wait") /\ Goto(c, "run")
    BY <1>11 DEF TakeTurn
  <2>3. QED
    BY <2>1, <2>2, GotoEffect DEF Labels, At
<1>12. ASSUME NEW c \in Callers, WaitCancelled(c) PROVE Typed'
  BY <1>12, ReturnEffect DEF WaitCancelled, Idle
<1>13. ASSUME NEW c \in Callers, RunEnds(c) PROVE Typed'
  BY <1>13, GotoEffect DEF RunEnds, Labels, At
<1>14. ASSUME NEW c \in Callers, GiveTurnBack(c) PROVE Typed'
  <2>1. sem' \in [Attempts -> BOOLEAN]
    BY <1>14 DEF GiveTurnBack
  <2>2. QED
    BY <1>14, <2>1, ReturnEffect DEF GiveTurnBack, Idle
<1>15. ASSUME NEW c \in Callers, Disconnect(c) PROVE Typed'
  <2>1. connections' \in [Hosts -> Attempts \cup {None}]
    BY <1>15 DEF Disconnect
  <2>2. QED
    BY <1>15, <2>1 DEF Disconnect
<1>16. CASE UNCHANGED vars
  BY <1>16 DEF vars
<1>17. QED
  BY <1>1, <1>2, <1>3, <1>4, <1>5, <1>6, <1>7, <1>8, <1>9, <1>10, <1>11, <1>12, <1>13, <1>14,
     <1>15, <1>16 DEF Next, Connect, Execute

-----------------------------------------------------------------------------
(* Turns                                                                   *)

Holding(c) == caller[c].pc \in {"run", "release"}

\* A step that moves no caller into or out of its turn, and no slot.
LEMMA TurnFrame ==
    ASSUME TurnInv, UNCHANGED sem,
           \A d \in Callers : /\ caller'[d].pc \in {"run", "release"} <=> Holding(d)
                              /\ Holding(d) => caller'[d].att = caller[d].att
    PROVE  TurnInv'
<1>1. TurnsExclusive'
  BY DEF TurnInv, TurnsExclusive, Holding
<1>2. NoLostTurn'
  BY DEF TurnInv, NoLostTurn, Holding
<1>3. \A c \in Callers : caller'[c].pc \in {"run", "release"} => sem'[caller'[c].att]
  BY DEF TurnInv, Holding
<1>4. QED
  BY <1>1, <1>2, <1>3 DEF TurnInv

\* The turns on a client stay exclusive and none is lost.
LEMMA TurnStep == Typed /\ TurnInv /\ [Next]_vars => TurnInv'
<1> SUFFICES ASSUME Typed, TurnInv, [Next]_vars PROVE TurnInv'
  OBVIOUS
<1>0. caller \in [Callers -> Locals] /\ sem \in [Attempts -> BOOLEAN]
  BY DEF Typed, TypeOK
<1>1. ASSUME NEW c \in Callers, BeginConnect(c) PROVE TurnInv'
  <2>1. /\ caller[c].pc = "idle" /\ caller'[c].pc \in {"join", "dial"}
        /\ \A d \in Callers \ {c} : caller'[d] = caller[d]
    BY <1>1, BeginConnectEffect
  <2>2. CASE UNCHANGED sem
    BY <2>1, <2>2, TurnFrame DEF Holding
  <2>3. CASE ~UNCHANGED sem
    <3>1. PICK a \in Attempts : Unused(a) /\ sem' = [sem EXCEPT ![a] = FALSE]
      BY <1>1, <2>3, BeginConnectEffect
    <3>2. \A d \in Callers : caller[d].att # a
      BY <3>1 DEF Unused
    <3>3. \A d \in Callers : caller'[d].pc \in {"run", "release"} <=> Holding(d)
      BY <2>1 DEF Holding
    <3>4. \A d \in Callers : Holding(d) => caller'[d].att = caller[d].att
      BY <2>1 DEF Holding
    <3>5. TurnsExclusive'
      BY <3>3, <3>4 DEF TurnInv, TurnsExclusive, Holding
    <3>6. NoLostTurn'
      <4> SUFFICES ASSUME NEW k \in Attempts, sem'[k]
                   PROVE  \E d \in Callers : caller'[d].pc \in {"run", "release"}
                                               /\ caller'[d].att = k
        BY DEF NoLostTurn
      <4>1. k # a /\ sem[k]
        BY <1>0, <3>1
      <4>2. PICK d \in Callers : Holding(d) /\ caller[d].att = k
        BY <4>1 DEF TurnInv, NoLostTurn, Holding
      <4>3. QED
        BY <3>3, <3>4, <4>2
    <3>7. \A d \in Callers : caller'[d].pc \in {"run", "release"} => sem'[caller'[d].att]
      <4> SUFFICES ASSUME NEW d \in Callers, caller'[d].pc \in {"run", "release"}
                   PROVE  sem'[caller'[d].att]
        OBVIOUS
      <4>1. Holding(d) /\ caller'[d].att = caller[d].att /\ caller[d].att # a
        BY <3>2, <3>3, <3>4
      <4>2. sem[caller[d].att] /\ caller[d].att \in Attempts
        BY <4>1 DEF TurnInv, Holding, Typed, TypeOK
      <4>3. QED
        BY <1>0, <3>1, <4>1, <4>2
    <3>8. QED
      BY <3>5, <3>6, <3>7 DEF TurnInv
  <2>4. QED
    BY <2>2, <2>3
<1>2. ASSUME NEW c \in Callers, JoinDone(c) PROVE TurnInv'
  BY <1>0, <1>2, GotoEffect, TurnFrame DEF JoinDone, At, Labels, Holding
<1>3. ASSUME NEW c \in Callers, JoinCancelled(c) PROVE TurnInv'
  BY <1>0, <1>3, ReturnEffect, TurnFrame DEF JoinCancelled, At, Idle, Holding
<1>4. ASSUME NEW c \in Callers, DialOnce(c) PROVE TurnInv'
  BY <1>4, DialOnceEffect, TurnFrame DEF DialOnce, At, Holding
<1>5. ASSUME NEW c \in Callers, Store(c) PROVE TurnInv'
  <2>1. UNCHANGED sem /\ caller[c].pc = "store"
    BY <1>5 DEF Store, At
  <2>2. QED
    BY <1>5, <2>1, StoreEffect, TurnFrame DEF Holding
<1>6. ASSUME NEW c \in Callers, SetErr(c) PROVE TurnInv'
  BY <1>0, <1>6, GotoEffect, TurnFrame DEF SetErr, At, Labels, Holding
<1>7. ASSUME NEW c \in Callers, CloseDone(c) PROVE TurnInv'
  BY <1>0, <1>7, GotoEffect, TurnFrame DEF CloseDone, At, Labels, Holding
<1>8. ASSUME NEW c \in Callers, Cleanup(c) PROVE TurnInv'
  BY <1>0, <1>8, GotoEffect, TurnFrame DEF Cleanup, At, Labels, Holding
<1>9. ASSUME NEW c \in Callers, FinishConnect(c) PROVE TurnInv'
  BY <1>0, <1>9, ReturnEffect, TurnFrame DEF FinishConnect, Idle, Holding
<1>10. ASSUME NEW c \in Callers, BeginExecute(c) PROVE TurnInv'
  <2>1. UNCHANGED sem /\ caller[c].pc = "idle"
    BY <1>10 DEF BeginExecute, At
  <2>2. QED
    BY <1>10, <2>1, BeginExecuteEffect, TurnFrame DEF Holding
<1>11. ASSUME NEW c \in Callers, TakeTurn(c) PROVE TurnInv'
  <2> DEFINE k == caller[c].att
  <2>1. /\ caller[c].pc = "wait" /\ ~sem[k] /\ sem' = [sem EXCEPT ![k] = TRUE]
        /\ k \in Attempts
    BY <1>11 DEF TakeTurn, At, Typed, TypeOK
  <2>2. /\ caller'[c].pc = "run" /\ caller'[c].att = k
        /\ \A d \in Callers \ {c} : caller'[d] = caller[d]
    BY <1>0, <1>11, GotoEffect DEF TakeTurn, Labels
  <2> HIDE DEF k
  <2>3. \A d \in Callers : Holding(d) => sem[caller[d].att]
    BY DEF TurnInv, Holding
  <2>4. \A d \in Callers : Holding(d) => caller[d].att # k
    BY <2>1, <2>3
  <2>5. TurnsExclusive'
    BY <2>2, <2>4 DEF TurnInv, TurnsExclusive, Holding
  <2>6. NoLostTurn'
    <3> SUFFICES ASSUME NEW a \in Attempts, sem'[a]
                 PROVE  \E d \in Callers : caller'[d].pc \in {"run", "release"}
                                             /\ caller'[d].att = a
      BY DEF NoLostTurn
    <3>1. CASE a = k
      BY <2>2, <3>1
    <3>2. CASE a # k
      <4>1. sem[a]
        BY <1>0, <2>1, <3>2
      <4>2. PICK d \in Callers : Holding(d) /\ caller[d].att = a
        BY <4>1 DEF TurnInv, NoLostTurn, Holding
      <4>3. d # c
        BY <2>1, <4>2 DEF Holding
      <4>4. QED
        BY <2>2, <4>2, <4>3 DEF Holding
    <3>3. QED
      BY <3>1, <3>2
  <2>7. \A d \in Callers : caller'[d].pc \in {"run", "release"} => sem'[caller'[d].att]
    <3> SUFFICES ASSUME NEW d \in Callers, caller'[d].pc \in {"run", "release"}
                 PROVE  sem'[caller'[d].att]
      OBVIOUS
    <3>1. CASE d = c
      BY <1>0, <2>1, <2>2, <3>1
    <3>2. CASE d # c
      <4>1. Holding(d) /\ caller'[d].att = caller[d].att
        BY <2>2, <3>2 DEF Holding
      <4>2. sem[caller[d].att] /\ caller[d].att # k /\ caller[d].att \in Attempts
        BY <2>3, <2>4, <4>1 DEF Holding, Typed, TypeOK
      <4>3. QED
        BY <1>0, <2>1, <4>1, <4>2
    <3>3. QED
      BY <3>1, <3>2
  <2>8. QED
    BY <2>5, <2>6, <2>7 DEF TurnInv
<1>12. ASSUME NEW c \in Callers, WaitCancelled(c) PROVE TurnInv'
  BY <1>0, <1>12, ReturnEffect, TurnFrame DEF WaitCancelled, At, Idle, Holding
<1>13. ASSUME NEW c \in Callers, RunEnds(c) PROVE TurnInv'
  BY <1>0, <1>13, GotoEffect, TurnFrame DEF RunEnds, At, Labels, Holding
<1>14. ASSUME NEW c \in Callers, GiveTurnBack(c) PROVE TurnInv'
  <2> DEFINE k == caller[c].att
  <2>1. /\ caller[c].pc = "release" /\ sem' = [sem EXCEPT ![k] = FALSE]
        /\ k \in Attempts
    BY <1>14 DEF GiveTurnBack, At, Typed, TypeOK
  <2>2. caller'[c].pc = "idle" /\ \A d \in Callers \ {c} : caller'[d] = caller[d]
    BY <1>0, <1>14, ReturnEffect DEF GiveTurnBack, Idle
  <2>3. \A d \in Callers \ {c} : Holding(d) => caller[d].att # k
    BY <2>1 DEF TurnInv, TurnsExclusive, Holding
  <2> HIDE DEF k
  <2>4. TurnsExclusive'
    BY <2>2 DEF TurnInv, TurnsExclusive, Holding
  <2>5. NoLostTurn'
    <3> SUFFICES ASSUME NEW a \in Attempts, sem'[a]
                 PROVE  \E d \in Callers : caller'[d].pc \in {"run", "release"}
                                             /\ caller'[d].att = a
      BY DEF NoLostTurn
    <3>1. a # k /\ sem[a]
      BY <1>0, <2>1
    <3>2. PICK d \in Callers : Holding(d) /\ caller[d].att = a
      BY <3>1 DEF TurnInv, NoLostTurn, Holding
    <3>3. d # c
      BY <3>1, <3>2 DEF k
    <3>4. QED
      BY <2>2, <3>2, <3>3 DEF Holding
  <2>6. \A d \in Callers : caller'[d].pc \in {"run", "release"} => sem'[caller'[d].att]
    <3> SUFFICES ASSUME NEW d \in Callers, caller'[d].pc \in {"run", "release"}
                 PROVE  sem'[caller'[d].att]
      OBVIOUS
    <3>1. d # c
      BY <2>2
    <3>2. Holding(d) /\ caller'[d].att = caller[d].att
      BY <2>2, <3>1 DEF Holding
    <3>3. sem[caller[d].att] /\ caller[d].att # k /\ caller[d].att \in Attempts
      BY <2>3, <3>1, <3>2 DEF TurnInv, Holding, Typed, TypeOK
    <3>4. QED
      BY <1>0, <2>1, <3>2, <3>3
  <2>7. QED
    BY <2>4, <2>5, <2>6 DEF TurnInv
<1>15. ASSUME NEW c \in Callers, Disconnect(c) PROVE TurnInv'
  BY <1>15, TurnFrame DEF Disconnect, Holding
<1>16. CASE UNCHANGED vars
  BY <1>16, TurnFrame DEF vars, Holding
<1>17. QED
  BY <1>1, <1>2, <1>3, <1>4, <1>5, <1>6, <1>7, <1>8, <1>9, <1>10, <1>11, <1>12, <1>13, <1>14,
     <1>15, <1>16 DEF Next, Connect, Execute

-----------------------------------------------------------------------------
(* Dials                                                                   *)

Dials == {"dial", "store", "setErr", "closeDone", "cleanup"}

\* A step that starts and ends no dial.
LEMMA DialFrame ==
    ASSUME DialInv, UNCHANGED dialing,
           \A d \in Callers : /\ caller'[d].pc \in Dials <=> caller[d].pc \in Dials
                              /\ caller[d].pc \in Dials =>
                                    /\ caller'[d].att = caller[d].att
                                    /\ caller'[d].host = caller[d].host
    PROVE  DialInv'
<1>1. OneDialPerHost'
  BY DEF DialInv, OneDialPerHost, Dialing, Dials
<1>2. NoAbandonedDial'
  BY DEF DialInv, NoAbandonedDial, Dialing, Dials
<1>3. \A c, d \in Callers :
        caller'[c].pc \in Dials /\ caller'[d].pc \in Dials /\ caller'[c].att = caller'[d].att
          => c = d
  BY DEF DialInv, Dialing, Dials
<1>4. QED
  BY <1>1, <1>2, <1>3 DEF DialInv, Dialing, Dials

\* Dials stay single.
LEMMA DialStep == Typed /\ DialInv /\ [Next]_vars => DialInv'
<1> SUFFICES ASSUME Typed, DialInv, [Next]_vars PROVE DialInv'
  OBVIOUS
<1>0. /\ caller \in [Callers -> Locals] /\ dialing \in [Hosts -> Attempts \cup {None}]
      /\ \A d \in Callers : caller[d].pc \in Dials => caller[d].host \in Hosts
                                                       /\ caller[d].att \in Attempts
  BY DEF Typed, TypeOK, Dialing, Dials
<1>1. ASSUME NEW c \in Callers, BeginConnect(c) PROVE DialInv'
  <2>1. /\ caller[c].pc = "idle"
        /\ \A d \in Callers \ {c} : caller'[d] = caller[d]
    BY <1>1, BeginConnectEffect
  <2>2. CASE caller'[c].pc = "join" /\ UNCHANGED dialing
    BY <2>1, <2>2, DialFrame DEF Dials
  <2>3. CASE ~(caller'[c].pc = "join" /\ UNCHANGED dialing)
    <3>1. PICK h \in Hosts, a \in Attempts :
            /\ caller'[c].host = h /\ caller'[c].att = a
            /\ caller'[c].pc = "dial"
            /\ dialing[h] = None /\ Unused(a)
            /\ dialing' = [dialing EXCEPT ![h] = a]
      BY <1>1, <2>3, BeginConnectEffect
    <3>2. \A d \in Callers : caller[d].pc \in Dials =>
                                caller[d].host # h /\ caller[d].att # a
                                  /\ dialing[caller[d].host] = caller[d].att
      BY <1>0, <3>1, NoneAssumption DEF DialInv, OneDialPerHost, Dialing, Dials, Unused
    <3>3. \A d \in Callers : caller'[d].pc \in Dials =>
                                \/ d = c
                                \/ d # c /\ caller[d].pc \in Dials /\ caller'[d] = caller[d]
      BY <2>1
    <3>4. dialing'[h] = a /\ \A g \in Hosts \ {h} : dialing'[g] = dialing[g]
      BY <1>0, <3>1
    <3>5. \A d \in Callers : caller'[d].pc \in Dials => dialing'[caller'[d].host] = caller'[d].att
      BY <1>0, <3>1, <3>2, <3>3, <3>4
    <3>6. \A d, e \in Callers : caller'[d].pc \in Dials /\ caller'[e].pc \in Dials /\ d # e =>
                                    /\ caller'[d].host # caller'[e].host
                                    /\ caller'[d].att # caller'[e].att
      <4> SUFFICES ASSUME NEW d \in Callers, NEW e \in Callers,
                          caller'[d].pc \in Dials, caller'[e].pc \in Dials, d # e
                   PROVE  caller'[d].host # caller'[e].host /\ caller'[d].att # caller'[e].att
        OBVIOUS
      <4>1. CASE d = c
        BY <3>1, <3>2, <3>3, <4>1
      <4>2. CASE e = c
        BY <3>1, <3>2, <3>3, <4>2
      <4>3. CASE d # c /\ e # c
        BY <3>3, <4>3 DEF DialInv, OneDialPerHost, Dialing, Dials
      <4>4. QED
        BY <4>1, <4>2, <4>3
    <3>7. NoAbandonedDial'
      <4> SUFFICES ASSUME NEW g \in Hosts, dialing'[g] # None
                   PROVE  \E d \in Callers : caller'[d].pc \in Dials /\ caller'[d].host = g
        BY DEF NoAbandonedDial, Dialing, Dials
      <4>1. CASE g = h
        BY <3>1, <4>1 DEF Dials
      <4>2. CASE g # h
        <5>1. PICK d \in Callers : caller[d].pc \in Dials /\ caller[d].host = g
          BY <3>4, <4>2 DEF DialInv, NoAbandonedDial, Dialing, Dials
        <5>2. d # c
          BY <2>1, <5>1 DEF Dials
        <5>3. QED
          BY <2>1, <5>1, <5>2
      <4>3. QED
        BY <4>1, <4>2
    <3>8. QED
      BY <3>5, <3>6, <3>7 DEF DialInv, OneDialPerHost, Dialing, Dials
  <2>4. QED
    BY <2>2, <2>3
<1>2. ASSUME NEW c \in Callers, JoinDone(c) PROVE DialInv'
  BY <1>0, <1>2, GotoEffect, DialFrame DEF JoinDone, At, Labels, Dials
<1>3. ASSUME NEW c \in Callers, JoinCancelled(c) PROVE DialInv'
  BY <1>0, <1>3, ReturnEffect, DialFrame DEF JoinCancelled, At, Idle, Dials
<1>4. ASSUME NEW c \in Callers, DialOnce(c) PROVE DialInv'
  BY <1>4, DialOnceEffect, DialFrame DEF DialOnce, At, Dials
<1>5. ASSUME NEW c \in Callers, Store(c) PROVE DialInv'
  <2>1. UNCHANGED dialing /\ caller[c].pc = "store"
    BY <1>5 DEF Store, At
  <2>2. QED
    BY <1>5, <2>1, StoreEffect, DialFrame DEF Dials
<1>6. ASSUME NEW c \in Callers, SetErr(c) PROVE DialInv'
  BY <1>0, <1>6, GotoEffect, DialFrame DEF SetErr, At, Labels, Dials
<1>7. ASSUME NEW c \in Callers, CloseDone(c) PROVE DialInv'
  BY <1>0, <1>7, GotoEffect, DialFrame DEF CloseDone, At, Labels, Dials
<1>8. ASSUME NEW c \in Callers, Cleanup(c) PROVE DialInv'
  <2> DEFINE h == caller[c].host
  <2>1. /\ caller[c].pc = "cleanup" /\ h \in Hosts
        /\ dialing' = [dialing EXCEPT ![h] = None]
    BY <1>0, <1>8 DEF Cleanup, At, Dials
  <2>2. /\ caller'[c].pc \notin Dials
        /\ \A d \in Callers \ {c} : caller'[d] = caller[d]
    BY <1>0, <1>8, GotoEffect DEF Cleanup, Labels, Dials
  <2>3. \A d \in Callers \ {c} : caller[d].pc \in Dials => caller[d].host # h
    BY <2>1 DEF DialInv, OneDialPerHost, Dialing, Dials
  <2> HIDE DEF h
  <2>4. dialing'[h] = None /\ \A g \in Hosts \ {h} : dialing'[g] = dialing[g]
    BY <1>0, <2>1
  <2>5. OneDialPerHost'
    BY <1>0, <2>2, <2>3, <2>4 DEF DialInv, OneDialPerHost, Dialing, Dials
  <2>6. NoAbandonedDial'
    <3> SUFFICES ASSUME NEW g \in Hosts, dialing'[g] # None
                 PROVE  \E d \in Callers : caller'[d].pc \in Dials /\ caller'[d].host = g
      BY DEF NoAbandonedDial, Dialing, Dials
    <3>1. g # h
      BY <2>4
    <3>2. PICK d \in Callers : caller[d].pc \in Dials /\ caller[d].host = g
      BY <2>4, <3>1 DEF DialInv, NoAbandonedDial, Dialing, Dials
    <3>3. d # c
      BY <3>1, <3>2 DEF h
    <3>4. QED
      BY <2>2, <3>2, <3>3
  <2>7. \A d, e \in Callers : caller'[d].pc \in Dials /\ caller'[e].pc \in Dials
                                /\ caller'[d].att = caller'[e].att => d = e
    BY <2>2 DEF DialInv, Dialing, Dials
  <2>8. QED
    BY <2>5, <2>6, <2>7 DEF DialInv, Dialing, Dials
<1>9. ASSUME NEW c \in Callers, FinishConnect(c) PROVE DialInv'
  BY <1>0, <1>9, ReturnEffect, DialFrame DEF FinishConnect, Idle, Dials
<1>10. ASSUME NEW c \in Callers, BeginExecute(c) PROVE DialInv'
  <2>1. UNCHANGED dialing /\ caller[c].pc = "idle"
    BY <1>10 DEF BeginExecute, At
  <2>2. QED
    BY <1>10, <2>1, BeginExecuteEffect, DialFrame DEF Dials
<1>11. ASSUME NEW c \in Callers, TakeTurn(c) PROVE DialInv'
  BY <1>0, <1>11, GotoEffect, DialFrame DEF TakeTurn, At, Labels, Dials
<1>12. ASSUME NEW c \in Callers, WaitCancelled(c) PROVE DialInv'
  BY <1>0, <1>12, ReturnEffect, DialFrame DEF WaitCancelled, At, Idle, Dials
<1>13. ASSUME NEW c \in Callers, RunEnds(c) PROVE DialInv'
  BY <1>0, <1>13, GotoEffect, DialFrame DEF RunEnds, At, Labels, Dials
<1>14. ASSUME NEW c \in Callers, GiveTurnBack(c) PROVE DialInv'
  BY <1>0, <1>14, ReturnEffect, DialFrame DEF GiveTurnBack, At, Idle, Dials
<1>15. ASSUME NEW c \in Callers, Disconnect(c) PROVE DialInv'
  BY <1>15, DialFrame DEF Disconnect
<1>16. CASE UNCHANGED vars
  BY <1>16, DialFrame DEF vars
<1>17. QED
  BY <1>1, <1>2, <1>3, <1>4, <1>5, <1>6, <1>7, <1>8, <1>9, <1>10, <1>11, <1>12, <1>13, <1>14,
     <1>15, <1>16 DEF Next, Connect, Execute

-----------------------------------------------------------------------------
(* Outcomes                                                                *)

\* What a caller's place in Connect says of its attempt, for any values of
\* the two.
Says(pc, err, a) ==
    /\ pc \in Dials => /\ a.done = (pc = "cleanup")
                       /\ pc \in {"dial", "store"} => ~a.stored /\ ~err
                       /\ pc \notin {"dial", "store"} => a.stored = ~err
                       /\ pc = "closeDone" => a.err = err
    /\ pc \in {"connected", "failed"} => a.done
    /\ pc = "connected" => a.stored
    /\ pc = "failed" => ~a.stored

LEMMA OutcomeForm ==
    OutcomeInv <=> /\ \A a \in Attempts : attempt[a].done => attempt[a].stored = ~attempt[a].err
                   /\ \A d \in Callers : Says(caller[d].pc, caller[d].err, attempt[caller[d].att])
BY DEF OutcomeInv, JoinersShareOutcome, Says, At, Dialing, Dials

\* A step of caller c that changes no attempt.
LEMMA OutcomeFrame ==
    ASSUME OutcomeInv, NEW c \in Callers, UNCHANGED attempt,
           \A d \in Callers \ {c} : /\ caller'[d].pc = caller[d].pc
                                    /\ caller'[d].err = caller[d].err
                                    /\ caller'[d].att = caller[d].att,
           Says(caller'[c].pc, caller'[c].err, attempt[caller'[c].att])
    PROVE  OutcomeInv'
<1>1. \A d \in Callers : Says(caller'[d].pc, caller'[d].err, attempt'[caller'[d].att])
  BY OutcomeForm
<1>2. \A a \in Attempts : attempt'[a].done => attempt'[a].stored = ~attempt'[a].err
  BY OutcomeForm
<1>3. QED
  BY <1>1, <1>2 DEF OutcomeInv, JoinersShareOutcome, Says, At, Dialing, Dials

\* A step of caller c that changes the attempt in its hands, which no other
\* caller dials and, while it is not done, no other caller has returned from.
LEMMA OutcomeOwnStep ==
    ASSUME Typed, DialInv, OutcomeInv, NEW c \in Callers, NEW r,
           caller[c].pc \in Dials \ {"cleanup"},
           r \in [done : BOOLEAN, err : BOOLEAN, stored : BOOLEAN],
           r.done => r.stored = ~r.err,
           attempt' = [attempt EXCEPT ![caller[c].att] = r],
           caller'[c].att = caller[c].att,
           Says(caller'[c].pc, caller'[c].err, r),
           \A d \in Callers \ {c} : /\ caller'[d].pc = caller[d].pc
                                    /\ caller'[d].err = caller[d].err
                                    /\ caller'[d].att = caller[d].att
    PROVE  OutcomeInv'
<1> DEFINE k == caller[c].att
<1>1. k \in Attempts /\ ~attempt[k].done
  BY DEF Typed, TypeOK, OutcomeInv, Dialing, Dials
<1>2. attempt'[k] = r /\ \A a \in Attempts \ {k} : attempt'[a] = attempt[a]
  BY <1>1 DEF Typed, TypeOK
<1>3. \A a \in Attempts : attempt'[a].done => attempt'[a].stored = ~attempt'[a].err
  BY <1>2, OutcomeForm
<1>4. ASSUME NEW d \in Callers
      PROVE  Says(caller'[d].pc, caller'[d].err, attempt'[caller'[d].att])
  <2>1. CASE d = c
    BY <1>2, <2>1
  <2>2. CASE d # c /\ caller[d].att = k
    <3>1. caller[d].pc \notin Dials
      BY <2>2 DEF DialInv, Dialing, Dials
    <3>2. caller[d].pc \notin {"connected", "failed"}
      BY <1>1, <2>2 DEF OutcomeInv
    <3>3. QED
      BY <2>2, <3>1, <3>2 DEF Says
  <2>3. CASE d # c /\ caller[d].att # k
    <3>1. CASE caller[d].pc = "idle"
      BY <2>3, <3>1 DEF Says, Dials
    <3>2. CASE caller[d].pc # "idle"
      <4>1. caller[d].att \in Attempts
        BY <3>2 DEF Typed, TypeOK
      <4>2. attempt'[caller'[d].att] = attempt[caller[d].att]
        BY <1>2, <2>3, <4>1
      <4>3. QED
        BY <2>3, <4>2, OutcomeForm
    <3>3. QED
      BY <3>1, <3>2
  <2>4. QED
    BY <2>1, <2>2, <2>3
<1>5. QED
  BY <1>3, <1>4 DEF OutcomeInv, JoinersShareOutcome, Says, At, Dialing, Dials

\* A dial and its joiners come to the same outcome.
LEMMA OutcomeStep == Typed /\ DialInv /\ OutcomeInv /\ [Next]_vars => OutcomeInv'
<1> SUFFICES ASSUME Typed, DialInv, OutcomeInv, [Next]_vars PROVE OutcomeInv'
  OBVIOUS
<1>0. /\ caller \in [Callers -> Locals]
      /\ attempt \in [Attempts -> [done : BOOLEAN, err : BOOLEAN, stored : BOOLEAN]]
      /\ \A d \in Callers : /\ Says(caller[d].pc, caller[d].err, attempt[caller[d].att])
                            /\ caller[d].err \in BOOLEAN
                            /\ caller[d].pc # "idle" => caller[d].att \in Attempts
      /\ \A a \in Attempts : attempt[a].done => attempt[a].stored = ~attempt[a].err
  BY OutcomeForm DEF Typed, TypeOK, Locals
<1>1. ASSUME NEW c \in Callers, BeginConnect(c) PROVE OutcomeInv'
  <2>1. \A d \in Callers \ {c} : caller'[d] = caller[d]
    BY <1>1, BeginConnectEffect
  <2>2. CASE caller'[c].pc = "join" /\ UNCHANGED attempt
    <3>1. Says(caller'[c].pc, caller'[c].err, attempt[caller'[c].att])
      BY <2>2 DEF Says, Dials
    <3>2. QED
      BY <2>1, <2>2, <3>1, OutcomeFrame
  <2>3. CASE ~(caller'[c].pc = "join" /\ UNCHANGED attempt)
    <3>1. PICK h \in Hosts, a \in Attempts :
            /\ caller'[c].att = a /\ caller'[c].pc = "dial" /\ ~caller'[c].err
            /\ Unused(a)
            /\ attempt' = [attempt EXCEPT ![a] =
                             [done |-> FALSE, err |-> FALSE, stored |-> FALSE]]
      BY <1>1, <2>3, BeginConnectEffect
    <3>2. /\ attempt'[a] = [done |-> FALSE, err |-> FALSE, stored |-> FALSE]
          /\ \A k \in Attempts \ {a} : attempt'[k] = attempt[k]
      BY <1>0, <3>1
    <3>3. \A k \in Attempts : attempt'[k].done => attempt'[k].stored = ~attempt'[k].err
      BY <1>0, <3>2
    <3>4. ASSUME NEW d \in Callers
          PROVE  Says(caller'[d].pc, caller'[d].err, attempt'[caller'[d].att])
      <4>1. CASE d = c
        <5> DEFINE r == [done |-> FALSE, err |-> FALSE, stored |-> FALSE]
        <5>1. attempt'[caller'[d].att] = r
          BY <3>1, <3>2, <4>1
        <5>2. r.done = FALSE /\ r.stored = FALSE
          OBVIOUS
        <5> HIDE DEF r
        <5>3. Says(caller'[d].pc, caller'[d].err, r)
          BY <3>1, <4>1, <5>2 DEF Says, Dials
        <5>4. QED
          BY <5>1, <5>3
      <4>2. CASE d # c /\ caller[d].pc = "idle"
        BY <2>1, <4>2 DEF Says, Dials
      <4>3. CASE d # c /\ caller[d].pc # "idle"
        <5>1. caller[d].att \in Attempts \ {a}
          BY <1>0, <3>1, <4>3 DEF Unused
        <5>2. QED
          BY <1>0, <2>1, <3>2, <4>3, <5>1
      <4>4. QED
        BY <4>1, <4>2, <4>3
    <3>5. QED
      BY <3>3, <3>4 DEF OutcomeInv, JoinersShareOutcome, Says, At, Dialing, Dials
  <2>4. QED
    BY <2>2, <2>3
<1>2. ASSUME NEW c \in Callers, JoinDone(c) PROVE OutcomeInv'
  <2>1. /\ caller[c].pc = "join" /\ attempt[caller[c].att].done
        /\ UNCHANGED attempt /\ caller[c].att \in Attempts
    BY <1>0, <1>2 DEF JoinDone, At
  <2>2. /\ caller'[c].pc = IF attempt[caller[c].att].err THEN "failed" ELSE "connected"
        /\ caller'[c].att = caller[c].att
        /\ \A d \in Callers \ {c} : caller'[d] = caller[d]
    BY <1>0, <1>2, GotoEffect DEF JoinDone, Labels
  <2>3. attempt[caller[c].att].stored = ~attempt[caller[c].att].err
    BY <1>0, <2>1
  <2>4. Says(caller'[c].pc, caller'[c].err, attempt[caller'[c].att])
    BY <2>1, <2>2, <2>3 DEF Says, Dials
  <2>5. QED
    BY <2>1, <2>2, <2>4, OutcomeFrame
<1>3. ASSUME NEW c \in Callers, JoinCancelled(c) PROVE OutcomeInv'
  BY <1>0, <1>3, ReturnEffect, OutcomeFrame DEF JoinCancelled, Idle, Says, Dials
<1>4. ASSUME NEW c \in Callers, DialOnce(c) PROVE OutcomeInv'
  <2>1. caller[c].pc = "dial" /\ UNCHANGED attempt
    BY <1>4 DEF DialOnce, At
  <2>2. /\ \/ caller'[c].pc = "store" /\ caller'[c].err = caller[c].err
           \/ caller'[c].pc = "setErr" /\ caller'[c].err
        /\ caller'[c].att = caller[c].att
        /\ \A d \in Callers \ {c} : caller'[d] = caller[d]
    BY <1>4, DialOnceEffect
  <2>3. ~attempt[caller[c].att].done /\ ~attempt[caller[c].att].stored /\ ~caller[c].err
    BY <1>0, <2>1 DEF Says, Dials
  <2>4. Says(caller'[c].pc, caller'[c].err, attempt[caller'[c].att])
    <3>1. attempt[caller[c].att].done = FALSE /\ attempt[caller[c].att].stored = FALSE
      BY <1>0, <2>1, <2>3
    <3>2. CASE caller'[c].pc = "store" /\ caller'[c].err = caller[c].err
      BY <2>2, <2>3, <3>1, <3>2 DEF Says, Dials
    <3>3. CASE caller'[c].pc = "setErr" /\ caller'[c].err
      BY <2>2, <3>1, <3>3 DEF Says, Dials
    <3>4. QED
      BY <2>2, <3>2, <3>3
  <2>5. QED
    BY <2>1, <2>2, <2>4, OutcomeFrame
<1>5. ASSUME NEW c \in Callers, Store(c) PROVE OutcomeInv'
  <2> DEFINE r == [attempt[caller[c].att] EXCEPT !.stored = TRUE]
  <2>1. caller[c].pc = "store" /\ attempt' = [attempt EXCEPT ![caller[c].att] = r]
    BY <1>5 DEF Store, At
  <2>2. attempt[caller[c].att] \in [done : BOOLEAN, err : BOOLEAN, stored : BOOLEAN]
    BY <1>0, <2>1
  <2>3. attempt[caller[c].att].done = FALSE /\ caller[c].err = FALSE
    BY <1>0, <2>1, <2>2 DEF Says, Dials
  <2>4. r \in [done : BOOLEAN, err : BOOLEAN, stored : BOOLEAN]
        /\ r.done = FALSE /\ r.stored = TRUE
    BY <2>2, <2>3
  <2>5. /\ caller'[c].pc = "setErr" /\ caller'[c].err = FALSE
        /\ caller'[c].att = caller[c].att
        /\ \A d \in Callers \ {c} : /\ caller'[d].pc = caller[d].pc
                                    /\ caller'[d].err = caller[d].err
                                    /\ caller'[d].att = caller[d].att
    BY <1>5, <2>3, StoreEffect
  <2> HIDE DEF r
  <2>6. Says(caller'[c].pc, caller'[c].err, r)
    BY <2>4, <2>5 DEF Says, Dials
  <2>7. QED
    BY <2>1, <2>4, <2>5, <2>6, OutcomeOwnStep DEF Dials
<1>6. ASSUME NEW c \in Callers, SetErr(c) PROVE OutcomeInv'
  <2> DEFINE r == [attempt[caller[c].att] EXCEPT !.err = caller[c].err]
  <2>1. caller[c].pc = "setErr" /\ attempt' = [attempt EXCEPT ![caller[c].att] = r]
    BY <1>6 DEF SetErr, At
  <2>2. attempt[caller[c].att] \in [done : BOOLEAN, err : BOOLEAN, stored : BOOLEAN]
    BY <1>0, <2>1
  <2>3. attempt[caller[c].att].done = FALSE /\ attempt[caller[c].att].stored = ~caller[c].err
    BY <1>0, <2>1, <2>2 DEF Says, Dials
  <2>4. r \in [done : BOOLEAN, err : BOOLEAN, stored : BOOLEAN]
        /\ r.done = FALSE /\ r.stored = ~caller[c].err /\ r.err = caller[c].err
    BY <1>0, <2>2, <2>3
  <2>5. /\ caller'[c].pc = "closeDone" /\ caller'[c].err = caller[c].err
        /\ caller'[c].att = caller[c].att
        /\ \A d \in Callers \ {c} : caller'[d] = caller[d]
    BY <1>0, <1>6, GotoEffect DEF SetErr, Labels
  <2> HIDE DEF r
  <2>6. Says(caller'[c].pc, caller'[c].err, r)
    BY <2>4, <2>5 DEF Says, Dials
  <2>7. QED
    BY <2>1, <2>4, <2>5, <2>6, OutcomeOwnStep DEF Dials
<1>7. ASSUME NEW c \in Callers, CloseDone(c) PROVE OutcomeInv'
  <2> DEFINE r == [attempt[caller[c].att] EXCEPT !.done = TRUE]
  <2>1. caller[c].pc = "closeDone" /\ attempt' = [attempt EXCEPT ![caller[c].att] = r]
    BY <1>7 DEF CloseDone, At
  <2>2. attempt[caller[c].att] \in [done : BOOLEAN, err : BOOLEAN, stored : BOOLEAN]
    BY <1>0, <2>1
  <2>3. /\ attempt[caller[c].att].stored = ~caller[c].err
        /\ attempt[caller[c].att].err = caller[c].err
    BY <1>0, <2>1, <2>2 DEF Says, Dials
  <2>4. r \in [done : BOOLEAN, err : BOOLEAN, stored : BOOLEAN]
        /\ r.done = TRUE /\ r.stored = ~caller[c].err /\ r.err = caller[c].err
    BY <1>0, <2>2, <2>3
  <2>5. /\ caller'[c].pc = "cleanup" /\ caller'[c].err = caller[c].err
        /\ caller'[c].att = caller[c].att
        /\ \A d \in Callers \ {c} : caller'[d] = caller[d]
    BY <1>0, <1>7, GotoEffect DEF CloseDone, Labels
  <2> HIDE DEF r
  <2>6. Says(caller'[c].pc, caller'[c].err, r)
    BY <2>4, <2>5 DEF Says, Dials
  <2>7. QED
    BY <2>1, <2>4, <2>5, <2>6, OutcomeOwnStep DEF Dials
<1>8. ASSUME NEW c \in Callers, Cleanup(c) PROVE OutcomeInv'
  <2>1. caller[c].pc = "cleanup" /\ UNCHANGED attempt
    BY <1>8 DEF Cleanup, At
  <2>2. attempt[caller[c].att] \in [done : BOOLEAN, err : BOOLEAN, stored : BOOLEAN]
    BY <1>0, <2>1
  <2>3. attempt[caller[c].att].done = TRUE /\ attempt[caller[c].att].stored = ~caller[c].err
    BY <1>0, <2>1, <2>2 DEF Says, Dials
  <2>4. /\ caller'[c].pc = IF caller[c].err THEN "failed" ELSE "connected"
        /\ caller'[c].att = caller[c].att
        /\ \A d \in Callers \ {c} : caller'[d] = caller[d]
    BY <1>0, <1>8, GotoEffect DEF Cleanup, Labels
  <2>5. Says(caller'[c].pc, caller'[c].err, attempt[caller'[c].att])
    BY <2>3, <2>4 DEF Says, Dials
  <2>6. QED
    BY <2>1, <2>4, <2>5, OutcomeFrame
<1>9. ASSUME NEW c \in Callers, FinishConnect(c) PROVE OutcomeInv'
  BY <1>0, <1>9, ReturnEffect, OutcomeFrame DEF FinishConnect, Idle, Says, Dials
<1>10. ASSUME NEW c \in Callers, BeginExecute(c) PROVE OutcomeInv'
  <2>1. UNCHANGED attempt
    BY <1>10 DEF BeginExecute
  <2>2. caller'[c].pc = "wait" /\ \A d \in Callers \ {c} : caller'[d] = caller[d]
    BY <1>10, BeginExecuteEffect
  <2>3. Says(caller'[c].pc, caller'[c].err, attempt[caller'[c].att])
    BY <2>2 DEF Says, Dials
  <2>4. QED
    BY <2>1, <2>2, <2>3, OutcomeFrame
<1>11. ASSUME NEW c \in Callers, TakeTurn(c) PROVE OutcomeInv'
  BY <1>0, <1>11, GotoEffect, OutcomeFrame DEF TakeTurn, Labels, Says, Dials
<1>12. ASSUME NEW c \in Callers, WaitCancelled(c) PROVE OutcomeInv'
  BY <1>0, <1>12, ReturnEffect, OutcomeFrame DEF WaitCancelled, Idle, Says, Dials
<1>13. ASSUME NEW c \in Callers, RunEnds(c) PROVE OutcomeInv'
  BY <1>0, <1>13, GotoEffect, OutcomeFrame DEF RunEnds, Labels, Says, Dials
<1>14. ASSUME NEW c \in Callers, GiveTurnBack(c) PROVE OutcomeInv'
  BY <1>0, <1>14, ReturnEffect, OutcomeFrame DEF GiveTurnBack, Idle, Says, Dials
<1>15. ASSUME NEW c \in Callers, Disconnect(c) PROVE OutcomeInv'
  BY <1>0, <1>15, OutcomeFrame DEF Disconnect
<1>16. CASE UNCHANGED vars
  BY <1>16 DEF vars, OutcomeInv, JoinersShareOutcome, At, Dialing
<1>17. QED
  BY <1>1, <1>2, <1>3, <1>4, <1>5, <1>6, <1>7, <1>8, <1>9, <1>10, <1>11, <1>12, <1>13, <1>14,
     <1>15, <1>16 DEF Next, Connect, Execute

-----------------------------------------------------------------------------
(* Theorems                                                                *)

\* The inductive invariant.
IndInv == Typed /\ TurnInv /\ DialInv /\ OutcomeInv

LEMMA InitInv == Init => IndInv
<1> SUFFICES ASSUME Init PROVE IndInv
  OBVIOUS
<1>1. \A c \in Callers : caller[c] = Idle /\ caller[c].pc = "idle"
  BY DEF Init, Idle
<1>2. Typed
  <2>1. [done |-> FALSE, err |-> FALSE, stored |-> FALSE]
          \in [done : BOOLEAN, err : BOOLEAN, stored : BOOLEAN]
    OBVIOUS
  <2>2. /\ dialing \in [Hosts -> Attempts \cup {None}]
        /\ connections \in [Hosts -> Attempts \cup {None}]
        /\ sem \in [Attempts -> BOOLEAN]
    BY DEF Init
  <2>3. attempt \in [Attempts -> [done : BOOLEAN, err : BOOLEAN, stored : BOOLEAN]]
    BY <2>1 DEF Init
  <2>4. caller \in [Callers -> Locals]
    BY IdleType DEF Init
  <2>5. QED
    BY <1>1, <2>2, <2>3, <2>4 DEF Typed, TypeOK, Dialing
<1>3. TurnInv
  BY <1>1 DEF Init, TurnInv, TurnsExclusive, NoLostTurn
<1>4. DialInv
  BY <1>1 DEF Init, DialInv, OneDialPerHost, NoAbandonedDial, Dialing
<1>5. OutcomeInv
  <2>1. \A a \in Attempts : attempt[a].done = FALSE
    BY DEF Init
  <2>2. QED
    BY <1>1, <2>1 DEF OutcomeInv, JoinersShareOutcome, Dialing, At
<1>6. QED
  BY <1>2, <1>3, <1>4, <1>5 DEF IndInv

\* The conjuncts of IndInv are preserved together.
THEOREM WinRMInvariant == Spec => []IndInv
<1>1. IndInv /\ [Next]_vars => IndInv'
  BY TypedStep, TurnStep, DialStep, OutcomeStep DEF IndInv
<1>2. QED
  BY InitInv, <1>1, PTL DEF Spec

\* Types hold, and a call under way never works on a nil attempt or client
\* (WinRMManager.resolveConnection's checks, dialing's lookup).
THEOREM WinRMTyped == Spec => []TypeOK
<1>1. IndInv => TypeOK
  BY DEF IndInv, Typed
<1>2. QED
  BY WinRMInvariant, <1>1, PTL

\* Connect is single-flight for any number of callers and hosts.
THEOREM SingleFlight == Spec => []OneDialPerHost
<1>1. IndInv => OneDialPerHost
  BY DEF IndInv, DialInv
<1>2. QED
  BY WinRMInvariant, <1>1, PTL

\* No dialing entry is ever left without the caller that will delete it.
THEOREM DialsEnd == Spec => []NoAbandonedDial
<1>1. IndInv => NoAbandonedDial
  BY DEF IndInv, DialInv
<1>2. QED
  BY WinRMInvariant, <1>1, PTL

\* Whoever returns from a dial, its owner or a joiner, returns its outcome.
THEOREM SharedOutcome == Spec => []JoinersShareOutcome
<1>1. IndInv => JoinersShareOutcome
  BY DEF IndInv, OutcomeInv
<1>2. QED
  BY WinRMInvariant, <1>1, PTL

\* Commands on one client never overlap.
THEOREM Turns == Spec => []TurnsExclusive
<1>1. IndInv => TurnsExclusive
  BY DEF IndInv, TurnInv
<1>2. QED
  BY WinRMInvariant, <1>1, PTL

\* A slot of winrmClient.sem is taken only while a command holds it.
THEOREM TurnsKept == Spec => []NoLostTurn
<1>1. IndInv => NoLostTurn
  BY DEF IndInv, TurnInv
<1>2. QED
  BY WinRMInvariant, <1>1, PTL

-----------------------------------------------------------------------------
(* Refinement                                                              *)

\* The mapping of NTLMSession's "using".
OnWire(a) == {c \in Callers : At(c, "run") /\ caller[c].att = a}
Using == [a \in Attempts |-> OnWire(a)]

\* A step that puts no command on the wire and ends none is a stutter.
LEMMA SessionStutter ==
    ASSUME \A d \in Callers : /\ caller'[d].pc = "run" <=> caller[d].pc = "run"
                              /\ caller[d].pc = "run" => caller'[d].att = caller[d].att
    PROVE  Using' = Using
<1>1. ASSUME NEW a PROVE OnWire(a)' = OnWire(a)
  BY DEF OnWire, At
<1>2. QED
  BY <1>1 DEF Using

\* Every step begins a command on an idle session, ends one, or stutters.
LEMMA SessionStep == IndInv /\ [Next]_vars => [Session!Next]_Using
<1> SUFFICES ASSUME IndInv, [Next]_vars, Using' # Using PROVE Session!Next
  OBVIOUS
<1>0. Typed /\ TurnInv /\ caller \in [Callers -> Locals]
  BY DEF IndInv, Typed, TypeOK
<1>1. ASSUME NEW c \in Callers, TakeTurn(c) PROVE Session!Next
  <2>0. PICK k \in Attempts : k = caller[c].att
    BY <1>0, <1>1 DEF TakeTurn, At, Typed, TypeOK
  <2>1. caller[c].pc = "wait" /\ ~sem[k]
    BY <1>1, <2>0 DEF TakeTurn, At
  <2>2. /\ caller'[c].pc = "run" /\ caller'[c].att = k
        /\ \A d \in Callers \ {c} : caller'[d] = caller[d]
    BY <1>0, <1>1, <2>0, GotoEffect DEF TakeTurn, Labels
  <2>3. OnWire(k) = {}
    BY <1>0, <2>1 DEF TurnInv, OnWire, At
  <2>4. OnWire(k)' = {c}
    BY <2>2, <2>3 DEF OnWire, At
  <2>5. \A a \in Attempts \ {k} : OnWire(a)' = OnWire(a)
    BY <2>0, <2>1, <2>2 DEF OnWire, At
  <2>6. Using' = [Using EXCEPT ![k] = {c}]
    BY <2>1, <2>4, <2>5 DEF Using
  <2>7. Using[k] = {}
    BY <2>1, <2>3 DEF Using
  <2>8. Session!Begin(c, k)
    BY <2>6, <2>7 DEF Session!Begin, Using, OnWire
  <2>9. QED
    BY <2>1, <2>8 DEF Session!Next
<1>2. ASSUME NEW c \in Callers, RunEnds(c) PROVE Session!Next
  <2>0. PICK k \in Attempts : k = caller[c].att
    BY <1>0, <1>2 DEF RunEnds, At, Typed, TypeOK
  <2>1. caller[c].pc = "run"
    BY <1>2 DEF RunEnds, At
  <2>2. /\ caller'[c].pc = "release"
        /\ \A d \in Callers \ {c} : caller'[d] = caller[d]
    BY <1>0, <1>2, GotoEffect DEF RunEnds, Labels
  <2>3. \A d \in Callers \ {c} : ~(caller[d].pc = "run" /\ caller[d].att = k)
    BY <1>0, <2>0, <2>1 DEF TurnInv, TurnsExclusive
  <2>4. OnWire(k) # {}
    BY <2>0, <2>1 DEF OnWire, At
  <2>5. OnWire(k)' = {}
    BY <2>2, <2>3 DEF OnWire, At
  <2>6. ASSUME NEW a \in Attempts \ {k} PROVE OnWire(a)' = OnWire(a)
    BY <2>0, <2>1, <2>2 DEF OnWire, At
  <2>7. Using' = [Using EXCEPT ![k] = {}]
    BY <2>1, <2>5, <2>6 DEF Using
  <2>8. Using[k] # {}
    BY <2>1, <2>4 DEF Using
  <2>9. Session!End(k)
    BY <2>7, <2>8 DEF Session!End, Using, OnWire
  <2>10. QED
    BY <2>1, <2>9 DEF Session!Next
<1>3. ASSUME NEW c \in Callers,
             caller'[c].pc # "run", caller[c].pc # "run",
             \A d \in Callers \ {c} : caller'[d] = caller[d]
      PROVE  Using' = Using
  BY <1>3, SessionStutter
<1>4. ASSUME NEW c \in Callers, BeginConnect(c) PROVE FALSE
  <2>1. /\ caller[c].pc = "idle" /\ caller'[c].pc \in {"join", "dial"}
        /\ \A d \in Callers \ {c} : caller'[d] = caller[d]
    BY <1>0, <1>4, BeginConnectEffect
  <2>2. QED
    BY <1>3, <2>1
<1>5. ASSUME NEW c \in Callers, JoinDone(c) PROVE FALSE
  BY <1>0, <1>3, <1>5, GotoEffect DEF JoinDone, At, Labels
<1>6. ASSUME NEW c \in Callers, JoinCancelled(c) PROVE FALSE
  BY <1>0, <1>3, <1>6, ReturnEffect DEF JoinCancelled, At, Idle
<1>7. ASSUME NEW c \in Callers, DialOnce(c) PROVE FALSE
  BY <1>0, <1>3, <1>7, DialOnceEffect DEF DialOnce, At
<1>8. ASSUME NEW c \in Callers, Store(c) PROVE FALSE
  <2>1. caller[c].pc = "store"
    BY <1>8 DEF Store, At
  <2>2. QED
    BY <1>0, <1>8, <2>1, StoreEffect, SessionStutter
<1>9. ASSUME NEW c \in Callers, SetErr(c) PROVE FALSE
  BY <1>0, <1>3, <1>9, GotoEffect DEF SetErr, At, Labels
<1>10. ASSUME NEW c \in Callers, CloseDone(c) PROVE FALSE
  BY <1>0, <1>3, <1>10, GotoEffect DEF CloseDone, At, Labels
<1>11. ASSUME NEW c \in Callers, Cleanup(c) PROVE FALSE
  BY <1>0, <1>3, <1>11, GotoEffect DEF Cleanup, At, Labels
<1>12. ASSUME NEW c \in Callers, FinishConnect(c) PROVE FALSE
  BY <1>0, <1>3, <1>12, ReturnEffect DEF FinishConnect, Idle
<1>13. ASSUME NEW c \in Callers, BeginExecute(c) PROVE FALSE
  <2>1. caller[c].pc = "idle"
    BY <1>13 DEF BeginExecute, At
  <2>2. QED
    BY <1>0, <1>3, <1>13, <2>1, BeginExecuteEffect
<1>14. ASSUME NEW c \in Callers, WaitCancelled(c) PROVE FALSE
  BY <1>0, <1>3, <1>14, ReturnEffect DEF WaitCancelled, At, Idle
<1>15. ASSUME NEW c \in Callers, GiveTurnBack(c) PROVE FALSE
  BY <1>0, <1>3, <1>15, ReturnEffect DEF GiveTurnBack, At, Idle
<1>16. ASSUME NEW c \in Callers, Disconnect(c) PROVE FALSE
  BY <1>16, SessionStutter DEF Disconnect
<1>17. CASE UNCHANGED vars
  BY <1>17, SessionStutter DEF vars
<1>18. QED
  BY <1>1, <1>2, <1>4, <1>5, <1>6, <1>7, <1>8, <1>9, <1>10, <1>11, <1>12, <1>13, <1>14,
     <1>15, <1>16, <1>17 DEF Next, Connect, Execute

\* The client's turns implement the session's promise: commands on an NTLM
\* session never overlap, and each begins only after the one before it ended.
THEOREM KeepsSession == Spec => SessionSpec
<1>1. Init => Session!Init
  <2> SUFFICES ASSUME Init PROVE Session!Init
    OBVIOUS
  <2>1. \A c \in Callers : caller[c].pc # "run"
    BY DEF Init, Idle
  <2>2. QED
    BY <2>1 DEF Session!Init, At
<1>2. Spec => []IndInv
  BY WinRMInvariant
<1>3. IndInv /\ [Next]_vars =>
        [Session!Next]_[a \in Attempts |-> {c \in Callers : At(c, "run") /\ caller[c].att = a}]
  BY SessionStep DEF Using, OnWire
<1>4. QED
  BY <1>1, <1>2, <1>3, PTL DEF Spec, SessionSpec, Session!Spec
===============================================================================
