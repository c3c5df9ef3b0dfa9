--------------------------- MODULE ControlProofs ---------------------------
(***************************************************************************)
(* Proofs about ControlServer, for any number of processes, connections,   *)
(* hosts and lines.  The inductive invariant adds to the properties what   *)
(* the wait group counts and where the listener and the history stand at   *)
(* each label of ListenAndServe.                                           *)
(***************************************************************************)
EXTENDS ControlServer, TLAPS

\* The wait group of a live server counts exactly its handlers.
CountsHandlers ==
    \A s \in Servers : wg[s] = {c \in Conns : Handled(c) /\ conn[c].server = s}

\* A connection that has been accepted belongs to a live server which had
\* started to accept; nobody accepts later.
HandlersHaveServer ==
    \A c \in Conns : /\ Handled(c) => /\ conn[c].server \in Servers
                                      /\ serve[conn[c].server] \in {"accept", "wait"}
                     /\ conn[c].pc = "queued" => conn[c].server \in Servers
                     /\ conn[c].pc = "none" => conn[c].server = None

\* What a client was told, a success that is about to be told and one that
\* Core.Connect is about to return: each is so, or cut off since.
TellsTheTruth ==
    \A c \in Conns :
        /\ conn[c].server = None => conn[c].told = {}
        /\ conn[c].server \in Servers => conn[c].told \ conn[c].cut \subseteq links[conn[c].server]
        /\ conn[c].answer = "connected" => conn[c].pc = "reply"
        /\ conn[c].pc = "probe" \/ conn[c].answer = "connected" =>
               conn[c].server \in Servers /\ conn[c].host \in links[conn[c].server] \cup conn[c].cut
        /\ conn[c].pc \in {"connect", "probe", "disconnect"} \/ conn[c].answer = "connected" =>
               conn[c].host \in Hosts

ControlInv ==
    /\ TypeOK
    /\ CountsHandlers
    /\ HandlersHaveServer
    /\ TellsTheTruth
    /\ AddressIsPublished

USE NamesAssumption, MaxLinesAssumption

(* Records of connections, and the two operators that change several of    *)
(* them at once.                                                           *)

LEMMA EndedTyped == Ended \in Connection /\ Unused \in Connection
BY DEF Ended, Unused, Fresh, Connection, ConnLabels, Answers

LEMMA ResetLemma ==
    ASSUME TypeOK, NEW s \in Servers, ResetQueued(s)
    PROVE  /\ conn' \in [Conns -> Connection]
           /\ \A d \in Conns : \/ conn'[d] = conn[d] /\ (conn[d].pc # "queued" \/ conn[d].server # s)
                               \/ conn'[d] = Ended /\ conn[d].pc = "queued" /\ conn[d].server = s
BY EndedTyped DEF TypeOK, ResetQueued

LEMMA EndedFields ==
    /\ Ended.pc = "ended" /\ Ended.server = None /\ Ended.told = {} /\ Ended.cut = {}
    /\ Ended.answer = "other"
BY DEF Ended, Unused, Fresh

LEMMA CutLemma ==
    ASSUME NEW r \in Connection, NEW H \in SUBSET Hosts
    PROVE  LET q == Cut(r, H) IN
           /\ q \in Connection
           /\ q.pc = r.pc /\ q.server = r.server /\ q.host = r.host
           /\ q.told = r.told /\ q.answer = r.answer /\ q.cut = r.cut \cup H
BY DEF Cut, Connection

LEMMA CutOffLemma ==
    ASSUME NEW f \in [Conns -> Connection], NEW s, NEW H \in SUBSET Hosts,
           NEW g, g = CutOff(s, H, f)
    PROVE  /\ g \in [Conns -> Connection]
           /\ \A d \in Conns :
                /\ g[d].pc = f[d].pc /\ g[d].server = f[d].server /\ g[d].host = f[d].host
                /\ g[d].told = f[d].told /\ g[d].answer = f[d].answer
                /\ g[d].cut = IF f[d].server = s THEN f[d].cut \cup H ELSE f[d].cut
<1>1. \A d \in Conns : f[d] \in Connection
  OBVIOUS
<1>2. \A d \in Conns : g[d] = IF f[d].server = s THEN Cut(f[d], H) ELSE f[d]
  BY DEF CutOff
<1>3. g = [d \in Conns |-> g[d]]
  BY DEF CutOff
<1>4. ASSUME NEW d \in Conns
      PROVE  /\ g[d] \in Connection
             /\ g[d].pc = f[d].pc /\ g[d].server = f[d].server /\ g[d].host = f[d].host
             /\ g[d].told = f[d].told /\ g[d].answer = f[d].answer
             /\ g[d].cut = IF f[d].server = s THEN f[d].cut \cup H ELSE f[d].cut
  <2>1. CASE f[d].server = s
    BY <1>1, <1>2, <2>1, CutLemma
  <2>2. CASE f[d].server # s
    BY <1>1, <1>2, <2>2
  <2> QED BY <2>1, <2>2
<1>5. g \in [Conns -> Connection]
  BY <1>3, <1>4
<1> QED BY <1>4, <1>5

LEMMA InitInv == Init => ControlInv
BY DEF Init, ControlInv, TypeOK, CountsHandlers, HandlersHaveServer, TellsTheTruth,
       AddressIsPublished, Unused, Fresh, Connection, Handled, ConnLabels, ServeLabels, Answers

-----------------------------------------------------------------------------
(* One lemma for each action: it preserves the invariant.                  *)

LEMMA ListenInv ==
    ASSUME NEW s \in Servers, ControlInv, Listen(s) PROVE ControlInv'
<1> USE DEF ControlInv
<1>1. TypeOK'
  <2>1. conn' \in [Conns -> Connection]
    BY EndedTyped DEF Listen, procVars, fileVars, At, ServeAt, Goto, SetListening, TypeOK,
         Connection, ConnLabels, Answers
  <2> QED BY <2>1 DEF Listen, procVars, fileVars, At, ServeAt, Goto, SetListening, TypeOK,
       Alive, ServeLabels
<1>2. CountsHandlers'
  BY DEF Listen, procVars, fileVars, At, ServeAt, Goto, SetListening, TypeOK, Connection,
       CountsHandlers, Handled, Unused, Ended, Fresh
<1>3. HandlersHaveServer'
  BY DEF Listen, procVars, fileVars, At, ServeAt, Goto, SetListening, TypeOK, Connection,
       CountsHandlers, HandlersHaveServer, Handled, Unused, Ended, Fresh, ConnLabels
<1>4. TellsTheTruth'
  BY DEF Listen, procVars, fileVars, At, ServeAt, Goto, SetListening, TypeOK, Connection,
       HandlersHaveServer, TellsTheTruth, Unused, Ended, Fresh, Answers
<1>5. AddressIsPublished'
  BY DEF Listen, procVars, fileVars, At, ServeAt, Goto, SetListening, TypeOK, Connection,
       AddressIsPublished, Alive
<1> QED BY <1>1, <1>2, <1>3, <1>4, <1>5

LEMMA TruncateFileInv ==
    ASSUME NEW s \in Servers, ControlInv, TruncateFile(s) PROVE ControlInv'
<1> USE DEF ControlInv
<1>1. \/ conn' = conn
      \/ ResetQueued(s)
  BY DEF TruncateFile
<1>2. /\ conn' \in [Conns -> Connection]
      /\ \A d \in Conns : \/ conn'[d] = conn[d]
                          \/ conn'[d] = Ended /\ conn[d].pc = "queued"
  BY <1>1, ResetLemma DEF TypeOK
<1>3. TypeOK'
  BY <1>2 DEF TruncateFile, Clobber, procVars, fileVars, At, ServeAt, Goto, SetListening,
       TypeOK, Alive, ServeLabels
<1>4. CountsHandlers'
  BY <1>2, EndedFields DEF TruncateFile, procVars, fileVars, At, ServeAt, Goto, SetListening,
       TypeOK, CountsHandlers, Handled
<1>5. HandlersHaveServer'
  BY <1>2, EndedFields DEF TruncateFile, procVars, fileVars, At, ServeAt, Goto, SetListening,
       TypeOK, HandlersHaveServer, Handled
<1>6. TellsTheTruth'
  BY <1>2, EndedFields DEF TruncateFile, procVars, fileVars, At, ServeAt, Goto, SetListening,
       TellsTheTruth
<1>7. AddressIsPublished'
  BY DEF TruncateFile, Clobber, procVars, fileVars, At, ServeAt, Goto, SetListening, TypeOK,
       AddressIsPublished, Alive
<1> QED BY <1>3, <1>4, <1>5, <1>6, <1>7

LEMMA WriteFileInv ==
    ASSUME NEW s \in Servers, ControlInv, WriteFile(s) PROVE ControlInv'
<1> USE DEF ControlInv
<1>1. \/ conn' = conn
      \/ ResetQueued(s)
  BY DEF WriteFile
<1>2. /\ conn' \in [Conns -> Connection]
      /\ \A d \in Conns : \/ conn'[d] = conn[d]
                          \/ conn'[d] = Ended /\ conn[d].pc = "queued"
  BY <1>1, ResetLemma DEF TypeOK
<1>3. TypeOK'
  BY <1>2 DEF WriteFile, procVars, fileVars, At, ServeAt, Goto, SetListening, TypeOK, Alive,
       ServeLabels
<1>4. CountsHandlers'
  BY <1>2, EndedFields DEF WriteFile, procVars, fileVars, At, ServeAt, Goto, SetListening,
       TypeOK, CountsHandlers, Handled
<1>5. HandlersHaveServer'
  BY <1>2, EndedFields DEF WriteFile, procVars, fileVars, At, ServeAt, Goto, SetListening,
       TypeOK, HandlersHaveServer, Handled
<1>6. TellsTheTruth'
  BY <1>2, EndedFields DEF WriteFile, procVars, fileVars, At, ServeAt, Goto, SetListening,
       TellsTheTruth
<1>7. AddressIsPublished'
  BY DEF WriteFile, procVars, fileVars, At, ServeAt, Goto, SetListening, TypeOK,
       AddressIsPublished, Alive
<1> QED BY <1>3, <1>4, <1>5, <1>6, <1>7

LEMMA CloseListenerInv ==
    ASSUME NEW s \in Servers, ControlInv, CloseListener(s) PROVE ControlInv'
<1> USE DEF ControlInv
<1>1. \/ conn' = conn
      \/ ResetQueued(s)
  BY DEF CloseListener
<1>2. /\ conn' \in [Conns -> Connection]
      /\ \A d \in Conns : \/ conn'[d] = conn[d]
                          \/ conn'[d] = Ended /\ conn[d].pc = "queued"
  BY <1>1, ResetLemma DEF TypeOK
<1>3. TypeOK'
  BY <1>2 DEF CloseListener, procVars, fileVars, At, ServeAt, Goto, SetListening, TypeOK,
       Alive, ServeLabels
<1>4. CountsHandlers'
  BY <1>2, EndedFields DEF CloseListener, procVars, fileVars, At, ServeAt, Goto, SetListening,
       TypeOK, CountsHandlers, Handled
<1>5. HandlersHaveServer'
  BY <1>2, EndedFields DEF CloseListener, procVars, fileVars, At, ServeAt, Goto, SetListening,
       TypeOK, HandlersHaveServer, Handled
<1>6. TellsTheTruth'
  BY <1>2, EndedFields DEF CloseListener, procVars, fileVars, At, ServeAt, Goto, SetListening,
       TellsTheTruth
<1>7. AddressIsPublished'
  BY DEF CloseListener, procVars, fileVars, At, ServeAt, Goto, SetListening, TypeOK,
       AddressIsPublished, Alive
<1> QED BY <1>3, <1>4, <1>5, <1>6, <1>7

LEMMA AcceptLoopEndsInv ==
    ASSUME NEW s \in Servers, ControlInv, AcceptLoopEnds(s) PROVE ControlInv'
<1> USE DEF ControlInv
<1>1. TypeOK'
  <2>1. conn' \in [Conns -> Connection]
    BY EndedTyped DEF AcceptLoopEnds, procVars, fileVars, At, ServeAt, Goto, SetListening,
         TypeOK, Connection, ConnLabels, Answers
  <2> QED BY <2>1 DEF AcceptLoopEnds, procVars, fileVars, At, ServeAt, Goto, SetListening,
       TypeOK, Alive, ServeLabels
<1>2. CountsHandlers'
  BY DEF AcceptLoopEnds, procVars, fileVars, At, ServeAt, Goto, SetListening, TypeOK,
       Connection, CountsHandlers, Handled, Unused, Ended, Fresh
<1>3. HandlersHaveServer'
  BY DEF AcceptLoopEnds, procVars, fileVars, At, ServeAt, Goto, SetListening, TypeOK,
       Connection, CountsHandlers, HandlersHaveServer, Handled, Unused, Ended, Fresh,
       ConnLabels
<1>4. TellsTheTruth'
  BY DEF AcceptLoopEnds, procVars, fileVars, At, ServeAt, Goto, SetListening, TypeOK,
       Connection, HandlersHaveServer, TellsTheTruth, Unused, Ended, Fresh, Answers
<1>5. AddressIsPublished'
  BY DEF AcceptLoopEnds, procVars, fileVars, At, ServeAt, Goto, SetListening, TypeOK,
       Connection, AddressIsPublished, Alive
<1> QED BY <1>1, <1>2, <1>3, <1>4, <1>5

LEMMA WaitHandlersInv ==
    ASSUME NEW s \in Servers, ControlInv, WaitHandlers(s) PROVE ControlInv'
<1> USE DEF ControlInv
<1>1. TypeOK'
  <2>1. conn' \in [Conns -> Connection]
    BY EndedTyped DEF WaitHandlers, procVars, fileVars, At, ServeAt, Goto, SetListening,
         TypeOK, Connection, ConnLabels, Answers
  <2> QED BY <2>1 DEF WaitHandlers, procVars, fileVars, At, ServeAt, Goto, SetListening,
       TypeOK, Alive, ServeLabels
<1>2. CountsHandlers'
  BY DEF WaitHandlers, procVars, fileVars, At, ServeAt, Goto, SetListening, TypeOK,
       Connection, CountsHandlers, Handled, Unused, Ended, Fresh
<1>3. HandlersHaveServer'
  BY DEF WaitHandlers, procVars, fileVars, At, ServeAt, Goto, SetListening, TypeOK,
       Connection, CountsHandlers, HandlersHaveServer, Handled, Unused, Ended, Fresh,
       ConnLabels
<1>4. TellsTheTruth'
  BY DEF WaitHandlers, procVars, fileVars, At, ServeAt, Goto, SetListening, TypeOK,
       Connection, HandlersHaveServer, TellsTheTruth, Unused, Ended, Fresh, Answers
<1>5. AddressIsPublished'
  BY DEF WaitHandlers, procVars, fileVars, At, ServeAt, Goto, SetListening, TypeOK,
       Connection, AddressIsPublished, Alive
<1> QED BY <1>1, <1>2, <1>3, <1>4, <1>5

LEMMA RemoveFileInv ==
    ASSUME NEW s \in Servers, ControlInv, RemoveFile(s) PROVE ControlInv'
<1> USE DEF ControlInv
<1>1. TypeOK'
  <2>1. conn' \in [Conns -> Connection]
    BY EndedTyped DEF RemoveFile, Clobber, procVars, fileVars, At, ServeAt, Goto,
         SetListening, TypeOK, Connection, ConnLabels, Answers
  <2> QED BY <2>1 DEF RemoveFile, Clobber, procVars, fileVars, At, ServeAt, Goto,
       SetListening, TypeOK, Alive, ServeLabels
<1>2. CountsHandlers'
  BY DEF RemoveFile, Clobber, procVars, fileVars, At, ServeAt, Goto, SetListening, TypeOK,
       Connection, CountsHandlers, Handled, Unused, Ended, Fresh
<1>3. HandlersHaveServer'
  BY DEF RemoveFile, Clobber, procVars, fileVars, At, ServeAt, Goto, SetListening, TypeOK,
       Connection, CountsHandlers, HandlersHaveServer, Handled, Unused, Ended, Fresh,
       ConnLabels
<1>4. TellsTheTruth'
  BY DEF RemoveFile, Clobber, procVars, fileVars, At, ServeAt, Goto, SetListening, TypeOK,
       Connection, HandlersHaveServer, TellsTheTruth, Unused, Ended, Fresh, Answers
<1>5. AddressIsPublished'
  BY DEF RemoveFile, Clobber, procVars, fileVars, At, ServeAt, Goto, SetListening, TypeOK,
       Connection, AddressIsPublished, Alive
<1> QED BY <1>1, <1>2, <1>3, <1>4, <1>5

LEMMA OtherDisconnectInv ==
    ASSUME NEW s \in Servers, ControlInv, OtherDisconnect(s) PROVE ControlInv'
<1> USE DEF ControlInv
<1>0. PICK h \in links[s] :
        /\ links' = [links EXCEPT ![s] = @ \ {h}]
        /\ conn' = CutOff(s, {h}, conn)
  BY DEF OtherDisconnect
<1>1. /\ {h} \in SUBSET Hosts
      /\ links' = [links EXCEPT ![s] = @ \ {h}]
      /\ conn' = CutOff(s, {h}, conn)
  BY <1>0 DEF TypeOK
<1>2. /\ conn' \in [Conns -> Connection]
      /\ \A d \in Conns :
           /\ conn'[d].pc = conn[d].pc /\ conn'[d].server = conn[d].server
           /\ conn'[d].host = conn[d].host
           /\ conn'[d].told = conn[d].told /\ conn'[d].answer = conn[d].answer
           /\ conn'[d].cut = IF conn[d].server = s THEN conn[d].cut \cup {h} ELSE conn[d].cut
  <2>1. conn \in [Conns -> Connection]
    BY DEF TypeOK
  <2> QED BY <1>1, <2>1, CutOffLemma
<1>3. TypeOK'
  BY <1>1, <1>2 DEF OtherDisconnect, procVars, fileVars, TypeOK
<1>4. CountsHandlers'
  BY <1>2 DEF OtherDisconnect, procVars, fileVars, CountsHandlers, Handled
<1>5. HandlersHaveServer'
  BY <1>2 DEF OtherDisconnect, procVars, fileVars, HandlersHaveServer, Handled
<1>6. TellsTheTruth'
  <2> SUFFICES ASSUME NEW d \in Conns PROVE TellsTheTruth!(d)'
    BY DEF TellsTheTruth
  <2>1. TellsTheTruth!(d)
    BY DEF TellsTheTruth
  <2>2. \A t \in Servers : t # s => links'[t] = links[t]
    BY <1>1 DEF TypeOK
  <2>3. links'[s] = links[s] \ {h}
    BY <1>1 DEF TypeOK
  <2> QED BY <1>2, <2>1, <2>2, <2>3
<1>7. AddressIsPublished'
  BY DEF OtherDisconnect, procVars, fileVars, TypeOK, AddressIsPublished, Alive
<1> QED BY <1>3, <1>4, <1>5, <1>6, <1>7

LEMMA CancelInv ==
    ASSUME NEW s \in Servers, ControlInv, Cancel(s) PROVE ControlInv'
<1> USE DEF ControlInv
<1>1. TypeOK'
  <2>1. conn' \in [Conns -> Connection]
    BY EndedTyped DEF Cancel, procVars, fileVars, At, ServeAt, Goto, SetListening, TypeOK,
         Connection, ConnLabels, Answers
  <2> QED BY <2>1 DEF Cancel, procVars, fileVars, At, ServeAt, Goto, SetListening, TypeOK,
       Alive, ServeLabels
<1>2. CountsHandlers'
  BY DEF Cancel, procVars, fileVars, At, ServeAt, Goto, SetListening, TypeOK, Connection,
       CountsHandlers, Handled, Unused, Ended, Fresh
<1>3. HandlersHaveServer'
  BY DEF Cancel, procVars, fileVars, At, ServeAt, Goto, SetListening, TypeOK, Connection,
       CountsHandlers, HandlersHaveServer, Handled, Unused, Ended, Fresh, ConnLabels
<1>4. TellsTheTruth'
  BY DEF Cancel, procVars, fileVars, At, ServeAt, Goto, SetListening, TypeOK, Connection,
       HandlersHaveServer, TellsTheTruth, Unused, Ended, Fresh, Answers
<1>5. AddressIsPublished'
  BY DEF Cancel, procVars, fileVars, At, ServeAt, Goto, SetListening, TypeOK, Connection,
       AddressIsPublished, Alive
<1> QED BY <1>1, <1>2, <1>3, <1>4, <1>5

LEMMA CoreCloseInv ==
    ASSUME NEW s \in Servers, ControlInv, CoreClose(s) PROVE ControlInv'
<1> USE DEF ControlInv
<1>1. /\ links' = [links EXCEPT ![s] = @ \ Hosts]
      /\ conn' = CutOff(s, Hosts, conn)
  BY DEF CoreClose, TypeOK
<1>2. /\ conn' \in [Conns -> Connection]
      /\ \A d \in Conns :
           /\ conn'[d].pc = conn[d].pc /\ conn'[d].server = conn[d].server
           /\ conn'[d].host = conn[d].host
           /\ conn'[d].told = conn[d].told /\ conn'[d].answer = conn[d].answer
           /\ conn'[d].cut = IF conn[d].server = s THEN conn[d].cut \cup Hosts ELSE conn[d].cut
  <2>1. conn \in [Conns -> Connection]
    BY DEF TypeOK
  <2> QED BY <1>1, <2>1, CutOffLemma
<1>3. TypeOK'
  BY <1>1, <1>2 DEF CoreClose, procVars, fileVars, TypeOK
<1>4. CountsHandlers'
  BY <1>2, ZenonT(60) DEF CoreClose, procVars, fileVars, CountsHandlers, Handled
<1>5. HandlersHaveServer'
  BY <1>2, ZenonT(60) DEF CoreClose, procVars, fileVars, HandlersHaveServer, Handled
<1>6. TellsTheTruth'
  <2> SUFFICES ASSUME NEW d \in Conns PROVE TellsTheTruth!(d)'
    BY DEF TellsTheTruth
  <2>1. TellsTheTruth!(d)
    BY DEF TellsTheTruth
  <2>2. \A t \in Servers : t # s => links'[t] = links[t]
    BY <1>1 DEF TypeOK
  <2>3. links'[s] = links[s] \ Hosts
    BY <1>1 DEF TypeOK
  <2> QED BY <1>2, <2>1, <2>2, <2>3
<1>7. AddressIsPublished'
  BY DEF CoreClose, procVars, fileVars, TypeOK, AddressIsPublished, Alive
<1> QED BY <1>3, <1>4, <1>5, <1>6, <1>7

LEMMA ExitInv ==
    ASSUME NEW s \in Servers, ControlInv, Exit(s) PROVE ControlInv'
<1> USE DEF ControlInv
<1>1. /\ conn' \in [Conns -> Connection]
      /\ \A d \in Conns : conn'[d] = IF conn[d].server = s THEN Ended ELSE conn[d]
  BY EndedTyped DEF Exit, TypeOK
<1>2. TypeOK'
  BY <1>1 DEF Exit, TypeOK, ServeLabels
<1>3. CountsHandlers'
  BY <1>1, EndedFields DEF Exit, TypeOK, CountsHandlers, Handled
<1>4. HandlersHaveServer'
  BY <1>1, EndedFields DEF Exit, TypeOK, HandlersHaveServer, Handled
<1>5. TellsTheTruth'
  BY <1>1, EndedFields DEF Exit, TypeOK, TellsTheTruth
<1>6. AddressIsPublished'
  BY DEF Exit, TypeOK, AddressIsPublished, Alive
<1> QED BY <1>2, <1>3, <1>4, <1>5, <1>6

LEMMA SkipEmptyInv ==
    ASSUME NEW c \in Conns, ControlInv, SkipEmpty(c) PROVE ControlInv'
<1> USE DEF ControlInv
<1>1. TypeOK'
  <2>1. conn' \in [Conns -> Connection]
    BY EndedTyped DEF SkipEmpty, NextLine, Step, procVars, fileVars, At, ServeAt, Goto,
         SetListening, TypeOK, Connection, ConnLabels, Answers
  <2> QED BY <2>1 DEF SkipEmpty, NextLine, Step, procVars, fileVars, At, ServeAt, Goto,
       SetListening, TypeOK, Alive, ServeLabels
<1>2. CountsHandlers'
  BY DEF SkipEmpty, NextLine, Step, procVars, fileVars, At, ServeAt, Goto, SetListening,
       TypeOK, Connection, CountsHandlers, Handled, Unused, Ended, Fresh
<1>3. HandlersHaveServer'
  BY DEF SkipEmpty, NextLine, Step, procVars, fileVars, At, ServeAt, Goto, SetListening,
       TypeOK, Connection, CountsHandlers, HandlersHaveServer, Handled, Unused, Ended, Fresh,
       ConnLabels
<1>4. TellsTheTruth'
  BY DEF SkipEmpty, NextLine, Step, procVars, fileVars, At, ServeAt, Goto, SetListening,
       TypeOK, Connection, HandlersHaveServer, TellsTheTruth, Unused, Ended, Fresh, Answers
<1>5. AddressIsPublished'
  BY DEF SkipEmpty, NextLine, Step, procVars, fileVars, At, ServeAt, Goto, SetListening,
       TypeOK, Connection, AddressIsPublished, Alive
<1> QED BY <1>1, <1>2, <1>3, <1>4, <1>5

LEMMA RejectInv ==
    ASSUME NEW c \in Conns, ControlInv, Reject(c) PROVE ControlInv'
<1> USE DEF ControlInv
<1>1. TypeOK'
  <2>1. conn' \in [Conns -> Connection]
    BY EndedTyped DEF Reject, NextLine, Step, procVars, fileVars, At, ServeAt, Goto,
         SetListening, TypeOK, Connection, ConnLabels, Answers
  <2> QED BY <2>1 DEF Reject, NextLine, Step, procVars, fileVars, At, ServeAt, Goto,
       SetListening, TypeOK, Alive, ServeLabels
<1>2. CountsHandlers'
  BY DEF Reject, NextLine, Step, procVars, fileVars, At, ServeAt, Goto, SetListening, TypeOK,
       Connection, CountsHandlers, Handled, Unused, Ended, Fresh
<1>3. HandlersHaveServer'
  BY DEF Reject, NextLine, Step, procVars, fileVars, At, ServeAt, Goto, SetListening, TypeOK,
       Connection, CountsHandlers, HandlersHaveServer, Handled, Unused, Ended, Fresh,
       ConnLabels
<1>4. TellsTheTruth'
  BY DEF Reject, NextLine, Step, procVars, fileVars, At, ServeAt, Goto, SetListening, TypeOK,
       Connection, HandlersHaveServer, TellsTheTruth, Unused, Ended, Fresh, Answers
<1>5. AddressIsPublished'
  BY DEF Reject, NextLine, Step, procVars, fileVars, At, ServeAt, Goto, SetListening, TypeOK,
       Connection, AddressIsPublished, Alive
<1> QED BY <1>1, <1>2, <1>3, <1>4, <1>5

LEMMA DispatchStatusInv ==
    ASSUME NEW c \in Conns, ControlInv, DispatchStatus(c) PROVE ControlInv'
<1> USE DEF ControlInv
<1>1. TypeOK'
  <2>1. conn' \in [Conns -> Connection]
    BY EndedTyped DEF DispatchStatus, NextLine, Step, procVars, fileVars, At, ServeAt, Goto,
         SetListening, TypeOK, Connection, ConnLabels, Answers
  <2> QED BY <2>1 DEF DispatchStatus, NextLine, Step, procVars, fileVars, At, ServeAt, Goto,
       SetListening, TypeOK, Alive, ServeLabels
<1>2. CountsHandlers'
  BY DEF DispatchStatus, NextLine, Step, procVars, fileVars, At, ServeAt, Goto, SetListening,
       TypeOK, Connection, CountsHandlers, Handled, Unused, Ended, Fresh
<1>3. HandlersHaveServer'
  BY DEF DispatchStatus, NextLine, Step, procVars, fileVars, At, ServeAt, Goto, SetListening,
       TypeOK, Connection, CountsHandlers, HandlersHaveServer, Handled, Unused, Ended, Fresh,
       ConnLabels
<1>4. TellsTheTruth'
  BY DEF DispatchStatus, NextLine, Step, procVars, fileVars, At, ServeAt, Goto, SetListening,
       TypeOK, Connection, HandlersHaveServer, TellsTheTruth, Unused, Ended, Fresh, Answers
<1>5. AddressIsPublished'
  BY DEF DispatchStatus, NextLine, Step, procVars, fileVars, At, ServeAt, Goto, SetListening,
       TypeOK, Connection, AddressIsPublished, Alive
<1> QED BY <1>1, <1>2, <1>3, <1>4, <1>5

LEMMA DispatchInv ==
    ASSUME NEW c \in Conns, NEW command \in {"connect", "disconnect"},
           ControlInv, Dispatch(c, command)
    PROVE  ControlInv'
<1> USE DEF ControlInv
<1>1. PICK r \in Connection :
        /\ conn' = [conn EXCEPT ![c] = r] /\ conn[c].pc = "read"
        /\ r.pc = command /\ r.host \in Hosts /\ r.server = conn[c].server
        /\ r.told = conn[c].told /\ r.answer = conn[c].answer
  <2>1. PICK h \in Hosts : conn' = [conn EXCEPT ![c].pc = command, ![c].host = h, ![c].lines = @ + 1]
    BY DEF Dispatch
  <2> DEFINE r == [conn[c] EXCEPT !.pc = command, !.host = h, !.lines = @ + 1]
  <2>2. conn' = [conn EXCEPT ![c] = r]
    BY <2>1 DEF TypeOK, Connection
  <2>3. r \in Connection
    BY DEF Dispatch, NextLine, TypeOK, Connection, ConnLabels
  <2> QED BY <2>2, <2>3 DEF Dispatch, NextLine, At, TypeOK, Connection
<1>2. TypeOK'
  <2>1. conn' \in [Conns -> Connection]
    BY <1>1 DEF TypeOK
  <2> QED BY <1>1, <2>1 DEF Dispatch, procVars, fileVars, TypeOK
<1>3. CountsHandlers'
  BY <1>1 DEF Dispatch, procVars, fileVars, TypeOK, CountsHandlers, Handled, At
<1>4. HandlersHaveServer'
  BY <1>1 DEF Dispatch, procVars, fileVars, TypeOK, HandlersHaveServer, Handled, At
<1>5. TellsTheTruth'
  BY <1>1 DEF Dispatch, procVars, fileVars, TypeOK, HandlersHaveServer, TellsTheTruth,
       Handled, At
<1>6. AddressIsPublished'
  BY DEF Dispatch, procVars, fileVars, TypeOK, AddressIsPublished, Alive
<1> QED BY <1>2, <1>3, <1>4, <1>5, <1>6

\* Registering the host makes what was cut off of it true again, for this
\* connection; for the others Core lists one host more.
LEMMA ConnectRegistersInv ==
    ASSUME NEW c \in Conns, ControlInv, ConnectRegisters(c) PROVE ControlInv'
<1> USE DEF ControlInv
<1>0. conn[c].server \in Servers /\ conn[c].host \in Hosts /\ conn[c].pc = "connect"
  BY DEF ConnectRegisters, At, HandlersHaveServer, TellsTheTruth, Handled
<1>1. PICK r \in Connection :
        /\ conn' = [conn EXCEPT ![c] = r]
        /\ r.server = conn[c].server /\ r.host = conn[c].host
        /\ r.told = conn[c].told /\ r.answer = conn[c].answer
        /\ \/ r.pc = "reply" /\ r.cut = conn[c].cut /\ links' = links
           \/ /\ r.pc = "probe" /\ r.cut = conn[c].cut \ {conn[c].host}
              /\ links' = [links EXCEPT ![conn[c].server] = @ \cup {conn[c].host}]
  <2>1. CASE links' = links /\ conn' = [conn EXCEPT ![c].pc = "reply"]
    <3> DEFINE r == [conn[c] EXCEPT !.pc = "reply"]
    <3>1. conn' = [conn EXCEPT ![c] = r]
      BY <2>1 DEF TypeOK, Connection
    <3>2. r \in Connection
      BY DEF TypeOK, Connection, ConnLabels
    <3> QED BY <2>1, <3>1, <3>2 DEF TypeOK, Connection
  <2>2. CASE /\ links' = [links EXCEPT ![conn[c].server] = @ \cup {conn[c].host}]
             /\ conn' = [conn EXCEPT ![c].pc = "probe", ![c].cut = @ \ {conn[c].host}]
    <3> DEFINE r == [conn[c] EXCEPT !.pc = "probe", !.cut = @ \ {conn[c].host}]
    <3>1. conn' = [conn EXCEPT ![c] = r]
      BY <2>2 DEF TypeOK, Connection
    <3>2. ASSUME NEW q \in Connection, NEW h \in Hosts
          PROVE  LET p == [q EXCEPT !.pc = "probe", !.cut = @ \ {h}]
                 IN  /\ p \in Connection /\ p.pc = "probe" /\ p.server = q.server
                     /\ p.host = q.host /\ p.told = q.told /\ p.answer = q.answer
                     /\ p.cut = q.cut \ {h}
      BY DEF Connection, ConnLabels
    <3>3. conn[c] \in Connection
      BY DEF TypeOK
    <3>4. /\ r \in Connection /\ r.pc = "probe" /\ r.server = conn[c].server
          /\ r.host = conn[c].host /\ r.told = conn[c].told /\ r.answer = conn[c].answer
          /\ r.cut = conn[c].cut \ {conn[c].host}
      BY <1>0, <3>2, <3>3
    <3> HIDE DEF r
    <3> QED BY <2>2, <3>1, <3>4
  <2> QED BY <2>1, <2>2 DEF ConnectRegisters
<1>2. TypeOK'
  <2>1. conn' \in [Conns -> Connection]
    BY <1>1 DEF TypeOK
  <2> QED BY <1>0, <1>1, <2>1 DEF ConnectRegisters, procVars, fileVars, TypeOK
<1>3. \A d \in Conns : conn'[d] = IF d = c THEN r ELSE conn[d]
  BY <1>1 DEF TypeOK
<1>4. CountsHandlers'
  BY <1>0, <1>1, <1>3 DEF ConnectRegisters, fileVars, CountsHandlers, Handled
<1>5. HandlersHaveServer'
  BY <1>0, <1>1, <1>3 DEF ConnectRegisters, fileVars, HandlersHaveServer, Handled
<1>6. TellsTheTruth'
  <2> SUFFICES ASSUME NEW d \in Conns PROVE TellsTheTruth!(d)'
    BY DEF TellsTheTruth
  <2>1. TellsTheTruth!(d)
    BY DEF TellsTheTruth
  <2>2. \A t \in Servers : links[t] \subseteq links'[t]
    BY <1>0, <1>1 DEF TypeOK
  <2>3. CASE d # c
    BY <1>3, <2>1, <2>2, <2>3
  <2>4. CASE d = c /\ r.pc = "reply"
    BY <1>0, <1>1, <1>3, <2>1, <2>2, <2>4
  <2>5. CASE d = c /\ r.pc = "probe"
    <3>1. links'[conn[c].server] = links[conn[c].server] \cup {conn[c].host}
      BY <1>0, <1>1, <2>5 DEF TypeOK
    <3> QED BY <1>0, <1>1, <1>3, <2>1, <2>5, <3>1, NamesAssumption
  <2> QED BY <1>1, <2>3, <2>4, <2>5
<1>7. AddressIsPublished'
  BY DEF ConnectRegisters, fileVars, AddressIsPublished, Alive
<1> QED BY <1>2, <1>4, <1>5, <1>6, <1>7

LEMMA ConnectReturnsInv ==
    ASSUME NEW c \in Conns, ControlInv, ConnectReturns(c) PROVE ControlInv'
<1> USE DEF ControlInv
<1>1. PICK r \in Connection :
        /\ conn' = [conn EXCEPT ![c] = r] /\ conn[c].pc = "probe"
        /\ r.pc = "reply" /\ r.server = conn[c].server /\ r.host = conn[c].host
        /\ r.told = conn[c].told /\ r.cut = conn[c].cut
  <2> DEFINE r == [conn[c] EXCEPT !.pc = "reply", !.answer = "connected"]
  <2>1. conn' = [conn EXCEPT ![c] = r]
    BY DEF ConnectReturns, TypeOK, Connection
  <2>2. ASSUME NEW q \in Connection
        PROVE  LET p == [q EXCEPT !.pc = "reply", !.answer = "connected"]
               IN  /\ p \in Connection /\ p.pc = "reply" /\ p.server = q.server
                   /\ p.host = q.host /\ p.told = q.told /\ p.cut = q.cut
    BY DEF Connection, ConnLabels, Answers
  <2>3. conn[c] \in Connection
    BY DEF TypeOK
  <2> QED BY <2>1, <2>2, <2>3 DEF ConnectReturns, At
<1>2. TypeOK'
  <2>1. conn' \in [Conns -> Connection]
    BY <1>1 DEF TypeOK
  <2> QED BY <1>1, <2>1 DEF ConnectReturns, procVars, fileVars, TypeOK
<1>3. CountsHandlers'
  BY <1>1 DEF ConnectReturns, procVars, fileVars, TypeOK, CountsHandlers, Handled, At
<1>4. HandlersHaveServer'
  BY <1>1 DEF ConnectReturns, procVars, fileVars, TypeOK, HandlersHaveServer, Handled, At
<1>5. TellsTheTruth'
  BY <1>1 DEF ConnectReturns, procVars, fileVars, TypeOK, HandlersHaveServer, TellsTheTruth,
       Handled, At
<1>6. AddressIsPublished'
  BY DEF ConnectReturns, procVars, fileVars, TypeOK, AddressIsPublished, Alive
<1> QED BY <1>2, <1>3, <1>4, <1>5, <1>6

LEMMA DisconnectReturnsInv ==
    ASSUME NEW c \in Conns, ControlInv, DisconnectReturns(c) PROVE ControlInv'
<1> USE DEF ControlInv
<1>a. PICK s, h : s = conn[c].server /\ h = conn[c].host
  OBVIOUS
<1>0. s \in Servers /\ h \in Hosts /\ conn[c].pc = "disconnect"
  BY <1>a DEF DisconnectReturns, At, HandlersHaveServer, TellsTheTruth, Handled
<1>1. PICK f \in [Conns -> Connection] :
        /\ conn' = [f EXCEPT ![c].pc = "reply"]
        /\ \A d \in Conns : /\ f[d].pc = conn[d].pc /\ f[d].server = conn[d].server
                            /\ f[d].host = conn[d].host /\ f[d].told = conn[d].told
                            /\ f[d].answer = conn[d].answer
        /\ \/ /\ links' = links
              /\ \A d \in Conns : f[d].cut = conn[d].cut
           \/ /\ links' = [links EXCEPT ![s] = @ \ {h}]
              /\ \A d \in Conns :
                   f[d].cut = IF conn[d].server = s THEN conn[d].cut \cup {h} ELSE conn[d].cut
  <2>1. CASE links' = links /\ conn' = [conn EXCEPT ![c].pc = "reply"]
    BY <2>1 DEF TypeOK
  <2>2. CASE /\ links' = [links EXCEPT ![s] = @ \ {h}]
             /\ conn' = [CutOff(s, {h}, conn) EXCEPT ![c].pc = "reply"]
    <3>1. {h} \in SUBSET Hosts
      BY <1>0
    <3>2. conn \in [Conns -> Connection]
      BY DEF TypeOK
    <3>f. PICK f : f = CutOff(s, {h}, conn)
      OBVIOUS
    <3>3. /\ f \in [Conns -> Connection]
          /\ \A d \in Conns :
               /\ f[d].pc = conn[d].pc /\ f[d].server = conn[d].server /\ f[d].host = conn[d].host
               /\ f[d].told = conn[d].told /\ f[d].answer = conn[d].answer
               /\ f[d].cut = IF conn[d].server = s THEN conn[d].cut \cup {h} ELSE conn[d].cut
      BY <3>1, <3>2, <3>f, CutOffLemma
    <3>4. conn' = [f EXCEPT ![c].pc = "reply"]
      BY <2>2, <3>f
    <3>5. /\ \A d \in Conns : /\ f[d].pc = conn[d].pc /\ f[d].server = conn[d].server
                              /\ f[d].host = conn[d].host /\ f[d].told = conn[d].told
                              /\ f[d].answer = conn[d].answer
          /\ links' = [links EXCEPT ![s] = @ \ {h}]
          /\ \A d \in Conns :
               f[d].cut = IF conn[d].server = s THEN conn[d].cut \cup {h} ELSE conn[d].cut
      BY <2>2, <3>3
    <3> QED BY <3>3, <3>4, <3>5
  <2> QED BY <1>a, <2>1, <2>2 DEF DisconnectReturns
<1>2. /\ conn' \in [Conns -> Connection]
      /\ \A d \in Conns : /\ conn'[d].pc = IF d = c THEN "reply" ELSE f[d].pc
                          /\ conn'[d].server = f[d].server /\ conn'[d].host = f[d].host
                          /\ conn'[d].told = f[d].told /\ conn'[d].answer = f[d].answer
                          /\ conn'[d].cut = f[d].cut
  <2> DEFINE r == [f[c] EXCEPT !.pc = "reply"]
  <2>1. conn' = [f EXCEPT ![c] = r]
    BY <1>1 DEF Connection
  <2>2. r \in Connection /\ r.pc = "reply" /\ r.server = f[c].server /\ r.host = f[c].host
        /\ r.told = f[c].told /\ r.answer = f[c].answer /\ r.cut = f[c].cut
    BY DEF Connection, ConnLabels
  <2> HIDE DEF r
  <2> QED BY <2>1, <2>2
<1>e. \A d \in Conns :
        /\ f[d].pc = conn[d].pc /\ f[d].server = conn[d].server /\ f[d].host = conn[d].host
        /\ f[d].told = conn[d].told /\ f[d].answer = conn[d].answer
  BY <1>1
<1>b. \A d \in Conns :
        /\ conn'[d].pc = IF d = c THEN "reply" ELSE conn[d].pc
        /\ conn'[d].server = conn[d].server
        /\ conn'[d].host = conn[d].host
        /\ conn'[d].told = conn[d].told /\ conn'[d].answer = conn[d].answer
  BY <1>e, <1>2
<1>c. \/ links' = links
      \/ links' = [links EXCEPT ![s] = @ \ {h}]
  BY <1>1
<1>3. TypeOK'
  BY <1>0, <1>2, <1>c DEF DisconnectReturns, fileVars, TypeOK
<1>4. CountsHandlers'
  BY <1>0, <1>b DEF DisconnectReturns, CountsHandlers, Handled
<1>5. HandlersHaveServer'
  BY <1>0, <1>b DEF DisconnectReturns, HandlersHaveServer, Handled
<1>6. TellsTheTruth'
  <2> SUFFICES ASSUME NEW d \in Conns PROVE TellsTheTruth!(d)'
    BY DEF TellsTheTruth
  <2>1. TellsTheTruth!(d)
    BY DEF TellsTheTruth
  <2>2. \A t \in Servers : t # s => links'[t] = links[t]
    BY <1>c DEF TypeOK
  <2>3. links'[s] = links[s] \/ links'[s] = links[s] \ {h}
    BY <1>0, <1>c DEF TypeOK
  <2>4. conn'[d].cut = f[d].cut
    BY <1>2
  <2>5. CASE links' = links /\ f[d].cut = conn[d].cut
    BY <1>0, <1>b, <2>1, <2>4, <2>5
  <2>6. CASE /\ links' = [links EXCEPT ![s] = @ \ {h}]
             /\ f[d].cut = IF conn[d].server = s THEN conn[d].cut \cup {h} ELSE conn[d].cut
    <3>1. links'[s] = links[s] \ {h}
      BY <1>0, <2>6 DEF TypeOK
    <3> QED BY <1>0, <1>b, <2>1, <2>2, <2>4, <2>6, <3>1
  <2> QED BY <1>1, <2>5, <2>6
<1>7. AddressIsPublished'
  BY DEF DisconnectReturns, fileVars, AddressIsPublished, Alive
<1> QED BY <1>3, <1>4, <1>5, <1>6, <1>7

LEMMA WriteResponseInv ==
    ASSUME NEW c \in Conns, ControlInv, WriteResponse(c) PROVE ControlInv'
<1> USE DEF ControlInv
<1>1. PICK r \in Connection :
        /\ conn' = [conn EXCEPT ![c] = r] /\ conn[c].pc = "reply"
        /\ r.pc = "read" /\ r.server = conn[c].server /\ r.answer = "other"
        /\ r.cut = conn[c].cut
        /\ \/ r.told = conn[c].told
           \/ r.told = conn[c].told \cup {conn[c].host} /\ conn[c].answer = "connected"
  <2> DEFINE t == IF conn[c].answer = "connected" /\ ~conn[c].left
                  THEN conn[c].told \cup {conn[c].host} ELSE conn[c].told
             r == [conn[c] EXCEPT !.pc = "read", !.answer = "other", !.host = None, !.told = t]
  <2>1. t \in SUBSET Hosts
    BY DEF TypeOK, TellsTheTruth, Connection
  <2>2. conn' = [conn EXCEPT ![c] = r]
    BY DEF WriteResponse, TypeOK, Connection
  <2> HIDE DEF t
  <2>3. r \in Connection
    <3>1. ASSUME NEW q \in Connection, NEW T \in SUBSET Hosts
          PROVE  [q EXCEPT !.pc = "read", !.answer = "other", !.host = None, !.told = T] \in Connection
      BY DEF Connection, ConnLabels, Answers
    <3> QED BY <2>1, <3>1 DEF TypeOK
  <2>4. r.pc = "read" /\ r.server = conn[c].server /\ r.answer = "other" /\ r.told = t
        /\ r.cut = conn[c].cut
    BY DEF TypeOK, Connection
  <2> QED BY <2>2, <2>3, <2>4, ZenonT(60) DEF WriteResponse, At, t
<1>2. TypeOK'
  <2>1. conn' \in [Conns -> Connection]
    BY <1>1 DEF TypeOK
  <2> QED BY <1>1, <2>1 DEF WriteResponse, procVars, fileVars, TypeOK
<1>3. CountsHandlers'
  BY <1>1 DEF WriteResponse, procVars, fileVars, TypeOK, CountsHandlers, Handled, At
<1>4. HandlersHaveServer'
  BY <1>1 DEF WriteResponse, procVars, fileVars, TypeOK, HandlersHaveServer, Handled, At
<1>5. TellsTheTruth'
  BY <1>1 DEF WriteResponse, procVars, fileVars, TypeOK, HandlersHaveServer, TellsTheTruth,
       Handled, At
<1>6. AddressIsPublished'
  BY DEF WriteResponse, procVars, fileVars, TypeOK, AddressIsPublished, Alive
<1> QED BY <1>2, <1>3, <1>4, <1>5, <1>6

LEMMA ScanEndsInv ==
    ASSUME NEW c \in Conns, ControlInv, ScanEnds(c) PROVE ControlInv'
<1> USE DEF ControlInv
<1>1. TypeOK'
  <2>1. conn' \in [Conns -> Connection]
    BY EndedTyped DEF ScanEnds, procVars, fileVars, At, ServeAt, Goto, SetListening, TypeOK,
         Connection, ConnLabels, Answers
  <2> QED BY <2>1 DEF ScanEnds, procVars, fileVars, At, ServeAt, Goto, SetListening, TypeOK,
       Alive, ServeLabels
<1>2. CountsHandlers'
  BY DEF ScanEnds, procVars, fileVars, At, ServeAt, Goto, SetListening, TypeOK, Connection,
       CountsHandlers, Handled, Unused, Ended, Fresh
<1>3. HandlersHaveServer'
  BY DEF ScanEnds, procVars, fileVars, At, ServeAt, Goto, SetListening, TypeOK, Connection,
       CountsHandlers, HandlersHaveServer, Handled, Unused, Ended, Fresh, ConnLabels
<1>4. TellsTheTruth'
  BY DEF ScanEnds, procVars, fileVars, At, ServeAt, Goto, SetListening, TypeOK, Connection,
       HandlersHaveServer, TellsTheTruth, Unused, Ended, Fresh, Answers
<1>5. AddressIsPublished'
  BY DEF ScanEnds, procVars, fileVars, At, ServeAt, Goto, SetListening, TypeOK, Connection,
       AddressIsPublished, Alive
<1> QED BY <1>1, <1>2, <1>3, <1>4, <1>5

LEMMA HandlerEndsInv ==
    ASSUME NEW c \in Conns, ControlInv, HandlerEnds(c) PROVE ControlInv'
<1> USE DEF ControlInv
<1>1. /\ conn' \in [Conns -> Connection]
      /\ conn'[c] = Ended /\ \A d \in Conns \ {c} : conn'[d] = conn[d]
  BY EndedTyped DEF HandlerEnds, TypeOK
<1>2. TypeOK'
  BY <1>1 DEF HandlerEnds, procVars, fileVars, TypeOK
<1>3. CountsHandlers'
  BY <1>1, EndedFields DEF HandlerEnds, At, TypeOK, CountsHandlers, Handled
<1>4. HandlersHaveServer'
  BY <1>1, EndedFields DEF HandlerEnds, procVars, HandlersHaveServer, Handled
<1>5. TellsTheTruth'
  BY <1>1, EndedFields DEF HandlerEnds, procVars, TellsTheTruth
<1>6. AddressIsPublished'
  BY DEF HandlerEnds, procVars, fileVars, AddressIsPublished, Alive
<1> QED BY <1>2, <1>3, <1>4, <1>5, <1>6

LEMMA DialInv ==
    ASSUME NEW c \in Conns, ControlInv, Dial(c) PROVE ControlInv'
<1> USE DEF ControlInv
<1>1. PICK r \in Connection :
        /\ conn' = [conn EXCEPT ![c] = r] /\ conn[c].pc = "none"
        /\ r.pc = "queued" /\ r.server \in Servers /\ r.host = conn[c].host
        /\ r.told = conn[c].told /\ r.answer = conn[c].answer /\ r.cut = conn[c].cut
  <2> DEFINE r == [conn[c] EXCEPT !.pc = "queued", !.server = file]
  <2>1. conn' = [conn EXCEPT ![c] = r]
    BY DEF Dial, TypeOK, Connection
  <2>2. ASSUME NEW q \in Connection, NEW t \in Servers
        PROVE  [q EXCEPT !.pc = "queued", !.server = t] \in Connection
    BY DEF Connection, ConnLabels
  <2>3. r \in Connection
    BY <2>2 DEF Dial, TypeOK
  <2> QED BY <2>1, <2>3 DEF Dial, TypeOK, Connection
<1>2. TypeOK'
  <2>1. conn' \in [Conns -> Connection]
    BY <1>1 DEF TypeOK
  <2> QED BY <1>1, <2>1 DEF Dial, procVars, fileVars, TypeOK
<1>3. CountsHandlers'
  BY <1>1 DEF Dial, procVars, fileVars, TypeOK, CountsHandlers, Handled, At
<1>4. HandlersHaveServer'
  BY <1>1 DEF Dial, procVars, fileVars, TypeOK, HandlersHaveServer, Handled, At
<1>5. TellsTheTruth'
  BY <1>1 DEF Dial, procVars, fileVars, TypeOK, HandlersHaveServer, TellsTheTruth, Handled, At
<1>6. AddressIsPublished'
  BY DEF Dial, procVars, fileVars, TypeOK, AddressIsPublished, Alive
<1> QED BY <1>2, <1>3, <1>4, <1>5, <1>6

LEMMA LeaveInv ==
    ASSUME NEW c \in Conns, ControlInv, Leave(c) PROVE ControlInv'
<1> USE DEF ControlInv
<1>1. PICK r \in Connection :
        /\ conn' = [conn EXCEPT ![c] = r]
        /\ r.pc = conn[c].pc /\ r.server = conn[c].server /\ r.host = conn[c].host
        /\ r.told = conn[c].told /\ r.answer = conn[c].answer /\ r.cut = conn[c].cut
  <2> DEFINE r == [conn[c] EXCEPT !.left = TRUE]
  <2>1. conn' = [conn EXCEPT ![c] = r]
    BY DEF Leave, TypeOK, Connection
  <2>2. ASSUME NEW q \in Connection
        PROVE  /\ [q EXCEPT !.left = TRUE] \in Connection
               /\ [q EXCEPT !.left = TRUE].pc = q.pc /\ [q EXCEPT !.left = TRUE].server = q.server
               /\ [q EXCEPT !.left = TRUE].host = q.host /\ [q EXCEPT !.left = TRUE].told = q.told
               /\ [q EXCEPT !.left = TRUE].answer = q.answer
               /\ [q EXCEPT !.left = TRUE].cut = q.cut
    BY DEF Connection
  <2>3. conn[c] \in Connection
    BY DEF TypeOK
  <2> QED BY <2>1, <2>2, <2>3
<1>2. TypeOK'
  <2>1. conn' \in [Conns -> Connection]
    BY <1>1 DEF TypeOK
  <2> QED BY <1>1, <2>1 DEF Leave, procVars, fileVars, TypeOK
<1>3. CountsHandlers'
  BY <1>1 DEF Leave, procVars, fileVars, TypeOK, CountsHandlers, Handled, At
<1>4. HandlersHaveServer'
  BY <1>1 DEF Leave, procVars, fileVars, TypeOK, HandlersHaveServer, Handled, At
<1>5. TellsTheTruth'
  BY <1>1 DEF Leave, procVars, fileVars, TypeOK, HandlersHaveServer, TellsTheTruth, Handled, At
<1>6. AddressIsPublished'
  BY DEF Leave, procVars, fileVars, TypeOK, AddressIsPublished, Alive
<1> QED BY <1>2, <1>3, <1>4, <1>5, <1>6

LEMMA AcceptInv ==
    ASSUME NEW s \in Servers, NEW c \in Conns, ControlInv, Accept(s, c) PROVE ControlInv'
<1> USE DEF ControlInv
<1>1. TypeOK'
  <2>1. conn' \in [Conns -> Connection]
    BY EndedTyped DEF Accept, procVars, fileVars, At, ServeAt, Goto, SetListening, TypeOK,
         Connection, ConnLabels, Answers
  <2> QED BY <2>1 DEF Accept, procVars, fileVars, At, ServeAt, Goto, SetListening, TypeOK,
       Alive, ServeLabels
<1>2. CountsHandlers'
  BY DEF Accept, procVars, fileVars, At, ServeAt, Goto, SetListening, TypeOK, Connection,
       CountsHandlers, Handled, Unused, Ended, Fresh
<1>3. HandlersHaveServer'
  BY DEF Accept, procVars, fileVars, At, ServeAt, Goto, SetListening, TypeOK, Connection,
       CountsHandlers, HandlersHaveServer, Handled, Unused, Ended, Fresh, ConnLabels
<1>4. TellsTheTruth'
  BY DEF Accept, procVars, fileVars, At, ServeAt, Goto, SetListening, TypeOK, Connection,
       HandlersHaveServer, TellsTheTruth, Unused, Ended, Fresh, Answers
<1>5. AddressIsPublished'
  BY DEF Accept, procVars, fileVars, At, ServeAt, Goto, SetListening, TypeOK, Connection,
       AddressIsPublished, Alive
<1> QED BY <1>1, <1>2, <1>3, <1>4, <1>5

LEMMA StutterInv ==
    ASSUME ControlInv, UNCHANGED vars PROVE ControlInv'
BY DEF vars, procVars, fileVars, ControlInv, TypeOK, CountsHandlers, HandlersHaveServer,
       TellsTheTruth, AddressIsPublished, Handled, Alive

-----------------------------------------------------------------------------
LEMMA NextInv == ControlInv /\ [Next]_vars => ControlInv'
<1> SUFFICES ASSUME ControlInv, [Next]_vars PROVE ControlInv'
  OBVIOUS
<1>1. CASE UNCHANGED vars
  BY <1>1, StutterInv
<1>2. ASSUME NEW s \in Servers, Serve(s) PROVE ControlInv'
  BY <1>2, ListenInv, TruncateFileInv, WriteFileInv, AcceptLoopEndsInv, WaitHandlersInv,
     RemoveFileInv, AcceptInv DEF Serve
<1>3. ASSUME NEW s \in Servers, CloseListener(s) PROVE ControlInv'
  BY <1>3, CloseListenerInv
<1>4. ASSUME NEW s \in Servers, Process(s) PROVE ControlInv'
  BY <1>4, OtherDisconnectInv, CancelInv, CoreCloseInv, ExitInv DEF Process
<1>5. ASSUME NEW c \in Conns, Handle(c) PROVE ControlInv'
  <2>1. CASE Answer(c)
    BY <2>1, ConnectRegistersInv, ConnectReturnsInv, DisconnectReturnsInv, WriteResponseInv DEF Answer
  <2> QED BY <1>5, <2>1, SkipEmptyInv, RejectInv, DispatchStatusInv, DispatchInv, ScanEndsInv,
             HandlerEndsInv DEF Handle
<1>6. ASSUME NEW c \in Conns, Dial(c) \/ Leave(c) PROVE ControlInv'
  BY <1>6, DialInv, LeaveInv
<1> QED BY <1>1, <1>2, <1>3, <1>4, <1>5, <1>6 DEF Next

\* The invariant holds in every reachable state.
THEOREM ControlInvariant == Spec => []ControlInv
<1> QED BY InitInv, NextInv, PTL DEF Spec

\* The variables keep their types.
THEOREM ControlTyped == Spec => []TypeOK
<1>1. ControlInv => TypeOK
  BY DEF ControlInv
<1> QED BY <1>1, ControlInvariant, PTL

\* ListenAndServe does not return before its handlers (control.go:115), for
\* any number of connections.
THEOREM HandlersFirst == Spec => []ReturnsAfterHandlers
<1>1. ControlInv => ReturnsAfterHandlers
  BY DEF ControlInv, HandlersHaveServer, ReturnsAfterHandlers
<1> QED BY <1>1, ControlInvariant, PTL

\* The file names a server that accepts or drains, unless another server of
\* the same path came in between.
THEOREM Published == Spec => []AddressIsPublished
<1>1. ControlInv => AddressIsPublished
  BY DEF ControlInv
<1> QED BY <1>1, ControlInvariant, PTL

\* What a client was told to be connected is connected until something
\* disconnects it, whatever the other clients do.
THEOREM ToldTruth == Spec => []ToldIsConnected
<1>1. ControlInv => ToldIsConnected
  BY DEF ControlInv, TypeOK, Connection, TellsTheTruth, ToldIsConnected
<1> QED BY <1>1, ControlInvariant, PTL
=============================================================================
