---------------------------- MODULE NTLMSession ----------------------------
(***************************************************************************)
(* What a WinRM client promises its one NTLM security session: commands on *)
(* it never overlap.  The session's keystream and sequence numbers carry   *)
(* no lock of their own, so a second command may begin only after the one  *)
(* before it has ended.                                                    *)
(***************************************************************************)
CONSTANTS Callers, Clients

VARIABLE using      \* the commands each client has on the wire

Init == using = [k \in Clients |-> {}]

Begin(c, k) ==
    /\ using[k] = {}
    /\ using' = [using EXCEPT ![k] = {c}]

End(k) ==
    /\ using[k] # {}
    /\ using' = [using EXCEPT ![k] = {}]

Next == \E k \in Clients : End(k) \/ \E c \in Callers : Begin(c, k)

Spec == Init /\ [][Next]_using
=============================================================================
