----------------------------- MODULE MCTransfers -----------------------------
(* Finite instances of ToolCache and Download for TLC.  The two move files   *)
(* in directories that have nothing in common, so that interleaving them     *)
(* shows nothing new: a behaviour runs the one or the other.                 *)
EXTENDS ToolCache, Download, TLC

VARIABLE moving

MCInit ==
    /\ Init /\ DownloadInit
    /\ \/ moving = "tools" /\ \A p \in Names : names[p] = Nothing
       \/ moving = "downloads"

MCNext ==
    \/ moving = "tools" /\ Next /\ UNCHANGED <<downloadVars, moving>>
    \/ moving = "downloads" /\ DownloadNext /\ UNCHANGED <<vars, moving>>

MCSpec == MCInit /\ [][MCNext]_<<vars, downloadVars, moving>>

\* Files and Inodes, and Downloaders and TempNames, are given the same values,
\* which never meet, so that one permutation serves both.
Symmetry == Permutations(Callers) \cup Permutations(TempNames) \cup Permutations(Inodes)
=============================================================================
