----------------------------- MODULE PinnedStore -----------------------------
(* What the blockstore promises to whoever pins: blocks come at any time and  *)
(* pins change at any time, but a block goes only while no pin holds it, and  *)
(* one block at a time.  There are no locks, collectors or adders here;       *)
(* RepoGC is shown to implement this.                                         *)
EXTENDS Dag

VARIABLES store, recursive, direct

psVars == <<store, recursive, direct>>

\* The blocks some pin holds.
Held == Hashes(Desc(recursive) \cup direct)

PSInit == store \subseteq Blocks /\ recursive = {} /\ direct = {}

\* Blocks are written, pins are made and dropped; nothing is deleted.
Grow ==
    /\ store \subseteq store' /\ store' \subseteq Blocks
    /\ recursive' \subseteq Cids /\ direct' \subseteq Cids

Drop(b) ==
    /\ b \in store \ Held
    /\ store' = store \ {b}
    /\ UNCHANGED <<recursive, direct>>

PSSpec == PSInit /\ [][Grow \/ \E b \in Blocks : Drop(b)]_psVars
==============================================================================
