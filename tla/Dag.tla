-------------------------------- MODULE Dag --------------------------------
(* The content-addressed graph that the garbage collector, the pinner and the *)
(* adder work on.  A CID names a block by its multihash and says with which   *)
(* codec to read it, so two CIDs (a dag-pb and a raw one) may name one block; *)
(* Links gives what ipld.GetLinks returns for a CID whose block is local.     *)
(* CIDs are taken as CIDv1: the version is never told apart (gc.toCidV1).     *)
CONSTANTS
    Cids,       \* the CIDs
    Blocks,     \* the multihashes, the keys of the blockstore
    Links,      \* Links[c]: the CIDs a node links to
    Mh          \* Mh[c]: the multihash of a CID

ASSUME DagAssumption ==
    /\ Links \in [Cids -> SUBSET Cids]
    /\ Mh \in [Cids -> Blocks]

-----------------------------------------------------------------------------
\* The multihashes of a set of CIDs: what is left when the codec is dropped.
Hashes(S) == {Mh[c] : c \in S}

\* S is closed under following the links of the blocks in st.
ClosedIn(S, st) == \A c \in S : Mh[c] \in st => Links[c] \subseteq S

\* What a walk from R sees when st are the blocks it can read: the smallest
\* closed set that holds R.
Reach(R, st) ==
    {c \in Cids : \A S \in SUBSET Cids : R \subseteq S /\ ClosedIn(S, st) => c \in S}

\* The whole DAG under a CID, and under each CID of R, local or not.
Below == [c \in Cids |-> Reach({c}, Blocks)]
Desc(R) == UNION {Below[c] : c \in R}

\* Every block of the DAG under c is in st.
Complete(c, st) == Hashes(Below[c]) \subseteq st
=============================================================================
