------------------------------ MODULE MCRepoGC ------------------------------
(* Small instances of RepoGC.  The graph: two files f1 (with a chunk k1) and  *)
(* f2; d1 and d2 are the directories {f1} and {f1, f2} that an add of both    *)
(* builds, e the empty directory; raw names the block of f1 with the raw      *)
(* codec; m is a directory over f1 and a node l that is linked lazily.  Each  *)
(* run takes the part of the graph its operations touch.                      *)
EXTENDS RepoGC

CONSTANTS e, k1, f1, f2, d1, d2, raw, m, l

AddCids == {e, k1, f1, f2, d1, d2}
PinCids == {e, k1, f1, f2, raw}
MfsCids == {e, f1, d1, m, l}
LockCids == {e, f1, f2}

MCBlocks == Cids \ {raw}
MCMh == [c \in Cids |-> IF c = raw THEN f1 ELSE c]
MCLinks == [c \in Cids |-> Cids \cap CASE c = f1 -> {k1}
                                       [] c = d1 -> {f1}
                                       [] c = d2 -> {f1, f2}
                                       [] c = m  -> {f1, l}
                                       [] OTHER  -> {}]

MCProcs == Collectors \cup Removers \cup Adders \cup Clients

\* Add a directory of two files: the directory itself, then f1, then f2; where
\* the graph has no directories, add the one file f1.
MCPlan == [p \in Adders |->
    IF d2 \in Cids
    THEN << [adds |-> {}, dirs |-> {e}, root |-> e],
            [adds |-> {f1, k1}, dirs |-> {d1}, root |-> f1],
            [adds |-> {f2}, dirs |-> {d2}, root |-> d2] >>
    ELSE << [adds |-> {f1}, dirs |-> {}, root |-> f1] >>]

FilesOnly == {"files"}
FilesAndIpns == {"files", "ipns"}
MCInitTree == [t \in Trees |-> e]
StoreEmptyDir == {e}

MCJob(kind, pins, adds, lazy) ==
    [kind |-> kind, pins |-> pins, adds |-> adds, lazy |-> lazy,
     from |-> e, unpin |-> TRUE, at |-> "files"]

\* Pin jobs: complete and incomplete DAGs, the two codecs of one block.
PinJobs == {MCJob("pin", {f1}, {f1, k1}, {}),
            MCJob("pinmode", {f1}, {f1}, {}),
            MCJob("direct", {raw}, {raw}, {}), MCJob("direct", {f1}, {f1}, {}),
            MCJob("unpin", {f1, raw}, {}, {}),
            MCJob("pinmode", {f2}, {f2}, {}),
            [MCJob("update", {f1}, {f1, k1}, {}) EXCEPT !.from = f2]}

\* MFS jobs: two trees built in turn that share f1, one with a lazy child.
MfsJobs == {MCJob("mfs", {d1}, {d1, f1}, {}),
            MCJob("mfs", {m}, {m}, {l}),
            MCJob("mfs", {e}, {e}, {}),
            [MCJob("mfs", {d1}, {d1, f1}, {}) EXCEPT !.at = "ipns"]}

\* A user who unpins the finished add.
UnpinDone == {MCJob("unpin", {d2}, {}, {})}

LockJobs == {MCJob("pinmode", {f2}, {f2}, {}), MCJob("unpin", {f2}, {}, {})}
=============================================================================
