------------------------------- MODULE RepoGC -------------------------------
(* The blockstore of a node under everything that adds to it and deletes from *)
(* it: the mark-and-sweep collector (gc/gc.go), `block rm` (blockstoreutil),   *)
(* the pinned adder behind `ipfs add` (coreunix), the pin, block, dag and MFS *)
(* operations that run under PinLock, and the writes that take no lock at all *)
(* (fetched blocks, unpinned adds).                                           *)
(*                                                                            *)
(* Abstracted: bytes, names, progress and result events.  The pinner, the     *)
(* DAG service and MFS are boxo's, modelled from how this code uses them.     *)
EXTENDS Dag, GCLocker, Naturals, Sequences

CONSTANTS
    Collectors,     \* processes that run gc.GC
    Removers,       \* processes that run blockstoreutil.RmBlocks
    Adders,         \* processes that run Adder.AddAllAndPin with Pin set
    Clients,        \* processes that run one short operation under PinLock
    Plan,           \* Plan[p]: the entries adder p walks, see Entry
    EmptyDir,       \* the CID of the empty directory an adder starts from
    Jobs,           \* the operations clients may run, see Job
    RmTargets,      \* the CID sets `block rm` may be called with
    Fetchable,      \* the CIDs whose blocks may arrive without any lock
    Unreadable,     \* the MFS roots that may fail to give their node
    Trees,          \* the MFS roots: FilesRoot and those of /ipns mounts
    FilesRoot,      \* the tree that is always live
    InitTree,       \* InitTree[t]: the root CID a tree starts from
    InitStore       \* the blocks already in the repo

VARIABLES
    store,          \* multihashes of the blocks in the blockstore
    recursive,      \* recursively pinned CIDs
    direct,         \* directly pinned CIDs
    tree,           \* tree[t]: the current root CID of an MFS tree
    registered,     \* trees that BestEffortRoots reports
    pc,             \* pc[p]: where process p is
    job,            \* job[p]: the operation client p runs
    left,           \* left[p]: CIDs process p still has to write or delete
    done,           \* done[p]: entries adder p has finished
    cancelled,      \* collectors whose context is done
    roots,          \* collector: the snapshot of the best-effort roots
    stream,         \* collector: roots not yet received from the key channel
    frontier,       \* collector: nodes the current walk has yet to visit
    gcs,            \* collector: the coloured set
    errors,         \* collector: the errors flag of ColoredSet, then of the sweep
    keys,           \* collector: blocks AllKeysChan has yet to report
    base            \* history: the blocks there when the collector got the lock

pinVars  == <<recursive, direct>>
treeVars == <<tree, registered>>
procVars == <<job, left, done>>
gcVars   == <<roots, stream, frontier, gcs, errors, keys, base>>
vars     == <<store, pinVars, treeVars, lk, pc, procVars, cancelled, gcVars>>

-----------------------------------------------------------------------------
\* One entry of an add: the CIDs of the file's own DAG, and, once it is linked
\* in, the directory nodes of the tree so far and the node curRootNode returns.
Entry == [adds : SUBSET Cids, dirs : SUBSET Cids, root : Cids]

\* One client operation.  kind says how it commits: "pin" fetches and checks
\* the DAGs under pins, "pinmode" only records the pins (PinWithMode), "direct",
\* "unpin" and "update" change the pins, "mfs" makes pins' one CID the new root
\* of tree at; adds are the blocks it writes first, lazy the CIDs it links
\* without having their blocks.
Job == [kind : {"pin", "pinmode", "direct", "unpin", "update", "mfs"},
        pins : SUBSET Cids, adds : SUBSET Cids, lazy : SUBSET Cids,
        from : Cids, unpin : BOOLEAN, at : Trees]

NoJob == [kind |-> "none"]

ASSUME SystemAssumption ==
    /\ Procs = Collectors \cup Removers \cup Adders \cup Clients
    /\ Collectors \cap (Removers \cup Adders \cup Clients) = {}
    /\ Removers \cap (Adders \cup Clients) = {}
    /\ Adders \cap Clients = {}
    /\ EmptyDir \in Cids
    /\ \A p \in Adders : Plan[p] \in Seq(Entry)
    /\ Jobs \subseteq Job
    /\ RmTargets \subseteq SUBSET Cids
    /\ Fetchable \subseteq Cids
    /\ FilesRoot \in Trees
    /\ Unreadable \subseteq Trees
    /\ InitTree \in [Trees -> Cids]
    /\ InitStore \subseteq Blocks

Init ==
    /\ store = InitStore
    /\ recursive = {} /\ direct = {}
    /\ tree = InitTree /\ registered = {FilesRoot}
    /\ LockInit
    /\ pc = [p \in Procs |-> "idle"]
    /\ job = [p \in Procs |-> NoJob]
    /\ left = [p \in Procs |-> {}]
    /\ done = [p \in Procs |-> 0]
    /\ cancelled = {}
    /\ roots = {} /\ stream = {} /\ frontier = {} /\ gcs = {}
    /\ errors = FALSE /\ keys = {} /\ base = {}

Goto(p, l) == pc' = [pc EXCEPT ![p] = l]

-----------------------------------------------------------------------------
(* gc.GC: lock, snapshot the best-effort roots, colour, sweep, unlock.        *)

\* GC(ctx, ...) is called; it blocks in GCLock, which does not look at ctx.
GCStart(g) ==
    /\ pc[g] = "idle" /\ GCRequest(g) /\ Goto(g, "lock")
    /\ UNCHANGED <<store, pinVars, treeVars, procVars, cancelled, gcVars>>

\* The caller's context ends: the client is gone or the daemon stops.
GCCancel(g) ==
    /\ pc[g] # "idle" /\ g \notin cancelled
    /\ cancelled' = cancelled \cup {g}
    /\ UNCHANGED <<store, pinVars, treeVars, lk, pc, procVars, gcVars>>

\* A writer moves up to the front of the lock.
Announce(p) ==
    /\ GCAnnounce(p)
    /\ UNCHANGED <<store, pinVars, treeVars, pc, procVars, cancelled, gcVars>>

GCLocked(g) ==
    /\ pc[g] = "lock" /\ GCAcquire(g) /\ Goto(g, "roots")
    /\ base' = store
    /\ UNCHANGED <<store, pinVars, treeVars, procVars, cancelled,
                   roots, stream, frontier, gcs, errors, keys>>

\* The goroutine returns: its defers release the lock and end its context.
GCReturn(g) ==
    /\ GCUnlock(g) /\ Goto(g, "idle")
    /\ cancelled' = cancelled \ {g}
    /\ roots' = {} /\ stream' = {} /\ frontier' = {} /\ gcs' = {}
    /\ errors' = FALSE /\ keys' = {} /\ base' = {}
    /\ UNCHANGED <<store, pinVars, treeVars, procVars>>

\* Mutant of SnapshotRoots: the roots are those of the mounts alone.
SnapshotMounts(g) ==
    /\ pc[g] = "roots"
    /\ roots' = {tree[t] : t \in registered \ {FilesRoot}}
    /\ stream' = recursive /\ frontier' = {} /\ gcs' = {} /\ errors' = FALSE
    /\ Goto(g, "recursive")
    /\ UNCHANGED <<store, pinVars, treeVars, lk, procVars, cancelled, keys, base>>

\* BestEffortRoots, under the lock: FilesRoot and every registered root; an
\* extra root that cannot be read is skipped.
SnapshotRoots(g) ==
    /\ pc[g] = "roots"
    /\ \E skipped \in SUBSET (Unreadable \ {FilesRoot}) :
          roots' = {tree[t] : t \in registered \ skipped}
    /\ stream' = recursive /\ frontier' = {} /\ gcs' = {} /\ errors' = FALSE
    /\ Goto(g, "recursive")
    /\ UNCHANGED <<store, pinVars, treeVars, lk, procVars, cancelled, keys, base>>

\* FilesRoot cannot be read: report and return.
SnapshotFails(g) == pc[g] = "roots" /\ FilesRoot \in Unreadable /\ GCReturn(g)

\* Descendants receives the next root of its channel and starts a walk there.
NextRoot(g, c) ==
    /\ pc[g] \in {"recursive", "besteffort"}
    /\ frontier = {} /\ c \in stream
    /\ stream' = stream \ {c}
    /\ frontier' = {c} \ gcs
    /\ UNCHANGED <<store, pinVars, treeVars, lk, pc, procVars, cancelled,
                   roots, gcs, errors, keys, base>>

\* getLinks counts every failure, bestEffortGetLinks all but a missing block.
MissingIsError(g) == pc[g] = "recursive"

\* The walk visits one node: it is coloured, and its links are next if its
\* block can be read.  A failed read is recorded and the walk goes on.
Visit(g, c, readable) ==
    /\ pc[g] \in {"recursive", "besteffort"}
    /\ c \in frontier
    /\ gcs' = gcs \cup {c}
    /\ IF Mh[c] \in store /\ readable
         THEN /\ frontier' = (frontier \cup Links[c]) \ gcs'
              /\ UNCHANGED errors
         ELSE /\ frontier' = frontier \ {c}
              /\ errors' = IF Mh[c] \in store \/ MissingIsError(g) THEN TRUE ELSE errors
    /\ UNCHANGED <<store, pinVars, treeVars, lk, pc, procVars, cancelled,
                   roots, stream, keys, base>>

\* Descendants is over: on to the best-effort roots, then to the direct pins.
NextPhase(g) ==
    /\ IF pc[g] = "recursive" THEN stream' = roots /\ Goto(g, "besteffort")
                              ELSE stream' = {} /\ Goto(g, "direct")
    /\ frontier' = {}

\* The channel is closed.  Once ctx is done it may be closed early, and the
\* select of Descendants may take the close rather than ctx.Done.
RootsEnd(g) ==
    /\ pc[g] \in {"recursive", "besteffort"}
    /\ frontier = {} /\ (stream = {} \/ g \in cancelled)
    /\ NextPhase(g)
    /\ UNCHANGED <<store, pinVars, treeVars, lk, procVars, cancelled,
                   roots, gcs, errors, keys, base>>

\* Descendants returns an error (the pin index, an invalid CID, ctx): it is
\* counted, and colouring goes on.
DescendantsFails(g) ==
    /\ pc[g] \in {"recursive", "besteffort"}
    /\ errors' = TRUE
    /\ NextPhase(g)
    /\ UNCHANGED <<store, pinVars, treeVars, lk, procVars, cancelled,
                   roots, gcs, keys, base>>

\* A send loses to ctx.Done, or the direct pins or the keys cannot be listed.
ColourAbort(g) ==
    /\ \/ pc[g] \in {"recursive", "besteffort"} /\ g \in cancelled
       \/ pc[g] = "direct"
    /\ GCReturn(g)

\* Direct pins are coloured, without their links (a done ctx may cut the list
\* short; the pinner has no internal pins).  With errors the collection ends
\* with ErrCannotFetchAllLinks, otherwise the sweep begins.  AllKeysChan reports
\* what is there and, of what arrives meanwhile, what its iterator runs into.
ColourDirect(g) ==
    /\ pc[g] = "direct" /\ ~errors
    /\ \E D \in SUBSET direct :
          /\ D = direct \/ g \in cancelled
          /\ gcs' = gcs \cup D
    /\ \E late \in SUBSET (Blocks \ store) : keys' = store \cup late
    /\ Goto(g, "sweep")
    /\ UNCHANGED <<store, pinVars, treeVars, lk, procVars, cancelled,
                   roots, stream, frontier, errors, base>>

CannotFetchAllLinks(g) == pc[g] = "direct" /\ errors /\ GCReturn(g)

\* Mutant of SweepGoesOn: the sweep does not look at ctx.
SweepRegardless(g) == TRUE

\* The loop condition of the sweep: ctx.Err() == nil.
SweepGoesOn(g) == g \notin cancelled

\* The condition holds; on to the select, which ctx may still end at any time.
SweepLoop(g) ==
    /\ pc[g] = "sweep" /\ SweepGoesOn(g) /\ Goto(g, "receive")
    /\ UNCHANGED <<store, pinVars, treeVars, lk, procVars, cancelled, gcVars>>

\* toRawCids: a key of the blockstore is wanted if any CID coloured has its hash.
Coloured(b) == b \in Hashes(gcs)

\* One key of AllKeysChan: kept if coloured, otherwise deleted; a failed delete
\* is counted and skipped.  (A late key whose block has not come is no key.)
SweepKey(g, b, deletable) ==
    /\ pc[g] = "receive" /\ Goto(g, "sweep")
    /\ b \in keys
    /\ keys' = keys \ {b}
    /\ store' = IF Coloured(b) \/ ~deletable THEN store ELSE store \ {b}
    /\ errors' = IF Coloured(b) \/ deletable THEN errors ELSE TRUE
    /\ UNCHANGED <<pinVars, treeVars, lk, procVars, cancelled,
                   roots, stream, frontier, gcs, base>>

\* The keys are used up or ctx is done; the datastore's own CollectGarbage runs.
SweepEnd(g) ==
    /\ \/ pc[g] = "sweep" /\ ~SweepGoesOn(g)
       \/ pc[g] = "receive" /\ (keys = {} \/ g \in cancelled)
    /\ GCReturn(g)

CollectorStep(g) ==
    \/ GCLocked(g) \/ SnapshotRoots(g) \/ RootsEnd(g)
    \/ \E c \in Cids : NextRoot(g, c) \/ Visit(g, c, TRUE)
    \/ ColourDirect(g) \/ CannotFetchAllLinks(g) \/ SweepLoop(g)
    \/ \E b \in Blocks : SweepKey(g, b, TRUE)
    \/ SweepEnd(g)

CollectorFault(g) ==
    \/ GCCancel(g) \/ SnapshotFails(g) \/ DescendantsFails(g) \/ ColourAbort(g)
    \/ \E c \in Cids : Visit(g, c, FALSE)
    \/ \E b \in Blocks : SweepKey(g, b, FALSE)

-----------------------------------------------------------------------------
(* blockstoreutil.RmBlocks: under GCLock, drop the pinned CIDs, delete the    *)
(* others one by one.                                                         *)

RmStart(p, S) ==
    /\ pc[p] = "idle" /\ GCRequest(p) /\ Goto(p, "rmlock")
    /\ left' = [left EXCEPT ![p] = S]
    /\ UNCHANGED <<store, pinVars, treeVars, job, done, cancelled, gcVars>>

\* CheckIfPinned: directly, recursively, or inside a recursively pinned DAG.
Pinned(c) == c \in direct \cup Desc(recursive)

\* The lock is there; FilterPinned keeps what no pin holds, and nothing at all
\* when the pin check fails, as it does when a pinned DAG has a block missing.
RmFilter(p) ==
    /\ pc[p] = "rmlock" /\ GCAcquire(p) /\ Goto(p, "rm")
    /\ \/ left' = [left EXCEPT ![p] = {}]
       \/ /\ \A r \in recursive : Complete(r, store)
          /\ left' = [left EXCEPT ![p] = {c \in @ : ~Pinned(c)}]
    /\ UNCHANGED <<store, pinVars, treeVars, job, done, cancelled, gcVars>>

\* Mutant of RmBlock: all that is left is deleted in one batch.
RmBatch(p, c, deletable) ==
    /\ pc[p] = "rm" /\ c \in left[p]
    /\ left' = [left EXCEPT ![p] = {}]
    /\ store' = store \ Hashes(left[p])
    /\ UNCHANGED <<pinVars, treeVars, lk, pc, job, done, cancelled, gcVars>>

\* A block that is absent is reported, or with Force deleted to no effect.
RmBlock(p, c, deletable) ==
    /\ pc[p] = "rm" /\ c \in left[p]
    /\ left' = [left EXCEPT ![p] = @ \ {c}]
    /\ store' = IF deletable THEN store \ {Mh[c]} ELSE store
    /\ UNCHANGED <<pinVars, treeVars, lk, pc, job, done, cancelled, gcVars>>

RmEnd(p) ==
    /\ pc[p] = "rm" /\ left[p] = {}
    /\ GCUnlock(p) /\ Goto(p, "idle")
    /\ UNCHANGED <<store, pinVars, treeVars, procVars, cancelled, gcVars>>

RemoverStep(p) ==
    \/ RmFilter(p) \/ RmEnd(p)
    \/ \E c \in Cids, deletable \in BOOLEAN : RmBlock(p, c, deletable)

-----------------------------------------------------------------------------
(* Adder.AddAllAndPin: hold PinLock over the whole add, but let a waiting     *)
(* collector in before each entry, with what is there so far pinned.          *)
(* (PinRoot's Unpin of tempRoot is left out: nothing ever sets tempRoot.)     *)

RootAfter(p, n) == IF n = 0 THEN EmptyDir ELSE Plan[p][n].root
DirsAfter(p, n) == IF n = 0 THEN {EmptyDir} ELSE Plan[p][n].dirs
FilesAfter(p, n) == UNION {Plan[p][i].adds : i \in 1..n}

AddStart(p) ==
    /\ pc[p] = "idle" /\ PinLock(p) /\ Goto(p, "entry")
    /\ UNCHANGED <<store, pinVars, treeVars, procVars, cancelled, gcVars>>

\* PinWithMode(Recursive): a recursive pin replaces a direct one.
PinWithMode(R) ==
    /\ recursive' = recursive \cup R
    /\ direct' = direct \ R

\* Mutants of PinRoot: the partial tree is written but not pinned; it is pinned
\* before its directories are written.
PinRootUnpinned(p) ==
    /\ store' = store \cup Hashes(DirsAfter(p, done[p]) \cup {RootAfter(p, done[p])})
    /\ UNCHANGED pinVars

\* curRootNode and PinRoot: write the directories, pin the root of the tree.
PinRoot(p) ==
    /\ store' = store \cup Hashes(DirsAfter(p, done[p]) \cup {RootAfter(p, done[p])})
    /\ PinWithMode({RootAfter(p, done[p])})

\* addFileNode starts on the next entry.
BeginEntry(p) ==
    /\ Goto(p, "file")
    /\ left' = [left EXCEPT ![p] = Plan[p][done[p] + 1].adds]

\* maybePauseForGC finds nobody waiting.
NoPause(p) ==
    /\ pc[p] = "entry" /\ lk[p] = "pin" /\ done[p] < Len(Plan[p])
    /\ ~GCRequested
    /\ BeginEntry(p)
    /\ UNCHANGED <<store, pinVars, treeVars, lk, job, done, cancelled, gcVars>>

\* maybePauseForGC: pin the partial tree, then let go of the lock ...
Pause(p) ==
    /\ pc[p] = "entry" /\ done[p] < Len(Plan[p])
    /\ GCRequested
    /\ PinRoot(p)
    /\ PinUnlock(p)
    /\ Goto(p, "paused")
    /\ UNCHANGED <<treeVars, procVars, cancelled, gcVars>>

\* ... and take it again.
Resume(p) ==
    /\ pc[p] = "paused" /\ PinLock(p)
    /\ BeginEntry(p)
    /\ UNCHANGED <<store, pinVars, treeVars, job, done, cancelled, gcVars>>

\* One node of the file goes to the DAG service.
AddNode(p, c) ==
    /\ pc[p] = "file" /\ lk[p] = "pin" /\ c \in left[p]
    /\ store' = store \cup {Mh[c]}
    /\ left' = [left EXCEPT ![p] = @ \ {c}]
    /\ UNCHANGED <<pinVars, treeVars, lk, pc, job, done, cancelled, gcVars>>

\* The file is linked into the tree.
EntryDone(p) ==
    /\ pc[p] = "file" /\ lk[p] = "pin" /\ left[p] = {}
    /\ done' = [done EXCEPT ![p] = @ + 1]
    /\ Goto(p, "entry")
    /\ UNCHANGED <<store, pinVars, treeVars, lk, job, left, cancelled, gcVars>>

\* The tree is flushed, its root pinned, the lock released.
AddFinish(p) ==
    /\ pc[p] = "entry" /\ done[p] = Len(Plan[p])
    /\ PinRoot(p)
    /\ PinUnlock(p) /\ Goto(p, "idle")
    /\ done' = [done EXCEPT ![p] = 0]
    /\ UNCHANGED <<treeVars, job, left, cancelled, gcVars>>

\* Any error ends the add; the deferred Unlock runs, pins stay as they are.
AddFail(p) ==
    /\ pc[p] \in {"entry", "file"}
    /\ PinUnlock(p) /\ Goto(p, "idle")
    /\ left' = [left EXCEPT ![p] = {}]
    /\ done' = [done EXCEPT ![p] = 0]
    /\ UNCHANGED <<store, pinVars, treeVars, job, cancelled, gcVars>>

AdderStep(p) ==
    \/ NoPause(p) \/ Pause(p) \/ Resume(p)
    \/ \E c \in Cids : AddNode(p, c)
    \/ EntryDone(p) \/ AddFinish(p)

-----------------------------------------------------------------------------
(* The short operations under PinLock: pin add/rm/update, block put and dag   *)
(* put with pinning, dag import with --pin-roots, the `ipfs files` commands,  *)
(* `ipfs add --to-files`, the namespace operations of a FUSE mount.           *)

\* PinAPI.Add resolves (and so fetches) the node before it takes the lock.
ResolvedFirst(j) == IF j.kind \in {"pin", "direct", "update"} THEN j.pins ELSE {}

Begin(p, j) ==
    /\ pc[p] = "idle" /\ PinLock(p) /\ Goto(p, "work")
    /\ j.kind = "mfs" => j.at \in registered
    /\ job' = [job EXCEPT ![p] = j]
    /\ left' = [left EXCEPT ![p] = j.adds]
    /\ store' = store \cup Hashes(ResolvedFirst(j))
    /\ UNCHANGED <<pinVars, treeVars, done, cancelled, gcVars>>

Write(p, c) ==
    /\ pc[p] = "work" /\ lk[p] = "pin" /\ c \in left[p]
    /\ store' = store \cup {Mh[c]}
    /\ left' = [left EXCEPT ![p] = @ \ {c}]
    /\ UNCHANGED <<pinVars, treeVars, lk, pc, job, done, cancelled, gcVars>>

Committing(p, kind) == pc[p] = "work" /\ job[p].kind = kind /\ left[p] = {}

\* The handler returns and its deferred Unlock runs.
Return(p) ==
    /\ PinUnlock(p) /\ Goto(p, "idle")
    /\ job' = [job EXCEPT ![p] = NoJob]
    /\ left' = [left EXCEPT ![p] = {}]
    /\ UNCHANGED <<done, cancelled, gcVars>>

\* Pinner.Pin walks the DAG to its leaves before it records the pin; an import
\* pins whichever of its roots it can.
CommitPin(p) ==
    /\ Committing(p, "pin")
    /\ \E R \in SUBSET {c \in job[p].pins : Complete(c, store)} : PinWithMode(R)
    /\ Return(p) /\ UNCHANGED <<store, treeVars>>

\* block put and dag put pin what they wrote without a look at its links; an
\* error in the middle keeps the pins made before it.
CommitPinMode(p) ==
    /\ Committing(p, "pinmode")
    /\ \E R \in SUBSET job[p].pins : PinWithMode(R)
    /\ Return(p) /\ UNCHANGED <<store, treeVars>>

\* A direct pin is refused where a recursive one stands.
CommitDirect(p) ==
    /\ Committing(p, "direct")
    /\ direct' = direct \cup (job[p].pins \ recursive)
    /\ Return(p) /\ UNCHANGED <<store, recursive, treeVars>>

CommitUnpin(p) ==
    /\ Committing(p, "unpin")
    /\ recursive' = recursive \ job[p].pins
    /\ direct' = direct \ job[p].pins
    /\ Return(p) /\ UNCHANGED <<store, treeVars>>

\* Pinner.Update: from must be pinned; only what it does not share with the new
\* root is walked.
CommitUpdate(p) ==
    /\ Committing(p, "update")
    /\ job[p].from \in recursive
    /\ Hashes(Desc(job[p].pins) \ Desc({job[p].from})) \subseteq store
    /\ recursive' = (recursive \ (IF job[p].unpin THEN {job[p].from} ELSE {}))
                       \cup job[p].pins
    /\ direct' = direct \ job[p].pins
    /\ Return(p) /\ UNCHANGED <<store, treeVars>>

\* The mutation is linked into the tree and flushed up to its root.  The new
\* tree is made of the current one and of what the operation wrote or linked.
CommitMfs(p) ==
    /\ Committing(p, "mfs")
    /\ Desc(job[p].pins) \subseteq Desc({tree[job[p].at]}) \cup job[p].adds \cup job[p].lazy
    /\ \E r \in job[p].pins : tree' = [tree EXCEPT ![job[p].at] = r]
    /\ Return(p) /\ UNCHANGED <<store, pinVars, registered>>

\* The operation fails part-way and returns with the lock released.
Abandon(p) == pc[p] = "work" /\ Return(p) /\ UNCHANGED <<store, pinVars, treeVars>>

ClientStep(p) ==
    \/ \E c \in Cids : Write(p, c)
    \/ CommitPin(p) \/ CommitPinMode(p) \/ CommitDirect(p) \/ CommitUnpin(p)
    \/ CommitUpdate(p) \/ CommitMfs(p) \/ Abandon(p)

-----------------------------------------------------------------------------
\* A block arrives with no lock held: fetched by bitswap, or added unpinned.
Fetch(c) ==
    /\ store' = store \cup {Mh[c]}
    /\ UNCHANGED <<pinVars, treeVars, lk, pc, procVars, cancelled, gcVars>>

\* RegisterMFSRoot: a writable /ipns mount comes up on the tree it loaded.
RegisterMFSRoot(t) ==
    /\ t \notin registered
    /\ registered' = registered \cup {t}
    /\ UNCHANGED <<store, pinVars, tree, lk, pc, procVars, cancelled, gcVars>>

\* UnregisterMFSRoot: the mount is gone, and with it its handlers.
UnregisterMFSRoot(t) ==
    /\ t \in registered \ {FilesRoot}
    /\ \A p \in Clients : pc[p] = "work" /\ job[p].kind = "mfs" => job[p].at # t
    /\ registered' = registered \ {t}
    /\ UNCHANGED <<store, pinVars, tree, lk, pc, procVars, cancelled, gcVars>>

Next ==
    \/ \E g \in Collectors : GCStart(g) \/ CollectorStep(g) \/ CollectorFault(g)
    \/ \E p \in Collectors \cup Removers : Announce(p)
    \/ \E p \in Removers : RemoverStep(p) \/ \E S \in RmTargets : RmStart(p, S)
    \/ \E p \in Adders : AddStart(p) \/ AdderStep(p) \/ AddFail(p)
    \/ \E p \in Clients : ClientStep(p) \/ \E j \in Jobs : Begin(p, j)
    \/ \E c \in Fetchable : Fetch(c)
    \/ \E t \in Trees : RegisterMFSRoot(t) \/ UnregisterMFSRoot(t)

Spec == Init /\ [][Next]_vars

\* Each process goes on with what it has begun, and a GCLock that waits for
\* another writer gets its turn (Go's Mutex hands over to a starving waiter).
Fairness ==
    /\ \A g \in Collectors : WF_vars(CollectorStep(g))
    /\ \A p \in Collectors \cup Removers : SF_vars(Announce(p))
    /\ \A p \in Removers : WF_vars(RemoverStep(p))
    /\ \A p \in Adders : WF_vars(AdderStep(p))
    /\ \A p \in Clients : WF_vars(ClientStep(p))

FairSpec == Spec /\ Fairness

-----------------------------------------------------------------------------
(* Properties.                                                                *)

TypeOK ==
    /\ LockTypeOK
    /\ store \subseteq Blocks /\ base \subseteq Blocks /\ keys \subseteq Blocks
    /\ recursive \subseteq Cids /\ direct \subseteq Cids
    /\ tree \in [Trees -> Cids] /\ registered \subseteq Trees
    /\ pc \in [Procs -> {"idle", "lock", "roots", "recursive", "besteffort", "direct",
                         "sweep", "receive", "rmlock", "rm", "entry", "file", "paused", "work"}]
    /\ job \in [Procs -> Jobs \cup {NoJob}]
    /\ left \in [Procs -> SUBSET Cids]
    /\ done \in [Procs -> Nat]
    /\ \A p \in Adders : done[p] <= Len(Plan[p])
    /\ \A p \in Adders : pc[p] \in {"file", "paused"} => done[p] < Len(Plan[p])
    /\ cancelled \subseteq Collectors
    /\ roots \subseteq Cids /\ stream \subseteq Cids
    /\ frontier \subseteq Cids /\ gcs \subseteq Cids
    /\ errors \in BOOLEAN

Sweeping(g) == pc[g] \in {"sweep", "receive"}

\* What a collection has to keep: everything under the recursive pins and the
\* snapshot of the MFS roots that can be reached through the blocks there when
\* it got the lock, and the direct pins.
Wanted == Reach(recursive \cup roots, base) \cup direct

\* While a collector sweeps, every wanted block that was there is still there,
\* whatever arrives meanwhile and whenever its context ends.
GCKeepsWanted ==
    \A g \in Collectors : Sweeping(g) => Hashes(Wanted) \cap base \subseteq store

\* No step, of a collector or of `block rm`, deletes a block of a pinned DAG,
\* nor one pinned directly, even if other blocks of the DAG are missing.
PinnedNeverDeleted ==
    [][(store \ store') \cap Hashes(Desc(recursive) \cup direct) = {}]_vars

\* The sweep spares nothing but what some root asks for: what is coloured hangs
\* under a recursive pin or an MFS root, or is pinned directly; the children of
\* a direct pin and the leftovers of failed operations are not coloured.
GCSparesNoGarbage ==
    \A g \in Collectors : Sweeping(g) => gcs \subseteq Desc(recursive \cup roots) \cup direct

\* A collection deletes nothing that is wanted and spares nothing that is not.
GCExact == GCKeepsWanted /\ GCSparesNoGarbage

\* What adder p has written so far.
AddedSoFar(p) ==
    FilesAfter(p, done[p])
      \cup (IF pc[p] = "file" THEN Plan[p][done[p] + 1].adds \ left[p] ELSE {})

\* An add keeps every block it wrote until it is over, through each pause that
\* lets a collector or a `block rm` in.
AddedKept == \A p \in Adders : pc[p] # "idle" => Hashes(AddedSoFar(p)) \subseteq store

\* An operation under PinLock finds every block it wrote when it commits.
WritesKept ==
    \A p \in Clients : pc[p] = "work" => Hashes(job[p].adds \ left[p]) \subseteq store

\* A pinned add that succeeds leaves the whole DAG of the root it pinned.
AddIsComplete ==
    [][\A p \in Adders : AddFinish(p) => Complete(RootAfter(p, done[p]), store')]_vars

\* The MFS keeps its files: whatever hangs under FilesRoot, but for what was
\* linked lazily, is in the blockstore, at all times.
LazyCids == Desc(UNION {j.lazy : j \in Jobs})
FilesKept == Hashes(Below[tree[FilesRoot]] \ LazyCids) \subseteq store

\* A process that is not inside an operation holds no lock and waits for none,
\* on every way out of every handler.
IdleIsUnlocked == \A p \in Procs : pc[p] = "idle" <=> lk[p] = "free" /\ pc[p] # "paused"

\* Whoever waits for the lock gets it: a collection or a `block rm`, because the
\* holders of PinLock let go and newcomers queue behind it, and a PinLock behind
\* a collector, because the collection ends.
LocksGranted ==
    /\ \A p \in Collectors \cup Removers : pc[p] \in {"lock", "rmlock"} ~> lk[p] = "gc"
    /\ \A p \in Adders \cup Clients : lk[p] = "blocked" ~> lk[p] = "pin"
-----------------------------------------------------------------------------
(* Refinement *)

\* The abstract store sees the blocks and the pins; processes and locks are hidden.
PS == INSTANCE PinnedStore WITH
        Cids <- Cids, Blocks <- Blocks, Links <- Links, Mh <- Mh,
        store <- store, recursive <- recursive, direct <- direct

\* Every behaviour of the repo is one of PinnedStore: with the collectors, the
\* removers and the adders hidden, blocks go one at a time and never while a
\* pin holds them.
ImplementsPinnedStore == PS!PSSpec

\* `block rm` is called with CIDs whose block no other CID names: the pin check
\* compares CIDs, the blockstore deletes by hash.
OneCodec == \A S \in RmTargets : \A c \in S, d \in Cids : Mh[c] = Mh[d] => c = d

-----------------------------------------------------------------------------
(* The inductive invariant behind the safety properties: how the program       *)
(* counters go with the lock, and what the collector knows in each phase.      *)

\* At most one writer has announced itself or is inside; then no reader is.
LockInv ==
    \A p, q \in Procs :
      /\ lk[p] \in {"announced", "gc"} /\ lk[q] \in {"announced", "gc"} => p = q
      /\ lk[p] = "gc" => lk[q] # "pin"

Marking == {"recursive", "besteffort", "direct"}
UnderLock == {"roots", "sweep", "receive"} \cup Marking

PcInv ==
    /\ \A g \in Collectors :
         \/ pc[g] = "idle" /\ lk[g] = "free"
         \/ pc[g] = "lock" /\ lk[g] \in {"requested", "announced"}
         \/ pc[g] \in UnderLock /\ lk[g] = "gc"
    /\ \A p \in Removers :
         \/ pc[p] = "idle" /\ lk[p] = "free"
         \/ pc[p] = "rmlock" /\ lk[p] \in {"requested", "announced"}
         \/ pc[p] = "rm" /\ lk[p] = "gc"
    /\ \A p \in Adders :
         \/ pc[p] \in {"idle", "paused"} /\ lk[p] = "free"
         \/ pc[p] \in {"entry", "file"} /\ lk[p] \in {"pin", "blocked"}
    /\ \A p \in Clients :
         \/ pc[p] = "idle" /\ lk[p] = "free"
         \/ pc[p] = "work" /\ lk[p] \in {"pin", "blocked"} /\ job[p] \in Jobs

\* Nothing is deleted before the sweep.
BaseInv(g) == pc[g] \in {"roots"} \cup Marking => base \subseteq store

\* The first walk: unless an error was counted, what is coloured is there and
\* its links are coloured or next, and no pin has been passed over.
RecursiveInv(g) ==
    pc[g] = "recursive" /\ ~errors =>
      /\ \A c \in gcs : Mh[c] \in store /\ Links[c] \subseteq gcs \cup frontier
      /\ g \in cancelled \/ recursive \subseteq gcs \cup frontier \cup stream

\* The second walk: blocks that were never there end it, the others do not.
BestEffortInv(g) ==
    pc[g] = "besteffort" /\ ~errors =>
      /\ \A c \in gcs : Mh[c] \in base => Links[c] \subseteq gcs \cup frontier
      /\ \/ g \in cancelled
         \/ /\ recursive \cup Desc(recursive) \subseteq gcs
            /\ roots \subseteq gcs \cup frontier \cup stream

\* After the walks: everything wanted is coloured, or ctx is done.
Full == Desc(recursive) \cup Reach(recursive \cup roots, base)

DirectInv(g) ==
    pc[g] = "direct" /\ ~errors /\ g \notin cancelled => Full \subseteq gcs

SweepInv(g) ==
    Sweeping(g) =>
      /\ (pc[g] = "sweep" /\ g \in cancelled) \/ Full \cup direct \subseteq gcs
      /\ Hashes(Wanted) \cap base \subseteq store

CollectorInv ==
    \A g \in Collectors :
      BaseInv(g) /\ RecursiveInv(g) /\ BestEffortInv(g) /\ DirectInv(g) /\ SweepInv(g)

\* What `block rm` still has to delete is held by no pin.
RemoverInv ==
    \A p \in Removers :
      /\ pc[p] = "rmlock" => left[p] \in RmTargets
      /\ pc[p] = "rm" => Hashes(left[p]) \cap Hashes(Desc(recursive) \cup direct) = {}

\* A client that waits for the lock has written nothing yet.
ClientInv ==
    \A p \in Clients :
      pc[p] = "work" /\ lk[p] = "blocked" => left[p] = job[p].adds

IInv == TypeOK /\ LockInv /\ PcInv /\ CollectorInv /\ ClientInv /\ WritesKept

\* The same with `block rm` told apart by CID, see OneCodec.
RInv == IInv /\ RemoverInv

-----------------------------------------------------------------------------
\* The add's tree holds the files added so far, and nothing but them and its
\* directories.
PlanIsTree ==
    \A p \in Adders : \A n \in 0..Len(Plan[p]) :
      /\ FilesAfter(p, n) \subseteq Below[RootAfter(p, n)]
      /\ Below[RootAfter(p, n)] \subseteq
           FilesAfter(p, n) \cup DirsAfter(p, n) \cup {RootAfter(p, n)}

\* No client unpins a root that an add may pause on.
NoTempUnpin ==
    \A p \in Adders : \A n \in 0..Len(Plan[p]) : \A j \in Jobs :
      /\ j.kind = "unpin" => RootAfter(p, n) \notin j.pins
      /\ j.kind = "update" => RootAfter(p, n) # j.from

\* While an adder is without the lock, the tree it has built so far is pinned.
AdderInv ==
    \A p \in Adders :
      /\ pc[p] = "idle" => done[p] = 0
      /\ pc[p] = "entry" /\ lk[p] = "blocked" => done[p] = 0
      /\ pc[p] = "file" /\ lk[p] = "blocked" => left[p] = Plan[p][done[p] + 1].adds
      /\ pc[p] = "paused" \/ (pc[p] = "file" /\ lk[p] = "blocked") =>
           RootAfter(p, done[p]) \in recursive

AInv == RInv /\ AdderInv /\ AddedKept
-----------------------------------------------------------------------------
\* What may ever hang under FilesRoot, but for what is linked lazily.
FilesCids == Below[InitTree[FilesRoot]] \cup UNION {j.adds : j \in Jobs}

\* The node starts with the files of its tree.
FilesStored == Hashes(Below[InitTree[FilesRoot]] \ LazyCids) \subseteq InitStore

\* `block rm` is called with no block of the files: it looks at the pins alone.
RmSparesFiles == \A S \in RmTargets : Hashes(S) \cap Hashes(FilesCids) = {}

Files == Below[tree[FilesRoot]] \ LazyCids

\* The files were there when a collector got the lock, it has their root in its
\* snapshot, and nothing that waits to be deleted by `block rm` is one of them.
FilesInv ==
    /\ FilesRoot \in registered
    /\ Files \subseteq FilesCids
    /\ Hashes(Files) \subseteq store
    /\ \A g \in Collectors :
         /\ pc[g] \in UnderLock => Hashes(Files) \subseteq base
         /\ pc[g] \in UnderLock \ {"roots"} => tree[FilesRoot] \in roots
    /\ \A p \in Removers :
         pc[p] \in {"rmlock", "rm"} => Hashes(left[p]) \cap Hashes(FilesCids) = {}

FInv == IInv /\ FilesInv
-----------------------------------------------------------------------------
\* What some root asks for.
Asked == Desc(recursive \cup roots)

\* The walks start at the roots and follow links: they never leave what the
\* roots ask for.
ColourInv ==
    \A g \in Collectors :
      /\ pc[g] \in Marking => stream \subseteq recursive \cup roots /\ gcs \cup frontier \subseteq Asked
      /\ Sweeping(g) => gcs \subseteq Asked \cup direct
=============================================================================
