---------------------------- MODULE RepoGCProofs ----------------------------
(***************************************************************************)
(* Garbage collection against adds, pins, removals and MFS, for any number of*)
(* processes and any graph of blocks: what each process may rely on under  *)
(* the lock, and what the blockstore promises its users: no pinned block   *)
(* goes, the repo implements PinnedStore, a pinned add ends with its whole *)
(* DAG in the blockstore, the files of MFS outlive every collection, and a *)
(* collection spares nothing that nobody asked for.                        *)
(***************************************************************************)
EXTENDS RepoGC, TLAPS

-----------------------------------------------------------------------------
(* The graph.                                                                 *)

\* A closed set that holds the roots holds all a walk from them sees.
LEMMA ReachLeast ==
    ASSUME NEW R, NEW st, NEW S \in SUBSET Cids, R \subseteq S, ClosedIn(S, st)
    PROVE  Reach(R, st) \subseteq S
BY Zenon DEF Reach

\* Likewise for the whole DAG under the roots.
LEMMA DescLeast ==
    ASSUME NEW R \in SUBSET Cids, NEW S \in SUBSET Cids, R \subseteq S,
           \A c \in S : Links[c] \subseteq S
    PROVE  Desc(R) \subseteq S
<1>1. ASSUME NEW c \in R PROVE Below[c] \subseteq S
  <2>1. {c} \subseteq S /\ ClosedIn(S, Blocks)
    BY Zenon DEF ClosedIn
  <2>2. Reach({c}, Blocks) \subseteq S
    BY <2>1, ReachLeast, Zenon
  <2> QED BY <2>2, Zenon DEF Below
<1> QED BY <1>1, Zenon DEF Desc

LEMMA DescType ==
    ASSUME NEW R \in SUBSET Cids
    PROVE  Desc(R) \in SUBSET Cids
BY Zenon DEF Desc, Below, Reach

-----------------------------------------------------------------------------
(* Types.                                                                     *)

LEMMA PlanLength == \A p \in Adders : p \in Procs /\ Len(Plan[p]) \in Nat
<1>1. TAKE p \in Adders
<1>2. Plan[p] \in Seq(Entry)
  BY SystemAssumption, Zenon
<1> QED BY <1>2, SystemAssumption

LEMMA RootType ==
    ASSUME NEW p \in Adders, NEW n \in 0..Len(Plan[p])
    PROVE  RootAfter(p, n) \in Cids /\ DirsAfter(p, n) \subseteq Cids
<1>1. ASSUME n # 0 PROVE Plan[p][n] \in Entry
  BY <1>1, SystemAssumption
<1> QED BY <1>1, SystemAssumption, ZenonT(60) DEF RootAfter, DirsAfter, Entry

LEMMA TypeStep == TypeOK /\ [Next]_vars => TypeOK'
<1> SUFFICES ASSUME TypeOK, [Next]_vars PROVE TypeOK'
  BY Zenon
<1>a. ASSUME NEW p \in Adders
      PROVE  /\ done[p] \in 0..Len(Plan[p])
             /\ done[p] < Len(Plan[p]) => Plan[p][done[p] + 1] \in Entry
  <2>1. done[p] \in Nat /\ done[p] <= Len(Plan[p]) /\ Len(Plan[p]) \in Nat
    BY PlanLength, Zenon DEF TypeOK
  <2>2. Plan[p] \in Seq(Entry)
    BY SystemAssumption, Zenon
  <2>3. ASSUME NEW n \in Nat, n < Len(Plan[p]) PROVE Plan[p][n + 1] \in Entry
    BY <2>2, <2>3
  <2>4. done[p] \in 0..Len(Plan[p])
    BY <2>1
  <2> QED BY <2>1, <2>3, <2>4, Zenon
<1> USE DagAssumption, SystemAssumption
<1> USE DEF TypeOK, LockTypeOK, LockStates, Goto, pinVars, treeVars, procVars, gcVars
<1>1. CASE UNCHANGED vars
  BY <1>1, Zenon DEF vars
<1>2. ASSUME NEW g \in Collectors, GCStart(g) \/ CollectorStep(g) \/ CollectorFault(g)
      PROVE  TypeOK'
  <2>1. CASE GCStart(g)
    BY <2>1, Zenon DEF GCStart, GCRequest
  <2>2. CASE GCCancel(g)
    BY <2>2, Zenon DEF GCCancel
  <2>3. CASE GCLocked(g)
    BY <2>3, Zenon DEF GCLocked, GCAcquire
  <2>4. CASE SnapshotRoots(g)
    <3>1. PICK skipped \in SUBSET (Unreadable \ {FilesRoot}) :
             roots' = {tree[t] : t \in registered \ skipped}
      BY <2>4, Zenon DEF SnapshotRoots
    <3>2. roots' \subseteq Cids
      BY <3>1
    <3> QED BY <2>4, <3>2, Zenon DEF SnapshotRoots
  <2>5. CASE RootsEnd(g) \/ DescendantsFails(g)
    <3>1. stream' \subseteq Cids /\ frontier' \subseteq Cids /\ errors' \in BOOLEAN
      BY <2>5, Zenon DEF RootsEnd, DescendantsFails, NextPhase
    <3>2. \E l \in {"besteffort", "direct"} : pc' = [pc EXCEPT ![g] = l]
      BY <2>5, Zenon DEF RootsEnd, DescendantsFails, NextPhase
    <3> QED BY <2>5, <3>1, <3>2, ZenonT(60) DEF RootsEnd, DescendantsFails
  <2>6. CASE \E c \in Cids : NextRoot(g, c)
    BY <2>6, Zenon DEF NextRoot
  <2>7. CASE \E c \in Cids : Visit(g, c, TRUE) \/ Visit(g, c, FALSE)
    <3>1. PICK c \in Cids : Visit(g, c, TRUE) \/ Visit(g, c, FALSE)
      BY <2>7, Zenon
    <3>2. gcs' \subseteq Cids /\ frontier' \subseteq Cids
      <4>1. Links[c] \subseteq Cids
        BY Zenon
      <4>2. gcs' \subseteq Cids
        BY <3>1, ZenonT(60) DEF Visit
      <4>3. CASE frontier' = (frontier \cup Links[c]) \ gcs'
        BY <4>1, <4>2, <4>3, Zenon
      <4>4. CASE frontier' = frontier \ {c}
        BY <4>2, <4>4, Zenon
      <4> QED BY <3>1, <4>2, <4>3, <4>4, Zenon DEF Visit
    <3>3. errors' \in BOOLEAN
      BY <3>1, Zenon DEF Visit
    <3> QED BY <3>1, <3>2, <3>3, Zenon DEF Visit
  <2>8. CASE ColourDirect(g)
    BY <2>8, Zenon DEF ColourDirect
  <2>9. CASE \E b \in Blocks : SweepKey(g, b, TRUE) \/ SweepKey(g, b, FALSE)
    BY <2>9, ZenonT(60) DEF SweepKey, Coloured
  <2>10. CASE GCReturn(g)
    BY <2>10, Zenon DEF GCReturn, GCUnlock
  <2>11. CASE SweepLoop(g)
    BY <2>11, Zenon DEF SweepLoop
  <2> HIDE DEF TypeOK, LockTypeOK, Goto
  <2> HIDE DagAssumption, SystemAssumption
  <2> QED
    BY <1>2, <2>1, <2>2, <2>3, <2>4, <2>5, <2>6, <2>7, <2>8, <2>9, <2>10, <2>11, Zenon
    DEF CollectorStep, CollectorFault, SnapshotFails, ColourAbort, CannotFetchAllLinks, SweepEnd
<1>3. ASSUME NEW p \in Collectors \cup Removers, Announce(p)
      PROVE  TypeOK'
  BY <1>3, Zenon DEF Announce, GCAnnounce
<1>4. ASSUME NEW p \in Removers, RemoverStep(p) \/ \E S \in RmTargets : RmStart(p, S)
      PROVE  TypeOK'
  <2>1. CASE \E S \in RmTargets : RmStart(p, S)
    BY <2>1, SMTT(60) DEF RmStart, GCRequest
  <2>2. CASE RmFilter(p)
    BY <2>2, SMTT(60) DEF RmFilter, GCAcquire
  <2>3. CASE RmEnd(p)
    BY <2>3, Zenon DEF RmEnd, GCUnlock
  <2>4. ASSUME NEW c \in Cids, NEW d \in BOOLEAN, RmBlock(p, c, d)
        PROVE  TypeOK'
    <3>1. store' \subseteq store
      BY <2>4, Zenon DEF RmBlock
    <3> QED BY <2>4, <3>1, Zenon DEF RmBlock
  <2> QED BY <1>4, <2>1, <2>2, <2>3, <2>4, Zenon DEF RemoverStep
<1>5. ASSUME NEW p \in Adders, AddStart(p) \/ AdderStep(p) \/ AddFail(p)
      PROVE  TypeOK'
  <2>1. CASE AddStart(p)
    BY <2>1, Zenon DEF AddStart, PinLock
  <2>2. ASSUME PinRoot(p)
        PROVE  store' \subseteq Blocks /\ recursive' \subseteq Cids /\ direct' \subseteq Cids
    <3>1. done[p] \in 0..Len(Plan[p])
      BY <1>a, Zenon
    <3>2. RootAfter(p, done[p]) \in Cids /\ DirsAfter(p, done[p]) \subseteq Cids
      BY <3>1, RootType, Zenon
    <3> QED BY <2>2, <3>2, SMTT(60) DEF PinRoot, PinWithMode, Hashes
  <2>3. ASSUME done[p] < Len(Plan[p])
        PROVE  Plan[p][done[p] + 1].adds \in SUBSET Cids
    BY <1>a, <2>3, Zenon DEF Entry
  <2>4. CASE NoPause(p)
    BY <2>4, <2>3, Zenon DEF NoPause, BeginEntry
  <2>5. CASE Pause(p)
    BY <2>5, <2>2, Zenon DEF Pause, PinUnlock
  <2>6. CASE Resume(p)
    <3>1. done[p] < Len(Plan[p]) /\ UNCHANGED done
      BY <2>6, Zenon DEF Resume
    <3>2. left' \in [Procs -> SUBSET Cids]
      BY <2>6, <2>3, <3>1, Zenon DEF Resume, BeginEntry
    <3>3. lk' \in [Procs -> LockStates] /\ pc' = [pc EXCEPT ![p] = "file"]
      BY <2>6, Zenon DEF Resume, BeginEntry, PinLock
    <3> QED BY <2>6, <3>1, <3>2, <3>3, Zenon DEF Resume
  <2>7. CASE \E c \in Cids : AddNode(p, c)
    BY <2>7, SMTT(60) DEF AddNode
  <2>8. CASE EntryDone(p)
    BY <2>8, SMTT(60) DEF EntryDone
  <2>9. CASE AddFinish(p)
    BY <2>9, <2>2, SMTT(60) DEF AddFinish, PinUnlock
  <2>10. CASE AddFail(p)
    BY <2>10 DEF AddFail, PinUnlock
  <2> HIDE DEF TypeOK, LockTypeOK, Goto
  <2> HIDE DagAssumption, SystemAssumption
  <2> QED
    BY <1>5, <2>1, <2>4, <2>5, <2>6, <2>7, <2>8, <2>9, <2>10, Zenon DEF AdderStep
<1>6. ASSUME NEW p \in Clients, ClientStep(p) \/ \E j \in Jobs : Begin(p, j)
      PROVE  TypeOK'
  <2>1. ASSUME NEW j \in Jobs PROVE j \in Job
    BY Zenon
  <2>2. ASSUME NEW j \in Jobs, Begin(p, j) PROVE TypeOK'
    <3>1. j.adds \subseteq Cids /\ j.pins \subseteq Cids
      BY <2>1, Zenon DEF Job
    <3> QED BY <2>2, <3>1, SMTT(60) DEF Begin, PinLock, Hashes, ResolvedFirst
  <2>3. CASE \E c \in Cids : Write(p, c)
    BY <2>3, SMTT(60) DEF Write
  <2>4. ASSUME Return(p),
               store' \subseteq Blocks /\ recursive' \subseteq Cids /\ direct' \subseteq Cids,
               tree' \in [Trees -> Cids] /\ registered' \subseteq Trees
        PROVE  TypeOK'
    BY <2>4, Zenon DEF Return, PinUnlock
  <2>5. ASSUME NEW k, Committing(p, k), k # "none"
        PROVE  /\ job[p].pins \subseteq Cids /\ job[p].at \in Trees
               /\ pc[p] = "work" /\ job[p].kind = k /\ left[p] = {}
    <3>1. job[p] \in Jobs
      BY <2>5, SMTT(60) DEF Committing, NoJob
    <3> QED BY <2>1, <2>5, <3>1, Zenon DEF Committing, Job
  <2>6. CASE CommitPin(p) \/ CommitPinMode(p)
    <3>1. PICK R \in SUBSET job[p].pins : PinWithMode(R)
      BY <2>6, Zenon DEF CommitPin, CommitPinMode
    <3>2. job[p].pins \subseteq Cids
      BY <2>5, <2>6, ZenonT(60) DEF CommitPin, CommitPinMode
    <3> QED BY <2>4, <2>6, <3>1, <3>2, Zenon DEF CommitPin, CommitPinMode, PinWithMode
  <2>7. CASE CommitDirect(p)
    BY <2>4, <2>5, <2>7, ZenonT(60) DEF CommitDirect
  <2>8. CASE CommitUnpin(p)
    BY <2>4, <2>5, <2>8, Zenon DEF CommitUnpin
  <2>9. CASE CommitUpdate(p)
    <3>1. job[p].pins \subseteq Cids
      BY <2>5, <2>9, Zenon DEF CommitUpdate
    <3> QED BY <2>4, <2>9, <3>1, Zenon DEF CommitUpdate
  <2>10. CASE CommitMfs(p)
    <3>1. job[p].pins \subseteq Cids /\ job[p].at \in Trees
      BY <2>5, <2>10, ZenonT(60) DEF CommitMfs
    <3>2. PICK r \in job[p].pins : tree' = [tree EXCEPT ![job[p].at] = r]
      BY <2>10, ZenonT(60) DEF CommitMfs
    <3>3. tree' \in [Trees -> Cids]
      BY <3>1, <3>2, Zenon
    <3>4. Return(p) /\ UNCHANGED <<store, recursive, direct, registered>>
      BY <2>10, ZenonT(60) DEF CommitMfs
    <3> QED BY <2>4, <3>3, <3>4, ZenonT(60)
  <2>11. CASE Abandon(p)
    BY <2>4, <2>11, ZenonT(60) DEF Abandon
  <2> HIDE DEF TypeOK, LockTypeOK, Goto
  <2> HIDE DagAssumption, SystemAssumption
  <2> QED
    BY <1>6, <2>2, <2>3, <2>6, <2>7, <2>8, <2>9, <2>10, <2>11, Zenon DEF ClientStep
<1>7. CASE \E c \in Fetchable : Fetch(c)
  BY <1>7, SMTT(60) DEF Fetch
<1>8. CASE \E t \in Trees : RegisterMFSRoot(t) \/ UnregisterMFSRoot(t)
  BY <1>8, Zenon DEF RegisterMFSRoot, UnregisterMFSRoot
<1> HIDE DEF TypeOK, LockTypeOK, Goto
<1> HIDE DagAssumption, SystemAssumption
<1> QED
  BY <1>1, <1>2, <1>3, <1>4, <1>5, <1>6, <1>7, <1>8, Zenon DEF Next

-----------------------------------------------------------------------------
(* The lock.                                                                  *)

\* What one process does to the lock.
LockStep(p) ==
    \/ PinLock(p) \/ PinUnlock(p) \/ GCRequest(p)
    \/ GCAnnounce(p) \/ GCAcquire(p) \/ GCUnlock(p)

\* A step of p leaves the control state of the others alone, but for the blocked
\* readers that a release of the lock lets in.
Frame(p) ==
    \A q \in Procs \ {p} :
      /\ pc'[q] = pc[q] /\ job'[q] = job[q] /\ left'[q] = left[q] /\ done'[q] = done[q]
      /\ lk'[q] = lk[q] \/ (lk[q] = "blocked" /\ lk'[q] = "pin")

LEMMA LockStepFrame ==
    ASSUME LockTypeOK, NEW p \in Procs, LockStep(p), NEW q \in Procs, q # p
    PROVE  lk'[q] = lk[q] \/ (lk[q] = "blocked" /\ lk'[q] = "pin")
BY Zenon DEF LockTypeOK, LockStates, LockStep, PinLock, PinUnlock, GCRequest, GCAnnounce,
       GCAcquire, GCUnlock

LEMMA CollectorFrame ==
    ASSUME TypeOK, NEW g \in Collectors,
           GCStart(g) \/ CollectorStep(g) \/ CollectorFault(g) \/ Announce(g)
    PROVE  Frame(g) /\ (UNCHANGED lk \/ LockStep(g)) /\ UNCHANGED procVars
<1> USE DEF procVars
<1>0. g \in Procs /\ LockTypeOK
  BY SystemAssumption, Zenon DEF TypeOK
<1>1. UNCHANGED lk \/ LockStep(g)
  BY ZenonT(60) DEF GCStart, CollectorStep, CollectorFault, Announce, GCCancel, GCLocked,
         SnapshotRoots, SnapshotFails, NextRoot, Visit, RootsEnd, DescendantsFails,
         ColourAbort, ColourDirect, CannotFetchAllLinks, SweepLoop, SweepKey, SweepEnd, GCReturn, LockStep
<1>2. UNCHANGED pc \/ \E l : Goto(g, l)
  BY ZenonT(60) DEF GCStart, CollectorStep, CollectorFault, Announce, GCCancel, GCLocked,
         SnapshotRoots, SnapshotFails, NextRoot, Visit, RootsEnd, DescendantsFails, NextPhase,
         ColourAbort, ColourDirect, CannotFetchAllLinks, SweepLoop, SweepKey, SweepEnd, GCReturn
<1>3. UNCHANGED procVars
  BY Zenon DEF GCStart, CollectorStep, CollectorFault, Announce, GCCancel, GCLocked,
         SnapshotRoots, SnapshotFails, NextRoot, Visit, RootsEnd, DescendantsFails,
         ColourAbort, ColourDirect, CannotFetchAllLinks, SweepLoop, SweepKey, SweepEnd, GCReturn
<1>4. ASSUME NEW q \in Procs, q # g PROVE pc'[q] = pc[q]
  BY <1>0, <1>2, <1>4, Zenon DEF Goto, TypeOK
<1> QED BY <1>0, <1>1, <1>3, <1>4, LockStepFrame, Zenon DEF Frame

LEMMA RemoverFrame ==
    ASSUME TypeOK, NEW p \in Removers,
           RemoverStep(p) \/ Announce(p) \/ \E S \in RmTargets : RmStart(p, S)
    PROVE  Frame(p) /\ (UNCHANGED lk \/ LockStep(p)) /\ UNCHANGED gcVars
<1> USE DEF procVars
<1>0. p \in Procs /\ LockTypeOK
  BY SystemAssumption, Zenon DEF TypeOK
<1>1. UNCHANGED lk \/ LockStep(p)
  BY Zenon DEF RemoverStep, Announce, RmStart, RmFilter, RmBlock, RmEnd, LockStep
<1>2. UNCHANGED pc \/ \E l : Goto(p, l)
  BY Zenon DEF RemoverStep, Announce, RmStart, RmFilter, RmBlock, RmEnd
<1>3. /\ UNCHANGED <<job, done, gcVars>>
      /\ UNCHANGED left \/ \E S : left' = [left EXCEPT ![p] = S]
  BY Zenon DEF RemoverStep, Announce, RmStart, RmFilter, RmBlock, RmEnd
<1>4. ASSUME NEW q \in Procs, q # p PROVE pc'[q] = pc[q] /\ left'[q] = left[q]
  BY <1>0, <1>2, <1>3, <1>4, Zenon DEF Goto, TypeOK
<1> QED BY <1>0, <1>1, <1>3, <1>4, LockStepFrame, Zenon DEF Frame

LEMMA AdderFrame ==
    ASSUME TypeOK, NEW p \in Adders, AddStart(p) \/ AdderStep(p) \/ AddFail(p)
    PROVE  Frame(p) /\ (UNCHANGED lk \/ LockStep(p)) /\ UNCHANGED <<gcVars, cancelled>>
<1> USE DEF procVars, BeginEntry
<1>0. p \in Procs /\ LockTypeOK
  BY SystemAssumption, Zenon DEF TypeOK
<1>1. UNCHANGED lk \/ LockStep(p)
  BY ZenonT(60) DEF AddStart, AdderStep, AddFail, NoPause, Pause, Resume, AddNode, EntryDone, AddFinish, LockStep
<1>2. UNCHANGED pc \/ \E l : Goto(p, l)
  BY Zenon DEF AddStart, AdderStep, AddFail, NoPause, Pause, Resume, AddNode, EntryDone, AddFinish
<1>3. /\ UNCHANGED <<job, gcVars, cancelled>>
      /\ UNCHANGED left \/ \E S : left' = [left EXCEPT ![p] = S]
      /\ UNCHANGED done \/ \E n : done' = [done EXCEPT ![p] = n]
  BY Zenon DEF AddStart, AdderStep, AddFail, NoPause, Pause, Resume, AddNode, EntryDone, AddFinish
<1>4. ASSUME NEW q \in Procs, q # p
      PROVE  pc'[q] = pc[q] /\ left'[q] = left[q] /\ done'[q] = done[q]
  BY <1>0, <1>2, <1>3, <1>4, Zenon DEF Goto, TypeOK
<1> QED BY <1>0, <1>1, <1>3, <1>4, LockStepFrame, Zenon DEF Frame

LEMMA ClientFrame ==
    ASSUME TypeOK, NEW p \in Clients, ClientStep(p) \/ \E j \in Jobs : Begin(p, j)
    PROVE  Frame(p) /\ (UNCHANGED lk \/ LockStep(p)) /\ UNCHANGED <<gcVars, cancelled>>
<1> USE DEF procVars, Return
<1>0. p \in Procs /\ LockTypeOK
  BY SystemAssumption, Zenon DEF TypeOK
<1>1. UNCHANGED lk \/ LockStep(p)
  BY ZenonT(60) DEF ClientStep, Begin, Write, CommitPin, CommitPinMode, CommitDirect, CommitUnpin,
         CommitUpdate, CommitMfs, Abandon, LockStep
<1>2. UNCHANGED pc \/ \E l : Goto(p, l)
  BY ZenonT(60) DEF ClientStep, Begin, Write, CommitPin, CommitPinMode, CommitDirect, CommitUnpin,
         CommitUpdate, CommitMfs, Abandon
<1>3. /\ UNCHANGED <<done, gcVars, cancelled>>
      /\ UNCHANGED left \/ \E S : left' = [left EXCEPT ![p] = S]
      /\ UNCHANGED job \/ \E j : job' = [job EXCEPT ![p] = j]
  BY Zenon DEF ClientStep, Begin, Write, CommitPin, CommitPinMode, CommitDirect, CommitUnpin,
         CommitUpdate, CommitMfs, Abandon
<1>4. ASSUME NEW q \in Procs, q # p
      PROVE  pc'[q] = pc[q] /\ left'[q] = left[q] /\ job'[q] = job[q]
  BY <1>0, <1>2, <1>3, <1>4, Zenon DEF Goto, TypeOK
<1> QED BY <1>0, <1>1, <1>3, <1>4, LockStepFrame, Zenon DEF Frame

LEMMA LockInvStep ==
    ASSUME LockTypeOK, LockInv, NEW p \in Procs, LockStep(p)
    PROVE  LockInv'
<1> USE DEF LockTypeOK, LockStates, LockInv, WriterAhead
<1>1. CASE PinLock(p)
  BY <1>1, Zenon DEF PinLock
<1>2. CASE PinUnlock(p) \/ GCRequest(p)
  BY <1>2, ZenonT(60) DEF PinUnlock, GCRequest
<1>3. CASE GCAnnounce(p)
  BY <1>3, Zenon DEF GCAnnounce
<1>4. CASE GCAcquire(p)
  BY <1>4, Zenon DEF GCAcquire
<1>5. CASE GCUnlock(p)
  BY <1>5, Zenon DEF GCUnlock
<1> QED BY <1>1, <1>2, <1>3, <1>4, <1>5, Zenon DEF LockStep

\* Every step but those of Fetch and of the mounts is a step of some process.
LEMMA LockInvNext ==
    ASSUME TypeOK, LockInv, Next
    PROVE  LockInv'
<1>1. UNCHANGED lk \/ \E p \in Procs : LockStep(p)
  <2>1. Collectors \subseteq Procs /\ Removers \subseteq Procs /\ Adders \subseteq Procs
           /\ Clients \subseteq Procs
    BY SystemAssumption, Zenon
  <2> QED BY <2>1, CollectorFrame, RemoverFrame, AdderFrame, ClientFrame, Zenon
          DEF Next, Fetch, RegisterMFSRoot, UnregisterMFSRoot
<1>2. CASE UNCHANGED lk
  BY <1>2, Zenon DEF LockInv
<1>3. CASE \E p \in Procs : LockStep(p)
  BY <1>3, LockInvStep, Zenon DEF TypeOK
<1> QED BY <1>1, <1>2, <1>3, Zenon

\* PcInv, one process at a time.
PcOK(p) ==
    \/ p \in Collectors /\ \/ pc[p] = "idle" /\ lk[p] = "free"
                           \/ pc[p] = "lock" /\ lk[p] \in {"requested", "announced"}
                           \/ pc[p] \in UnderLock /\ lk[p] = "gc"
    \/ p \in Removers /\ \/ pc[p] = "idle" /\ lk[p] = "free"
                         \/ pc[p] = "rmlock" /\ lk[p] \in {"requested", "announced"}
                         \/ pc[p] = "rm" /\ lk[p] = "gc"
    \/ p \in Adders /\ \/ pc[p] \in {"idle", "paused"} /\ lk[p] = "free"
                       \/ pc[p] \in {"entry", "file"} /\ lk[p] \in {"pin", "blocked"}
    \/ p \in Clients /\ \/ pc[p] = "idle" /\ lk[p] = "free"
                        \/ pc[p] = "work" /\ lk[p] \in {"pin", "blocked"} /\ job[p] \in Jobs

LEMMA PcByProcess == PcInv <=> \A p \in Procs : PcOK(p)
BY SystemAssumption, Zenon DEF PcInv, PcOK

LEMMA PcFrame ==
    ASSUME PcInv, NEW p \in Procs, Frame(p), PcOK(p)'
    PROVE  PcInv'
<1>1. ASSUME NEW q \in Procs, q # p PROVE PcOK(q)'
  <2>1. PcOK(q)
    BY PcByProcess, Zenon
  <2> QED BY <1>1, <2>1, Zenon DEF Frame, PcOK
<1>2. \A q \in Procs : PcOK(q)'
  BY <1>1, Zenon
<1> QED BY <1>2, SystemAssumption, ZenonT(60) DEF PcInv, PcOK

LEMMA PcInvNext ==
    ASSUME TypeOK, PcInv, Next
    PROVE  PcInv'
<1> USE DEF PcOK, Goto, TypeOK, LockTypeOK
<1>0. /\ Collectors \subseteq Procs /\ Removers \subseteq Procs
      /\ Adders \subseteq Procs /\ Clients \subseteq Procs
  BY SystemAssumption, ZenonT(60)
<1>1. ASSUME NEW g \in Collectors, GCStart(g) \/ CollectorStep(g) \/ CollectorFault(g)
      PROVE  PcOK(g)'
  <2>1. PcOK(g)
    BY <1>0, PcByProcess, Zenon
  <2> QED BY <1>0, <1>1, <2>1, SystemAssumption, ZenonT(60)
    DEF GCStart, CollectorStep, CollectorFault, GCCancel, GCLocked, SnapshotRoots,
        SnapshotFails, NextRoot, Visit, RootsEnd, DescendantsFails, NextPhase, ColourAbort,
        ColourDirect, CannotFetchAllLinks, SweepLoop, SweepKey, SweepEnd, GCReturn, GCRequest,
        GCAcquire, GCUnlock, UnderLock, Marking
<1>2. ASSUME NEW p \in Collectors \cup Removers, Announce(p)
      PROVE  PcOK(p)'
  <2>1. PcOK(p)
    BY <1>0, PcByProcess, Zenon
  <2> QED BY <1>0, <1>2, <2>1, SystemAssumption, ZenonT(60) DEF Announce, GCAnnounce, UnderLock, Marking
<1>3. ASSUME NEW p \in Removers, RemoverStep(p) \/ \E S \in RmTargets : RmStart(p, S)
      PROVE  PcOK(p)'
  <2>1. PcOK(p)
    BY <1>0, PcByProcess, Zenon
  <2> QED BY <1>0, <1>3, <2>1, SystemAssumption, ZenonT(60)
    DEF RemoverStep, RmStart, RmFilter, RmBlock, RmEnd, GCRequest, GCAcquire, GCUnlock
<1>4. ASSUME NEW p \in Adders, AddStart(p) \/ AdderStep(p) \/ AddFail(p)
      PROVE  PcOK(p)'
  <2>1. PcOK(p)
    BY <1>0, PcByProcess, Zenon
  <2> QED BY <1>0, <1>4, <2>1, SystemAssumption, ZenonT(60)
    DEF AddStart, AdderStep, AddFail, NoPause, Pause, Resume, AddNode, EntryDone, AddFinish,
        BeginEntry, PinLock, PinUnlock
<1>5. ASSUME NEW p \in Clients, ClientStep(p) \/ \E j \in Jobs : Begin(p, j)
      PROVE  PcOK(p)'
  <2>1. PcOK(p)
    BY <1>0, PcByProcess, Zenon
  <2> QED BY <1>0, <1>5, <2>1, SystemAssumption, ZenonT(60)
    DEF ClientStep, Begin, Write, CommitPin, CommitPinMode, CommitDirect, CommitUnpin,
        CommitUpdate, CommitMfs, Abandon, Return, PinLock, PinUnlock, procVars
<1>6. CASE UNCHANGED <<lk, pc, job>>
  BY <1>6, Zenon DEF PcInv
<1> HIDE DEF PcOK, Goto, TypeOK, LockTypeOK
<1> QED
  BY <1>0, <1>1, <1>2, <1>3, <1>4, <1>5, <1>6, PcFrame, CollectorFrame, RemoverFrame,
     AdderFrame, ClientFrame, ZenonT(60)
  DEF Next, Fetch, RegisterMFSRoot, UnregisterMFSRoot, procVars

-----------------------------------------------------------------------------
(* Who may do what while the lock is held.                                    *)

\* While p holds GCLock, a step of anybody else only brings blocks in.
Quiet(p) ==
    /\ UNCHANGED <<recursive, direct, gcVars>>
    /\ store \subseteq store'
    /\ pc'[p] = pc[p] /\ left'[p] = left[p]
    /\ p \in cancelled' <=> p \in cancelled

LEMMA QuietStep ==
    ASSUME TypeOK, LockInv, PcInv, NEW p \in Collectors \cup Removers, lk[p] = "gc", Next,
           p \in Collectors => ~(CollectorStep(p) \/ CollectorFault(p)),
           p \in Removers => ~RemoverStep(p)
    PROVE  Quiet(p)
<1>0. /\ Collectors \subseteq Procs /\ Removers \subseteq Procs
      /\ Adders \subseteq Procs /\ Clients \subseteq Procs
      /\ Collectors \cap Removers = {} /\ p \in Procs /\ p \notin Adders /\ p \notin Clients
  BY SystemAssumption, Zenon
<1>1. \A q \in Procs : /\ lk[q] # "pin"
                       /\ q # p => lk[q] \notin {"announced", "gc"}
  BY <1>0, Zenon DEF LockInv
<1>2. ASSUME NEW g \in Collectors, GCStart(g) \/ CollectorStep(g) \/ CollectorFault(g)
      PROVE  Quiet(p)
  <2>1. g # p
    BY <1>2, <1>0, ZenonT(60) DEF GCStart, GCRequest
  <2>2. lk[g] # "gc" /\ lk[g] # "announced" /\ pc[g] \notin UnderLock
    BY <1>0, <1>1, <2>1, Zenon DEF PcInv, UnderLock, Marking
  <2>3. GCStart(g) \/ GCCancel(g)
    BY <1>2, <2>2, Zenon DEF CollectorStep, CollectorFault, GCLocked, SnapshotRoots, SnapshotFails,
       NextRoot, Visit, RootsEnd, DescendantsFails, ColourAbort, ColourDirect,
       CannotFetchAllLinks, SweepLoop, SweepKey, SweepEnd, GCReturn, GCAcquire, GCUnlock, UnderLock, Marking
  <2>4. Frame(g) /\ UNCHANGED procVars
    BY <1>2, CollectorFrame, Zenon
  <2> QED BY <1>0, <2>1, <2>3, <2>4, Zenon DEF Quiet, Frame, GCStart, GCCancel, pinVars, procVars
<1>3. ASSUME NEW q \in Collectors \cup Removers, Announce(q)
      PROVE  Quiet(p)
  BY <1>0, <1>1, <1>3, Zenon DEF Announce, GCAnnounce, WriterAhead
<1>4. ASSUME NEW q \in Removers, RemoverStep(q) \/ \E S \in RmTargets : RmStart(q, S)
      PROVE  Quiet(p)
  <2>1. q # p
    BY <1>4, <1>0, ZenonT(60) DEF RmStart, GCRequest
  <2>2. lk[q] # "gc" /\ lk[q] # "announced" /\ pc[q] # "rm"
    BY <1>0, <1>1, <2>1, Zenon DEF PcInv
  <2>3. \E S \in RmTargets : RmStart(q, S)
    BY <1>4, <2>2, Zenon DEF RemoverStep, RmFilter, RmBlock, RmEnd, GCAcquire
  <2>4. Frame(q)
    BY <1>4, RemoverFrame, Zenon
  <2> QED BY <1>0, <2>1, <2>3, <2>4, Zenon DEF Quiet, Frame, RmStart, pinVars
<1>5. ASSUME NEW q \in Adders, AddStart(q) \/ AdderStep(q) \/ AddFail(q)
      PROVE  Quiet(p)
  <2>1. lk[q] # "pin"
    BY <1>0, <1>1, Zenon
  <2>2. AddStart(q) \/ Resume(q)
    BY <1>5, <2>1, Zenon DEF AdderStep, AddFail, NoPause, Pause, AddNode, EntryDone, AddFinish, PinUnlock
  <2>3. Frame(q)
    BY <1>5, AdderFrame, Zenon
  <2> QED BY <1>0, <2>2, <2>3, Zenon DEF Quiet, Frame, AddStart, Resume, pinVars
<1>6. ASSUME NEW q \in Clients, ClientStep(q) \/ \E j \in Jobs : Begin(q, j)
      PROVE  Quiet(p)
  <2>1. lk[q] # "pin"
    BY <1>0, <1>1, Zenon
  <2>2. PICK j \in Jobs : Begin(q, j)
    BY <1>6, <2>1, Zenon DEF ClientStep, Write, CommitPin, CommitPinMode, CommitDirect, CommitUnpin,
       CommitUpdate, CommitMfs, Abandon, Return, PinUnlock
  <2>3. Frame(q)
    BY <1>6, ClientFrame, Zenon
  <2> QED BY <1>0, <2>2, <2>3, Zenon DEF Quiet, Frame, Begin, pinVars
<1>7. CASE \E c \in Fetchable : Fetch(c)
  BY <1>7, Zenon DEF Quiet, Fetch, pinVars, procVars
<1>8. CASE \E t \in Trees : RegisterMFSRoot(t) \/ UnregisterMFSRoot(t)
  BY <1>8, Zenon DEF Quiet, RegisterMFSRoot, UnregisterMFSRoot, pinVars, procVars
<1> QED
  BY <1>2, <1>3, <1>4, <1>5, <1>6, <1>7, <1>8, Zenon DEF Next

\* While somebody holds PinLock, no block goes.
LEMMA PinLockKeeps ==
    ASSUME TypeOK, LockInv, PcInv, NEW p \in Procs, lk[p] = "pin", Next
    PROVE  store \subseteq store'
<1>0. /\ Collectors \subseteq Procs /\ Removers \subseteq Procs
  BY SystemAssumption, Zenon
<1>1. \A q \in Procs : lk[q] # "gc"
  BY Zenon DEF LockInv
<1>2. ASSUME NEW g \in Collectors, GCStart(g) \/ CollectorStep(g) \/ CollectorFault(g)
      PROVE  store' = store
  <2>1. pc[g] # "receive"
    BY <1>0, <1>1, Zenon DEF PcInv, UnderLock, Marking
  <2> QED
    BY <1>2, <2>1, ZenonT(60) DEF GCStart, CollectorStep, CollectorFault, GCCancel, GCLocked,
       SnapshotRoots, SnapshotFails, NextRoot, Visit, RootsEnd, DescendantsFails, ColourAbort,
       ColourDirect, CannotFetchAllLinks, SweepLoop, SweepKey, SweepEnd, GCReturn
<1>3. ASSUME NEW q \in Collectors \cup Removers, Announce(q)
      PROVE  store' = store
  BY <1>3, Zenon DEF Announce
<1>4. ASSUME NEW q \in Removers, RemoverStep(q) \/ \E S \in RmTargets : RmStart(q, S)
      PROVE  store' = store
  <2>1. pc[q] # "rm"
    BY <1>0, <1>1, Zenon DEF PcInv
  <2> QED BY <1>4, <2>1, Zenon DEF RemoverStep, RmStart, RmFilter, RmBlock, RmEnd
<1>5. ASSUME NEW q \in Adders, AddStart(q) \/ AdderStep(q) \/ AddFail(q)
      PROVE  store \subseteq store'
  BY <1>5, ZenonT(60) DEF AddStart, AdderStep, AddFail, NoPause, Pause, Resume, AddNode, EntryDone,
              AddFinish, PinRoot
<1>6. ASSUME NEW q \in Clients, ClientStep(q) \/ \E j \in Jobs : Begin(q, j)
      PROVE  store \subseteq store'
  BY <1>6, ZenonT(60) DEF ClientStep, Begin, Write, CommitPin, CommitPinMode, CommitDirect, CommitUnpin,
              CommitUpdate, CommitMfs, Abandon
<1> QED
  BY <1>2, <1>3, <1>4, <1>5, <1>6, ZenonT(60) DEF Next, Fetch, RegisterMFSRoot, UnregisterMFSRoot

-----------------------------------------------------------------------------
(* The collector.                                                             *)

CollectorOK(g) ==
    BaseInv(g) /\ RecursiveInv(g) /\ BestEffortInv(g) /\ DirectInv(g) /\ SweepInv(g)

\* Blocks that arrive, and a context that ends, undo nothing of what is coloured.
LEMMA CollectorQuiet ==
    ASSUME NEW g \in Collectors, CollectorOK(g),
           UNCHANGED <<recursive, direct, gcVars>>, store \subseteq store',
           pc'[g] = pc[g], g \in cancelled => g \in cancelled'
    PROVE  CollectorOK(g)'
<1> USE DEF gcVars
<1>1. BaseInv(g)'
  BY ZenonT(60) DEF CollectorOK, BaseInv, Marking
<1>2. RecursiveInv(g)'
  BY Zenon DEF CollectorOK, RecursiveInv
<1>3. BestEffortInv(g)'
  BY Zenon DEF CollectorOK, BestEffortInv, Desc
<1>4. DirectInv(g)'
  BY Zenon DEF CollectorOK, DirectInv, Full, Desc, Reach
<1>5. SweepInv(g)'
  BY ZenonT(60) DEF CollectorOK, SweepInv, Sweeping, Wanted, Full, Desc, Reach, Hashes
<1> QED BY <1>1, <1>2, <1>3, <1>4, <1>5, ZenonT(60) DEF CollectorOK

\* A step that leaves g outside the lock has nothing to show.
LEMMA CollectorOutside ==
    ASSUME NEW g \in Collectors, pc'[g] \notin UnderLock
    PROVE  CollectorOK(g)'
BY Zenon DEF CollectorOK, BaseInv, RecursiveInv, BestEffortInv, DirectInv, SweepInv, Sweeping, UnderLock, Marking

LEMMA CollectorBegins ==
    ASSUME TypeOK, NEW g \in Collectors, CollectorOK(g), GCLocked(g) \/ SnapshotRoots(g)
    PROVE  CollectorOK(g)'
<1>0. g \in Procs
  BY SystemAssumption, Zenon
<1>1. CASE GCLocked(g)
  BY <1>0, <1>1, ZenonT(60) DEF GCLocked, Goto, TypeOK, CollectorOK, BaseInv, RecursiveInv, BestEffortInv,
     DirectInv, SweepInv, Sweeping, Marking
<1>2. CASE SnapshotRoots(g)
  BY <1>0, <1>2, ZenonT(60) DEF SnapshotRoots, Goto, TypeOK, CollectorOK, BaseInv, RecursiveInv,
     BestEffortInv, DirectInv, SweepInv, Sweeping, Marking, pinVars
<1> QED BY <1>1, <1>2, Zenon

LEMMA CollectorWalks ==
    ASSUME TypeOK, NEW g \in Collectors, CollectorOK(g), NEW c \in Cids,
           NextRoot(g, c) \/ Visit(g, c, TRUE) \/ Visit(g, c, FALSE)
    PROVE  CollectorOK(g)'
<1> USE DEF pinVars, gcVars
<1>0. /\ UNCHANGED <<store, recursive, direct, pc, cancelled, roots, base>>
      /\ pc[g] \in {"recursive", "besteffort"}
  BY ZenonT(60) DEF NextRoot, Visit
<1>1. BaseInv(g)' /\ DirectInv(g)' /\ SweepInv(g)'
  BY <1>0, Zenon DEF CollectorOK, BaseInv, DirectInv, SweepInv, Sweeping, Marking
<1>2. RecursiveInv(g)'
  BY <1>0, ZenonT(60) DEF CollectorOK, RecursiveInv, NextRoot, Visit, MissingIsError
<1>3. ASSUME pc[g] = "besteffort", ~errors'
      PROVE  BestEffortInv(g)'
  <2>0. ~errors
    BY <1>3, Zenon DEF NextRoot, Visit
  <2>1. ~errors /\ BestEffortInv(g) /\ base \subseteq store
    BY <1>0, <1>3, <2>0, Zenon DEF CollectorOK, BaseInv, Marking
  <2>2. gcs \cup frontier \cup stream \subseteq gcs' \cup frontier' \cup stream'
    BY ZenonT(60) DEF NextRoot, Visit
  <2>3. \A d \in gcs' : Mh[d] \in base => Links[d] \subseteq gcs' \cup frontier'
    <3>1. CASE NextRoot(g, c)
      BY <1>3, <2>1, <3>1, ZenonT(60) DEF BestEffortInv, NextRoot
    <3>2. CASE Visit(g, c, TRUE)
      BY <1>3, <2>1, <3>2, ZenonT(60) DEF BestEffortInv, Visit
    <3>3. CASE Visit(g, c, FALSE)
      <4>1. Mh[c] \notin base /\ gcs' = gcs \cup {c} /\ frontier' = frontier \ {c}
        BY <1>3, <2>1, <3>3, ZenonT(60) DEF Visit
      <4> QED BY <1>3, <2>1, <4>1, Zenon DEF BestEffortInv
    <3> QED BY <3>1, <3>2, <3>3, ZenonT(60)
  <2>4. gcs \subseteq gcs' /\ Desc(recursive)' = Desc(recursive)
    BY <1>0, ZenonT(60) DEF NextRoot, Visit, Desc
  <2> QED BY <1>0, <1>3, <2>1, <2>2, <2>3, <2>4, Zenon DEF BestEffortInv
<1>4. BestEffortInv(g)'
  BY <1>0, <1>3, Zenon DEF BestEffortInv
<1> QED BY <1>1, <1>2, <1>4, Zenon DEF CollectorOK

\* The end of a walk that counted no error: what it coloured is closed, so it
\* holds everything under its roots.
LEMMA CollectorWalked ==
    ASSUME TypeOK, NEW g \in Collectors, CollectorOK(g), RootsEnd(g) \/ DescendantsFails(g)
    PROVE  CollectorOK(g)'
<1> USE DEF pinVars, gcVars
<1>0. /\ UNCHANGED <<store, recursive, direct, cancelled, roots, base, gcs>>
      /\ frontier' = {}
      /\ g \in Procs
  BY SystemAssumption, Zenon DEF RootsEnd, DescendantsFails, NextPhase
<1>1. CASE pc[g] = "recursive"
  <2>1. pc'[g] = "besteffort" /\ stream' = roots
    BY <1>0, <1>1, Zenon DEF RootsEnd, DescendantsFails, NextPhase, Goto, TypeOK
  <2>2. BaseInv(g)' /\ RecursiveInv(g)' /\ DirectInv(g)' /\ SweepInv(g)'
    BY <1>0, <1>1, <2>1, Zenon DEF CollectorOK, BaseInv, RecursiveInv, DirectInv, SweepInv, Sweeping, Marking
  <2>3. ASSUME ~errors' PROVE ~errors /\ frontier = {} /\ (stream = {} \/ g \in cancelled)
    BY <2>3, SMTT(60) DEF RootsEnd, DescendantsFails
  <2>4. ASSUME ~errors' PROVE BestEffortInv(g)'
    <3>1. /\ \A c \in gcs : Links[c] \subseteq gcs
          /\ g \in cancelled \/ recursive \subseteq gcs
      BY <1>1, <2>3, <2>4, Zenon DEF CollectorOK, RecursiveInv
    <3>2. g \in cancelled \/ Desc(recursive) \subseteq gcs
      BY <3>1, DescLeast, Zenon DEF TypeOK
    <3>3. Desc(recursive') = Desc(recursive)
      BY <1>0, Zenon
    <3> QED BY <1>0, <2>1, <3>1, <3>2, <3>3, Zenon DEF BestEffortInv
  <2>5. BestEffortInv(g)'
    BY <2>4, Zenon DEF BestEffortInv
  <2> QED BY <2>2, <2>5, Zenon DEF CollectorOK
<1>2. CASE pc[g] = "besteffort"
  <2>1. pc'[g] = "direct"
    BY <1>0, <1>2, Zenon DEF RootsEnd, DescendantsFails, NextPhase, Goto, TypeOK
  <2>2. BaseInv(g)' /\ RecursiveInv(g)' /\ BestEffortInv(g)' /\ SweepInv(g)'
    BY <1>0, <1>2, <2>1, Zenon DEF CollectorOK, BaseInv, RecursiveInv, BestEffortInv, SweepInv, Sweeping, Marking
  <2>3. ASSUME ~errors' PROVE ~errors /\ frontier = {} /\ (stream = {} \/ g \in cancelled)
    BY <2>3, SMTT(60) DEF RootsEnd, DescendantsFails
  <2>4. ASSUME ~errors', g \notin cancelled' PROVE DirectInv(g)'
    <3>1. /\ recursive \cup Desc(recursive) \subseteq gcs
          /\ roots \subseteq gcs /\ ClosedIn(gcs, base)
      BY <1>0, <1>2, <2>3, <2>4, ZenonT(60) DEF CollectorOK, BestEffortInv, ClosedIn
    <3>2. Reach(recursive \cup roots, base) \subseteq gcs
      BY <3>1, ReachLeast, Zenon DEF TypeOK
    <3>3. Full \subseteq gcs /\ Full' = Full
      BY <1>0, <3>1, <3>2, Zenon DEF Full, Desc, Reach
    <3> QED BY <1>0, <3>3, Zenon DEF DirectInv
  <2>5. DirectInv(g)'
    BY <2>4, Zenon DEF DirectInv
  <2> QED BY <2>2, <2>5, Zenon DEF CollectorOK
<1> QED BY <1>1, <1>2, Zenon DEF RootsEnd, DescendantsFails

LEMMA CollectorSweeps ==
    ASSUME TypeOK, NEW g \in Collectors, CollectorOK(g),
           \/ ColourDirect(g) \/ SweepLoop(g)
           \/ \E b \in Blocks : SweepKey(g, b, TRUE) \/ SweepKey(g, b, FALSE)
    PROVE  CollectorOK(g)'
<1> USE DEF pinVars, gcVars
<1>0. /\ UNCHANGED <<recursive, direct, cancelled, roots, base>>
      /\ g \in Procs /\ pc'[g] = IF SweepLoop(g) THEN "receive" ELSE "sweep"
      /\ pc[g] \in {"direct", "sweep", "receive"}
  BY SystemAssumption, ZenonT(60) DEF ColourDirect, SweepLoop, SweepKey, Goto, TypeOK
<1>1. Full' = Full /\ Wanted' = Wanted /\ Wanted \subseteq Full \cup direct
  BY <1>0, ZenonT(60) DEF Full, Wanted, Desc, Reach
<1>2. CASE ColourDirect(g)
  <2>1. g \notin cancelled => Full \cup direct \subseteq gcs'
    BY <1>0, <1>2, ZenonT(60) DEF CollectorOK, DirectInv, ColourDirect
  <2>2. base \subseteq store /\ store' = store
    BY <1>2, Zenon DEF CollectorOK, BaseInv, Marking, ColourDirect
  <2>3. pc'[g] = "sweep"
    BY <1>0, <1>2, Zenon DEF ColourDirect, Goto, TypeOK
  <2>4. Hashes(Wanted)' \cap base \subseteq store'
    BY <2>2, Zenon
  <2> QED BY <1>0, <1>1, <2>1, <2>2, <2>3, <2>4, ZenonT(60) DEF CollectorOK, BaseInv, RecursiveInv,
             BestEffortInv, DirectInv, SweepInv, Sweeping, Marking
<1>4. CASE SweepLoop(g)
  <2>1. Full \cup direct \subseteq gcs /\ gcs' = gcs /\ store' = store
    BY <1>4, Zenon DEF CollectorOK, SweepInv, Sweeping, SweepLoop, SweepGoesOn
  <2>2. Hashes(Wanted) \cap base \subseteq store' /\ Hashes(Wanted)' = Hashes(Wanted)
    BY <1>1, <1>4, <2>1, ZenonT(60) DEF CollectorOK, SweepInv, Sweeping, SweepLoop, Hashes
  <2> QED BY <1>0, <1>1, <1>4, <2>1, <2>2, ZenonT(60) DEF CollectorOK, BaseInv, RecursiveInv,
             BestEffortInv, DirectInv, SweepInv, Sweeping, Marking
<1>3. ASSUME NEW b \in Blocks, SweepKey(g, b, TRUE) \/ SweepKey(g, b, FALSE)
      PROVE  CollectorOK(g)'
  <2>1. /\ Full \cup direct \subseteq gcs /\ gcs' = gcs
        /\ Hashes(Wanted) \cap base \subseteq store
    BY <1>3, Zenon DEF CollectorOK, SweepInv, Sweeping, SweepKey
  <2>2. store' = store \/ (store' = store \ {b} /\ b \notin Hashes(gcs))
    BY <1>3, Zenon DEF SweepKey, Coloured
  <2>3. Hashes(Wanted) \subseteq Hashes(gcs)
    BY <1>1, <2>1, Zenon DEF Hashes
  <2>4. Hashes(Wanted) \cap base \subseteq store'
    BY <2>1, <2>2, <2>3, Zenon
  <2>5. Hashes(Wanted)' = Hashes(Wanted)
    BY <1>1, Zenon DEF Hashes
  <2> QED BY <1>0, <1>1, <2>1, <2>4, <2>5, ZenonT(60) DEF CollectorOK, BaseInv, RecursiveInv,
             BestEffortInv, DirectInv, SweepInv, Sweeping, Marking
<1> QED BY <1>2, <1>3, <1>4, Zenon

\* Only its own step brings a collector under the lock.
LEMMA StaysOutside ==
    ASSUME TypeOK, LockInv, PcInv, Next, NEW g \in Collectors,
           ~(CollectorStep(g) \/ CollectorFault(g)), lk[g] # "gc"
    PROVE  pc'[g] \notin UnderLock
<1>0. g \in Procs
  BY SystemAssumption, Zenon
<1>1. lk'[g] # "gc"
  <2>1. \/ GCStart(g) \/ Announce(g) \/ UNCHANGED lk
        \/ \E p \in Procs \ {g} : Frame(p)
    BY <1>0, CollectorFrame, RemoverFrame, AdderFrame, ClientFrame, SystemAssumption, ZenonT(60)
       DEF Next, Fetch, RegisterMFSRoot, UnregisterMFSRoot
  <2>2. ASSUME NEW p \in Procs \ {g}, Frame(p) PROVE lk'[g] = lk[g] \/ lk'[g] = "pin"
    BY <1>0, <2>2, ZenonT(60) DEF Frame
  <2>3. CASE GCStart(g) \/ Announce(g)
    BY <1>0, <2>3, Zenon DEF GCStart, GCRequest, Announce, GCAnnounce, TypeOK, LockTypeOK
  <2> QED BY <2>1, <2>2, <2>3, Zenon
<1>2. PcInv'
  BY PcInvNext, Zenon
<1>3. pc'[g] \notin UnderLock
  BY <1>1, <1>2, Zenon DEF PcInv, UnderLock, Marking
<1> QED BY <1>3, Zenon

LEMMA CollectorInvNext ==
    ASSUME TypeOK, LockInv, PcInv, CollectorInv, Next
    PROVE  CollectorInv'
<1> SUFFICES ASSUME NEW g \in Collectors PROVE CollectorOK(g)'
  BY Zenon DEF CollectorInv, CollectorOK
<1>0. g \in Procs /\ CollectorOK(g)
  BY SystemAssumption, Zenon DEF CollectorInv, CollectorOK
<1>1. CASE CollectorStep(g) \/ CollectorFault(g)
  <2>1. CASE GCReturn(g)
    BY <1>0, <2>1, CollectorOutside, Zenon DEF GCReturn, Goto, UnderLock, Marking, TypeOK
  <2>2. CASE GCCancel(g)
    BY <1>0, <2>2, CollectorQuiet, Zenon DEF GCCancel, pinVars
  <2>3. CASE GCLocked(g) \/ SnapshotRoots(g)
    BY <1>0, <2>3, CollectorBegins, Zenon
  <2>4. CASE \E c \in Cids : NextRoot(g, c) \/ Visit(g, c, TRUE) \/ Visit(g, c, FALSE)
    BY <1>0, <2>4, CollectorWalks, Zenon
  <2>5. CASE RootsEnd(g) \/ DescendantsFails(g)
    BY <1>0, <2>5, CollectorWalked, Zenon
  <2>6. CASE \/ ColourDirect(g) \/ SweepLoop(g)
             \/ \E b \in Blocks : SweepKey(g, b, TRUE) \/ SweepKey(g, b, FALSE)
    BY <1>0, <2>6, CollectorSweeps, ZenonT(60)
  <2> QED
    BY <1>1, <2>1, <2>2, <2>3, <2>4, <2>5, <2>6, Zenon
    DEF CollectorStep, CollectorFault, SnapshotFails, ColourAbort, CannotFetchAllLinks, SweepEnd
<1>2. CASE ~(CollectorStep(g) \/ CollectorFault(g)) /\ lk[g] = "gc"
  <2>1. Quiet(g)
    BY <1>2, QuietStep, SystemAssumption, Zenon
  <2> QED BY <1>0, <2>1, CollectorQuiet, Zenon DEF Quiet
<1>3. CASE ~(CollectorStep(g) \/ CollectorFault(g)) /\ lk[g] # "gc"
  <2>3. pc'[g] \notin UnderLock
    BY <1>3, StaysOutside, Zenon
  <2> QED BY <2>3, CollectorOutside, Zenon
<1> QED BY <1>1, <1>2, <1>3, Zenon

-----------------------------------------------------------------------------
(* The operations under PinLock.                                              *)

ClientOK(p) ==
    pc[p] = "work" => /\ lk[p] = "blocked" => left[p] = job[p].adds
                      /\ Hashes(job[p].adds \ left[p]) \subseteq store

LEMMA ClientOther ==
    ASSUME NEW p \in Clients, ClientOK(p), PcOK(p), PcOK(p)',
           pc'[p] = pc[p], job'[p] = job[p], left'[p] = left[p],
           lk'[p] = lk[p] \/ (lk[p] = "blocked" /\ lk'[p] = "pin"),
           lk[p] = "pin" => store \subseteq store'
    PROVE  ClientOK(p)'
<1>1. CASE pc[p] = "work" /\ lk[p] = "pin"
  BY <1>1, Zenon DEF ClientOK, Hashes
<1>2. CASE pc[p] = "work" /\ lk[p] = "blocked"
  <2>1. job[p].adds \ left[p] = {}
    BY <1>2, Zenon DEF ClientOK
  <2>2. Hashes(job'[p].adds \ left'[p]) = {}
    BY <2>1, ZenonT(60) DEF Hashes
  <2> QED BY <1>2, <2>2, ZenonT(60) DEF ClientOK
<1>3. CASE pc[p] # "work"
  BY <1>3, Zenon DEF ClientOK
<1>4. pc[p] = "work" => lk[p] \in {"pin", "blocked"}
  BY SystemAssumption, ZenonT(60) DEF PcOK
<1> QED BY <1>1, <1>2, <1>3, <1>4, ZenonT(60)

LEMMA ClientOwn ==
    ASSUME TypeOK, NEW p \in Clients, ClientOK(p),
           ClientStep(p) \/ \E j \in Jobs : Begin(p, j)
    PROVE  ClientOK(p)'
<1>0. p \in Procs
  BY SystemAssumption, Zenon
<1>1. ASSUME NEW j \in Jobs, Begin(p, j) PROVE ClientOK(p)'
  <2>1. left'[p] = j.adds /\ job'[p] = j
    BY <1>0, <1>1, ZenonT(60) DEF Begin, TypeOK
  <2>2. Hashes(job'[p].adds \ left'[p]) = {}
    BY <2>1, ZenonT(60) DEF Hashes
  <2> QED BY <2>1, <2>2, Zenon DEF ClientOK
<1>2. ASSUME NEW c \in Cids, Write(p, c) PROVE ClientOK(p)'
  <2>1. /\ lk[p] = "pin" /\ pc[p] = "work" /\ lk'[p] = "pin"
        /\ job'[p] = job[p] /\ left'[p] = left[p] \ {c} /\ store' = store \cup {Mh[c]}
    BY <1>0, <1>2, Zenon DEF Write, TypeOK
  <2>2. Hashes(job[p].adds \ left[p]) \subseteq store
    BY <2>1, ZenonT(60) DEF ClientOK
  <2>3. Hashes(job'[p].adds \ left'[p]) \subseteq store'
    BY <2>1, <2>2, Zenon DEF Hashes
  <2> QED BY <2>1, <2>3, ZenonT(60) DEF ClientOK
<1>3. CASE Return(p)
  BY <1>0, <1>3, ZenonT(60) DEF Return, Goto, ClientOK, TypeOK
<1> QED
  BY <1>1, <1>2, <1>3, ZenonT(60) DEF ClientStep, CommitPin, CommitPinMode, CommitDirect, CommitUnpin,
     CommitUpdate, CommitMfs, Abandon

\* Any step is one of a process, framed, or touches no control state.
LEMMA StepOfProcess ==
    ASSUME TypeOK, Next
    PROVE  \/ UNCHANGED <<lk, pc, procVars>>
           \/ \E p \in Procs : Frame(p) /\ (p \in Clients => ClientStep(p) \/ \E j \in Jobs : Begin(p, j))
BY CollectorFrame, RemoverFrame, AdderFrame, ClientFrame, SystemAssumption, Zenon
   DEF Next, Fetch, RegisterMFSRoot, UnregisterMFSRoot

LEMMA ClientInvNext ==
    ASSUME TypeOK, LockInv, PcInv, ClientInv, WritesKept, Next
    PROVE  ClientInv' /\ WritesKept'
<1> SUFFICES ASSUME NEW p \in Clients PROVE ClientOK(p)'
  BY Zenon DEF ClientInv, WritesKept, ClientOK
<1>0. p \in Procs /\ ClientOK(p)
  BY SystemAssumption, Zenon DEF ClientInv, WritesKept, ClientOK
<1>1. PcOK(p) /\ PcOK(p)'
  <2>1. PcInv'
    BY PcInvNext, Zenon
  <2> QED BY <1>0, <2>1, SystemAssumption, Zenon DEF PcInv, PcOK
<1>2. lk[p] = "pin" => store \subseteq store'
  BY <1>0, PinLockKeeps, Zenon
<1>3. CASE ClientStep(p) \/ \E j \in Jobs : Begin(p, j)
  BY <1>0, <1>3, ClientOwn, Zenon
<1>4. CASE UNCHANGED <<lk, pc, procVars>>
  BY <1>0, <1>1, <1>2, <1>4, ClientOther, ZenonT(60) DEF procVars
<1>5. ASSUME NEW q \in Procs, q # p, Frame(q) PROVE ClientOK(p)'
  BY <1>0, <1>1, <1>2, <1>5, ClientOther, Zenon DEF Frame
<1> QED BY <1>3, <1>4, <1>5, StepOfProcess, Zenon

-----------------------------------------------------------------------------
(* The theorems that hold of every node.                                      *)

LEMMA InitIInv == Init => IInv
<1> SUFFICES ASSUME Init PROVE IInv
  BY Zenon
<1> USE DEF Init, LockInit
<1>1. TypeOK
  <2>1. \A p \in Adders : p \in Procs /\ Len(Plan[p]) \in Nat
    BY PlanLength, Zenon
  <2>2. \A p \in Adders : done[p] <= Len(Plan[p]) /\ pc[p] = "idle"
    BY <2>1, SMTT(60)
  <2> QED BY <2>2, SystemAssumption, ZenonT(60) DEF TypeOK, LockTypeOK, LockStates
<1>2. LockInv
  BY Zenon DEF LockInv
<1>3. PcInv
  BY SystemAssumption, Zenon DEF PcInv
<1>4. CollectorInv
  BY SystemAssumption, ZenonT(60) DEF CollectorInv, BaseInv, RecursiveInv, BestEffortInv, DirectInv,
     SweepInv, Sweeping, Marking
<1>5. ClientInv /\ WritesKept
  BY SystemAssumption, Zenon DEF ClientInv, WritesKept
<1> QED BY <1>1, <1>2, <1>3, <1>4, <1>5, Zenon DEF IInv

LEMMA IInvStep == IInv /\ [Next]_vars => IInv'
<1> SUFFICES ASSUME IInv, [Next]_vars PROVE IInv'
  BY Zenon
<1>1. CASE Next
  BY <1>1, TypeStep, LockInvNext, PcInvNext, CollectorInvNext, ClientInvNext, Zenon DEF IInv
<1>2. CASE UNCHANGED vars
  <2> USE <1>2 DEF vars, pinVars, treeVars, procVars, gcVars
  <2>1. TypeOK'
    BY TypeStep, Zenon DEF IInv
  <2>2. LockInv' /\ PcInv' /\ ClientInv' /\ WritesKept'
    BY ZenonT(60) DEF IInv, LockInv, PcInv, ClientInv, WritesKept, Hashes
  <2>3. CollectorInv'
    <3> SUFFICES ASSUME NEW g \in Collectors PROVE CollectorOK(g)'
      BY Zenon DEF CollectorInv, CollectorOK
    <3> QED BY CollectorQuiet, Zenon DEF IInv, CollectorInv, CollectorOK
  <2> QED BY <2>1, <2>2, <2>3, Zenon DEF IInv
<1> QED BY <1>1, <1>2, Zenon

\* gc.GC, RmBlocks, AddAllAndPin and the API calls under PinLock keep the
\* types of the repo's state, for any number of processes and any graph.
THEOREM TypeCorrect == Spec => []TypeOK
<1>1. IInv => TypeOK
  BY Zenon DEF IInv
<1> QED BY <1>1, InitIInv, IInvStep, PTL DEF Spec

\* gc.GC keeps every wanted block through its sweep, in spite of blocks that
\* arrive meanwhile, blocks that cannot be read and a context that ends.
THEOREM CollectionKeepsWanted == Spec => []GCKeepsWanted
<1>1. IInv => GCKeepsWanted
  BY Zenon DEF IInv, CollectorInv, SweepInv, GCKeepsWanted
<1> QED BY <1>1, InitIInv, IInvStep, PTL DEF Spec

\* An operation that runs under PinLock (block put, dag put and import, pin
\* update, files) finds at its commit all the blocks it wrote.
THEOREM CommitFindsWrites == Spec => []WritesKept
<1>1. IInv => WritesKept
  BY Zenon DEF IInv
<1> QED BY <1>1, InitIInv, IInvStep, PTL DEF Spec

\* Every way out of a handler releases the lock it took, and nobody is in a
\* handler without it but an add that has paused for a collection.
THEOREM HandlersUnlock == Spec => []IdleIsUnlocked
<1>1. IInv => IdleIsUnlocked
  BY SystemAssumption, Zenon DEF IInv, PcInv, UnderLock, Marking, IdleIsUnlocked
<1> QED BY <1>1, InitIInv, IInvStep, PTL DEF Spec

-----------------------------------------------------------------------------
(* What the pins hold, if `block rm` names each block by its only CID.        *)

LEMMA RemoverInvNext ==
    ASSUME OneCodec, TypeOK, LockInv, PcInv, RemoverInv, Next
    PROVE  RemoverInv'
<1> DEFINE Held == Hashes(Desc(recursive) \cup direct)
           OK(p) == /\ pc[p] = "rmlock" => left[p] \in RmTargets
                    /\ pc[p] = "rm" => Hashes(left[p]) \cap Held = {}
<1> SUFFICES ASSUME NEW p \in Removers PROVE OK(p)'
  BY Zenon DEF RemoverInv
<1>0. p \in Procs /\ OK(p) /\ p \notin Collectors
  BY SystemAssumption, Zenon DEF RemoverInv
<1>1. ASSUME NEW S \in RmTargets, RmStart(p, S) PROVE OK(p)'
  BY <1>0, <1>1, Zenon DEF RmStart, Goto, TypeOK
<1>2. CASE RmFilter(p)
  <2>1. pc'[p] = "rm" /\ Held' = Held
    BY <1>0, <1>2, Zenon DEF RmFilter, Goto, TypeOK, pinVars
  <2>2. CASE left' = [left EXCEPT ![p] = {}]
    BY <1>0, <2>1, <2>2, Zenon DEF TypeOK, Hashes
  <2>3. CASE left' = [left EXCEPT ![p] = {c \in @ : ~Pinned(c)}]
    <3>1. left'[p] = {c \in left[p] : c \notin direct \cup Desc(recursive)}
      BY <1>0, <2>3, Zenon DEF TypeOK, Pinned
    <3>2. left[p] \in RmTargets
      BY <1>0, <1>2, Zenon DEF RmFilter
    <3>3. Desc(recursive) \cup direct \subseteq Cids
      BY DescType, Zenon DEF TypeOK
    <3>4. Hashes(left'[p]) \cap Held = {}
      BY <3>1, <3>2, <3>3, Zenon DEF OneCodec, Hashes
    <3> QED BY <2>1, <3>4, Zenon
  <2> QED BY <1>2, <2>2, <2>3, Zenon DEF RmFilter
<1>3. ASSUME NEW c \in Cids, NEW d \in BOOLEAN, RmBlock(p, c, d) PROVE OK(p)'
  <2>1. pc[p] = "rm" /\ pc'[p] = pc[p] /\ left'[p] = left[p] \ {c}
    BY <1>0, <1>3, Zenon DEF RmBlock, TypeOK
  <2>2. Held' = Held
    BY <1>3, Zenon DEF RmBlock, pinVars
  <2> QED BY <1>0, <2>1, <2>2, Zenon DEF Hashes
<1>4. CASE RmEnd(p)
  BY <1>0, <1>4, Zenon DEF RmEnd, Goto, TypeOK
<1>5. CASE ~RemoverStep(p) /\ lk[p] = "gc"
  <2>1. Quiet(p)
    BY <1>0, <1>5, QuietStep, Zenon
  <2>2. Held' = Held
    BY <2>1, Zenon DEF Quiet
  <2> QED BY <1>0, <2>1, <2>2, Zenon DEF Quiet
<1>6. CASE ~RemoverStep(p) /\ lk[p] # "gc" /\ ~\E S \in RmTargets : RmStart(p, S)
  <2>1. pc'[p] = pc[p] /\ left'[p] = left[p]
    <3>1. \/ UNCHANGED <<pc, left>>
          \/ \E q \in Procs \ {p} : Frame(q)
      BY <1>0, <1>6, CollectorFrame, RemoverFrame, AdderFrame, ClientFrame, SystemAssumption, Zenon
         DEF Next, Announce, Fetch, RegisterMFSRoot, UnregisterMFSRoot, procVars
    <3>2. ASSUME NEW q \in Procs \ {p}, Frame(q) PROVE pc'[p] = pc[p] /\ left'[p] = left[p]
      BY <1>0, <3>2, Zenon DEF Frame
    <3> QED BY <3>1, <3>2, Zenon
  <2>2. pc[p] # "rm"
    BY <1>6, Zenon DEF PcInv
  <2> QED BY <1>0, <2>1, <2>2, Zenon
<1> QED BY <1>1, <1>2, <1>3, <1>4, <1>5, <1>6, Zenon DEF RemoverStep

LEMMA RInvInductive ==
    ASSUME OneCodec
    PROVE  (Init => RInv) /\ (RInv /\ [Next]_vars => RInv')
<1>1. Init => RemoverInv
  BY SystemAssumption, Zenon DEF Init, RemoverInv
<1>2. ASSUME RInv, Next PROVE RemoverInv'
  BY <1>2, RemoverInvNext, Zenon DEF RInv, IInv
<1>3. ASSUME RInv, UNCHANGED vars PROVE RemoverInv'
  BY <1>3, Zenon DEF RInv, RemoverInv, vars, pinVars, procVars, Hashes, Desc
<1> QED BY <1>1, <1>2, <1>3, InitIInv, IInvStep, Zenon DEF RInv

\* What one step may delete: a single block that no pin holds.
LEMMA DeletesOneUnheld ==
    ASSUME OneCodec, RInv, Next, ~(store \subseteq store')
    PROVE  /\ \E b \in store \ Hashes(Desc(recursive) \cup direct) : store' = store \ {b}
           /\ UNCHANGED <<recursive, direct>>
<1> USE DEF pinVars
<1>1. ASSUME NEW g \in Collectors, GCStart(g) \/ CollectorStep(g) \/ CollectorFault(g)
      PROVE  /\ \E b \in store \ Hashes(Desc(recursive) \cup direct) : store' = store \ {b}
             /\ UNCHANGED <<recursive, direct>>
  <2>1. PICK b \in Blocks : SweepKey(g, b, TRUE) \/ SweepKey(g, b, FALSE)
    BY <1>1, Zenon DEF GCStart, CollectorStep, CollectorFault, GCCancel, GCLocked, SnapshotRoots,
       SnapshotFails, NextRoot, Visit, RootsEnd, DescendantsFails, ColourAbort, ColourDirect,
       CannotFetchAllLinks, SweepLoop, SweepEnd, GCReturn
  <2>2. b \in store /\ store' = store \ {b} /\ b \notin Hashes(gcs) /\ UNCHANGED <<recursive, direct>>
    BY <2>1, Zenon DEF SweepKey, Coloured
  <2>3. Desc(recursive) \cup direct \subseteq gcs
    BY <2>1, Zenon DEF RInv, IInv, CollectorInv, SweepInv, Sweeping, SweepKey, Full
  <2>4. b \notin Hashes(Desc(recursive) \cup direct)
    BY <2>2, <2>3, Zenon DEF Hashes
  <2> QED BY <2>2, <2>4, Zenon
<1>2. ASSUME NEW p \in Removers, RemoverStep(p) \/ \E S \in RmTargets : RmStart(p, S)
      PROVE  /\ \E b \in store \ Hashes(Desc(recursive) \cup direct) : store' = store \ {b}
             /\ UNCHANGED <<recursive, direct>>
  <2>1. PICK c \in Cids, d \in BOOLEAN : RmBlock(p, c, d)
    BY <1>2, Zenon DEF RemoverStep, RmStart, RmFilter, RmEnd
  <2>2. /\ c \in left[p] /\ pc[p] = "rm" /\ UNCHANGED <<recursive, direct>>
        /\ store' = store \ {Mh[c]} /\ Mh[c] \in store
    BY <2>1, Zenon DEF RmBlock
  <2>3. Mh[c] \notin Hashes(Desc(recursive) \cup direct)
    BY <2>2, Zenon DEF RInv, RemoverInv, Hashes
  <2> QED BY <2>2, <2>3, Zenon
<1>3. ASSUME NEW q \in Adders, AddStart(q) \/ AdderStep(q) \/ AddFail(q)
      PROVE  FALSE
  BY <1>3, ZenonT(60) DEF AddStart, AdderStep, AddFail, NoPause, Pause, Resume, AddNode, EntryDone,
              AddFinish, PinRoot
<1>4. ASSUME NEW q \in Clients, ClientStep(q) \/ \E j \in Jobs : Begin(q, j)
      PROVE  FALSE
  BY <1>4, Zenon DEF ClientStep, Begin, Write, CommitPin, CommitPinMode, CommitDirect, CommitUnpin,
              CommitUpdate, CommitMfs, Abandon
<1> QED
  BY <1>1, <1>2, <1>3, <1>4, Zenon DEF Next, Announce, Fetch, RegisterMFSRoot, UnregisterMFSRoot

\* No step of gc.GC or of RmBlocks deletes a block under a recursive pin or one
\* pinned directly, provided `block rm` names each block by its only CID.
THEOREM PinsHold ==
    ASSUME OneCodec
    PROVE  Spec => PinnedNeverDeleted
<1>1. ASSUME RInv, [Next]_vars
      PROVE  [(store \ store') \cap Hashes(Desc(recursive) \cup direct) = {}]_vars
  <2>1. CASE Next
    BY <1>1, <2>1, DeletesOneUnheld, Zenon
  <2> QED BY <1>1, <2>1, Zenon
<1> QED BY <1>1, RInvInductive, PTL DEF Spec, PinnedNeverDeleted

\* The repo implements PinnedStore: blocks come at any time, and go one by one
\* while no pin holds them.
THEOREM RepoImplementsPinnedStore ==
    ASSUME OneCodec
    PROVE  Spec => ImplementsPinnedStore
<1>1. Init => PS!PSInit
  BY SystemAssumption, Zenon DEF Init, PS!PSInit
<1>2. ASSUME RInv, [Next]_vars
      PROVE  [PS!Grow \/ \E b \in Blocks : PS!Drop(b)]_PS!psVars
  <2>1. TypeOK /\ TypeOK'
    BY <1>2, TypeStep, Zenon DEF RInv, IInv
  <2>2. CASE store \subseteq store'
    BY <2>1, <2>2, Zenon DEF PS!Grow, TypeOK
  <2>3. CASE Next /\ ~(store \subseteq store')
    <3>1. PICK b \in store \ Hashes(Desc(recursive) \cup direct) : store' = store \ {b}
      BY <1>2, <2>3, DeletesOneUnheld, Zenon
    <3>2. b \in Blocks /\ UNCHANGED <<recursive, direct>>
      BY <1>2, <2>1, <2>3, DeletesOneUnheld, Zenon DEF TypeOK
    <3>3. PS!Drop(b)
      BY <3>1, <3>2, Zenon DEF PS!Drop, PS!Held, PS!Hashes, PS!Desc, PS!Below, PS!Reach,
         PS!ClosedIn, Hashes, Desc, Below, Reach, ClosedIn
    <3> QED BY <3>2, <3>3, Zenon
  <2>4. CASE UNCHANGED vars
    BY <2>4, Zenon DEF vars, pinVars, PS!psVars
  <2> QED BY <1>2, <2>2, <2>3, <2>4, Zenon
<1> QED BY <1>1, <1>2, RInvInductive, PTL DEF Spec, ImplementsPinnedStore, PS!PSSpec

-----------------------------------------------------------------------------
(* The pinned add, if its tree is one and nobody unpins what it pauses on.    *)

AdderOK(p) ==
    /\ pc[p] = "idle" => done[p] = 0
    /\ pc[p] = "entry" /\ lk[p] = "blocked" => done[p] = 0
    /\ pc[p] = "file" /\ lk[p] = "blocked" => left[p] = Plan[p][done[p] + 1].adds
    /\ pc[p] = "paused" \/ (pc[p] = "file" /\ lk[p] = "blocked") =>
         RootAfter(p, done[p]) \in recursive
    /\ pc[p] # "idle" => Hashes(AddedSoFar(p)) \subseteq store

LEMMA AddedType ==
    ASSUME TypeOK, NEW p \in Adders
    PROVE  /\ done[p] \in 0..Len(Plan[p]) /\ p \in Procs
           /\ \A i \in 1..done[p] : Plan[p][i].adds \subseteq Cids
<1>1. done[p] \in Nat /\ done[p] <= Len(Plan[p]) /\ Len(Plan[p]) \in Nat /\ p \in Procs
  BY PlanLength, Zenon DEF TypeOK
<1>2. ASSUME NEW i \in 1..Len(Plan[p]) PROVE Plan[p][i].adds \subseteq Cids
  <2>1. Plan[p][i] \in Entry
    BY SystemAssumption
  <2> QED BY <2>1, Zenon DEF Entry
<1>3. done[p] \in 0..Len(Plan[p])
  BY <1>1
<1>4. \A i \in 1..done[p] : i \in 1..Len(Plan[p])
  BY <1>1
<1> QED BY <1>1, <1>2, <1>3, <1>4, Zenon

\* An add without the lock depends on a pin alone.
LEMMA AdderUnlocked ==
    ASSUME PlanIsTree, TypeOK, PcInv, NEW p \in Adders, AdderOK(p), pc[p] # "idle", lk[p] # "pin"
    PROVE  AddedSoFar(p) \subseteq Desc(recursive)
<1>0. done[p] \in 0..Len(Plan[p]) /\ p \in Procs
  BY AddedType, Zenon
<1>1. FilesAfter(p, done[p]) \subseteq Below[RootAfter(p, done[p])]
  BY <1>0, Zenon DEF PlanIsTree
<1>2. CASE pc[p] = "entry"
  <2>1. lk[p] = "blocked"
    BY <1>2, Zenon DEF PcInv
  <2>2. done[p] = 0
    BY <1>2, <2>1, Zenon DEF AdderOK
  <2>3. 1..done[p] = {}
    BY <2>2, SMTT(60)
  <2> QED BY <1>2, <2>3, Zenon DEF AddedSoFar, FilesAfter
<1>3. CASE pc[p] = "file"
  <2>1. lk[p] = "blocked"
    BY <1>3, Zenon DEF PcInv
  <2>2. left[p] = Plan[p][done[p] + 1].adds /\ RootAfter(p, done[p]) \in recursive
    BY <1>3, <2>1, Zenon DEF AdderOK
  <2>3. AddedSoFar(p) \subseteq FilesAfter(p, done[p])
    BY <1>3, <2>2, Zenon DEF AddedSoFar
  <2> QED BY <1>1, <2>2, <2>3, Zenon DEF Desc
<1>4. CASE pc[p] = "paused"
  <2>1. RootAfter(p, done[p]) \in recursive
    BY <1>4, Zenon DEF AdderOK
  <2>2. AddedSoFar(p) = FilesAfter(p, done[p])
    BY <1>4, Zenon DEF AddedSoFar
  <2> QED BY <1>1, <2>1, <2>2, Zenon DEF Desc
<1> QED BY <1>2, <1>3, <1>4, Zenon DEF PcInv

\* Nobody drops the pin of a paused add.
LEMMA TempPinStays ==
    ASSUME NoTempUnpin, TypeOK, Next, NEW p \in Adders, RootAfter(p, done[p]) \in recursive
    PROVE  RootAfter(p, done[p]) \in recursive'
<1> USE DEF pinVars
<1>0. done[p] \in 0..Len(Plan[p])
  BY AddedType, Zenon
<1>1. ASSUME NEW g \in Collectors, GCStart(g) \/ CollectorStep(g) \/ CollectorFault(g)
      PROVE  recursive' = recursive
  BY <1>1, ZenonT(60) DEF GCStart, CollectorStep, CollectorFault, GCCancel, GCLocked, SnapshotRoots,
       SnapshotFails, NextRoot, Visit, RootsEnd, DescendantsFails, ColourAbort, ColourDirect,
       CannotFetchAllLinks, SweepLoop, SweepKey, SweepEnd, GCReturn
<1>2. ASSUME NEW q \in Removers, RemoverStep(q) \/ \E S \in RmTargets : RmStart(q, S)
      PROVE  recursive' = recursive
  BY <1>2, Zenon DEF RemoverStep, RmStart, RmFilter, RmBlock, RmEnd
<1>3. ASSUME NEW q \in Adders, AddStart(q) \/ AdderStep(q) \/ AddFail(q)
      PROVE  recursive \subseteq recursive'
  BY <1>3, ZenonT(60) DEF AddStart, AdderStep, AddFail, NoPause, Pause, Resume, AddNode, EntryDone,
              AddFinish, PinRoot, PinWithMode
<1>4. ASSUME NEW q \in Clients, ClientStep(q) \/ \E j \in Jobs : Begin(q, j)
      PROVE  RootAfter(p, done[p]) \in recursive'
  <2>0. ASSUME NEW k, Committing(q, k), k # "none" PROVE job[q] \in Jobs /\ job[q].kind = k
    BY <2>0, SystemAssumption, SMTT(60) DEF Committing, NoJob, TypeOK
  <2>1. CASE CommitUnpin(q)
    <3>1. RootAfter(p, done[p]) \notin job[q].pins
      BY <1>0, <2>0, <2>1, Zenon DEF CommitUnpin, NoTempUnpin
    <3> QED BY <2>1, <3>1, Zenon DEF CommitUnpin
  <2>2. CASE CommitUpdate(q)
    <3>1. RootAfter(p, done[p]) # job[q].from
      BY <1>0, <2>0, <2>2, SMTT(60) DEF CommitUpdate, NoTempUnpin
    <3> QED BY <2>2, <3>1, Zenon DEF CommitUpdate
  <2> QED BY <1>4, <2>1, <2>2, ZenonT(60) DEF ClientStep, Begin, Write, CommitPin, CommitPinMode,
             CommitDirect, CommitMfs, Abandon, PinWithMode
<1> QED
  BY <1>1, <1>2, <1>3, <1>4, Zenon DEF Next, Announce, Fetch, RegisterMFSRoot, UnregisterMFSRoot

LEMMA AdderOther ==
    ASSUME OneCodec, PlanIsTree, NoTempUnpin, RInv, Next, NEW p \in Adders, AdderOK(p),
           pc'[p] = pc[p], left'[p] = left[p], done'[p] = done[p],
           lk'[p] = lk[p] \/ (lk[p] = "blocked" /\ lk'[p] = "pin")
    PROVE  AdderOK(p)'
<1>0. p \in Procs /\ TypeOK /\ LockInv /\ PcInv
  BY SystemAssumption, Zenon DEF RInv, IInv
<1>1. AddedSoFar(p)' = AddedSoFar(p) /\ RootAfter(p, done'[p]) = RootAfter(p, done[p])
  BY Zenon DEF AddedSoFar
<1>2. pc[p] # "idle" => Hashes(AddedSoFar(p)) \subseteq store'
  <2>1. CASE lk[p] = "pin"
    BY <1>0, <2>1, PinLockKeeps, Zenon DEF AdderOK
  <2>2. CASE pc[p] # "idle" /\ lk[p] # "pin"
    <3>1. Hashes(AddedSoFar(p)) \subseteq Hashes(Desc(recursive) \cup direct)
      BY <1>0, <2>2, AdderUnlocked, Zenon DEF Hashes
    <3>2. Hashes(AddedSoFar(p)) \subseteq store
      BY <2>2, Zenon DEF AdderOK
    <3> QED BY <3>1, <3>2, DeletesOneUnheld, Zenon
  <2> QED BY <2>1, <2>2, Zenon
<1>3. RootAfter(p, done[p]) \in recursive => RootAfter(p, done[p]) \in recursive'
  BY <1>0, TempPinStays, Zenon
<1>4. pc'[p] # "idle" => Hashes(AddedSoFar(p))' \subseteq store'
  BY <1>1, <1>2, Zenon DEF Hashes
<1>5. RootAfter(p, done[p])' = RootAfter(p, done[p])
  BY Zenon DEF RootAfter
<1> QED BY <1>3, <1>4, <1>5, Zenon DEF AdderOK

LEMMA AdderOwn ==
    ASSUME TypeOK, PcInv, NEW p \in Adders, AdderOK(p),
           AddStart(p) \/ AdderStep(p) \/ AddFail(p)
    PROVE  AdderOK(p)'
<1>0. p \in Procs /\ done[p] \in 0..Len(Plan[p]) /\ done[p] \in Nat
  BY AddedType, ZenonT(60) DEF TypeOK
<1>1. ASSUME pc'[p] = "idle", done'[p] = 0 PROVE AdderOK(p)'
  BY <1>1, ZenonT(60) DEF AdderOK
<1>2. CASE AddStart(p)
  <2>1. pc'[p] = "entry" /\ done'[p] = 0 /\ UNCHANGED store
    BY <1>0, <1>2, ZenonT(60) DEF AddStart, Goto, procVars, TypeOK, AdderOK
  <2>2. 1..done'[p] = {}
    BY <2>1, SMTT(60)
  <2>3. AddedSoFar(p)' = {}
    BY <2>1, <2>2, ZenonT(60) DEF AddedSoFar, FilesAfter
  <2>4. Hashes(AddedSoFar(p)') = {}
    BY <2>3, Zenon DEF Hashes
  <2> QED BY <2>1, <2>4, ZenonT(60) DEF AdderOK
<1>3. ASSUME pc'[p] = "file", done'[p] = done[p], left'[p] = Plan[p][done[p] + 1].adds,
             store' = store, pc[p] \in {"entry", "paused"}
      PROVE  Hashes(AddedSoFar(p)') \subseteq store'
  <2>1. AddedSoFar(p)' = FilesAfter(p, done[p]) /\ AddedSoFar(p) = FilesAfter(p, done[p])
    BY <1>3, Zenon DEF AddedSoFar
  <2> QED BY <1>3, <2>1, ZenonT(60) DEF AdderOK
<1>4. CASE NoPause(p)
  <2>1. /\ pc'[p] = "file" /\ done'[p] = done[p] /\ left'[p] = Plan[p][done[p] + 1].adds
        /\ store' = store /\ pc[p] = "entry" /\ lk'[p] = "pin"
    BY <1>0, <1>4, ZenonT(60) DEF NoPause, BeginEntry, Goto, TypeOK
  <2> QED BY <1>3, <2>1, ZenonT(60) DEF AdderOK
<1>5. CASE Pause(p)
  <2>1. /\ pc'[p] = "paused" /\ done'[p] = done[p] /\ pc[p] = "entry"
        /\ store \subseteq store' /\ RootAfter(p, done[p]) \in recursive'
    BY <1>0, <1>5, Zenon DEF Pause, PinRoot, PinWithMode, Goto, procVars, TypeOK
  <2>2. AddedSoFar(p)' = AddedSoFar(p)
    BY <2>1, Zenon DEF AddedSoFar
  <2>3. RootAfter(p, done[p])' = RootAfter(p, done[p])
    BY <2>1, ZenonT(60) DEF RootAfter
  <2>4. Hashes(AddedSoFar(p)') \subseteq store'
    BY <2>1, <2>2, Zenon DEF AdderOK
  <2> QED BY <2>1, <2>3, <2>4, ZenonT(60) DEF AdderOK
<1>6. CASE Resume(p)
  <2>1. /\ pc'[p] = "file" /\ done'[p] = done[p] /\ left'[p] = Plan[p][done[p] + 1].adds
        /\ store' = store /\ pc[p] = "paused" /\ recursive' = recursive
    BY <1>0, <1>6, Zenon DEF Resume, BeginEntry, Goto, pinVars, TypeOK
  <2>2. RootAfter(p, done[p])' = RootAfter(p, done[p]) /\ RootAfter(p, done[p]) \in recursive
    BY <2>1, ZenonT(60) DEF RootAfter, AdderOK
  <2> QED BY <1>3, <2>1, <2>2, Zenon DEF AdderOK
<1>7. ASSUME NEW c \in Cids, AddNode(p, c) PROVE AdderOK(p)'
  <2>1. /\ pc[p] = "file" /\ pc'[p] = "file" /\ done'[p] = done[p] /\ lk'[p] = "pin"
        /\ left'[p] = left[p] \ {c} /\ store' = store \cup {Mh[c]}
    BY <1>0, <1>7, Zenon DEF AddNode, TypeOK
  <2>2. AddedSoFar(p)' \subseteq AddedSoFar(p) \cup {c}
    <3>1. /\ AddedSoFar(p) = FilesAfter(p, done[p]) \cup (Plan[p][done[p] + 1].adds \ left[p])
          /\ AddedSoFar(p)' = FilesAfter(p, done[p]) \cup (Plan[p][done[p] + 1].adds \ left'[p])
      BY <2>1, Zenon DEF AddedSoFar
    <3> QED BY <2>1, <3>1, ZenonT(60)
  <2>3. Hashes(AddedSoFar(p)) \subseteq store
    BY <2>1, Zenon DEF AdderOK
  <2>4. Hashes(AddedSoFar(p)') \subseteq store'
    BY <2>1, <2>2, <2>3, Zenon DEF Hashes
  <2> QED BY <2>1, <2>4, ZenonT(60) DEF AdderOK
<1>8. CASE EntryDone(p)
  <2>1. /\ pc[p] = "file" /\ left[p] = {} /\ pc'[p] = "entry" /\ done'[p] = done[p] + 1
        /\ lk'[p] = "pin" /\ store' = store
    BY <1>0, <1>8, Zenon DEF EntryDone, Goto, TypeOK
  <2>2. AddedSoFar(p)' = FilesAfter(p, done[p] + 1)
    BY <2>1, Zenon DEF AddedSoFar
  <2>3. AddedSoFar(p) = FilesAfter(p, done[p]) \cup Plan[p][done[p] + 1].adds
    <3>1. AddedSoFar(p) = FilesAfter(p, done[p]) \cup (Plan[p][done[p] + 1].adds \ left[p])
      BY <2>1, Zenon DEF AddedSoFar
    <3> QED BY <2>1, <3>1, Zenon
  <2>4. 1..(done[p] + 1) = (1..done[p]) \cup {done[p] + 1}
    BY <1>0, SMTT(60)
  <2>5. FilesAfter(p, done[p] + 1) = FilesAfter(p, done[p]) \cup Plan[p][done[p] + 1].adds
    BY <2>4, Zenon DEF FilesAfter
  <2>6. Hashes(AddedSoFar(p)') \subseteq store'
    BY <2>1, <2>2, <2>3, <2>5, ZenonT(60) DEF AdderOK
  <2> QED BY <2>1, <2>6, Zenon DEF AdderOK
<1>9. CASE AddFinish(p) \/ AddFail(p)
  BY <1>0, <1>1, <1>9, Zenon DEF AddFinish, AddFail, Goto, TypeOK
<1> QED
  BY <1>2, <1>4, <1>5, <1>6, <1>7, <1>8, <1>9, Zenon DEF AdderStep

LEMMA AInvStep ==
    ASSUME OneCodec, PlanIsTree, NoTempUnpin
    PROVE  AInv /\ [Next]_vars => AInv'
<1> SUFFICES ASSUME AInv, [Next]_vars PROVE AInv'
  BY Zenon
<1>1. RInv /\ RInv' /\ TypeOK /\ PcInv
  BY RInvInductive, Zenon DEF AInv, RInv, IInv
<1> SUFFICES ASSUME NEW p \in Adders PROVE AdderOK(p)'
  BY <1>1, Zenon DEF AInv, AdderInv, AddedKept, AdderOK
<1>2. p \in Procs /\ AdderOK(p)
  BY SystemAssumption, ZenonT(60) DEF AInv, AdderInv, AddedKept, AdderOK
<1>3. CASE UNCHANGED vars
  BY <1>2, <1>3, Zenon DEF vars, pinVars, procVars, AdderOK, AddedSoFar, RootAfter, Hashes
<1>4. CASE Next
  <2>1. CASE AddStart(p) \/ AdderStep(p) \/ AddFail(p)
    BY <1>1, <1>2, <2>1, AdderOwn, Zenon
  <2>2. CASE UNCHANGED <<lk, pc, procVars>>
    BY <1>1, <1>2, <1>4, <2>2, AdderOther, Zenon DEF procVars
  <2>3. ASSUME NEW q \in Procs, q # p, Frame(q) PROVE AdderOK(p)'
    BY <1>1, <1>2, <1>4, <2>3, AdderOther, Zenon DEF Frame
  <2>4. \/ AddStart(p) \/ AdderStep(p) \/ AddFail(p) \/ UNCHANGED <<lk, pc, procVars>>
        \/ \E q \in Procs \ {p} : Frame(q)
    BY <1>1, <1>2, <1>4, CollectorFrame, RemoverFrame, AdderFrame, ClientFrame, SystemAssumption, Zenon
       DEF Next, Fetch, RegisterMFSRoot, UnregisterMFSRoot
  <2> QED BY <2>1, <2>2, <2>3, <2>4, Zenon
<1> QED BY <1>3, <1>4, Zenon

LEMMA InitAInv == ASSUME OneCodec PROVE Init => AInv
<1>1. Init => AdderInv /\ AddedKept
  BY SystemAssumption, Zenon DEF Init, LockInit, AdderInv, AddedKept
<1> QED BY <1>1, RInvInductive, Zenon DEF AInv

\* AddAllAndPin keeps what it wrote through each of its pauses, provided that
\* nobody unpins the roots it pins in between.
THEOREM AddKeepsItsBlocks ==
    ASSUME OneCodec, PlanIsTree, NoTempUnpin
    PROVE  Spec => []AddedKept
<1>1. AInv => AddedKept
  BY Zenon DEF AInv
<1> QED BY <1>1, InitAInv, AInvStep, PTL DEF Spec

\* An AddAllAndPin that succeeds has the whole DAG it pinned in the blockstore.
THEOREM AddPinsCompleteDag ==
    ASSUME OneCodec, PlanIsTree, NoTempUnpin
    PROVE  Spec => AddIsComplete
<1>1. ASSUME AInv, NEW p \in Adders, AddFinish(p)
      PROVE  Complete(RootAfter(p, done[p]), store')
  <2>1. done[p] \in 0..Len(Plan[p])
    BY <1>1, AddedType, Zenon DEF AInv, RInv, IInv
  <2>2. pc[p] = "entry" /\ PinRoot(p)
    BY <1>1, Zenon DEF AddFinish
  <2>3. AddedSoFar(p) = FilesAfter(p, done[p])
    BY <2>2, Zenon DEF AddedSoFar
  <2>4. Below[RootAfter(p, done[p])] \subseteq
          AddedSoFar(p) \cup DirsAfter(p, done[p]) \cup {RootAfter(p, done[p])}
    <3>1. Below[RootAfter(p, done[p])] \subseteq FilesAfter(p, done[p])
            \cup DirsAfter(p, done[p]) \cup {RootAfter(p, done[p])}
      BY <2>1, Zenon DEF PlanIsTree
    <3> QED BY <2>3, <3>1, Zenon
  <2>5. Hashes(AddedSoFar(p)) \subseteq store
    BY <1>1, <2>2, Zenon DEF AInv, AddedKept
  <2>6. store' = store \cup Hashes(DirsAfter(p, done[p]) \cup {RootAfter(p, done[p])})
    BY <2>2, Zenon DEF PinRoot
  <2> QED BY <2>4, <2>5, <2>6, Zenon DEF Complete, Hashes
<1>2. ASSUME AInv, [Next]_vars
      PROVE  [\A p \in Adders : AddFinish(p) => Complete(RootAfter(p, done[p]), store')]_vars
  BY <1>1, <1>2, Zenon
<1> QED BY <1>2, InitAInv, AInvStep, PTL DEF Spec, AddIsComplete

-----------------------------------------------------------------------------
(* The graph.                                                                 *)

\* What a walk sees is closed, and holds the roots.
LEMMA ReachCloses ==
    ASSUME NEW R \in SUBSET Cids, NEW st
    PROVE  /\ R \subseteq Reach(R, st) /\ Reach(R, st) \subseteq Cids
           /\ \A c \in Reach(R, st) : Mh[c] \in st => Links[c] \subseteq Reach(R, st)
<1>1. R \subseteq Reach(R, st) /\ Reach(R, st) \subseteq Cids
  BY Zenon DEF Reach
<1>2. ASSUME NEW c \in Reach(R, st), Mh[c] \in st, NEW d \in Links[c]
      PROVE  d \in Reach(R, st)
  <2>1. c \in Cids /\ d \in Cids
    BY <1>1, DagAssumption, Zenon
  <2>2. ASSUME NEW S \in SUBSET Cids, R \subseteq S, ClosedIn(S, st) PROVE d \in S
    <3>1. c \in S
      BY <2>2, Zenon DEF Reach
    <3> QED BY <1>2, <2>2, <3>1, Zenon DEF ClosedIn
  <2> QED BY <2>1, <2>2, Zenon DEF Reach
<1> QED BY <1>1, <1>2, Zenon

LEMMA BelowCloses ==
    ASSUME NEW r \in Cids
    PROVE  /\ r \in Below[r] /\ Below[r] \subseteq Cids
           /\ \A c \in Below[r] : Links[c] \subseteq Below[r]
<1>1. Below[r] = Reach({r}, Blocks)
  BY Zenon DEF Below
<1>2. \A c \in Cids : Mh[c] \in Blocks
  BY DagAssumption, Zenon
<1>3. /\ {r} \subseteq Reach({r}, Blocks) /\ Reach({r}, Blocks) \subseteq Cids
      /\ \A c \in Reach({r}, Blocks) : Mh[c] \in Blocks => Links[c] \subseteq Reach({r}, Blocks)
  <2>1. {r} \in SUBSET Cids
    BY Zenon
  <2> QED BY <2>1, ReachCloses, Zenon
<1> QED BY <1>1, <1>2, <1>3, Zenon

LEMMA LazyCloses ==
    LazyCids \subseteq Cids /\ \A c \in LazyCids : Links[c] \subseteq LazyCids
<1> DEFINE L == UNION {j.lazy : j \in Jobs}
<1>1. L \subseteq Cids
  BY SystemAssumption DEF Job
<1>2. \A r \in L : /\ Below[r] \subseteq Cids
                   /\ \A c \in Below[r] : Links[c] \subseteq Below[r]
  BY <1>1, BelowCloses, Zenon
<1> HIDE DEF L
<1>3. LazyCids = UNION {Below[r] : r \in L}
  BY Zenon DEF LazyCids, Desc, L
<1> QED BY <1>2, <1>3, Zenon

\* A CID that some job links lazily is one of LazyCids.
LEMMA JobLazy ==
    ASSUME NEW j \in Jobs
    PROVE  j.lazy \subseteq LazyCids /\ j.adds \subseteq Cids /\ j.pins \subseteq Cids
<1>1. j \in Job
  BY SystemAssumption, Zenon
<1>2. j.lazy \subseteq Cids /\ j.adds \subseteq Cids /\ j.pins \subseteq Cids
  BY <1>1, Zenon DEF Job
<1>3. ASSUME NEW c \in j.lazy PROVE c \in LazyCids
  <2>1. c \in Below[c]
    BY <1>2, BelowCloses, Zenon
  <2> QED BY <2>1, Zenon DEF LazyCids, Desc
<1> QED BY <1>2, <1>3, Zenon

\* A walk from r reaches all of the DAG but for what is lazy, if all of the DAG
\* but for what is lazy is there: nothing lies behind a lazy node only.
LEMMA WalkReaches ==
    ASSUME NEW R \in SUBSET Cids, NEW r \in R, NEW st,
           Hashes(Below[r] \ LazyCids) \subseteq st
    PROVE  Below[r] \ LazyCids \subseteq Reach(R, st)
<1> DEFINE S == (Reach(R, st) \cap Below[r]) \cup LazyCids
<1>1. S \in SUBSET Cids
  BY ReachCloses, LazyCloses, Zenon
<1>2. {r} \subseteq S
  BY ReachCloses, BelowCloses, Zenon
<1>3. ASSUME NEW c \in S PROVE Links[c] \subseteq S
  <2>1. CASE c \in LazyCids
    BY <2>1, LazyCloses, Zenon
  <2>2. CASE c \notin LazyCids
    <3>1. Mh[c] \in st
      BY <2>2, Zenon DEF Hashes
    <3> QED BY <2>2, <3>1, ReachCloses, BelowCloses, Zenon
  <2> QED BY <2>1, <2>2, Zenon
<1> HIDE DEF S
<1>4. ClosedIn(S, Blocks)
  BY <1>3, Zenon DEF ClosedIn
<1>5. Reach({r}, Blocks) \subseteq S
  BY <1>1, <1>2, <1>4, ReachLeast, Zenon
<1>6. Below[r] \subseteq S
  BY <1>5, Zenon DEF Below
<1> QED BY <1>6, Zenon DEF S

-----------------------------------------------------------------------------
(* The collector.                                                             *)

\* How a collector comes to be under the lock, and what it keeps there.
LEMMA UnderLockStep ==
    ASSUME TypeOK, LockInv, PcInv, Next, NEW g \in Collectors, pc'[g] \in UnderLock
    PROVE  \/ GCLocked(g) \/ SnapshotRoots(g)
           \/ /\ pc[g] \in UnderLock /\ (pc'[g] = "roots" <=> pc[g] = "roots")
              /\ UNCHANGED <<roots, base>>
<1>0. g \in Procs
  BY SystemAssumption, Zenon
<1> USE DEF UnderLock, Marking, gcVars
<1>1. CASE CollectorStep(g) \/ CollectorFault(g)
  <2>1. ~GCReturn(g)
    BY <1>0, Zenon DEF GCReturn, Goto, TypeOK
  <2>2. CASE GCCancel(g)
    BY <2>2, Zenon DEF GCCancel
  <2>3. CASE \E c \in Cids : NextRoot(g, c) \/ Visit(g, c, TRUE) \/ Visit(g, c, FALSE)
    BY <2>3, ZenonT(60) DEF NextRoot, Visit
  <2>4. CASE RootsEnd(g) \/ DescendantsFails(g)
    <3>1. /\ pc[g] \in {"recursive", "besteffort"} /\ UNCHANGED <<roots, base>>
          /\ Goto(g, "besteffort") \/ Goto(g, "direct")
      BY <2>4, Zenon DEF RootsEnd, DescendantsFails, NextPhase
    <3> QED BY <1>0, <3>1, Zenon DEF Goto, TypeOK
  <2>5. CASE ColourDirect(g) \/ SweepLoop(g)
    BY <1>0, <2>5, Zenon DEF ColourDirect, SweepLoop, Goto, TypeOK
  <2>6. CASE \E b \in Blocks : SweepKey(g, b, TRUE) \/ SweepKey(g, b, FALSE)
    BY <1>0, <2>6, ZenonT(60) DEF SweepKey, Goto, TypeOK
  <2> QED
    BY <1>1, <2>1, <2>2, <2>3, <2>4, <2>5, <2>6, Zenon
    DEF CollectorStep, CollectorFault, SnapshotFails, ColourAbort, CannotFetchAllLinks, SweepEnd
<1>2. CASE ~(CollectorStep(g) \/ CollectorFault(g)) /\ lk[g] = "gc"
  <2>1. Quiet(g)
    BY <1>2, QuietStep, SystemAssumption, ZenonT(60)
  <2>2. pc[g] \in UnderLock
    BY <1>2, Zenon DEF PcInv
  <2> QED BY <2>1, <2>2, Zenon DEF Quiet
<1>3. CASE ~(CollectorStep(g) \/ CollectorFault(g)) /\ lk[g] # "gc"
  <2>1. pc[g] \notin UnderLock
    BY <1>3, Zenon DEF PcInv
  <2>2. \/ GCStart(g) \/ UNCHANGED pc
        \/ \E p \in Procs \ {g} : Frame(p)
    BY <1>0, <1>3, CollectorFrame, RemoverFrame, AdderFrame, ClientFrame, SystemAssumption, ZenonT(60)
       DEF Next, Fetch, RegisterMFSRoot, UnregisterMFSRoot, Announce
  <2>3. pc'[g] = pc[g] \/ pc'[g] = "lock"
    BY <1>0, <2>2, Zenon DEF Frame, GCStart, Goto, TypeOK
  <2> QED BY <2>1, <2>3, Zenon
<1> QED BY <1>1, <1>2, <1>3, Zenon

-----------------------------------------------------------------------------
(* The files.                                                                 *)

\* Only the commit of an MFS operation moves the root of the files.
LEMMA TreeStep ==
    ASSUME TypeOK, Next
    PROVE  /\ UNCHANGED tree \/ \E p \in Clients : CommitMfs(p)
           /\ FilesRoot \in registered => FilesRoot \in registered'
<1> USE DEF treeVars
<1>1. ASSUME NEW g \in Collectors, GCStart(g) \/ CollectorStep(g) \/ CollectorFault(g)
      PROVE  UNCHANGED treeVars
  BY <1>1, ZenonT(60) DEF GCStart, CollectorStep, CollectorFault, GCCancel, GCLocked,
     SnapshotRoots, SnapshotFails, NextRoot, Visit, RootsEnd, DescendantsFails, ColourAbort,
     ColourDirect, CannotFetchAllLinks, SweepLoop, SweepKey, SweepEnd, GCReturn
<1>2. ASSUME NEW p \in Removers, RemoverStep(p) \/ \E S \in RmTargets : RmStart(p, S)
      PROVE  UNCHANGED treeVars
  BY <1>2, Zenon DEF RemoverStep, RmStart, RmFilter, RmBlock, RmEnd
<1>3. ASSUME NEW p \in Adders, AddStart(p) \/ AdderStep(p) \/ AddFail(p)
      PROVE  UNCHANGED treeVars
  BY <1>3, ZenonT(60) DEF AddStart, AdderStep, AddFail, NoPause, Pause, Resume, AddNode,
     EntryDone, AddFinish
<1>4. ASSUME NEW p \in Clients, ClientStep(p) \/ \E j \in Jobs : Begin(p, j)
      PROVE  UNCHANGED treeVars \/ (CommitMfs(p) /\ UNCHANGED registered)
  <2>1. CASE CommitMfs(p)
    BY <2>1, Zenon DEF CommitMfs
  <2> QED
    BY <1>4, <2>1, ZenonT(60) DEF ClientStep, Begin, Write, CommitPin, CommitPinMode, CommitDirect,
       CommitUnpin, CommitUpdate, Abandon
<1>5. ASSUME \/ \E c \in Fetchable : Fetch(c)
             \/ \E p \in Collectors \cup Removers : Announce(p)
      PROVE  UNCHANGED treeVars
  BY <1>5, Zenon DEF Fetch, Announce
<1>6. ASSUME NEW t \in Trees, RegisterMFSRoot(t) \/ UnregisterMFSRoot(t)
      PROVE  UNCHANGED tree /\ (FilesRoot \in registered => FilesRoot \in registered')
  BY <1>6, Zenon DEF RegisterMFSRoot, UnregisterMFSRoot
<1> QED BY <1>1, <1>2, <1>3, <1>4, <1>5, <1>6, Zenon DEF Next

\* A collector under the lock knows the files.
LEMMA CollectorFiles ==
    ASSUME FInv, Next, UNCHANGED tree, NEW g \in Collectors, pc'[g] \in UnderLock
    PROVE  /\ Hashes(Files) \subseteq base'
           /\ pc'[g] # "roots" => tree[FilesRoot] \in roots'
<1>0. g \in Procs /\ TypeOK /\ LockInv /\ PcInv /\ FilesInv
  BY SystemAssumption, Zenon DEF FInv, IInv
<1>1. CASE GCLocked(g)
  <2>1. base' = store /\ pc'[g] = "roots"
    BY <1>0, <1>1, Zenon DEF GCLocked, Goto, TypeOK
  <2> QED BY <1>0, <2>1, Zenon DEF FilesInv
<1>2. CASE SnapshotRoots(g)
  <2>1. PICK skipped \in SUBSET (Unreadable \ {FilesRoot}) :
           roots' = {tree[t] : t \in registered \ skipped}
    BY <1>2, Zenon DEF SnapshotRoots
  <2>2. tree[FilesRoot] \in roots'
    BY <1>0, <2>1, Zenon DEF FilesInv
  <2>3. pc[g] = "roots" /\ base' = base
    BY <1>2, Zenon DEF SnapshotRoots
  <2> QED BY <1>0, <2>2, <2>3, Zenon DEF FilesInv, UnderLock
<1>3. CASE /\ pc[g] \in UnderLock /\ (pc'[g] = "roots" <=> pc[g] = "roots")
           /\ UNCHANGED <<roots, base>>
  BY <1>0, <1>3, Zenon DEF FilesInv
<1> QED BY <1>0, <1>1, <1>2, <1>3, UnderLockStep, Zenon

\* What `block rm` still has to delete is none of the files.
LEMMA RemoverFiles ==
    ASSUME RmSparesFiles, FInv, Next, NEW p \in Removers, pc'[p] \in {"rmlock", "rm"}
    PROVE  Hashes(left'[p]) \cap Hashes(FilesCids) = {}
<1>0. /\ p \in Procs /\ TypeOK /\ FilesInv
      /\ p \notin Collectors /\ p \notin Adders /\ p \notin Clients
  BY SystemAssumption, Zenon DEF FInv, IInv
<1> USE DEF Goto, TypeOK
<1>1. ASSUME NEW S \in RmTargets, RmStart(p, S) PROVE Hashes(left'[p]) \cap Hashes(FilesCids) = {}
  <2>1. left'[p] = S
    BY <1>0, <1>1, Zenon DEF RmStart
  <2> QED BY <2>1, Zenon DEF RmSparesFiles
<1>2. ASSUME pc[p] \in {"rmlock", "rm"}, left'[p] \subseteq left[p]
      PROVE  Hashes(left'[p]) \cap Hashes(FilesCids) = {}
  BY <1>0, <1>2, Zenon DEF FilesInv, Hashes
<1>3. CASE RmFilter(p)
  <2>1. pc[p] = "rmlock" /\ left'[p] \subseteq left[p]
    BY <1>0, <1>3, Zenon DEF RmFilter
  <2> QED BY <1>2, <2>1, Zenon
<1>4. CASE \E c \in Cids, deletable \in BOOLEAN : RmBlock(p, c, deletable)
  <2>1. pc[p] = "rm" /\ left'[p] \subseteq left[p]
    BY <1>0, <1>4, ZenonT(60) DEF RmBlock
  <2> QED BY <1>2, <2>1, Zenon
<1>5. ~RmEnd(p)
  BY <1>0, Zenon DEF RmEnd
<1>6. CASE pc'[p] = pc[p] /\ left'[p] = left[p]
  BY <1>2, <1>6, Zenon
<1> HIDE DEF Goto, TypeOK
<1>7. \/ RemoverStep(p) \/ \E S \in RmTargets : RmStart(p, S)
      \/ UNCHANGED <<pc, left>>
      \/ \E q \in Procs \ {p} : Frame(q)
  BY <1>0, CollectorFrame, RemoverFrame, AdderFrame, ClientFrame, SystemAssumption, ZenonT(60)
     DEF Next, Fetch, RegisterMFSRoot, UnregisterMFSRoot, Announce, procVars
<1>8. ASSUME NEW q \in Procs \ {p}, Frame(q) PROVE pc'[p] = pc[p] /\ left'[p] = left[p]
  BY <1>0, <1>8, Zenon DEF Frame
<1> QED BY <1>1, <1>3, <1>4, <1>5, <1>6, <1>7, <1>8, Zenon DEF RemoverStep

\* A step that leaves the root of the files alone leaves the files.
LEMMA FilesStay ==
    ASSUME FInv, IInv', Next, UNCHANGED tree,
           \A g \in Collectors : pc'[g] \in UnderLock =>
              /\ Hashes(Files) \subseteq base'
              /\ pc'[g] # "roots" => tree[FilesRoot] \in roots'
    PROVE  Hashes(Files) \subseteq store'
<1>0. TypeOK /\ PcInv /\ FilesInv /\ tree[FilesRoot] \in Cids
  BY SystemAssumption, ZenonT(60) DEF FInv, IInv, TypeOK
<1>1. ASSUME NEW g \in Collectors, Sweeping(g)' PROVE Hashes(Files) \subseteq store'
  <2>1. /\ Hashes(Below[tree[FilesRoot]] \ LazyCids) \subseteq base'
        /\ tree[FilesRoot] \in (recursive \cup roots)'
    BY <1>1, Zenon DEF Sweeping, UnderLock, Files
  <2>2. (recursive \cup roots)' \in SUBSET Cids
    BY Zenon DEF IInv, TypeOK
  <2>3. Files \subseteq Reach((recursive \cup roots)', base')
    BY <2>1, <2>2, WalkReaches, Zenon DEF Files
  <2>4. (Hashes(Wanted) \cap base \subseteq store)'
    BY <1>1, Zenon DEF IInv, CollectorInv, SweepInv
  <2>5. Hashes(Files) \subseteq Hashes(Wanted)'
    BY <2>3, Zenon DEF Hashes, Wanted
  <2> QED BY <1>1, <2>4, <2>5, Zenon DEF Sweeping, UnderLock
<1>2. CASE store \subseteq store'
  BY <1>0, <1>2, Zenon DEF FilesInv
<1>3. ASSUME NEW p \in Removers, NEW c \in left[p], pc[p] = "rm", store' = store \ {Mh[c]}
      PROVE  Hashes(Files) \subseteq store'
  <2>1. Mh[c] \notin Hashes(Files)
    BY <1>0, <1>3, Zenon DEF FilesInv, Hashes
  <2> QED BY <1>0, <1>3, <2>1, Zenon DEF FilesInv
<1>4. \/ store \subseteq store'
      \/ \E g \in Collectors : Sweeping(g)'
      \/ \E p \in Removers : \E c \in left[p] : pc[p] = "rm" /\ store' = store \ {Mh[c]}
  <2>1. ASSUME NEW g \in Collectors, GCStart(g) \/ CollectorStep(g) \/ CollectorFault(g)
        PROVE  store' = store \/ Sweeping(g)'
    <3>0. g \in Procs
      BY SystemAssumption, Zenon
    <3>1. CASE \E b \in Blocks : SweepKey(g, b, TRUE) \/ SweepKey(g, b, FALSE)
      BY <1>0, <3>0, <3>1, ZenonT(60) DEF SweepKey, Goto, Sweeping, TypeOK
    <3> QED
      BY <2>1, <3>1, ZenonT(60) DEF GCStart, CollectorStep, CollectorFault, GCCancel, GCLocked,
         SnapshotRoots, SnapshotFails, NextRoot, Visit, RootsEnd, DescendantsFails, ColourAbort,
         ColourDirect, CannotFetchAllLinks, SweepLoop, SweepEnd, GCReturn
  <2>2. ASSUME NEW p \in Removers, RemoverStep(p) \/ \E S \in RmTargets : RmStart(p, S)
        PROVE  \/ store' = store
               \/ \E c \in left[p] : pc[p] = "rm" /\ store' = store \ {Mh[c]}
    BY <2>2, ZenonT(60) DEF RemoverStep, RmStart, RmFilter, RmBlock, RmEnd
  <2>3. ASSUME NEW p \in Adders, AddStart(p) \/ AdderStep(p) \/ AddFail(p)
        PROVE  store \subseteq store'
    BY <2>3, ZenonT(60) DEF AddStart, AdderStep, AddFail, NoPause, Pause, Resume, AddNode,
       EntryDone, AddFinish, PinRoot
  <2>4. ASSUME NEW p \in Clients, ClientStep(p) \/ \E j \in Jobs : Begin(p, j)
        PROVE  store \subseteq store'
    BY <2>4, ZenonT(60) DEF ClientStep, Begin, Write, CommitPin, CommitPinMode, CommitDirect,
       CommitUnpin, CommitUpdate, CommitMfs, Abandon
  <2>5. ASSUME \/ \E c \in Fetchable : Fetch(c)
               \/ \E p \in Collectors \cup Removers : Announce(p)
               \/ \E t \in Trees : RegisterMFSRoot(t) \/ UnregisterMFSRoot(t)
        PROVE  store \subseteq store'
    BY <2>5, Zenon DEF Fetch, Announce, RegisterMFSRoot, UnregisterMFSRoot
  <2> QED BY <2>1, <2>2, <2>3, <2>4, <2>5, Zenon DEF Next
<1> QED BY <1>1, <1>2, <1>3, <1>4, Zenon

\* The new tree of an MFS operation is made of the old one, of blocks that the
\* operation has written and of what it links lazily.
LEMMA CommitFiles ==
    ASSUME FInv, NEW p \in Clients, CommitMfs(p)
    PROVE  /\ Files' \subseteq FilesCids /\ Hashes(Files') \subseteq store
           /\ UNCHANGED <<store, registered, gcVars>>
           /\ \A q \in Collectors \cup Removers : pc'[q] = pc[q] /\ left'[q] = left[q]
           /\ \A g \in Collectors : pc[g] \notin UnderLock
<1>0. /\ p \in Procs /\ TypeOK /\ LockInv /\ PcInv /\ FilesInv /\ WritesKept
      /\ \A q \in Collectors \cup Removers : q \in Procs /\ q # p
  BY SystemAssumption, Zenon DEF FInv, IInv
<1>1. pc[p] = "work" /\ left[p] = {} /\ lk[p] = "pin" /\ job[p].kind = "mfs"
  BY Zenon DEF CommitMfs, Committing, Return, PinUnlock
<1>2. job[p] \in Jobs
  BY <1>0, <1>1, Zenon DEF PcInv
<1>3. /\ UNCHANGED <<store, registered, gcVars>>
      /\ \A q \in Collectors \cup Removers : pc'[q] = pc[q] /\ left'[q] = left[q]
  BY <1>0, ZenonT(60) DEF CommitMfs, Return, Goto, TypeOK
<1>4. \A g \in Collectors : pc[g] \notin UnderLock
  BY <1>0, <1>1, Zenon DEF PcInv, LockInv, UnderLock, Marking
<1>5. job[p].adds \subseteq FilesCids /\ Hashes(job[p].adds) \subseteq store
  <2>1. job[p].adds \ left[p] = job[p].adds
    BY <1>1, Zenon
  <2>2. Hashes(job[p].adds \ left[p]) \subseteq store
    BY <1>0, <1>1, Zenon DEF WritesKept
  <2> QED BY <1>2, <2>1, <2>2, Zenon DEF FilesCids
<1>6. PICK r \in job[p].pins : tree' = [tree EXCEPT ![job[p].at] = r]
  BY Zenon DEF CommitMfs
<1>7. job[p].at \in Trees /\ tree \in [Trees -> Cids] /\ FilesRoot \in Trees
  BY <1>0, <1>2, SystemAssumption, Zenon DEF TypeOK, Job
<1>8. CASE job[p].at # FilesRoot
  <2>1. tree'[FilesRoot] = tree[FilesRoot]
    BY <1>6, <1>7, <1>8, ZenonT(60)
  <2>2. Files' = Files
    BY <2>1, Zenon DEF Files
  <2> QED BY <1>0, <1>3, <1>4, <2>2, Zenon DEF FilesInv
<1>9. CASE job[p].at = FilesRoot
  <2>1. tree'[FilesRoot] = r
    BY <1>6, <1>7, <1>9, Zenon
  <2>2. Below[r] \subseteq Below[tree[FilesRoot]] \cup job[p].adds \cup job[p].lazy
    <3>1. Desc(job[p].pins) \subseteq Desc({tree[FilesRoot]}) \cup job[p].adds \cup job[p].lazy
      BY <1>9, Zenon DEF CommitMfs
    <3>2. Desc({tree[FilesRoot]}) = Below[tree[FilesRoot]]
      BY Zenon DEF Desc
    <3>3. Below[r] \subseteq Desc(job[p].pins)
      BY Zenon DEF Desc
    <3> QED BY <3>1, <3>2, <3>3, Zenon
  <2>3. job[p].lazy \subseteq LazyCids
    BY <1>2, JobLazy, Zenon
  <2>4. Files' \subseteq Files \cup job[p].adds
    <3>1. Files' = Below[r] \ LazyCids
      BY <2>1, Zenon DEF Files
    <3> QED BY <2>2, <2>3, <3>1, Zenon DEF Files
  <2>5. Files' \subseteq FilesCids
    BY <1>0, <1>5, <2>4, Zenon DEF FilesInv
  <2>6. Hashes(Files') \subseteq store
    BY <1>0, <1>5, <2>4, Zenon DEF FilesInv, Hashes
  <2> QED BY <1>3, <1>4, <2>5, <2>6, Zenon
<1> QED BY <1>8, <1>9, Zenon

LEMMA FilesInvNext ==
    ASSUME RmSparesFiles, FInv, IInv', Next
    PROVE  FilesInv'
<1>0. TypeOK /\ FilesInv
  BY Zenon DEF FInv, IInv
<1>1. FilesRoot \in registered'
  BY <1>0, TreeStep, Zenon DEF FilesInv
<1>2. \A p \in Removers :
        pc'[p] \in {"rmlock", "rm"} => Hashes(left'[p]) \cap Hashes(FilesCids) = {}
  BY RemoverFiles, Zenon
<1>3. CASE UNCHANGED tree
  <2>1. Files' = Files
    BY <1>3, Zenon DEF Files
  <2>2. \A g \in Collectors : pc'[g] \in UnderLock =>
           /\ Hashes(Files) \subseteq base'
           /\ pc'[g] # "roots" => tree[FilesRoot] \in roots'
    BY <1>3, CollectorFiles, Zenon
  <2>3. Hashes(Files) \subseteq store'
    BY <1>3, <2>2, FilesStay, Zenon
  <2> QED BY <1>0, <1>1, <1>2, <1>3, <2>1, <2>2, <2>3, ZenonT(60) DEF FilesInv, Hashes
<1>4. ASSUME NEW p \in Clients, CommitMfs(p) PROVE FilesInv'
  <2>1. /\ Files' \subseteq FilesCids /\ Hashes(Files') \subseteq store'
        /\ \A g \in Collectors : pc'[g] \notin UnderLock
    BY <1>4, CommitFiles, Zenon
  <2> QED BY <1>1, <1>2, <2>1, ZenonT(60) DEF FilesInv, Hashes
<1> QED BY <1>0, <1>3, <1>4, TreeStep, Zenon

LEMMA FInvInductive ==
    ASSUME FilesStored, RmSparesFiles
    PROVE  (Init => FInv) /\ (FInv /\ [Next]_vars => FInv')
<1>1. ASSUME Init PROVE FilesInv
  <2>1. /\ tree = InitTree /\ registered = {FilesRoot} /\ store = InitStore
        /\ \A p \in Procs : pc[p] = "idle"
    BY <1>1, Zenon DEF Init
  <2>2. /\ \A g \in Collectors : pc[g] \notin UnderLock
        /\ \A p \in Removers : pc[p] \notin {"rmlock", "rm"}
    BY <2>1, SystemAssumption, Zenon DEF UnderLock, Marking
  <2> QED BY <2>1, <2>2, Zenon DEF FilesInv, FilesStored, Files, FilesCids
<1>2. ASSUME FInv, Next PROVE FInv'
  <2>1. IInv'
    BY <1>2, IInvStep, Zenon DEF FInv
  <2> QED BY <1>2, <2>1, FilesInvNext, Zenon DEF FInv
<1>3. ASSUME FInv, UNCHANGED vars PROVE FInv'
  <2>1. IInv'
    BY <1>3, IInvStep, Zenon DEF FInv
  <2>2. FilesInv'
    BY <1>3, ZenonT(60) DEF FInv, FilesInv, Files, Hashes, vars, pinVars, treeVars, procVars, gcVars
  <2> QED BY <2>1, <2>2, Zenon DEF FInv
<1> QED BY <1>1, <1>2, <1>3, InitIInv, Zenon DEF FInv

\* The best-effort roots that gc.GC walks and the PinLock that the files
\* commands hold keep every file of MFS in the blockstore, whatever collections,
\* adds, pins and fetches run beside them, on a node that starts with its files
\* and whose user does not point `block rm` at them.
THEOREM CollectionKeepsFiles ==
    ASSUME FilesStored, RmSparesFiles
    PROVE  Spec => []FilesKept
<1>1. FInv => FilesKept
  BY Zenon DEF FInv, FilesInv, Files, FilesKept
<1> QED BY <1>1, FInvInductive, PTL DEF Spec

-----------------------------------------------------------------------------
(* What is coloured.                                                          *)

LEMMA DescCloses ==
    ASSUME NEW R \in SUBSET Cids
    PROVE  R \subseteq Desc(R) /\ \A c \in Desc(R) : Links[c] \subseteq Desc(R)
<1>1. ASSUME NEW r \in R PROVE r \in Desc(R)
  BY BelowCloses, Zenon DEF Desc
<1>2. ASSUME NEW c \in Desc(R) PROVE Links[c] \subseteq Desc(R)
  <2>1. PICK r \in R : c \in Below[r]
    BY <1>2, Zenon DEF Desc
  <2>2. Links[c] \subseteq Below[r]
    BY <2>1, BelowCloses, Zenon
  <2> QED BY <2>2, Zenon DEF Desc
<1> QED BY <1>1, <1>2, Zenon

ColourOK(g) ==
    /\ pc[g] \in Marking => stream \subseteq recursive \cup roots /\ gcs \cup frontier \subseteq Asked
    /\ Sweeping(g) => gcs \subseteq Asked \cup direct

LEMMA ColourOwn ==
    ASSUME TypeOK, NEW g \in Collectors, ColourOK(g), CollectorStep(g) \/ CollectorFault(g)
    PROVE  ColourOK(g)'
<1>0. /\ g \in Procs /\ DOMAIN pc = Procs
      /\ recursive \cup roots \in SUBSET Cids /\ recursive \subseteq Cids
  BY SystemAssumption, Zenon DEF TypeOK
<1>p. ASSUME NEW l, Goto(g, l) PROVE pc'[g] = l
  BY <1>0, <1>p, Zenon DEF Goto, TypeOK
<1> USE DEF pinVars, gcVars
<1>k. ASSUME UNCHANGED <<recursive, roots>> PROVE Asked' = Asked
  BY <1>k, Zenon DEF Asked
<1>1. CASE GCReturn(g) \/ GCLocked(g)
  <2>1. pc'[g] \in {"idle", "roots"}
    BY <1>1, <1>p, ZenonT(60) DEF GCReturn, GCLocked
  <2> QED BY <2>1, Zenon DEF ColourOK, Marking, Sweeping
<1>2. CASE GCCancel(g)
  <2>1. UNCHANGED <<recursive, direct, roots, stream, gcs, frontier, pc>>
    BY <1>2, Zenon DEF GCCancel
  <2> QED BY <1>k, <2>1, Zenon DEF ColourOK, Sweeping
<1>3. CASE SnapshotRoots(g)
  <2>1. stream' = recursive /\ frontier' = {} /\ gcs' = {} /\ UNCHANGED recursive /\ pc'[g] = "recursive"
    BY <1>3, <1>p, Zenon DEF SnapshotRoots
  <2> QED BY <2>1, Zenon DEF ColourOK, Sweeping
<1>4. ASSUME NEW c \in Cids, NextRoot(g, c) PROVE ColourOK(g)'
  <2>1. /\ UNCHANGED <<recursive, roots, pc, gcs>> /\ c \in stream /\ stream' = stream \ {c}
        /\ frontier' = {c} \ gcs /\ pc[g] \in {"recursive", "besteffort"}
    BY <1>4, Zenon DEF NextRoot
  <2>2. stream \subseteq recursive \cup roots /\ gcs \subseteq Asked
    BY <2>1, Zenon DEF ColourOK, Marking
  <2>3. c \in Asked
    BY <1>0, <2>1, <2>2, DescCloses, Zenon DEF Asked
  <2> QED BY <1>k, <2>1, <2>2, <2>3, Zenon DEF ColourOK, Sweeping
<1>5. ASSUME NEW c \in Cids, NEW b \in BOOLEAN, Visit(g, c, b) PROVE ColourOK(g)'
  <2>1. /\ UNCHANGED <<recursive, roots, stream, pc>> /\ c \in frontier /\ gcs' = gcs \cup {c}
        /\ frontier' \subseteq frontier \cup Links[c] /\ pc[g] \in {"recursive", "besteffort"}
    BY <1>5, Zenon DEF Visit
  <2>2. stream \subseteq recursive \cup roots /\ gcs \cup frontier \subseteq Asked
    BY <2>1, Zenon DEF ColourOK, Marking
  <2>3. Links[c] \subseteq Asked
    BY <1>0, <2>1, <2>2, DescCloses, Zenon DEF Asked
  <2> QED BY <1>k, <2>1, <2>2, <2>3, Zenon DEF ColourOK, Sweeping
<1>6. CASE RootsEnd(g) \/ DescendantsFails(g)
  <2>1. /\ UNCHANGED <<recursive, roots, gcs>> /\ frontier' = {} /\ (stream' = roots \/ stream' = {})
        /\ pc[g] \in {"recursive", "besteffort"} /\ (Goto(g, "besteffort") \/ Goto(g, "direct"))
    BY <1>6, Zenon DEF RootsEnd, DescendantsFails, NextPhase
  <2>2. gcs \subseteq Asked
    BY <2>1, Zenon DEF ColourOK, Marking
  <2>3. pc'[g] \in {"besteffort", "direct"}
    BY <1>p, <2>1, Zenon
  <2> QED BY <1>k, <2>1, <2>2, <2>3, Zenon DEF ColourOK, Sweeping
<1>7. CASE ColourDirect(g)
  <2>1. /\ UNCHANGED <<recursive, roots, direct>> /\ gcs' \subseteq gcs \cup direct /\ pc[g] = "direct"
        /\ pc'[g] = "sweep"
    BY <1>7, <1>p, Zenon DEF ColourDirect
  <2>2. gcs \subseteq Asked
    BY <2>1, Zenon DEF ColourOK, Marking
  <2> QED BY <1>k, <2>1, <2>2, Zenon DEF ColourOK, Marking
<1>8. CASE SweepLoop(g) \/ \E b \in Blocks : SweepKey(g, b, TRUE) \/ SweepKey(g, b, FALSE)
  <2>1. /\ UNCHANGED <<recursive, roots, direct, gcs>> /\ pc[g] \in {"sweep", "receive"}
        /\ Goto(g, "sweep") \/ Goto(g, "receive")
    BY <1>8, Zenon DEF SweepLoop, SweepKey
  <2>2. pc'[g] \in {"sweep", "receive"}
    BY <1>p, <2>1, Zenon
  <2> QED BY <1>k, <2>1, <2>2, Zenon DEF ColourOK, Sweeping, Marking
<1> QED BY <1>1, <1>2, <1>3, <1>4, <1>5, <1>6, <1>7, <1>8, Zenon
        DEF CollectorStep, CollectorFault, SnapshotFails, ColourAbort, CannotFetchAllLinks, SweepEnd

LEMMA ColourStep ==
    ASSUME IInv, ColourInv, [Next]_vars
    PROVE  ColourInv'
<1>0. TypeOK /\ LockInv /\ PcInv
  BY Zenon DEF IInv
<1>1. ASSUME NEW g \in Collectors, Next PROVE ColourOK(g)'
  <2>0. ColourOK(g)
    BY Zenon DEF ColourInv, ColourOK
  <2>1. CASE CollectorStep(g) \/ CollectorFault(g)
    BY <1>0, <2>0, <2>1, ColourOwn, Zenon
  <2>2. CASE ~(CollectorStep(g) \/ CollectorFault(g)) /\ lk[g] = "gc"
    <3>1. Quiet(g)
      BY <1>0, <1>1, <2>2, QuietStep, SystemAssumption, Zenon
    <3>2. UNCHANGED <<recursive, direct, roots, stream, gcs, frontier>> /\ pc'[g] = pc[g]
      BY <3>1, Zenon DEF Quiet, gcVars
    <3>3. Asked' = Asked
      BY <3>2, Zenon DEF Asked
    <3> QED BY <2>0, <3>2, <3>3, Zenon DEF ColourOK, Sweeping
  <2>3. CASE ~(CollectorStep(g) \/ CollectorFault(g)) /\ lk[g] # "gc"
    <3>1. pc'[g] \notin UnderLock
      BY <1>0, <1>1, <2>3, StaysOutside, Zenon
    <3> QED BY <3>1, Zenon DEF ColourOK, Sweeping, UnderLock
  <2> QED BY <2>1, <2>2, <2>3, Zenon
<1>2. CASE UNCHANGED vars
  <2>1. UNCHANGED <<recursive, direct, roots, stream, gcs, frontier, pc>>
    BY <1>2, Zenon DEF vars, pinVars, gcVars
  <2>2. Asked' = Asked
    BY <2>1, Zenon DEF Asked
  <2> QED BY <2>1, <2>2, Zenon DEF ColourInv, Sweeping
<1>3. CASE Next
  BY <1>1, <1>3, Zenon DEF ColourInv, ColourOK
<1> QED BY <1>2, <1>3, Zenon

\* gc.GC deletes nothing a root or a pin asks for and spares nothing else: what
\* ColoredSet colours is reached from the recursive pins and the best-effort
\* roots, or is pinned directly.
THEOREM CollectionIsExact == Spec => []GCExact
<1>1. Init => ColourInv
  <2> SUFFICES ASSUME Init PROVE ColourInv
    BY Zenon
  <2>1. \A g \in Collectors : pc[g] = "idle"
    BY SystemAssumption, Zenon DEF Init
  <2> QED BY <2>1, Zenon DEF ColourInv, Marking, Sweeping
<1>2. IInv /\ ColourInv /\ [Next]_vars => ColourInv'
  BY ColourStep, Zenon
<1>3. ColourInv => GCSparesNoGarbage
  BY Zenon DEF ColourInv, GCSparesNoGarbage, Asked
<1>4. IInv /\ [Next]_vars => IInv'
  BY IInvStep, Zenon
<1>5. Init => IInv
  BY InitIInv, Zenon
<1> QED BY <1>1, <1>2, <1>3, <1>4, <1>5, CollectionKeepsWanted, PTL DEF Spec, GCExact
=============================================================================
