----------------------------- MODULE FuseLocks -----------------------------
(* The two locks of a file that is written through the mount: the pin lock     *)
(* (GCLocker) and MFS's descriptor lock of the file, which a writer holds from *)
(* open to release and a reader of MFS shares.  Programs open a file through   *)
(* the mount; setters (truncate of a path, `ipfs files write`) open it for one *)
(* call, inside the pin lock.  One file.                                       *)
EXTENDS GCLocker, Naturals, FiniteSets

CONSTANTS Programs, Setters, Sweepers

ASSUME LocksAssumption == Procs = Programs \cup Setters \cup Sweepers

VARIABLES
  step,    \* where each of them is
  writer,  \* who holds the descriptor lock, "none" or a process
  readers  \* who shares it

locksVars == <<lk, step, writer, readers>>

Goto(p, s) == step' = [step EXCEPT ![p] = s]

\* Mutant of OpenRead: through MFS, under the descriptor lock.
OpenReadLocked(p) ==
  /\ step[p] = "idle" /\ writer = "none" /\ Goto(p, "reading")
  /\ readers' = readers \cup {p} /\ UNCHANGED <<lk, writer>>

\* A read-only open takes a snapshot of the file and no lock.  (Programs that
\* update a file in place keep it open while they open it for writing.)
OpenRead(p) ==
  /\ step[p] = "idle" /\ Goto(p, "reading")
  /\ UNCHANGED <<lk, writer, readers>>

\* The descriptor lock is free for a writer.
Free == writer = "none" /\ readers = {}

OpenWrite(p) ==
  /\ step[p] = "reading" /\ Free
  /\ writer' = p /\ Goto(p, "open") /\ UNCHANGED <<lk, readers>>

\* Flush and Fsync: the pin lock, then the handle's own.
FlushStart(p) == step[p] = "open" /\ PinLock(p) /\ Goto(p, "flushing") /\ UNCHANGED <<writer, readers>>
FlushEnd(p) == step[p] = "flushing" /\ PinUnlock(p) /\ Goto(p, "flushed") /\ UNCHANGED <<writer, readers>>

ReleaseStart(p) == step[p] = "flushed" /\ PinLock(p) /\ Goto(p, "releasing") /\ UNCHANGED <<writer, readers>>
ReleaseEnd(p) ==
  /\ step[p] = "releasing" /\ PinUnlock(p) /\ writer' = "none" /\ readers' = readers \ {p}
  /\ Goto(p, "idle")

\* FileInode.Setattr without a handle; filesWriteCmd.
SetStart(p) == step[p] = "idle" /\ PinLock(p) /\ Goto(p, "waiting") /\ UNCHANGED <<writer, readers>>
SetOpen(p) ==
  /\ step[p] = "waiting" /\ lk[p] = "pin" /\ Free
  /\ writer' = p /\ Goto(p, "setting") /\ UNCHANGED <<lk, readers>>
SetEnd(p) ==
  /\ step[p] = "setting" /\ PinUnlock(p) /\ writer' = "none" /\ Goto(p, "idle") /\ UNCHANGED readers

SweepStart(p) == step[p] = "idle" /\ GCRequest(p) /\ Goto(p, "sweeping") /\ UNCHANGED <<writer, readers>>
Sweep(p) ==
  /\ step[p] = "sweeping"
  /\ \/ GCAnnounce(p) /\ UNCHANGED step
     \/ GCAcquire(p) /\ UNCHANGED step
     \/ GCUnlock(p) /\ Goto(p, "idle")
  /\ UNCHANGED <<writer, readers>>

LocksInit == LockInit /\ step = [p \in Procs |-> "idle"] /\ writer = "none" /\ readers = {}

LocksGoOn(p) ==
  \/ p \in Programs /\ (\/ OpenWrite(p) \/ FlushStart(p) \/ FlushEnd(p) \/ ReleaseStart(p) \/ ReleaseEnd(p))
  \/ p \in Setters /\ (SetOpen(p) \/ SetEnd(p))
  \/ p \in Sweepers /\ Sweep(p)

LocksNext ==
  \/ \E p \in Programs : OpenRead(p)
  \/ \E p \in Setters : SetStart(p)
  \/ \E p \in Sweepers : SweepStart(p)
  \/ \E p \in Procs : LocksGoOn(p)

LocksSpec == LocksInit /\ [][LocksNext]_locksVars

-----------------------------------------------------------------------------

\* Types; who holds the descriptor lock is who is between the open and the release
\* of the file: openers exclude each other.
LocksTypeOK ==
  /\ LockTypeOK /\ Exclusive /\ readers \subseteq Procs
  /\ \A p \in Procs : writer = p <=> step[p] \in {"open", "flushing", "flushed", "releasing", "setting"}

\* There is no deadlock: when nobody who has begun can go on, nobody is in the
\* middle of anything, also when programs read and write a file at once; unless
\* a collection meets a truncation by path or a `files write`, which take the
\* two locks in the other order than a program that closes its file.
LocksProgress ==
  (\A p \in Procs : ~ENABLED LocksGoOn(p)) =>
    \/ \A p \in Procs : step[p] = "idle"
    \/ (\E p \in Sweepers : step[p] # "idle") /\ \E p \in Setters : step[p] # "idle"
=============================================================================
