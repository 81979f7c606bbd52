------------------------------ MODULE GCLocker ------------------------------
(* The lock that boxo's GCBlockstore gives to its users: a Go sync.RWMutex    *)
(* plus a counter of pending collectors.  PinLock is the read side, GCLock    *)
(* the write side.  A GCLock first counts itself as requested, then announces *)
(* itself (from there on new readers block), then waits for the readers that  *)
(* are inside; its release lets every blocked reader in before the next       *)
(* writer can announce itself.  lk[p] is where process p stands:              *)
(*   "free", "pin" (holds PinLock), "blocked" (in PinLock, behind a writer),  *)
(*   "requested", "announced", "gc" (the three stages of GCLock).             *)
CONSTANT Procs
VARIABLE lk

LockStates == {"free", "pin", "blocked", "requested", "announced", "gc"}

LockTypeOK == lk \in [Procs -> LockStates]

LockInit == lk = [p \in Procs |-> "free"]

\* A writer has announced itself or is inside.
WriterAhead == \E q \in Procs : lk[q] \in {"announced", "gc"}

\* GCRequested: some collector is inside GCLock and has not got it yet.
GCRequested == \E q \in Procs : lk[q] \in {"requested", "announced"}

\* Mutant of PinLock: readers pass a writer that waits.
PinLockBarging(p) ==
    /\ lk[p] = "free"
    /\ lk' = [lk EXCEPT ![p] = IF \E q \in Procs : lk[q] = "gc" THEN "blocked" ELSE "pin"]

PinLock(p) ==
    /\ lk[p] = "free"
    /\ lk' = [lk EXCEPT ![p] = IF WriterAhead THEN "blocked" ELSE "pin"]

PinUnlock(p) ==
    /\ lk[p] = "pin"
    /\ lk' = [lk EXCEPT ![p] = "free"]

GCRequest(p) ==
    /\ lk[p] = "free"
    /\ lk' = [lk EXCEPT ![p] = "requested"]

GCAnnounce(p) ==
    /\ lk[p] = "requested"
    /\ ~WriterAhead
    /\ lk' = [lk EXCEPT ![p] = "announced"]

GCAcquire(p) ==
    /\ lk[p] = "announced"
    /\ \A q \in Procs : lk[q] # "pin"
    /\ lk' = [lk EXCEPT ![p] = "gc"]

GCUnlock(p) ==
    /\ lk[p] = "gc"
    /\ lk' = [q \in Procs |-> IF q = p THEN "free"
                              ELSE IF lk[q] = "blocked" THEN "pin" ELSE lk[q]]

\* GCLock is exclusive: no other process is inside on either side of the lock.
Exclusive ==
    \A p \in Procs : lk[p] = "gc" =>
        \A q \in Procs \ {p} : lk[q] \in {"free", "blocked", "requested"}
=============================================================================
