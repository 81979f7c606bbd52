------------------------------- MODULE FSRepo -------------------------------
(* The repository directory and the processes that share it: `ipfs init`,     *)
(* opening and closing through the reference-counted OnlyOne, the config file  *)
(* and its copy in memory, the api file, and repo.lock.  A handle is a         *)
(* goroutine of a process: the daemon's own, or a command's.                   *)
EXTENDS Naturals, FiniteSets

CONSTANTS
  Procs,          \* operating-system processes
  Inits,          \* handles that run `ipfs init`
  Daemons,        \* handles that run the daemon
  KeySetters,     \* handles that run `ipfs config key value`
  Cloners,        \* handles that change a clone of Config(): profile apply, replace
  InPlace,        \* handles that change Config() itself: bootstrap, pin remote service
  ProcOf,         \* the process of a handle
  Keys, Edit,     \* config keys; what a handle sets: [key, val]
  ClosesTwice,    \* does the daemon close the repo after its node did?
  RefMod,         \* 2^32: the reference count is a uint32
  MaxOpens,       \* bound on how often the repo is really opened
  Faults,         \* which of "crash", "write" and "dsclose" can happen
  MaxFaults       \* how many of them in a behaviour

Commands == KeySetters \cup Cloners \cup InPlace
Handles == Inits \cup Daemons \cup Commands
None == "none"
NoValue == "absent"
Parts == {"config", "spec", "version"}

ASSUME FSRepoAssumption ==
  /\ ProcOf \in [Handles -> Procs] /\ None \notin Procs \cup Handles
  /\ RefMod \in Nat \ {0, 1} /\ MaxOpens \in Nat /\ MaxFaults \in Nat
  /\ Faults \subseteq {"crash", "write", "dsclose"}
  /\ Edit \in [Commands -> [key : Keys, val : STRING]]
  /\ ClosesTwice \in BOOLEAN

VARIABLES
  parts,     \* which of config, datastore_spec and version exist
  disk,      \* the config file: key -> value or Absent
  api,       \* the api file: the process whose address it holds, or None
  lock,      \* repo.lock
  busy,      \* process -> the handle holding the OnlyOne and package mutexes
  active,    \* process -> the open item of OnlyOne, 0 if none
  item,      \* item -> its count, and whether its FSRepo is closed and which
             \* config object it holds
  opens,     \* items made so far
  heap,      \* config objects, named by the item or the handle that made them
  pc, ref,   \* handle -> where it is, and its item (0: none)
  left,      \* handle -> the calls of Close it has left to make
  edits,     \* handle -> the config object it is about to write
  faults,
  acked      \* history: what was last written to each key with success

files == <<parts, disk, api>>
locks == <<lock, busy>>
refs == <<active, item, opens>>
edit == <<heap, edits, acked>>
repovars == <<files, locks, refs, edit, pc, ref, left, faults>>

Items == 1..MaxOpens
\* Config objects: what an open read, and what a command made.
Opened(i) == <<"open", i>>
Made(h) == <<"made", h>>
Objects == {Opened(i) : i \in Items} \cup {Made(h) : h \in Handles}
Configs == [Keys -> {NoValue, "old"} \cup {Edit[h].val : h \in Commands}]

Goto(h, l) == pc' = [pc EXCEPT ![h] = l]

Fault(kind) == kind \in Faults /\ faults < MaxFaults /\ faults' = faults + 1

\* The config calls of FSRepo run under the package lock.
Free(h) == busy[ProcOf[h]] = None

-----------------------------------------------------------------------------
(* fsrepo.Init: the presence of the config file alone says "initialized". *)

\* Mutant: Init does not hold the package lock.
InitNoLock(h) ==
  /\ pc[h] = "idle"
  /\ \/ "config" \in parts /\ Goto(h, "inited")
     \/ "config" \notin parts /\ Goto(h, "config")
  /\ UNCHANGED <<files, locks, refs, edit, ref, faults, left>>

InitStart(h) ==
  /\ pc[h] = "idle" /\ Free(h)
  /\ \/ "config" \in parts /\ Goto(h, "inited") /\ UNCHANGED busy
     \/ "config" \notin parts /\ Goto(h, "config")
        /\ busy' = [busy EXCEPT ![ProcOf[h]] = h]
  /\ UNCHANGED <<files, lock, refs, edit, ref, faults, left>>

\* initConfig, initSpec and WriteRepoVersion, each of which leaves a file that
\* is there alone (the version is written in any case).
InitWrite(h, part, next) ==
  /\ pc[h] = part
  /\ parts' = parts \cup {part}
  /\ Goto(h, next)
  /\ busy' = IF next = "inited" THEN [busy EXCEPT ![ProcOf[h]] = None] ELSE busy
  /\ UNCHANGED <<disk, api, lock, refs, edit, ref, faults, left>>

InitStep(h) ==
  InitWrite(h, "config", "spec") \/ InitWrite(h, "spec", "version")
    \/ InitWrite(h, "version", "inited")

-----------------------------------------------------------------------------
(* OnlyOne.Open and FSRepo open *)

\* A process that has the repo open shares it; the count is a uint32.
OpenShared(h) ==
  LET i == active[ProcOf[h]]
  IN  /\ i # 0
      /\ item' = [item EXCEPT ![i].refs = (@ + 1) % RefMod]
      /\ ref' = [ref EXCEPT ![h] = i]
      /\ UNCHANGED <<lock, active, opens, heap>>

\* open: the lock, the version, the config and the datastore.
OpenNew(h) ==
  /\ active[ProcOf[h]] = 0 /\ opens < MaxOpens
  /\ lock = None /\ parts = Parts
  /\ lock' = ProcOf[h]
  /\ opens' = opens + 1
  /\ item' = [item EXCEPT ![opens + 1] = [refs |-> 1, closed |-> FALSE, conf |-> Opened(opens + 1)]]
  /\ heap' = [heap EXCEPT ![Opened(opens + 1)] = disk]
  /\ active' = [active EXCEPT ![ProcOf[h]] = opens + 1]
  /\ ref' = [ref EXCEPT ![h] = opens + 1]

Open(h) ==
  /\ pc[h] = "idle" /\ Free(h)
  /\ OpenShared(h) \/ OpenNew(h)
  /\ Goto(h, "open")
  /\ UNCHANGED <<files, busy, edits, acked, faults, left>>

\* SetAPIAddr: written to a temporary file and renamed.
SetAPIAddr(h) ==
  /\ pc[h] = "open" /\ api' = ProcOf[h] /\ Goto(h, "serving")
  /\ UNCHANGED <<parts, disk, locks, refs, edit, ref, faults, left>>

-----------------------------------------------------------------------------
(* ref.Close and FSRepo.Close *)

\* Mutant: the count is compared before it is lowered.
CloseRefEarly(h) ==
  LET i == ref[h]
      n == (item[i].refs + RefMod - 1) % RefMod
  IN  /\ Free(h)
      /\ item' = [item EXCEPT ![i].refs = n]
      /\ \/ n > 1 /\ Goto(h, "closed") /\ UNCHANGED <<busy, active>>
         \/ n <= 1 /\ active' = [active EXCEPT ![ProcOf[h]] = 0]
            /\ Goto(h, "remove") /\ busy' = [busy EXCEPT ![ProcOf[h]] = h]

\* ref.Close: the last one out forgets the item and closes the FSRepo.  (Its
\* own check for a repo closed before never fails: after the last Close the
\* count starts again from 2^32 - 1.)
CloseRef(h) ==
  LET i == ref[h]
      n == (item[i].refs + RefMod - 1) % RefMod
  IN  /\ Free(h)
      /\ item' = [item EXCEPT ![i].refs = n]
      /\ \/ n > 0 /\ Goto(h, "closed") /\ UNCHANGED <<busy, active>>
         \/ n = 0 /\ active' = [active EXCEPT ![ProcOf[h]] = 0]
            /\ Goto(h, "remove") /\ busy' = [busy EXCEPT ![ProcOf[h]] = h]

\* A command closes what it opened when it is done, the node when it stops;
\* the daemon command closes the repo once more than its node.
Close(h) ==
  /\ left[h] > 0 /\ left' = [left EXCEPT ![h] = @ - 1]
  /\ pc[h] \in (IF h \in Daemons THEN {"open", "serving", "closed"} ELSE {"done"})
  /\ CloseRef(h)
  /\ UNCHANGED <<files, lock, opens, edit, ref, faults>>

\* The api and gateway files go first ...
RemoveApi(h) ==
  /\ pc[h] = "remove" /\ api' = None /\ Goto(h, "unlock")
  /\ UNCHANGED <<parts, disk, locks, refs, edit, ref, faults, left>>

\* ... then the datastore and, if that closes, the lock.
Unlock(h) ==
  LET i == ref[h]
  IN  /\ pc[h] = "unlock"
      /\ \/ item' = [item EXCEPT ![i].closed = TRUE] /\ lock' = None /\ UNCHANGED faults
         \/ Fault("dsclose") /\ UNCHANGED <<item, lock>>
      /\ busy' = [busy EXCEPT ![ProcOf[h]] = None]
      /\ Goto(h, "closed")
      /\ UNCHANGED <<files, active, opens, edit, ref, left>>

-----------------------------------------------------------------------------
(* Reading and writing the config *)

\* Config() hands out the shared object; MUST NOT be modified without Clone.
Config(h) ==
  LET o == item[ref[h]].conf
      new == [heap[o] EXCEPT ![Edit[h].key] = Edit[h].val]
  IN  /\ pc[h] = "open" /\ Free(h) /\ ~item[ref[h]].closed
      /\ \/ h \in Cloners /\ heap' = [heap EXCEPT ![Made(h)] = new] /\ edits' = [edits EXCEPT ![h] = Made(h)]
         \/ h \in InPlace /\ heap' = [heap EXCEPT ![o] = new] /\ edits' = [edits EXCEPT ![h] = o]
      /\ Goto(h, "edited")
      /\ UNCHANGED <<files, locks, refs, ref, left, acked, faults>>

\* The config file keeps every key that the updated struct leaves out.
MapMergeDeep(old, new) ==
  [k \in Keys |-> IF new[k] = NoValue THEN old[k] ELSE new[k]]

Acked(h) == acked' = [acked EXCEPT ![Edit[h].key] = Edit[h].val]

\* SetConfig asks neither whether the repo is closed nor what it now holds.
SetConfig(h) ==
  /\ pc[h] = "edited" /\ Free(h)
  /\ \/ /\ disk' = MapMergeDeep(disk, heap[edits[h]])
        /\ item' = [item EXCEPT ![ref[h]].conf = edits[h]]
        /\ Acked(h) /\ UNCHANGED faults
     \/ Fault("write") /\ UNCHANGED <<disk, item, acked>>
  /\ Goto(h, "done")
  /\ UNCHANGED <<parts, api, locks, active, opens, heap, edits, ref, left>>

\* SetConfigKey changes one key of the file; the object in memory is replaced
\* before the file is written.
SetConfigKey(h) ==
  LET new == [disk EXCEPT ![Edit[h].key] = Edit[h].val]
  IN  /\ h \in KeySetters /\ pc[h] = "open" /\ Free(h) /\ ~item[ref[h]].closed
      /\ heap' = [heap EXCEPT ![Made(h)] = new]
      /\ item' = [item EXCEPT ![ref[h]].conf = Made(h)]
      /\ \/ disk' = new /\ Acked(h) /\ UNCHANGED faults
         \/ Fault("write") /\ UNCHANGED <<disk, acked>>
      /\ Goto(h, "done")
      /\ UNCHANGED <<parts, api, locks, active, opens, edits, ref, left>>

\* A command whose repo was closed under it returns the error.
Refused(h) ==
  /\ h \in Commands /\ pc[h] = "open" /\ Free(h) /\ item[ref[h]].closed
  /\ Goto(h, "done")
  /\ UNCHANGED <<files, locks, refs, edit, ref, left, faults>>

-----------------------------------------------------------------------------
\* A crash ends a process: the kernel frees the lock, the files stay.
Crash(p) ==
  /\ Fault("crash")
  /\ \E h \in Handles : ProcOf[h] = p /\ pc[h] \notin {"idle", "inited", "closed", "dead"}
  /\ pc' = [h \in Handles |-> IF ProcOf[h] = p /\ pc[h] # "idle" THEN "dead" ELSE pc[h]]
  /\ lock' = IF lock = p THEN None ELSE lock
  /\ busy' = [busy EXCEPT ![p] = None]
  /\ active' = [active EXCEPT ![p] = 0]
  /\ item' = [i \in Items |-> [item[i] EXCEPT !.closed =
                @ \/ \E h \in Handles : ProcOf[h] = p /\ ref[h] = i]]
  /\ UNCHANGED <<files, opens, edit, ref, left>>

FSRepoInit ==
  /\ parts = (IF Inits = {} THEN Parts ELSE {})
  /\ disk = [k \in Keys |-> "old"]
  /\ api = None /\ lock = None
  /\ busy = [p \in Procs |-> None]
  /\ active = [p \in Procs |-> 0]
  /\ item = [i \in Items |-> [refs |-> 0, closed |-> TRUE, conf |-> Opened(i)]]
  /\ opens = 0
  /\ heap = [o \in Objects |-> [k \in Keys |-> NoValue]]
  /\ pc = [h \in Handles |-> "idle"]
  /\ ref = [h \in Handles |-> 0]
  /\ left = [h \in Handles |-> IF h \in Daemons /\ ClosesTwice THEN 2 ELSE 1]
  /\ edits = [h \in Handles |-> Made(h)]
  /\ faults = 0
  /\ acked = [k \in Keys |-> "old"]

FSRepoNext ==
  \/ \E h \in Inits : InitStart(h) \/ InitStep(h)
  \/ \E h \in Daemons : SetAPIAddr(h)
  \/ \E h \in Daemons \cup Commands : Open(h) \/ Close(h) \/ RemoveApi(h) \/ Unlock(h)
  \/ \E h \in Commands : Config(h) \/ SetConfig(h) \/ SetConfigKey(h) \/ Refused(h)
  \/ \E p \in Procs : Crash(p)

FSRepoSpec == FSRepoInit /\ [][FSRepoNext]_repovars
-----------------------------------------------------------------------------
Holds(h) == ref[h] # 0 /\ pc[h] \in {"open", "serving", "edited", "done"}

\* Type correctness of the directory, the items and the handles.
FSRepoTypeOK ==
  /\ parts \subseteq Parts /\ disk \in Configs
  /\ api \in Procs \cup {None} /\ lock \in Procs \cup {None}
  /\ busy \in [Procs -> Handles \cup {None}]
  /\ active \in [Procs -> 0..opens] /\ opens \in 0..MaxOpens
  /\ item \in [Items -> [refs : 0..RefMod-1, closed : BOOLEAN, conf : Objects]]
  /\ heap \in [Objects -> Configs]
  /\ pc \in [Handles -> {"idle", "config", "spec", "version", "inited", "open", "serving",
                         "edited", "done", "remove", "unlock", "closed", "dead"}]
  /\ ref \in [Handles -> 0..opens] /\ left \in [Handles -> 0..2]
  /\ edits \in [Handles -> Objects]
  /\ faults \in 0..MaxFaults /\ acked \in Configs

\* The daemon's second Close gives back a reference that is not its own.
Overclosed(p) == ClosesTwice /\ \E d \in Daemons : ProcOf[d] = p /\ left[d] = 0

\* A repo stays open, and repo.lock with its process, as long as somebody holds
\* a reference to it: OnlyOne counts them, until a daemon closes twice.
UsableWhileHeld ==
  \A h \in Handles : Holds(h) /\ ~Overclosed(ProcOf[h]) =>
    ~item[ref[h]].closed /\ lock = ProcOf[h]

\* Close releases repo.lock: a process none of whose handles has the repo open
\* or is closing it does not keep the others out, unless its datastore failed
\* to close.
LockReleased ==
  \A p \in Procs : lock = p =>
    \/ \E h \in Handles : ProcOf[h] = p /\ (Holds(h) \/ pc[h] \in {"remove", "unlock"})
    \/ \E i \in 1..opens : ~item[i].closed /\ active[p] # i

\* While a daemon serves, the api file leads to it: closing the repo elsewhere
\* (which removes the file) never takes away the address of the next daemon.
DaemonReachable ==
  \A h \in Daemons : pc[h] = "serving" => api = ProcOf[h]

\* A change of the config that was reported done is in the config file until
\* another reported change of that key.
AckedKept == disk = acked

\* When Init returns without an error there is a complete repo, unless a
\* process has crashed: the inits of one process wait for each other.
InitCompletes ==
  faults = 0 => \A h \in Inits : pc[h] = "inited" => parts = Parts

\* Opening, closing and changing a repo from several processes keeps what was
\* reported, and each process that is done lets the next one in.
RepoSound == LockReleased /\ DaemonReachable /\ AckedKept /\ InitCompletes
=============================================================================
