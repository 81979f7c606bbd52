------------------------------ MODULE DagCmds -------------------------------
(* The commands on DAGs and files: what they compute, and how they stream it.   *)
EXTENDS Integers, Sequences, FiniteSets

LOCAL INSTANCE SequencesExt
LOCAL INSTANCE FiniteSetsExt

-----------------------------------------------------------------------------
(***************************************************************************)
(* What `ipfs refs`, `ipfs dag stat` and `ipfs cat` compute from DAGs and  *)
(* files: the walk that prints each reference once, however often and at   *)
(* whatever depths it meets it; the counts of blocks that several roots    *)
(* share; the part of several files that an offset and a length select.    *)
(***************************************************************************)

CONSTANTS Dags,     \* DAGs: the sequence of links of each node, to larger nodes
          RootSeqs, \* the arguments of a command
          Gone,     \* sets of nodes that cannot be had
          MaxFile   \* the largest file

VARIABLE dask \* a question and its answer

Below(links, S) == UNION {ToSet(links[n]): n \in S}

\* Everything that S reaches in exactly k steps.
AtDepth(links, S, k) == LET f[i \in 0..k] == IF i = 0 THEN S ELSE Below(links, f[i - 1])
                        IN f[k]

-----------------------------------------------------------------------------
(* RefWriter *)

\* Mutant: what was seen before is not looked into again, however deep it was.
VisitOnce(rw, c, depth) ==
  LET atMax == rw.max >= 0 /\ depth = rw.max
  IN IF rw.max >= 0 /\ depth > rw.max THEN [deeper |-> FALSE, write |-> FALSE, rw |-> rw]
     ELSE IF ~rw.unique THEN [deeper |-> ~atMax, write |-> TRUE, rw |-> rw]
     ELSE IF rw.seen[c] > 0 THEN [deeper |-> FALSE, write |-> FALSE, rw |-> rw]
     ELSE [deeper |-> ~atMax, write |-> TRUE, rw |-> [rw EXCEPT !.seen[c] = depth]]

\* visit: whether to look into c, and whether to print it. seen holds the depth
\* at which it was met, 0 if it was not.
Visit(rw, c, depth) ==
  LET atMax == rw.max >= 0 /\ depth = rw.max
      old == rw.seen[c]
      below == rw.max >= 0 /\ depth > rw.max
  IN CASE below -> [deeper |-> FALSE, write |-> FALSE, rw |-> rw]
       [] ~below /\ ~rw.unique -> [deeper |-> ~atMax, write |-> TRUE, rw |-> rw]
       [] ~below /\ rw.unique /\ old > 0 /\ (rw.max < 0 \/ old <= depth) ->
            [deeper |-> FALSE, write |-> FALSE, rw |-> rw]
       [] OTHER -> [deeper |-> ~atMax, write |-> old = 0,
                    rw |-> [rw EXCEPT !.seen[c] = depth]]

RECURSIVE WriteRefsRecursive(_, _, _, _, _)

\* The links of n in order, each with what is below it. A block that cannot be
\* had ends the walk of its root.
WriteRefsRecursive(links, gone, rw, n, depth) ==
  FoldLeft(LAMBDA w, c:
             LET v == Visit(w, c, depth + 1)
                 x == IF v.write THEN [v.rw EXCEPT !.out = Append(@, c)] ELSE v.rw
             IN CASE w.err \/ (~v.write /\ ~v.deeper) -> w
                  [] ~w.err /\ (v.write \/ v.deeper) /\ c \in gone -> [v.rw EXCEPT !.err = TRUE]
                  [] OTHER -> IF v.deeper
                              THEN WriteRefsRecursive(links, gone, x, c, depth + 1) ELSE x,
           rw, links[n])

\* One root after the other: a failure is reported and the next root is taken,
\* with all that was seen so far.
WriteRefs(links, gone, rw, root) ==
  LET w == IF root \in gone THEN [rw EXCEPT !.err = TRUE]
           ELSE WriteRefsRecursive(links, gone, rw, root, 0)
  IN IF w.err THEN [w EXCEPT !.err = FALSE, !.errs = @ + 1] ELSE w

\* Without --recursive the depth is one.
Refs(links, gone, roots, unique, recursive, max) ==
  LET rw == [seen |-> [n \in DOMAIN links |-> 0], out |-> <<>>, unique |-> unique,
             err |-> FALSE, errs |-> 0, max |-> IF recursive THEN max ELSE 1]
      done == FoldLeft(LAMBDA w, r: WriteRefs(links, gone, w, r), rw, roots)
  IN [refs |-> done.out, errs |-> done.errs]

-----------------------------------------------------------------------------
(* dag stat *)

BlockSize(n) == 10 + n

\* One root: the traversal's own set is enough, and every block it visits counts.
CountsAll(roots) == Len(roots) = 1

Stat(links, roots) ==
  LET dag(r) == UNION {AtDepth(links, {r}, k): k \in 0..Len(links)}
      size(S) == MapThenSumSet(BlockSize, S)
      per == [i \in DOMAIN roots |-> [blocks |-> Cardinality(dag(roots[i])),
                                      size |-> size(dag(roots[i]))]]
      total(f(_)) == FoldLeft(LAMBDA n, p: f(p) + n, 0, per)
      seen == UNION {dag(roots[i]): i \in DOMAIN roots}
  IN [per |-> per, redundant |-> total(LAMBDA p: p.size),
      unique |-> IF CountsAll(roots) THEN total(LAMBDA p: p.blocks) ELSE Cardinality(seen),
      size |-> IF CountsAll(roots) THEN total(LAMBDA p: p.size) ELSE size(seen)]

SharedSize(s) == s.redundant - s.size

-----------------------------------------------------------------------------
(* cat *)

\* A file of a size is the sequence of its bytes, each told from the others.
FileBytes(i, size) == [k \in 1..size |-> <<i, k>>]

\* One file: the offset may lie beyond it; else it is read from there, and the
\* last one only as far as the length allows.
CatStep(c, i, size) ==
  IF c.full THEN c
  ELSE IF c.offset > size THEN [c EXCEPT !.offset = @ - size]
  ELSE LET rest == SubSeq(FileBytes(i, size), c.offset + 1, size)
           length == c.length + Len(rest)
           over == c.max > 0 /\ length >= c.max
       IN [c EXCEPT !.offset = 0, !.length = IF over THEN c.max ELSE length,
             !.full = over,
             !.out = @ \o (IF over THEN SubSeq(rest, 1, Len(rest) - (length - c.max))
                           ELSE rest)]

\* max is -1 without --length; a length of 0 reads nothing.
Cat(sizes, offset, max) ==
  LET start == [offset |-> offset, max |-> max, length |-> 0, full |-> FALSE, out |-> <<>>]
      run[k \in 0..Len(sizes)] == IF k = 0 THEN start ELSE CatStep(run[k - 1], k, sizes[k])
  IN IF max = 0 THEN start ELSE run[Len(sizes)]

-----------------------------------------------------------------------------

AsksRefs == \E links \in Dags, gone \in Gone, roots \in RootSeqs:
              \E unique, recursive \in BOOLEAN, max \in -1..3:
                /\ ~recursive => max = -1
                /\ dask' = [topic |-> "refs", links |-> links, gone |-> gone,
                            roots |-> roots, unique |-> unique,
                            max |-> IF recursive THEN max ELSE 1,
                            out |-> Refs(links, gone, roots, unique, recursive, max)]

AsksStat == \E links \in Dags, roots \in RootSeqs:
              dask' = [topic |-> "stat", links |-> links, roots |-> roots,
                       out |-> Stat(links, roots)]

AsksCat == \E k \in 0..3: \E sizes \in [1..k -> 0..MaxFile]:
             \E offset \in 0..(2 * MaxFile), max \in -1..(2 * MaxFile):
               dask' = [topic |-> "cat", sizes |-> sizes, offset |-> offset,
                        max |-> max, out |-> Cat(sizes, offset, max)]

AsksDag == AsksRefs \/ AsksStat \/ AsksCat

-----------------------------------------------------------------------------
(* Properties *)

\* `refs` prints only what it fetched, with --unique each of it once, and unless
\* it reports an error exactly what lies within the depth below the roots,
\* in whatever order the links lead there and whichever root came first.
RefsExact == dask.topic = "refs" =>
  LET far == IF dask.max < 0 THEN Len(dask.links) ELSE dask.max
      within == UNION {AtDepth(dask.links, ToSet(dask.roots), k): k \in 1..far}
      printed == ToSet(dask.out.refs)
  IN /\ printed \subseteq within \ dask.gone
     /\ dask.out.errs = 0 => printed = within
     /\ dask.unique => IsInjective(dask.out.refs)

\* `dag stat` counts a block once in the totals, also when several roots, or one
\* root given twice, reach it; and what is shared is never negative.
StatExact == dask.topic = "stat" =>
  LET all == UNION {AtDepth(dask.links, ToSet(dask.roots), k): k \in 0..Len(dask.links)}
  IN /\ dask.out.unique = Cardinality(all)
     /\ dask.out.size = MapThenSumSet(BlockSize, all)
     /\ SharedSize(dask.out) >= 0

\* `cat` prints the bytes of the files put together, from the offset on and no
\* more than the length, and announces as many as it prints.
CatExact == dask.topic = "cat" =>
  LET all == FlattenSeq([i \in 1..Len(dask.sizes) |-> FileBytes(i, dask.sizes[i])])
      from == SubSeq(all, dask.offset + 1, Len(all))
      upto == IF dask.max < 0 \/ dask.max > Len(from) THEN Len(from) ELSE dask.max
  IN /\ dask.out.out = SubSeq(from, 1, upto)
     /\ dask.out.length = upto

-----------------------------------------------------------------------------
(***************************************************************************)
(* The commands that move DAGs through the daemon: `get` and `dag export`, *)
(* whose goroutine writes into a pipe that the response reads; `ls`, whose *)
(* goroutines send entries over channels to the handler; `dag import`,     *)
(* which reads CAR files into a batch and pins their roots at the end,     *)
(* under the lock that keeps the garbage collector out.                    *)
(***************************************************************************)

CONSTANTS PipeChunks,  \* what there is to send through a pipe
          LsEntries,   \* entries of a listed directory
          INodes,      \* blocks that CAR files hold
          ILinks,      \* the blocks each block links to
          MaxCarBlocks, MaxCars, BatchMax

VARIABLES dpipe, \* a get or an export
          dls,   \* an ls
          dimp   \* an import, with the blockstore and the pins

-----------------------------------------------------------------------------
(* get and dag export: a goroutine, a pipe and the response *)

\* How a command's goroutine ends what it writes. `get` gives the pipe its error;
\* `dag export` queues it in errCh and then closes the pipe; --local-only leaves
\* out the blocks that are missing.
GetTraits == [errch |-> FALSE, skips |-> FALSE, closer |-> TRUE]

ExportTraits == [errch |-> TRUE, skips |-> FALSE, closer |-> FALSE]

PartialTraits == [errch |-> TRUE, skips |-> TRUE, closer |-> FALSE]

PipeInit == \E t \in {GetTraits, ExportTraits, PartialTraits}, k \in 0..PipeChunks:
  dpipe = [t |-> t, miss |-> k, at |-> 0, got |-> 0, g |-> "run", pipe |-> "open",
           reader |-> "open", errch |-> "none", h |-> "emit", client |-> "there"]

\* Written and read, the two sides of a pipe: the response takes it as it comes.
PipeSends == /\ dpipe.g = "run" /\ dpipe.h = "emit" /\ dpipe.reader = "open"
             /\ dpipe.client = "there"
             /\ dpipe.at < PipeChunks /\ dpipe.miss # dpipe.at + 1
             /\ dpipe' = [dpipe EXCEPT !.at = @ + 1, !.got = @ + 1]

PartialSkips == /\ dpipe.g = "run" /\ dpipe.t.skips
                /\ dpipe.at < PipeChunks /\ dpipe.miss = dpipe.at + 1
                /\ dpipe' = [dpipe EXCEPT !.at = @ + 1]

\* checkErrAndClosePipe.
FailedPipe == [dpipe EXCEPT !.g = "done", !.pipe = "err"]

FailedErrCh == [dpipe EXCEPT !.g = "ends", !.errch = "err"]

Failed == IF dpipe.t.errch THEN FailedErrCh ELSE FailedPipe

\* A block is missing, or decoding it fails or panics; waiting for it ends at the
\* latest when the requester leaves. Or nobody reads the pipe any longer.
PipeFails == /\ dpipe.g = "run"
             /\ \/ ~dpipe.t.skips /\ dpipe.at < PipeChunks /\ dpipe.miss = dpipe.at + 1
                \/ dpipe.reader = "closed" /\ dpipe.at < PipeChunks
             /\ dpipe' = Failed

PipeEnds == /\ dpipe.g = "run" /\ dpipe.at = PipeChunks
            /\ dpipe' = IF dpipe.t.errch THEN [dpipe EXCEPT !.g = "ends"]
                        ELSE [dpipe EXCEPT !.g = "done", !.pipe = "eof"]

\* The deferred closes, the pipe's first.
ExportCloses == /\ dpipe.g = "ends"
                /\ dpipe' = [dpipe EXCEPT !.g = "closed", !.pipe = "eof"]

ExportClosesErrCh == /\ dpipe.g = "closed"
                     /\ dpipe' = [dpipe EXCEPT !.g = "done",
                                    !.errch = IF @ = "none" THEN "closed" ELSE @]

PipeClientLeaves == /\ dpipe.h = "emit" /\ dpipe.client = "there"
                    /\ dpipe' = [dpipe EXCEPT !.client = "gone"]

\* What was read cannot be written: `dag export` closes its end of the pipe.
EmitFails == /\ dpipe.h = "emit" /\ dpipe.client = "gone"
             /\ dpipe.g = "run" /\ dpipe.at < PipeChunks /\ dpipe.reader = "open"
             /\ dpipe' = [dpipe EXCEPT !.h = "error",
                            !.reader = IF dpipe.t.closer THEN @ ELSE "closed"]

\* The goroutine of `get` that waits for the context of the request.
GetCloser == /\ dpipe.t.closer /\ dpipe.reader = "open"
             /\ dpipe.client = "gone" \/ dpipe.h \in {"ok", "error"}
             /\ dpipe' = [dpipe EXCEPT !.reader = "closed",
                            !.h = IF @ = "emit" THEN "error" ELSE @]

EmitEnds == /\ dpipe.h = "emit" /\ dpipe.reader = "open" /\ dpipe.pipe # "open"
            /\ dpipe' = [dpipe EXCEPT !.h = CASE dpipe.pipe = "err" -> "error"
                                              [] dpipe.pipe # "err" /\ dpipe.t.errch -> "await"
                                              [] OTHER -> "ok"]

ExportAwaits == /\ dpipe.h = "await" /\ dpipe.errch # "none"
                /\ dpipe' = [dpipe EXCEPT !.h = IF dpipe.errch = "err" THEN "error" ELSE "ok"]

PipeGoroutine == PipeSends \/ PartialSkips \/ PipeFails \/ PipeEnds \/ ExportCloses
                 \/ ExportClosesErrCh

PipeHandler == EmitFails \/ GetCloser \/ EmitEnds \/ ExportAwaits

PipeNext == PipeGoroutine \/ PipeHandler \/ PipeClientLeaves

-----------------------------------------------------------------------------
(* ls *)

LsKinds == {"dir", "links"}

\* g: the goroutine that runs Unixfs().Ls; inner: the one that lsFromLinks starts,
\* with its buffer; lserr: what the handler will receive.
LsFresh == [g |-> "run", inner |-> "run", buf |-> 0, errs |-> "nil", lserr |-> "none",
            made |-> 0, sent |-> 0]

LsInit == \E kinds \in [1..2 -> LsKinds], stream \in BOOLEAN, k \in 0..LsEntries:
  dls = [kinds |-> kinds, stream |-> stream, miss |-> k, i |-> 1, l |-> LsFresh,
         h |-> "range", ctx |-> "live", client |-> "there", listed |-> <<>>]

LsKind == dls.kinds[dls.i]

LsMade == [dls EXCEPT !.l.made = @ + 1]

LsMisses == dls.miss = dls.l.made + 1

\* An entry reaches the handler, which keeps it or, streaming, emits it. When
\* that fails the handler returns and cancels the context it gave to Ls.
LsReceived(s) == IF s.stream /\ s.client = "gone"
                 THEN [s EXCEPT !.l.sent = @ + 1, !.h = "error", !.ctx = "done"]
                 ELSE [s EXCEPT !.l.sent = @ + 1]

\* lsFromDirLinks.
DirSends == /\ LsKind = "dir" /\ dls.l.g = "run" /\ dls.h = "range"
            /\ dls.l.made < LsEntries /\ ~LsMisses
            /\ dls' = LsReceived(LsMade)

DirFails == /\ LsKind = "dir" /\ dls.l.g = "run"
            /\ dls.l.made < LsEntries /\ LsMisses
            /\ dls' = [dls EXCEPT !.l.g = "closed", !.l.errs = "err"]

\* The context is over, or there are no more entries: no error either way.
DirEnds == /\ LsKind = "dir" /\ dls.l.g = "run"
           /\ dls.l.made = LsEntries \/ dls.ctx = "done"
           /\ dls' = [dls EXCEPT !.l.g = "closed"]

\* lsFromLinks, the goroutine that processes links into a buffer that fits all.
LinksProcess == /\ LsKind = "links" /\ dls.l.inner = "run"
                /\ dls.l.made < LsEntries /\ ~LsMisses
                /\ dls' = [LsMade EXCEPT !.l.buf = @ + 1]

LinksFail == /\ LsKind = "links" /\ dls.l.inner = "run"
             /\ dls.l.made < LsEntries /\ LsMisses
             /\ dls' = [dls EXCEPT !.l.inner = "done", !.l.errs = "err"]

LinksEnd == /\ LsKind = "links" /\ dls.l.inner = "run"
            /\ dls.l.made = LsEntries \/ dls.ctx = "done"
            /\ dls' = [dls EXCEPT !.l.inner = "done"]

\* Its caller hands them on; the send has no way out but a reader.
LinksSend == /\ LsKind = "links" /\ dls.l.g = "run" /\ dls.l.buf > 0 /\ dls.h = "range"
             /\ dls' = LsReceived([dls EXCEPT !.l.buf = @ - 1])

LinksReturn == /\ LsKind = "links" /\ dls.l.g = "run" /\ dls.l.buf = 0
               /\ dls.l.inner = "done"
               /\ dls' = [dls EXCEPT !.l.g = "closed"]

\* Ls has closed the channel on its way out; what it returned goes into lsErr,
\* or what was recovered from its panic.
LsReturns == /\ dls.l.g = "closed"
             /\ dls' = [dls EXCEPT !.l.g = "done", !.l.lserr = dls.l.errs]

\* The handler's loop is over; the next path, or the whole output.
LsRangeEnds == /\ dls.h = "range" /\ dls.l.g \in {"closed", "done"}
               /\ dls' = [dls EXCEPT !.h = "await"]

LsAwaits == /\ dls.h = "await" /\ dls.l.lserr # "none"
            /\ dls' = IF dls.l.lserr = "err" THEN [dls EXCEPT !.h = "error", !.ctx = "done"]
                      ELSE IF dls.i < Len(dls.kinds)
                      THEN [dls EXCEPT !.h = "range", !.i = @ + 1, !.l = LsFresh,
                              !.listed = Append(@, dls.l.sent)]
                      ELSE [dls EXCEPT !.h = "ok", !.ctx = "done",
                              !.listed = Append(@, dls.l.sent)]

LsClientLeaves == /\ dls.h \in {"range", "await"} /\ dls.client = "there"
                  /\ dls' = [dls EXCEPT !.client = "gone", !.ctx = "done"]

LsSteps == DirSends \/ DirFails \/ DirEnds \/ LinksProcess \/ LinksFail \/ LinksEnd
           \/ LinksSend \/ LinksReturn \/ LsReturns \/ LsRangeEnds \/ LsAwaits

LsNext == LsSteps \/ LsClientLeaves

-----------------------------------------------------------------------------
(* dag import *)

Closure(n) == LET f[k \in 0..Cardinality(INodes)] ==
                    IF k = 0 THEN {n} ELSE f[k - 1] \union UNION {ILinks[m]: m \in f[k - 1]}
              IN f[Cardinality(INodes)]

ImpInit == \E pin, fault \in BOOLEAN:
  dimp = [pin |-> pin, fault |-> fault, pc |-> "lock", lock |-> FALSE, cars |-> 0, n |-> 0,
          roots |-> {}, read |-> {}, batch |-> {}, lost |-> FALSE, mangled |-> FALSE,
          store |-> {}, pins |-> {}, todo |-> {}, told |-> [r \in INodes |-> "none"]]

\* Mutant: the collector may run until the roots are pinned.
ImpLocksNot == /\ dimp.pc = "lock"
               /\ dimp' = [dimp EXCEPT !.pc = "open"]

\* Without roots to pin, and with --local-only, no lock is taken.
ImpLocks == /\ dimp.pc = "lock"
            /\ dimp' = [dimp EXCEPT !.pc = "open", !.lock = dimp.pin]

\* The header of the next file names roots.
ImpOpens == /\ dimp.pc = "open" /\ dimp.cars < MaxCars
            /\ \E R \in SUBSET INodes:
                 dimp' = [dimp EXCEPT !.pc = "read", !.cars = @ + 1, !.roots = @ \union R]

\* batch.Add: a full batch is written in the background, and what went wrong
\* there is the error of a later call.
BatchAdd(s, n) ==
  LET full == Cardinality(s.batch \union {n}) >= BatchMax
  IN IF ~full THEN {[s EXCEPT !.batch = @ \union {n}]}
     ELSE {[s EXCEPT !.batch = {}, !.store = @ \union s.batch \union {n}]}
          \union (IF s.fault THEN {[s EXCEPT !.batch = {}, !.lost = TRUE]} ELSE {})

ImpReads == /\ dimp.pc = "read" /\ dimp.n < MaxCarBlocks /\ ~dimp.lost
            /\ \E n \in INodes: \E s \in BatchAdd(dimp, n):
                 dimp' = [s EXCEPT !.n = @ + 1, !.read = @ \union {n}]

ImpFileEnds == /\ dimp.pc = "read"
               /\ dimp' = [dimp EXCEPT !.pc = "open"]

\* A truncated or mangled file, a block that is too large or cannot be decoded,
\* or the error of the batch.
ImpReadFails == /\ dimp.pc = "read"
                /\ dimp' = [dimp EXCEPT !.pc = "error", !.lock = FALSE, !.mangled = TRUE]

ImpCommits == /\ dimp.pc = "open" /\ dimp.cars > 0 /\ ~dimp.lost
              /\ dimp' = [dimp EXCEPT !.pc = "pin", !.batch = {},
                            !.store = @ \union dimp.batch,
                            !.todo = IF dimp.pin THEN dimp.roots ELSE {}]

ImpCommitFails == /\ dimp.pc = "open" /\ dimp.cars > 0 /\ dimp.lost
                  /\ dimp' = [dimp EXCEPT !.pc = "error", !.lock = FALSE]

\* Pin reads the whole DAG.
ImpPins(r) == /\ dimp.pc = "pin" /\ r \in dimp.todo
              /\ Closure(r) \subseteq dimp.store
              /\ dimp' = [dimp EXCEPT !.todo = @ \ {r}, !.told[r] = "ok", !.pins = @ \union {r}]

ImpPinMisses(r) == /\ dimp.pc = "pin" /\ r \in dimp.todo
                   /\ ~(Closure(r) \subseteq dimp.store)
                   /\ dimp' = [dimp EXCEPT !.todo = @ \ {r}, !.told[r] = "missing"]

\* The pinner cannot write, or cannot flush what it has pinned.
ImpPinFaults(r) == /\ dimp.pc = "pin" /\ dimp.fault /\ r \in dimp.todo
                   /\ \E P \in {{}, {r}}:
                        /\ P # {} => Closure(r) \subseteq dimp.store
                        /\ dimp' = [dimp EXCEPT !.todo = @ \ {r}, !.told[r] = "fault",
                                      !.pins = @ \union P]

\* The root cannot be reported: the requester has left.
ImpEmitFails == /\ dimp.pc = "pin" /\ dimp.todo # {}
                /\ dimp' = [dimp EXCEPT !.pc = "error", !.lock = FALSE]

ImpReturns == /\ dimp.pc = "pin" /\ dimp.todo = {}
              /\ dimp' = [dimp EXCEPT !.pc = "ok", !.lock = FALSE]

\* External: the garbage collector, which takes the lock exclusively.
ImpCollected == /\ ~dimp.lock
                /\ dimp' = [dimp EXCEPT !.store = @ \intersect UNION {Closure(r): r \in dimp.pins}]

ImpNext == \/ ImpLocks \/ ImpOpens \/ ImpReads \/ ImpFileEnds \/ ImpReadFails
           \/ ImpCommits \/ ImpCommitFails
           \/ \E r \in INodes: ImpPins(r) \/ ImpPinMisses(r) \/ ImpPinFaults(r)
           \/ ImpEmitFails \/ ImpReturns \/ ImpCollected

-----------------------------------------------------------------------------
(* Properties *)

\* A `get` or a `dag export` that ends without an error has sent all of it; what
\* --local-only leaves out is what it could not find.
PipeWhole == dpipe.h = "ok" => dpipe.got = IF dpipe.t.skips /\ dpipe.miss > 0
                                           THEN PipeChunks - 1 ELSE PipeChunks

\* Neither the goroutine that writes into the pipe nor the handler stays behind
\* when the requester leaves in the middle, or a block never comes.
PipeGone == []<>(dpipe.client = "gone" => dpipe.g = "done" /\ dpipe.h \in {"ok", "error"})

\* An `ls` that reports no error to a requester who is still there has listed
\* every entry of every path.
LsWhole == (dls.h = "ok" /\ dls.client = "there") =>
             \A i \in DOMAIN dls.listed: dls.listed[i] = LsEntries

\* The goroutine that lists a directory ends, also when the handler has returned
\* in the middle of it.
LsGone == []<>(dls.h = "error" => (LsKind = "dir" => dls.l.g = "done"))

\* A root whose whole DAG was in the files is pinned (unless the pinner itself
\* fails), however large the files are and whenever the collector runs; and what
\* was reported as pinned stays.
RootsSurvive == /\ \A r \in INodes: dimp.told[r] = "ok" => Closure(r) \subseteq dimp.store
                /\ (dimp.pc = "ok" /\ dimp.pin) => \A r \in dimp.roots:
                     Closure(r) \subseteq dimp.read => dimp.told[r] \in {"ok", "fault"}

\* No root is pinned unless every file was read to its end and everything in
\* them was written.
PinsLast == dimp.pins # {} => ~dimp.mangled /\ ~dimp.lost

\* refs, stat and cat compute exactly what the DAGs and files hold.
DagExact == RefsExact /\ StatExact /\ CatExact

\* A stream that ends well is whole; an import pins what it has read completely,
\* and keeps it from the collector until then.
StreamsWhole == PipeWhole /\ LsWhole /\ RootsSurvive /\ PinsLast
=============================================================================
