----------------------------- MODULE FilesCmds -----------------------------
(* The `ipfs files` commands on one MFS tree: core/commands/files.go.  They    *)
(* share the pin lock, so nothing keeps two of them apart; MFS locks single    *)
(* calls.  MFS holds the tree in memory: an entry has the content that was     *)
(* written last (v) and the one its directory would be stored with (base).     *)
(* A flush stores a directory with all that is below it, and the directories   *)
(* above it as they are.  Here two levels, and only files are moved or copied; *)
(* the stored root reaches the datastore a moment later, which is left out.    *)
EXTENDS Naturals, Sequences, FiniteSets, FiniteSetsExt

CONSTANTS
  Callers,      \* commands that run at a time
  FileDirs,     \* directories
  FileNames,    \* paths of files, <<directory, name>>
  NoFlushLimit, \* Internal.MFSNoFlushLimit; 0 is none
  MaxFileOps    \* bound on commands

FileTop == <<>>
FilePaths == {<<d>> : d \in FileDirs} \cup FileNames
Absent == [id |-> 0, kind |-> "none", v |-> "", base |-> ""]

VARIABLES
  mem,      \* path -> entry
  stored,   \* path -> [id, v], the stored root
  counter,  \* noFlushOperationCounter
  job,      \* caller -> its command
  nfiles,   \* commands so far; an entry's id is made from its command's number
  daemon,   \* whether the daemon runs
  acked,    \* [p, img] a command reported stored, and no later command touched
  refused   \* whether a command that the limit refused had changed the tree

fileVars == <<mem, stored, counter, job, nfiles, daemon, acked, refused>>

Here(p) == mem[p].id # 0
Dir(p) == SubSeq(p, 1, Len(p) - 1)
IsDir(p) == p = FileTop \/ mem[p].kind = "dir"
Below(p) == {q \in FilePaths : Len(q) >= Len(p) /\ SubSeq(q, 1, Len(p)) = p}

Image(e) == [id |-> e.id, v |-> e.v]
BaseImage(e) == [id |-> e.id, v |-> e.base]
NoJob == [op |-> "none", at |-> "idle", src |-> <<>>, dst |-> <<>>, flush |-> TRUE,
          force |-> FALSE, parents |-> FALSE, h |-> 0, n |-> 0, alone |-> TRUE, args |-> {}, done |-> {}, made |-> FALSE]

\* FlushPath of dir in tree t: what is below it is stored as it is, the entries
\* of the directories above it as these hold them; a directory that was not
\* stored before is empty.
FlushPath(dir, t) ==
  /\ stored' = [p \in FilePaths |->
       IF p \in Below(dir) \ {dir} THEN Image(t[p])
       ELSE IF Dir(p) = FileTop \/ Dir(p) = Dir(dir) THEN BaseImage(t[p])
       ELSE IF stored[Dir(p)].id = t[Dir(p)].id THEN stored[p] ELSE Image(Absent)]
  /\ mem' = [p \in FilePaths |-> IF p \in Below(dir) THEN [t[p] EXCEPT !.base = t[p].v] ELSE t[p]]

-----------------------------------------------------------------------------
(* Callers and the limit on unflushed operations *)

Running(c) == job[c].at # "idle"
AtStep(c, op, at) == job[c].op = op /\ job[c].at = at
To(c, at) == job' = [job EXCEPT ![c].at = at]

\* What a command names, and what a removal takes with it.
Touches(j) == UNION {Below(p) : p \in ({j.src, j.dst} \ {<<>>}) \cup j.args \cup j.done}
                \cup (IF j.parents THEN {Dir(j.dst)} ELSE {})

\* A request may come in from c.
MayBegin(c) == daemon /\ ~Running(c) /\ nfiles < MaxFileOps

Begin(c, j) ==
  /\ MayBegin(c) /\ nfiles' = nfiles + 1
  /\ LET met == {d \in Callers : Running(d) /\ Touches(job[d]) \cap Touches(j) # {}}
     IN  job' = [d \in Callers |-> IF d = c THEN [j EXCEPT !.alone = met = {}, !.n = nfiles + 1]
                                   ELSE [job[d] EXCEPT !.alone = @ /\ d \notin met]]
  /\ acked' = {a \in acked : a.p \notin Touches(j)}

\* A command ends: without an error it vouches for its effect, if it flushed
\* and no other command named the same paths meanwhile.
Fails(c) == job' = [job EXCEPT ![c] = NoJob] /\ UNCHANGED acked
Succeeds(c, ps, t) ==
  /\ job' = [job EXCEPT ![c] = NoJob]
  /\ acked' = IF job[c].flush /\ job[c].alone
              THEN acked \cup {[p |-> p, img |-> Image(t[p])] : p \in ps} ELSE acked

LimitReached == NoFlushLimit > 0 /\ counter >= NoFlushLimit

\* updateNoFlushCounter: a flushing command resets the counter ...
CountReset(c, next) ==
  /\ job[c].at = "count" /\ job[c].flush
  /\ counter' = 0 /\ To(c, next)
  /\ UNCHANGED <<mem, stored, nfiles, daemon, acked, refused>>

\* ... another reads it and is refused ...
CountRefused(c) ==
  /\ job[c].at = "count" /\ ~job[c].flush /\ LimitReached
  /\ refused' = (refused \/ job[c].made)
  /\ Fails(c)
  /\ UNCHANGED <<mem, stored, counter, nfiles, daemon>>

\* ... or, in a second step, adds to it.
CountLoad(c) ==
  /\ job[c].at = "count" /\ ~job[c].flush /\ ~LimitReached
  /\ To(c, "add")
  /\ UNCHANGED <<mem, stored, counter, nfiles, daemon, acked, refused>>
CountAdd(c, next) ==
  /\ job[c].at = "add" /\ counter' = counter + 1 /\ To(c, next)
  /\ UNCHANGED <<mem, stored, nfiles, daemon, acked, refused>>

Count(c) ==
  LET next == IF job[c].op \in {"cp", "mv", "mkdir"} THEN "put" ELSE "open"
  IN  CountReset(c, next) \/ CountRefused(c) \/ CountLoad(c) \/ CountAdd(c, next)

\* ensureContainingDirectoryExists
WithParent(c, t) ==
  LET d == Dir(job[c].dst)
  IN  IF job[c].parents /\ d # FileTop /\ t[d].id = 0
      THEN [t EXCEPT ![d] = [id |-> 2 * job[c].n + 1, kind |-> "dir", v |-> "", base |-> ""]] ELSE t

-----------------------------------------------------------------------------
(* write: filesWriteCmd *)

WriteBegin(c, p, flush, parents) ==
  /\ Begin(c, [NoJob EXCEPT !.op = "write", !.at = "count", !.dst = p, !.flush = flush, !.parents = parents])
  /\ UNCHANGED <<mem, stored, counter, daemon, refused>>

\* The parents, then getFileHandle with --create.
WriteOpen(c) ==
  LET p == job[c].dst  t == WithParent(c, mem)
  IN  /\ AtStep(c, "write", "open")
      /\ \/ /\ Dir(p) # FileTop /\ t[Dir(p)].kind # "dir"
            /\ mem' = t /\ Fails(c)
         \/ /\ Dir(p) = FileTop \/ t[Dir(p)].kind = "dir"
            /\ LET e == IF t[p].id # 0 THEN t[p]
                        ELSE [id |-> 2 * job[c].n, kind |-> "file", v |-> "", base |-> ""]
               IN  /\ mem' = [t EXCEPT ![p] = e]
                   /\ job' = [job EXCEPT ![c].at = "copy", ![c].h = e.id]
            /\ UNCHANGED acked
  /\ UNCHANGED <<stored, counter, nfiles, daemon, refused>>

\* The copy, and Close: with Sync it reaches the stored root at once.  The
\* content goes nowhere if the handle's entry was replaced.
WriteClose(c) ==
  LET p == job[c].dst
  IN  /\ AtStep(c, "write", "copy")
      /\ IF mem[p].id = job[c].h
         THEN IF job[c].flush THEN FlushPath(p, [mem EXCEPT ![p].v = "w"])
              ELSE mem' = [mem EXCEPT ![p].v = "w"] /\ UNCHANGED stored
         ELSE UNCHANGED <<mem, stored>>
      /\ IF job[c].flush THEN To(c, "flush") /\ UNCHANGED acked ELSE Succeeds(c, {}, mem)
  /\ UNCHANGED <<counter, nfiles, daemon, refused>>

\* The deferred flush of the parent, which a removal may have taken away.
WriteFlush(c) ==
  /\ AtStep(c, "write", "flush")
  /\ \/ IsDir(Dir(job[c].dst)) /\ FlushPath(Dir(job[c].dst), mem) /\ Succeeds(c, {job[c].dst}, mem)
     \/ ~IsDir(Dir(job[c].dst)) /\ Fails(c) /\ UNCHANGED <<mem, stored>>
  /\ UNCHANGED <<counter, nfiles, daemon, refused>>

-----------------------------------------------------------------------------
(* cp: filesCpCmd.  The source is content or a file of the tree. *)

CpBegin(c, s, p, flush, force, parents) ==
  /\ s # <<>> => mem[s].kind = "file"
  /\ Begin(c, [NoJob EXCEPT !.op = "cp", !.at = "prepare", !.src = s, !.dst = p, !.flush = flush,
                            !.force = force, !.parents = parents])
  /\ UNCHANGED <<mem, stored, counter, daemon, refused>>

\* The parents are made and --force unlinks the file that is there.
CpPrepare(c) ==
  LET p == job[c].dst  t == WithParent(c, mem)
  IN  /\ AtStep(c, "cp", "prepare")
      /\ mem' = IF job[c].force /\ t[p].kind = "file" THEN [t EXCEPT ![p] = Absent] ELSE t
      /\ job' = [job EXCEPT ![c].at = "count", ![c].made = mem' # mem]
  /\ UNCHANGED <<stored, counter, nfiles, daemon, acked, refused>>

\* PutNode: the directory must be there and the name free.
CanPut(p) == ~Here(p) /\ IsDir(Dir(p))

CpPut(c) ==
  LET p == job[c].dst
  IN  /\ AtStep(c, "cp", "put")
      /\ IF ~CanPut(p) THEN Fails(c) /\ UNCHANGED mem
         ELSE /\ mem' = [mem EXCEPT ![p] = [id |-> 2 * job[c].n, kind |-> "file", v |-> "c", base |-> "c"]]
              /\ IF job[c].flush THEN To(c, "flush") /\ UNCHANGED acked ELSE Succeeds(c, {}, mem)
  /\ UNCHANGED <<stored, counter, nfiles, daemon, refused>>

\* The file, then its parent.
CpFlush(c) ==
  LET p == job[c].dst
  IN  \/ /\ AtStep(c, "cp", "flush") /\ UNCHANGED acked
         /\ \/ Here(p) /\ FlushPath(p, mem) /\ To(c, "parent")
            \/ ~Here(p) /\ job' = [job EXCEPT ![c] = NoJob] /\ UNCHANGED <<mem, stored>>
         /\ UNCHANGED <<counter, nfiles, daemon, refused>>
      \/ /\ AtStep(c, "cp", "parent")
         /\ \/ IsDir(Dir(p)) /\ FlushPath(Dir(p), mem) /\ Succeeds(c, {p}, mem)
            \/ ~IsDir(Dir(p)) /\ Fails(c) /\ UNCHANGED <<mem, stored>>
         /\ UNCHANGED <<counter, nfiles, daemon, refused>>

-----------------------------------------------------------------------------
(* mv: filesMvCmd *)

MvBegin(c, s, p, flush) ==
  /\ s # p
  /\ Begin(c, [NoJob EXCEPT !.op = "mv", !.at = "count", !.src = s, !.dst = p, !.flush = flush])
  /\ UNCHANGED <<mem, stored, counter, daemon, refused>>

\* mfs.Mv: the node is put under its new name, in place of a file that is
\* there, then the old name is unlinked.
MvMove(c) ==
  LET s == job[c].src  p == job[c].dst
  IN  /\ AtStep(c, "mv", "put")
      /\ IF mem[s].kind # "file" \/ ~IsDir(Dir(p)) THEN Fails(c) /\ UNCHANGED mem
         ELSE /\ mem' = [mem EXCEPT ![s] = Absent,
                         ![p] = [id |-> 2 * job[c].n, kind |-> "file", v |-> mem[s].v, base |-> mem[s].v]]
              /\ IF job[c].flush THEN To(c, "dst") /\ UNCHANGED acked ELSE Succeeds(c, {}, mem)
  /\ UNCHANGED <<stored, counter, nfiles, daemon, refused>>

\* Mutant of MvNext: only the destination's directory is flushed.
MvNextDst(c) == "done"

\* The directories are flushed in this order; the same one only once.
MvNext(c) ==
  CASE job[c].at = "dst" /\ Dir(job[c].src) # Dir(job[c].dst) -> "src"
    [] job[c].at = "src" \/ (job[c].at = "dst" /\ Dir(job[c].src) = Dir(job[c].dst)) -> "root"
    [] OTHER -> "done"

MvFlush(c) ==
  LET dir == CASE job[c].at = "dst" -> Dir(job[c].dst) [] job[c].at = "src" -> Dir(job[c].src)
               [] OTHER -> FileTop
  IN  /\ job[c].op = "mv" /\ job[c].at \in {"dst", "src", "root"}
      /\ IF IsDir(dir)
         THEN /\ FlushPath(dir, mem)
              /\ IF MvNext(c) = "done" THEN Succeeds(c, {job[c].src, job[c].dst}, mem)
                 ELSE To(c, MvNext(c)) /\ UNCHANGED acked
         ELSE Fails(c) /\ UNCHANGED <<mem, stored>>
  /\ UNCHANGED <<counter, nfiles, daemon, refused>>

-----------------------------------------------------------------------------
(* mkdir, flush, rm, chmod and touch *)

MkdirBegin(c, p, flush) ==
  /\ Begin(c, [NoJob EXCEPT !.op = "mkdir", !.at = "count", !.dst = p, !.flush = flush])
  /\ UNCHANGED <<mem, stored, counter, daemon, refused>>

MkdirMake(c) ==
  LET p == job[c].dst
      t == [mem EXCEPT ![p] = [id |-> 2 * job[c].n + 1, kind |-> "dir", v |-> "", base |-> ""]]
  IN  /\ AtStep(c, "mkdir", "put")
      /\ IF Here(p) THEN Fails(c) /\ UNCHANGED <<mem, stored>>
         ELSE /\ IF job[c].flush THEN FlushPath(p, t) ELSE mem' = t /\ UNCHANGED stored
              /\ Succeeds(c, {p}, t)
  /\ UNCHANGED <<counter, nfiles, daemon, refused>>

\* filesFlushCmd resets the counter whatever path it flushed.
Flush(c, p) ==
  /\ MayBegin(c) /\ nfiles' = nfiles + 1
  /\ p # FileTop => Here(p)
  /\ FlushPath(p, mem) /\ counter' = 0
  /\ UNCHANGED <<job, daemon, acked, refused>>

RmBegin(c, ps) ==
  /\ Begin(c, [NoJob EXCEPT !.op = "rm", !.at = "each", !.args = ps])
  /\ UNCHANGED <<mem, stored, counter, daemon, refused>>

Removed(p) == [q \in FilePaths |-> IF q \in Below(p) THEN Absent ELSE mem[q]]

\* removePath of the next argument; the command goes on after an error.  An
\* argument that is not there is an error, or with --force is passed over
\* without a flush.
RmEach(c, p) ==
  LET left == job[c].args \ {p}
      done == IF Here(p) THEN job[c].done \cup {p} ELSE job[c].done
  IN  /\ AtStep(c, "rm", "each") /\ p \in job[c].args
      /\ IF Here(p) THEN FlushPath(Dir(p), Removed(p)) ELSE UNCHANGED <<mem, stored>>
      /\ IF left # {} THEN job' = [job EXCEPT ![c].args = left, ![c].done = done] /\ UNCHANGED acked
         ELSE Succeeds(c, done, [q \in FilePaths |-> Absent])
  /\ UNCHANGED <<counter, nfiles, daemon, refused>>

\* chmod and touch: mfs.Chmod and mfs.Touch store the entry.
ChangeMeta(c, p) ==
  /\ MayBegin(c) /\ nfiles' = nfiles + 1
  /\ mem[p].kind = "file"
  /\ \A d \in Callers : Running(d) => p \notin Touches(job[d])
  /\ FlushPath(p, [mem EXCEPT ![p].v = "m"])
  /\ acked' = {a \in acked : a.p # p}
  /\ UNCHANGED <<counter, job, daemon, refused>>

\* chcid of a directory: it and its parent are flushed, the counter is left alone.
Chcid(c, d) ==
  /\ MayBegin(c) /\ nfiles' = nfiles + 1
  /\ IsDir(<<d>>)
  /\ FlushPath(FileTop, mem)
  /\ UNCHANGED <<counter, job, daemon, acked, refused>>

\* What stat, ls and read report; they read the tree in memory.
StatOf(p) == IF p = FileTop THEN "dir" ELSE mem[p].kind
LsOf(p) == IF StatOf(p) = "file" THEN {p} ELSE {q \in FilePaths : Dir(q) = p /\ Here(q)}
ReadOf(p) == IF StatOf(p) = "file" THEN mem[p].v ELSE "error"

-----------------------------------------------------------------------------
(* The daemon stops, which closes the root, and starts; `files chroot` opens   *)
(* the repository itself, so it needs the daemon to be down.                   *)

Stop ==
  /\ daemon /\ \A c \in Callers : ~Running(c)
  /\ daemon' = FALSE /\ counter' = 0
  /\ FlushPath(FileTop, mem)
  /\ UNCHANGED <<job, nfiles, acked, refused>>

Start == ~daemon /\ daemon' = TRUE /\ UNCHANGED <<mem, stored, counter, job, nfiles, acked, refused>>

\* Without an argument: the empty directory.
Chroot ==
  /\ ~daemon /\ nfiles < MaxFileOps /\ nfiles' = nfiles + 1
  /\ stored' = [p \in FilePaths |-> Image(Absent)] /\ mem' = [p \in FilePaths |-> Absent]
  /\ acked' = {}
  /\ UNCHANGED <<counter, job, daemon, refused>>

\* The tree of earlier commands: empty, or every directory and one file.  The
\* counter may be at the limit: a command that fails after it is counted too.
FilesInit ==
  /\ \/ mem = [p \in FilePaths |-> Absent]
     \/ \E f \in FileNames :
          mem = [p \in FilePaths |->
            IF Len(p) = 1 THEN [id |-> 1, kind |-> "dir", v |-> "", base |-> ""]
            ELSE IF p = f THEN [id |-> 1, kind |-> "file", v |-> "o", base |-> "o"] ELSE Absent]
  /\ stored = [p \in FilePaths |-> Image(mem[p])]
  /\ counter \in {0, NoFlushLimit} /\ job = [c \in Callers |-> NoJob] /\ nfiles = 0 /\ daemon = TRUE
  /\ acked = {} /\ refused = FALSE

FilesNext ==
  \/ \E c \in Callers :
       /\ Running(c)
       /\ \/ Count(c) \/ WriteOpen(c) \/ WriteClose(c) \/ WriteFlush(c)
          \/ CpPrepare(c) \/ CpPut(c) \/ CpFlush(c) \/ MvMove(c) \/ MvFlush(c) \/ MkdirMake(c)
          \/ \E p \in job[c].args : RmEach(c, p)
  \/ \E c \in Callers :
       /\ MayBegin(c)
       /\ \/ \E p \in FileNames, flush \in BOOLEAN :
               \/ \E parents \in BOOLEAN : WriteBegin(c, p, flush, parents)
               \/ \E s \in FileNames : MvBegin(c, s, p, flush)
               \/ \E s \in FileNames \cup {<<>>}, force, parents \in BOOLEAN :
                    CpBegin(c, s, p, flush, force, parents)
          \/ \E d \in FileDirs : Chcid(c, d) \/ \E flush \in BOOLEAN : MkdirBegin(c, <<d>>, flush)
          \/ \E p \in FilePaths : ChangeMeta(c, p)
          \/ \E p \in FilePaths \cup {FileTop} : Flush(c, p)
          \/ \E ps \in SUBSET FilePaths : Cardinality(ps) \in 1..2 /\ RmBegin(c, ps)
  \/ Stop \/ Start \/ Chroot

FilesSpec == FilesInit /\ [][FilesNext]_fileVars

-----------------------------------------------------------------------------
(* Properties *)

\* Callers that read the counter before any of them added to it pass the limit
\* together, and no further than their number: updateNoFlushCounter's Load and
\* Add are two steps.
CounterBounded == NoFlushLimit > 0 => counter <= NoFlushLimit + Cardinality(Callers) - 1

\* What a flushing write, cp, mv, mkdir or rm reported done is in the stored
\* root until another command names it, whatever other commands flush or leave
\* unflushed in other directories, and over a restart.
AckedStored == \A a \in acked : stored[a.p] = a.img

\* ... and stat, ls and read report it: none of them shows what a command that was
\* reported done has removed, or misses or shows an older content of what it made.
AckedSeen ==
  \A a \in acked :
    IF a.img.id = 0 THEN StatOf(a.p) = "none" /\ a.p \notin LsOf(Dir(a.p))
    ELSE /\ a.p \in LsOf(Dir(a.p))
         /\ StatOf(a.p) = "file" => ReadOf(a.p) = a.img.v

\* What a flushing command reported is stored and seen, and the callers together
\* pass the limit on unflushed operations by less than their number.
FilesSafe == AckedStored /\ AckedSeen /\ CounterBounded
=============================================================================
