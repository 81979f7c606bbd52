------------------------------ MODULE FuseTree ------------------------------
(* A writable FUSE mount of an MFS tree: fuse/writable.  The kernel holds a    *)
(* node for each name it looked up; a node has an inode number and an MFS      *)
(* handle.  MFS gives an entry a new handle when it is added under another     *)
(* name, and what is written through the old one is dropped: a handle is       *)
(* <<fid, k>>, the k-th incarnation of file fid.  MFS keeps the tree in memory *)
(* and puts a directory on disk, with its ancestors, when it is flushed.       *)
(* Requests that change names are serialised by the kernel; revalidations,     *)
(* requests on open files and `ipfs files` commands are not.  The pin lock     *)
(* that every request takes is in FuseLocks; child handles that MFS replaces   *)
(* at a flush stay usable here, and requests through the node of a directory   *)
(* that a `files` command removed are left out.                                *)
EXTENDS Naturals, Sequences, FiniteSets, FiniteSetsExt, SequencesExt

CONSTANTS
  TreePaths,   \* sequences of one or two names
  StartTrees,  \* sets of paths, each with the directories it needs
  Texts,       \* contents; "" is the empty one
  Fds,         \* open files
  Fids,        \* numbers of files and directories, used once
  MaxNamespace,\* bound on requests that change names
  MaxMfsFaults \* bound on failed calls of MFS

NoEntry == [fid |-> 0, k |-> 0, kind |-> "none", text |-> ""]
NoNode == [fid |-> 0, k |-> 0, ino |-> 0]
NoFd == [fid |-> 0, k |-> 0, text |-> "", why |-> "closed"]
RootIno == 1
NoReq == [op |-> "idle", old |-> <<>>, new |-> <<>>, inos |-> <<0, 0>>, nd |-> [p \in TreePaths |-> NoEntry]]

VARIABLES
  tree,     \* path -> entry
  disk,     \* path -> [fid, text], the root that was published last
  node,     \* path -> what the kernel keeps for it
  numbers,  \* inodeTable.entries: [par, name, ino]
  nextIno,  \* inodeTable.next
  fd,       \* open files with their buffers
  req,      \* the request that is changing names
  seen,     \* a revalidation between Child and childAttr
  nops, mfaults,
  owed,     \* [fid, text] that reached the disk and nobody asked to change
  exposed,  \* files that another request's flush or a fault caught half way
  lost,     \* why accepted writes to a file that is still there were dropped
  said      \* [fid, ino] reported for files made through the mount

kernelVars == <<node, numbers, nextIno>>
ghosts == <<owed, exposed, lost, said>>
treeVars == <<tree, disk, kernelVars, fd, req, seen, nops, mfaults, ghosts>>

ParentOf(p) == SubSeq(p, 1, Len(p) - 1)
Under(p) == {q \in TreePaths : Len(q) > Len(p) /\ \A i \in 1..Len(p) : q[i] = p[i]}
At(p) == tree[p].fid # 0
\* Where an incarnation of a file, or any incarnation, is in the tree.
Where(f, k) == {p \in TreePaths : tree[p].fid = f /\ tree[p].k = k}
Lives(f) == \E p \in TreePaths : tree[p].fid = f
Used == {tree[p].fid : p \in TreePaths} \cup {fd[d].fid : d \in Fds}
          \cup {node[p].fid : p \in TreePaths} \cup {o.fid : o \in owed} \cup {s.fid : s \in said}
          \cup {disk[p].fid : p \in TreePaths} \cup {req.nd[p].fid : p \in TreePaths} \cup exposed
FreshFids == Fids \ Used
FreshFid == Min(FreshFids)

NewEntry(kind, x) == [fid |-> FreshFid, k |-> 0, kind |-> kind, text |-> x]

\* Directory.Flush: the directory, what is below it and the entries of its
\* ancestors reach the disk; what another directory has on disk stays.
Flushed(dir, t) ==
  [p \in TreePaths |->
     LET image == [fid |-> t[p].fid, text |-> t[p].text]
         up == ParentOf(p)
     IN  IF up \in {<<>>, dir} \/ dir = <<>> \/ disk[up].fid # t[up].fid
         THEN image ELSE disk[p]]

\* What is being renamed is in no directory between unlink and add, and not in
\* its new one on disk until that is flushed: another request's flush meanwhile
\* may take it off the disk.
Caught(d) ==
  IF req.op \in {"add", "target"}
  THEN {req.nd[p].fid : p \in TreePaths} \ ({0} \cup {d[p].fid : p \in TreePaths}) ELSE {}

\* What is owed once `gone` were asked to go or change and d was written to disk
\* from t.
Owed(gone, d, t) ==
  LET kept == {o \in owed : o.fid \notin gone}
      known == {0} \cup {o.fid : o \in kept}
  IN  kept \cup {d[p] : p \in {q \in TreePaths : d[q].fid = t[q].fid /\ d[q].fid \notin known}}

-----------------------------------------------------------------------------
(* Inode numbers *)

Number(par, name) ==
  IF \E e \in numbers : e.par = par /\ e.name = name
  THEN (CHOOSE e \in numbers : e.par = par /\ e.name = name).ino
  ELSE nextIno

\* inodeTable.get
Get(par, name) ==
  LET n == Number(par, name)
  IN  /\ numbers' = numbers \cup {[par |-> par, name |-> name, ino |-> n]}
      /\ nextIno' = IF n = nextIno THEN nextIno + 1 ELSE nextIno

Dropped(par, name) == {e \in numbers : e.par # par \/ e.name # name}

\* inodeTable.move
Moved(par, name, par2, name2) ==
  (Dropped(par, name) \cap Dropped(par2, name2))
    \cup {[par |-> par2, name |-> name2, ino |-> e.ino] : e \in numbers \ Dropped(par, name)}

\* The number of the directory a name is in, and whether the kernel holds it.
ParIno(p) == IF Len(p) = 1 THEN RootIno ELSE node[ParentOf(p)].ino
HasParent(p) ==
  Len(p) = 2 => LET n == node[ParentOf(p)]
                IN  /\ n.fid # 0 /\ tree[ParentOf(p)].fid = n.fid
                    /\ tree[ParentOf(p)].k = n.k /\ tree[ParentOf(p)].kind = "dir"

\* What the kernel keeps once it has been told that a name is gone.
Forgotten(ps) == [p \in TreePaths |-> IF p \in ps THEN NoNode ELSE node[p]]

Held(ps) == {req.old, req.new} \cap ps # {}

Node(e, ino) == [fid |-> e.fid, k |-> e.k, ino |-> ino]

\* Dir.Lookup numbers the entry and hands the kernel a node of a new generation;
\* the kernel looks up a name while nobody changes names.
Lookup(p) ==
  /\ req.op = "idle" /\ HasParent(p) /\ At(p)
  /\ Get(ParIno(p), p[Len(p)])
  /\ LET n == Number(ParIno(p), p[Len(p)])
     IN  /\ node' = [Forgotten(Under(p)) EXCEPT ![p] = Node(tree[p], n)]
         /\ said' = IF \A s \in said : s.fid # tree[p].fid THEN said
                    ELSE said \cup {[fid |-> tree[p].fid, ino |-> n]}
  /\ UNCHANGED <<tree, disk, fd, req, seen, nops, mfaults, owed, exposed, lost>>

\* It checks a node that timed out at any moment.  Lookup reads the entry ...
Revalidate(p) ==
  /\ seen = <<>> /\ node[p].fid # 0 /\ HasParent(p) /\ At(p)
  /\ seen' = <<p, ParIno(p)>>
  /\ UNCHANGED <<tree, disk, kernelVars, fd, req, nops, mfaults, ghosts>>

\* ... and numbers it, maybe after it has moved; the kernel drops its node,
\* since the reply has another generation, unless a request holds it.
RevalidateReply ==
  /\ seen # <<>> /\ seen' = <<>>
  /\ LET p == seen[1]
     IN  /\ Get(seen[2], p[Len(p)])
         /\ node' = IF Held({p} \cup Under(p)) THEN node ELSE Forgotten({p} \cup Under(p))
  /\ UNCHANGED <<tree, disk, fd, req, nops, mfaults, ghosts>>

\* EntryTimeout passes and the kernel drops a node that no request holds.
Expire(p) ==
  /\ node[p].fid # 0
  /\ ~Held({p} \cup Under(p))
  /\ node' = Forgotten({p} \cup Under(p))
  /\ UNCHANGED <<tree, disk, numbers, nextIno, fd, req, seen, nops, mfaults, ghosts>>

-----------------------------------------------------------------------------
(* Requests that change names *)

Namespace == nops < MaxNamespace /\ nops' = nops + 1

Stage(op) == [req EXCEPT !.op = op]

Publish(dir, t, gone) ==
  /\ disk' = Flushed(dir, t)
  /\ owed' = Owed(gone, disk', t)
  /\ exposed' = exposed \cup Caught(disk')

\* Mkdir has no Flush: the directory is on disk when something else is flushed.
Mkdir(p) ==
  /\ req.op = "idle" /\ Namespace /\ Len(p) = 1 /\ ~At(p) /\ FreshFids # {}
  /\ LET e == NewEntry("dir", "")
     IN  /\ tree' = [tree EXCEPT ![p] = e]
         /\ Get(RootIno, p[1])
         /\ node' = [Forgotten(Under(p)) EXCEPT ![p] =
              Node(e, Number(RootIno, p[1]))]
         /\ said' = said \cup {[fid |-> e.fid, ino |-> Number(RootIno, p[1])]}
  /\ UNCHANGED <<disk, fd, req, seen, mfaults, owed, exposed, lost>>

\* Create adds an empty file, flushes and opens it.
Create(p, d) ==
  /\ req.op = "idle" /\ Namespace /\ HasParent(p) /\ ~At(p) /\ FreshFids # {} /\ fd[d] = NoFd
  /\ LET e == NewEntry("file", "")
     IN  /\ tree' = [tree EXCEPT ![p] = e]
         /\ Publish(ParentOf(p), tree', {})
         /\ Get(ParIno(p), p[Len(p)])
         /\ node' = [node EXCEPT ![p] =
              Node(e, Number(ParIno(p), p[Len(p)]))]
         /\ said' = said \cup {[fid |-> e.fid, ino |-> Number(ParIno(p), p[Len(p)])]}
         /\ fd' = [fd EXCEPT ![d] = [fid |-> e.fid, k |-> 0, text |-> "", why |-> "fine"]]
  /\ UNCHANGED <<req, seen, mfaults, lost>>

Cleared(ps) == [p \in TreePaths |-> IF p \in ps THEN NoEntry ELSE tree[p]]

Unlink(p) ==
  /\ req.op = "idle" /\ Namespace /\ HasParent(p) /\ tree[p].kind = "file"
  /\ tree' = Cleared({p})
  /\ numbers' = Dropped(ParIno(p), p[Len(p)])
  /\ Publish(ParentOf(p), tree', {tree[p].fid})
  /\ node' = Forgotten({p})
  /\ UNCHANGED <<nextIno, fd, req, seen, mfaults, lost, said>>

\* Rmdir lists the directory ...
Rmdir(p) ==
  /\ req.op = "idle" /\ Namespace /\ tree[p].kind = "dir" /\ \A q \in Under(p) : ~At(q)
  /\ req' = [req EXCEPT !.op = "rmdir", !.old = p]
  /\ UNCHANGED <<tree, disk, kernelVars, fd, seen, mfaults, ghosts>>

\* ... then unlinks it, whatever is in it by now.
RmdirUnlink ==
  /\ req.op = "rmdir"
  /\ LET p == req.old
         inside == {tree[q].fid : q \in Under(p)} \ {0}
     IN  /\ tree' = Cleared({p} \cup Under(p))
         /\ numbers' = Dropped(RootIno, p[1])
         /\ disk' = Flushed(<<>>, tree')
         /\ owed' = Owed({tree[p].fid}, disk', tree')
         /\ exposed' = exposed \cup inside
         /\ node' = Forgotten({p} \cup Under(p))
  /\ req' = NoReq
  /\ UNCHANGED <<nextIno, fd, seen, nops, mfaults, lost, said>>

-----------------------------------------------------------------------------
(* Rename *)

Unlinked(p, q) == Cleared({p, q} \cup Under(p) \cup Under(q))

OtherDir(p, q) == ParentOf(p) # ParentOf(q)

\* The subtree at p moved to q, in new incarnations.
Renamed(p, q, from) ==
  [x \in TreePaths |->
     IF x \in {q} \cup Under(q)
     THEN LET y == p \o SubSeq(x, Len(q) + 1, Len(x))
          IN  IF y \in TreePaths /\ from[y].fid # 0 THEN [from[y] EXCEPT !.k = @ + 1] ELSE NoEntry
     ELSE NoEntry]

\* Child and GetNode, and the refusal of a directory with entries.  (The kernel
\* refuses to put a file onto a directory or the reverse.)
Rename(p, q) ==
  /\ req.op = "idle" /\ Namespace /\ p # q /\ HasParent(p) /\ HasParent(q)
  /\ node[p].fid # 0 /\ At(p) /\ q \notin Under(p) /\ p \notin Under(q)
  /\ tree[p].kind = "dir" => Len(q) = 1
  /\ At(q) => tree[q].kind = tree[p].kind
  /\ \A x \in Under(q) : ~At(x)
  /\ req' = [op |-> "unlink", old |-> p, new |-> q, inos |-> <<ParIno(p), ParIno(q)>>,
              nd |-> Renamed(p, q, tree)]
  /\ UNCHANGED <<tree, disk, kernelVars, fd, seen, mfaults, ghosts>>

\* A `files` command removed the entry meanwhile.
RenameGone ==
  /\ req.op = "unlink" /\ ~At(req.old) /\ req' = NoReq
  /\ UNCHANGED <<tree, disk, kernelVars, fd, seen, nops, mfaults, ghosts>>

\* Both names are unlinked.  Descriptors of the old incarnations stay open.
\* What was synced since GetNode is not in nd.
RenameUnlink ==
  /\ req.op = "unlink" /\ At(req.old) /\ req' = Stage("add")
  /\ LET p == req.old  q == req.new
         moving == {p} \cup Under(p)
         newer == {tree[x].fid : x \in {y \in moving : At(y) /\ ~\E z \in TreePaths :
                      req.nd[z].fid = tree[y].fid /\ req.nd[z].text = tree[y].text}}
         inside == {tree[x].fid : x \in Under(q)} \ {0}
     IN  /\ tree' = Unlinked(p, q)
         /\ fd' = [d \in Fds |-> IF fd[d].fid # 0 /\ \E x \in TreePaths : req.nd[x].fid = fd[d].fid
                                 THEN [fd[d] EXCEPT !.why = "open"] ELSE fd[d]]
         /\ exposed' = exposed \cup newer \cup inside
         /\ owed' = {o \in owed : o.fid # tree[q].fid}
  /\ UNCHANGED <<disk, kernelVars, seen, nops, mfaults, lost, said>>

\* The number moves and the entry is added under its new name ...
RenameAdd ==
  /\ req.op = "add" /\ ~At(req.new) /\ req' = Stage("target")
  /\ LET p == req.old  q == req.new
     IN  /\ numbers' = Moved(req.inos[1], p[Len(p)], req.inos[2], q[Len(q)])
         /\ tree' = [x \in TreePaths |-> IF req.nd[x].fid # 0 THEN req.nd[x] ELSE tree[x]]
  /\ UNCHANGED <<disk, node, nextIno, fd, seen, nops, mfaults, ghosts>>

\* ... or MFS cannot add it, or a `files` command has taken the name: it is
\* under neither name.
RenameAddFails ==
  /\ req.op = "add"
  /\ \/ At(req.new) /\ UNCHANGED mfaults
     \/ mfaults < MaxMfsFaults /\ mfaults' = mfaults + 1
  /\ LET p == req.old  q == req.new
     IN  numbers' = Moved(req.inos[1], p[Len(p)], req.inos[2], q[Len(q)])
  /\ exposed' = exposed \cup ({req.nd[x].fid : x \in TreePaths} \ {0})
  /\ req' = NoReq
  /\ UNCHANGED <<tree, disk, node, nextIno, fd, seen, nops, owed, lost, said>>

\* The destination is flushed if it is another directory ...
RenameTarget ==
  /\ req.op = "target" /\ req' = Stage("source")
  /\ IF OtherDir(req.old, req.new)
     THEN Publish(ParentOf(req.new), tree, {})
     ELSE UNCHANGED <<disk, owed, exposed>>
  /\ UNCHANGED <<tree, kernelVars, fd, seen, nops, mfaults, lost, said>>

\* Mutant of Rebound: what is under a renamed directory is not followed.
ReboundTop(p, q) ==
  [x \in TreePaths |->
     IF x \in {q} \cup Under(q)
     THEN LET y == p \o SubSeq(x, Len(q) + 1, Len(x))
          IN  IF y \notin TreePaths \/ node[y].fid = 0 THEN NoNode
              ELSE IF x = q /\ At(x) THEN [node[y] EXCEPT !.fid = tree[x].fid, !.k = tree[x].k] ELSE node[y]
     ELSE IF x \in {p} \cup Under(p) THEN NoNode ELSE node[x]]

\* ... then the source, the kernel's nodes follow the entry and are pointed at
\* the incarnations that are there now.
Rebound(p, q) ==
  [x \in TreePaths |->
     IF x \in {q} \cup Under(q)
     THEN LET y == p \o SubSeq(x, Len(q) + 1, Len(x))
          IN  IF y \notin TreePaths \/ node[y].fid = 0 THEN NoNode
              ELSE IF At(x) THEN [node[y] EXCEPT !.fid = tree[x].fid, !.k = tree[x].k] ELSE node[y]
     ELSE IF x \in {p} \cup Under(p) THEN NoNode ELSE node[x]]

RenameSource ==
  /\ req.op = "source"
  /\ Publish(ParentOf(req.old), tree, {})
  /\ node' = Rebound(req.old, req.new)
  /\ req' = NoReq
  /\ UNCHANGED <<tree, numbers, nextIno, fd, seen, nops, mfaults, lost, said>>

-----------------------------------------------------------------------------
(* Open files *)

\* FileInode.Open: a writer takes the descriptor lock of its incarnation.
Open(p, d, trunc) ==
  /\ node[p].fid # 0 /\ tree[p].kind # "dir" /\ fd[d] = NoFd
  /\ LET n == node[p]  there == Where(n.fid, n.k)
     IN  /\ \A x \in Fds : fd[x].fid # n.fid \/ fd[x].k # n.k
         /\ fd' = [fd EXCEPT ![d] =
              [fid |-> n.fid, k |-> n.k,
               text |-> IF trunc \/ there = {} THEN "" ELSE tree[CHOOSE x \in there : TRUE].text,
               why |-> IF there # {} THEN "fine" ELSE IF req.op # "idle" THEN "open" ELSE "stale"]]
  /\ UNCHANGED <<tree, disk, kernelVars, req, seen, nops, mfaults, ghosts>>

\* FileHandle.Write, and ftruncate with the empty text: the buffer changes.
Write(d, x) ==
  /\ fd[d] # NoFd /\ fd[d].text # x
  /\ fd' = [fd EXCEPT ![d].text = x]
  /\ UNCHANGED <<tree, disk, kernelVars, req, seen, nops, mfaults, ghosts>>

\* The buffer goes to the tree and from there to the disk; through an
\* incarnation that is gone, nowhere.
Commit(d) ==
  LET there == Where(fd[d].fid, fd[d].k)
  IN  IF there = {}
      THEN /\ lost' = IF Lives(fd[d].fid) THEN lost \cup {fd[d].why} ELSE lost
           /\ UNCHANGED <<tree, disk, owed, exposed>>
      ELSE LET p == CHOOSE x \in there : TRUE
           IN  /\ tree' = [tree EXCEPT ![p].text = fd[d].text]
               /\ Publish(ParentOf(p), tree', {fd[d].fid})
               /\ UNCHANGED lost

\* Flush and Fsync.
Fsync(d) ==
  /\ fd[d] # NoFd /\ Commit(d)
  /\ UNCHANGED <<kernelVars, fd, req, seen, nops, mfaults, said>>

Release(d) ==
  /\ fd[d] # NoFd /\ Commit(d) /\ fd' = [fd EXCEPT ![d] = NoFd]
  /\ UNCHANGED <<kernelVars, req, seen, nops, mfaults, said>>

\* truncate(path): a writer of its own, which waits for others to close.
TruncatePath(p) ==
  /\ node[p].fid # 0 /\ tree[p].kind = "file" /\ p \in Where(node[p].fid, node[p].k)
  /\ \A x \in Fds : fd[x].fid # node[p].fid
  /\ tree' = [tree EXCEPT ![p].text = ""]
  /\ Publish(ParentOf(p), tree', {node[p].fid})
  /\ UNCHANGED <<kernelVars, fd, req, seen, nops, mfaults, lost, said>>

-----------------------------------------------------------------------------
(* `ipfs files rm` and `write --create` on the same tree *)

FilesRm(p) ==
  /\ tree[p].kind = "file" /\ nops < MaxNamespace /\ nops' = nops + 1
  /\ tree' = Cleared({p})
  /\ Publish(ParentOf(p), tree', {tree[p].fid})
  /\ UNCHANGED <<kernelVars, fd, req, seen, mfaults, lost, said>>

FilesWrite(p, x) ==
  /\ nops < MaxNamespace /\ nops' = nops + 1
  /\ Len(p) = 2 => tree[ParentOf(p)].kind = "dir"
  /\ \/ /\ tree[p].kind = "file" /\ \A d \in Fds : fd[d].fid # tree[p].fid
        /\ tree' = [tree EXCEPT ![p].text = x]
     \/ /\ ~At(p) /\ FreshFids # {}
        /\ tree' = [tree EXCEPT ![p] = NewEntry("file", x)]
  /\ Publish(ParentOf(p), tree', {tree[p].fid})
  /\ UNCHANGED <<kernelVars, fd, req, seen, mfaults, lost, said>>

\* A mount starts on the tree that earlier sessions left.
Started(ps) ==
  [p \in TreePaths |->
     IF p \in ps THEN [fid |-> CHOOSE i \in 1..Len(SetToSeq(ps)) : SetToSeq(ps)[i] = p, k |-> 0,
                       kind |-> IF Len(p) = 1 THEN "dir" ELSE "file", text |-> ""]
     ELSE NoEntry]

TreeInit ==
  /\ tree \in {Started(ps) : ps \in StartTrees}
  /\ disk = [p \in TreePaths |-> [fid |-> tree[p].fid, text |-> tree[p].text]]
  /\ node = [p \in TreePaths |-> NoNode] /\ numbers = {} /\ nextIno = RootIno + 1
  /\ fd = [d \in Fds |-> NoFd] /\ req = NoReq /\ seen = <<>>
  /\ nops = 0 /\ mfaults = 0 /\ owed = {disk[p] : p \in {q \in TreePaths : At(q)}} /\ exposed = {} /\ lost = {} /\ said = {}

TreeNext ==
  \/ /\ nops < MaxNamespace
     /\ \E p \in TreePaths :
          \/ Mkdir(p) \/ Unlink(p) \/ Rmdir(p) \/ FilesRm(p)
          \/ \E q \in TreePaths : Rename(p, q)
          \/ \E x \in Texts : FilesWrite(p, x)
          \/ \E d \in Fds : Create(p, d)
  \/ \E p \in TreePaths :
       \/ Lookup(p) \/ Revalidate(p) \/ Expire(p) \/ TruncatePath(p)
       \/ \E d \in Fds, trunc \in BOOLEAN : Open(p, d, trunc)
  \/ RevalidateReply \/ RmdirUnlink
  \/ RenameGone \/ RenameUnlink \/ RenameAdd \/ RenameAddFails \/ RenameTarget \/ RenameSource
  \/ \E d \in Fds : Fsync(d) \/ Release(d) \/ \E x \in Texts : Write(d, x)

TreeSpec == TreeInit /\ [][TreeNext]_treeVars

-----------------------------------------------------------------------------
(* Properties *)

\* What reached the disk stays there, under one name or another and with the
\* text that was synced last, until someone asks for it to go or change; but
\* for a file that a rename had in neither directory, or had read already,
\* when another request flushed, or that was put into a directory that a
\* removal had found empty.  (Dir.Rename: "an interrupted rename leaves the
\* entry under both names rather than under neither".)
Kept == \A o \in owed : o.fid \in exposed \/ \E p \in TreePaths : disk[p] = o

\* Two names never have one inode number, whatever was renamed onto what.
InoUnique == \A d, e \in numbers : d.ino = e.ino => d = e

\* A file made through the mount keeps its number in every lookup that finds it
\* in place, through renames of it, of its directory and of other files.
InoStable == \A s, r \in said : s.fid = r.fid => s = r

\* A write that was accepted reaches the tree if the file is still there,
\* unless it was made through a descriptor that was opened before the rename of
\* the file was finished.
WritesReach == lost \subseteq {"open"}

\* The writable mount loses nothing that was synced and nothing that was written,
\* and gives each file one number for good, whatever renames, removals, flushes
\* and lookups interleave.
TreeSafe == Kept /\ InoUnique /\ InoStable /\ WritesReach
=============================================================================
