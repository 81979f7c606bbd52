------------------------------- MODULE Mounts -------------------------------
(* The life of the FUSE mounts: fuse/node (Mount, Unmount, doMount),           *)
(* fuse/mount (one mounted filesystem), fuse/ipns (the MFS root behind the     *)
(* /ipns mount, which garbage collection has to know of and whose content is   *)
(* published under the node's name), names published by hand and the daemon's  *)
(* shutdown.  `ipfs mount` requests take no lock.  The n-th request makes the  *)
(* mounts <<n, kind>>.                                                         *)
EXTENDS Naturals, Sequences, FiniteSets

CONSTANTS
  Kinds,         \* the mounts: "ipns" and, of "ipfs" and "mfs", those looked at
  MountCalls,    \* requests that may run at a time
  MaxMounts,     \* bound on requests
  MaxMountFaults \* bound on mounts and unmounts that fail or come from outside

ASSUME MountsAssumption ==
  /\ "ipns" \in Kinds /\ Kinds \subseteq {"ipfs", "ipns", "mfs"}
  /\ MaxMounts \in Nat /\ MaxMountFaults \in Nat

MountNos == 1..MaxMounts
Objs == MountNos \X Kinds

VARIABLES
  st,         \* <<n, kind>> -> "none", "up" or "down"
  once,       \* the mounts whose unmountOnce is used
  stuck,      \* the mounts that could not be unmounted
  outside,    \* the mounts that were unmounted from outside
  nm,         \* node.Mounts: kind -> number, 0 for nil
  registered, \* numbers whose MFS root garbage collection knows
  openRoots,  \* numbers whose MFS root is open
  dirty,      \* open roots with content that is not yet published
  call,       \* request -> [pc, n, done, err, todo]
  down,       \* [pc, todo]: the shutdown
  hand,       \* [pc, raced]: a name that is published by hand
  old,        \* roots that were open when a name was last published by hand
  raced,      \* that publication met a mount or an unmount under way
  handLost,       \* a name published by hand, met by nothing, was overwritten
  overlapped, \* two requests met, or a request and the shutdown
  nmounts, mntfaults

kernel == <<st, once, stuck, outside>>
roots == <<registered, openRoots, dirty>>
names == <<hand, old, raced, handLost>>
mountVars == <<kernel, nm, roots, call, down, names, overlapped, nmounts, mntfaults>>

NoMount == [pc |-> "idle", n |-> 0, done |-> {}, err |-> FALSE, todo |-> <<>>]
Busy == {c \in MountCalls : call[c].pc # "idle"}
Changing == Busy # {} \/ down.pc = "closing"
Up(o) == o[1] # 0 /\ st[o] = "up"
MountFault == mntfaults < MaxMountFaults /\ mntfaults' = mntfaults + 1

\* The mounts in the order in which Unmount(node) and doMount's clean-up name
\* them; the number 0 stands for node.Mounts.
InOrder(n, kinds) ==
  LET OneOf(k) == IF k \in kinds THEN << <<k, n>> >> ELSE <<>>
  IN  OneOf("ipfs") \o OneOf("ipns") \o OneOf("mfs")
NodeUnmounts == InOrder(0, Kinds)

\* mount.Unmount: nothing for a mount that is not active; the first call unmounts
\* it, by force if need be, or fails; later calls find the sync.Once used.
UnmountObj(o) ==
  \/ /\ Up(o) => o \in once
     /\ UNCHANGED <<kernel, mntfaults>>
  \/ /\ Up(o) /\ o \notin once
     /\ once' = once \cup {o}
     /\ \/ st' = [st EXCEPT ![o] = "down"] /\ UNCHANGED <<stuck, mntfaults>>
        \/ MountFault /\ stuck' = stuck \cup {o} /\ UNCHANGED st
     /\ UNCHANGED outside

\* A root publishes its content.  `old` holds the roots that were loaded before
\* the last publication by hand.
RootPublished(n) ==
  /\ dirty' = dirty \ {n}
  /\ handLost' = (handLost \/ (n \in old /\ ~raced /\ <<n, "ipns">> \notin outside))
  /\ old' = {}
  /\ UNCHANGED <<hand, raced>>

\* The mount that an item of a list of unmounts is about, and whether it is passed
\* over: Unmount(node) asks whether the mount is active, the clean-up does not.
ObjOf(item) == <<IF item[2] = 0 THEN nm[item[1]] ELSE item[2], item[1]>>
Passed(item) == item[2] = 0 /\ ~Up(ObjOf(item))

\* What is left of the list after its first item: ipnsMount.Unmount goes on to
\* unregister and to close its MFS roots, whatever the unmount returned.
AfterItem(todo) ==
  LET item == Head(todo)
      n == ObjOf(item)[1]
  IN  IF item[1] = "ipns" /\ ~Passed(item)
      THEN << <<"unregister", n>>, <<"close", n>> >> \o Tail(todo)
      ELSE Tail(todo)

\* One item; closing a root publishes what was not published yet.
DoItem(item) ==
  \/ /\ item[1] \in Kinds /\ Passed(item)
     /\ UNCHANGED <<kernel, roots, names, mntfaults>>
  \/ /\ item[1] \in Kinds /\ ~Passed(item)
     /\ UnmountObj(ObjOf(item))
     /\ UNCHANGED <<roots, names>>
  \/ /\ item[1] = "unregister"
     /\ registered' = registered \ {item[2]}
     /\ UNCHANGED <<kernel, openRoots, dirty, names, mntfaults>>
  \/ /\ item[1] = "close"
     /\ openRoots' = openRoots \ {item[2]}
     /\ IF item[2] \in dirty THEN RootPublished(item[2]) ELSE UNCHANGED <<dirty, names>>
     /\ UNCHANGED <<kernel, registered, mntfaults>>

-----------------------------------------------------------------------------
(* Requests *)

\* Mount(node): `ipfs mount`, or the daemon with --mount.
MountBegin(c) ==
  /\ c \notin Busy /\ nmounts < MaxMounts /\ down.pc = "no"
  /\ nmounts' = nmounts + 1
  /\ call' = [call EXCEPT ![c] = [NoMount EXCEPT !.pc = "unmount", !.n = nmounts + 1,
                                              !.todo = NodeUnmounts]]
  /\ overlapped' = (overlapped \/ Busy # {})
  /\ hand' = [hand EXCEPT !.raced = TRUE]
  /\ UNCHANGED <<kernel, nm, roots, down, old, raced, handLost, mntfaults>>

\* Unmount(node) before the new mounts, and the clean-up after one that failed.
MountUnmounts(c) ==
  /\ call[c].todo # <<>>
  /\ DoItem(Head(call[c].todo))
  /\ call' = [call EXCEPT ![c].todo = AfterItem(call[c].todo)]
  /\ UNCHANGED <<nm, down, overlapped, nmounts>>

\* Unmount(node) is done: platformFuseChecks, then doMount.
MountStart(c) ==
  /\ call[c].pc = "unmount" /\ call[c].todo = <<>>
  /\ call' = [call EXCEPT ![c].pc = "mount"]
  /\ UNCHANGED <<kernel, nm, roots, down, names, overlapped, nmounts, mntfaults>>

\* The goroutines of doMount.  That of /ipns loads the root, registers it and
\* mounts; the other two only mount.
Ready(c, step) ==
  /\ call[c].pc = "mount" /\ step \notin call[c].done
  /\ step = "register" => "load" \in call[c].done
  /\ step = "ipns" => "register" \in call[c].done

MountStep(c, steps) == call' = [call EXCEPT ![c].done = @ \cup steps]

\* CreateRoot: the root is loaded from what the name points at.
MountLoad(c) ==
  /\ Ready(c, "load")
  /\ openRoots' = openRoots \cup {call[c].n}
  /\ MountStep(c, {"load"})
  /\ UNCHANGED <<kernel, nm, registered, dirty, down, names, overlapped, nmounts, mntfaults>>

MountRegister(c) ==
  /\ Ready(c, "register")
  /\ registered' = registered \cup {call[c].n}
  /\ MountStep(c, {"register"})
  /\ UNCHANGED <<kernel, nm, openRoots, dirty, down, names, overlapped, nmounts, mntfaults>>

MountUp(c, k) ==
  /\ Ready(c, k)
  /\ st' = [st EXCEPT ![<<call[c].n, k>>] = "up"]
  /\ MountStep(c, {k})
  /\ UNCHANGED <<once, stuck, outside, nm, roots, down, names, overlapped, nmounts, mntfaults>>

\* A mount that fails; that of /ipns takes back what it did for the root.
GiveBack(n) == registered' = registered \ {n} /\ openRoots' = openRoots \ {n}

MountFails(c, k) ==
  /\ Ready(c, k) /\ MountFault
  /\ call' = [call EXCEPT ![c].done = @ \cup {k}, ![c].err = TRUE]
  /\ IF k = "ipns" THEN GiveBack(call[c].n) ELSE UNCHANGED <<registered, openRoots>>
  /\ UNCHANGED <<kernel, nm, dirty, down, names, overlapped, nmounts>>

\* CreateRoot fails: nothing of /ipns is there.
MountLoadFails(c) ==
  /\ Ready(c, "load") /\ MountFault
  /\ call' = [call EXCEPT ![c].done = @ \cup {"load", "register", "ipns"}, ![c].err = TRUE]
  /\ UNCHANGED <<kernel, nm, roots, down, names, overlapped, nmounts>>

AllUp(c) == call[c].pc = "mount" /\ Kinds \subseteq call[c].done

\* After wg.Wait: without an error node.Mounts is set ...
MountSet(c) ==
  /\ AllUp(c) /\ ~call[c].err
  /\ nm' = [k \in Kinds |-> call[c].n]
  /\ call' = [call EXCEPT ![c] = NoMount]
  /\ UNCHANGED <<kernel, roots, down, names, overlapped, nmounts, mntfaults>>

\* Mutant: only /ipfs and /ipns are unmounted again.
ToCleanUpNs(n) == InOrder(n, {k \in Kinds \ {"mfs"} : st[<<n, k>>] # "none"})

\* ... with one the mounts that succeeded are unmounted.
ToCleanUp(n) == InOrder(n, {k \in Kinds : st[<<n, k>>] # "none"})

MountCleanUp(c) ==
  /\ AllUp(c) /\ call[c].err
  /\ call' = [call EXCEPT ![c].pc = "cleanup", ![c].todo = ToCleanUp(call[c].n)]
  /\ UNCHANGED <<kernel, nm, roots, down, names, overlapped, nmounts, mntfaults>>

MountRefused(c) ==
  /\ call[c].pc = "cleanup" /\ call[c].todo = <<>>
  /\ call' = [call EXCEPT ![c] = NoMount]
  /\ UNCHANGED <<kernel, nm, roots, down, names, overlapped, nmounts, mntfaults>>

-----------------------------------------------------------------------------
(* The world *)

\* `fusermount -u`: server.Wait returns and the mount is no longer active.
UnmountOutside(o) ==
  /\ Up(o) /\ MountFault
  /\ st' = [st EXCEPT ![o] = "down"]
  /\ outside' = outside \cup {o}
  /\ UNCHANGED <<once, stuck, nm, roots, call, down, names, overlapped, nmounts>>

\* A program writes under the /ipns mount; ipnsPubFunc publishes it later.
WriteUnder(n) ==
  /\ Up(<<n, "ipns">>) /\ n \in openRoots \ dirty
  /\ dirty' = dirty \cup {n}
  /\ UNCHANGED <<kernel, nm, registered, openRoots, call, down, names, overlapped, nmounts,
                 mntfaults>>

RootPublish(n) ==
  /\ n \in dirty
  /\ RootPublished(n)
  /\ UNCHANGED <<kernel, nm, registered, openRoots, call, down, overlapped, nmounts, mntfaults>>

\* checkPublishAllowed: refused while the /ipns mount is active ...
PublishAllowed == ~Up(<<nm["ipns"], "ipns">>)

HandCheck ==
  /\ hand.pc = "idle" /\ PublishAllowed
  /\ hand' = [pc |-> "allowed", raced |-> Changing]
  /\ UNCHANGED <<kernel, nm, roots, call, down, old, raced, handLost, overlapped, nmounts, mntfaults>>

\* ... and then, the check made, the name is published.
HandPublish ==
  /\ hand.pc = "allowed"
  /\ hand' = [hand EXCEPT !.pc = "idle"]
  /\ old' = openRoots
  /\ raced' = (hand.raced \/ overlapped)
  /\ UNCHANGED <<kernel, nm, roots, call, down, handLost, overlapped, nmounts, mntfaults>>

\* The node's context is done: Unmount(node).
ShutBegin ==
  /\ down.pc = "no"
  /\ down' = [pc |-> "closing", todo |-> NodeUnmounts]
  /\ overlapped' = (overlapped \/ Busy # {})
  /\ hand' = [hand EXCEPT !.raced = TRUE]
  /\ UNCHANGED <<kernel, nm, roots, call, old, raced, handLost, nmounts, mntfaults>>

ShutUnmounts ==
  /\ down.pc = "closing" /\ down.todo # <<>>
  /\ DoItem(Head(down.todo))
  /\ down' = [down EXCEPT !.todo = AfterItem(down.todo)]
  /\ UNCHANGED <<nm, call, overlapped, nmounts>>

ShutEnd ==
  /\ down.pc = "closing" /\ down.todo = <<>>
  /\ down' = [down EXCEPT !.pc = "done"]
  /\ UNCHANGED <<kernel, nm, roots, call, names, overlapped, nmounts, mntfaults>>

-----------------------------------------------------------------------------
MountsInit ==
  /\ st = [o \in Objs |-> "none"]
  /\ once = {} /\ stuck = {} /\ outside = {}
  /\ nm = [k \in Kinds |-> 0]
  /\ registered = {} /\ openRoots = {} /\ dirty = {}
  /\ call = [c \in MountCalls |-> NoMount]
  /\ down = [pc |-> "no", todo |-> <<>>]
  /\ hand = [pc |-> "idle", raced |-> FALSE]
  /\ old = {} /\ raced = FALSE /\ handLost = FALSE /\ overlapped = FALSE
  /\ nmounts = 0 /\ mntfaults = 0

MountsNext ==
  \/ \E c \in MountCalls :
       \/ MountBegin(c) \/ MountUnmounts(c) \/ MountStart(c)
       \/ MountLoad(c) \/ MountLoadFails(c) \/ MountRegister(c)
       \/ \E k \in Kinds : MountUp(c, k) \/ MountFails(c, k)
       \/ MountSet(c) \/ MountCleanUp(c) \/ MountRefused(c)
  \/ \E o \in Objs : UnmountOutside(o)
  \/ \E n \in MountNos : WriteUnder(n) \/ RootPublish(n)
  \/ HandCheck \/ HandPublish
  \/ ShutBegin \/ ShutUnmounts \/ ShutEnd

MountsSpec == MountsInit /\ [][MountsNext]_mountVars

-----------------------------------------------------------------------------

InHand(n) == \E c \in Busy : call[c].n = n
Closing(n) ==
  \E todo \in {call[c].todo : c \in Busy} \cup {down.todo} :
    \E i \in DOMAIN todo : todo[i] = <<"close", n>>

\* While programs can write under an /ipns mount (an active mount that no unmount
\* failed on), its MFS root is open and garbage collection knows it: ipns.Mount
\* registers before it mounts and unregisters after it unmounted.
RootsGuarded ==
  \A n \in MountNos :
    Up(<<n, "ipns">>) /\ <<n, "ipns">> \notin stuck => n \in registered \cap openRoots

\* A root that is open or registered belongs to a mount that is active, being made
\* or being unmounted; only a mount unmounted from outside leaves one behind
\* (Unmount(node) passes over it), never a mount that failed half way.
RootsReleased ==
  \A n \in registered \cup openRoots :
    Up(<<n, "ipns">>) \/ InHand(n) \/ Closing(n) \/ <<n, "ipns">> \in outside

\* While no two requests meet, an active mount is one that node.Mounts names or
\* that a request still has in hand; only a failed unmount leaves one behind.
NoOrphans ==
  ~overlapped =>
    \A o \in Objs : Up(o) => nm[o[2]] = o[1] \/ InHand(o[1]) \/ o \in stuck

\* A name that was published by hand is not overwritten by a root that was loaded
\* before it: the check of checkPublishAllowed is enough unless a mount or an
\* unmount is under way between the check and the publication.
HandKept == ~handLost

\* When the shutdown is over no mount is left but the ones whose unmount failed,
\* unless a request ran while it began.
ShutUnmounted ==
  down.pc = "done" /\ ~overlapped => \A o \in Objs : Up(o) => o \in stuck

\* Mounting, unmounting and shutting down, from wherever they come and wherever
\* they fail, keep every root that programs write to open and known to the
\* collector, release every other, lose no mount and overwrite no name.
MountsSafe == RootsGuarded /\ RootsReleased /\ NoOrphans /\ HandKept /\ ShutUnmounted
=============================================================================
