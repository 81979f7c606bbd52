----------------------------- MODULE SelfUpdate -----------------------------
(***************************************************************************)
(* `ipfs update install`, `revert` and `clean` (core/commands/update.go and *)
(* update_github.go): processes that replace the kubo binary in place, keep *)
(* a backup of the one they replace under $IPFS_PATH/old-bin, and restore   *)
(* or remove the backups.  No lock is held between them; the daemon's lock  *)
(* is only looked at.                                                       *)
(*                                                                          *)
(* A binary is a version and whether its bytes are all there and right.     *)
(***************************************************************************)
EXTENDS Integers, Sequences, FiniteSets

CONSTANTS
  Updaters,      \* processes that run an update command
  MaxVersion,    \* versions 1..MaxVersion, in the order of their numbers
  MaxUpdates     \* bound on the commands started

ASSUME SelfUpdateAssumption == MaxVersion \in Nat

VARIABLES
  ubin,      \* the binary on the path
  ustash,    \* version in the name of a backup -> binary in it, or NoBinary
  uorder,    \* history: <<v, w>> where the backup v was made before the backup w
  uproc,     \* the commands under way
  udaemon,   \* whether a daemon holds the repository lock
  uask,      \* what check and install make of one list of releases
  uhist      \* history: commands started, overlaps, downgrades, reverts to a cut backup

uvars == <<ubin, ustash, uorder, uproc, udaemon, uask, uhist>>

Versions == 1..MaxVersion
NoBinary == [ver |-> 0, whole |-> FALSE]
UIdle == [cmd |-> "none", at |-> "none", current |-> 0, target |-> 0, data |-> NoBinary,
          allow |-> FALSE, left |-> {}]
UTo(p, at) == uproc' = [uproc EXCEPT ![p].at = at]
UEnd(p) == uproc' = [uproc EXCEPT ![p] = UIdle]

\* checkDaemonNotRunning: a lock that is held refuses the command; a path or a
\* lock that cannot be looked at is only warned about.
NotRunning == ~udaemon

DaemonTurns ==
  /\ udaemon' = ~udaemon
  /\ UNCHANGED <<ubin, ustash, uorder, uproc, uask, uhist>>

\* A command starts; the running process is the binary on the path.
Begins(p) ==
  /\ uproc[p].cmd = "none" /\ uhist.count < MaxUpdates /\ ubin.whole
  /\ \E cmd \in {"install", "revert", "clean"}, allow \in BOOLEAN, unchecked \in BOOLEAN :
       /\ cmd = "install" \/ ~allow
       /\ cmd # "clean" => NotRunning \/ unchecked
       /\ uproc' = [uproc EXCEPT ![p] =
                      [UIdle EXCEPT !.cmd = cmd, !.allow = allow, !.current = ubin.ver,
                                    !.at = IF cmd = "install" THEN "resolve" ELSE "list"]]
  /\ uhist' = [uhist EXCEPT !.count = @ + 1,
                            !.overlap = @ \/ \E q \in Updaters \ {p} : uproc[q].cmd # "none"]
  /\ UNCHANGED <<ubin, ustash, uorder, udaemon, uask>>

\* The version asked for, or the newest release with an asset for the
\* platform (and not a pre-release unless asked): any version, or an error.
Resolves(p) ==
  /\ uproc[p].at = "resolve"
  /\ \/ \E target \in Versions :
          /\ target # uproc[p].current
          /\ target > uproc[p].current \/ uproc[p].allow
          /\ uproc' = [uproc EXCEPT ![p].target = target, ![p].at = "download"]
     \/ UEnd(p)
  /\ UNCHANGED <<ubin, ustash, uorder, udaemon, uask, uhist>>

\* The archive comes whole, or cut or altered on the way.
Downloads(p) ==
  /\ uproc[p].at = "download"
  /\ \/ \E whole \in BOOLEAN :
          uproc' = [uproc EXCEPT ![p].data = [ver |-> uproc[p].target, whole |-> whole],
                                 ![p].at = "verify"]
     \/ UEnd(p)
  /\ UNCHANGED <<ubin, ustash, uorder, udaemon, uask, uhist>>

\* The SHA-512 sidecar.
Verifies(p) ==
  /\ uproc[p].at = "verify"
  /\ \/ uproc[p].data.whole /\ UTo(p, "extract")
     \/ UEnd(p)
  /\ UNCHANGED <<ubin, ustash, uorder, udaemon, uask, uhist>>

\* The binary out of a tar.gz or else a zip, unless it is missing from both or
\* too long.
Extracts(p) ==
  /\ uproc[p].at = "extract"
  /\ UTo(p, "stash") \/ UEnd(p)
  /\ UNCHANGED <<ubin, ustash, uorder, udaemon, uask, uhist>>

Stashes == {v \in Versions : ustash[v] # NoBinary}

\* What is known of the order of the backups without v; and with v as the newest.
Forgets(v) == {vw \in uorder : v \notin {vw[1], vw[2]}}
Newest(v) == Forgets(v) \cup {<<w, v>> : w \in Stashes \ {v}}

\* Mutant: the backup is named after the version to be installed.
StashOpensTarget(p) ==
  /\ uproc[p].at = "stash"
  /\ ustash' = [ustash EXCEPT ![uproc[p].target] = [ver |-> ubin.ver, whole |-> FALSE]]
  /\ uorder' = Newest(uproc[p].target)
  /\ UTo(p, "copy")
  /\ UNCHANGED <<ubin, udaemon, uask, uhist>>

\* stashBinary truncates or creates the backup named after the version of the
\* running process.
StashOpens(p) ==
  /\ uproc[p].at = "stash"
  /\ \/ /\ ustash' = [ustash EXCEPT ![uproc[p].current] = [ver |-> ubin.ver, whole |-> FALSE]]
        /\ uorder' = Newest(uproc[p].current)
        /\ UTo(p, "copy")
     \/ UEnd(p) /\ UNCHANGED <<ustash, uorder>>
  /\ UNCHANGED <<ubin, udaemon, uask, uhist>>

\* The copy is complete and synced, or its error ends the command and leaves
\* the backup as it is.  A command that overlaps may have removed the file
\* under the name, and then the copy is not there.
Copied(p) ==
  {st \in {ustash, [ustash EXCEPT ![uproc[p].current] = ubin]} :
     /\ ustash[uproc[p].current] = NoBinary => st = ustash
     /\ st = ustash => uhist.overlap}

StashCopies(p) ==
  /\ uproc[p].at = "copy"
  /\ \/ ustash' \in Copied(p) /\ UTo(p, "replace")
     \/ UEnd(p) /\ UNCHANGED ustash
  /\ UNCHANGED <<ubin, uorder, udaemon, uask, uhist>>

\* replaceBinary through an atomic file: the new binary, or an error and the
\* old one.
Replaced(data) == {ubin, data}

\* On a permission error the data goes to a temporary file and the command
\* succeeds all the same.
Replaces(p) ==
  /\ uproc[p].at = "replace" /\ uproc[p].cmd = "install"
  /\ ubin' \in Replaced(uproc[p].data)
  /\ uhist' = [uhist EXCEPT !.down = @ \/ (ubin' # ubin /\ uproc[p].target < uproc[p].current)]
  /\ UEnd(p)
  /\ UNCHANGED <<ustash, uorder, udaemon, uask>>

(***************************************************************************)
(* Backups                                                                 *)
(***************************************************************************)
\* listStashes sorts by version, newest first; findLatestStash takes the first.
LatestStash == CHOOSE v \in Stashes : \A w \in Stashes : w <= v

\* revert reads the backup it found ...
RevertReads(p) ==
  /\ uproc[p].at = "list" /\ uproc[p].cmd = "revert"
  /\ \/ /\ Stashes # {}
        /\ uproc' = [uproc EXCEPT ![p].target = LatestStash, ![p].data = ustash[LatestStash],
                                  ![p].at = "replace"]
     \/ UEnd(p)
  /\ UNCHANGED <<ubin, ustash, uorder, udaemon, uask, uhist>>

\* ... replaces the binary with it, and then removes the backup, ignoring an
\* error; a binary that could not be replaced keeps the backup.
RevertReplaces(p) ==
  /\ uproc[p].at = "replace" /\ uproc[p].cmd = "revert"
  /\ ubin' \in Replaced(uproc[p].data)
  /\ uhist' = [uhist EXCEPT !.badrevert = @ \/ ~uproc[p].data.whole]
  /\ \/ ubin' = uproc[p].data /\ UTo(p, "remove")
     \/ ubin' = ubin /\ UEnd(p)
  /\ UNCHANGED <<ustash, uorder, udaemon, uask>>

Drops(v) ==
  /\ ustash' = [ustash EXCEPT ![v] = NoBinary]
  /\ uorder' = Forgets(v)

RevertRemoves(p) ==
  /\ uproc[p].at = "remove"
  /\ Drops(uproc[p].target) \/ UNCHANGED <<ustash, uorder>>
  /\ UEnd(p)
  /\ UNCHANGED <<ubin, udaemon, uask, uhist>>

\* clean lists the backups and removes them one after the other, newest
\* first; a backup that cannot be removed, or is gone already, ends it.
CleanLists(p) ==
  /\ uproc[p].at = "list" /\ uproc[p].cmd = "clean"
  /\ \/ uproc' = [uproc EXCEPT ![p].left = Stashes, ![p].at = "clean"]
     \/ UEnd(p)
  /\ UNCHANGED <<ubin, ustash, uorder, udaemon, uask, uhist>>

Cleans(p) ==
  /\ uproc[p].at = "clean"
  /\ \/ \E v \in uproc[p].left \cap Stashes :
          /\ \A w \in uproc[p].left : w <= v
          /\ Drops(v)
          /\ uproc' = [uproc EXCEPT ![p].left = @ \ {v}]
     \/ UEnd(p) /\ UNCHANGED <<ustash, uorder>>
  /\ UNCHANGED <<ubin, udaemon, uask, uhist>>

\* The process dies: a backup that was being written stays cut short.
UCrashes(p) ==
  /\ uproc[p].cmd # "none"
  /\ UEnd(p)
  /\ UNCHANGED <<ubin, ustash, uorder, udaemon, uask, uhist>>

(***************************************************************************)
(* Which release: a list of releases, as GitHub pages them                  *)
(***************************************************************************)
Releases == [ver : Versions, pre : BOOLEAN, asset : BOOLEAN]
ReleaseLists ==
  {l \in UNION {[1..n -> Releases] : n \in 0..MaxVersion} :
     \A i, j \in DOMAIN l : i # j => l[i].ver # l[j].ver}

\* githubListReleases reads one page, three times as long when it is to leave
\* out pre-releases, and keeps the first count that remain.
\* A result is the set of its places in the list.
Listed(l, count, pre) ==
  LET page == {i \in DOMAIN l : i <= (IF pre THEN count ELSE 3 * count)}
      kept == {i \in page : pre \/ ~l[i].pre}
  IN  {i \in kept : Cardinality({j \in kept : j <= i}) <= count}

\* githubLatestRelease: the first with an archive for the platform, 0 for none.
LatestRelease(l, pre) ==
  LET is == {i \in Listed(l, 10, pre) : l[i].asset}
  IN  IF is = {} THEN 0 ELSE l[CHOOSE i \in is : \A j \in is : i <= j].ver

\* findReleaseAsset: the release is there and has an archive.
HasAsset(l, v) == \E i \in DOMAIN l : l[i].ver = v /\ l[i].asset

\* update check: whether the latest release is newer than the running one.
UpdateCheck(l, current, pre) == LatestRelease(l, pre) > current

\* update versions marks the running version among the ones it lists; a count
\* that is not positive is thirty.
UpdateVersions(l, count, pre) ==
  {l[i].ver : i \in Listed(l, IF count <= 0 THEN 30 ELSE count, pre)}

\* update install without a version gets as far as the download.
InstallProceeds(l, current, pre) ==
  LET v == LatestRelease(l, pre) IN v # 0 /\ v > current /\ HasAsset(l, v)

Looks ==
  /\ uask.at = "none"
  /\ \E l \in ReleaseLists, current \in Versions, pre \in BOOLEAN :
       uask' = [at |-> "done", update |-> UpdateCheck(l, current, pre),
                install |-> InstallProceeds(l, current, pre),
                shown |-> LatestRelease(l, pre) \in {0} \cup UpdateVersions(l, 0, pre)]
  /\ UNCHANGED <<ubin, ustash, uorder, uproc, udaemon, uhist>>

(***************************************************************************)
(* The specification                                                       *)
(***************************************************************************)
UpdateInit ==
  /\ \E v \in Versions : ubin = [ver |-> v, whole |-> TRUE]
  /\ ustash = [v \in Versions |-> NoBinary]
  /\ uorder = {}
  /\ uproc = [p \in Updaters |-> UIdle]
  /\ udaemon = FALSE
  /\ uask = [at |-> "none", update |-> FALSE, install |-> FALSE, shown |-> TRUE]
  /\ uhist = [count |-> 0, overlap |-> FALSE, down |-> FALSE, badrevert |-> FALSE]

UpdateNext ==
  \/ DaemonTurns
  \/ \E p \in Updaters :
       \/ Begins(p) \/ Resolves(p) \/ Downloads(p) \/ Verifies(p) \/ Extracts(p)
       \/ StashOpens(p) \/ StashCopies(p) \/ Replaces(p)
       \/ RevertReads(p) \/ RevertReplaces(p) \/ RevertRemoves(p) \/ CleanLists(p) \/ Cleans(p)
       \/ UCrashes(p)

UpdateReads == Looks

UpdateSpec == UpdateInit /\ [][UpdateNext \/ UpdateReads]_uvars

\* The binary on the path is whole: an install puts there only what the
\* checksum verified, and puts it atomically.  (A revert may restore a backup
\* that a crash or a full disk cut short, which nothing marks as such.)
BinaryWhole == ubin.whole \/ uhist.badrevert

\* The backup under a version's name is a binary of that version, as long as
\* no two commands ran at once.
StashTrue == uhist.overlap \/ \A v \in Stashes : ustash[v].ver = v

\* A revert restores the most recent backup as long as no older version was
\* installed over a newer one: it goes by the versions in the names.
RevertOrder ==
  ~uhist.down /\ ~uhist.overlap =>
    \A v \in Stashes : v # LatestStash => <<v, LatestStash>> \in uorder

\* When check says there is an update, install finds it, takes it for newer and
\* has an archive to download, and the other way round; and the release it
\* names is among the ones versions lists.
CheckAgrees == uask.update = uask.install /\ uask.shown

\* Installing, reverting and crashing in any order leaves a whole binary and
\* backups that are what their names say; check and install agree.
UpdateSafe == BinaryWhole /\ StashTrue /\ RevertOrder /\ CheckAgrees
=============================================================================
