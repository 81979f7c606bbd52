------------------------------ MODULE Provider ------------------------------
(***************************************************************************)
(* The provide system of a node: which keys a Provide.Strategy announces    *)
(* (config/provide.go, core/node/core.go, core/node/storage.go), the life   *)
(* of the legacy and of the sweeping provider over restarts and crashes of  *)
(* the process (core/node/provider.go), the alert on slow reprovides, and   *)
(* `ipfs provide clear`, `once` and `stat` (core/commands/provide.go).      *)
(*                                                                          *)
(* A queued key is abstracted to the strategy under which it was queued.    *)
(* The resettable keystore, the sweeping provider and the boxo provider     *)
(* are libraries: they are modelled from how provider.go uses them.         *)
(***************************************************************************)
EXTENDS Integers, Sequences, FiniteSets

LOCAL INSTANCE SequencesExt

CONSTANTS
  PStrategies,   \* values of Provide.Strategy between which the operator moves
  MaxInterval,   \* validity of a provider record, the largest Provide.DHT.Interval
  MaxOrphans,    \* batches of keystore keys an older Kubo left in the shared datastore
  AlertAfter,    \* consecutiveAlertsThreshold
  MaxRegions,    \* bound on the reprovide queue the alert sees
  OnceLinks      \* links of the DAG that `provide once` walks: node -> set of nodes

VARIABLES
  pdisk,    \* what outlives the process: persisted strategy, keystore directories, orphans
  pq,       \* the two persisted provide queues
  pn,       \* the node: phase, provider mode, workers, keystore, shutdown deadline
  psync,    \* the startup sync and the periodic sync of the keystore
  pseen,    \* errors met so far (history)
  pmount,   \* MountKeystoreDatastores in an offline command
  palert,   \* the reprovide alert loop
  ponce,    \* one `ipfs provide once`
  pask      \* a strategy that was set, or the flags of a `provide stat`

pnodevars == <<pdisk, pq, pn, psync, pseen, pmount>>
pvars == <<pdisk, pq, pn, psync, pseen, pmount, palert, ponce, pask>>

(***************************************************************************)
(* Strategies                                                              *)
(***************************************************************************)
StrategyTokens == {"all", "pinned", "roots", "mfs", "unique", "entities", "other"}
StrategyRefused == {"refused"}

\* The flags a strategy string denotes; the empty string is "all", an unknown
\* or empty token is "other".
ParseProvideStrategy(tokens) ==
  LET flags == IF tokens = {} THEN {"all"}
               ELSE tokens \cup {t \in {"unique"} : "entities" \in tokens}
  IN IF \/ "other" \in flags
        \/ "all" \in flags /\ flags # {"all"}
        \/ "unique" \in flags /\ flags \cap {"pinned", "mfs"} = {}
        \/ {"unique", "roots"} \subseteq flags
     THEN StrategyRefused ELSE flags

\* A local block: below a pin, a pin's root, in MFS, the root of a file or directory.
Contents == {c \in [pinned : BOOLEAN, root : BOOLEAN, mfs : BOOLEAN, entity : BOOLEAN] :
               c.root => c.pinned /\ c.entity}

ShouldProvideForStrategy(flags, c) ==
  \/ "all" \in flags
  \/ "pinned" \in flags /\ c.pinned
  \/ "roots" \in flags /\ c.root
  \/ "mfs" \in flags /\ c.mfs

\* Who announces a block when it is written: the blockstore, the pinner, MFS.
BlocksAnnounce(flags, c) == "all" \in flags

PinnerAnnounces(flags, c) ==
  IF "pinned" \in flags THEN c.pinned ELSE "roots" \in flags /\ c.root


FilesAnnounce(flags, c) == "mfs" \in flags /\ c.mfs

\* createKeyProvider: the blocks of one reprovide cycle.
Reprovided(flags, c) ==
  IF "unique" \in flags
  THEN /\ \/ "mfs" \in flags /\ c.mfs
          \/ "pinned" \in flags /\ c.pinned
       /\ "entities" \in flags => c.entity
  ELSE CASE flags = {"roots"} -> c.root
         [] flags = {"pinned"} -> c.pinned
         [] flags = {"pinned", "mfs"} -> c.pinned \/ c.mfs
         [] flags = {"mfs"} -> c.mfs
         [] OTHER -> TRUE

\* The writers announce exactly what ShouldProvideForStrategy says, and what
\* they announce is reprovided before its record expires, except that
\* +entities leaves the chunks of a file out of the cycle.  The three are
\* written apart: in Pinning, Files and the blockstore's options, in
\* config.ShouldProvideForStrategy and in createKeyProvider.
StrategyAgrees ==
  pask.topic = "strategy" =>
    LET flags == ParseProvideStrategy(pask.tokens) IN
    flags # StrategyRefused =>
      \A c \in Contents :
        LET wanted == ShouldProvideForStrategy(flags, c) IN
        /\ wanted <=> \/ BlocksAnnounce(flags, c)
                      \/ PinnerAnnounces(flags, c)
                      \/ FilesAnnounce(flags, c)
        /\ wanted /\ ("entities" \in flags => c.entity) => Reprovided(flags, c)

(***************************************************************************)
(* The node and its provider over restarts                                 *)
(***************************************************************************)
KsSuffixes == {"0", "1"}
Alt(s) == CHOOSE t \in KsSuffixes : t # s
Syncers == {"startup", "loop"}
Stopping == {"stopprovider", "stopkeystore", "stopcancel", "stoploop"}
SyncOff == [g \in Syncers |-> "off"]
Down == [phase |-> "down", mode |-> "none", interval |-> 0, strat |-> "none",
         workers |-> FALSE, kstore |-> "none", resetby |-> "none",
         cancelled |-> FALSE, expired |-> FALSE]

\* noScheduleMode is an interval of exactly 0.
Scheduled == pn.interval # 0

\* OnlineProviders: no provider when providing is off, the sweeping one when
\* it is enabled and some router is a DHT, else the legacy one.
OnlineProviders(provide, sweepEnabled, dhtAvailable) ==
  CASE ~provide -> "noop"
    [] provide /\ sweepEnabled /\ dhtAvailable -> "sweep"
    [] OTHER -> "legacy"

\* ValidateProvideConfig: positive and natural stand for the smallest of the
\* settings that must be positive (workers, connections, batch size, timeout)
\* and of those that must not be negative (dedicated workers, offline delay).
ValidateProvideConfig(enabled, interval, positive, natural) ==
  /\ interval <= MaxInterval /\ interval >= 0
  /\ interval = 0 => enabled # "default"
  /\ positive > 0 /\ natural >= 0

\* A start reads and validates the configuration the operator left on disk.
NodeStarts ==
  /\ pn.phase = "down" /\ pmount.at = 0
  /\ \E enabled \in {"default", "true", "false"}, sweepEnabled, dhtAvailable \in BOOLEAN,
        interval \in -1..MaxInterval + 1, positive, natural \in -1..1, st \in PStrategies :
       LET mode == OnlineProviders(enabled # "false", sweepEnabled, dhtAvailable) IN
       /\ ValidateProvideConfig(enabled, interval, positive, natural)
       /\ pn' = [Down EXCEPT !.mode = mode, !.strat = st,
                             !.interval = IF mode = "sweep" THEN interval ELSE 0,
                             !.phase = CASE mode = "sweep" -> "open"
                                         [] mode = "legacy" -> "detect"
                                         [] OTHER -> "up"]
  /\ UNCHANGED <<pdisk, pq, psync, pseen, pmount>>

\* detectStrategyChange: on a read error handleStrategyChange returns without
\* clearing anything.
DetectsChange ==
  /\ pn.phase = "detect"
  /\ \/ /\ pn' = [pn EXCEPT !.phase = "up", !.workers = TRUE]
        /\ pseen' = [pseen EXCEPT !.strategy = TRUE]
     \/ /\ pn' = IF pdisk.strategy = pn.strat
                 THEN [pn EXCEPT !.phase = "up", !.workers = TRUE]
                 ELSE [pn EXCEPT !.phase = "clear"]
        /\ UNCHANGED pseen
  /\ UNCHANGED <<pdisk, pq, psync, pmount>>

Clears == pq' = [pq EXCEPT !.legacy = {}] /\ UNCHANGED <<pdisk, pseen>>

Persists ==
  /\ UNCHANGED pq
  /\ \/ pdisk' = [pdisk EXCEPT !.strategy = pn.strat] /\ UNCHANGED pseen
     \/ pseen' = [pseen EXCEPT !.strategy = TRUE] /\ UNCHANGED pdisk

\* handleStrategyChange once a change was seen: clear the queue, then persist.
HandlesChange ==
  /\ \/ pn.phase = "clear" /\ Clears /\ pn' = [pn EXCEPT !.phase = "persist"]
     \/ pn.phase = "persist" /\ Persists /\ pn' = [pn EXCEPT !.phase = "up", !.workers = TRUE]
  /\ UNCHANGED <<psync, pmount>>

\* Mutant: the directory that marks the cleanup is made before it.
SweepOpensMarked ==
  /\ pn.phase = "open"
  /\ pdisk' = [pdisk EXCEPT !.base = TRUE]
  /\ pn' = [pn EXCEPT !.phase = IF pdisk.base THEN "keystore" ELSE "purge"]
  /\ UNCHANGED <<pq, psync, pseen, pmount>>

\* The sweeping provider's constructor removes the keystore directories when
\* there is no schedule (a failure is only logged), and goes on to the purge
\* of the shared datastore if the directory is not there.
SweepOpens ==
  /\ pn.phase = "open"
  /\ \E d \in {pdisk} \cup (IF Scheduled THEN {}
                            ELSE {[pdisk EXCEPT !.base = FALSE, !.dirs = {}]}) :
       /\ pdisk' = d
       /\ pn' = [pn EXCEPT !.phase = IF d.base THEN "keystore" ELSE "purge"]
  /\ UNCHANGED <<pq, psync, pseen, pmount>>


\* purgeOrphanedKeystoreData: batch by batch; an error ends it and is only
\* logged, and the constructor goes on.
Purges ==
  /\ pn.phase = "purge"
  /\ \/ /\ pdisk.orphans > 0
        /\ pdisk' = [pdisk EXCEPT !.orphans = @ - 1]
        /\ UNCHANGED <<pn, pseen>>
     \/ /\ pdisk.orphans = 0
        /\ pn' = [pn EXCEPT !.phase = "keystore"]
        /\ UNCHANGED <<pdisk, pseen>>
     \/ /\ pn' = [pn EXCEPT !.phase = "keystore"]
        /\ pseen' = [pseen EXCEPT !.purge = TRUE]
        /\ UNCHANGED pdisk
  /\ UNCHANGED <<pq, psync, pmount>>

\* createDs makes the base directory and the suffix's directory in it.
CreateDs(d, s) == [d EXCEPT !.base = TRUE, !.dirs = @ \cup {s}]

\* destroyDs removes the suffix's directory, and no other.
DestroyDs(d, s) == [d EXCEPT !.dirs = @ \ {s}]

\* NewResettableKeystore opens the active suffix; without a DHT client the
\* node gets a NoopProvider, else it starts the workers and the two syncs.
KeystoreOpens ==
  /\ pn.phase = "keystore"
  /\ pdisk' = IF Scheduled THEN CreateDs(pdisk, pdisk.active) ELSE pdisk
  /\ \/ /\ pn' = [pn EXCEPT !.phase = "up", !.workers = TRUE, !.kstore = "open"]
        /\ psync' = IF Scheduled THEN [startup |-> "list", loop |-> "idle"] ELSE SyncOff
     \/ /\ pn' = [pn EXCEPT !.phase = "up", !.mode = "noop", !.interval = 0, !.kstore = "open"]
        /\ UNCHANGED psync
     \/ /\ pn' = Down
        /\ UNCHANGED psync
  /\ UNCHANGED <<pq, pseen, pmount>>

\* A key is queued by a write or by `provide once`, published by the workers,
\* or dropped by `ipfs provide clear`.
QueueChanges ==
  /\ pn.phase = "up" /\ pn.workers /\ pn.mode \in DOMAIN pq
  /\ \E left \in {pq[pn.mode] \cup {pn.strat}, {}} \cup {pq[pn.mode] \ {st} : st \in PStrategies} :
       pq' = [pq EXCEPT ![pn.mode] = left]
  /\ UNCHANGED <<pdisk, pn, psync, pseen, pmount>>

(***************************************************************************)
(* syncKeystore: list the keys, reset the keystore, refresh the schedule   *)
(***************************************************************************)

\* The error of a sync that a shutdown interrupted is not logged as a failure.
ShutdownError(err) == pn.cancelled \/ err \in {"canceled", "closed"}

SyncFails(g, err) ==
  /\ psync' = [psync EXCEPT ![g] = IF g = "loop" THEN "idle" ELSE "ended"]
  /\ pseen' = [pseen EXCEPT !.alarm = @ \/ (err # "real" /\ ~ShutdownError(err))]

\* The tick of the periodic sync, and its end after a cancel.
LoopTurns ==
  /\ psync.loop = "idle"
  /\ psync' = [psync EXCEPT !.loop = IF pn.cancelled THEN "ended" ELSE "list"]
  /\ UNCHANGED <<pdisk, pq, pn, pseen, pmount>>

Lists(g) ==
  /\ psync[g] = "list"
  /\ \/ psync' = [psync EXCEPT ![g] = "reset"] /\ UNCHANGED pseen
     \/ SyncFails(g, "real")
     \/ pn.cancelled /\ SyncFails(g, "canceled")
  /\ UNCHANGED <<pdisk, pq, pn, pmount>>

\* ResetCids creates the other suffix's datastore, one reset at a time.
ResetBegins(g) ==
  /\ psync[g] = "reset"
  /\ IF pn.kstore = "closed" THEN SyncFails(g, "closed") /\ UNCHANGED <<pdisk, pn>>
     ELSE IF pn.resetby # "none" THEN SyncFails(g, "real") /\ UNCHANGED <<pdisk, pn>>
     ELSE /\ pdisk' = CreateDs(pdisk, Alt(pdisk.active))
          /\ pn' = [pn EXCEPT !.resetby = g]
          /\ psync' = [psync EXCEPT ![g] = "filling"]
          /\ UNCHANGED pseen
  /\ UNCHANGED <<pq, pmount>>

\* The new suffix becomes the active one, and the old one is destroyed after.
ResetSwaps(g) ==
  /\ psync[g] = "filling" /\ pn.kstore = "open"
  /\ pdisk' = [pdisk EXCEPT !.active = Alt(@)]
  /\ psync' = [psync EXCEPT ![g] = "swapped"]
  /\ UNCHANGED <<pq, pn, pseen, pmount>>

\* A reset that the closing keystore, a cancel or an error stops.
ResetStops(g) ==
  /\ psync[g] = "filling"
  /\ \/ pn.kstore = "closed" /\ SyncFails(g, "closed")
     \/ pn.cancelled /\ SyncFails(g, "canceled")
     \/ SyncFails(g, "real")
  /\ pdisk' \in {pdisk, DestroyDs(pdisk, Alt(pdisk.active))}
  /\ pn' = [pn EXCEPT !.resetby = "none"]
  /\ UNCHANGED <<pq, pmount>>

\* The old datastore goes; the schedule is refreshed, an error only logged.
ResetEnds(g) ==
  /\ psync[g] = "swapped"
  /\ pdisk' = DestroyDs(pdisk, Alt(pdisk.active))
  /\ pn' = [pn EXCEPT !.resetby = "none"]
  /\ psync' = [psync EXCEPT ![g] = IF g = "loop" THEN "idle" ELSE "ended"]
  /\ UNCHANGED <<pq, pseen, pmount>>

(***************************************************************************)
(* Shutdown: fx runs the hooks in reverse order of registration            *)
(***************************************************************************)
StopBegins ==
  /\ pn.phase = "up"
  /\ pn' = IF pn.mode = "noop" THEN Down ELSE [pn EXCEPT !.phase = "stopprovider"]
  /\ psync' = IF pn.mode = "noop" THEN SyncOff ELSE psync
  /\ UNCHANGED <<pdisk, pq, pseen, pmount>>

DeadlinePasses ==
  /\ pn.phase \in Stopping /\ ~pn.expired
  /\ pn' = [pn EXCEPT !.expired = TRUE]
  /\ UNCHANGED <<pdisk, pq, psync, pseen, pmount>>

\* Closing the provider waits for its workers or for the deadline; then the
\* keystore is closed, and closing starts even past the deadline.
ClosesInOrder ==
  /\ \/ /\ pn.phase = "stopprovider"
        /\ \E drained \in {TRUE} \cup {~pn.expired} :
             pn' = IF pn.mode = "legacy" THEN Down
                   ELSE [pn EXCEPT !.phase = "stopkeystore", !.workers = ~drained]
     \/ /\ pn.phase = "stopkeystore"
        /\ pn' = [pn EXCEPT !.phase = "stopcancel", !.kstore = "closed"]
  /\ UNCHANGED <<pdisk, pq, psync, pseen, pmount>>

\* initKeystore's hook cancels the periodic sync and waits for it, or for the
\* deadline; the startup sync is not waited for.
StopsLoop ==
  /\ \/ /\ pn.phase = "stopcancel"
        /\ pn' = [pn EXCEPT !.phase = "stoploop", !.cancelled = TRUE]
        /\ UNCHANGED psync
     \/ /\ pn.phase = "stoploop"
        /\ psync.loop \in {"off", "ended"} \/ pn.expired
        /\ pn' = Down /\ psync' = SyncOff
  /\ UNCHANGED <<pdisk, pq, pseen, pmount>>

Crashes ==
  /\ pn.phase # "down"
  /\ pn' = Down /\ psync' = SyncOff
  /\ UNCHANGED <<pdisk, pq, pseen, pmount>>

(***************************************************************************)
(* MountKeystoreDatastores, in a command that runs without the daemon      *)
(***************************************************************************)
NoMount == [at |-> 0, open |-> {}]

\* The suffixes in order: one that is not there is skipped, an error closes
\* the datastores opened so far, and the caller runs the closer at its end.
Mounts ==
  /\ pn.phase = "down" /\ pmount.at < 3
  /\ LET s == IF pmount.at = 1 THEN "0" ELSE "1" IN
     \/ pmount.at = 0 /\ pdisk.base /\ pmount' = [NoMount EXCEPT !.at = 1]
     \/ /\ pmount.at # 0
        /\ \/ pmount' = [at |-> pmount.at + 1, open |-> pmount.open \cup ({s} \cap pdisk.dirs)]
           \/ s \in pdisk.dirs /\ pmount' = NoMount
  /\ UNCHANGED <<pdisk, pq, pn, psync, pseen>>

Unmounts ==
  /\ pmount.at = 3 /\ pmount' = NoMount
  /\ UNCHANGED <<pdisk, pq, pn, psync, pseen>>

(***************************************************************************)
(* The reprovide alert loop                                                *)
(***************************************************************************)
\* busy is history: the successful polls in a row, up to AlertAfter + 1, that
\* found a periodic worker waiting.
AlertInit == [size |-> 0, queued |-> FALSE, count |-> 0, busy |-> 0, raised |-> FALSE]

\* The count after a poll that saw the given queue.
Grown(size, queued) == palert.queued /\ queued /\ size > palert.size

Counts(size, queued) ==
  IF Grown(size, queued) THEN palert.count + 1
  ELSE IF queued THEN palert.count ELSE 0

\* One poll; a poll whose stats are not available changes nothing.
AlertPolls ==
  \E size \in 0..MaxRegions, queued \in BOOLEAN :
    LET n == Counts(size, queued) IN
    palert' = [size |-> size, queued |-> queued,
               count |-> IF n > AlertAfter THEN AlertAfter ELSE n,
               busy |-> IF ~queued THEN 0
                        ELSE IF palert.busy > AlertAfter THEN palert.busy ELSE palert.busy + 1,
               raised |-> Grown(size, queued) /\ n >= AlertAfter]

(***************************************************************************)
(* ipfs provide once                                                       *)
(***************************************************************************)
OnceNodes == DOMAIN OnceLinks
OnceBelow[k \in 0..Cardinality(OnceNodes)] ==
  [n \in OnceNodes |-> IF k = 0 THEN {n}
                       ELSE {n} \cup UNION {OnceBelow[k - 1][m] : m \in OnceLinks[n]}]
OnceReach(roots, recursive) ==
  IF recursive THEN UNION {OnceBelow[Cardinality(OnceNodes)][n] : n \in roots} ELSE roots

\* state is "new", "run", "walk", "done" or "failed"; stack holds the nodes
\* that the walk has yet to visit, asked the arguments so far, sent the
\* announcements in order.
OnceInit == [state |-> "new", recursive |-> FALSE, local |-> {}, seen |-> {},
             stack |-> <<>>, asked |-> {}, sent |-> <<>>]

\* The guards of the command: online, enabled, connected; then the blocks that
\* are in the local store are fixed.
OnceBegins ==
  /\ ponce.state = "new"
  /\ \/ ponce' = [ponce EXCEPT !.state = "failed"]
     \/ \E recursive \in BOOLEAN, local \in SUBSET OnceNodes :
          ponce' = [ponce EXCEPT !.state = "run", !.recursive = recursive, !.local = local]

\* Visit and announce: a CID already seen is skipped with all that is below it,
\* and an announcement or a fetch that fails ends the command.
Announces(o, n) ==
  [o EXCEPT !.seen = @ \cup {n}, !.sent = Append(@, n),
            !.stack = (IF o.recursive /\ n \notin o.seen THEN SetToSeq(OnceLinks[n]) ELSE <<>>)
                      \o Tail(@)]

Visits(o, n) ==
  IF n \in o.seen THEN {[o EXCEPT !.stack = Tail(@)]}
  ELSE {Announces(o, n), [o EXCEPT !.state = "failed"]}

\* processRoot: the root must be local; the walk fetches a node to descend.
OnceArgument ==
  /\ ponce.state = "run"
  /\ \/ ponce' = [ponce EXCEPT !.state = "done"]
     \/ \E n \in OnceNodes :
          ponce' = IF n \notin ponce.local THEN [ponce EXCEPT !.state = "failed"]
                   ELSE [ponce EXCEPT !.state = "walk", !.asked = @ \cup {n}, !.stack = <<n>>]

OnceWalks ==
  /\ ponce.state = "walk"
  /\ IF ponce.stack = <<>> THEN ponce' = [ponce EXCEPT !.state = "run"]
     ELSE ponce' \in Visits(ponce, Head(ponce.stack))

OnceOver ==
  /\ ponce.state \in {"done", "failed"} /\ ponce' = OnceInit

OnceNext == OnceBegins \/ OnceArgument \/ OnceWalks \/ OnceOver

(***************************************************************************)
(* ipfs provide stat                                                       *)
(***************************************************************************)
StatSections == {"connectivity", "queues", "schedule", "timings", "network", "operations", "workers"}
StatColumn(x) == IF x \in {"schedule", "network", "workers"} THEN 1 ELSE 2

\* The sections of the text, in order.  The brief form shows connectivity only
\* off line and workers only when few are left (odd).
StatOrder == <<"connectivity", "queues", "schedule", "timings", "network", "operations", "workers">>
StatShown(flags, odd) ==
  SelectSeq(StatOrder, LAMBDA x :
    \/ "all" \in flags \/ x \in flags
    \/ flags = {} /\ x # "timings" /\ (x \in {"connectivity", "workers"} => odd))

\* What a section writes: a heading if there are several, lines, and a blank
\* line, which the brief form has not.
StatWrites(flags) ==
  (IF Cardinality(flags) > 1 \/ "all" \in flags THEN <<"text">> ELSE <<>>)
  \o <<"text">> \o (IF flags = {} THEN <<>> ELSE <<"blank">>)

\* The two columns; without --compact every section goes to the first.
StatLines(flags, compact, odd, col) ==
  FoldLeft(LAMBDA lines, x :
             IF (IF compact THEN StatColumn(x) ELSE 1) = col
             THEN lines \o StatWrites(flags) ELSE lines,
           <<>>, StatShown(flags, odd))


\* The answer: an error, or the line the encoder drops at the end ("none" if
\* it drops nothing, "panic" if there is no line to drop).
StatAnswer(kind, lan, flags, compact, odd) ==
  CASE kind = "legacy" -> IF lan \/ flags # {} THEN "error" ELSE "none"
    [] kind = "noop" -> "error"
    [] kind = "sweep" /\ compact /\ "all" \notin flags -> "error"
    [] OTHER ->
         LET one == StatLines(flags, compact, odd, 1)
             two == StatLines(flags, compact, odd, 2)
         IN IF flags = {} THEN "none"
            ELSE LET long == IF compact /\ Len(two) > Len(one) THEN two ELSE one
                 IN IF long = <<>> THEN "panic"
                    ELSE IF compact /\ Len(one) = Len(two) /\ Last(one) # Last(two) THEN "text"
                    ELSE Last(long)

\* `ipfs provide stat` drops a last line only when there is one, and that line
\* is blank: no figure of a section the caller asked for is cut off.
StatTrimsBlank ==
  pask.topic = "stat" =>
    StatAnswer(pask.kind, pask.lan, pask.flags, pask.compact, pask.odd) \in {"error", "none", "blank"}

\* The strategies an operator may write, the flags a caller may give.
Asks ==
  \/ \E tokens \in SUBSET StrategyTokens : pask' = [topic |-> "strategy", tokens |-> tokens]
  \/ \E kind \in {"legacy", "noop", "sweep"}, lan, compact, odd \in BOOLEAN,
        flags \in SUBSET (StatSections \cup {"all"}) :
       pask' = [topic |-> "stat", kind |-> kind, lan |-> lan, compact |-> compact,
                odd |-> odd, flags |-> flags]

(***************************************************************************)
(* The specification                                                       *)
(***************************************************************************)
ProviderInit ==
  /\ \E orphans \in 0..MaxOrphans, base \in BOOLEAN :
       /\ base => orphans = 0
       /\ pdisk = [strategy |-> "none", base |-> base, active |-> "0", orphans |-> orphans,
                   dirs |-> IF base THEN {"0"} ELSE {}]
  /\ pq = [legacy |-> {}, sweep |-> {}]
  /\ pn = Down /\ psync = SyncOff
  /\ pseen = [strategy |-> FALSE, purge |-> FALSE, alarm |-> FALSE]
  /\ pmount = NoMount
  /\ palert = AlertInit /\ ponce = OnceInit /\ pask = [topic |-> "none"]

ProviderNodeNext ==
  \/ NodeStarts \/ DetectsChange \/ HandlesChange
  \/ SweepOpens \/ Purges \/ KeystoreOpens \/ QueueChanges
  \/ LoopTurns
  \/ \E g \in Syncers : Lists(g) \/ ResetBegins(g) \/ ResetSwaps(g) \/ ResetStops(g) \/ ResetEnds(g)
  \/ StopBegins \/ DeadlinePasses \/ ClosesInOrder \/ StopsLoop \/ Crashes
  \/ Mounts \/ Unmounts

\* The legacy queue of a running node holds no key queued under another
\* strategy, also when the process died while handling a change: the queue is
\* cleared before the new strategy is persisted.  (Unless the datastore failed
\* on the strategy's key.)
LegacyQueueFits ==
  pn.phase = "up" /\ pn.mode = "legacy" /\ ~pseen.strategy => pq.legacy \subseteq {pn.strat}

\* The keystore's directory doubles as the "cleanup done" flag: while it is
\* there nothing of an older Kubo is left in the shared datastore, whenever
\* the process died.  (Unless a purge returned an error.)
OrphansGone == pdisk.base /\ ~pseen.purge => pdisk.orphans = 0

\* While a node with a schedule runs, the directory of the active keystore is
\* on disk, through every reset, shutdown and crash of an earlier run.
ActiveKept ==
  pn.phase \in {"up"} \cup Stopping /\ Scheduled => pdisk.active \in pdisk.dirs

\* The keystore is not closed under the provider's workers unless the shutdown
\* deadline passed.
WorkersFirst == pn.kstore = "closed" => ~pn.workers \/ pn.expired

\* A sync that only the shutdown interrupted is never logged as a failure, in
\* whichever order the keystore closes and the contexts are cancelled.
NoFalseAlarm == ~pseen.alarm

\* The ticker of the periodic sync has a positive period (time.NewTicker panics
\* on any other): the loop starts for any interval but 0.
LoopTicks == psync.loop # "off" => pn.interval > 0

\* MountKeystoreDatastores leaves no datastore open when it failed or when the
\* caller is done.
MountsClosed == pmount.at = 0 => pmount.open = {}

\* An alert is raised only after more than AlertAfter polls in a row in which
\* a periodic worker was waiting.
AlertBusy == palert.raised => palert.busy > AlertAfter

\* A `provide once` that succeeds announced every CID it was asked for, with
\* --recursive every one reachable, and none of them twice.
OnceWhole ==
  ponce.state = "done" =>
    /\ ToSet(ponce.sent) = OnceReach(ponce.asked, ponce.recursive)
    /\ Len(ponce.sent) = Cardinality(ToSet(ponce.sent))

\* Starting, changing strategy, syncing and stopping, with crashes anywhere, leave
\* no stale queue and no orphan, keep the active keystore and close things in
\* order; and what is announced, reprovided and reported agrees.
ProviderSafe ==
  /\ LegacyQueueFits /\ OrphansGone /\ ActiveKept /\ WorkersFirst /\ NoFalseAlarm
  /\ LoopTicks /\ MountsClosed /\ AlertBusy /\ OnceWhole /\ StrategyAgrees /\ StatTrimsBlank
=============================================================================
