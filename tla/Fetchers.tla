------------------------------ MODULE Fetchers ------------------------------
(***************************************************************************)
(* How the binaries of the legacy migrations are obtained                  *)
(* (repo/fsrepo/migrations: fetcher.go, httpfetcher.go, fetch.go,          *)
(* unpack.go, versions.go and the downloading half of migrations.go; and   *)
(* the temporary node of ipfsfetcher).                                     *)
(*                                                                         *)
(* One goroutine per missing migration asks a shared MultiFetcher twice,   *)
(* for the list of versions and for the archive, then unpacks the archive. *)
(* The MultiFetcher remembers which gateways failed and gives up for good  *)
(* after FullLoops calls in a row in which all of them did.                *)
(***************************************************************************)
EXTENDS Integers, Sequences, FiniteSets
LOCAL INSTANCE SequencesExt

CONSTANTS FNeeded,   \* the migrations between the two versions of the repo
          Gateways,  \* the indices of MultiFetcher.fetchers, 1..n
          FullLoops, \* maxMultiFetcherFullLoopFailures
          FUsers     \* goroutines that fetch through the temporary node

ASSUME FetchersAssumption == /\ Gateways # {}
                             /\ Gateways = 1..Cardinality(Gateways)
                             /\ FullLoops \in Nat \ {0}

VARIABLES fenv,   \* what the outside is like: see FetchEnvs
          fm,     \* MultiFetcher's failed, loopFailures, exhausted
          fj,     \* the goroutine of each missing migration
          fout,   \* the extracted binary of each migration in destDir
          farc,   \* the migrations whose downloaded archive is on disk
          fmain,  \* where RunMigration is
          fran,   \* the migrations run so far
          fbad,   \* gateways that failed a caller that had not given up
          ft,     \* the IpfsFetcher with its temporary node
          fu,     \* the users of that fetcher
          fask    \* a question put to the pure functions, with its answer

fetchvars == <<fenv, fm, fj, fout, farc, fmain, fran, fbad>>
tempvars == <<ft, fu>>

-----------------------------------------------------------------------------
(* RunMigration, fetchMigrations, FetchBinary, MultiFetcher *)

\* up: gateways that serve from now on; found: migrations already on PATH; keep:
\* DownloadDirectory is set, so archives are not put in a temporary directory.
FetchEnvs == [up: {{}}, found: SUBSET FNeeded, keep: BOOLEAN,
              canceled: {FALSE}]

Missing == FNeeded \ fenv.found

\* up: the gateways that served when the call began (history).
FIdle == [pc |-> "idle", file |-> "versions", order |-> <<>>, i |-> 1,
          up |-> {}]

FetchInit == /\ fenv \in FetchEnvs
             /\ fm = [failed |-> {}, loops |-> 0, exhausted |-> FALSE]
             /\ fj = [n \in FNeeded |-> FIdle]
             /\ fout = [n \in FNeeded |-> "none"]
             /\ farc = {}
             /\ fmain = "find"
             /\ fran = {}
             /\ fbad = {}

FSet(n, f) == fj' = [fj EXCEPT ![n] = f]

FetchStarts == /\ fmain = "find"
               /\ fmain' = IF Missing = {} THEN "run" ELSE "wait"
               /\ fj' = [n \in FNeeded |-> IF n \in Missing
                             THEN [FIdle EXCEPT !.pc = "fetch"] ELSE FIdle]
               /\ UNCHANGED <<fenv, fm, fout, farc, fran, fbad>>

\* MultiFetcher.Fetch begins: exhaustedErr.
Exhausted(n) == /\ fj[n].pc = "fetch"
                /\ FSet(n, [fj[n] EXCEPT !.pc = IF fm.exhausted THEN "failed"
                                                ELSE "order"])
                /\ UNCHANGED <<fenv, fm, fout, farc, fmain, fran, fbad>>

\* The unmarked fetchers in their order, then the marked ones in theirs.
tryOrder == LET Sorted(S) == SetToSortSeq(S, <)
            IN Sorted(Gateways \ fm.failed) \o Sorted(fm.failed)

Orders(n) == /\ fj[n].pc = "order"
             /\ FSet(n, [fj[n] EXCEPT !.pc = "try", !.order = tryOrder,
                                      !.i = 1, !.up = fenv.up])
             /\ UNCHANGED <<fenv, fm, fout, farc, fmain, fran, fbad>>

\* Mutant: the context is not looked at.
TriesBlaming(n) ==
  LET f == fj[n]
      g == f.order[f.i]
  IN /\ f.pc = "try"
     /\ f.i <= Len(f.order)
     /\ \/ /\ ~fenv.canceled
           /\ FSet(n, [f EXCEPT !.pc = "served"])
           /\ UNCHANGED fbad
        \/ /\ fenv.canceled \/ g \notin fenv.up
           /\ FSet(n, [f EXCEPT !.pc = "blame"])
           /\ fbad' = IF fenv.canceled THEN fbad ELSE fbad \cup {g}
     /\ UNCHANGED <<fenv, fm, fout, farc, fmain, fran>>

\* One fetcher answers or fails; a caller whose context has ended leaves
\* without blaming it.
Tries(n) ==
  LET f == fj[n]
      g == f.order[f.i]
  IN /\ f.pc = "try"
     /\ f.i <= Len(f.order)
     /\ \/ /\ ~fenv.canceled
           /\ FSet(n, [f EXCEPT !.pc = "served"])
           /\ UNCHANGED fbad
        \/ /\ fenv.canceled \/ g \notin fenv.up
           /\ FSet(n, IF fenv.canceled THEN [FIdle EXCEPT !.pc = "failed"]
                      ELSE [f EXCEPT !.pc = "blame"])
           /\ fbad' = IF fenv.canceled THEN fbad ELSE fbad \cup {g}
     /\ UNCHANGED <<fenv, fm, fout, farc, fmain, fran>>

\* What Fetch's caller does with the bytes: the list of versions leads on to
\* FetchBinary, unless it names none; the archive is written and unpacked.
Served(f) == IF f.file = "versions" THEN {"binary", "failed"} ELSE {"unpack"}

markOutcome(n) ==
  LET f == fj[n]
  IN /\ \/ /\ f.pc = "served"
           /\ fm' = [fm EXCEPT !.failed = @ \ {f.order[f.i]}, !.loops = 0]
           /\ \E next \in Served(f): FSet(n, [FIdle EXCEPT !.pc = next])
        \/ /\ f.pc = "blame"
           /\ fm' = [fm EXCEPT !.failed = @ \cup {f.order[f.i]}]
           /\ FSet(n, [f EXCEPT !.pc = "try", !.i = @ + 1])
     /\ UNCHANGED <<fenv, fout, farc, fmain, fran, fbad>>

recordFullLoopFailure(n) ==
  LET f == fj[n]
      k == fm.loops + 1
  IN /\ f.pc = "try"
     /\ f.i > Len(f.order)
     /\ fm' = IF k >= FullLoops
              THEN [fm EXCEPT !.loops = k, !.exhausted = TRUE]
              ELSE [fm EXCEPT !.loops = k, !.failed = {}]
     /\ FSet(n, [FIdle EXCEPT !.pc = "failed"])
     /\ UNCHANGED <<fenv, fout, farc, fmain, fran, fbad>>

\* FetchBinary up to its Fetch: no output yet, a directory for the archive,
\* and the empty archive file in it.
FetchBinary(n) ==
  /\ fj[n].pc = "binary"
  /\ \/ /\ fout[n] = "none"
        /\ farc' = farc \cup {n}
        /\ FSet(n, [FIdle EXCEPT !.pc = "fetch", !.file = "archive"])
     \/ /\ FSet(n, [fj[n] EXCEPT !.pc = "failed"])  \* exists, or no directory
        /\ UNCHANGED farc
  /\ UNCHANGED <<fenv, fm, fout, fmain, fran, fbad>>

\* io.Copy to the archive, unpackArchive, writeToPath and os.Chmod. A
\* failure can leave a part of the binary behind, or all of it.
Unpacks(n) ==
  /\ fj[n].pc = "unpack"
  /\ \/ /\ fout' = [fout EXCEPT ![n] = "whole"]
        /\ FSet(n, [fj[n] EXCEPT !.pc = "got"])
     \/ /\ \E left \in {"none", "part", "whole"}:
             fout' = [fout EXCEPT ![n] = left]
        /\ FSet(n, [fj[n] EXCEPT !.pc = "failed"])
  /\ UNCHANGED <<fenv, fm, farc, fmain, fran, fbad>>

\* The deferred RemoveAll of FetchBinary, and wg.Done.
GoroutineEnds(n) ==
  /\ fj[n].pc \in {"got", "failed"}
  /\ FSet(n, [fj[n] EXCEPT !.pc = IF @ = "got" THEN "bin" ELSE "nobin"])
  /\ farc' = IF fenv.keep THEN farc ELSE farc \ {n}
  /\ UNCHANGED <<fenv, fm, fout, fmain, fran, fbad>>

\* wg.Wait, and the check that no element of bins is empty.
Collected == \A n \in Missing: fj[n].pc = "bin"

FetchMigrationsEnds ==
  /\ fmain = "wait"
  /\ \A n \in Missing: fj[n].pc \in {"bin", "nobin"}
  /\ fmain' = IF Collected THEN "run" ELSE "cleanup"
  /\ UNCHANGED <<fenv, fm, fj, fout, farc, fran, fbad>>

\* The migrations run one after the other, in an order FNeeded leaves open;
\* RunMigration ends at the first that fails.
RunsMigration ==
  /\ fmain = "run"
  /\ \/ /\ \E n \in FNeeded \ fran: fran' = fran \cup {n}
        /\ \E pc \in {"run", "cleanup"}: fmain' = pc
     \/ /\ fran = FNeeded
        /\ fmain' = "cleanup"
        /\ UNCHANGED fran
  /\ UNCHANGED <<fenv, fm, fj, fout, farc, fbad>>

\* The deferred RemoveAll of destDir.
RunMigrationEnds == /\ fmain = "cleanup"
                    /\ fmain' = "done"
                    /\ fout' = [n \in FNeeded |-> "none"]
                    /\ UNCHANGED <<fenv, fm, fj, farc, fran, fbad>>

\* The user interrupts.
FetchCanceled == /\ ~fenv.canceled
                 /\ fmain # "done"
                 /\ fenv' = [fenv EXCEPT !.canceled = TRUE]
                 /\ UNCHANGED <<fm, fj, fout, farc, fmain, fran, fbad>>

\* A gateway recovers.
GatewayHeals == /\ \E g \in Gateways \ fenv.up:
                     fenv' = [fenv EXCEPT !.up = @ \cup {g}]
                /\ fmain = "wait"
                /\ UNCHANGED <<fm, fj, fout, farc, fmain, fran, fbad>>

FetchNext ==
  \/ GatewayHeals
  \/ FetchStarts \/ FetchMigrationsEnds \/ RunsMigration
  \/ RunMigrationEnds \/ FetchCanceled
  \/ \E n \in FNeeded:
       \/ Exhausted(n) \/ Orders(n) \/ Tries(n) \/ markOutcome(n)
       \/ recordFullLoopFailure(n) \/ FetchBinary(n) \/ Unpacks(n)
       \/ GoroutineEnds(n)

-----------------------------------------------------------------------------
(* IpfsFetcher: a temporary node opened by the first Fetch *)

TempInit == /\ ft = [once |-> "no", err |-> FALSE, dir |-> "none",
                     node |-> "none", stop |-> FALSE, fetched |-> 0,
                     close |-> "open"]
            /\ fu = [u \in FUsers |-> "call"]

\* openOnce.Do: the first caller opens, the others wait for it.
OpensOnce(u) == /\ fu[u] = "call"
                /\ \/ /\ ft.once = "no"
                      /\ ft' = [ft EXCEPT !.once = "doing"]
                      /\ fu' = [fu EXCEPT ![u] = "init"]
                   \/ /\ ft.once = "done"
                      /\ fu' = [fu EXCEPT ![u] = IF ft.err THEN "end" ELSE "get"]
                      /\ UNCHANGED ft

\* The repo of the node is made in a new directory, removed again on failure.
initTempNode(u) ==
  /\ fu[u] = "init"
  /\ \/ /\ ft' = [ft EXCEPT !.dir = "there"]
        /\ fu' = [fu EXCEPT ![u] = "start"]
     \/ /\ ft' = [ft EXCEPT !.err = TRUE, !.once = "done"]
        /\ fu' = [fu EXCEPT ![u] = "call"]

\* Opening the repo, building the node and making its API can fail; the last
\* leaves a node that has been told to stop.
startTempNode(u) ==
  /\ fu[u] = "start"
  /\ \/ ft' = [ft EXCEPT !.once = "done", !.err = TRUE]
     \/ ft' = [ft EXCEPT !.once = "done", !.err = TRUE, !.node = "stopping"]
     \/ ft' = [ft EXCEPT !.once = "done", !.node = "up", !.stop = TRUE]
  /\ fu' = [fu EXCEPT ![u] = "call"]

TempGets(u) == /\ fu[u] = "get"
               /\ fu' = [fu EXCEPT ![u] = "end"]
               /\ \/ ft' = [ft EXCEPT !.fetched = @ + 1]  \* recordFetched
                  \/ UNCHANGED ft

TempNodeStops == /\ ft.node = "stopping"
                 /\ ft' = [ft EXCEPT !.node = "down"]
                 /\ UNCHANGED fu

\* Close, once no Fetch is running: stop and wait, then remove the directory.
TempCloses ==
  /\ \A u \in FUsers: fu[u] \in {"call", "end"}
  /\ ft.once # "doing"
  /\ \/ /\ ft.close = "open"
        /\ ft' = [ft EXCEPT !.close = IF ft.stop THEN "wait" ELSE "remove",
                            !.node = IF ft.stop THEN "stopping" ELSE @]
     \/ /\ ft.close = "wait"
        /\ ft.node = "down"
        /\ ft' = [ft EXCEPT !.close = "remove"]
     \/ /\ ft.close = "remove"
        /\ ft' = [ft EXCEPT !.close = "closed",
                            !.dir = IF @ = "there" THEN "gone" ELSE @]
  /\ fu' = [u \in FUsers |-> "end"]

TempNext == \/ \E u \in FUsers: \/ OpensOnce(u) \/ initTempNode(u)
                                \/ startTempNode(u) \/ TempGets(u)
            \/ TempNodeStops \/ TempCloses

-----------------------------------------------------------------------------
(* Pure parts *)

\* The number of fetchers GetMigrationFetcher makes of the sources, or -1 for
\* an error. Gateways is what the alias "HTTPS" stands for.
GetMigrationFetcher(sources) ==
  LET Makes(s) == CASE s = "https" -> Cardinality(Gateways)
                    [] s = "url" -> 1
                    [] OTHER -> 0
      made == FoldLeft(LAMBDA n, s: n + Makes(s), 0, sources)
  IN IF made = 0 \/ \E i \in DOMAIN sources: sources[i] \in {"ipfs", "bad"}
     THEN -1 ELSE made

\* A version is <<number, rank of its suffix>>, 0 for dev, 1 for rc, 2 for a
\* release, as semver orders them.
DistVersions(lines) ==
  SetToSortSeq(lines, LAMBDA v, w: v[1] < w[1] \/ (v[1] = w[1] /\ v[2] < w[2]))

LatestDistVersion(lines, stableOnly) ==
  LET vs == DistVersions(lines)
      Fits(i) == vs[i][2] # 0 /\ (stableOnly => vs[i][2] # 1)
      fitting == {i \in DOMAIN vs: Fits(i)}
  IN IF fitting = {} THEN <<>>
     ELSE vs[CHOOSE i \in fitting: \A j \in fitting: j <= i]

\* NewHttpFetcher's limit; none is 0, and Default stands for 512 MiB.
FetchLimit(given) == IF given = 0 THEN 5 ELSE IF given < 0 THEN 0 ELSE given

\* carStreamToFileBytes: blocks of two units each are read until the limit
\* cuts the stream; a cut block is an error, a missing one as well.
HttpFetch(blocks, sent, given) ==
  LET limit == FetchLimit(given)
      size == 2 * Len(sent)
      read == IF limit # 0 /\ limit < size THEN limit ELSE size
      stored == {sent[i]: i \in 1..(read \div 2)}
  IN IF read % 2 = 1 THEN "error"
     ELSE IF blocks \subseteq stored THEN "whole" ELSE "error"

FNothing == [topic |-> "none"]

AsksFetcher ==
  \/ \E s \in SeqOf({"https", "ipfs", "", "url", "bad"}, 3):
       fask' = [topic |-> "sources", sources |-> s,
                answer |-> GetMigrationFetcher(s)]
  \/ \E lines \in SUBSET ((1..2) \X (0..2)), stable \in BOOLEAN:
       fask' = [topic |-> "latest", lines |-> lines, stable |-> stable,
                answer |-> LatestDistVersion(lines, stable)]
  \/ \E n \in 1..3, given \in -1..6:
     \E sent \in SeqOf(1..3, 3):
       fask' = [topic |-> "http", blocks |-> 1..n, given |-> given,
                sent |-> sent, answer |-> HttpFetch(1..n, sent, given)]

-----------------------------------------------------------------------------
(* Properties *)

\* A gateway is set back only for a failure of its own: cancelled calls, from
\* however many goroutines, neither mark a gateway nor count towards the
\* exhaustion of the fetcher (MultiFetcher.Fetch looks at the context before
\* markOutcome).
BlameReal == /\ fm.failed \subseteq fbad
             /\ fm.loops > 0 => fbad = Gateways

\* A call of Fetch that begins when some gateway serves is served, whatever
\* that gateway did before and the others do to the other goroutines: a marked
\* fetcher is still tried last (tryOrder).
OneIsEnough == \A n \in FNeeded: fj[n].pc = "try" /\ fj[n].up # {} =>
                 fj[n].i <= Len(fj[n].order)

\* Nothing runs before everything is there: a migration is started only when
\* every missing binary has been unpacked whole (fetchMigrations returns no
\* partial list), so that a repo is not left between two versions for lack of
\* a download.
RunsWhole == fmain = "run" => \A n \in Missing: fout[n] = "whole"

\* When RunMigration returns, on every path, the archives and the binaries it
\* downloaded are gone, except archives kept in DownloadDirectory.
DownloadsGone ==
  fmain = "done" => /\ ~fenv.keep => farc = {}
                    /\ \A n \in FNeeded: fout[n] = "none"

\* A closed IpfsFetcher leaves no directory behind on any path of its opening,
\* and a node that served fetches is down before its repo is removed.
TempNodeGone ==
  ft.close = "closed" => /\ ft.dir # "there"
                         /\ ft.node # "up"
                         /\ ft.stop => ft.node = "down"

\* An unsupported source is refused even beside good ones, and a list without
\* any source as well (GetMigrationFetcher).
SourcesRefused ==
  fask.topic = "sources" =>
    (fask.answer = -1) =
      (\/ \E i \in DOMAIN fask.sources: fask.sources[i] \in {"ipfs", "bad"}
       \/ \A i \in DOMAIN fask.sources: fask.sources[i] = "")

\* The version taken for a migration is the newest on the list that is not a
\* development version, nor a candidate when only releases are wanted.
LatestTaken ==
  fask.topic = "latest" =>
    LET ok == {v \in fask.lines: v[2] # 0 /\ (fask.stable => v[2] = 2)}
    IN IF ok = {} THEN fask.answer = <<>>
       ELSE /\ fask.answer \in ok
            /\ \A v \in ok: \/ v[1] < fask.answer[1]
                            \/ v[1] = fask.answer[1] /\ v[2] <= fask.answer[2]

\* A download over HTTP that the limit cuts short, between two blocks or inside
\* one, or from which the gateway left blocks out, is an error, never a file
\* with its end missing (carStreamToFileBytes resolves against what it stored).
HttpWhole == fask.topic = "http" => fask.answer # "part"

\* Downloads through several sources at once blame only what failed, are served
\* by any source that works, run nothing before all is there and leave nothing
\* behind.
FetchSafe ==
  /\ BlameReal /\ OneIsEnough /\ RunsWhole /\ DownloadsGone /\ TempNodeGone
  /\ SourcesRefused /\ LatestTaken /\ HttpWhole
=============================================================================
