--------------------------- MODULE LifecycleProofs --------------------------
(***************************************************************************)
(* The commands that begin, run and renew a node, for any number of processes,*)
(* listeners, plugins and versions: what `ipfs init` leaves on the disk    *)
(* (InitCmd), what `ipfs daemon` has open, serves and leaves behind (Daemon),*)
(* and what `ipfs update` puts in the place of the binary (SelfUpdate).    *)
(***************************************************************************)
EXTENDS InitCmd, Daemon, SelfUpdate, FiniteSetTheorems, WellFoundedInduction, TLAPS

-----------------------------------------------------------------------------
(* ipfs init                                                               *)

InitSteps == InitEnded \cup {"key", "writable", "exists", "profiles", "fsinit", "config",
                             "spec", "version", "docs", "seed", "pin", "pinning"}

InitTypeOK ==
  /\ idisk \in [dir : BOOLEAN, config : InitProcs \cup {NoIdentity},
                has : SUBSET {"spec", "version", "docs", "pin"}]
  /\ iproc \in [InitProcs -> [input : InitInputs, empty : BOOLEAN, pc : InitSteps, alone : BOOLEAN]]
  /\ irace \in BOOLEAN

\* What the disk holds of a repo whose init has come as far as p has.
HasInv == \A p \in InitProcs :
  /\ iproc[p].pc \in {"pinning", "ok"} => {"spec", "version"} \subseteq idisk.has
  /\ iproc[p].pc \in {"pin", "pinning", "ok"} /\ ~iproc[p].empty => "docs" \in idisk.has
  /\ iproc[p].pc = "ok" => "pin" \in idisk.has

\* Without a race, a process about to write the config finds none, and no other
\* is about to write it or is writing the files that come after it.
RaceInv == ~irace => \A p \in InitProcs :
  /\ iproc[p].pc = "config" => /\ idisk.config = NoIdentity
                               /\ \A q \in InitProcs \ {p} : iproc[q].pc \notin {"config", "spec", "version"}
  /\ iproc[p].pc \in {"spec", "version"} => idisk.config = p

\* A process that has run alone so far: no config until it writes its own, its
\* own from then on, and after its end no other process gets past the check.
AloneInv == \A p \in InitProcs : iproc[p].alone =>
  /\ p \in InitRunning => InitRunning = {p}
  /\ iproc[p].pc \in {"profiles", "fsinit", "config"} => idisk.config = NoIdentity
  /\ iproc[p].pc \in {"spec", "version", "docs", "seed", "pin", "pinning", "ok"} => idisk.config = p
  /\ iproc[p].pc = "ok" => \A q \in InitProcs : iproc[q].pc \notin {"profiles", "fsinit", "config"}

\* A process with a bad input is stopped before it writes its config.
InputInv == \A p \in InitProcs :
  /\ iproc[p].input = "nokey" => iproc[p].pc \in {"idle", "key", "error", "dead"}
  /\ iproc[p].input = "badprofile" => iproc[p].pc \in {"idle", "key", "writable", "exists", "profiles", "error", "dead"}
  /\ iproc[p].input # "good" => iproc[p].pc \notin {"config", "spec", "version"} /\ idisk.config # p

InitInv == InitTypeOK /\ HasInv /\ RaceInv /\ AloneInv /\ InputInv

\* What a step of p to pc does to the processes: only p's pc changes.
StepsTo(p, pc) ==
  /\ \A q \in InitProcs : /\ iproc'[q].pc = IF q = p THEN pc ELSE iproc[q].pc
                         /\ iproc'[q].input = iproc[q].input
                         /\ iproc'[q].empty = iproc[q].empty
                         /\ iproc'[q].alone = iproc[q].alone
  /\ iproc' \in [InitProcs -> [input : InitInputs, empty : BOOLEAN, pc : InitSteps, alone : BOOLEAN]]

\* Moves changes one field of one process.
LEMMA MovesSteps ==
  ASSUME InitTypeOK, NEW p \in InitProcs, NEW pc \in InitSteps, Moves(p, pc)
  PROVE  StepsTo(p, pc)
<1>1. iproc' = [iproc EXCEPT ![p] = [iproc[p] EXCEPT !.pc = pc]]
  BY Zenon DEF Moves
<1> QED
  BY <1>1, ZenonT(60) DEF InitTypeOK, StepsTo

\* The invariant holds before any process has begun.
LEMMA InitInvInit == InitCmdInit => InitInv
<1> SUFFICES ASSUME InitCmdInit PROVE InitInv
  BY Zenon
<1>1. InitTypeOK
  BY ZenonT(60) DEF InitCmdInit, InitTypeOK, InitSteps, InitEnded
<1>2. \A p \in InitProcs : iproc[p].pc = "idle"
  BY ZenonT(60) DEF InitCmdInit
<1> QED
  BY <1>1, <1>2, InitAssumption, Zenon
  DEF InitCmdInit, InitInv, HasInv, RaceInv, AloneInv, InputInv, InitRunning, InitEnded

\* A process that begins: only it and the ones that run are no longer alone.
LEMMA BeginsKeeps ==
  ASSUME InitInv, NEW p \in InitProcs, InitBegins(p), UNCHANGED irace
  PROVE  InitInv'
<1>1. \A q \in InitProcs :
        /\ iproc'[q].pc = IF q = p THEN "key" ELSE iproc[q].pc
        /\ iproc'[q].input = iproc[q].input
        /\ iproc'[q].empty = iproc[q].empty
        /\ iproc'[q].alone => IF q = p THEN InitRunning = {} ELSE iproc[q].alone /\ q \notin InitRunning
  BY ZenonT(60) DEF InitBegins, InitInv, InitTypeOK
<1>2. InitTypeOK'
  <2>1. ASSUME NEW q \in InitProcs
        PROVE  iproc'[q] \in [input : InitInputs, empty : BOOLEAN, pc : InitSteps, alone : BOOLEAN]
    BY ZenonT(60) DEF InitBegins, InitInv, InitTypeOK, InitSteps, InitEnded
  <2> QED
    BY <2>1, ZenonT(60) DEF InitBegins, InitInv, InitTypeOK
<1>3. idisk' = idisk /\ iproc[p].pc = "idle"
  BY ZenonT(60) DEF InitBegins
<1>4. HasInv' /\ InputInv'
  BY <1>1, <1>3 DEF InitInv, HasInv, InputInv
<1>5. RaceInv'
  BY <1>1, <1>3 DEF InitInv, RaceInv
<1>6. AloneInv'
  BY <1>1, <1>3 DEF InitInv, AloneInv, InitRunning, InitEnded
<1> QED
  BY <1>2, <1>4, <1>5, <1>6, Zenon DEF InitInv

\* Every step of init keeps the invariant.
LEMMA InitInvNext == InitInv /\ [InitCmdNext]_initvars => InitInv'
<1> SUFFICES ASSUME InitInv, [InitCmdNext]_initvars PROVE InitInv'
  BY Zenon
<1> USE InitAssumption DEF InitInv
<1>1. ASSUME NEW p \in InitProcs, ChecksKey(p), UNCHANGED irace PROVE InitInv'
  <2>1. PICK pc \in {"error", "writable"} : Moves(p, pc)
    BY <1>1, Zenon DEF ChecksKey
  <2>2. StepsTo(p, pc)
    BY <2>1, MovesSteps, Zenon DEF InitSteps, InitEnded
  <2> QED
    BY <1>1, <2>1, <2>2, SMTT(30)
    DEF ChecksKey, Moves, StepsTo, InitTypeOK, HasInv, RaceInv, AloneInv, InputInv, InitRunning, InitEnded
<1>2. ASSUME NEW p \in InitProcs, ChecksWritable(p), UNCHANGED irace PROVE InitInv'
  <2>1. PICK pc \in {"exists", "error"} : Moves(p, pc)
    BY <1>2, Zenon DEF ChecksWritable
  <2>2. StepsTo(p, pc)
    BY <2>1, MovesSteps, Zenon DEF InitSteps, InitEnded
  <2>3. InitTypeOK'
    BY <1>2, <2>1, <2>2, ZenonT(60) DEF ChecksWritable, Moves, StepsTo, InitTypeOK, HasInv, RaceInv, AloneInv, InputInv, InitRunning, InitEnded
  <2>4. HasInv'
    BY <1>2, <2>1, <2>2 DEF ChecksWritable, Moves, StepsTo, InitTypeOK, HasInv, RaceInv, AloneInv, InputInv, InitRunning, InitEnded
  <2>5. RaceInv'
    BY <1>2, <2>1, <2>2 DEF ChecksWritable, Moves, StepsTo, InitTypeOK, HasInv, RaceInv, AloneInv, InputInv, InitRunning, InitEnded
  <2>6. AloneInv'
    BY <1>2, <2>1, <2>2 DEF ChecksWritable, Moves, StepsTo, InitTypeOK, HasInv, RaceInv, AloneInv, InputInv, InitRunning, InitEnded
  <2>7. InputInv'
    BY <1>2, <2>1, <2>2 DEF ChecksWritable, Moves, StepsTo, InitTypeOK, HasInv, RaceInv, AloneInv, InputInv, InitRunning, InitEnded
  <2> QED
    BY <2>3, <2>4, <2>5, <2>6, <2>7, Zenon
<1>3. ASSUME NEW p \in InitProcs, ChecksExists(p), UNCHANGED irace PROVE InitInv'
  <2>1. PICK pc \in {"error", "profiles"} : Moves(p, pc)
    BY <1>3, Zenon DEF ChecksExists
  <2>2. StepsTo(p, pc)
    BY <2>1, MovesSteps, Zenon DEF InitSteps, InitEnded
  <2> QED
    BY <1>3, <2>1, <2>2, SMTT(30)
    DEF ChecksExists, Moves, StepsTo, InitTypeOK, HasInv, RaceInv, AloneInv, InputInv, InitRunning, InitEnded
<1>4. ASSUME NEW p \in InitProcs, AppliesProfiles(p), UNCHANGED irace PROVE InitInv'
  <2>1. PICK pc \in {"error", "fsinit"} : Moves(p, pc)
    BY <1>4, Zenon DEF AppliesProfiles
  <2>2. StepsTo(p, pc)
    BY <2>1, MovesSteps, Zenon DEF InitSteps, InitEnded
  <2> QED
    BY <1>4, <2>1, <2>2, SMTT(30)
    DEF AppliesProfiles, Moves, StepsTo, InitTypeOK, HasInv, RaceInv, AloneInv, InputInv, InitRunning, InitEnded
<1>5. ASSUME NEW p \in InitProcs, FsInit(p) PROVE InitInv'
  <2>1. PICK pc \in {"docs", "error", "config"} :
          /\ Moves(p, pc)
          /\ pc = "docs" => idisk.config # NoIdentity
          /\ pc = "config" => idisk.config = NoIdentity /\ iproc[p].input # "badspec"
    BY <1>5, Zenon DEF FsInit
  <2>2. StepsTo(p, pc)
    BY <2>1, MovesSteps, Zenon DEF InitSteps, InitEnded
  <2>3. iproc[p].pc = "fsinit" /\ idisk' = idisk /\ irace' = Races(p)
    BY <1>5, Zenon DEF FsInit
  <2>4. InitTypeOK' /\ HasInv'
    BY <2>2, <2>3, ZenonT(60) DEF StepsTo, InitTypeOK, HasInv, Races
  <2>5. RaceInv'
    <3>1. SUFFICES ASSUME ~irace' PROVE RaceInv'
      BY Zenon DEF RaceInv
    <3>2. ~irace /\ \A q \in InitProcs \ {p} : iproc[q].pc # "config"
      BY <2>3, <3>1, ZenonT(60) DEF Races
    <3>3. pc = "config" => \A q \in InitProcs : iproc[q].pc \notin {"spec", "version"}
      BY <2>1, <3>2, Zenon DEF RaceInv
    <3> QED
      BY <2>1, <2>2, <2>3, <3>2, <3>3 DEF StepsTo, RaceInv
  <2>6. AloneInv'
    BY <2>1, <2>2, <2>3 DEF StepsTo, AloneInv, InitRunning, InitEnded
  <2>7. InputInv'
    BY <2>1, <2>2, <2>3 DEF StepsTo, InitTypeOK, InitInputs, InputInv
  <2> QED
    BY <2>4, <2>5, <2>6, <2>7, Zenon
<1>6. ASSUME NEW p \in InitProcs, WritesConfig(p), UNCHANGED irace PROVE InitInv'
  <2>1. PICK pc \in {"spec", "error"} : Moves(p, pc)
    BY <1>6, Zenon DEF WritesConfig
  <2>2. StepsTo(p, pc)
    BY <2>1, MovesSteps, Zenon DEF InitSteps, InitEnded
  <2>3. InitTypeOK'
    BY <1>6, <2>1, <2>2 DEF WritesConfig, Moves, StepsTo, InitTypeOK, HasInv, RaceInv, AloneInv, InputInv, InitRunning, InitEnded
  <2>4. HasInv'
    BY <1>6, <2>1, <2>2 DEF WritesConfig, Moves, StepsTo, InitTypeOK, HasInv, RaceInv, AloneInv, InputInv, InitRunning, InitEnded
  <2>5. RaceInv'
    BY <1>6, <2>1, <2>2 DEF WritesConfig, Moves, StepsTo, InitTypeOK, HasInv, RaceInv, AloneInv, InputInv, InitRunning, InitEnded
  <2>6. AloneInv'
    BY <1>6, <2>1, <2>2 DEF WritesConfig, Moves, StepsTo, InitTypeOK, HasInv, RaceInv, AloneInv, InputInv, InitRunning, InitEnded
  <2>7. InputInv'
    BY <1>6, <2>1, <2>2 DEF WritesConfig, Moves, StepsTo, InitTypeOK, HasInv, RaceInv, AloneInv, InputInv, InitRunning, InitEnded
  <2> QED
    BY <2>3, <2>4, <2>5, <2>6, <2>7, Zenon
<1>7. ASSUME NEW p \in InitProcs, WritesSpec(p), UNCHANGED irace PROVE InitInv'
  <2>1. PICK pc \in {"version", "error"} : Moves(p, pc)
    BY <1>7, Zenon DEF WritesSpec
  <2>2. StepsTo(p, pc)
    BY <2>1, MovesSteps, Zenon DEF InitSteps, InitEnded
  <2> QED
    BY <1>7, <2>1, <2>2, SMTT(30)
    DEF WritesSpec, Moves, StepsTo, InitTypeOK, HasInv, RaceInv, AloneInv, InputInv, InitRunning, InitEnded
<1>8. ASSUME NEW p \in InitProcs, WritesVersion(p), UNCHANGED irace PROVE InitInv'
  <2>1. PICK pc \in {"docs", "error"} : Moves(p, pc)
    BY <1>8, Zenon DEF WritesVersion
  <2>2. StepsTo(p, pc)
    BY <2>1, MovesSteps, Zenon DEF InitSteps, InitEnded
  <2> QED
    BY <1>8, <2>1, <2>2, SMTT(30)
    DEF WritesVersion, Moves, StepsTo, InitTypeOK, HasInv, RaceInv, AloneInv, InputInv, InitRunning, InitEnded
<1>9. ASSUME NEW p \in InitProcs, SkipsAssets(p), UNCHANGED irace PROVE InitInv'
  <2>1. PICK pc \in {"pin"} : Moves(p, pc)
    BY <1>9, Zenon DEF SkipsAssets
  <2>2. StepsTo(p, pc)
    BY <2>1, MovesSteps, Zenon DEF InitSteps, InitEnded
  <2> QED
    BY <1>9, <2>1, <2>2, SMTT(30)
    DEF SkipsAssets, Moves, StepsTo, InitTypeOK, HasInv, RaceInv, AloneInv, InputInv, InitRunning, InitEnded
<1>10. ASSUME NEW p \in InitProcs, OpensRepo(p), UNCHANGED irace PROVE InitInv'
  <2>1. PICK pc \in {"seed", "pinning", "error"} : Moves(p, pc)
    BY <1>10, Zenon DEF OpensRepo
  <2>2. StepsTo(p, pc)
    BY <2>1, MovesSteps, Zenon DEF InitSteps, InitEnded
  <2> QED
    BY <1>10, <2>1, <2>2, SMTT(30)
    DEF OpensRepo, Moves, StepsTo, InitTypeOK, HasInv, RaceInv, AloneInv, InputInv, InitRunning, InitEnded, Openable
<1>11. ASSUME NEW p \in InitProcs, SeedsDocs(p), UNCHANGED irace PROVE InitInv'
  <2>1. PICK pc \in {"pin", "error"} : Moves(p, pc)
    BY <1>11, Zenon DEF SeedsDocs
  <2>2. StepsTo(p, pc)
    BY <2>1, MovesSteps, Zenon DEF InitSteps, InitEnded
  <2> QED
    BY <1>11, <2>1, <2>2, SMTT(30)
    DEF SeedsDocs, Moves, StepsTo, InitTypeOK, HasInv, RaceInv, AloneInv, InputInv, InitRunning, InitEnded
<1>12. ASSUME NEW p \in InitProcs, PinsEmptyDir(p), UNCHANGED irace PROVE InitInv'
  <2>1. PICK pc \in {"ok", "error"} : Moves(p, pc)
    BY <1>12, Zenon DEF PinsEmptyDir
  <2>2. StepsTo(p, pc)
    BY <2>1, MovesSteps, Zenon DEF InitSteps, InitEnded
  <2> QED
    BY <1>12, <2>1, <2>2, SMTT(30)
    DEF PinsEmptyDir, Moves, StepsTo, InitTypeOK, HasInv, RaceInv, AloneInv, InputInv, InitRunning, InitEnded
<1>13. ASSUME NEW p \in InitProcs, InitKilled(p), UNCHANGED irace PROVE InitInv'
  <2>1. PICK pc \in {"dead"} : Moves(p, pc)
    BY <1>13, Zenon DEF InitKilled
  <2>2. StepsTo(p, pc)
    BY <2>1, MovesSteps, Zenon DEF InitSteps, InitEnded
  <2> QED
    BY <1>13, <2>1, <2>2, SMTT(30)
    DEF InitKilled, Moves, StepsTo, InitTypeOK, HasInv, RaceInv, AloneInv, InputInv, InitRunning, InitEnded
<1>14. CASE UNCHANGED initvars
  BY <1>14, ZenonT(60) DEF initvars, InitTypeOK, HasInv, RaceInv, AloneInv, InputInv, InitRunning
<1> QED
  BY BeginsKeeps, <1>1, <1>2, <1>3, <1>4, <1>5, <1>6, <1>7, <1>8, <1>9, <1>10, <1>11, <1>12, <1>13, <1>14, Zenon
  DEF InitCmdNext

\* The three parts of InitSafe follow from the invariant.
LEMMA InitInvSafe == InitInv => InitSafe
<1> SUFFICES ASSUME InitInv PROVE InitWhole /\ InitOwns /\ InitRetries
  BY Zenon DEF InitSafe
<1>1. InitWhole
  BY Zenon DEF InitInv, HasInv, InitWhole
<1>2. InitOwns
  BY Zenon DEF InitInv, RaceInv, AloneInv, InitOwns
<1>3. InitRetries
  BY Zenon DEF InitInv, InputInv, InitRetries
<1> QED
  BY <1>1, <1>2, <1>3, Zenon

\* For any number of processes that run `ipfs init` at the same time, are killed
\* at any step or given a bad input: one that succeeds leaves a whole repo, its
\* own if it ran alone, and one that fails on its input leaves no config that the
\* next would stop at (doInit, fsrepo.Init).
THEOREM InitIsSafe == InitCmdSpec => []InitSafe
<1>1. InitInv => InitSafe
  BY InitInvSafe, Zenon
<1> QED
  BY <1>1, InitInvInit, InitInvNext, PTL DEF InitCmdSpec

-----------------------------------------------------------------------------
(* ipfs daemon                                                             *)

\* The steps before the servers, those from the api file to the gateway, and
\* those after the gateway.
Starting == {"load", "open", "config", "build", "start", "plugins", "arm"}
ApiServed == {"mount", "gc", "gateway", "gwready", "p2pgw", "ready", "merge"}
GatewayServed == {"p2pgw", "ready", "merge"}
Returning == {"return", "close", "repo", "exit"}
DaemonSteps == Starting \cup {"api", "apiready"} \cup ApiServed \cup Returning \cup {"killed"}

DaemonTypeOK ==
  /\ dmn \in DaemonSteps /\ dopt \in DaemonOptions
  /\ stopped \in {"no", "hooks", "done"}
  /\ plugs \in [CorePlugins -> {"new", "started", "closed"}]
  /\ plugClose \in {"none", "armed", "closed"}
  /\ srv \in [Servers -> {"none", "bound", "starting", "up", "ended", "failed"}]
  /\ gcLoop \in {"off", "wait", "sweep", "done"}
  /\ fuseDown \in {"none", "armed", "closed"}
  /\ repoHeld \in {"none", "open", "closed"}

\* The servers: none before the plugins are armed; those of the API have all been
\* ready once the api file is written or a later step is reached, those of the
\* gateway once serveHTTPGateway has returned.
ServeInv ==
  /\ dmn \in Starting => \A l \in Servers : srv[l] = "none"
  /\ dmn \in ApiServed \/ dapi \/ fuseDown # "none" => AllReady(Apis)
  /\ dmn \in GatewayServed \/ fuseDown # "none" => AllReady(GwListeners)
  /\ srv["p2pgw"] \in {"none", "up", "ended"}
  /\ ~dopt.p2pgw => srv["p2pgw"] = "none"

\* The plugins: armed only when all have started, and closed once the channel is,
\* unless the node had gone before it was armed; then no server ever gets ready.
PluginInv ==
  /\ dmn \in Starting => plugClose = "none"
  /\ dmn = "arm" \/ plugClose # "none" => \A p \in CorePlugins : plugs[p] \in {"started", "closed"}
  /\ plugClose = "closed" =>
       \/ \A p \in CorePlugins : plugs[p] = "closed"
       \/ stopped = "done" /\ \A l \in Apis \cup GwListeners : srv[l] \notin {"up", "ended"}

\* The repo and the api file: the repo is open until a stop begins or the daemon
\* ends, and an api file that outlives the repo was written too late.
RepoInv ==
  /\ dapi => dmn \notin Starting \cup {"api", "apiready"}
  /\ stopped = "no" /\ dmn # "exit" => repoHeld # "closed"
  /\ dapi /\ repoHeld = "closed" => dapiLate
  /\ dmn = "exit" /\ (dapi \/ fuseDown # "none") => repoHeld = "closed"

\* The end: the unmount is armed when the daemon is ready, and it returns only
\* when every channel is closed.
EndInv ==
  /\ fuseDown # "none" => dmn \in {"merge", "killed"} \cup Returning
  /\ fuseDown # "none" /\ dmn \in Returning => Merged
  /\ fuseDown = "closed" => ~fuseUp

DaemonInv == DaemonTypeOK /\ ServeInv /\ PluginInv /\ RepoInv /\ EndInv

\* Nothing is open yet when the daemon is started.
LEMMA DaemonInvInit == DaemonInit => DaemonInv
BY Zenon DEF DaemonInit, DaemonInv, DaemonTypeOK, ServeInv, PluginInv, RepoInv, EndInv, Servers, DaemonSteps, Starting,
       ApiServed, GatewayServed, Returning

\* The steps of daemonFunc keep the invariant.
LEMMA MainKeeps ==
  ASSUME DaemonInv, DaemonMain
  PROVE  DaemonInv'
<1> USE DaemonAssumption DEF DaemonInv, DaemonTypeOK, ServeInv, PluginInv, RepoInv, EndInv, AllReady, Merged,
      ServersEnded, Servers, Apis, DaemonSteps, Starting, ApiServed, GatewayServed, Returning, DAt, Goes, Fails, Gone
<1>1. CASE LoadPlugins
  BY <1>1, ZenonT(60) DEF LoadPlugins
<1>2. CASE OpenRepo
  BY <1>2, Zenon DEF OpenRepo
<1>3. CASE Configure
  BY <1>3, ZenonT(60) DEF Configure
<1>4. CASE BuildNode
  BY <1>4, ZenonT(60) DEF BuildNode
<1>5. CASE StartNode
  BY <1>5, ZenonT(60) DEF StartNode
<1>6. CASE StartPlugins
  BY <1>6 DEF StartPlugins, ClosePlugins
<1>7. CASE ArmPlugins
  BY <1>7, ZenonT(60) DEF ArmPlugins
<1>8. CASE ListenApi
  BY <1>8 DEF ListenApi, Listen
<1>9. CASE WriteApiFile
  <2>1. DaemonTypeOK'
    BY <1>9, ZenonT(60) DEF WriteApiFile, ReadyToWrite, SomeEnded
  <2>2. ServeInv'
    BY <1>9 DEF WriteApiFile, ReadyToWrite, SomeEnded
  <2>3. PluginInv'
    BY <1>9, Zenon DEF WriteApiFile, ReadyToWrite, SomeEnded
  <2>4. RepoInv'
    <3>1. dmn = "apiready" /\ dmn' \in {"mount", "return"} /\ UNCHANGED <<stopped, repoHeld>>
      BY <1>9, Zenon DEF WriteApiFile
    <3>2. repoHeld = "closed" => stopped # "no"
      BY <3>1, Zenon
    <3>3. dapiLate' = (stopped # "no") \/ (dapi' = dapi /\ dapiLate' = dapiLate)
      BY <1>9, Zenon DEF WriteApiFile
    <3>4. dapi' /\ repoHeld' = "closed" => dapiLate'
      BY <3>1, <3>2, <3>3, ZenonT(60)
    <3> QED
      BY <3>1, <3>2, <3>4, Zenon
  <2>5. EndInv'
    BY <1>9, Zenon DEF WriteApiFile, ReadyToWrite, SomeEnded
  <2> QED
    BY <2>1, <2>2, <2>3, <2>4, <2>5, Zenon
<1>10. CASE Mount
  BY <1>10, SMTT(60) DEF Mount
<1>11. CASE RunGC
  BY <1>11 DEF RunGC
<1>12. CASE ListenGateway
  BY <1>12 DEF ListenGateway, Listen
<1>13. CASE GatewayReady
  BY <1>13 DEF GatewayReady
<1>14. CASE ServeP2PGateway
  BY <1>14 DEF ServeP2PGateway
<1>15. CASE DaemonReady
  BY <1>15 DEF DaemonReady
<1>16. CASE MergeEnds
  BY <1>16 DEF MergeEnds
<1>17. CASE Return
  <2>1. DaemonTypeOK'
    BY <1>17, ZenonT(60) DEF Return
  <2>2. ServeInv'
    BY <1>17, Zenon DEF Return
  <2>3. PluginInv'
    BY <1>17, Zenon DEF Return
  <2>4. RepoInv'
    BY <1>17, Zenon DEF Return
  <2>5. EndInv'
    BY <1>17, ZenonT(60) DEF Return
  <2> QED
    BY <2>1, <2>2, <2>3, <2>4, <2>5, Zenon
<1>18. CASE CloseNode
  BY <1>18 DEF CloseNode
<1>19. CASE CloseRepo
  <2>1. DaemonTypeOK'
    BY <1>19, Zenon DEF CloseRepo, RepoCloses
  <2>2. ServeInv'
    BY <1>19, ZenonT(60) DEF CloseRepo, RepoCloses
  <2>3. PluginInv'
    BY <1>19, Zenon DEF CloseRepo, RepoCloses
  <2>4. RepoInv'
    BY <1>19, ZenonT(60) DEF CloseRepo, RepoCloses
  <2>5. EndInv'
    BY <1>19, Zenon DEF CloseRepo, RepoCloses
  <2> QED
    BY <2>1, <2>2, <2>3, <2>4, <2>5, Zenon
<1> QED
  BY ONLY DaemonMain, <1>1, <1>2, <1>3, <1>4, <1>5, <1>6, <1>7, <1>8, <1>9, <1>10, <1>11, <1>12, <1>13, <1>14,
    <1>15, <1>16, <1>17, <1>18, <1>19, ZenonT(60) DEF DaemonMain

\* So do the steps of the goroutines beside it.
LEMMA BesideKeeps ==
  ASSUME DaemonInv, DaemonBeside
  PROVE  DaemonInv'
<1> USE DaemonAssumption DEF DaemonInv, DaemonTypeOK, ServeInv, PluginInv, RepoInv, EndInv, AllReady, Merged,
      ServersEnded, Servers, Apis, DaemonSteps, Starting, ApiServed, GatewayServed, Returning, DAt, Goes, Fails, Gone
<1>1. CASE StopBegins
  BY <1>1 DEF StopBegins
<1>2. CASE StopEnds
  <2>1. DaemonTypeOK'
    BY <1>2 DEF StopEnds, RepoCloses
  <2>2. ServeInv'
    BY <1>2, ZenonT(60) DEF StopEnds, RepoCloses
  <2>3. PluginInv'
    BY <1>2, Zenon DEF StopEnds, RepoCloses
  <2>4. RepoInv'
    BY <1>2, ZenonT(60) DEF StopEnds, RepoCloses
  <2>5. EndInv'
    BY <1>2, Zenon DEF StopEnds, RepoCloses
  <2> QED
    BY <2>1, <2>2, <2>3, <2>4, <2>5, Zenon
<1>3. CASE PluginsClose
  BY <1>3 DEF PluginsClose, ClosePlugins
<1>4. CASE Unmounts
  BY <1>4 DEF Unmounts
<1>5. CASE GCTick
  BY <1>5 DEF GCTick
<1>6. CASE GCLoopEnds
  BY <1>6 DEF GCLoopEnds
<1>7. CASE Signal
  BY <1>7 DEF Signal
<1>8. CASE Watchdog
  BY <1>8 DEF Watchdog
<1>9. ASSUME NEW l \in Servers, ServerStarts(l) PROVE DaemonInv'
  BY <1>9 DEF ServerStarts
<1>10. ASSUME NEW l \in Servers, ServerEnds(l) PROVE DaemonInv'
  BY <1>10, SMTT(60) DEF ServerEnds
<1> QED
  BY ONLY DaemonBeside, <1>1, <1>2, <1>3, <1>4, <1>5, <1>6, <1>7, <1>8, <1>9, <1>10, ZenonT(60) DEF DaemonBeside

LEMMA DaemonInvNext == DaemonInv /\ [DaemonNext]_dvars => DaemonInv'
<1>1. ASSUME DaemonInv, UNCHANGED dvars PROVE DaemonInv'
  BY <1>1 DEF dvars, DaemonInv, DaemonTypeOK, ServeInv, PluginInv, RepoInv, EndInv, AllReady, Merged, ServersEnded
<1> QED
  BY <1>1, MainKeeps, BesideKeeps, Zenon DEF DaemonNext

\* The api file of a daemon no one stops leads to servers that accept.
LEMMA DaemonInvApi == DaemonInv => ApiFileServed /\ ApiFileRemoved
<1> SUFFICES ASSUME DaemonInv PROVE ApiFileServed /\ ApiFileRemoved
  BY Zenon
<1>1. ApiFileServed
  <2> SUFFICES ASSUME dapi PROVE ApiFileServed
    BY Zenon DEF ApiFileServed
  <2>1. \A l \in Apis : srv[l] \in {"up", "ended"}
    BY Zenon DEF DaemonInv, ServeInv, AllReady
  <2>2. ASSUME NEW c \in ClientCmds, Dials, ~c.noRemote, c.noLocal \/ ~c.noRepo
        PROVE  Executor(c) = "daemon"
    BY <2>2, Zenon DEF Executor, ClientCmds
  <2> QED
    BY <2>1, <2>2, Zenon DEF ApiFileServed
<1>2. ApiFileRemoved
  BY Zenon DEF DaemonInv, RepoInv, ApiFileRemoved
<1> QED
  BY <1>1, <1>2, Zenon

\* A node that went before the plugins were armed gets no server ready, so a
\* daemon with a listener does not get ready without closing its plugins.
LEMMA DaemonInvClean ==
  ASSUME DaemonInv, Apis \cup GwListeners # {}
  PROVE  CleanExit
<1> SUFFICES ASSUME dmn = "exit", fuseDown # "none"
    PROVE /\ \A p \in CorePlugins : plugs[p] = "closed"
          /\ \A l \in Servers : srv[l] \in {"none", "ended"}
          /\ gcLoop \in {"off", "done"} /\ ~fuseUp /\ repoHeld = "closed"
  BY Zenon DEF CleanExit
<1>1. Merged /\ ~fuseUp /\ repoHeld = "closed"
  BY Zenon DEF DaemonInv, EndInv, RepoInv, Returning, Merged
<1>2. AllReady(Apis) /\ AllReady(GwListeners)
  BY Zenon DEF DaemonInv, ServeInv
<1>3. \A p \in CorePlugins : plugs[p] = "closed"
  BY <1>1, <1>2, Zenon DEF DaemonInv, PluginInv, AllReady, Merged
<1>4. \A l \in Servers : srv[l] \in {"none", "ended"}
  BY <1>1, <1>2, Zenon DEF DaemonInv, ServeInv, AllReady, Merged, ServersEnded, Servers
<1> QED
  BY <1>1, <1>3, <1>4, Zenon DEF Merged

\* For any listeners, plugins, options and faults, and a stop or signals at any
\* step of daemonFunc: an api file leads to servers that accept, and none is left
\* behind by a daemon that returns unless the stop began before it was written
\* (serveHTTPApi, FSRepo.Close).
THEOREM ApiFileIsRight == DaemonSpec => [](ApiFileServed /\ ApiFileRemoved)
BY DaemonInvInit, DaemonInvNext, DaemonInvApi, PTL DEF DaemonSpec

\* With a listener of the API or of the gateway, a daemon that got ready and
\* returns has also closed every plugin, ended every server and the collection
\* loop, unmounted and closed the repo.  Without one the last part can fail: when
\* the node goes before the plugins are armed, pluginErrc is closed at once and
\* nothing closes them.
THEOREM DaemonIsSafe ==
  ASSUME Apis \cup GwListeners # {}
  PROVE  DaemonSpec => []DaemonSafe
<1>1. DaemonInv => DaemonSafe
  BY DaemonInvApi, DaemonInvClean, Zenon DEF DaemonSafe
<1> QED
  BY <1>1, DaemonInvInit, DaemonInvNext, PTL DEF DaemonSpec

-----------------------------------------------------------------------------
(* ipfs update                                                              *)

\* The records have their fields; a binary that is there has a version.
UpdTypeOK ==
  /\ DOMAIN ubin = {"ver", "whole"} /\ ubin.ver \in Versions
  /\ DOMAIN ustash = Versions
  /\ \A v \in Versions : DOMAIN ustash[v] = {"ver", "whole"} /\ (ustash[v] = NoBinary \/ ustash[v].ver \in Versions)
  /\ DOMAIN uproc = Updaters
  /\ \A p \in Updaters :
       DOMAIN uproc[p] = {"cmd", "at", "current", "target", "data", "allow", "left"}
  /\ DOMAIN uhist = {"count", "overlap", "down", "badrevert"}
  /\ DOMAIN uask = {"at", "update", "install", "shown"}

\* Where a command is says what it carries: verified data for an install, the
\* bytes of a backup for a revert.
ProcOK(r) ==
  /\ r.cmd # "none" => r.current \in Versions
  /\ r.at # "none" => r.cmd # "none"
  /\ r.at \in {"resolve", "download", "verify", "extract", "stash", "copy"} => r.cmd = "install"
  /\ r.at \in {"download", "verify", "extract", "stash", "copy", "replace", "remove"} => r.target \in Versions
  /\ r.at \in {"verify", "extract", "stash", "copy"} \/ (r.at = "replace" /\ r.cmd = "install") => r.data.ver = r.target
  /\ r.at \in {"extract", "stash", "copy"} \/ (r.at = "replace" /\ r.cmd = "install") => r.data.whole
  /\ r.at = "replace" => r.data.ver \in Versions
  /\ r.at \in {"verify", "extract", "stash", "copy", "replace"} => DOMAIN r.data = {"ver", "whole"}

ProcInv == \A p \in Updaters : ProcOK(uproc[p])

\* A command that runs alone works on the binary it was started from, and a
\* revert on the newest name.
Alone(r) ==
  /\ r.at \notin {"none", "remove", "clean"} => r.current = ubin.ver
  /\ r.at = "replace" /\ r.cmd = "revert" => r.data.ver = r.target /\ \A v \in Stashes : v <= r.target

SoleInv ==
  ~uhist.overlap =>
    /\ \A p, q \in Updaters : p # q => uproc[p].cmd = "none" \/ uproc[q].cmd = "none"
    /\ \A p \in Updaters : Alone(uproc[p])
    /\ \A v \in Stashes : ustash[v].ver = v

\* While no older version was installed over a newer one, the backups are no
\* newer than the binary and were made in the order of their names.
OrderInv ==
  ~uhist.overlap /\ ~uhist.down =>
    /\ \A v \in Stashes : v <= ubin.ver
    /\ \A v, w \in Stashes : v < w => <<v, w>> \in uorder

UpdInv == UpdTypeOK /\ ProcInv /\ SoleInv /\ OrderInv /\ BinaryWhole /\ CheckAgrees

\* A set of versions has a greatest one.
LEMMA GreatestVersion ==
  ASSUME NEW S \in SUBSET Versions, S # {}
  PROVE  \E v \in S : \A w \in S : w <= v
<1> DEFINE R == {ss \in Nat \X Nat : ss[1] < ss[2]}
           T == {MaxVersion - v : v \in S}
<1>1. IsWellFoundedOn(R, Nat) BY NatLessThanWellFounded, Zenon DEF OpToRel
<1>2. T \subseteq Nat BY SelfUpdateAssumption DEF Versions
<1>3. T # {} BY Zenon
<1>4. PICK t \in T : \A y \in T : ~(<<y, t>> \in R)
  <2> HIDE DEF R, T
  <2> QED BY <1>1, <1>2, <1>3, WFMin, ZenonT(60)
<1>5. PICK v \in S : t = MaxVersion - v BY Zenon
<1>6. ASSUME NEW w \in S PROVE w <= v
  <2>1. MaxVersion - w \in T BY Zenon
  <2>2. ~(MaxVersion - w < t) BY <1>2, <1>4, <2>1, ZenonT(60)
  <2> QED BY <1>5, <2>2, SelfUpdateAssumption DEF Versions
<1> QED BY <1>6, Zenon

LEMMA LatestStashIs ==
  ASSUME Stashes # {}
  PROVE  LatestStash \in Stashes /\ \A w \in Stashes : w <= LatestStash
<1>1. Stashes \in SUBSET Versions BY Zenon DEF Stashes
<1>2. \E v \in Stashes : \A w \in Stashes : w <= v BY <1>1, GreatestVersion, Zenon
<1> QED BY <1>2, Zenon DEF LatestStash

LEMMA UpdInitially == UpdateInit => UpdInv
<1> SUFFICES ASSUME UpdateInit PROVE UpdInv BY Zenon
<1>0. Stashes = {} BY Zenon DEF UpdateInit, Stashes
<1>1. UpdTypeOK BY DEF UpdateInit, UpdTypeOK, NoBinary, UIdle
<1>2. ProcInv BY Zenon DEF UpdateInit, ProcInv, ProcOK, UIdle
<1>3. SoleInv BY <1>0, Zenon DEF UpdateInit, SoleInv, Alone, UIdle
<1>4. OrderInv BY <1>0, Zenon DEF OrderInv
<1>5. BinaryWhole BY DEF UpdateInit, BinaryWhole
<1>6. CheckAgrees BY Zenon DEF UpdateInit, CheckAgrees
<1> QED BY <1>1, <1>2, <1>3, <1>4, <1>5, <1>6, Zenon DEF UpdInv

\* A step of one process that leaves the files alone.
LEMMA ProcMoves ==
  ASSUME UpdInv, NEW p \in Updaters, NEW r, uproc' = [uproc EXCEPT ![p] = r],
         DOMAIN r = {"cmd", "at", "current", "target", "data", "allow", "left"},
         ProcOK(r), r.cmd \in {uproc[p].cmd, "none"}, ~uhist.overlap => Alone(r),
         UNCHANGED <<ubin, ustash, uorder, uask, uhist>>
  PROVE  UpdInv'
<1>0. Stashes' = Stashes BY Zenon DEF Stashes
<1>1. UpdTypeOK' BY Zenon DEF UpdInv, UpdTypeOK
<1>2. ProcInv'
  <2>1. ASSUME NEW q \in Updaters PROVE ProcOK(uproc'[q])
    BY Zenon DEF UpdInv, UpdTypeOK, ProcInv
  <2> QED BY <2>1, Zenon DEF ProcInv, ProcOK
<1>3. SoleInv'
  <2> SUFFICES ASSUME ~uhist.overlap PROVE SoleInv' BY Zenon DEF SoleInv
  <2>1. ASSUME NEW q \in Updaters PROVE Alone(uproc[q])' BY <1>0, Zenon DEF UpdInv, UpdTypeOK, SoleInv, Alone
  <2>2. ASSUME NEW q \in Updaters, NEW s \in Updaters, q # s PROVE uproc'[q].cmd = "none" \/ uproc'[s].cmd = "none"
    BY <2>2 DEF UpdInv, UpdTypeOK, SoleInv
  <2>3. \A v \in Stashes' : ustash'[v].ver = v BY <1>0, Zenon DEF UpdInv, SoleInv
  <2> QED BY <2>1, <2>2, <2>3, Zenon DEF SoleInv
<1>4. OrderInv' BY <1>0, Zenon DEF UpdInv, OrderInv
<1>5. BinaryWhole' BY Zenon DEF UpdInv, BinaryWhole
<1>6. CheckAgrees' BY Zenon DEF UpdInv, CheckAgrees
<1> QED BY <1>1, <1>2, <1>3, <1>4, <1>5, <1>6, Zenon DEF UpdInv

LEMMA IdleIsFine == DOMAIN UIdle = {"cmd", "at", "current", "target", "data", "allow", "left"} /\ ProcOK(UIdle) /\ Alone(UIdle)
BY ZenonT(60) DEF UIdle, ProcOK, Alone

LEMMA EndKeeps ==
  ASSUME UpdInv, NEW p \in Updaters, UEnd(p), UNCHANGED <<ubin, ustash, uorder, uask, uhist>>
  PROVE  UpdInv'
<1>1. UIdle.cmd = "none" BY Zenon DEF UIdle
<1> QED BY <1>1, IdleIsFine, ProcMoves, ZenonT(60) DEF UEnd

LEMMA BeginKeeps == ASSUME UpdInv, NEW p \in Updaters, Begins(p) PROVE UpdInv'
<1>1. PICK cmd \in {"install", "revert", "clean"}, allow \in BOOLEAN :
        uproc' = [uproc EXCEPT ![p] =
                      [UIdle EXCEPT !.cmd = cmd, !.allow = allow, !.current = ubin.ver,
                                    !.at = IF cmd = "install" THEN "resolve" ELSE "list"]]
  BY Zenon DEF Begins
<1>2. PICK r : /\ uproc' = [uproc EXCEPT ![p] = r] /\ DOMAIN r = DOMAIN UIdle
               /\ r.cmd = cmd /\ r.current = ubin.ver /\ r.at \in {"resolve", "list"}
               /\ r.at = "resolve" => r.cmd = "install"
  <2> DEFINE r == [UIdle EXCEPT !.cmd = cmd, !.allow = allow, !.current = ubin.ver,
                                    !.at = IF cmd = "install" THEN "resolve" ELSE "list"]
  <2> WITNESS r
  <2>1. uproc' = [uproc EXCEPT ![p] = r] BY <1>1, Zenon
  <2> QED BY <2>1, Zenon DEF UIdle
<1>3. uproc[p].cmd = "none" /\ UNCHANGED <<ubin, ustash, uorder, uask>> /\ Stashes' = Stashes
  BY Zenon DEF Begins, Stashes
<1>4. /\ DOMAIN uhist' = DOMAIN uhist
      /\ uhist'.overlap = (uhist.overlap \/ \E q \in Updaters \ {p} : uproc[q].cmd # "none")
      /\ uhist'.down = uhist.down /\ uhist'.badrevert = uhist.badrevert
  BY Zenon DEF UpdInv, UpdTypeOK, Begins
<1>5. UpdTypeOK' BY <1>2, <1>3, <1>4, IdleIsFine, Zenon DEF UpdInv, UpdTypeOK
<1>6. ProcInv'
  <2>1. ProcOK(r) BY <1>2, Zenon DEF ProcOK, UpdInv, UpdTypeOK
  <2>2. ASSUME NEW q \in Updaters PROVE ProcOK(uproc'[q])
    BY <1>2, <2>1, Zenon DEF UpdInv, UpdTypeOK, ProcInv
  <2> QED BY <2>2, Zenon DEF ProcInv, ProcOK
<1>7. SoleInv'
  <2> SUFFICES ASSUME ~uhist'.overlap PROVE SoleInv' BY Zenon DEF SoleInv
  <2>1. ~uhist.overlap /\ \A q \in Updaters \ {p} : uproc[q].cmd = "none" BY <1>4, ZenonT(60)
  <2>2. ASSUME NEW q \in Updaters PROVE Alone(uproc[q])'
    BY <1>2, <1>3, <2>1, ZenonT(60) DEF UpdInv, UpdTypeOK, SoleInv, Alone
  <2>3. ASSUME NEW q \in Updaters, NEW s \in Updaters, q # s PROVE uproc'[q].cmd = "none" \/ uproc'[s].cmd = "none"
    BY <1>2, <2>1, <2>3, ZenonT(60) DEF UpdInv, UpdTypeOK
  <2>4. \A v \in Stashes' : ustash'[v].ver = v BY <1>3, <2>1, Zenon DEF UpdInv, SoleInv
  <2> QED BY <2>2, <2>3, <2>4, Zenon DEF SoleInv
<1>8. OrderInv' BY <1>3, <1>4, ZenonT(60) DEF UpdInv, OrderInv
<1>9. BinaryWhole' BY <1>3, <1>4, Zenon DEF UpdInv, BinaryWhole
<1>10. CheckAgrees' BY <1>3, Zenon DEF UpdInv, CheckAgrees
<1> QED BY <1>5, <1>6, <1>7, <1>8, <1>9, <1>10, Zenon DEF UpdInv

LEMMA InstallPrepares ==
  ASSUME UpdInv, NEW p \in Updaters,
         Resolves(p) \/ Downloads(p) \/ Verifies(p) \/ Extracts(p) \/ CleanLists(p) \/ UCrashes(p)
  PROVE  UpdInv'
<1>0. UNCHANGED <<ubin, ustash, uorder, uask, uhist>>
  BY Zenon DEF Resolves, Downloads, Verifies, Extracts, CleanLists, UCrashes
<1>1. CASE UEnd(p) BY <1>0, <1>1, EndKeeps, Zenon
<1> DEFINE Fits(r) == /\ uproc' = [uproc EXCEPT ![p] = r]
                      /\ DOMAIN r = {"cmd", "at", "current", "target", "data", "allow", "left"}
                      /\ ProcOK(r) /\ r.cmd = uproc[p].cmd /\ (~uhist.overlap => Alone(r))
<1>2. SUFFICES ASSUME ~UEnd(p) PROVE \E r : Fits(r)
  BY <1>0, <1>1, ProcMoves, Zenon
<1>3. /\ DOMAIN uproc[p] = {"cmd", "at", "current", "target", "data", "allow", "left"}
      /\ ProcOK(uproc[p]) /\ (~uhist.overlap => Alone(uproc[p]))
  BY ZenonT(60) DEF UpdInv, UpdTypeOK, ProcInv, SoleInv
<1>4. CASE Resolves(p)
  <2>1. PICK target \in Versions : uproc' = [uproc EXCEPT ![p].target = target, ![p].at = "download"]
    BY <1>2, <1>4, Zenon DEF Resolves
  <2> DEFINE r == [uproc[p] EXCEPT !.target = target, !.at = "download"]
  <2>2. uproc' = [uproc EXCEPT ![p] = r] BY <2>1, ZenonT(60) DEF UpdInv, UpdTypeOK
  <2>3. Fits(r) BY <1>3, <1>4, <2>2, Zenon DEF Resolves, ProcOK, Alone
  <2> QED BY <2>3, ZenonT(60)
<1>5. CASE Downloads(p)
  <2>1. PICK whole \in BOOLEAN :
          uproc' = [uproc EXCEPT ![p].data = [ver |-> uproc[p].target, whole |-> whole], ![p].at = "verify"]
    BY <1>2, <1>5, Zenon DEF Downloads
  <2> DEFINE d == [ver |-> uproc[p].target, whole |-> whole]
             r == [uproc[p] EXCEPT !.data = d, !.at = "verify"]
  <2>2. uproc' = [uproc EXCEPT ![p] = r] BY <2>1, ZenonT(60) DEF UpdInv, UpdTypeOK
  <2>4. d.ver = uproc[p].target /\ DOMAIN d = {"ver", "whole"} BY Zenon
  <2> HIDE DEF d
  <2>3. Fits(r) BY <1>3, <1>5, <2>2, <2>4, Zenon DEF Downloads, ProcOK, Alone
  <2> QED BY <2>3, ZenonT(60)
<1>6. CASE Verifies(p)
  <2> DEFINE r == [uproc[p] EXCEPT !.at = "extract"]
  <2>1. uproc[p].data.whole BY <1>2, <1>6, ZenonT(60) DEF Verifies
  <2>2. uproc' = [uproc EXCEPT ![p] = r] BY <1>2, <1>6, Zenon DEF Verifies, UTo, UpdInv, UpdTypeOK
  <2>3. Fits(r) BY <1>3, <1>6, <2>1, <2>2, Zenon DEF Verifies, ProcOK, Alone
  <2> QED BY <2>3, ZenonT(60)
<1>7. CASE Extracts(p)
  <2> DEFINE r == [uproc[p] EXCEPT !.at = "stash"]
  <2>2. uproc' = [uproc EXCEPT ![p] = r] BY <1>2, <1>7, Zenon DEF Extracts, UTo, UpdInv, UpdTypeOK
  <2>3. Fits(r) BY <1>3, <1>7, <2>2, Zenon DEF Extracts, ProcOK, Alone
  <2> QED BY <2>3, ZenonT(60)
<1>8. CASE CleanLists(p)
  <2> DEFINE r == [uproc[p] EXCEPT !.left = Stashes, !.at = "clean"]
  <2>2. uproc' = [uproc EXCEPT ![p] = r] BY <1>2, <1>8, Zenon DEF CleanLists, UpdInv, UpdTypeOK
  <2>3. Fits(r) BY <1>3, <1>8, <2>2, Zenon DEF CleanLists, ProcOK, Alone
  <2> QED BY <2>3, ZenonT(60)
<1>9. CASE UCrashes(p) BY <1>2, <1>9, Zenon DEF UCrashes
<1> QED BY <1>4, <1>5, <1>6, <1>7, <1>8, <1>9, Zenon

LEMMA RevertReadsKeeps == ASSUME UpdInv, NEW p \in Updaters, RevertReads(p) PROVE UpdInv'
<1>0. UNCHANGED <<ubin, ustash, uorder, uask, uhist>> BY Zenon DEF RevertReads
<1>1. CASE UEnd(p) BY <1>0, <1>1, EndKeeps, Zenon
<1>2. CASE ~UEnd(p)
  <2>1. Stashes # {} /\ uproc[p].at = "list" /\ uproc[p].cmd = "revert" BY <1>2, Zenon DEF RevertReads
  <2>2. LatestStash \in Stashes /\ \A w \in Stashes : w <= LatestStash BY <2>1, LatestStashIs, Zenon
  <2> DEFINE r == [uproc[p] EXCEPT !.target = LatestStash, !.data = ustash[LatestStash], !.at = "replace"]
  <2>3. uproc' = [uproc EXCEPT ![p] = r] BY <1>2, Zenon DEF RevertReads, UpdInv, UpdTypeOK
  <2>4. /\ DOMAIN uproc[p] = {"cmd", "at", "current", "target", "data", "allow", "left"}
        /\ ProcOK(uproc[p]) /\ (~uhist.overlap => Alone(uproc[p]))
    BY Zenon DEF UpdInv, UpdTypeOK, ProcInv, SoleInv
  <2>5. LatestStash \in Versions /\ ustash[LatestStash].ver \in Versions /\ DOMAIN ustash[LatestStash] = {"ver", "whole"}
    BY <2>2, Zenon DEF Stashes, UpdInv, UpdTypeOK
  <2>6. ~uhist.overlap => ustash[LatestStash].ver = LatestStash BY <2>2, Zenon DEF UpdInv, SoleInv
  <2>7. PICK v, d : v = LatestStash /\ d = ustash[LatestStash] BY Zenon
  <2>8. r = [uproc[p] EXCEPT !.target = v, !.data = d, !.at = "replace"] BY <2>7, Zenon
  <2>9. ProcOK(r) BY <2>1, <2>4, <2>5, <2>7, <2>8, Zenon DEF ProcOK
  <2>10. ~uhist.overlap => Alone(r) BY <2>1, <2>2, <2>4, <2>6, <2>7, <2>8, ZenonT(60) DEF Alone
  <2>11. DOMAIN r = DOMAIN uproc[p] /\ r.cmd = uproc[p].cmd BY <2>4, Zenon
  <2> HIDE DEF r
  <2> QED BY <1>0, <2>3, <2>4, <2>9, <2>10, <2>11, ProcMoves, ZenonT(60)
<1> QED BY <1>1, <1>2, Zenon

\* Removing a backup disturbs nothing.
LEMMA DropKeeps ==
  ASSUME UpdInv, NEW v \in Versions, Drops(v), NEW p \in Updaters, NEW r,
         uproc' = [uproc EXCEPT ![p] = r],
         DOMAIN r = {"cmd", "at", "current", "target", "data", "allow", "left"},
         ProcOK(r), r.cmd \in {uproc[p].cmd, "none"}, r.at \in {"none", "clean"},
         uproc[p].cmd # "none",
         UNCHANGED <<ubin, uask, uhist>>
  PROVE  UpdInv'
<1>1. ustash' = [ustash EXCEPT ![v] = NoBinary] /\ uorder' = Forgets(v) BY Zenon DEF Drops
<1>0. Stashes' = Stashes \ {v} BY <1>1, Zenon DEF Stashes, UpdInv, UpdTypeOK
<1>8. DOMAIN NoBinary = {"ver", "whole"} BY Zenon DEF NoBinary
<1>2. UpdTypeOK' BY <1>1, <1>8, ZenonT(60) DEF UpdInv, UpdTypeOK
<1>3. ProcInv'
  <2>1. ASSUME NEW q \in Updaters PROVE ProcOK(uproc'[q])
    BY ZenonT(60) DEF UpdInv, UpdTypeOK, ProcInv
  <2> QED BY <2>1, Zenon DEF ProcInv, ProcOK
<1>4. SoleInv'
  <2> SUFFICES ASSUME ~uhist.overlap PROVE SoleInv' BY Zenon DEF SoleInv
  <2>1. ASSUME NEW q \in Updaters PROVE Alone(uproc[q])'
    BY <1>0, ZenonT(60) DEF UpdInv, UpdTypeOK, SoleInv, Alone
  <2>2. ASSUME NEW q \in Updaters, NEW s \in Updaters, q # s PROVE uproc'[q].cmd = "none" \/ uproc'[s].cmd = "none"
    BY <2>2 DEF UpdInv, UpdTypeOK, SoleInv
  <2>3. \A w \in Stashes' : ustash'[w].ver = w BY <1>0, <1>1, ZenonT(60) DEF UpdInv, UpdTypeOK, SoleInv, Stashes
  <2> QED BY <2>1, <2>2, <2>3, Zenon DEF SoleInv
<1>5. OrderInv' BY <1>0, <1>1, Zenon DEF UpdInv, OrderInv, Forgets
<1>6. BinaryWhole' BY Zenon DEF UpdInv, BinaryWhole
<1>7. CheckAgrees' BY Zenon DEF UpdInv, CheckAgrees
<1> QED BY <1>2, <1>3, <1>4, <1>5, <1>6, <1>7, ZenonT(60) DEF UpdInv

LEMMA RemoveKeeps == ASSUME UpdInv, NEW p \in Updaters, RevertRemoves(p) \/ Cleans(p) PROVE UpdInv'
<1>0. UNCHANGED <<ubin, uask, uhist>> BY Zenon DEF RevertRemoves, Cleans
<1>1. CASE UEnd(p) /\ UNCHANGED <<ustash, uorder>> BY <1>0, <1>1, EndKeeps, Zenon
<1>3. /\ DOMAIN uproc[p] = {"cmd", "at", "current", "target", "data", "allow", "left"}
      /\ ProcOK(uproc[p])
  BY Zenon DEF UpdInv, UpdTypeOK, ProcInv
<1>2. CASE RevertRemoves(p) /\ Drops(uproc[p].target)
  <2>1. uproc[p].target \in Versions /\ uproc[p].cmd # "none" BY <1>2, <1>3, ZenonT(60) DEF RevertRemoves, ProcOK
  <2>2. uproc' = [uproc EXCEPT ![p] = UIdle] BY <1>2, Zenon DEF RevertRemoves, UEnd
  <2>3. UIdle.cmd = "none" /\ UIdle.at = "none" BY Zenon DEF UIdle
  <2>4. PICK v : v = uproc[p].target BY Zenon
  <2> QED BY <1>0, <1>2, <2>1, <2>2, <2>3, <2>4, IdleIsFine, DropKeeps, ZenonT(60)
<1>4. CASE Cleans(p) /\ ~(UEnd(p) /\ UNCHANGED <<ustash, uorder>>)
  <2>1. PICK v \in uproc[p].left \cap Stashes :
           Drops(v) /\ uproc' = [uproc EXCEPT ![p].left = @ \ {v}]
    BY <1>4, Zenon DEF Cleans
  <2>2. uproc[p].at = "clean" BY <1>4, Zenon DEF Cleans
  <2> DEFINE r == [uproc[p] EXCEPT !.left = uproc[p].left \ {v}]
  <2>3. uproc' = [uproc EXCEPT ![p] = r] BY <2>1, Zenon DEF UpdInv, UpdTypeOK
  <2>4. DOMAIN r = DOMAIN uproc[p] /\ r.cmd = uproc[p].cmd /\ r.at = "clean" BY <1>3, <2>2, Zenon
  <2>5. ProcOK(r) BY <1>3, <2>2, Zenon DEF ProcOK
  <2>6. r.cmd # "none" BY <2>4, <2>5, Zenon DEF ProcOK
  <2>7. v \in Versions BY <2>1, Zenon DEF Stashes
  <2> HIDE DEF r
  <2> QED BY <1>0, <1>3, <2>1, <2>3, <2>4, <2>5, <2>6, <2>7, DropKeeps, ZenonT(60)
<1> QED BY <1>1, <1>2, <1>4, Zenon DEF RevertRemoves

LEMMA StashOpenKeeps == ASSUME UpdInv, NEW p \in Updaters, StashOpens(p) PROVE UpdInv'
<1>0. UNCHANGED <<ubin, uask, uhist>> BY Zenon DEF StashOpens
<1>1. CASE UEnd(p) /\ UNCHANGED <<ustash, uorder>> BY <1>0, <1>1, EndKeeps, Zenon
<1>2. CASE ~(UEnd(p) /\ UNCHANGED <<ustash, uorder>>)
  <2> DEFINE c == uproc[p].current
             b == [ver |-> ubin.ver, whole |-> FALSE]
             r == [uproc[p] EXCEPT !.at = "copy"]
  <2>1. ustash' = [ustash EXCEPT ![c] = b] /\ uorder' = Newest(c) /\ UTo(p, "copy") /\ uproc[p].at = "stash"
    BY <1>2, Zenon DEF StashOpens
  <2>2. /\ DOMAIN uproc[p] = {"cmd", "at", "current", "target", "data", "allow", "left"}
        /\ ProcOK(uproc[p]) /\ (~uhist.overlap => Alone(uproc[p]))
    BY Zenon DEF UpdInv, UpdTypeOK, ProcInv, SoleInv
  <2>3. c \in Versions /\ uproc[p].cmd = "install" /\ (~uhist.overlap => c = ubin.ver)
    BY <2>1, <2>2, ZenonT(60) DEF ProcOK, Alone
  <2>4. uproc' = [uproc EXCEPT ![p] = r] BY <2>1, Zenon DEF UTo, UpdInv, UpdTypeOK
  <2>5. ProcOK(r) /\ DOMAIN r = DOMAIN uproc[p] /\ r.cmd = "install" /\ r.at = "copy" /\ r.current = c
    BY <2>1, <2>2, <2>3, Zenon DEF ProcOK
  <2>6. b.ver = ubin.ver /\ DOMAIN b = {"ver", "whole"} BY ZenonT(60)
  <2>7. b # NoBinary
    <3>1. ubin.ver # 0 BY SelfUpdateAssumption DEF UpdInv, UpdTypeOK, Versions
    <3> QED BY <3>1, Zenon DEF NoBinary
  <2> HIDE DEF b, r, c
  <2>8. Stashes' = Stashes \cup {c} BY <2>1, <2>3, <2>7, Zenon DEF Stashes, UpdInv, UpdTypeOK
  <2>9. UpdTypeOK' BY <1>0, <2>1, <2>2, <2>3, <2>4, <2>5, <2>6, ZenonT(60) DEF UpdInv, UpdTypeOK
  <2>10. ProcInv'
    <3>1. ASSUME NEW q \in Updaters PROVE ProcOK(uproc'[q])
      BY <2>4, <2>5, ZenonT(60) DEF UpdInv, UpdTypeOK, ProcInv
    <3> QED BY <3>1, Zenon DEF ProcInv, ProcOK
  <2>11. SoleInv'
    <3> SUFFICES ASSUME ~uhist.overlap PROVE SoleInv' BY <1>0, Zenon DEF SoleInv
    <3>1. ASSUME NEW q \in Updaters PROVE Alone(uproc[q])'
      <4>1. CASE q = p BY <1>0, <2>3, <2>4, <2>5, <4>1, Zenon DEF UpdInv, UpdTypeOK, Alone
      <4>2. CASE q # p
        <5>1. uproc[q].cmd = "none" /\ uproc'[q] = uproc[q]
          BY <2>3, <2>4, <4>2, Zenon DEF UpdInv, UpdTypeOK, SoleInv
        <5>2. uproc[q].at = "none" BY <5>1, ZenonT(60) DEF UpdInv, ProcInv, ProcOK
        <5> QED BY <5>1, <5>2, Zenon DEF Alone
      <4> QED BY <4>1, <4>2, Zenon
    <3>2. ASSUME NEW q \in Updaters, NEW s \in Updaters, q # s PROVE uproc'[q].cmd = "none" \/ uproc'[s].cmd = "none"
      BY <2>3, <2>4, <2>5, <3>2, ZenonT(60) DEF UpdInv, UpdTypeOK, SoleInv
    <3>3. \A v \in Stashes' : ustash'[v].ver = v
      BY <2>1, <2>3, <2>6, <2>8, ZenonT(60) DEF UpdInv, UpdTypeOK, SoleInv, Stashes
    <3> QED BY <1>0, <3>1, <3>2, <3>3, Zenon DEF SoleInv
  <2>12. OrderInv'
    <3> SUFFICES ASSUME ~uhist.overlap, ~uhist.down PROVE OrderInv' BY <1>0, Zenon DEF OrderInv
    <3>1. \A v \in Stashes' : v <= ubin.ver
      BY <2>3, <2>8, SelfUpdateAssumption DEF UpdInv, OrderInv, Versions
    <3>2. ASSUME NEW v \in Stashes', NEW w \in Stashes', v < w PROVE <<v, w>> \in uorder'
      <4>0. v \in Versions /\ w \in Versions BY Zenon DEF Stashes
      <4>1. v # c BY <2>3, <3>1, <3>2, <4>0, SelfUpdateAssumption DEF Versions
      <4>2. CASE w = c BY <2>1, <2>8, <4>1, <4>2, Zenon DEF Newest
      <4>3. CASE w # c
        <5>1. <<v, w>> \in uorder BY <2>8, <3>2, <4>1, <4>3, Zenon DEF UpdInv, OrderInv
        <5> QED BY <2>1, <4>1, <4>3, <5>1, Zenon DEF Newest, Forgets
      <4> QED BY <4>2, <4>3, Zenon
    <3> QED BY <1>0, <3>1, <3>2, Zenon DEF OrderInv
  <2>13. BinaryWhole' BY <1>0, Zenon DEF UpdInv, BinaryWhole
  <2>14. CheckAgrees' BY <1>0, Zenon DEF UpdInv, CheckAgrees
  <2> QED BY <2>9, <2>10, <2>11, <2>12, <2>13, <2>14, Zenon DEF UpdInv
<1> QED BY <1>1, <1>2, Zenon

LEMMA StashCopyKeeps == ASSUME UpdInv, NEW p \in Updaters, StashCopies(p) PROVE UpdInv'
<1>0. UNCHANGED <<ubin, uorder, uask, uhist>> BY Zenon DEF StashCopies
<1>1. CASE UEnd(p) /\ UNCHANGED ustash BY <1>0, <1>1, EndKeeps, Zenon
<1>2. CASE ~(UEnd(p) /\ UNCHANGED ustash)
  <2> DEFINE c == uproc[p].current
             r == [uproc[p] EXCEPT !.at = "replace"]
  <2>1. ustash' \in Copied(p) /\ UTo(p, "replace") /\ uproc[p].at = "copy"
    BY <1>2, Zenon DEF StashCopies
  <2>2. /\ DOMAIN uproc[p] = {"cmd", "at", "current", "target", "data", "allow", "left"}
        /\ ProcOK(uproc[p]) /\ (~uhist.overlap => Alone(uproc[p]))
    BY ZenonT(60) DEF UpdInv, UpdTypeOK, ProcInv, SoleInv
  <2>3. c \in Versions /\ uproc[p].cmd = "install" /\ (~uhist.overlap => c = ubin.ver)
    BY <2>1, <2>2, ZenonT(60) DEF ProcOK, Alone
  <2>4. uproc' = [uproc EXCEPT ![p] = r] BY <2>1, Zenon DEF UTo, UpdInv, UpdTypeOK
  <2>5. ProcOK(r) /\ DOMAIN r = DOMAIN uproc[p] /\ r.cmd = "install" /\ r.at = "replace" /\ r.current = c
    BY <2>1, <2>2, <2>3, Zenon DEF ProcOK
  <2>6. \/ ustash' = ustash
        \/ ustash' = [ustash EXCEPT ![c] = ubin] /\ c \in Stashes
    BY <2>1, <2>3, ZenonT(60) DEF Copied, Stashes
  <2> HIDE DEF r, c
  <2>7. ubin # NoBinary
    <3>1. ubin.ver # 0 BY SelfUpdateAssumption DEF UpdInv, UpdTypeOK, Versions
    <3> QED BY <3>1 DEF NoBinary
  <2>8. Stashes' = Stashes BY <2>6, <2>7, Zenon DEF Stashes, UpdInv, UpdTypeOK
  <2>9. UpdTypeOK' BY <1>0, <2>2, <2>4, <2>5, <2>6, ZenonT(60) DEF UpdInv, UpdTypeOK
  <2>10. ProcInv'
    <3>1. ASSUME NEW q \in Updaters PROVE ProcOK(uproc'[q])
      BY <2>4, <2>5, ZenonT(60) DEF UpdInv, UpdTypeOK, ProcInv
    <3> QED BY <3>1, Zenon DEF ProcInv, ProcOK
  <2>11. SoleInv'
    <3> SUFFICES ASSUME ~uhist.overlap PROVE SoleInv' BY <1>0, Zenon DEF SoleInv
    <3>1. ASSUME NEW q \in Updaters PROVE Alone(uproc[q])'
      BY <1>0, <2>3, <2>4, <2>5, <2>8, ZenonT(60) DEF UpdInv, UpdTypeOK, SoleInv, Alone
    <3>2. ASSUME NEW q \in Updaters, NEW s \in Updaters, q # s PROVE uproc'[q].cmd = "none" \/ uproc'[s].cmd = "none"
      BY <2>3, <2>4, <2>5, <3>2, ZenonT(60) DEF UpdInv, UpdTypeOK, SoleInv
    <3>3. \A v \in Stashes' : ustash'[v].ver = v
      BY <2>3, <2>6, <2>8, ZenonT(60) DEF UpdInv, UpdTypeOK, SoleInv, Stashes
    <3> QED BY <1>0, <3>1, <3>2, <3>3, Zenon DEF SoleInv
  <2>12. OrderInv' BY <1>0, <2>8, Zenon DEF UpdInv, OrderInv
  <2>13. BinaryWhole' BY <1>0, Zenon DEF UpdInv, BinaryWhole
  <2>14. CheckAgrees' BY <1>0, Zenon DEF UpdInv, CheckAgrees
  <2> QED BY <2>9, <2>10, <2>11, <2>12, <2>13, <2>14, Zenon DEF UpdInv
<1> QED BY <1>1, <1>2, Zenon

\* A step that puts another binary in place and is the last to use the old one.
LEMMA BinaryMoves ==
  ASSUME UpdInv, NEW p \in Updaters, NEW r, uproc' = [uproc EXCEPT ![p] = r],
         DOMAIN r = {"cmd", "at", "current", "target", "data", "allow", "left"},
         ProcOK(r), r.cmd \in {uproc[p].cmd, "none"}, r.at \in {"none", "remove"},
         uproc[p].cmd # "none",
         DOMAIN ubin' = {"ver", "whole"}, ubin'.ver \in Versions,
         DOMAIN uhist' = DOMAIN uhist, uhist'.overlap = uhist.overlap,
         BinaryWhole',
         ~uhist.overlap /\ ~uhist'.down => ~uhist.down /\ \A v \in Stashes : v <= ubin'.ver,
         UNCHANGED <<ustash, uorder, uask>>
  PROVE  UpdInv'
<1>0. Stashes' = Stashes BY Zenon DEF Stashes
<1>2. UpdTypeOK' BY ZenonT(60) DEF UpdInv, UpdTypeOK
<1>3. ProcInv'
  <2>1. ASSUME NEW q \in Updaters PROVE ProcOK(uproc'[q])
    BY ZenonT(60) DEF UpdInv, UpdTypeOK, ProcInv
  <2> QED BY <2>1, Zenon DEF ProcInv, ProcOK
<1>4. SoleInv'
  <2> SUFFICES ASSUME ~uhist.overlap PROVE SoleInv' BY Zenon DEF SoleInv
  <2>1. ASSUME NEW q \in Updaters PROVE Alone(uproc[q])'
    <3>1. CASE q = p BY <3>1, Zenon DEF UpdInv, UpdTypeOK, Alone
    <3>2. CASE q # p
      <4>1. uproc[q].cmd = "none" /\ uproc'[q] = uproc[q]
        BY <3>2 DEF UpdInv, UpdTypeOK, SoleInv
      <4>2. uproc[q].at = "none" BY <4>1, ZenonT(60) DEF UpdInv, ProcInv, ProcOK
      <4> QED BY <4>1, <4>2, Zenon DEF Alone
    <3> QED BY <3>1, <3>2, Zenon
  <2>2. ASSUME NEW q \in Updaters, NEW s \in Updaters, q # s PROVE uproc'[q].cmd = "none" \/ uproc'[s].cmd = "none"
    BY <2>2 DEF UpdInv, UpdTypeOK, SoleInv
  <2>3. \A w \in Stashes' : ustash'[w].ver = w BY <1>0, Zenon DEF UpdInv, SoleInv
  <2> QED BY <2>1, <2>2, <2>3, Zenon DEF SoleInv
<1>5. OrderInv' BY <1>0, Zenon DEF UpdInv, OrderInv
<1>7. CheckAgrees' BY ZenonT(60) DEF UpdInv, CheckAgrees
<1> QED BY <1>2, <1>3, <1>4, <1>5, <1>7, Zenon DEF UpdInv

LEMMA ReplaceKeeps == ASSUME UpdInv, NEW p \in Updaters, Replaces(p) PROVE UpdInv'
<1> DEFINE d == uproc[p].data
<1>1. /\ uproc[p].at = "replace" /\ uproc[p].cmd = "install" /\ ubin' \in {ubin, d}
      /\ uproc' = [uproc EXCEPT ![p] = UIdle] /\ UNCHANGED <<ustash, uorder, uask>>
  BY Zenon DEF Replaces, Replaced, UEnd
<1>2. ProcOK(uproc[p]) /\ (~uhist.overlap => Alone(uproc[p])) BY Zenon DEF UpdInv, ProcInv, SoleInv
<1>3. /\ uproc[p].target \in Versions /\ d.ver = uproc[p].target /\ d.whole /\ uproc[p].current \in Versions
      /\ ~uhist.overlap => uproc[p].current = ubin.ver
  BY <1>1, <1>2, ZenonT(60) DEF ProcOK, Alone
<1>4. /\ DOMAIN uhist' = DOMAIN uhist /\ uhist'.overlap = uhist.overlap
      /\ uhist'.down = (uhist.down \/ (ubin' # ubin /\ uproc[p].target < uproc[p].current))
      /\ uhist'.badrevert = uhist.badrevert
  BY Zenon DEF Replaces, UpdInv, UpdTypeOK
<1>5. BinaryWhole' BY <1>1, <1>3, <1>4, ZenonT(60) DEF UpdInv, BinaryWhole
<1>6. ~uhist.overlap /\ ~uhist'.down => ~uhist.down /\ \A v \in Stashes : v <= ubin'.ver
  <2> SUFFICES ASSUME ~uhist.overlap, ~uhist'.down PROVE ~uhist.down /\ \A v \in Stashes : v <= ubin'.ver
    BY Zenon
  <2>1. ~uhist.down /\ (ubin' # ubin => ~(uproc[p].target < uproc[p].current)) BY <1>4, ZenonT(60)
  <2>2. \A v \in Stashes : v \in Versions /\ v <= ubin.ver BY <2>1, Zenon DEF UpdInv, OrderInv, Stashes
  <2>3. ubin.ver \in Versions BY Zenon DEF UpdInv, UpdTypeOK
  <2> QED BY <1>1, <1>3, <2>1, <2>2, <2>3, SelfUpdateAssumption DEF Versions
<1>7. ubin'.ver \in Versions BY <1>1, <1>3, Zenon DEF UpdInv, UpdTypeOK
<1>8. DOMAIN ubin' = {"ver", "whole"} BY <1>1, <1>2, ZenonT(60) DEF UpdInv, UpdTypeOK, ProcOK
<1>9. UIdle.cmd = "none" /\ UIdle.at = "none" BY Zenon DEF UIdle
<1> QED BY <1>1, <1>4, <1>5, <1>6, <1>7, <1>8, <1>9, IdleIsFine, BinaryMoves, ZenonT(60)

LEMMA RevertReplaceKeeps == ASSUME UpdInv, NEW p \in Updaters, RevertReplaces(p) PROVE UpdInv'
<1> DEFINE d == uproc[p].data
<1>1. /\ uproc[p].at = "replace" /\ uproc[p].cmd = "revert" /\ ubin' \in {ubin, d}
      /\ UNCHANGED <<ustash, uorder, uask>>
  BY Zenon DEF RevertReplaces, Replaced
<1>2. /\ DOMAIN uproc[p] = {"cmd", "at", "current", "target", "data", "allow", "left"}
      /\ ProcOK(uproc[p]) /\ (~uhist.overlap => Alone(uproc[p]))
  BY Zenon DEF UpdInv, UpdTypeOK, ProcInv, SoleInv
<1>3. /\ uproc[p].target \in Versions /\ d.ver \in Versions
      /\ ~uhist.overlap => d.ver = uproc[p].target /\ \A v \in Stashes : v <= uproc[p].target
  BY <1>1, <1>2, ZenonT(60) DEF ProcOK, Alone
<1>4. /\ DOMAIN uhist' = DOMAIN uhist /\ uhist'.overlap = uhist.overlap
      /\ uhist'.badrevert = (uhist.badrevert \/ ~d.whole)
      /\ uhist'.down = uhist.down
  BY Zenon DEF RevertReplaces, UpdInv, UpdTypeOK
<1>5. BinaryWhole' BY <1>1, <1>4, ZenonT(60) DEF UpdInv, BinaryWhole
<1>6. ~uhist.overlap /\ ~uhist'.down => ~uhist.down /\ \A v \in Stashes : v <= ubin'.ver
  BY <1>1, <1>3, <1>4, ZenonT(60) DEF UpdInv, OrderInv
<1>7. ubin'.ver \in Versions BY <1>1, <1>3, ZenonT(60) DEF UpdInv, UpdTypeOK
<1>8. DOMAIN ubin' = {"ver", "whole"} BY <1>1, <1>2, ZenonT(60) DEF UpdInv, UpdTypeOK, ProcOK
<1>9. CASE UEnd(p)
  <2>1. UIdle.cmd = "none" /\ UIdle.at = "none" BY Zenon DEF UIdle
  <2>2. uproc' = [uproc EXCEPT ![p] = UIdle] BY <1>9, Zenon DEF UEnd
  <2> QED BY <1>1, <1>4, <1>5, <1>6, <1>7, <1>8, <2>1, <2>2, IdleIsFine, BinaryMoves, ZenonT(60)
<1>10. CASE UTo(p, "remove")
  <2> DEFINE r == [uproc[p] EXCEPT !.at = "remove"]
  <2>1. uproc' = [uproc EXCEPT ![p] = r] BY <1>10, Zenon DEF UTo, UpdInv, UpdTypeOK
  <2>2. ProcOK(r) /\ DOMAIN r = DOMAIN uproc[p] /\ r.cmd = uproc[p].cmd /\ r.at = "remove"
    BY <1>1, <1>2, Zenon DEF ProcOK
  <2> HIDE DEF r
  <2> QED BY <1>1, <1>2, <1>4, <1>5, <1>6, <1>7, <1>8, <2>1, <2>2, BinaryMoves, ZenonT(60)
<1> QED BY <1>9, <1>10, Zenon DEF RevertReplaces

\* The first ten that are listed are among the first thirty.
LEMMA ListedGrows ==
  ASSUME NEW l, NEW n \in Nat, DOMAIN l = 1..n, NEW pre \in BOOLEAN
  PROVE  Listed(l, 10, pre) \subseteq Listed(l, 30, pre)
<1> DEFINE Kept(count) == {i \in DOMAIN l : i <= (IF pre THEN count ELSE 3 * count) /\ (pre \/ ~l[i].pre)}
           Upto(count, i) == {j \in Kept(count) : j <= i}
<1>1. ASSUME NEW count PROVE Listed(l, count, pre) = {i \in Kept(count) : Cardinality(Upto(count, i)) <= count}
  <2>1. {i \in {i \in DOMAIN l : i <= (IF pre THEN count ELSE 3 * count)} : pre \/ ~l[i].pre} = Kept(count)
    BY Zenon
  <2> QED BY <2>1, Zenon DEF Listed
<1>2. ASSUME NEW i \in Listed(l, 10, pre) PROVE i \in Listed(l, 30, pre)
  <2>1. i \in Kept(10) /\ Cardinality(Upto(10, i)) <= 10 BY <1>1, ZenonT(60)
  <2>2. i \in 1..n /\ i <= (IF pre THEN 10 ELSE 30) BY <2>1
  <2>3. i \in Kept(30) BY <2>1, <2>2
  <2>4. Upto(10, i) = Upto(30, i) BY <2>2
  <2>5. IsFiniteSet(1..n) BY FS_Interval
  <2>6. Upto(10, i) \subseteq 1..n BY Zenon
  <2>7. Cardinality(Upto(10, i)) \in Nat BY <2>5, <2>6, FS_Subset, FS_CardinalityType, Zenon
  <2> HIDE DEF Kept, Upto
  <2>8. Cardinality(Upto(30, i)) <= 30 BY <2>1, <2>4, <2>7
  <2> QED BY <1>1, <2>3, <2>8, Zenon
<1> QED BY <1>2, Zenon

\* The latest release is none, or one of those listed that has an archive.
LEMMA LatestIsListed ==
  ASSUME NEW l, NEW n \in Nat, DOMAIN l = 1..n, NEW pre \in BOOLEAN
  PROVE  LatestRelease(l, pre) = 0 \/ \E i \in Listed(l, 10, pre) : l[i].asset /\ LatestRelease(l, pre) = l[i].ver
<1> DEFINE is == {i \in Listed(l, 10, pre) : l[i].asset}
           R == {ss \in Nat \X Nat : ss[1] < ss[2]}
<1>1. CASE is = {} BY <1>1, Zenon DEF LatestRelease
<1>2. CASE is # {}
  <2>1. is \subseteq Nat BY DEF Listed
  <2>2. IsWellFoundedOn(R, Nat) BY NatLessThanWellFounded, Zenon DEF OpToRel
  <2>3. PICK i \in is : \A j \in is : ~(<<j, i>> \in R)
    <3> HIDE DEF R, is
    <3> QED BY <1>2, <2>1, <2>2, WFMin, ZenonT(60)
  <2>4. \A j \in is : i <= j
    <3> SUFFICES ASSUME NEW j \in is PROVE i <= j BY Zenon
    <3>1. i \in Nat /\ j \in Nat BY <2>1, Zenon
    <3>2. ~(j < i) BY <2>3, <3>1, ZenonT(60)
    <3> QED BY <3>1, <3>2
  <2> DEFINE k == CHOOSE m \in is : \A j \in is : m <= j
  <2>5. k \in is BY <2>4, Zenon
  <2>6. LatestRelease(l, pre) = l[k].ver BY <1>2, Zenon DEF LatestRelease
  <2> HIDE DEF k
  <2> QED BY <2>5, <2>6, Zenon
<1> QED BY <1>1, <1>2, Zenon

LEMMA LookKeeps == ASSUME UpdInv, Looks PROVE UpdInv'
<1>1. PICK l \in ReleaseLists, current \in Versions, pre \in BOOLEAN :
        uask' = [at |-> "done", update |-> UpdateCheck(l, current, pre),
                 install |-> InstallProceeds(l, current, pre),
                 shown |-> LatestRelease(l, pre) \in {0} \cup UpdateVersions(l, 0, pre)]
  BY Zenon DEF Looks
<1>2. PICK n \in 0..MaxVersion : l \in [1..n -> Releases]
  BY Zenon DEF ReleaseLists
<1> DEFINE v == LatestRelease(l, pre)
<1>3. n \in Nat /\ DOMAIN l = 1..n BY <1>2, SelfUpdateAssumption
<1>4. v = 0 \/ \E i \in Listed(l, 10, pre) : l[i].asset /\ v = l[i].ver
  BY <1>3, LatestIsListed, Zenon
<1>5. Listed(l, 10, pre) \subseteq Listed(l, 30, pre) BY <1>3, ListedGrows, Zenon
<1>6. Listed(l, 10, pre) \subseteq DOMAIN l BY Zenon DEF Listed
<1> HIDE DEF v
<1>7. v \in {0} \cup UpdateVersions(l, 0, pre)
  <2>1. UpdateVersions(l, 0, pre) = {l[i].ver : i \in Listed(l, 30, pre)} BY DEF UpdateVersions
  <2> QED BY <1>4, <1>5, <2>1, Zenon
<1>8. v > current <=> v # 0 /\ v > current /\ HasAsset(l, v)
  <2>1. current # 0 /\ current \in Nat BY SelfUpdateAssumption DEF Versions
  <2>2. CASE v = 0 BY <2>1, <2>2, SelfUpdateAssumption DEF Versions
  <2>3. CASE v # 0
    <3>1. HasAsset(l, v) BY <1>4, <1>6, <2>3, Zenon DEF HasAsset
    <3> QED BY <2>3, <3>1, Zenon
  <2> QED BY <2>2, <2>3, Zenon
<1>9. (v > current) = (v # 0 /\ v > current /\ HasAsset(l, v)) BY <1>8
<1>10. UpdateCheck(l, current, pre) = InstallProceeds(l, current, pre)
  BY <1>9, Zenon DEF UpdateCheck, InstallProceeds, v
<1>11. CheckAgrees'
  <2>1. uask'.update = UpdateCheck(l, current, pre) /\ uask'.install = InstallProceeds(l, current, pre)
    BY <1>1, Zenon
  <2>2. uask'.shown BY <1>1, <1>7, Zenon DEF v
  <2> QED BY <1>10, <2>1, <2>2, Zenon DEF CheckAgrees
<1>12. DOMAIN uask' = {"at", "update", "install", "shown"} BY <1>1, Zenon
<1>13. UNCHANGED <<ubin, ustash, uorder, uproc, uhist>> /\ Stashes' = Stashes BY Zenon DEF Looks, Stashes
<1>14. UpdTypeOK' BY <1>12, <1>13, Zenon DEF UpdInv, UpdTypeOK
<1>15. ProcInv' BY <1>13, Zenon DEF UpdInv, ProcInv
<1>16. SoleInv' BY <1>13, Zenon DEF UpdInv, SoleInv, Alone
<1>17. OrderInv' BY <1>13, Zenon DEF UpdInv, OrderInv
<1>18. BinaryWhole' BY <1>13, Zenon DEF UpdInv, BinaryWhole
<1> QED BY <1>11, <1>14, <1>15, <1>16, <1>17, <1>18, Zenon DEF UpdInv

LEMMA UpdStutters ==
  ASSUME UpdInv, UNCHANGED <<ubin, ustash, uorder, uproc, uask, uhist>> PROVE UpdInv'
<1>0. Stashes' = Stashes BY Zenon DEF Stashes
<1>1. UpdTypeOK' BY Zenon DEF UpdInv, UpdTypeOK
<1>2. ProcInv' BY Zenon DEF UpdInv, ProcInv
<1>3. SoleInv' BY <1>0, Zenon DEF UpdInv, SoleInv, Alone
<1>4. OrderInv' BY <1>0, Zenon DEF UpdInv, OrderInv
<1>5. BinaryWhole' BY Zenon DEF UpdInv, BinaryWhole
<1>6. CheckAgrees' BY Zenon DEF UpdInv, CheckAgrees
<1> QED BY <1>1, <1>2, <1>3, <1>4, <1>5, <1>6, Zenon DEF UpdInv

LEMMA UpdInductive == UpdInv /\ [UpdateNext \/ UpdateReads]_uvars => UpdInv'
<1> SUFFICES ASSUME UpdInv, [UpdateNext \/ UpdateReads]_uvars PROVE UpdInv' BY Zenon
<1>1. CASE UNCHANGED uvars BY <1>1, UpdStutters, Zenon DEF uvars
<1>2. CASE Looks BY <1>2, LookKeeps, Zenon
<1>3. CASE DaemonTurns BY <1>3, UpdStutters, Zenon DEF DaemonTurns
<1>4. ASSUME NEW p \in Updaters,
             \/ Begins(p) \/ Resolves(p) \/ Downloads(p) \/ Verifies(p) \/ Extracts(p)
             \/ StashOpens(p) \/ StashCopies(p) \/ Replaces(p)
             \/ RevertReads(p) \/ RevertReplaces(p) \/ RevertRemoves(p) \/ CleanLists(p) \/ Cleans(p)
             \/ UCrashes(p)
      PROVE UpdInv'
  BY <1>4, BeginKeeps, InstallPrepares, StashOpenKeeps, StashCopyKeeps, ReplaceKeeps, RevertReadsKeeps,
     RevertReplaceKeeps, RemoveKeeps, Zenon
<1> QED BY <1>1, <1>2, <1>3, <1>4, Zenon DEF UpdateNext, UpdateReads

LEMMA UpdSafely == UpdInv => UpdateSafe
<1> SUFFICES ASSUME UpdInv PROVE UpdateSafe BY Zenon
<1>1. BinaryWhole /\ CheckAgrees BY Zenon DEF UpdInv
<1>2. StashTrue BY Zenon DEF UpdInv, SoleInv, StashTrue
<1>3. RevertOrder
  <2> SUFFICES ASSUME ~uhist.down, ~uhist.overlap, NEW v \in Stashes, v # LatestStash
               PROVE  <<v, LatestStash>> \in uorder
    BY Zenon DEF RevertOrder
  <2>1. LatestStash \in Stashes /\ v <= LatestStash BY LatestStashIs, Zenon
  <2>2. v \in Int /\ LatestStash \in Int BY <2>1, SelfUpdateAssumption DEF Stashes, Versions
  <2>3. v < LatestStash BY <2>1, <2>2
  <2> QED BY <2>1, <2>3, Zenon DEF UpdInv, OrderInv
<1> QED BY <1>1, <1>2, <1>3, Zenon DEF UpdateSafe

\* ipfs update, for any number of processes, versions and commands: an install
\* puts in place only what the checksum verified; the backups are what their
\* names say and, until a downgrade, in the order of their making, so that
\* revert goes back to the last one; check, install and versions agree on any
\* list of releases.
THEOREM UpdateIsSafe == UpdateSpec => []UpdateSafe
<1>1. UpdateInit => UpdInv BY UpdInitially, Zenon
<1>2. UpdInv /\ [UpdateNext \/ UpdateReads]_uvars => UpdInv' BY UpdInductive, Zenon
<1>3. UpdInv => UpdateSafe BY UpdSafely, Zenon
<1> QED BY <1>1, <1>2, <1>3, PTL DEF UpdateSpec
=============================================================================
