------------------------------- MODULE Daemon -------------------------------
(***************************************************************************)
(* One run of `ipfs daemon`: the goroutine of daemonFunc brings the parts  *)
(* up one after the other and then waits for all of them to end, while     *)
(* their own goroutines, the node's stop, signals and `ipfs shutdown` run  *)
(* beside it.  The last operator says where a command started in another   *)
(* process would run (makeExecutor).                                       *)
(***************************************************************************)
EXTENDS Naturals, FiniteSets, Sequences

CONSTANTS ApiListeners,      \* Addresses.API, a sequence: the api file names the first
          GwListeners,       \* Addresses.Gateway, a set
          CorePlugins        \* the plugins that Start starts

\* No address of a listener is the name of the gateway over libp2p.
ASSUME DaemonAssumption ==
  "p2pgw" \notin {ApiListeners[i] : i \in DOMAIN ApiListeners} \cup GwListeners

VARIABLES dmn,               \* the step daemonFunc is at
          dopt,              \* options and config of this run
          sigs,              \* signals received
          dnode,             \* the IpfsNode: "none", "building", "up", or "stray"
          stopped,           \* n.stop: "no", "hooks" (app.Stop running), "done"
          loader, plugs,     \* the plugin loader's state, each plugin's
          plugClose,         \* pluginErrc: "none", "armed", "closed"
          srv,               \* the HTTP servers
          dapi, dapiLate,    \* the api file; whether a stop had begun when it was written
          gcLoop,            \* the periodic collection
          fuseUp, fuseDown,  \* the mounts; unmountErrc as plugClose
          repoHeld,          \* the repo: "none", "open", "closed"
          retErr             \* daemonFunc's error, or an error waiting in a channel

dvars == <<dmn, dopt, sigs, dnode, stopped, loader, plugs, plugClose, srv, dapi, dapiLate,
           gcLoop, fuseUp, fuseDown, repoHeld, retErr>>

Apis == {ApiListeners[i] : i \in DOMAIN ApiListeners}
Servers == Apis \cup GwListeners \cup {"p2pgw"}
Gone == {"exit", "killed"}

(* options: --mount, --enable-gc, Experimental.GatewayOverLibp2p,          *)
(* Internal.ShutdownTimeout # 0; hang: some OnStop hook outlasts it        *)
DaemonOptions == [mount : BOOLEAN, gc : BOOLEAN, p2pgw : BOOLEAN, timeout : BOOLEAN, hang : BOOLEAN]

DaemonInit ==
  /\ dmn = "load" /\ dopt \in DaemonOptions /\ sigs = 0
  /\ dnode = "none" /\ stopped = "no"
  /\ loader = "loading" /\ plugs = [p \in CorePlugins |-> "new"] /\ plugClose = "none"
  /\ srv = [l \in Servers |-> "none"] /\ dapi = FALSE /\ dapiLate = FALSE
  /\ gcLoop = "off" /\ fuseUp = FALSE /\ fuseDown = "none"
  /\ repoHeld = "none" /\ retErr = FALSE

----------------------------------------------------------------------------
(* daemonFunc                                                              *)

DAt(a) == dmn = a
Goes(a) == dmn' = a /\ UNCHANGED retErr
Fails == dmn' = "return" /\ retErr' = TRUE

(* BuildEnv: loadPlugins initialises and injects every plugin, or the      *)
(* command ends before anything is open                                    *)
LoadPlugins ==
  /\ DAt("load")
  /\ \/ loader' = "injected" /\ Goes("open")
     \/ loader' = "failed" /\ dmn' = "exit" /\ retErr' = TRUE
  /\ UNCHANGED <<dopt, sigs, dnode, stopped, plugs, plugClose, srv, dapi, dapiLate, gcLoop, fuseUp, fuseDown, repoHeld>>

(* fsrepo.Open after init and migration; repo.Close is deferred            *)
OpenRepo ==
  /\ DAt("open")
  /\ \/ repoHeld' = "open" /\ Goes("config")
     \/ repoHeld' = "none" /\ dmn' = "exit" /\ retErr' = TRUE
  /\ UNCHANGED <<dopt, sigs, dnode, stopped, loader, plugs, plugClose, srv, dapi, dapiLate, gcLoop, fuseUp, fuseDown>>

(* config, routing option, validateDaemonConfig, validateDaemonEnvironment *)
Configure ==
  /\ DAt("config") /\ (Goes("build") \/ Fails)
  /\ UNCHANGED <<dopt, sigs, dnode, stopped, loader, plugs, plugClose, srv, dapi, dapiLate, gcLoop, fuseUp, fuseDown, repoHeld>>

(* NewNode up to the goroutine that stops the app with the request         *)
BuildNode ==
  /\ DAt("build")
  /\ \/ dnode' = "building" /\ Goes("start")
     \/ dnode' = "none" /\ Fails
  /\ UNCHANGED <<dopt, sigs, stopped, loader, plugs, plugClose, srv, dapi, dapiLate, gcLoop, fuseUp, fuseDown, repoHeld>>

(* app.Start and Bootstrap: a start that fails, or comes after a stop, is  *)
(* rolled back; a failed Bootstrap returns a running node with its error,  *)
(* which daemonFunc drops before it defers node.Close                      *)
StartNode ==
  /\ DAt("start")
  /\ \/ stopped = "no" /\ dnode' = "up" /\ Goes("plugins")
     \/ dnode' = "none" /\ Fails
     \/ stopped = "no" /\ dnode' = "stray" /\ Fails
  /\ UNCHANGED <<dopt, sigs, stopped, loader, plugs, plugClose, srv, dapi, dapiLate, gcLoop, fuseUp, fuseDown, repoHeld>>

ClosePlugins == [p \in CorePlugins |-> IF plugs[p] = "started" THEN "closed" ELSE plugs[p]]

(* PluginLoader.Start: NewCoreAPI may fail; a plugin that fails closes the *)
(* ones started before it                                                  *)
StartPlugins ==
  /\ DAt("plugins")
  /\ \/ /\ loader' = "starting" /\ UNCHANGED plugs /\ Fails
     \/ \E p \in CorePlugins :
          /\ plugs[p] = "new"
          /\ \/ plugs' = [plugs EXCEPT ![p] = "started"] /\ loader' = "starting" /\ Goes("plugins")
             \/ plugs' = ClosePlugins /\ loader' \in {"closed", "failed"} /\ Fails
     \/ /\ \A p \in CorePlugins : plugs[p] = "started"
        /\ loader' = "started" /\ UNCHANGED plugs /\ Goes("arm")
  /\ UNCHANGED <<dopt, sigs, dnode, stopped, plugClose, srv, dapi, dapiLate, gcLoop, fuseUp, fuseDown, repoHeld>>

(* pluginErrc: when the node has already gone the channel is closed at     *)
(* once and the plugins are left as they are                               *)
ArmPlugins ==
  /\ DAt("arm")
  /\ plugClose' = IF stopped = "done" THEN "closed" ELSE "armed"
  /\ Goes("api")
  /\ UNCHANGED <<dopt, sigs, dnode, stopped, loader, plugs, srv, dapi, dapiLate, gcLoop, fuseUp, fuseDown, repoHeld>>

(* a server of the set failed or ended; every server of the set got ready  *)
SomeEnded(S) == \E l \in S : srv[l] \in {"failed", "ended"}
AllReady(S) == \A l \in S : srv[l] \in {"up", "ended"}

(* the listeners are bound one by one, an error leaves the earlier ones    *)
(* bound; then all the servers start                                       *)
Listen(S, from, to) ==
  /\ DAt(from)
  /\ \/ \E l \in S : srv[l] = "none" /\ srv' = [srv EXCEPT ![l] = "bound"] /\ Goes(from)
     \/ (\E l \in S : srv[l] = "none") /\ UNCHANGED srv /\ Fails
     \/ /\ \A l \in S : srv[l] = "bound"
        /\ srv' = [l \in Servers |-> IF l \in S THEN "starting" ELSE srv[l]] /\ Goes(to)
  /\ UNCHANGED <<dopt, sigs, dnode, stopped, loader, plugs, plugClose, dapi, dapiLate, gcLoop, fuseUp, fuseDown, repoHeld>>

ListenApi == Listen(Apis, "api", "apiready")
ListenGateway == Listen(GwListeners, "gateway", "gwready")

(* serveHTTPApi waits until all are ready or one has failed and writes the *)
(* api file, if there is a listener at all; SetAPIAddr may fail            *)
ReadyToWrite == AllReady(Apis)
WriteApiFile ==
  /\ DAt("apiready")
  /\ \/ ReadyToWrite /\ dapi' = (Apis # {}) /\ dapiLate' = (stopped # "no") /\ Goes("mount")
     \/ /\ SomeEnded(Apis) \/ (ReadyToWrite /\ Apis # {})
        /\ UNCHANGED <<dapi, dapiLate>> /\ Fails
  /\ UNCHANGED <<dopt, sigs, dnode, stopped, loader, plugs, plugClose, srv, gcLoop, fuseUp, fuseDown, repoHeld>>

(* mountFuse, whose own failures leave nothing mounted (module Mounts)     *)
Mount ==
  /\ DAt("mount")
  /\ \/ dopt.mount /\ fuseUp' = TRUE /\ Goes("gc")
     \/ dopt.mount /\ fuseUp' = FALSE /\ Fails
     \/ ~dopt.mount /\ fuseUp' = FALSE /\ Goes("gc")
  /\ UNCHANGED <<dopt, sigs, dnode, stopped, loader, plugs, plugClose, srv, dapi, dapiLate, gcLoop, fuseDown, repoHeld>>

(* maybeRunGC                                                              *)
RunGC ==
  /\ DAt("gc") /\ Goes("gateway")
  /\ gcLoop' = IF dopt.gc THEN "wait" ELSE "off"
  /\ UNCHANGED <<dopt, sigs, dnode, stopped, loader, plugs, plugClose, srv, dapi, dapiLate, fuseUp, fuseDown, repoHeld>>

(* the end of serveHTTPGateway                                             *)
GatewayReady ==
  /\ DAt("gwready")
  /\ \/ AllReady(GwListeners) /\ Goes("p2pgw")
     \/ SomeEnded(GwListeners) /\ Fails
  /\ UNCHANGED <<dopt, sigs, dnode, stopped, loader, plugs, plugClose, srv, dapi, dapiLate, gcLoop, fuseUp, fuseDown, repoHeld>>

(* serveTrustlessGatewayOverLibp2p: a channel closed at once when disabled *)
ServeP2PGateway ==
  /\ DAt("p2pgw")
  /\ \/ dopt.p2pgw /\ srv' = [srv EXCEPT !["p2pgw"] = "up"] /\ Goes("ready")
     \/ dopt.p2pgw /\ UNCHANGED srv /\ Fails
     \/ ~dopt.p2pgw /\ UNCHANGED srv /\ Goes("ready")
  /\ UNCHANGED <<dopt, sigs, dnode, stopped, loader, plugs, plugClose, dapi, dapiLate, gcLoop, fuseUp, fuseDown, repoHeld>>

(* "Daemon is ready", and the unmount that waits for the node's end        *)
DaemonReady ==
  /\ DAt("ready") /\ Goes("merge") /\ fuseDown' = "armed"
  /\ UNCHANGED <<dopt, sigs, dnode, stopped, loader, plugs, plugClose, srv, dapi, dapiLate, gcLoop, fuseUp, repoHeld>>

(* merge ends when every error channel is closed                           *)
ServersEnded == \A l \in Servers : srv[l] \in {"ended", "failed"} \/ (l = "p2pgw" /\ ~dopt.p2pgw)
Merged == ServersEnded /\ gcLoop \in {"off", "done"} /\ plugClose = "closed" /\ fuseDown = "closed"
MergeEnds ==
  /\ DAt("merge") /\ Merged /\ Goes("return")
  /\ UNCHANGED <<dopt, sigs, dnode, stopped, loader, plugs, plugClose, srv, dapi, dapiLate, gcLoop, fuseUp, fuseDown, repoHeld>>

(* the deferred calls: Unmount after an error, node.Close (which waits for *)
(* whoever runs the stop), repo.Close                                      *)
Return ==
  /\ DAt("return")
  /\ fuseUp' = (fuseUp /\ ~retErr)
  /\ Goes(IF dnode = "up" THEN "close" ELSE "repo")
  /\ UNCHANGED <<dopt, sigs, dnode, stopped, loader, plugs, plugClose, srv, dapi, dapiLate, gcLoop, fuseDown, repoHeld>>

CloseNode ==
  /\ DAt("close") /\ stopped = "done" /\ Goes("repo")
  /\ UNCHANGED <<dopt, sigs, dnode, stopped, loader, plugs, plugClose, srv, dapi, dapiLate, gcLoop, fuseUp, fuseDown, repoHeld>>

(* the kill switch exits when the deadline passes first                    *)
Watchdog ==
  /\ DAt("close") /\ dopt.timeout /\ dopt.hang /\ stopped = "hooks" /\ Goes("killed")
  /\ UNCHANGED <<dopt, sigs, dnode, stopped, loader, plugs, plugClose, srv, dapi, dapiLate, gcLoop, fuseUp, fuseDown, repoHeld>>

\* Mutant: closing the repo leaves the api file.
RepoClosesOnly == repoHeld' = "closed" /\ UNCHANGED dapi

(* FSRepo.Close removes the api file; a second Close changes nothing       *)
RepoCloses == repoHeld' = "closed" /\ dapi' = (dapi /\ repoHeld = "closed")

CloseRepo ==
  /\ DAt("repo") /\ Goes("exit") /\ RepoCloses
  /\ UNCHANGED <<dopt, sigs, dnode, stopped, loader, plugs, plugClose, srv, dapiLate, gcLoop, fuseUp, fuseDown>>

DaemonMain ==
  \/ LoadPlugins \/ OpenRepo \/ Configure \/ BuildNode \/ StartNode \/ StartPlugins \/ ArmPlugins
  \/ ListenApi \/ WriteApiFile \/ Mount \/ RunGC \/ ListenGateway \/ GatewayReady
  \/ ServeP2PGateway \/ DaemonReady \/ MergeEnds \/ Return \/ CloseNode \/ CloseRepo

----------------------------------------------------------------------------
(* the goroutines beside it                                                *)

(* n.stop runs once: for the signal, for `ipfs shutdown` through a server, *)
(* or for the deferred node.Close; an app that has not started has no      *)
(* hooks to run                                                            *)
StopBegins ==
  /\ dmn \notin Gone /\ stopped = "no"
  /\ \/ sigs > 0 /\ dnode # "none"
     \/ dnode = "up" /\ \E l \in Apis : srv[l] = "up"
     \/ DAt("close")
  /\ stopped' = IF dnode = "building" THEN "done" ELSE "hooks"
  /\ UNCHANGED <<dmn, dopt, sigs, dnode, loader, plugs, plugClose, srv, dapi, dapiLate, gcLoop, fuseUp, fuseDown, repoHeld, retErr>>

\* Mutant: the stop waits for a hook that hangs.
HooksEndAll == ~dopt.hang

(* app.Stop ends with its last hook or at the deadline, then the node's    *)
(* context ends; the repo is closed by a hook                              *)
HooksEnd == ~dopt.hang \/ dopt.timeout
StopEnds ==
  /\ dmn \notin Gone /\ stopped = "hooks" /\ HooksEnd
  /\ stopped' = "done"
  /\ IF dopt.hang THEN UNCHANGED <<repoHeld, dapi>>
     ELSE RepoCloses
  /\ UNCHANGED <<dmn, dopt, sigs, dnode, loader, plugs, plugClose, srv, dapiLate, gcLoop, fuseUp, fuseDown, retErr>>

(* the AfterFuncs on the node's context                                    *)
PluginsClose ==
  /\ dmn \notin Gone /\ plugClose = "armed" /\ stopped = "done"
  /\ plugs' = ClosePlugins /\ plugClose' = "closed"
  /\ \/ loader' = "closed" /\ UNCHANGED retErr
     \/ loader' = "failed" /\ retErr' = TRUE
  /\ UNCHANGED <<dmn, dopt, sigs, dnode, stopped, srv, dapi, dapiLate, gcLoop, fuseUp, fuseDown, repoHeld>>

Unmounts ==
  /\ dmn \notin Gone /\ fuseDown = "armed" /\ stopped = "done"
  /\ fuseUp' = FALSE /\ fuseDown' = "closed"
  /\ UNCHANGED <<dmn, dopt, sigs, dnode, stopped, loader, plugs, plugClose, srv, dapi, dapiLate, gcLoop, repoHeld, retErr>>

(* ServeWithReady: refused once the node has gone or when the handler      *)
(* cannot be made; serving ends with the node or with an error             *)
ServerStarts(l) ==
  /\ dmn \notin Gone /\ srv[l] = "starting"
  /\ \/ stopped # "done" /\ srv' = [srv EXCEPT ![l] = "up"] /\ UNCHANGED retErr
     \/ srv' = [srv EXCEPT ![l] = "failed"] /\ retErr' = TRUE
  /\ UNCHANGED <<dmn, dopt, sigs, dnode, stopped, loader, plugs, plugClose, dapi, dapiLate, gcLoop, fuseUp, fuseDown, repoHeld>>

ServerEnds(l) ==
  /\ dmn \notin Gone /\ srv[l] = "up"
  /\ srv' = [srv EXCEPT ![l] = "ended"]
  /\ \/ stopped = "done" /\ UNCHANGED retErr
     \/ retErr' = TRUE
  /\ UNCHANGED <<dmn, dopt, sigs, dnode, stopped, loader, plugs, plugClose, dapi, dapiLate, gcLoop, fuseUp, fuseDown, repoHeld>>

(* PeriodicGC: a tick above the watermark sweeps (maybeGC); it ends with   *)
(* the request's or the node's context, or at once on a bad config         *)
GCTick ==
  /\ dmn \notin Gone
  /\ \/ gcLoop = "wait" /\ gcLoop' = "sweep"
     \/ gcLoop = "sweep" /\ gcLoop' = "wait"
  /\ UNCHANGED <<dmn, dopt, sigs, dnode, stopped, loader, plugs, plugClose, srv, dapi, dapiLate, fuseUp, fuseDown, repoHeld, retErr>>

GCLoopEnds ==
  /\ dmn \notin Gone /\ gcLoop \in {"wait", "sweep"}
  /\ \/ (sigs > 0 \/ stopped = "done") /\ UNCHANGED retErr
     \/ gcLoop = "wait" /\ retErr' = TRUE
  /\ gcLoop' = "done"
  /\ UNCHANGED <<dmn, dopt, sigs, dnode, stopped, loader, plugs, plugClose, srv, dapi, dapiLate, fuseUp, fuseDown, repoHeld>>

(* the first signal ends the request's context, the second the process     *)
Signal ==
  /\ dmn \notin Gone /\ sigs' = sigs + 1
  /\ dmn' = IF sigs = 0 THEN dmn ELSE "killed"
  /\ UNCHANGED <<dopt, dnode, stopped, loader, plugs, plugClose, srv, dapi, dapiLate, gcLoop, fuseUp, fuseDown, repoHeld, retErr>>

DaemonBeside ==
  \/ StopBegins \/ StopEnds \/ PluginsClose \/ Unmounts \/ GCTick \/ GCLoopEnds \/ Signal \/ Watchdog
  \/ \E l \in Servers : ServerStarts(l) \/ ServerEnds(l)

DaemonNext == DaemonMain \/ DaemonBeside

DaemonSpec == DaemonInit /\ [][DaemonNext]_dvars

----------------------------------------------------------------------------
(* makeExecutor: where a command of another process runs                   *)

ClientCmds == [noLocal : BOOLEAN, noRemote : BOOLEAN, noRepo : BOOLEAN, api : BOOLEAN]

Dials == Len(ApiListeners) > 0 /\ srv[ApiListeners[1]] = "up" /\ dmn \notin Gone

Executor(c) ==
  CASE c.noLocal /\ c.noRemote -> "refused"
    [] ~c.noLocal /\ c.noRepo -> "local"
    [] c.noRemote /\ ~c.noLocal /\ ~c.noRepo -> IF c.api THEN "refused" ELSE "local"
    [] ~c.noRemote /\ (c.noLocal \/ ~c.noRepo) /\ ~c.api /\ ~dapi -> IF c.noLocal THEN "refused" ELSE "local"
    [] OTHER -> IF Dials THEN "daemon" ELSE IF c.api THEN "refused" ELSE "local"

----------------------------------------------------------------------------

(* A client that sees the api file of a daemon no one is stopping finds    *)
(* servers that accept: serveHTTPApi writes it after every server is up.   *)
ApiFileServed ==
  dapi /\ stopped = "no" /\ dmn \notin Gone =>
    /\ \A l \in Apis : srv[l] \in {"up", "ended"}
    /\ \A c \in ClientCmds : Dials /\ ~c.noRemote /\ (c.noLocal \/ ~c.noRepo) => Executor(c) = "daemon"

(* A daemon that returns leaves no api file behind, unless the stop began  *)
(* before the file was written: then the repo's Close has already been.    *)
ApiFileRemoved == dmn = "exit" /\ dapi => dapiLate

(* A daemon that got ready and returns has closed every plugin, ended      *)
(* every server and the collection loop, unmounted and closed the repo,    *)
(* whatever failed or was stopped in whatever order before.                *)
CleanExit ==
  dmn = "exit" /\ fuseDown # "none" =>
    /\ \A p \in CorePlugins : plugs[p] = "closed"
    /\ \A l \in Servers : srv[l] \in {"none", "ended"}
    /\ gcLoop \in {"off", "done"} /\ ~fuseUp /\ repoHeld = "closed"

(* Once a signal arrived or a stop began the process ends, unless a hook   *)
(* hangs and Internal.ShutdownTimeout is 0 ("wait forever").               *)
ShutdownEnds ==
  []<>((sigs > 0 \/ stopped # "no") /\ (dopt.timeout \/ ~dopt.hang) => dmn \in Gone)

\* The api file leads to servers that accept and is gone when they are, and a
\* daemon that returns has closed all it opened.
DaemonSafe == ApiFileServed /\ ApiFileRemoved /\ CleanExit
=============================================================================
