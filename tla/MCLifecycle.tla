---------------------------- MODULE MCLifecycle -----------------------------
(* What a node goes through: migrations of its repo before it starts, its     *)
(* start and its end, and the locks its mounts take in between; small         *)
(* instances side by side, `part` says which one this behaviour is about.     *)
EXTENDS ConfigConvert, Migrations, Daemon, FuseLocks, TLC

CONSTANT MaxLen    \* entries of a list of an old config

VARIABLE part

-----------------------------------------------------------------------------
(* ConfigConvert: lists of up to MaxLen entries, two DNS domains. *)

MCItems == {"default", "custom", "auto", "number"}
MCLists == {Absent, Nil, Other} \cup {List(s) : s \in UNION {[1..n -> MCItems] : n \in 0..MaxLen}}

MCBase ==
  [autoconf |-> "absent", bootstrap |-> Absent, routers |-> Absent, publishers |-> Absent,
   resolvers |-> ("." :> "absent" @@ "eth." :> "default"),
   provider |-> NoProvider, reprovider |-> NoReprovider, provide |-> NoProvide]

MCResolver == {"absent", "default", "custom", "auto", "number"}

\* The parts are converted independently of each other, so each is varied alone.
MCUpgradeConfigs ==
  {[MCBase EXCEPT !.bootstrap = v, !.routers = v, !.publishers = v] : v \in MCLists}
    \cup {[MCBase EXCEPT !.resolvers = ("." :> a @@ "eth." :> b)] : a, b \in MCResolver}
    \cup {[MCBase EXCEPT !.provider = [enabled |-> e, workers |-> w],
                         !.reprovider = [strategy |-> s, interval |-> i],
                         !.provide = v] :
            e \in {"absent", "true", "false"}, w \in {"absent", "16"},
            s \in {"absent", "flat", "pinned", "number"}, i \in {"absent", "12h"},
            v \in {NoProvide, [NoProvide EXCEPT !.strategy = "roots"]}}

-----------------------------------------------------------------------------
(* Migrations, with the real config conversions. *)

MCConvert(n, c) == IF n = 16 THEN Convert16(c) ELSE Convert17(c)

\* A config of version 16 or below: `lists` for Bootstrap and the routers.
MCConfig(boot, routers, publishers, dot, provider, reprovider, provide) ==
  [MCBase EXCEPT !.bootstrap = boot, !.routers = routers, !.publishers = publishers,
                 !.resolvers["."] = dot, !.provider = provider,
                 !.reprovider = reprovider, !.provide = provide]

\* The default config, and one with the user's own settings in every place.
MCMigConfigs ==
  { MCConfig(List(<<"default", "default">>), Absent, Absent, "absent",
             NoProvider, NoReprovider, [NoProvide EXCEPT !.strategy = "roots"]),
    MCConfig(List(<<"custom", "default">>), List(<<"default", "custom", "default">>),
             List(<<"custom">>), "custom", [enabled |-> "false", workers |-> "16"],
             [strategy |-> "flat", interval |-> "12h"], NoProvide) }

\* Upgrades, downgrades to embedded versions and to an external one.
MCMigRequests == {<<16, FALSE>>, <<18, FALSE>>, <<16, TRUE>>, <<17, TRUE>>, <<14, TRUE>>}

-----------------------------------------------------------------------------
(* Daemon and FuseLocks. *)

MCApiListeners == <<"a1", "a2">>
MCProcs == Programs \cup Setters \cup Sweepers

-----------------------------------------------------------------------------
vars == <<upvars, mvars, dvars, locksVars, part>>

Init ==
  /\ part \in {"upgrade", "migrate", "daemon", "locks"}
  /\ UpgradeInit /\ (part # "upgrade" => conf = MCBase)
  /\ MigInit /\ (part # "migrate" => version = 17 /\ config.routers = Absent)
  /\ DaemonInit
  /\ IF part = "daemon" THEN dopt.mount = dopt.gc ELSE dopt = CHOOSE o \in DaemonOptions : TRUE
  /\ LocksInit

Next ==
  /\ UNCHANGED part
  /\ \/ part = "upgrade" /\ UpgradeNext /\ UNCHANGED <<mvars, dvars, locksVars>>
     \/ part = "migrate" /\ MigNext /\ UNCHANGED <<upvars, dvars, locksVars>>
     \/ part = "daemon" /\ DaemonNext /\ UNCHANGED <<upvars, mvars, locksVars>>
     \/ part = "locks" /\ LocksNext /\ UNCHANGED <<upvars, mvars, dvars>>

-----------------------------------------------------------------------------
\* A daemon that is started again whenever it has stopped, on a machine that
\* keeps scheduling the processes it runs.  In the daemon, goroutines that can
\* run do run, and the servers and loops of a signalled or stopped node notice;
\* signals, `ipfs shutdown` and errors need not happen.
Fairness ==
  /\ \A p \in MigDaemons : /\ WF_mvars(part = "migrate" /\ DaemonStart(p))
                           /\ WF_mvars(part = "migrate" /\ DaemonReopen(p))
  /\ \A p \in MigProcs : WF_mvars(part = "migrate" /\ Migrate(p))
  /\ WF_dvars(part = "daemon" /\ DaemonMain)
  /\ WF_dvars(part = "daemon" /\ (sigs > 0 \/ DAt("close")) /\ StopBegins)
  /\ WF_dvars(part = "daemon" /\ StopEnds)
  /\ WF_dvars(part = "daemon" /\ PluginsClose) /\ WF_dvars(part = "daemon" /\ Unmounts)
  /\ \A l \in Servers : /\ WF_dvars(part = "daemon" /\ ServerStarts(l))
                        /\ WF_dvars(part = "daemon" /\ stopped = "done" /\ ServerEnds(l))
  /\ WF_dvars(part = "daemon" /\ (sigs > 0 \/ stopped = "done") /\ GCLoopEnds)

Spec == Init /\ [][Next]_vars /\ Fairness

\* However a migration is interrupted, a daemon that is started again brings
\* the repo to the latest version and opens it whenever the users leave the repo
\* alone, unless a crash has left the version file empty.
EventuallyOpen == []<>(part = "migrate" => LeftAloneOpen)
=============================================================================
