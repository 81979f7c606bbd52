----------------------------- MODULE ConfigCmds -----------------------------
(***************************************************************************)
(* The commands that change the configuration of a node: config, config     *)
(* replace, config profile apply (core/commands/config.go, config/profile.go)*)
(* and bootstrap (core/commands/bootstrap.go).  In the daemon they are       *)
(* handlers that share one FSRepo and the config object it holds.            *)
(*                                                                          *)
(* The config file is JSON: a field of the struct that is empty and tagged   *)
(* omitempty is not written, and SetConfig merges the struct into the file,  *)
(* so such a field keeps what the file says.  A config is abstracted to the  *)
(* fields the commands tell apart; lists are sets.                           *)
(***************************************************************************)
EXTENDS Integers, Sequences, FiniteSets

LOCAL INSTANCE SequencesExt

CONSTANTS
  CHandlers,     \* request handlers of the daemon
  CRequests,     \* the requests they serve: [op, names, key, val]
  MaxRequests,   \* bound on the requests served
  CWriteFaults   \* how a write of the file may fail: "open", "encode", "close"

VARIABLES
  cfile,    \* the config file
  cref,     \* the object FSRepo.config points to
  cobj,     \* config objects
  creq,     \* what the handlers are doing
  chist,    \* history: requests begun, faults, objects swapped, removals
  cprof,    \* the config file of a node on which profiles are applied, if there is one
  cask      \* a key of the config that a request names

creqvars == <<cfile, cref, cobj, creq, chist>>
cvars == <<creqvars, cprof, cask>>

(***************************************************************************)
(* Configs                                                                 *)
(***************************************************************************)

\* A new repository: InitWithIdentity, addressesConfig.
DefaultCfg ==
  [priv |-> "k", peer |-> "id", boot |-> {"auto"}, auto |-> "default", url |-> "default",
   tls |-> "default", loop |-> "default", dns |-> {"auto"}, deleg |-> {"auto"},
   addrs |-> "default", noann |-> {}, filters |-> {}, mdns |-> TRUE, nat |-> TRUE, routing |-> "default",
   provide |-> "default", interval |-> "default", import |-> "default",
   spec |-> [disk |-> "flatfs", measure |-> FALSE], services |-> {"s"}]

\* Fields that are left out of the JSON when they are empty.
OmitEmpty == {"auto", "url", "tls", "loop", "routing", "provide", "interval"}

\* MapMergeDeep of the file and the struct: an omitted field keeps what the
\* file has, and so do the keys of a map (DNS.Resolvers, RemoteServices) that
\* the struct's map lacks; null replaces the map.
Merge(file, cfg) ==
  [f \in DOMAIN cfg |->
     CASE f \in OmitEmpty -> IF cfg[f] = "default" THEN file[f] ELSE cfg[f]
       [] f = "dns" -> IF {"null"} \in {cfg.dns, file.dns} THEN cfg.dns ELSE file.dns \cup cfg.dns
       [] f = "services" -> file.services \cup cfg.services
       [] OTHER -> cfg[f]]

\* AutoConf.Enabled.WithDefault(true)
AutoEnabled(cfg) == cfg.auto # "false"

\* ValidateAutoConfWithRepo, on a public network: whether the daemon starts.
DaemonAccepts(cfg) == AutoEnabled(cfg) \/ cfg.boot # {"auto"}

(***************************************************************************)
(* Profiles: what a transformer does to the struct                          *)
(***************************************************************************)
WithAnnounceOn(cfg) == [cfg EXCEPT !.provide = "true", !.interval = "22h"]
WithAutoconfOff(cfg) == [cfg EXCEPT !.boot = {}, !.dns = {"null"}, !.deleg = {}, !.auto = "false"]
WithSpec(cfg, disk, measure) == [cfg EXCEPT !.spec = [disk |-> disk, measure |-> measure]]

NetworkProfiles == {"server", "local-discovery", "test", "default-networking"}
NetworkProfile(p, cfg) ==
  CASE p = "server" ->
         [cfg EXCEPT !.noann = @ \cup {"server"}, !.filters = @ \cup {"server"},
                     !.mdns = FALSE, !.nat = FALSE]
    [] p = "local-discovery" ->
         [cfg EXCEPT !.noann = @ \ {"server"}, !.filters = @ \ {"server"},
                     !.mdns = TRUE, !.nat = TRUE]
    [] p = "test" ->
         [cfg EXCEPT !.addrs = "test", !.nat = FALSE, !.loop = "true", !.boot = {}, !.mdns = FALSE,
                     !.tls = "false", !.auto = "false", !.dns = {}, !.deleg = {}]
    [] p = "default-networking" ->
         [cfg EXCEPT !.addrs = "default", !.noann = {}, !.boot = {"auto"},
                     !.auto = "default", !.url = "default", !.nat = TRUE, !.mdns = TRUE,
                     !.tls = "default"]

\* flatfs and flatfs-levelds name one spec; the -measure forms wrap it and
\* leave what is on disk the same.
DatastoreProfiles == {"flatfs", "flatfs-measure", "flatfs-pebbleds", "pebbleds", "pebbleds-measure", "badgerds"}
DatastoreProfile(p, cfg) ==
  CASE p = "flatfs" -> WithSpec(cfg, "flatfs", FALSE)
    [] p = "flatfs-measure" -> WithSpec(cfg, "flatfs", TRUE)
    [] p = "flatfs-pebbleds" -> WithSpec(cfg, "flatfs+pebble", FALSE)
    [] p = "pebbleds" -> WithSpec(cfg, "pebble", FALSE)
    [] p = "pebbleds-measure" -> WithSpec(cfg, "pebble", TRUE)
    [] p = "badgerds" -> WithSpec(cfg, "badger", FALSE)

NodeProfiles ==
  {"lowpower", "announce-off", "announce-on", "randomports", "unixfs-v0-2015", "unixfs-v1-2025",
   "autoconf-on", "autoconf-off"}
NodeProfile(p, cfg) ==
  CASE p = "lowpower" -> [cfg EXCEPT !.routing = "autoclient"]
    [] p = "announce-off" -> [cfg EXCEPT !.provide = "false", !.interval = "0"]
    [] p = "announce-on" -> WithAnnounceOn(cfg)
    [] p = "randomports" -> [cfg EXCEPT !.addrs = "random"]
    [] p = "unixfs-v0-2015" -> [cfg EXCEPT !.import = "v0"]
    [] p = "unixfs-v1-2025" -> [cfg EXCEPT !.import = "v1"]
    [] p = "autoconf-on" ->
         [cfg EXCEPT !.boot = {"auto"}, !.dns = {"auto"}, !.deleg = {"auto"}, !.auto = "true",
                     !.url = IF @ = "default" THEN "mainnet" ELSE @]
    [] p = "autoconf-off" -> WithAutoconfOff(cfg)

Profiles == NetworkProfiles \cup DatastoreProfiles \cup NodeProfiles
Transformed(p, cfg) ==
  CASE p \in NetworkProfiles -> NetworkProfile(p, cfg)
    [] p \in DatastoreProfiles -> DatastoreProfile(p, cfg)
    [] p \in NodeProfiles -> NodeProfile(p, cfg)

\* config profile apply, by one command at a time: the file is read, the
\* transformer runs, a change of the layout on disk is refused, and SetConfig
\* merges the result into the file.
OnFile(p, file) ==
  LET cfg == Transformed(p, file)
  IN IF cfg.spec.disk # file.spec.disk THEN file ELSE Merge(file, cfg)

AppliesProfile ==
  /\ cprof' \in IF cprof = {} THEN {{DefaultCfg}} ELSE {{OnFile(p, c)} : p \in Profiles, c \in cprof}
  /\ UNCHANGED <<creqvars, cask>>

(***************************************************************************)
(* Requests                                                                *)
(***************************************************************************)
CIdle == [op |-> "none", names |-> {}, key |-> "", val |-> "", at |-> "none", obj |-> 0, ok |-> TRUE]
CIds == 0..Cardinality(CHandlers) + 1
CTo(h, at) == creq' = [creq EXCEPT ![h].at = at]
\* The request ends, with an error or without.
CEnd(h, ok) == creq' = [creq EXCEPT ![h] = [CIdle EXCEPT !.ok = ok]]
\* An object nothing points to.
FreeObject == CHOOSE i \in CIds : i # cref /\ \A h \in CHandlers : creq[h].obj # i

Receives(h) ==
  /\ creq[h].op = "none" /\ chist.begun < MaxRequests
  /\ \E r \in CRequests :
       creq' = [creq EXCEPT ![h] = [CIdle EXCEPT !.op = r.op, !.names = r.names, !.key = r.key,
                                             !.val = r.val, !.at = "open"]]
  /\ chist' = [chist EXCEPT !.begun = @ + 1,
                            !.overlap = @ \/ \E g \in CHandlers \ {h} : creq[g].op # "none"]
  /\ UNCHANGED <<cfile, cref, cobj, cprof, cask>>

\* WriteConfigFile: what the file may be afterwards, and whether an error is
\* returned.  An encoding error leaves a cut file, which the deferred Close
\* renames into place; an error of that Close is dropped.
WriteFails(new) ==
  [open |-> [file |-> cfile, ok |-> FALSE],
   encode |-> [file |-> [new EXCEPT !.whole = FALSE], ok |-> FALSE],
   close |-> [file |-> cfile, ok |-> TRUE]]

WriteResults(new) ==
  {[file |-> new, ok |-> TRUE]} \cup
  (IF chist.faults = 0 THEN {WriteFails(new)[how] : how \in CWriteFaults} ELSE {})

Faulted(w, new) == IF w.file = new /\ w.ok THEN chist.faults ELSE 1

\* SetConfig: merge into the file and, when that worked, point to the new
\* object.  A file that cannot be decoded is an error.
Merged(id) == [cfile EXCEPT !.cfg = Merge(cfile.cfg, cobj[id])]
Points(w, id) == IF w.ok THEN id ELSE cref

SetsConfig(h, id) ==
  \/ /\ cfile.whole
     /\ \E w \in WriteResults(Merged(id)) :
          /\ cfile' = w.file
          /\ cref' = Points(w, id)
          /\ chist' = [chist EXCEPT !.faults = Faulted(w, Merged(id))]
          /\ CEnd(h, w.ok)
  \/ ~cfile.whole /\ CEnd(h, FALSE) /\ UNCHANGED <<cfile, cref, chist>>

Saves(h) ==
  /\ creq[h].at = "save"
  /\ SetsConfig(h, creq[h].obj)
  /\ UNCHANGED <<cobj, cprof, cask>>

(***************************************************************************)
(* Bootstrap: the object that FSRepo.Config returned is changed in place     *)
(***************************************************************************)
\* Peers x and y, with the addresses x1, x2 and y1; "x" alone names the peer.
AddrsOf == [x |-> {"x1", "x2"}, y |-> {"y1"}]
Parses(list) == list \subseteq {"x", "y", "x1", "x2", "y1"}

\* bootstrapRemove: a peer goes as a whole when no address of it is named.
Kept(boot, names) ==
  {a \in boot : \A p \in DOMAIN AddrsOf :
     a \in AddrsOf[p] =>
       /\ a \notin names
       /\ p \in names => names \cap AddrsOf[p] # {}}

\* The early returns before the list is touched.
BootRefused(h, cfg) ==
  CASE creq[h].op = "bootadd" ->
         \/ creq[h].names = {}
         \/ "auto" \in creq[h].names /\ ~AutoEnabled(cfg)
         \/ ~Parses(creq[h].names \ {"auto"})
         \/ creq[h].names \cap DOMAIN AddrsOf # {}
    [] creq[h].op = "bootrm" ->
         \/ "auto" \in cfg.boot
         \/ ~Parses(creq[h].names)
    [] OTHER -> FALSE

BootOpens(h) ==
  /\ creq[h].at = "open" /\ creq[h].op \in {"bootadd", "bootrm", "bootrmall"}
  /\ \/ BootRefused(h, cobj[cref]) /\ CEnd(h, FALSE)
     \/ ~BootRefused(h, cobj[cref]) /\ creq' = [creq EXCEPT ![h].obj = cref, ![h].at = "change"]
  /\ UNCHANGED <<cfile, cref, cobj, chist, cprof, cask>>

\* No lock guards the object: what another handler is adding at the same time
\* may be lost.
Racing(h) ==
  UNION {creq[g].names : g \in {g \in CHandlers \ {h} : creq[g].at = "change" /\ creq[g].obj = creq[h].obj}}

BootChanges(h) ==
  /\ creq[h].at = "change"
  /\ LET boot == cobj[creq[h].obj].boot
         new == CASE creq[h].op = "bootadd" -> boot \cup creq[h].names
                  [] creq[h].op = "bootrm" -> Kept(boot, creq[h].names)
                  [] creq[h].op = "bootrmall" -> {}
     IN \E lost \in SUBSET Racing(h) :
          cobj' = [cobj EXCEPT ![creq[h].obj].boot = new \ lost]
  /\ CTo(h, "save")
  /\ UNCHANGED <<cfile, cref, chist, cprof, cask>>

(***************************************************************************)
(* config key value, config replace, config profile apply                   *)
(***************************************************************************)
\* Mutant: only Identity as a whole is refused.
KeyRefusedNever(key, val) == key = "identity"

\* The value a key is set to: the private key and the secrets of the pinning
\* services are refused, and the peer ID must be the one of the key.
KeyRefused(key, val) ==
  \/ key \in {"identity", "priv"}
  \/ key = "peer" /\ val # "id"

\* SetConfigKey reads the file, sets the key and writes the file; the object in
\* memory is replaced before the write.
SetsKey(h) ==
  /\ creq[h].at = "open" /\ creq[h].op = "set"
  /\ \/ /\ ~KeyRefused(creq[h].key, creq[h].val) /\ cfile.whole
        /\ LET new == [cfile EXCEPT !.cfg[creq[h].key] = creq[h].val]
           IN \E w \in WriteResults(new) :
                /\ cfile' = w.file
                /\ cobj' = [cobj EXCEPT ![FreeObject] = new.cfg]
                /\ cref' = FreeObject
                /\ chist' = [chist EXCEPT !.faults = Faulted(w, new)]
                /\ CEnd(h, w.ok)
     \/ /\ KeyRefused(creq[h].key, creq[h].val) \/ ~cfile.whole
        /\ CEnd(h, FALSE)
        /\ UNCHANGED <<cfile, cref, cobj, chist>>
  /\ UNCHANGED <<cprof, cask>>

\* config replace decodes the file it is given: no private key, the peer ID
\* derived from the key on disk, and the services the node has, with their
\* secrets put back.
ReplaceRefused(file) == file \in {"garbled", "priv", "fewer", "apikey"}

Replacement(file, disk) ==
  [DefaultCfg EXCEPT !.priv = disk.priv, !.peer = "id", !.services = disk.services,
                     !.boot = {"x1"}, !.addrs = "random"]

ReplaceReads(h) ==
  /\ creq[h].at = "open" /\ creq[h].op = "replace"
  /\ \/ /\ ~ReplaceRefused(creq[h].val) /\ cfile.whole
        /\ cobj' = [cobj EXCEPT ![FreeObject] = Replacement(creq[h].val, cfile.cfg)]
        /\ creq' = [creq EXCEPT ![h].obj = FreeObject, ![h].at = "save"]
     \/ /\ ReplaceRefused(creq[h].val) \/ ~cfile.whole
        /\ CEnd(h, FALSE) /\ UNCHANGED cobj
  /\ UNCHANGED <<cfile, cref, chist, cprof, cask>>

\* config profile apply clones the object in memory and transforms the clone.
LayoutChanges(old, new) == old.spec.disk # new.spec.disk

ProfileTransforms(h) ==
  /\ creq[h].at = "open" /\ creq[h].op = "profile"
  /\ LET new == Transformed(creq[h].key, cobj[cref])
     IN \/ /\ ~LayoutChanges(cobj[cref], new)
           /\ cobj' = [cobj EXCEPT ![FreeObject] = new]
           /\ creq' = [creq EXCEPT ![h].obj = FreeObject,
                                   ![h].at = IF creq[h].val = "dry-run" THEN "dry" ELSE "backup"]
        \/ LayoutChanges(cobj[cref], new) /\ CEnd(h, FALSE) /\ UNCHANGED cobj
  /\ UNCHANGED <<cfile, cref, chist, cprof, cask>>

\* The file is copied aside first; a dry run ends here.
ProfileBacksUp(h) ==
  /\ creq[h].at \in {"backup", "dry"}
  /\ \/ creq[h].at = "backup" /\ CTo(h, "save")
     \/ CEnd(h, creq[h].at = "dry")
  /\ UNCHANGED <<cfile, cref, cobj, chist, cprof, cask>>

(***************************************************************************)
(* Keys that are not to be shown                                            *)
(***************************************************************************)
\* PinningConcealSelector, and a config file as the paths of its leaves.
Selector == <<"Pinning", "RemoteServices", "*", "API", "Key">>
Parts5 == {"Pinning", "RemoteServices", "s", "API", "Key"}
CKeys == UNION {[1..n -> Parts5] : n \in 1..5}
LeafPaths ==
  {<<"Pinning", "RemoteServices", "s", "API", "Key">>, <<"Pinning", "RemoteServices", "s", "API", "s">>,
   <<"Pinning", "RemoteServices", "s", "s">>, <<"Pinning", "s">>, <<"s", "Key">>}
Secret(path) ==
  Len(path) >= 5 /\ \A i \in 1..5 : Selector[i] \in {"*", path[i]}

\* matchesGlobPrefix: as many parts as both have.
MatchesGlobPrefix(key, glob) ==
  \A i \in DOMAIN glob : i <= Len(key) => glob[i] \in {"*", key[i]}

\* GetConfigKey: the part of the file under a key.
Under(key) == {p \in LeafPaths : IsPrefix(key, p)}

\* scrubOptionalValue: what remains when the selected value is taken out; a
\* leaf met on the way goes too.
Scrubbed(paths, glob) ==
  {p \in paths : \E i \in DOMAIN glob : i <= Len(p) /\ glob[i] \notin {"*", p[i]}}

AsksKey ==
  /\ cask.key = <<>>
  /\ \E key \in CKeys :
       cask' = [key |-> key, refused |-> MatchesGlobPrefix(key, Selector),
                shown |-> IF MatchesGlobPrefix(key, Selector) THEN {} ELSE Under(key)]
  /\ UNCHANGED <<creqvars, cprof>>

(***************************************************************************)
(* The specification                                                       *)
(***************************************************************************)
ConfigInit ==
  /\ cfile = [cfg |-> DefaultCfg, whole |-> TRUE, extra |-> TRUE]
  /\ cref = 0
  /\ cobj = [i \in CIds |-> DefaultCfg]
  /\ creq = [h \in CHandlers |-> CIdle]
  /\ chist = [begun |-> 0, faults |-> 0, overlap |-> FALSE]
  /\ cprof = {}
  /\ cask = [key |-> <<>>, refused |-> FALSE, shown |-> {}]

ConfigRequests ==
  \E h \in CHandlers :
    \/ Receives(h) \/ Saves(h) \/ BootOpens(h) \/ BootChanges(h) \/ SetsKey(h)
    \/ ReplaceReads(h) \/ ProfileTransforms(h) \/ ProfileBacksUp(h)

\* No command changes the private key, and the peer ID in the file stays the
\* one derived from it: the node would not start otherwise.
IdentityKept == cfile.cfg.priv = "k" /\ cfile.cfg.peer = "id"

\* Keys of the file that the struct does not have survive every command.
UserKeysKept == cfile.extra

\* When no request is under way and no write failed, what FSRepo.Config returns
\* has the bootstrap list, identity, filters and datastore of the file,
\* whichever way the requests interleaved.
MemoryAgrees ==
  (\A h \in CHandlers : creq[h].op = "none") /\ chist.faults = 0 =>
    \A f \in {"priv", "peer", "boot", "deleg", "addrs", "noann", "filters", "mdns", "nat", "spec"} :
      cobj[cref][f] = cfile.cfg[f]

\* Profiles never leave a file whose datastore spec names another layout than
\* the one on disk.
LayoutKept == cfile.cfg.spec.disk = DefaultCfg.spec.disk

\* On the file, local-discovery undoes server and announce-on undoes
\* announce-off, wherever profiles led before; no profile applied twice does
\* more than once; after autoconf-off nothing says "auto".
ProfilePairs == \A c \in cprof :
  /\ OnFile("local-discovery", OnFile("server", c)) = OnFile("local-discovery", c)
  /\ OnFile("announce-on", OnFile("announce-off", c)) = OnFile("announce-on", c)
  /\ \A p \in Profiles : OnFile(p, OnFile(p, c)) = OnFile(p, c)
  /\ "auto" \notin UNION {OnFile("autoconf-off", c)[f] : f \in {"boot", "dns", "deleg"}}

\* No profile but default-networking turns a config the daemon starts with
\* into one it refuses.
ProfileStarts == \A c \in cprof :
  DaemonAccepts(c) => \A p \in Profiles \ {"default-networking"} : DaemonAccepts(OnFile(p, c))

\* A key the command does not refuse shows no secret of a pinning service, and
\* config show leaves none in.
SecretsHidden ==
  cask.key # <<>> =>
  /\ \A p \in cask.shown : ~Secret(p)
  /\ \A p \in Scrubbed(Under(cask.key), Selector) : ~Secret(p)

\* Commands that change the config at the same time keep the identity, the user's
\* own keys and the layout of the datastore, memory and file agree after them, the
\* profiles undo each other, and what is shown hides the secrets.
ConfigSafe ==
  /\ IdentityKept /\ UserKeysKept /\ MemoryAgrees /\ LayoutKept
  /\ ProfileStarts /\ ProfilePairs /\ SecretsHidden
=============================================================================
