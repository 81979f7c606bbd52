-------------------------------- MODULE Keys --------------------------------
(***************************************************************************)
(* The keystore and the commands on it (ipfs key ...): several calls run   *)
(* at once in a daemon and each of their accesses to the keystore is a     *)
(* step; key rotate changes the node's identity while no daemon runs; key  *)
(* export writes a key to a path other programs use; name publish looks a  *)
(* key up and signs a record with it.  The machine may crash.              *)
(***************************************************************************)
EXTENDS Naturals, FiniteSets

CONSTANTS KNames,      \* key names other than self
          KCallers,    \* calls in flight in the daemon
          MaxKeys,     \* bound on keys made; key 1 is the first identity
          MaxHops,     \* maxSymlinkHops
          DefaultTtl   \* ipns.DefaultRecordTTL

ASSUME KeysAssumption ==
  /\ IsFiniteSet(KNames) /\ IsFiniteSet(KCallers)
  /\ MaxKeys \in Nat \ {0} /\ MaxHops \in Nat \ {0} /\ DefaultTtl \in Nat

VARIABLES kst,         \* keystore: the key under each name
          kident,      \* the identity in the config file
          kcall,       \* the call each caller is in
          knext,       \* keys made so far + 1
          khad,        \* keys that were stored, and keys that were the identity
          klost,       \* keys a call deleted on request, or from under another
          kmode,       \* who holds the repo's lock: "none", "daemon", "rotate"
          xp           \* the export under way and its target

kvars == <<kst, kident, kcall, knext, khad, klost, kmode, xp>>

NoKey == 0
KIdle == [op |-> "idle", from |-> "none", to |-> "none", key |-> NoKey, at |-> "none", ttl |-> 0, life |-> 0]
XIdle == [at |-> "idle", path |-> "absent", hops |-> 0, file |-> "none", synced |-> FALSE]
XPaths == {"absent", "file", "pipe", "other"}
XTargets == {XIdle, [XIdle EXCEPT !.path = "pipe"], [XIdle EXCEPT !.path = "other"]}
            \cup {[XIdle EXCEPT !.path = "file", !.file = "prev", !.synced = TRUE, !.hops = h] : h \in {MaxHops - 1, MaxHops}}

KeysInit ==
  /\ kst = [n \in KNames |-> NoKey] /\ kident = 1 /\ kcall = [c \in KCallers |-> KIdle]
  /\ knext = 2 /\ khad = {1} /\ klost = {} /\ kmode = "none"
  /\ xp = XIdle

(* the daemon may let go of the repo while calls are in flight; a crash    *)
(* ends everything                                                         *)
DaemonTakes == kmode = "none" /\ kmode' = "daemon" /\ UNCHANGED <<kst, kident, kcall, knext, khad, klost, xp>>
DaemonLeaves == kmode = "daemon" /\ kmode' = "none" /\ UNCHANGED <<kst, kident, kcall, knext, khad, klost, xp>>
KeysCrash ==
  /\ kmode' = "none" /\ kcall' = [c \in KCallers |-> KIdle]
  /\ xp' = [xp EXCEPT !.at = IF @ = "idle" THEN @ ELSE "done", !.file = IF @ = "whole" /\ ~xp.synced THEN "empty" ELSE @]
  /\ UNCHANGED <<kst, kident, knext, khad, klost>>

KRest(c) == kmode = "daemon" /\ kcall[c] = KIdle /\ xp.at = "idle"
KEnter(c, op, from, to, k, at) ==
  kcall' = [kcall EXCEPT ![c] = [op |-> op, from |-> from, to |-> to, key |-> k, at |-> at, ttl |-> 0, life |-> 0]]
KAt(c, op, at) == kcall[c].op = op /\ kcall[c].at = at
KGoes(c, at) == kcall' = [kcall EXCEPT ![c].at = at]
KDone(c) == kcall' = [kcall EXCEPT ![c] = KIdle]

----------------------------------------------------------------------------
(* Put of the keystore fails when the name is taken, Delete when it is not *)
KPut(n, k) == kst[n] = NoKey /\ kst' = [kst EXCEPT ![n] = k] /\ khad' = khad \cup {k}
KDelete(n) == kst[n] # NoKey /\ kst' = [kst EXCEPT ![n] = NoKey]

----------------------------------------------------------------------------
(* key gen and key import: a name that is taken is refused, then Put       *)
GenChecks(c, n) ==
  /\ KRest(c) /\ kst[n] = NoKey /\ knext <= MaxKeys
  /\ KEnter(c, "put", "none", n, knext, "put") /\ knext' = knext + 1
  /\ UNCHANGED <<kst, kident, khad, klost, kmode, xp>>
ImportChecks(c, n, k) ==
  /\ KRest(c) /\ kst[n] = NoKey /\ k \in 1 .. knext - 1
  /\ KEnter(c, "put", "none", n, k, "put")
  /\ UNCHANGED <<kst, kident, knext, khad, klost, kmode, xp>>
PutsKey(c) ==
  /\ KAt(c, "put", "put") /\ KDone(c)
  /\ \/ KPut(kcall[c].to, kcall[c].key)
     \/ UNCHANGED <<kst, khad>>
  /\ UNCHANGED <<kident, knext, klost, kmode, xp>>

(* key rename: Get, with --force Has and Delete of the new name, Put,      *)
(* Delete of the old one                                                   *)
RenameGets(c, o, n, force) ==
  /\ KRest(c) /\ o # n /\ kst[o] # NoKey
  /\ KEnter(c, "rename", o, n, kst[o], IF force THEN "has" ELSE "put")
  /\ UNCHANGED <<kst, kident, knext, khad, klost, kmode, xp>>
RenameHas(c) ==
  /\ KAt(c, "rename", "has") /\ KGoes(c, IF kst[kcall[c].to] # NoKey THEN "overwrite" ELSE "put")
  /\ UNCHANGED <<kst, kident, knext, khad, klost, kmode, xp>>
RenameOverwrites(c) ==
  /\ KAt(c, "rename", "overwrite")
  /\ \/ KDelete(kcall[c].to) /\ klost' = klost \cup {kst[kcall[c].to]} /\ KGoes(c, "put")
     \/ KDone(c) /\ UNCHANGED <<kst, klost>>
  /\ UNCHANGED <<kident, knext, khad, kmode, xp>>
\* Mutant: the error of Put is not looked at.
RenamePutsAnyway(c) ==
  /\ KAt(c, "rename", "put") /\ KGoes(c, "delete")
  /\ \/ KPut(kcall[c].to, kcall[c].key)
     \/ UNCHANGED <<kst, khad>>
  /\ UNCHANGED <<kident, knext, klost, kmode, xp>>

RenamePuts(c) ==
  /\ KAt(c, "rename", "put")
  /\ \/ KPut(kcall[c].to, kcall[c].key) /\ KGoes(c, "delete")
     \/ KDone(c) /\ UNCHANGED <<kst, khad>>
  /\ UNCHANGED <<kident, knext, klost, kmode, xp>>
RenameDeletes(c) ==
  /\ KAt(c, "rename", "delete") /\ KDone(c)
  /\ \/ /\ KDelete(kcall[c].from)
        /\ klost' = klost \cup ({kst[kcall[c].from]} \ {kcall[c].key})
     \/ UNCHANGED <<kst, klost>>
  /\ UNCHANGED <<kident, knext, khad, kmode, xp>>

(* key rm: Get, then Delete                                                *)
RmGets(c, n) ==
  /\ KRest(c) /\ kst[n] # NoKey /\ KEnter(c, "rm", n, "none", kst[n], "delete")
  /\ UNCHANGED <<kst, kident, knext, khad, klost, kmode, xp>>
RmDeletes(c) ==
  /\ KAt(c, "rm", "delete") /\ KDone(c)
  /\ \/ KDelete(kcall[c].from) /\ klost' = klost \cup {kst[kcall[c].from]}
     \/ UNCHANGED <<kst, klost>>
  /\ UNCHANGED <<kident, knext, khad, kmode, xp>>

----------------------------------------------------------------------------
(* key rotate: with the lock, a new identity, the old one put under the    *)
(* backup's name, then the config saved.  One caller stands for it.        *)
RotateOpens(c, n) ==
  /\ kmode = "none" /\ kcall[c] = KIdle /\ xp.at = "idle" /\ knext <= MaxKeys /\ kmode' = "rotate"
  /\ KEnter(c, "rotate", "none", n, knext, "backup") /\ knext' = knext + 1
  /\ UNCHANGED <<kst, kident, khad, klost, xp>>
RotateBacksUp(c) ==
  /\ KAt(c, "rotate", "backup")
  /\ \/ KPut(kcall[c].to, kident) /\ KGoes(c, "save") /\ UNCHANGED kmode
     \/ KDone(c) /\ kmode' = "none" /\ UNCHANGED <<kst, khad>>
  /\ UNCHANGED <<kident, knext, klost, xp>>
RotateSaves(c) ==
  /\ KAt(c, "rotate", "save") /\ KDone(c) /\ kmode' = "none"
  /\ \/ kident' = kcall[c].key /\ khad' = khad \cup {kcall[c].key}
     \/ UNCHANGED <<kident, khad>>
  /\ UNCHANGED <<kst, knext, klost, xp>>

----------------------------------------------------------------------------
(* name publish: the key by name or by peer ID, then the record, whose TTL *)
(* is at most its lifetime.  A publish its mode refuses (offline without   *)
(* --allow-offline, no delegated publishers, /ipns mounted) changes        *)
(* nothing.                                                                *)
Ttl(given, ttl, life) == IF given THEN ttl ELSE IF DefaultTtl < life THEN DefaultTtl ELSE life

Keylookup(byId, n, k) ==
  IF ~byId THEN kst[n]
  ELSE IF k = kident THEN kident
  ELSE IF \E m \in KNames : kst[m] = k THEN k ELSE NoKey

PublishLooks(c, byId, n, k, given, ttl, life) ==
  /\ KRest(c) /\ Keylookup(byId, n, k) # NoKey
  /\ life > 0 /\ (given => ttl <= life)
  /\ kcall' = [kcall EXCEPT ![c] = [op |-> "publish", from |-> "none", to |-> "none", key |-> NoKey, at |-> "none",
                                   ttl |-> Ttl(given, ttl, life), life |-> life]]
  /\ UNCHANGED <<kst, kident, knext, khad, klost, kmode, xp>>
PublishSends(c) == kcall[c].op = "publish" /\ KDone(c) /\ UNCHANGED <<kst, kident, knext, khad, klost, kmode, xp>>

----------------------------------------------------------------------------
(* key export: the path is looked at, and either a pipe is opened and      *)
(* looked at again, or the key goes to a temporary file that is flushed    *)
(* and renamed over what the links end at.  It takes no lock, and after    *)
(* its one read of the keystore it touches only its target, so the model   *)
(* lets no other call begin before it is over.                             *)
XKeep == UNCHANGED <<kst, kident, kcall, knext, khad, klost, kmode>>
ExportReads ==
  /\ xp.at = "idle" /\ (\E n \in KNames : kst[n] # NoKey) /\ (\A c \in KCallers : kcall[c] = KIdle)
  /\ \E t \in XTargets : xp' = [t EXCEPT !.at = "stat"]
  /\ XKeep
ExportStats ==
  /\ xp.at = "stat" /\ XKeep
  /\ xp' = [xp EXCEPT !.at = CASE xp.path = "pipe" -> "open" [] xp.path = "other" -> "done" [] OTHER -> "resolve"]
PathSwapped ==
  /\ xp.path = "pipe" /\ XKeep
  /\ xp' = [xp EXCEPT !.path = "file", !.file = "prev", !.synced = TRUE]
ExportOpens == xp.at = "open" /\ XKeep /\ xp' = [xp EXCEPT !.at = "done"]
ExportResolves ==
  /\ xp.at = "resolve" /\ XKeep
  /\ xp' = [xp EXCEPT !.at = IF xp.hops < MaxHops THEN "temp" ELSE "done"]
ExportWrites == xp.at = "temp" /\ XKeep /\ (\E ok \in BOOLEAN : xp' = [xp EXCEPT !.at = IF ok THEN "sync" ELSE "done"])
ExportRenames ==
  /\ xp.at = "sync" /\ XKeep
  /\ \/ xp' = [xp EXCEPT !.at = "done", !.path = "file", !.file = "whole", !.synced = TRUE]
     \/ xp' = [xp EXCEPT !.at = "done"]

(* another export, to another path                                         *)
ExportOver == xp.at = "done" /\ XKeep /\ xp' = XIdle

KeysNext ==
  \/ DaemonTakes \/ DaemonLeaves \/ KeysCrash
  \/ \E c \in KCallers :
       \/ \E n \in KNames : GenChecks(c, n) \/ RmGets(c, n) \/ RotateOpens(c, n)
       \/ \E n \in KNames, k \in 1 .. MaxKeys : ImportChecks(c, n, k)
       \/ \E o, n \in KNames, force \in BOOLEAN : RenameGets(c, o, n, force)
       \/ PutsKey(c) \/ RenameHas(c) \/ RenameOverwrites(c) \/ RenamePuts(c) \/ RenameDeletes(c)
       \/ \E byId, given \in BOOLEAN, n \in KNames, k \in 1 .. MaxKeys, ttl \in 0 .. 2, life \in 1 .. 2 :
            PublishLooks(c, byId, n, k, given, ttl, life)
       \/ PublishSends(c)
       \/ RmDeletes(c) \/ RotateBacksUp(c) \/ RotateSaves(c)
  \/ ExportReads \/ ExportStats \/ PathSwapped \/ ExportOpens \/ ExportResolves \/ ExportWrites \/ ExportRenames \/ ExportOver

KeysSpec == KeysInit /\ [][KeysNext]_kvars

----------------------------------------------------------------------------
(* A call that is under way has the names and the key it works with.       *)
KCalls ==
  {r \in [op : {"idle", "put", "rename", "rm", "rotate", "publish"},
          from : KNames \cup {"none"}, to : KNames \cup {"none"}, key : 0 .. MaxKeys,
          at : {"none", "put", "has", "overwrite", "delete", "backup", "save"}, ttl : Nat, life : Nat] :
     /\ r.op \in {"put", "rename", "rotate"} => r.to \in KNames /\ r.key # NoKey
     /\ r.op \in {"rename", "rm"} => r.from \in KNames}

(* Every variable keeps its type.                                          *)
KeysTypeOK ==
  /\ kst \in [KNames -> 0 .. MaxKeys] /\ kident \in 1 .. MaxKeys /\ knext \in 2 .. MaxKeys + 1
  /\ khad \subseteq 1 .. MaxKeys /\ klost \subseteq 1 .. MaxKeys
  /\ kmode \in {"none", "daemon", "rotate"} /\ kcall \in [KCallers -> KCalls]
  /\ xp \in [at : {"idle", "stat", "open", "resolve", "temp", "sync", "done"}, path : XPaths,
             hops : Nat, file : {"none", "prev", "whole", "empty"}, synced : BOOLEAN]

(* A key once stored, and an identity the node once had, stays under some  *)
(* name or in the config, whatever calls interleave and wherever the       *)
(* machine crashes, also between the two writes of rotate, which may be    *)
(* run again: only rm, a forced rename's overwrite, or a rename whose old  *)
(* name was given to another key meanwhile delete one.                     *)
KeyKept == \A k \in khad \ (klost \cup {kident}) : \E n \in KNames : kst[n] = k

(* A path that held a file holds the file as it was or the whole key,      *)
(* however the export fails, the path changes its type or the machine      *)
(* crashes: never a part of the key, and never an emptied file.            *)
ExportWhole == xp.file \in {"none", "prev", "whole"}

(* A record is never cached for longer than it is valid.                   *)
TtlWithin == \A c \in KCallers : kcall[c].ttl <= kcall[c].life

\* No key is lost, no exported file is cut and no record outlives its key's word,
\* wherever calls interleave and the machine crashes.
KeysSafe == KeyKept /\ ExportWhole /\ TtlWithin
=============================================================================
