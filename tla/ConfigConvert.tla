--------------------------- MODULE ConfigConvert ----------------------------
(* The upgrades of the config of versions 16 and 17.                           *)
EXTENDS Naturals, Sequences, FiniteSets

-----------------------------------------------------------------------------
(* The two config conversions embedded in the binary, fs-repo-16-to-17 and    *)
(* fs-repo-17-to-18.  A JSON value is a record: "absent" (no such key), "nil", *)
(* "other" (a value of an unexpected type) or "list"; the strings of a list    *)
(* are kept by class (a built-in default, one of the user's own, or "auto"),   *)
(* anything in it that is not a string is "number".                            *)

Absent == [kind |-> "absent", list |-> <<>>]
Nil == [kind |-> "nil", list |-> <<>>]
Other == [kind |-> "other", list |-> <<>>]
List(s) == [kind |-> "list", list |-> s]

Auto == List(<<"auto">>)

\* ConvertInterfaceSlice(SafeCastSlice(v)): the strings of a list, nothing for
\* a value that is not one.
Strings(v) == SelectSeq(v.list, LAMBDA i : i # "number")

IsDefault(i) == i = "default"

IsEmptySlice(v) == v.kind \in {"absent", "nil"} \/ v = List(<<>>)

-----------------------------------------------------------------------------
(* fs-repo-16-to-17 *)

\* Mutant: one default is enough for the whole list to become "auto".
ProcessWhole(peers) ==
  IF peers = <<>> \/ "default" \in {peers[i] : i \in DOMAIN peers} THEN <<"auto">> ELSE peers

\* processBootstrapPeers: all defaults together become one leading "auto".
processBootstrapPeers(peers) ==
  LET custom == SelectSeq(peers, LAMBDA i : ~IsDefault(i))
  IN  IF peers = <<>> THEN <<"auto">>
      ELSE IF Len(custom) < Len(peers) THEN <<"auto">> \o custom
      ELSE peers

migrateBootstrap(v) == List(processBootstrapPeers(Strings(v)))

\* ReplaceDefaultsWithAuto, then "auto" for "." when it has no resolver.  A
\* resolver is a class of string, "number" or "absent".
migrateDNSResolvers(r) ==
  [d \in DOMAIN r |->
     LET s == IF r[d] = "number" THEN "absent"
              ELSE IF r[d] = "default" THEN "auto" ELSE r[d]
     IN  IF d = "." /\ s = "absent" THEN "auto" ELSE s]

\* The first default router becomes "auto" in place, later ones are dropped.
migrateDelegatedRouters(v) ==
  LET all == Strings(v)
      first(i) == \A j \in 1..(i - 1) : all[j] # "default"
      kept == SelectSeq([i \in 1..Len(all) |-> i],
                        LAMBDA i : all[i] # "default" \/ first(i))
      new == [k \in 1..Len(kept) |->
                IF all[kept[k]] = "default" THEN "auto" ELSE all[kept[k]]]
  IN  IF IsEmptySlice(v) \/ new = <<>> THEN Auto ELSE List(new)

migrateDelegatedPublishers(v) == IF IsEmptySlice(v) THEN Auto ELSE v

\* convert of fs-repo-16-to-17 (enableAutoConf: SetDefault of an empty section).
Convert16(c) ==
  [c EXCEPT !.autoconf   = IF @ = "absent" THEN "empty" ELSE @,
            !.bootstrap  = migrateBootstrap(@),
            !.resolvers  = migrateDNSResolvers(@),
            !.routers    = migrateDelegatedRouters(@),
            !.publishers = migrateDelegatedPublishers(@)]

-----------------------------------------------------------------------------
(* fs-repo-17-to-18.  Provider and Reprovider are records of their fields,    *)
(* all absent when the section is missing or not a map.                       *)

NoProvide == [enabled |-> "absent", strategy |-> "absent",
              workers |-> "absent", interval |-> "absent"]
NoProvider == [enabled |-> "absent", workers |-> "absent"]
NoReprovider == [strategy |-> "absent", interval |-> "absent"]

\* convert of fs-repo-17-to-18: Provide is built from the old sections and, if
\* it has any field, replaces what the config had there.
Convert17(c) ==
  LET new == [enabled  |-> c.provider.enabled,
              workers  |-> c.provider.workers,
              strategy |-> CASE c.reprovider.strategy = "absent" -> "absent"
                             [] c.reprovider.strategy \in {"flat", "number"} -> "all"
                             [] OTHER -> c.reprovider.strategy,
              interval |-> c.reprovider.interval]
  IN  [c EXCEPT !.provide    = IF new = NoProvide THEN @ ELSE new,
                !.provider   = NoProvider,
                !.reprovider = NoReprovider]

-----------------------------------------------------------------------------
(* Any config of a bounded size taken through the two embedded conversions,   *)
(* each possibly more than once (Apply runs again after a crash).             *)

CONSTANT UpgradeConfigs    \* the configs to start from

VARIABLES conf, at, orig

upvars == <<conf, at, orig>>

UpgradeInit == conf \in UpgradeConfigs /\ at = 16 /\ orig = conf

Apply16 == at \in {16, 17} /\ conf' = Convert16(conf) /\ at' = 17 /\ UNCHANGED orig
Apply17 == at \in {17, 18} /\ conf' = Convert17(conf) /\ at' = 18 /\ UNCHANGED orig

UpgradeNext == Apply16 \/ Apply17
UpgradeSpec == UpgradeInit /\ [][UpgradeNext]_upvars

-----------------------------------------------------------------------------
Custom(v) == SelectSeq(Strings(v), LAMBDA i : i = "custom")
Count(v, i) == Cardinality({k \in DOMAIN v.list : v.list[k] = i})

\* convert of 16-to-17 loses no entry of the user's own and changes no order:
\* not in Bootstrap, the routers, the publishers nor the DNS resolvers.
CustomKept ==
  /\ Custom(conf.bootstrap) = Custom(orig.bootstrap)
  /\ Custom(conf.routers) = Custom(orig.routers)
  /\ orig.publishers.kind = "list" => Custom(conf.publishers) = Custom(orig.publishers)
  /\ \A d \in DOMAIN orig.resolvers :
       orig.resolvers[d] = "custom" => conf.resolvers[d] = "custom"

\* From version 17 on, every default has become "auto": it stands there once
\* for all defaults of a list that had no "auto", and no list is left empty.
DefaultsAreAuto ==
  at >= 17 =>
    /\ \A v \in {conf.bootstrap, conf.routers} :
         v.kind = "list" /\ v.list # <<>> /\ Count(v, "default") = 0
    /\ Count(orig.bootstrap, "auto") = 0 => Count(conf.bootstrap, "auto") <= 1
    /\ Count(orig.routers, "auto") = 0 => Count(conf.routers, "auto") <= 1
    /\ Count(orig.bootstrap, "default") > 0 => Count(conf.bootstrap, "auto") > 0
    /\ Count(orig.routers, "default") > 0 => Count(conf.routers, "auto") > 0
    /\ \A d \in DOMAIN conf.resolvers : conf.resolvers[d] # "default"
    /\ conf.resolvers["."] # "absent"

\* At version 18 every setting of Provider and Reprovider is found in Provide,
\* and a Provide section is kept when there was nothing to move, also when the
\* conversion runs again.
ProvideMoved ==
  at = 18 =>
    /\ conf.provider = NoProvider /\ conf.reprovider = NoReprovider
    /\ orig.provider.enabled # "absent" => conf.provide.enabled = orig.provider.enabled
    /\ orig.provider.workers # "absent" => conf.provide.workers = orig.provider.workers
    /\ orig.reprovider.interval # "absent" => conf.provide.interval = orig.reprovider.interval
    /\ orig.reprovider.strategy # "absent" =>
         conf.provide.strategy = IF orig.reprovider.strategy = "pinned" THEN "pinned" ELSE "all"
    /\ orig.provider = NoProvider /\ orig.reprovider = NoReprovider =>
         conf.provide = orig.provide

\* The two conversions keep what the user set, turn every default into "auto" and
\* move the provider settings, also when they run again.
UpgradeSafe == CustomKept /\ DefaultsAreAuto /\ ProvideMoved
=============================================================================
