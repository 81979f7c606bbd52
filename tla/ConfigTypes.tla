----------------------------- MODULE ConfigTypes -----------------------------
(***************************************************************************)
(* The types of the configuration: what each makes of a JSON value, what   *)
(* it writes back, and what it resolves to; the "auto" placeholders and    *)
(* how autoconf values replace them; and the checks of the Import section  *)
(* with what is derived from it.                                           *)
(*                                                                         *)
(* A JSON value is <<kind, value>>.                                        *)
(***************************************************************************)
EXTENDS Integers, Sequences, FiniteSets

LOCAL INSTANCE SequencesExt

CONSTANTS JNums,       \* numbers in a configuration file
          JStrings,    \* strings in it
          Durations,   \* the strings that are durations, with their values
          Sizes,       \* the strings that are sizes in bytes, with their values
          Domains, AutoData, MaxList, Fanouts

VARIABLE ctask \* a question and its answer

JNull == <<"null">>
JBool(b) == <<"bool", b>>
JNum(n) == <<"num", n>>
JStr(s) == <<"str", s>>
JArr(a) == <<"arr", a>>

JLists == UNION {[1..n -> JStrings]: n \in 0..MaxList}

Json == {JNull} \union {JBool(b): b \in BOOLEAN} \union {JNum(n): n \in JNums}
        \union {JStr(s): s \in JStrings} \union {JArr(a): a \in JLists}

\* A value is a sequence too: empty is the default, an error is told apart.
Err == <<"error">>
Unset == <<>>
Val(x) == <<"is", x>>

-----------------------------------------------------------------------------
(* Unmarshal and marshal of each type *)

FlagOf(j) == CASE j = JNull -> Unset
               [] j[1] = "bool" -> Val(j[2])
               [] OTHER -> Err

FlagJson(v) == IF v = Unset THEN JNull ELSE JBool(v[2])

\* Disabled is kept as -1.
PriorityOf(j) == CASE j = JNull -> Unset
                   [] j = JBool(FALSE) -> Val(-1)
                   [] j[1] = "num" /\ j[2] > 0 -> Val(j[2])
                   [] OTHER -> Err

\* Mutant: what is disabled is written like the default.
PriorityJsonNull(v) == IF v = Unset \/ v = Val(-1) THEN JNull ELSE JNum(v[2])

PriorityJson(v) == CASE v = Unset -> JNull
                     [] v = Val(-1) -> JBool(FALSE)
                     [] OTHER -> JNum(v[2])

OptionalDurationOf(j) ==
  CASE j = JNull \/ j \in {JStr("null"), JStr(""), JStr("default")} -> Unset
    [] j[1] = "str" /\ j[2] \in DOMAIN Durations -> Val(Durations[j[2]])
    [] j = JNum(0) -> Val(0)
    [] OTHER -> Err

\* External: time.Duration.String, of which ParseDuration is the inverse.
DurationString(d) == CHOOSE s \in DOMAIN Durations: Durations[s] = d

OptionalDurationJson(v) == IF v = Unset THEN JNull ELSE JStr(DurationString(v[2]))

\* A number counts nanoseconds; null is neither a number nor a string.
DurationOf(j) == CASE j[1] = "num" -> Val(j[2])
                   [] j[1] = "str" /\ j[2] \in DOMAIN Durations -> Val(Durations[j[2]])
                   [] OTHER -> Err

OptionalIntegerOf(j) == CASE j = JNull -> Unset
                          [] j[1] = "num" -> Val(j[2])
                          [] OTHER -> Err

OptionalIntegerJson(v) == IF v = Unset THEN JNull ELSE JNum(v[2])

OptionalStringOf(j) == CASE j = JNull -> Unset
                         [] j[1] = "str" -> Val(j[2])
                         [] OTHER -> Err

OptionalStringJson(v) == IF v = Unset THEN JNull ELSE JStr(v[2])

\* A string is checked; a number is kept as its digits, whatever its sign.
OptionalBytesOf(j) == CASE j = JNull -> Unset
                        [] j[1] = "num" -> Val(<<"digits", j[2]>>)
                        [] j[1] = "str" /\ j[2] \in DOMAIN Sizes -> Val(<<"text", j[2]>>)
                        [] OTHER -> Err

\* External: humanize.ParseBytes takes digits without a sign and sizes; -1 is its
\* error.
ParseBytes(t) == CASE t[1] = "digits" -> IF t[2] >= 0 THEN t[2] ELSE -1
                   [] t[1] = "text" -> Sizes[t[2]]

\* WithDefault, which panics (-1) when the stored text is no size.
BytesWithDefault(v, default) == IF v = Unset THEN default ELSE ParseBytes(v[2])

StringsOf(j) == CASE j[1] = "arr" -> Val(j[2])
                  [] j = JNull \/ j = JStr("") -> Val(<<>>)
                  [] j[1] = "str" /\ j[2] # "" -> Val(<<j[2]>>)
                  [] OTHER -> Err

StringsJson(v) == CASE v[2] = <<>> -> JNull
                    [] Len(v[2]) = 1 -> JStr(v[2][1])
                    [] OTHER -> JArr(v[2])

Reads == [flag |-> [j \in Json |-> FlagOf(j)],
          priority |-> [j \in Json |-> PriorityOf(j)],
          optionalDuration |-> [j \in Json |-> OptionalDurationOf(j)],
          duration |-> [j \in Json |-> DurationOf(j)],
          integer |-> [j \in Json |-> OptionalIntegerOf(j)],
          string |-> [j \in Json |-> OptionalStringOf(j)],
          strings |-> [j \in Json |-> StringsOf(j)]]

Writes(type, v) == CASE type = "flag" -> FlagJson(v)
                     [] type = "priority" -> PriorityJson(v)
                     [] type = "optionalDuration" -> OptionalDurationJson(v)
                     [] type = "duration" -> JStr(DurationString(v[2]))
                     [] type = "integer" -> OptionalIntegerJson(v)
                     [] type = "string" -> OptionalStringJson(v)
                     [] type = "strings" -> StringsJson(v)

-----------------------------------------------------------------------------
(* autoconf *)

AutoText == "auto"

\* The first placeholder is replaced, the others are dropped; without autoconf
\* all are.
ExpandSlice(source, data) ==
  FlattenSeq([i \in DOMAIN source |->
    CASE source[i] # AutoText -> <<source[i]>>
      [] source[i] = AutoText /\ \A k \in 1..(i - 1): source[k] # AutoText -> data
      [] OTHER -> <<>>])

NativeSystems(routing) == IF routing \in {"dht", "dhtclient", "dhtserver", "auto", "autoclient"}
                          THEN {"AminoDHT"} ELSE {}

\* External: GetBootstrapPeers, the peers of the native systems.
BootstrapPeers(routing) == IF NativeSystems(routing) = {} THEN <<>> ELSE AutoData

BootstrapWithAutoConf(source, enabled, routing) ==
  ExpandSlice(source, IF enabled THEN BootstrapPeers(routing) ELSE <<>>)

\* A placeholder takes one of autoconf's resolvers for the domain, or is dropped
\* when there is "none"; domains the user did not name come from autoconf.
DnsResolvers(own, auto) ==
  LET custom == {d \in DOMAIN own: own[d] # AutoText}
      listed == {d \in DOMAIN auto: auto[d] # "none"}
  IN [d \in custom \union listed |-> IF d \in custom THEN own[d] ELSE auto[d]]

AutoFields == {"Bootstrap", "DNS.Resolvers", "Routing.DelegatedRouters", "Ipns.DelegatedPublishers"}

\* A field in a section is written into the section's map, which the clone of the
\* top level shares with the original.
Shared(field) == field # "Bootstrap"

\* expandConfigField on some of the fields: what the config does not have stays out.
ExpandFields(cfg, fields) == [f \in DOMAIN cfg |-> IF f \in fields THEN "expanded" ELSE cfg[f]]

\* ExpandAutoConfValues: the map it returns and what is then in the map it was given.
ExpandValues(cfg) == [expanded |-> ExpandFields(cfg, AutoFields),
                      original |-> ExpandFields(cfg, {f \in AutoFields: Shared(f)})]

-----------------------------------------------------------------------------
(* Import *)

DefaultHash == "sha2-256"
Hashes == {DefaultHash, "SHA2-256", "blake3", "unknown", "md5"}

\* External: the multihash registry and what verifcid refuses of it.
KnownHashes == {DefaultHash, "blake3", "md5"}
RefusedHashes == {"md5"}

Lower(h) == IF h = "SHA2-256" THEN DefaultHash ELSE h

PowersOfTwo == {2 ^ k: k \in 0..11}

FanoutValid(n) == n >= 8 /\ n \in PowersOfTwo /\ n <= 1024

ChunkerValid(c) == CASE c.kind = "buzhash" -> TRUE
                     [] c.kind = "size" -> c.n[1] > 0
                     [] c.kind = "rabin" -> c.n[1] <= c.n[2] /\ c.n[2] <= c.n[3]
                     [] OTHER -> FALSE

\* ValidateImportConfig: what is not set is not checked.
ImportValid(i) ==
  LET ok(f, S) == i[f] # Unset => i[f][2] \in S
  IN /\ ok("cid", {0, 1})
     /\ \A f \in {"fileLinks", "batchNodes", "batchSize"}: i[f] # Unset => i[f][2] > 0
     /\ i.dirLinks # Unset => i.dirLinks[2] >= 0
     /\ i.fanout # Unset => FanoutValid(i.fanout[2])
     /\ i.chunker # Unset => ChunkerValid(i.chunker[2])
     /\ i.hash # Unset => Lower(i.hash[2]) \in KnownHashes \ RefusedHashes
     /\ ok("est", {"links", "block", "disabled"})
     /\ ok("layout", {"balanced", "trickle"})
     /\ ok("order", {"links-first", "data-first"})

Else(v, default) == IF v = Unset THEN default ELSE v[2]

NoBuilder == [ver |-> -1, hash |-> "none"]

\* UnixFSCidBuilder: another name than the default's needs version 1.
CidBuilder(i) ==
  LET name == Else(i.hash, DefaultHash)
      ver == IF name # DefaultHash /\ Else(i.cid, 0) = 0 THEN 1 ELSE Else(i.cid, 0)
  IN IF ver \in {0, 1} /\ Lower(name) \in KnownHashes
     THEN [ver |-> ver, hash |-> Lower(name)] ELSE NoBuilder

DefaultChunker == [kind |-> "size", n |-> <<256>>]

\* UnixFSSplitterFunc: a size is used as it is; what FromString does not take gives
\* way to the default.
Splitter(i, takes) ==
  LET c == Else(i.chunker, DefaultChunker)
  IN IF (c.kind = "size" /\ c.n[1] > 0) \/ (c.kind \in {"buzhash", "rabin"} /\ takes)
     THEN c ELSE DefaultChunker

EstimationMode(i) == LET e == Else(i.est, "links")
                     IN IF e \in {"links", "block", "disabled"} THEN e ELSE "links"

FieldOrder(i) == IF Else(i.order, "links-first") = "data-first" THEN "data-first" ELSE "links-first"

\* MFSRootOptions: an error of the builder is the only one.
MfsOptions(i, takes) ==
  IF CidBuilder(i) = NoBuilder THEN Err
  ELSE <<"options", [builder |-> CidBuilder(i), splitter |-> Splitter(i, takes),
                     est |-> EstimationMode(i), maxLinks |-> Else(i.dirLinks, 0),
                     fanout |-> Else(i.fanout, 256)]>>

-----------------------------------------------------------------------------

AsksType == \E type \in DOMAIN Reads, j \in Json:
              LET v == Reads[type][j]
              IN /\ v # Err
                 /\ ctask' = [topic |-> "type", type |-> type, json |-> j, value |-> v,
                              again |-> Reads[type][Writes(type, v)]]

AsksBytes == \E j \in Json: LET v == OptionalBytesOf(j)
                            IN /\ v # Err
                               /\ ctask' = [topic |-> "bytes", json |-> j,
                                            value |-> BytesWithDefault(v, 7)]

AsksAuto == \E n \in 0..3: \E source \in [1..n -> {AutoText, "c", "d"}], enabled \in BOOLEAN:
              \E routing \in {"auto", "dht", "delegated", "none", "custom"}:
                ctask' = [topic |-> "auto", source |-> source, enabled |-> enabled,
                          routing |-> routing,
                          out |-> BootstrapWithAutoConf(source, enabled, routing)]

DnsMaps(vals) == UNION {[D -> vals]: D \in SUBSET Domains}

\* Without a Resolvers map nothing is added either.
AsksDns == \E own \in DnsMaps({AutoText, "c"}), auto \in DnsMaps({"r", "none"}), isnil \in BOOLEAN:
             /\ isnil => own = <<>>
             /\ ctask' = [topic |-> "dns", own |-> own, auto |-> auto, isnil |-> isnil,
                          out |-> IF isnil THEN <<>> ELSE DnsResolvers(own, auto)]

AsksExpand == \E P \in SUBSET AutoFields:
                LET cfg == [f \in P |-> AutoText]
                IN ctask' = [topic |-> "expand", cfg |-> cfg, all |-> ExpandValues(cfg)]

Maybe(S) == {Unset} \union {Val(x): x \in S}

Chunkers == [kind: {"buzhash", "junk"}, n: {<<0>>}] \union [kind: {"size"}, n: {<<k>>: k \in 0..1}]
            \union [kind: {"rabin"}, n: {<<a, b, c>>: a, b, c \in 1..2}]

NoImport == [f \in {"cid", "fileLinks", "dirLinks", "fanout", "batchNodes", "batchSize", "chunker",
                    "hash", "est", "layout", "order"} |-> Unset]

\* External: FromString takes buzhash, and some of the rabin chunkers.
AsksImport ==
  \E fanout \in Maybe(Fanouts), chunker \in Maybe(Chunkers), takes \in BOOLEAN,
     ver \in Maybe(0..2), hash \in Maybe(Hashes), est \in Maybe({"links", "block", "disabled", "junk"}),
     order \in Maybe({"links-first", "data-first", "junk"}), links \in Maybe({-1, 0, 1}):
    LET i == [NoImport EXCEPT !.cid = ver, !.hash = hash, !.fanout = fanout, !.chunker = chunker,
                              !.est = est, !.order = order, !.dirLinks = links]
    IN /\ (chunker # Unset /\ chunker[2].kind = "buzhash") => takes
       /\ fanout # Unset => NoImport = [i EXCEPT !.fanout = Unset]
       /\ chunker # Unset => NoImport = [i EXCEPT !.chunker = Unset, !.hash = Unset, !.cid = Unset]
       /\ ctask' = [topic |-> "import", i |-> i, valid |-> ImportValid(i),
                    options |-> MfsOptions(i, takes), order |-> FieldOrder(i)]

AsksConfigType == AsksType \/ AsksBytes \/ AsksAuto \/ AsksDns \/ AsksExpand \/ AsksImport

-----------------------------------------------------------------------------
(* Properties *)

\* What a configuration file says of a setting is what it says again after the
\* node has loaded and saved it, for every type of setting. (A list of one empty
\* string becomes an empty list.)
SavedLoads == ctask.topic = "type" =>
                \/ ctask.again = ctask.value
                \/ ctask.type = "strings" /\ ctask.value = Val(<<"">>)

\* No placeholder is left, the user's own peers are all kept in their order, and
\* autoconf's come in once, if there is a place for them.
AutoExpanded == ctask.topic = "auto" =>
  LET own(s) == SelectSeq(s, LAMBDA x: x \in {"c", "d"})
      peers == IF ctask.enabled /\ AutoText \in ToSet(ctask.source)
               THEN BootstrapPeers(ctask.routing) ELSE <<>>
  IN /\ AutoText \notin ToSet(ctask.out)
     /\ own(ctask.out) = own(ctask.source)
     /\ SelectSeq(ctask.out, LAMBDA x: x \notin {"c", "d"}) = peers

\* The user's own resolvers win over autoconf's, every other domain of autoconf
\* is served, and no placeholder is used as a resolver.
ResolversOwn == ctask.topic = "dns" =>
  /\ \A d \in DOMAIN ctask.own: ctask.own[d] # AutoText => ctask.out[d] = ctask.own[d]
  /\ \A d \in DOMAIN ctask.auto: (ctask.auto[d] # "none" /\ ~ctask.isnil) => d \in DOMAIN ctask.out
  /\ \A d \in DOMAIN ctask.out: ctask.out[d] # AutoText

\* With an Import section that was accepted, files are added the way it says: the
\* options of MFS can be built, CIDs of version 0 only ever have the default hash,
\* and sizes of chunks, estimation and order are the ones that were asked for.
ImportHonoured == (ctask.topic = "import" /\ ctask.valid) =>
  LET i == ctask.i
      o == ctask.options[2]
  IN /\ ctask.options # Err
     /\ o.builder.ver = 0 => o.builder.hash = DefaultHash
     /\ (i.chunker # Unset /\ i.chunker[2].kind # "rabin") => o.splitter = i.chunker[2]
     /\ i.est # Unset => o.est = i.est[2]
     /\ i.order # Unset => ctask.order = i.order[2]
     /\ i.fanout # Unset => o.fanout = i.fanout[2] /\ o.fanout \in 8..1024

\* Loading, expanding, resolving and saving a config loses nothing the user set.
SettingsSafe == SavedLoads /\ AutoExpanded /\ ResolversOwn /\ ImportHonoured
=============================================================================
