------------------------------ MODULE Routing -------------------------------
(* Content routing: its goroutines, and what its configuration stands for.      *)
EXTENDS Integers, Sequences, FiniteSets

LOCAL INSTANCE SequencesExt

-----------------------------------------------------------------------------
(***************************************************************************)
(* The goroutines around content routing: the recursive Provide of the     *)
(* core API (core/coreapi/routing.go), the `ipfs routing` commands that    *)
(* print a query's events (core/commands/routing.go), the one-time purge   *)
(* of old DHT values (core/node/storage.go) and the feeder of relay        *)
(* candidates (core/node/libp2p/routing.go).                               *)
(***************************************************************************)

CONSTANTS RBlocks,    \* blocks of the DAG that is provided, 1..RBlocks
          RProviders, \* providers a query can find, 1..RProviders
          REvents,    \* room of the channel of query events
          Stale,      \* old records at the root of the datastore
          PurgeBatch, \* purgeBatchSize
          MaxStarts   \* starts of the daemon that a purge may take

VARIABLES rk,  \* provideKeysRec and the goroutine that walks
          rq,  \* a routing command
          rp,  \* the purge and the datastore it works on
          rf   \* the relay feeder

rcvars == <<rk, rq, rp, rf>>

-----------------------------------------------------------------------------
(* provideKeysRec *)

\* main: "select" or what was returned; g: the walking goroutine; done: blocks
\* sent on provided.New; err, errClosed: errCh; closed: provided.New.
RecInit == rk = [main |-> "select", g |-> "walk", done |-> 0, err |-> FALSE,
                 errClosed |-> FALSE, closed |-> FALSE, canceled |-> FALSE,
                 keys |-> 0, provided |-> FALSE]

\* dag.Walk sends the next block on provided.New, which has no room of its own.
WalkSends == /\ rk.g = "walk"
             /\ rk.main = "select"
             /\ rk.done < RBlocks
             /\ rk' = [rk EXCEPT !.done = @ + 1, !.keys = @ + 1]

\* A block is missing, or the context ends inside the walk. The error goes to
\* errCh, or nowhere when the context has ended.
WalkFails == /\ rk.g = "walk"
             /\ rk.done < RBlocks
             /\ \E sent \in IF rk.canceled THEN BOOLEAN ELSE {TRUE}:
                  rk' = [rk EXCEPT !.g = "close", !.err = sent]

WalkEnds == /\ rk.g = "walk"
            /\ rk.done = RBlocks
            /\ rk' = [rk EXCEPT !.g = "close"]

\* The deferred calls, last in first out: errCh is closed first.
WalkCloses == \/ /\ rk.g = "close"
                 /\ rk' = [rk EXCEPT !.g = "closing", !.errClosed = TRUE]
              \/ /\ rk.g = "closing"
                 /\ rk' = [rk EXCEPT !.g = "end", !.closed = TRUE]

RecCanceled == /\ ~rk.canceled
               /\ rk.main = "select"
               /\ rk' = [rk EXCEPT !.canceled = TRUE]

\* ctx.Done is ready.
RecGivesUp == /\ rk.main = "select"
              /\ rk.canceled
              /\ rk' = [rk EXCEPT !.main = "failed"]

\* errCh is ready: it holds an error, or is closed and yields nil.
RecReceivesErr ==
  /\ rk.main = "select"
  /\ rk.err \/ rk.errClosed
  /\ rk' = [rk EXCEPT !.main = IF rk.err THEN "failed" ELSE "ok", !.err = FALSE]

\* provided.New is closed: an error that came just before goes first.
RecReceivesEnd ==
  /\ rk.main = "select"
  /\ rk.closed
  /\ rk' = IF rk.err THEN [rk EXCEPT !.main = "failed"]
           ELSE [rk EXCEPT !.main = "ok", !.provided = TRUE]

RecNext == \/ WalkSends \/ WalkFails \/ WalkEnds \/ WalkCloses \/ RecCanceled
           \/ RecGivesUp \/ RecReceivesErr \/ RecReceivesEnd

-----------------------------------------------------------------------------
(* ipfs routing findprovs and findpeer *)

\* h: the handler; g: its goroutine; sent, shown: results published and
\* emitted; events: in the channel; reg: the query's context is live;
\* client: the requester waits; err: what the goroutine stored in findPeerErr.
QueryInit == \E cmd \in {"findprovs", "findpeer"}:
               rq = [cmd |-> cmd, h |-> "loop", g |-> "query", sent |-> 0,
                     shown |-> 0, events |-> <<>>, open |-> TRUE, reg |-> TRUE,
                     client |-> TRUE, err |-> FALSE]

\* What the router finds next: a provider, or the one peer that was asked for.
Wanted == IF rq.cmd = "findprovs" THEN RProviders ELSE 1

QueryFinds == /\ rq.g = "query"
              /\ rq.sent < Wanted
              /\ rq' = [rq EXCEPT !.g = "publish"]

\* The router has no more; for a peer, that is an error.
QueryDry == /\ rq.g = "query"
            /\ rq' = IF rq.cmd = "findpeer" /\ rq.sent = 0
                     THEN [rq EXCEPT !.g = "complain", !.err = TRUE]
                     ELSE [rq EXCEPT !.g = "cancel"]

\* Mutant: PublishQueryEvent waits for room only.
QueryPublishesWaiting ==
  /\ rq.g \in {"publish", "complain"}
  /\ rq.open
  /\ Len(rq.events) < REvents
  /\ rq' = [rq EXCEPT !.g = IF rq.g = "publish" THEN "query" ELSE "cancel",
                      !.events = Append(@, IF rq.g = "publish" THEN "result"
                                           ELSE "error"),
                      !.sent = IF rq.g = "publish" THEN @ + 1 ELSE @]

\* PublishQueryEvent waits for room, or for the end of the context.
QueryPublishes ==
  /\ rq.g \in {"publish", "complain"}
  /\ LET next == IF rq.g = "publish" THEN "query" ELSE "cancel"
         event == IF rq.g = "publish" THEN "result" ELSE "error"
     IN \/ /\ rq.reg /\ rq.client /\ rq.open
           /\ Len(rq.events) < REvents
           /\ rq' = [rq EXCEPT !.g = next, !.events = Append(@, event),
                               !.sent = IF event = "result" THEN @ + 1 ELSE @]
        \/ /\ ~rq.client
           /\ rq' = [rq EXCEPT !.g = "cancel"]

\* The deferred cancel; the channel is closed when the context has ended.
QueryCancels == /\ rq.g = "cancel"
                /\ rq' = [rq EXCEPT !.g = "end", !.reg = FALSE]

EventsClose == /\ rq.open
               /\ ~rq.reg \/ ~rq.client
               /\ rq' = [rq EXCEPT !.open = FALSE]

\* res.Emit of the next event; it fails when the requester has gone.
QueryEmits ==
  /\ rq.h = "loop"
  /\ rq.events # <<>>
  /\ \/ rq' = [rq EXCEPT !.events = Tail(@),
                         !.shown = IF Head(rq.events) = "result" THEN @ + 1
                                   ELSE @]
     \/ /\ ~rq.client
        /\ rq' = [rq EXCEPT !.h = "failed"]

\* The channel is closed and empty. What the goroutine has not written yet, it
\* may be writing now: without a requester the answer is either.
QueryReturns ==
  /\ rq.h = "loop"
  /\ ~rq.open
  /\ rq.events = <<>>
  /\ \E ret \in IF rq.cmd = "findprovs" THEN {"ok"}
                ELSE IF rq.g = "end" THEN {IF rq.err THEN "failed" ELSE "ok"}
                ELSE {"ok", "failed"}: rq' = [rq EXCEPT !.h = ret]

RequesterLeaves == /\ rq.client
                   /\ rq.h = "loop"
                   /\ rq' = [rq EXCEPT !.client = FALSE]

QuerySteps == \/ QueryFinds \/ QueryDry \/ QueryPublishes \/ QueryCancels
              \/ EventsClose \/ QueryEmits \/ QueryReturns

QueryNext == QuerySteps \/ RequesterLeaves

-----------------------------------------------------------------------------
(* PurgeStaleDHTValueRecords *)

\* old: stale records; mark: the marker. mem is what the process sees, disk
\* what a crash leaves: the datastore writes in order.
PStore(o, k) == [old |-> o, mark |-> k]

PurgeInit == rp = [pc |-> "off", mem |-> PStore(Stale, FALSE),
                   disk |-> PStore(Stale, FALSE), todo |-> {}, batch |-> {},
                   starts |-> 0, stop |-> FALSE]

PurgeStarts == /\ rp.pc = "off"
               /\ rp.starts < MaxStarts
               /\ rp' = [rp EXCEPT !.pc = "check", !.starts = @ + 1,
                                   !.stop = FALSE]

\* The marker is there: done; not there: scan; any other error: leave.
PurgeChecks ==
  /\ rp.pc = "check"
  /\ \/ rp' = [rp EXCEPT !.pc = IF rp.mem.mark THEN "idle" ELSE "scan",
                         !.todo = rp.mem.old, !.batch = {}]
     \/ rp' = [rp EXCEPT !.pc = "idle"]

\* One stale key of the scan goes into the batch, which is committed when full.
PurgeDeletes ==
  /\ rp.pc = "scan"
  /\ ~rp.stop
  /\ \E k \in rp.todo:
       LET b == rp.batch \cup {k}
       IN rp' = IF Cardinality(b) >= PurgeBatch
                THEN [rp EXCEPT !.todo = @ \ {k}, !.batch = {},
                                !.mem.old = @ \ b]
                ELSE [rp EXCEPT !.todo = @ \ {k}, !.batch = b]

\* Mutant: an error of the scan is logged, and the marker written.
PurgeBreaksOffMarking ==
  /\ rp.pc \in {"scan", "mark"}
  /\ rp' = [rp EXCEPT !.pc = "mark", !.batch = {}]

\* Stopped, or a key, a batch or a commit fails: what is committed stays.
PurgeBreaksOff == /\ rp.pc \in {"scan", "mark"}
                  /\ rp' = [rp EXCEPT !.pc = "idle", !.batch = {}, !.todo = {}]

\* The scan is over: the rest of the batch, and a sync.
PurgeScanned == /\ rp.pc = "scan"
                /\ rp.todo = {}
                /\ rp' = [rp EXCEPT !.pc = "mark", !.mem.old = @ \ rp.batch,
                                    !.batch = {}]

PurgeMarks == /\ rp.pc = "mark"
              /\ rp' = [rp EXCEPT !.pc = "idle", !.mem.mark = TRUE]

\* A sync, asked for or not, writes everything so far.
StoreFlushes == /\ rp.disk # rp.mem
                /\ rp' = [rp EXCEPT !.disk = rp.mem]

\* OnStop cancels and waits.
PurgeStops == \/ /\ rp.pc \in {"check", "scan", "mark"}
                 /\ ~rp.stop
                 /\ rp' = [rp EXCEPT !.stop = TRUE]
              \/ /\ rp.pc = "idle"
                 /\ rp' = [rp EXCEPT !.pc = "off", !.disk = rp.mem]

PurgeCrashes == /\ rp.pc # "off"
                /\ rp' = [rp EXCEPT !.pc = "off", !.mem = rp.disk,
                                    !.todo = {}, !.batch = {}]

PurgeNext == \/ PurgeStarts \/ PurgeChecks \/ PurgeDeletes \/ PurgeBreaksOff
             \/ PurgeScanned \/ PurgeMarks \/ StoreFlushes \/ PurgeStops
             \/ PurgeCrashes

-----------------------------------------------------------------------------
(* autoRelayFeeder *)

\* sent: candidates of this round so far, out of trusted, closest and connected
\* peers; reader: AutoRelay takes candidates from the channel.
FeedInit == rf = [pc |-> "tick", sent |-> 0, reader |-> TRUE, stop |-> FALSE,
                  hook |-> "none"]

FeedTicks == /\ rf.pc = "tick"
             /\ rf' = [rf EXCEPT !.pc = "send", !.sent = 0]

\* The next candidate is taken by AutoRelay, or skipped for want of addresses.
FeedSends == /\ rf.pc = "send"
             /\ rf.reader
             /\ rf' = IF rf.sent = 3 THEN [rf EXCEPT !.pc = "tick"]
                      ELSE [rf EXCEPT !.sent = @ + 1]

RelayStopsReading == /\ rf.reader
                     /\ rf' = [rf EXCEPT !.reader = FALSE]

\* Every wait of the loop also waits for the context.
FeedEnds == /\ rf.pc \in {"tick", "send"}
            /\ rf.stop
            /\ rf' = [rf EXCEPT !.pc = "done"]

\* OnStop cancels, then waits for the goroutine or for its deadline.
FeedStops == /\ rf.hook = "none"
             /\ rf' = [rf EXCEPT !.stop = TRUE, !.hook = "waiting"]

FeedStopped == /\ rf.hook = "waiting"
               /\ rf.pc = "done"
               /\ rf' = [rf EXCEPT !.hook = "nil"]

FeedNext == \/ FeedTicks \/ FeedSends \/ RelayStopsReading \/ FeedEnds
            \/ FeedStops \/ FeedStopped

-----------------------------------------------------------------------------
(* Properties *)

\* While the request stands, provideKeysRec hands the provider the whole DAG or
\* nothing: an error of the walk that is already in errCh when the end of the
\* walk is seen still wins.
RecWhole == rk.provided /\ ~rk.canceled => rk.keys = RBlocks

\* A requester who waits for the answer sees what the query found: findprovs
\* has emitted every provider that was published, and findpeer succeeds only
\* after it emitted the peer (the goroutine publishes before its deferred
\* cancel, and a closed channel is drained).
PeerReported == rq.h = "ok" /\ rq.client =>
                  rq.shown = IF rq.cmd = "findpeer" THEN 1 ELSE rq.sent

\* Once the marker is on disk no old record is, whatever was interrupted, and
\* however many starts it took: later starts do not look again
\* (purgeStaleDHTValueRecords).
PurgeMarked == rp.disk.mark => rp.disk.old = {}

\* A routing command and its goroutine end, also when the requester leaves
\* while the channel of events is full.
QueryEnded == rq.h # "loop" /\ rq.g = "end"

\* Stopping the node ends the feeder, also when AutoRelay has stopped reading,
\* so that its stop hook does not run into the deadline.
FeederEnds == []<>(rf.stop => rf.hook = "nil")

-----------------------------------------------------------------------------
(***************************************************************************)
(* What the routing part of the config is turned into (routing/            *)
(* delegated.go, config/routing.go, core/node/libp2p/routingopt.go and     *)
(* routing.go): the custom routers and their methods, the delegated HTTP   *)
(* endpoints with what each may be used for, the addresses announced to    *)
(* them, and where the records of each kind of router are kept. All are    *)
(* functions: the state is a question with its answer.                     *)
(***************************************************************************)

CONSTANTS RNames,    \* names of custom routers
          REndpoints \* URLs of delegated endpoints, records of origin and path

VARIABLE rask

RNothing == [topic |-> "none"]

-----------------------------------------------------------------------------
(* Routing.Routers and Routing.Methods *)

\* A router is [type, kids]; "bad" is a leaf whose parameters are refused, or an
\* unknown type, and "absent" a name without a config.
RLeaves == [type: {"http", "dht", "bad", "absent"}, kids: {<<>>}]
RComposed == [type: {"composed"},
              kids: {<<x>>: x \in RNames} \cup {<<x, y>>: x, y \in RNames}]
RouterConfigs == [RNames -> RLeaves \cup RComposed]

\* parse: st carries the maps visited and createdRouters, and the error.
RECURSIVE ParseRouter(_, _, _)
ParseRouter(cfg, name, st) ==
  IF st.err \/ name \in st.created THEN st
  ELSE IF name \in st.visited \/ cfg[name].type \in {"bad", "absent"}
  THEN [st EXCEPT !.err = TRUE]
  ELSE LET v == [st EXCEPT !.visited = @ \cup {name}]
           r == FoldLeft(LAMBDA s, k: ParseRouter(cfg, k, s), v,
                         cfg[name].kids)
       IN IF r.err THEN r ELSE [r EXCEPT !.created = @ \cup {name}]

\* Methods.Check: the supported methods, here providing and all others, are
\* there and nothing else is.
MethodsCheck(methods) == DOMAIN methods = {"provide", "find"}

\* Parse: each method starts with nothing visited and keeps what was created.
ParseRouters(cfg, methods) ==
  LET Start(st, name) == ParseRouter(cfg, name, [st EXCEPT !.visited = {}])
      none == [visited |-> {}, created |-> {}, err |-> FALSE]
  IN IF MethodsCheck(methods)
     THEN Start(Start(none, methods["provide"]), methods["find"])
     ELSE [none EXCEPT !.err = TRUE]

\* routerSupportsHTTPProviding, for configs without a loop: on a loop the
\* function does not return.
RECURSIVE SupportsHTTP(_, _)
SupportsHTTP(cfg, name) ==
  CASE cfg[name].type = "http" -> TRUE
    [] cfg[name].type = "composed" ->
         \E i \in DOMAIN cfg[name].kids: SupportsHTTP(cfg, cfg[name].kids[i])
    [] OTHER -> FALSE

-----------------------------------------------------------------------------
(* Delegated endpoints *)

\* collectAllEndpoints: publishers are merged into the first router with the
\* same URL, or follow the routers.
CollectAllEndpoints(routers, publishers) ==
  LET read == [i \in DOMAIN routers |->
                 [url |-> routers[i], read |-> TRUE, write |-> FALSE]]
      Merge(es, u) ==
        LET same == {i \in DOMAIN es: es[i].url = u}
        IN IF same = {} THEN Append(es, [url |-> u, read |-> FALSE,
                                         write |-> TRUE])
           ELSE [es EXCEPT ![CHOOSE i \in same: \A j \in same: i <= j].write
                             = TRUE]
  IN FoldLeft(Merge, read, publishers)

\* autoconf.DetermineKnownCapabilities, as the tests of routingopt.go use it.
KnownCapabilities(e) ==
  CASE e.url.path = "" -> (IF e.read THEN {"providers", "peers", "get"} ELSE {})
                          \cup (IF e.write THEN {"put"} ELSE {})
    [] e.url.path = "providers" -> IF e.read THEN {"providers"} ELSE {}
    [] e.url.path = "ipns" -> (IF e.read THEN {"get"} ELSE {})
                              \cup (IF e.write THEN {"put"} ELSE {})

\* determineCapabilities: the base URL of one that is not known is empty.
BaseURL(e) == IF e.url.path = "bad" THEN "" ELSE e.url.origin

\* constructDefaultHTTPRouters: what each origin is used for. The empty origin
\* is refused by httpRoutingFromConfig, and with it all of them.
HTTPRouters(routers, publishers) ==
  LET es == CollectAllEndpoints(routers, publishers)
      origins == {BaseURL(es[i]): i \in DOMAIN es}
      Of(o) == {i \in DOMAIN es: BaseURL(es[i]) = o}
      Caps(o) == IF o = "cid.contact" THEN {"providers"}
                 ELSE UNION {KnownCapabilities(es[i]): i \in Of(o)}
  IN IF "" \in origins THEN [err |-> TRUE, caps |-> <<>>]
     ELSE [err |-> FALSE, caps |-> [o \in origins |-> Caps(o)]]

\* ConstructDelegatedOnlyRouting needs one router at least.
DelegatedOnly(routers, publishers) ==
  LET r == HTTPRouters(routers, publishers)
  IN r.err \/ DOMAIN r.caps = {}

-----------------------------------------------------------------------------
(* Addresses announced to HTTP routers *)

\* Odd addresses are public.
PublicAddr(a) == a % 2 = 1

\* httpRouterAddrFunc; h.Addrs() holds the node's own addresses and the
\* appended ones, which makeAddrsFactory put there.
HttpRouterAddrs(announce, append, own) ==
  IF announce # <<>>
  THEN announce \o SelectSeq(append, LAMBDA a: a \notin ToSet(announce))
  ELSE LET addrs == SelectSeq(own \o append,
                              LAMBDA a: a \notin ToSet(append))
           public == SelectSeq(addrs, PublicAddr)
       IN (IF public # <<>> THEN public ELSE addrs) \o append

-----------------------------------------------------------------------------
(* Where value records live *)

RouterKinds == {"dht", "accelerated", "custom dht", "custom accelerated",
                "offline", "no-fetch gateway"}

\* The part of the datastore a router of each kind reads and writes: BaseRouting
\* gives the accelerated client no ValueDatastore.
ValueView(kind) == IF kind = "accelerated" THEN "/" ELSE "/dht"

-----------------------------------------------------------------------------
(* ipfs routing provide *)

\* The checks of the command, then of each key, before anything is announced.
RoutingProvide(n, keys) ==
  IF ~n.online THEN "offline"
  ELSE IF ~n.enabled THEN "disabled"
  ELSE IF ~n.peers /\ ~n.http THEN "no peers"
  ELSE IF \E i \in DOMAIN keys: keys[i] # "local" THEN "bad key"
  ELSE "announces"

\* RoutingAPI.Get and Put, with normalizeKey and checkOnline.
RoutingValue(op, online, allowOffline, key) ==
  IF op = "get" THEN IF ~online THEN "offline"
                     ELSE IF key = "bad" THEN "bad key" ELSE "done"
  ELSE IF ~online /\ ~allowOffline THEN "offline"
       ELSE IF key = "bad" THEN "bad key" ELSE "done"

-----------------------------------------------------------------------------

RShort(S, n) == UNION {[1..k -> S]: k \in 0..n}

AsksRouters ==
  \E cfg \in RouterConfigs, p \in RNames, f \in RNames:
  \E given \in {{"provide", "find"}, {"provide"}, {"provide", "find", "x"}}:
    /\ p = CHOOSE x \in RNames: TRUE
    /\ given # {"provide", "find"} => f = p /\ cfg[p].type # "composed"
    /\ LET methods == [m \in given |-> IF m = "provide" THEN p ELSE f]
           st == ParseRouters(cfg, methods)
       IN rask' = [topic |-> "routers", cfg |-> cfg, methods |-> methods,
                   ok |-> ~st.err, created |-> st.created,
                   http |-> ~st.err /\ SupportsHTTP(cfg, p)]

AsksEndpoints ==
  \E rs, ps \in RShort(REndpoints, 2):
    LET r == HTTPRouters(rs, ps)
    IN rask' = [topic |-> "endpoints", routers |-> rs, publishers |-> ps,
                err |-> r.err, caps |-> r.caps,
                none |-> DelegatedOnly(rs, ps)]

AsksAddrs ==
  \E an \in {<<>>, <<1>>, <<2, 5>>}, ap, own \in RShort(1..5, 2):
    /\ Len(ap) = 2 => ap[1] # ap[2]
    /\ Len(own) = 2 => own[1] # own[2]
    /\ rask' = [topic |-> "addrs", announce |-> an, append |-> ap, own |-> own,
                answer |-> HttpRouterAddrs(an, ap, own)]

AsksValues ==
  \/ \E on, off \in RouterKinds:
       /\ off \in {"offline", "no-fetch gateway"}
       /\ rask' = [topic |-> "values", online |-> on,
                   agree |-> ValueView(on) = ValueView(off)]
  \/ \E online, enabled, peers, http \in BOOLEAN,
        keys \in RShort({"local", "absent"}, 2):
       LET n == [online |-> online, enabled |-> enabled, peers |-> peers,
                 http |-> http]
       IN rask' = [topic |-> "provide", node |-> n, keys |-> keys,
                   answer |-> RoutingProvide(n, keys)]
  \/ \E op \in {"get", "put"}, online, allow \in BOOLEAN,
        key \in {"good", "bad"}:
       rask' = [topic |-> "value", op |-> op, online |-> online,
                allow |-> allow, key |-> key,
                answer |-> RoutingValue(op, online, allow, key)]

AsksRouting == AsksRouters \/ AsksEndpoints \/ AsksAddrs \/ AsksValues

-----------------------------------------------------------------------------
(* Properties *)

\* Routers reachable from a name in at least one step, within Cardinality(RNames)
\* steps, as an independent definition of what a config contains.
RKids(cfg, S) == UNION {ToSet(cfg[n].kids): n \in S}
RReach(cfg, n) ==
  LET f[k \in 0..Cardinality(RNames)] ==
        IF k = 0 THEN RKids(cfg, {n}) ELSE f[k - 1] \cup RKids(cfg, f[k - 1])
  IN f[Cardinality(RNames)]

\* A custom config is accepted exactly when it names every method and the
\* routers they reach exist, are well formed and do not reach themselves. A
\* router used twice, by two methods or by two others, is no loop (parse looks
\* at createdRouters before it looks at visited).
RoutersParsed ==
  rask.topic = "routers" =>
    LET used == UNION {{rask.methods[m]} \cup RReach(rask.cfg, rask.methods[m]):
                         m \in DOMAIN rask.methods}
    IN /\ rask.ok = (/\ DOMAIN rask.methods = {"provide", "find"}
                     /\ \A n \in used: /\ rask.cfg[n].type \notin {"bad", "absent"}
                                       /\ n \notin RReach(rask.cfg, n))
       /\ rask.ok => rask.created = used

\* HasHTTPProviderConfigured is true of an accepted config exactly when the
\* method that provides reaches an HTTP router, at whatever depth and place.
HttpProviderFound ==
  rask.topic = "routers" /\ rask.ok =>
    LET p == rask.methods["provide"]
    IN rask.http = \E n \in {p} \cup RReach(rask.cfg, p):
                     rask.cfg[n].type = "http"

\* An origin is asked only for what some URL of it was configured for: records
\* are published only to origins among the publishers and read only from those
\* among the routers, however the two lists overlap (cid.contact, which can do
\* one thing, apart).
OriginsFit ==
  rask.topic = "endpoints" /\ ~rask.err =>
    \A o \in DOMAIN rask.caps \ {"cid.contact"}:
      LET Has(list, paths) == \E i \in DOMAIN list:
            list[i].origin = o /\ list[i].path \in paths
      IN /\ ("put" \in rask.caps[o]) = Has(rask.publishers, {"", "ipns"})
         /\ ("get" \in rask.caps[o]) = Has(rask.routers, {"", "ipns"})
         /\ ("providers" \in rask.caps[o])
              = Has(rask.routers, {"", "providers"})

\* What a node announces to HTTP routers: addresses of AppendAnnounce once each
\* and always; of its own only public ones if it has one, where an appended
\* address does not count; with Announce set, nothing of its own.
AddrsAnnounced ==
  rask.topic = "addrs" =>
    LET out == rask.answer
        mine == ToSet(rask.own) \ ToSet(rask.append)
        Times(a) == Cardinality({i \in DOMAIN out: out[i] = a})
    IN /\ \A a \in ToSet(rask.append): Times(a) = 1
       /\ rask.announce # <<>> =>
            ToSet(out) = ToSet(rask.announce) \cup ToSet(rask.append)
       /\ rask.announce = <<>> =>
            ToSet(out) \ ToSet(rask.append) =
              IF \E a \in mine: PublicAddr(a) THEN {a \in mine: PublicAddr(a)}
              ELSE mine

\* `ipfs routing provide` announces only what every check and every key allow,
\* and a node without peers may still provide over HTTP.
ProvideChecked ==
  rask.topic = "provide" =>
    (rask.answer = "announces") =
      (/\ rask.node.online /\ rask.node.enabled
       /\ rask.node.peers \/ rask.node.http
       /\ \A i \in DOMAIN rask.keys: rask.keys[i] = "local")

\* A routing command that succeeds has provided or shown all there is, no purge is
\* taken for done before it is, and the configuration means what it says.
RoutingSafe ==
  /\ RecWhole /\ PeerReported /\ PurgeMarked
  /\ RoutersParsed /\ HttpProviderFound /\ OriginsFit /\ AddrsAnnounced /\ ProvideChecked
=============================================================================
