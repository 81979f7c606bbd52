------------------------------ MODULE Bindings ------------------------------
(***************************************************************************)
(* The C bindings of ffi/: calls from several threads of one process on    *)
(* tables of handles (nodes, watchers, libp2p hosts, git repositories,     *)
(* relays, subscriptions), the repos they share through the reference      *)
(* counts of OnlyOne, the listeners of the HTTP servers, the crate cache   *)
(* of the gateway, and the one string that holds the last error.           *)
(***************************************************************************)
EXTENDS Naturals, Sequences, FiniteSets

CONSTANTS Callers,      \* threads of the embedding program
          FRepos,       \* repository paths
          Crates,
          RefWrap,      \* 2^32: the reference count is a uint32
          MaxHandles,   \* bound on nodes and on opened repos
          MaxOthers,    \* bound on watchers, command runs and entries of a table
          MaxServes,    \* bound on start_api and start_gateway
          MaxFCalls     \* bound on calls that have returned

(* fewer references than the count can hold                                *)
ASSUME BindingsAssumption ==
  /\ IsFiniteSet(Callers) /\ MaxHandles \in Nat /\ MaxOthers \in Nat /\ RefWrap \in Nat
  /\ Cardinality(Callers) + MaxHandles + MaxOthers + MaxOthers < RefWrap

VARIABLES fgen,         \* opened repos, in order: [repo, refs, open, twice]
          fnode,        \* nodeHandles, in order: [gen, closes, cur, conf]
          fvalid,       \* handles in the table nodes
          fwatch,       \* watchHandles, in order: [gen, at]
          fwvalid,      \* handles in the table watchHandles
          ftab,         \* the other tables: [next, live, closes]
          flis,         \* listeners, in order: [node, kind, conf, at, auth]
          fcall,        \* the call each thread is in
          fruns,        \* repos held by nodes of kubo_run_command
          flast,        \* the thread whose error lastError holds
          fcrate,       \* crate files cached on disk
          freturns      \* calls that have returned

fvars == <<fgen, fnode, fvalid, fwatch, fwvalid, ftab, flis, fcall, fruns, flast, fcrate, freturns>>

Tables == {"host", "git", "relay", "sub"}
NoOne == "no one"
AtRest == [op |-> "idle", arg |-> 0, at |-> "none", ok |-> TRUE]

BindingsInit ==
  /\ fgen = <<>> /\ fnode = <<>> /\ fvalid = {} /\ fwatch = <<>> /\ fwvalid = {}
  /\ ftab = [k \in Tables |-> [next |-> 1, live |-> {}, closes |-> <<>>]]
  /\ flis = <<>> /\ fcall = [c \in Callers |-> AtRest] /\ fruns = <<>>
  /\ flast = NoOne /\ fcrate = [x \in Crates |-> "none"] /\ freturns = 0

Resting(c) == fcall[c].op = "idle" /\ freturns < MaxFCalls
In(c, op, at) == fcall[c].op = op /\ fcall[c].at = at
Enters(c, op, arg, at) == fcall' = [fcall EXCEPT ![c] = [op |-> op, arg |-> arg, at |-> at, ok |-> TRUE]]

(* every export ends with setError(err) or setError(nil)                   *)
Ends(c, ok) ==
  /\ fcall' = [fcall EXCEPT ![c] = [op |-> "ended", arg |-> 0, at |-> "none", ok |-> ok]]
  /\ flast' = IF ok THEN NoOne ELSE c

----------------------------------------------------------------------------
(* OnlyOne: opening an open repo shares it; the close that takes the count *)
(* to zero closes it, a close after that wraps the count                   *)

ActiveGen(r) == {g \in DOMAIN fgen : fgen[g].repo = r /\ fgen[g].open}

Opened(r) ==
  IF ActiveGen(r) # {} THEN [g \in DOMAIN fgen |->
                               IF g \in ActiveGen(r)
                               THEN [fgen[g] EXCEPT !.refs = (@ + 1) % RefWrap] ELSE fgen[g]]
  ELSE Append(fgen, [repo |-> r, refs |-> 1, open |-> TRUE, twice |-> FALSE])
OpenedGen(r) == IF ActiveGen(r) # {} THEN CHOOSE g \in ActiveGen(r) : TRUE ELSE Len(fgen) + 1

ClosedOnce(gens, g) ==
  LET n == (gens[g].refs + RefWrap - 1) % RefWrap
  IN  [gens EXCEPT ![g].refs = n, ![g].open = @ /\ n > 0]

(* the same user closes twice: the OnStop hook of its node, and its own    *)
ClosedTwice(gens, g) == [ClosedOnce(ClosedOnce(gens, g), g) EXCEPT ![g].twice = TRUE]

----------------------------------------------------------------------------
(* kubo_node_start and kubo_node_stop                                      *)

StartOpens(c, r) ==
  /\ Resting(c) /\ Len(fnode) < MaxHandles /\ (ActiveGen(r) # {} \/ Len(fgen) < MaxHandles)
  /\ fgen' = Opened(r) /\ Enters(c, "start", OpenedGen(r), "opened")
  /\ UNCHANGED <<fnode, fvalid, fwatch, fwvalid, ftab, flis, fruns, flast, fcrate, freturns>>

(* ensurePlugins or fsrepo.Open fails                                      *)
StartRefused(c) ==
  /\ Resting(c) /\ Ends(c, FALSE)
  /\ UNCHANGED <<fgen, fnode, fvalid, fwatch, fwvalid, ftab, flis, fruns, fcrate, freturns>>

StartFails(c) ==
  /\ In(c, "start", "opened") /\ Ends(c, FALSE)
  /\ fgen' = ClosedOnce(fgen, fcall[c].arg)
  /\ UNCHANGED <<fnode, fvalid, fwatch, fwvalid, ftab, flis, fruns, fcrate, freturns>>

(* NewCoreAPI fails: n.Close closes the repo in its hook, then repo.Close  *)
StartFailsLate(c) ==
  /\ In(c, "start", "opened") /\ Ends(c, FALSE)
  /\ fgen' = ClosedTwice(fgen, fcall[c].arg)
  /\ UNCHANGED <<fnode, fvalid, fwatch, fwvalid, ftab, flis, fruns, fcrate, freturns>>

Started(c) ==
  /\ In(c, "start", "opened") /\ Len(fnode) < MaxHandles
  /\ fnode' = Append(fnode, [gen |-> fcall[c].arg, closes |-> 0, cur |-> 0, conf |-> FALSE])
  /\ fvalid' = fvalid \cup {Len(fnode) + 1}
  /\ Ends(c, TRUE)
  /\ UNCHANGED <<fgen, fwatch, fwvalid, ftab, flis, fruns, fcrate, freturns>>

(* a lookup under the table's lock; the handle is only used after it       *)
Found(c, op, h) ==
  /\ Resting(c) /\ h \in DOMAIN fnode
  /\ IF h \in fvalid THEN Enters(c, op, h, "found") /\ UNCHANGED flast ELSE Ends(c, FALSE)
  /\ UNCHANGED <<fgen, fnode, fwatch, fwvalid, ftab, flis, fruns, fcrate, freturns>>

\* Mutant: the handle stays in the table until the node has stopped.
TakeLater(c, h) == Found(c, "stop", h) /\ UNCHANGED fvalid

(* stop takes the handle out of the table in the lookup's critical section *)
Take(c, h) == Found(c, "stop", h) /\ fvalid' = fvalid \ {h}

(* the listener last started, then the node, whose hook closes the repo    *)
Stops(c) ==
  /\ In(c, "stop", "found") /\ fvalid' = fvalid \ {fcall[c].arg}
  /\ LET h == fcall[c].arg IN
       /\ fnode' = [fnode EXCEPT ![h].closes = @ + 1]
       /\ fgen' = IF fnode[h].closes = 0 THEN ClosedOnce(fgen, fnode[h].gen) ELSE fgen
       /\ flis' = [l \in DOMAIN flis |-> IF l = fnode[h].cur THEN [flis[l] EXCEPT !.at = "closed"] ELSE flis[l]]
  /\ \E ok \in BOOLEAN : Ends(c, ok)
  /\ UNCHANGED <<fwatch, fwvalid, ftab, fruns, fcrate, freturns>>

----------------------------------------------------------------------------
(* the HTTP servers of a node                                              *)

(* set_auth_token, add_static and add_crate_redirect change the handle     *)
Configures(c) ==
  /\ In(c, "set", "found") /\ Ends(c, TRUE)
  /\ fnode' = [fnode EXCEPT ![fcall[c].arg].conf = TRUE]
  /\ UNCHANGED <<fgen, fvalid, fwatch, fwvalid, ftab, flis, fruns, fcrate, freturns>>

(* start_api and start_gateway: the listener replaces the handle's, and a  *)
(* goroutine serves it; conf: a token was set when the call listened       *)
Serves(c) ==
  /\ In(c, "serve", "found") /\ Len(flis) < MaxServes
  /\ \/ /\ \E k \in {"api", "gateway"} :
             flis' = Append(flis, [node |-> fcall[c].arg, kind |-> k, conf |-> fnode[fcall[c].arg].conf,
                                   at |-> "listening", auth |-> FALSE])
        /\ fnode' = [fnode EXCEPT ![fcall[c].arg].cur = Len(flis) + 1]
        /\ Ends(c, TRUE)
     \/ Ends(c, FALSE) /\ UNCHANGED <<flis, fnode>>
  /\ UNCHANGED <<fgen, fvalid, fwatch, fwvalid, ftab, fruns, fcrate, freturns>>

(* the goroutine reads the token when it makes the handler; only the       *)
(* gateway has one.  A handler that cannot be made sets the last error.    *)
Guarded(l) == flis[l].kind = "gateway" /\ fnode[flis[l].node].conf
HandlerMade(l) ==
  /\ flis[l].at = "listening"
  /\ \/ flis' = [flis EXCEPT ![l].at = "serving", ![l].auth = Guarded(l)] /\ UNCHANGED flast
     \/ flis' = [flis EXCEPT ![l].at = "idle"] /\ flast' = "server"
  /\ UNCHANGED <<fgen, fnode, fvalid, fwatch, fwvalid, ftab, fcall, fruns, fcrate, freturns>>

(* GET /crates/...: with a CID in the index the file is fetched on a miss, *)
(* kept when it matches the index's checksum, if that has one, and the     *)
(* client is redirected; the file on disk is served only without a CID     *)
IndexEntries == [cid : BOOLEAN, cksum : BOOLEAN]
Keeps(e, matches) == ~e.cksum \/ matches
CrateAsked(x, e, matches) ==
  /\ \E l \in DOMAIN flis : flis[l].kind = "gateway" /\ flis[l].at = "serving"
  /\ e.cid /\ fcrate[x] = "none" /\ Keeps(e, matches)
  /\ fcrate' = [fcrate EXCEPT ![x] = IF matches THEN "good" ELSE IF e.cksum THEN "bad" ELSE "unknown"]
  /\ UNCHANGED <<fgen, fnode, fvalid, fwatch, fwvalid, ftab, flis, fcall, fruns, flast, freturns>>

----------------------------------------------------------------------------
(* a call on a node: it fails after a stop; forgets: it may leave the last *)
(* error alone when it succeeds                                            *)
Used(c, forgets) ==
  /\ In(c, "use", "found")
  /\ \/ fnode[fcall[c].arg].closes = 0 /\ Ends(c, TRUE)
     \/ forgets /\ fnode[fcall[c].arg].closes = 0 /\ UNCHANGED flast
        /\ fcall' = [fcall EXCEPT ![c] = [op |-> "ended", arg |-> 0, at |-> "none", ok |-> TRUE]]
     \/ Ends(c, FALSE)
  /\ UNCHANGED <<fgen, fnode, fvalid, fwatch, fwvalid, ftab, flis, fruns, fcrate, freturns>>

NodeAsked(c) == Used(c, TRUE)     \* addresses, peers, id, connect; peer_id forgets
BytesAdded(c) == Used(c, FALSE)
BytesRead(c) == Used(c, TRUE)     \* cat of an empty file forgets
BlockCall(c) == Used(c, TRUE)     \* put, get, stat; get of an empty block forgets
RunsOnNode(c) == Used(c, FALSE)
Uses(c) == NodeAsked(c) \/ BytesAdded(c) \/ BytesRead(c) \/ BlockCall(c) \/ RunsOnNode(c)

(* kubo_run_command: its own node on the repo, which nothing closes        *)
Runs(c, r) ==
  /\ Resting(c) /\ Len(fruns) < MaxOthers /\ (ActiveGen(r) # {} \/ Len(fgen) < MaxHandles)
  /\ fgen' = Opened(r) /\ fruns' = Append(fruns, OpenedGen(r))
  /\ \E ok \in BOOLEAN : Ends(c, ok)
  /\ UNCHANGED <<fnode, fvalid, fwatch, fwvalid, ftab, flis, fcrate, freturns>>

----------------------------------------------------------------------------
(* kubo_watch_path and kubo_watch_stop                                     *)

WatchOpens(c, r) ==
  /\ Resting(c) /\ Len(fwatch) < MaxOthers /\ (ActiveGen(r) # {} \/ Len(fgen) < MaxHandles)
  /\ fgen' = Opened(r) /\ Enters(c, "watch", OpenedGen(r), "opened")
  /\ UNCHANGED <<fnode, fvalid, fwatch, fwvalid, ftab, flis, fruns, flast, fcrate, freturns>>

(* NewNode fails: one Close; after it every failure closes node and repo   *)
WatchFails(c) ==
  /\ In(c, "watch", "opened") /\ Ends(c, FALSE)
  /\ fgen' \in {ClosedOnce(fgen, fcall[c].arg), ClosedTwice(fgen, fcall[c].arg)}
  /\ UNCHANGED <<fnode, fvalid, fwatch, fwvalid, ftab, flis, fruns, fcrate, freturns>>

Watches(c) ==
  /\ In(c, "watch", "opened") /\ Len(fwatch) < MaxOthers /\ Ends(c, TRUE)
  /\ fwatch' = Append(fwatch, [gen |-> fcall[c].arg, at |-> "loop"])
  /\ fwvalid' = fwvalid \cup {Len(fwatch) + 1}
  /\ UNCHANGED <<fgen, fnode, fvalid, ftab, flis, fruns, fcrate, freturns>>

(* an event's goroutine adds the file and clears the last error            *)
WatchAdds(w) ==
  /\ fwatch[w].at \in {"loop", "cancelled", "done"} /\ flast' = NoOne
  /\ UNCHANGED <<fgen, fnode, fvalid, fwatch, fwvalid, ftab, flis, fcall, fruns, fcrate, freturns>>

Unwatch(c, w) ==
  /\ Resting(c)
  /\ IF w \in fwvalid THEN /\ fwvalid' = fwvalid \ {w} /\ Enters(c, "unwatch", w, "found")
                           /\ fwatch' = [fwatch EXCEPT ![w].at = "cancelled"] /\ UNCHANGED flast
     ELSE Ends(c, FALSE) /\ UNCHANGED <<fwvalid, fwatch>>
  /\ UNCHANGED <<fgen, fnode, fvalid, ftab, flis, fruns, fcrate, freturns>>

(* the loop returns: r.Close, node.Close, watcher.Close, done              *)
WatchEnds(w) ==
  /\ fwatch[w].at = "cancelled"
  /\ fwatch' = [fwatch EXCEPT ![w].at = "done"] /\ fgen' = ClosedTwice(fgen, fwatch[w].gen)
  /\ UNCHANGED <<fnode, fvalid, fwvalid, ftab, flis, fcall, fruns, flast, fcrate, freturns>>

Unwatched(c) ==
  /\ In(c, "unwatch", "found") /\ fwatch[fcall[c].arg].at = "done" /\ Ends(c, TRUE)
  /\ UNCHANGED <<fgen, fnode, fvalid, fwatch, fwvalid, ftab, flis, fruns, fcrate, freturns>>

----------------------------------------------------------------------------
(* the plain tables: a constructor, calls that look the handle up, and a   *)
(* close that takes it out in the lookup's critical section                *)

TableNew(c, k) ==
  /\ Resting(c) /\ ftab[k].next <= MaxOthers
  /\ \/ /\ ftab' = [ftab EXCEPT ![k] = [next |-> @.next + 1, live |-> @.live \cup {@.next},
                                        closes |-> Append(@.closes, 0)]]
        /\ Ends(c, TRUE)
     \/ Ends(c, FALSE) /\ UNCHANGED ftab
  /\ UNCHANGED <<fgen, fnode, fvalid, fwatch, fwvalid, flis, fruns, fcrate, freturns>>

TableUse(c, k, h) ==
  /\ Resting(c) /\ h < ftab[k].next
  /\ \/ h \in ftab[k].live /\ Ends(c, TRUE)
     \/ Ends(c, FALSE)
  /\ UNCHANGED <<fgen, fnode, fvalid, fwatch, fwvalid, ftab, flis, fruns, fcrate, freturns>>

TableClose(c, k, h) ==
  /\ Resting(c) /\ h < ftab[k].next
  /\ IF h \in ftab[k].live
     THEN /\ ftab' = [ftab EXCEPT ![k].live = @ \ {h}, ![k].closes[h] = @ + 1]
          /\ \E ok \in BOOLEAN : Ends(c, ok)
     ELSE Ends(c, FALSE) /\ UNCHANGED ftab
  /\ UNCHANGED <<fgen, fnode, fvalid, fwatch, fwvalid, flis, fruns, fcrate, freturns>>

HostNew(c) == TableNew(c, "host")
HostCall(c, h) == TableUse(c, "host", h)
HostClose(c, h) == TableClose(c, "host", h)
GitOpen(c) == TableNew(c, "git")
GitCall(c, h) == TableUse(c, "git", h)
GitFree(c, h) == TableClose(c, "git", h)
RelayConnect(c) == TableNew(c, "relay")
RelayPublish(c, h) == TableUse(c, "relay", h)
RelayClose(c, h) == TableClose(c, "relay", h)

(* a subscription outlives its relay's handle; drain of one whose relay is *)
(* closed returns nothing and no error                                     *)
RelaySubscribe(c, h) == h \in ftab["relay"].live /\ TableNew(c, "sub")
RelayDrain(c, h) == TableUse(c, "sub", h)
RelayUnsubscribe(c, h) == TableClose(c, "sub", h)

(* exports without a handle                                                *)
PlainCall(c) ==
  /\ Resting(c) /\ \E ok \in BOOLEAN : Ends(c, ok)
  /\ UNCHANGED <<fgen, fnode, fvalid, fwatch, fwvalid, ftab, flis, fruns, fcrate, freturns>>
InitRepo(c) == PlainCall(c)
NostrCall(c) == PlainCall(c)
GitByPath(c) == PlainCall(c)

TableCalls(c) ==
  \/ HostNew(c) \/ GitOpen(c) \/ RelayConnect(c) \/ InitRepo(c) \/ NostrCall(c) \/ GitByPath(c)
  \/ \E h \in 1 .. MaxOthers :
       \/ HostCall(c, h) \/ HostClose(c, h) \/ GitCall(c, h) \/ GitFree(c, h) \/ RelayPublish(c, h)
       \/ RelayClose(c, h) \/ RelaySubscribe(c, h) \/ RelayDrain(c, h) \/ RelayUnsubscribe(c, h)

(* kubo_ffi_last_error after a call that failed                            *)
ReadError(c) ==
  /\ fcall[c].op = "ended" /\ freturns' = freturns + 1
  /\ fcall' = [fcall EXCEPT ![c] = AtRest]
  /\ UNCHANGED <<fgen, fnode, fvalid, fwatch, fwvalid, ftab, flis, fruns, flast, fcrate>>

BindingsNext ==
  \/ \E c \in Callers :
       \/ \E r \in FRepos : StartOpens(c, r) \/ WatchOpens(c, r) \/ Runs(c, r)
       \/ StartRefused(c) \/ StartFails(c) \/ StartFailsLate(c) \/ Started(c) \/ Stops(c)
       \/ \E h \in DOMAIN fnode : Take(c, h) \/ \E op \in {"set", "serve", "use"} : Found(c, op, h) /\ UNCHANGED fvalid
       \/ Configures(c) \/ Serves(c) \/ Uses(c) \/ WatchFails(c) \/ Watches(c) \/ Unwatched(c)
       \/ \E w \in DOMAIN fwatch : Unwatch(c, w)
       \/ TableCalls(c)
       \/ ReadError(c)
  \/ \E l \in DOMAIN flis : HandlerMade(l)
  \/ \E w \in DOMAIN fwatch : WatchAdds(w) \/ WatchEnds(w)
  \/ \E x \in Crates, e \in IndexEntries, matches \in BOOLEAN : CrateAsked(x, e, matches)

BindingsSpec == BindingsInit /\ [][BindingsNext]_fvars

----------------------------------------------------------------------------

(* However many threads stop or close a handle, the node or object behind  *)
(* it is closed once: every other thread gets "invalid handle".            *)
StoppedOnce ==
  /\ \A h \in DOMAIN fnode : fnode[h].closes <= 1
  /\ \A k \in Tables : \A h \in DOMAIN ftab[k].closes : ftab[k].closes[h] <= 1

(* A running node's repo is open, however many nodes, watchers and command *)
(* runs share it: until one of them closed its one reference twice.        *)
RepoKept ==
  \A h \in DOMAIN fnode : fnode[h].closes = 0 /\ ~fgen[fnode[h].gen].twice => fgen[fnode[h].gen].open

(* When the last node and watcher of a repo is gone and no call is under   *)
(* way the repo is closed, and with it the lock that keeps other processes *)
(* out, unless kubo_run_command has left a node of its own on it.          *)
RepoReleased ==
  \A g \in DOMAIN fgen :
    /\ \A c \in Callers : fcall[c].op \in {"idle", "ended"}
    /\ \A h \in DOMAIN fnode : fnode[h].gen = g => fnode[h].closes > 0
    /\ \A w \in DOMAIN fwatch : fwatch[w].gen = g => fwatch[w].at = "done"
    /\ \A i \in DOMAIN fruns : fruns[i] # g
    => ~fgen[g].open

(* A gateway started after a token was set never serves without asking for *)
(* one, whatever other calls run before its goroutine makes the handler.   *)
GatewayGuarded ==
  \A l \in DOMAIN flis :
    flis[l].kind = "gateway" /\ flis[l].at = "serving" /\ flis[l].conf => flis[l].auth

(* A crate file whose checksum the index knows is never kept unless it     *)
(* matches, so a later request without a CID never serves a wrong file.    *)
CrateVerified == \A x \in Crates : fcrate[x] # "bad"

\* However threads share handles, each is closed once, a repo is open as long as
\* something runs on it and closed after, and what is served was checked.
BindingsSafe == StoppedOnce /\ RepoKept /\ RepoReleased /\ GatewayGuarded /\ CrateVerified
=============================================================================
