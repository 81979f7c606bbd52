----------------------------- MODULE MCNetwork -----------------------------
(* What the node does on the network, small instances side by side: `part`    *)
(* says which component this behaviour is about, and the others stand still.  *)
EXTENDS Routing, P2PStreams, P2PCmds, Swarm, RemotePins

VARIABLE part

\* Delegated routing endpoints; one origin is known to serve providers only.
MCEndpoints == [origin : {"x", "cid.contact"}, path : {"", "providers", "ipns", "bad"}]

\* Two forwards of one local address, two listeners of one protocol, and one
\* connection through each kind, to and from the same peer.
MCKey == [l \in Listeners |-> IF l \in Locals THEN "addr" ELSE "proto"]
MCListenerOf == [c \in Conns |-> IF c \in Outs THEN "addr" ELSE "proto"]
MCPeerOf == [c \in Conns |-> "peer"]

\* Address filters: a and a' are two writings of one mask, j is none.
MCFilterArgs == {<<"a">>, <<"a'">>, <<"a", "a">>, <<"a", "j">>, <<"a'", "b">>}

\* Addresses.Announce and AppendAnnounce.
MCAnnLists == {<<>>, <<"a">>, <<"b">>, <<"a", "b">>, <<"", "b">>}

\* A remote pinning service: its policy may change its name, or be taken away.
Off == [mfs |-> FALSE, name |-> "mfs"]
On == [mfs |-> TRUE, name |-> "mfs"]
MCSvcConfigs == {On, [mfs |-> TRUE, name |-> "other"]}
MCInitConfigs == {On, NoConfig}
MCFilter == [x \in Removals |->
  [name |-> "any", statuses |-> {"pinned"}, force |-> FALSE, svc |-> "s1"]]

-----------------------------------------------------------------------------
Dht == <<rcvars, rask>>
P2P == <<streamvars, pcmdvars, faddr>>
Swarm == <<dialvars, filtervars, monvars, aask>>
vars == <<Dht, P2P, Swarm, remoteVars, part>>

Parts == {"rec", "query", "purge", "feed", "routing",
          "streams", "p2p", "addr", "dial", "filter", "monitor", "announce", "remote"}

Init ==
  /\ part \in Parts
  /\ RecInit /\ QueryInit /\ (part # "query" => rq.cmd = "findpeer") /\ PurgeInit /\ FeedInit
  /\ rask = RNothing
  /\ StreamsInit /\ PCmdInit /\ faddr = [topic |-> "none"]
  /\ DialInit
  /\ part # "dial" => sdial.op = "connect" /\ \A a \in ArgIds : sdial.kinds[a] = "peer"
  /\ FilterInit /\ (part # "filter" => fdisk = <<>>)
  /\ MonInit
  /\ part # "monitor" => aaddrs = {} /\ amon.rules = {} /\ \A a \in amon.swarm : a[1] = AnyIp
  /\ aask = [topic |-> "none"]
  /\ RemoteInit /\ (part # "remote" => \A s \in PinServices : services[s] = NoConfig)

DhtPart ==
  \/ part = "rec" /\ RecNext /\ UNCHANGED <<rq, rp, rf, rask>>
  \/ part = "query" /\ QueryNext /\ UNCHANGED <<rk, rp, rf, rask>>
  \/ part = "purge" /\ PurgeNext /\ UNCHANGED <<rk, rq, rf, rask>>
  \/ part = "feed" /\ FeedNext /\ UNCHANGED <<rk, rq, rp, rask>>
  \/ part = "routing" /\ rask.topic = "none" /\ AsksRouting /\ UNCHANGED rcvars

\* Of the two connections and the two listeners that are rivals for a key, two
\* take part in a behaviour.
AnyTwo == Cardinality({l \in {"l2", "r2"} : lpc'[l] # "new"} \cup {c \in Conns : cpc'[c] # "new"}) <= 2

P2PPart ==
  \/ part = "streams" /\ StreamsNext /\ AnyTwo /\ UNCHANGED <<pcmdvars, faddr>>
  \/ part = "p2p" /\ PCmdNext /\ UNCHANGED <<streamvars, faddr>>
  \/ part = "addr" /\ faddr.topic = "none" /\ AsksAddr /\ UNCHANGED <<streamvars, pcmdvars>>

SwarmPart ==
  \/ part = "dial" /\ DialNext /\ UNCHANGED <<filtervars, monvars, aask>>
  \/ part = "filter" /\ FilterNext /\ UNCHANGED <<dialvars, monvars, aask>>
  \/ part = "monitor" /\ MonNext /\ UNCHANGED <<dialvars, filtervars, aask>>
  \/ /\ part = "announce" /\ aask.topic = "none" /\ AsksAnnounced
     /\ UNCHANGED <<dialvars, filtervars, monvars>>

Next ==
  /\ UNCHANGED part
  /\ \/ DhtPart /\ UNCHANGED <<P2P, Swarm, remoteVars>>
     \/ P2PPart /\ UNCHANGED <<Dht, Swarm, remoteVars>>
     \/ SwarmPart /\ UNCHANGED <<Dht, P2P, remoteVars>>
     \/ part = "remote" /\ RemoteNext /\ UNCHANGED <<Dht, P2P, Swarm>>

-----------------------------------------------------------------------------
\* A goroutine that can go on goes on; a copy only has to end once an end of its
\* stream is closed.  The remote pinning loop and its goroutines run, the
\* interval passes, services settle what they were asked, and a waiting command
\* polls; a select whose timer and context are both ready does not prefer the
\* timer for ever.
Fairness ==
  /\ WF_rq(part = "query" /\ QuerySteps)
  /\ WF_rf(part = "feed" /\ (FeedEnds \/ FeedStopped))
  /\ \A c \in Conns, w \in Copiers \cup Users : WF_streamvars(part = "streams" /\ EndStep(w, c))
  /\ \A c \in Conns, w \in Copiers :
       WF_streamvars(part = "streams" /\ local[c] = "closed" /\ CopyEnds(w, c))
  /\ \A c \in PCmds : WF_pcmdvars(part = "p2p" /\ PCmdSteps(c))
  /\ WF_dialvars(part = "dial" /\ DialHandler)
  /\ \A a \in ArgIds : WF_dialvars(part = "dial" /\ ResolverSteps(a))
  /\ WF_monvars(part = "monitor" /\ MonSteps)
  /\ WF_remoteVars(part = "remote" /\ LoopStep) /\ SF_remoteVars(part = "remote" /\ LoopEnds)
  /\ \A s \in PinServices : WF_remoteVars(part = "remote" /\ IntervalPasses(s))
  /\ WF_remoteVars(part = "remote" /\ \E r \in requests : Settle(r, "pinned") \/ Settle(r, "failed"))
  /\ \A w \in Waiters : WF_remoteVars(part = "remote" /\ AddPoll(w))

Spec == Init /\ [][Next]_vars /\ Fairness

\* Nobody is left behind: a routing command and its goroutine end, also when the
\* requester leaves while the channel of events is full; stopping the node ends
\* the feeder; a stream whose ends are closed leaves the registry with all its
\* goroutines; a foreground `p2p` command ends with its requester; no goroutine
\* that resolves is left; every unreachable listener is logged; the remote
\* pinning loop ends with its context and a blocking add with its pin.
NetworkProgress ==
  /\ []<>(part = "query" => QueryEnded)
  /\ FeederEnds /\ StreamsEnd /\ ForegroundEnds /\ ResolversEnd /\ DeadLogged /\ LoopStops
=============================================================================
