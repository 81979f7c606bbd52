---------------------------- MODULE NetworkProofs ---------------------------
(***************************************************************************)
(* What the daemon does with its peers and with remote services, for any   *)
(* number of listeners, connections, peers, commands, services and         *)
(* removals: the registries of p2p listeners and streams (P2PStreams), the *)
(* commands p2p forward, listen and close that share them (P2PCmds), and   *)
(* the pins of the MFS root on remote services (RemotePins).               *)
(***************************************************************************)
EXTENDS P2PStreams, P2PCmds, RemotePins, FiniteSetTheorems, TLAPS

-----------------------------------------------------------------------------
(* Listeners and streams                                                    *)

\* From the bind to the close a local listener owns its address.
Owning == {"bound", "live", "closing"}

\* Exactly the live listeners are registered, a listener that is closing is in
\* the hands of one caller, and nobody else owns the address of an owner.
ListenerInv ==
  /\ \A l \in Listeners :
       /\ l \in registry <=> lpc[l] = "live"
       /\ todo[l] = IF lpc[l] = "closing" THEN 1 ELSE 0
       /\ done[l] = IF lpc[l] = "closed" THEN 1 ELSE 0
  /\ \A l \in Locals : lpc[l] \in Owning => Key[l] \in bound
  /\ \A l, r \in Locals :
       lpc[l] \in Owning /\ lpc[r] \in Owning /\ Key[l] = Key[r] => l = r

\* Only a stream that was set up is worked on, and whoever is about to take it
\* out of the registry has closed both its ends.
EnderInv ==
  /\ \A c \in streams : cpc[c] = "live"
  /\ \A e \in Enders :
       /\ ends[e] # "idle" => cpc[e[2]] = "live"
       /\ ends[e] = "deregister" => local[e[2]] = "closed" /\ remote[e[2]] = "closed"

P2PInv == StreamsTypeOK /\ ListenerInv /\ EnderInv /\ PeersTagged /\ EndsClosed

-----------------------------------------------------------------------------
\* The streams of one peer are finitely many.
LEMMA StreamsFinite ==
    ASSUME NEW S \in SUBSET Conns, NEW p
    PROVE  /\ IsFiniteSet({c \in S : PeerOf[c] = p})
           /\ Cardinality({c \in S : PeerOf[c] = p}) \in Nat
<1>1. {c \in S : PeerOf[c] = p} \in SUBSET Conns
  BY Zenon
<1>2. IsFiniteSet({c \in S : PeerOf[c] = p})
  BY <1>1, FS_Subset, P2PAssumption, Zenon
<1> QED BY <1>2, FS_CardinalityType, Zenon

\* Registering a stream adds one to the streams of its peer and none to others.
LEMMA StreamAdded ==
    ASSUME NEW S \in SUBSET Conns, NEW c \in Conns \ S, NEW p
    PROVE  Cardinality({d \in S \cup {c} : PeerOf[d] = p}) =
             IF p = PeerOf[c] THEN Cardinality({d \in S : PeerOf[d] = p}) + 1
                              ELSE Cardinality({d \in S : PeerOf[d] = p})
<1> DEFINE T == {d \in S : PeerOf[d] = p}
<1>1. IsFiniteSet(T) /\ c \notin T
  BY StreamsFinite, Zenon
<1>2. CASE p = PeerOf[c]
  <2>1. {d \in S \cup {c} : PeerOf[d] = p} = T \cup {c}
    BY <1>2, Zenon
  <2> QED BY <2>1, <1>1, <1>2, FS_AddElement, Zenon
<1>3. CASE p # PeerOf[c]
  <2>1. {d \in S \cup {c} : PeerOf[d] = p} = T
    BY <1>3, Zenon
  <2> QED BY <2>1, <1>3, Zenon
<1> QED BY <1>2, <1>3, Zenon

\* Taking one out takes one off.
LEMMA StreamRemoved ==
    ASSUME NEW S \in SUBSET Conns, NEW c \in S, NEW p
    PROVE  /\ Cardinality({d \in S \ {c} : PeerOf[d] = p}) =
                IF p = PeerOf[c] THEN Cardinality({d \in S : PeerOf[d] = p}) - 1
                                 ELSE Cardinality({d \in S : PeerOf[d] = p})
           /\ Cardinality({d \in S : PeerOf[d] = PeerOf[c]}) > 0
<1> DEFINE T(q) == {d \in S : PeerOf[d] = q}
<1>1. IsFiniteSet(T(p)) /\ IsFiniteSet(T(PeerOf[c])) /\ c \in T(PeerOf[c])
  BY StreamsFinite, ZenonT(60)
<1>2. CASE p = PeerOf[c]
  <2>1. {d \in S \ {c} : PeerOf[d] = p} = T(p) \ {c}
    BY <1>2, Zenon
  <2>2. Cardinality(T(p) \ {c}) = Cardinality(T(p)) - 1
    BY <1>1, <1>2, FS_RemoveElement, ZenonT(60)
  <2>3. Cardinality(T(p)) \in Nat /\ Cardinality(T(p)) # 0
    BY <1>1, <1>2, FS_EmptySet, StreamsFinite, Zenon
  <2> QED BY <2>1, <2>2, <2>3, <1>2
<1>3. CASE p # PeerOf[c]
  <2>1. {d \in S \ {c} : PeerOf[d] = p} = T(p)
    BY <1>3, Zenon
  <2>2. Cardinality(T(PeerOf[c])) \in Nat /\ Cardinality(T(PeerOf[c])) # 0
    BY <1>1, FS_EmptySet, StreamsFinite, Zenon
  <2> QED BY <2>1, <2>2, <1>3
<1> QED BY <1>2, <1>3, Zenon

-----------------------------------------------------------------------------
LEMMA InitP2PInv == StreamsInit => P2PInv
<1> SUFFICES ASSUME StreamsInit PROVE P2PInv
  BY Zenon
<1>1. StreamsTypeOK
  BY Zenon DEF StreamsInit, StreamsTypeOK
<1>2. ListenerInv
  BY Zenon DEF StreamsInit, ListenerInv, Owning, Listeners
<1>3. EnderInv /\ EndsClosed
  <2>1. \A e \in Enders : ends[e] = "idle"
    BY Zenon DEF StreamsInit
  <2> QED BY <2>1, Zenon DEF StreamsInit, EnderInv, EndsClosed
<1>4. PeersTagged
  <2>1. ASSUME NEW p PROVE {c \in streams : PeerOf[c] = p} = {}
    BY Zenon DEF StreamsInit
  <2>2. ASSUME NEW p \in Peers PROVE conns[p] = 0
    BY Zenon DEF StreamsInit
  <2> QED BY <2>1, <2>2, FS_EmptySet DEF StreamsInit, PeersTagged
<1> QED BY <1>1, <1>2, <1>3, <1>4, Zenon DEF P2PInv

-----------------------------------------------------------------------------
\* A step that leaves the registry of streams alone keeps its counts.
LEMMA TagsKept ==
    ASSUME PeersTagged, UNCHANGED <<streams, conns, tagged>>
    PROVE  PeersTagged'
BY Zenon DEF PeersTagged, Peers, Conns

\* Listeners: one command binds, registers, closes at a time.
LEMMA ListenerStep ==
    ASSUME P2PInv,
           \/ \E l \in Listeners : Listen(l) \/ Register(l) \/ CloseListener(l)
           \/ \E S \in SUBSET registry : CloseMatching(S)
    PROVE  P2PInv'
<1> USE DEF P2PInv
<1>1. UNCHANGED <<cpc, local, remote, streams, conns, tagged, ends>>
  BY Zenon DEF Listen, Register, CloseListener, CloseMatching, regvars
<1>2. EnderInv' /\ EndsClosed'
  BY <1>1, Zenon DEF EnderInv, EndsClosed
<1>3. PeersTagged'
  BY <1>1, TagsKept, Zenon
<1>4. StreamsTypeOK' /\ ListenerInv'
  <2>1. ASSUME NEW l \in Listeners, Listen(l) PROVE StreamsTypeOK' /\ ListenerInv'
    <3>1. StreamsTypeOK'
      BY <1>1, <2>1 DEF Listen, StreamsTypeOK, Listeners
    <3> QED BY <2>1, <3>1 DEF Listen, ListenerInv, StreamsTypeOK, Owning, Listeners
  <2>2. ASSUME NEW l \in Listeners, Register(l) PROVE StreamsTypeOK' /\ ListenerInv'
    <3>1. StreamsTypeOK'
      BY <1>1, <2>2 DEF Register, StreamsTypeOK
    <3> QED BY <2>2, <3>1, P2PAssumption, SMTT(60) DEF Register, ListenerInv, StreamsTypeOK, Owning, Listeners
  <2>3. ASSUME NEW l \in Listeners, CloseListener(l) PROVE StreamsTypeOK' /\ ListenerInv'
    <3>1. StreamsTypeOK'
      BY <1>1, <2>3 DEF CloseListener, StreamsTypeOK
    <3> QED BY <2>3, <3>1, P2PAssumption, SMTT(60) DEF CloseListener, ListenerInv, StreamsTypeOK, Owning, Listeners
  <2>4. ASSUME NEW S \in SUBSET registry, CloseMatching(S) PROVE StreamsTypeOK' /\ ListenerInv'
    <3>1. StreamsTypeOK'
      BY <1>1, <2>4, SMTT(60) DEF CloseMatching, StreamsTypeOK
    <3> QED BY <2>4, <3>1 DEF CloseMatching, ListenerInv, StreamsTypeOK, Owning, Listeners
  <2> QED BY <2>1, <2>2, <2>3, <2>4, Zenon
<1> QED BY <1>2, <1>3, <1>4, Zenon

\* Setting up a connection: nobody works on it before it is registered.
LEMMA SetupStep ==
    ASSUME P2PInv, NEW c \in Conns, NEW pc, NEW l, NEW r, Set(c, pc, l, r), cpc[c] # "live",
           pc \in {"dial", "matched", "handle", "ready", "refused", "dropped", "unreported"},
           l \in {"none", "open", "closed"}, r \in {"none", "open", "closed"},
           pc = "refused" => l # "open" /\ r # "open"
    PROVE  P2PInv'
<1> USE DEF P2PInv
<1>1. UNCHANGED <<lpc, bound, registry, done, todo, streams, conns, tagged, ends>>
  BY Zenon DEF Set, lvars, regvars
<1>2. ListenerInv'
  BY <1>1, Zenon DEF ListenerInv
<1>3. PeersTagged'
  BY <1>1, TagsKept, Zenon
<1>4. StreamsTypeOK'
  BY <1>1 DEF Set, StreamsTypeOK
<1>5. EnderInv'
  <2>1. \A e \in Enders : e[2] \in Conns
    BY Zenon DEF Enders
  <2> QED BY <1>1, <2>1 DEF Set, EnderInv, StreamsTypeOK
<1>6. EndsClosed'
  BY <1>1, Zenon DEF Set, EndsClosed, StreamsTypeOK
<1> QED BY <1>2, <1>3, <1>4, <1>5, <1>6, Zenon

\* StreamRegistry.Register counts a stream that nobody has worked on yet.
LEMMA RegisterStreamStep ==
    ASSUME P2PInv, NEW c \in Conns, RegisterStream(c)
    PROVE  P2PInv'
<1> USE DEF P2PInv
<1>1. UNCHANGED <<lpc, bound, registry, done, todo, local, remote>>
  BY Zenon DEF RegisterStream, lvars
<1>2. ListenerInv'
  BY <1>1, Zenon DEF ListenerInv
<1>3. PeerOf[c] \in Peers /\ c \notin streams
  BY Zenon DEF RegisterStream, EnderInv, Peers
<1>4. StreamsTypeOK'
  BY <1>1, <1>3 DEF RegisterStream, StreamsTypeOK
<1>5. EnderInv'
  <2>1. \A d \in streams' : cpc'[d] = "live"
    BY ZenonT(60) DEF RegisterStream, EnderInv, StreamsTypeOK
  <2>2. ASSUME NEW e \in Enders
        PROVE  /\ ends'[e] # "idle" => cpc'[e[2]] = "live"
               /\ ends'[e] = "deregister" => local'[e[2]] = "closed" /\ remote'[e[2]] = "closed"
    <3>1. e[2] \in Conns
      BY Zenon DEF Enders
    <3>2. ends'[e] = IF e[2] = c /\ e[1] \in Copiers THEN "copy" ELSE ends[e]
      BY Zenon DEF RegisterStream
    <3>3. cpc'[e[2]] = IF e[2] = c THEN "live" ELSE cpc[e[2]]
      BY <3>1, Zenon DEF RegisterStream, StreamsTypeOK
    <3> QED BY <1>1, <3>1, <3>2, <3>3, Zenon DEF EnderInv
  <2> QED BY <2>1, <2>2, Zenon DEF EnderInv
<1>6. PeersTagged'
  <2>1. ASSUME NEW p \in Peers
        PROVE  /\ conns'[p] = Cardinality({d \in streams' : PeerOf[d] = p})
               /\ p \in tagged' <=> conns'[p] > 0
    <3>1. conns'[p] = IF p = PeerOf[c] THEN conns[p] + 1 ELSE conns[p]
      BY <1>3, Zenon DEF RegisterStream, StreamsTypeOK
    <3>2. conns[p] = Cardinality({d \in streams : PeerOf[d] = p}) /\ conns[p] \in Nat
      BY Zenon DEF PeersTagged, StreamsTypeOK
    <3>3. p \in tagged <=> conns[p] > 0
      BY Zenon DEF PeersTagged
    <3>4. streams' = streams \cup {c} /\ tagged' = tagged \cup {PeerOf[c]}
      BY Zenon DEF RegisterStream
    <3>5. streams \in SUBSET Conns /\ c \in Conns \ streams
      BY <1>3, Zenon DEF StreamsTypeOK
    <3>6. Cardinality({d \in streams \cup {c} : PeerOf[d] = p}) =
            IF p = PeerOf[c] THEN Cardinality({d \in streams : PeerOf[d] = p}) + 1
                             ELSE Cardinality({d \in streams : PeerOf[d] = p})
      BY <3>5, StreamAdded, ZenonT(60)
    <3>7. conns'[p] = Cardinality({d \in streams' : PeerOf[d] = p})
      BY <3>1, <3>2, <3>4, <3>6, Zenon
    <3> QED BY <3>1, <3>2, <3>3, <3>4, <3>7
  <2>2. tagged' = {p \in Peers : conns'[p] > 0}
    BY <2>1, <1>4, ZenonT(60) DEF StreamsTypeOK
  <2> QED BY <2>1, <2>2, ZenonT(60) DEF PeersTagged, Peers, Conns
<1>7. EndsClosed'
  BY <1>1, Zenon DEF RegisterStream, EndsClosed, StreamsTypeOK
<1> QED BY <1>2, <1>4, <1>5, <1>6, <1>7, Zenon

\* Closing the two ends of a live stream, once or again.
LEMMA CloseEndsStep ==
    ASSUME P2PInv, NEW e \in Enders, ends[e] # "idle", CloseEnds(e[1], e[2])
    PROVE  P2PInv'
<1> USE DEF P2PInv
<1>1. UNCHANGED <<lpc, bound, registry, done, todo, cpc, streams, conns, tagged>>
  BY Zenon DEF CloseEnds, lvars
<1>2. ListenerInv'
  BY <1>1, Zenon DEF ListenerInv
<1>3. PeersTagged'
  BY <1>1, TagsKept, Zenon
<1>4. e[2] \in Conns /\ e = <<e[1], e[2]>>
  BY DEF Enders
<1>5. StreamsTypeOK'
  BY <1>1, <1>4, ZenonT(60) DEF CloseEnds, StreamsTypeOK
<1>6. EnderInv'
  <2>1. ASSUME NEW f \in Enders
        PROVE  /\ ends'[f] # "idle" => cpc'[f[2]] = "live"
               /\ ends'[f] = "deregister" => local'[f[2]] = "closed" /\ remote'[f[2]] = "closed"
    <3>1. f[2] \in Conns
      BY Zenon DEF Enders
    <3>2. ends'[f] = IF f = e THEN "deregister" ELSE ends[f]
      BY <1>4, Zenon DEF CloseEnds, StreamsTypeOK
    <3>3. /\ local'[f[2]] = IF f[2] = e[2] THEN "closed" ELSE local[f[2]]
          /\ remote'[f[2]] = IF f[2] = e[2] THEN "closed" ELSE remote[f[2]]
      BY <3>1, ZenonT(60) DEF CloseEnds, StreamsTypeOK
    <3> QED BY <1>1, <3>1, <3>2, <3>3, Zenon DEF EnderInv
  <2> QED BY <2>1, <1>1, Zenon DEF EnderInv
<1>7. EndsClosed'
  BY <1>1, <1>4, Zenon DEF CloseEnds, EndsClosed, StreamsTypeOK
<1> QED BY <1>2, <1>3, <1>5, <1>6, <1>7, Zenon

\* `ipfs p2p stream close` picks a registered stream.
LEMMA StreamCloseStep ==
    ASSUME P2PInv, NEW u \in Users, NEW c \in Conns, StreamClose(u, c)
    PROVE  P2PInv'
<1> USE DEF P2PInv
<1>1. UNCHANGED <<lpc, bound, registry, done, todo, cpc, local, remote, streams, conns, tagged>>
  BY Zenon DEF StreamClose, lvars
<1>2. ListenerInv' /\ EndsClosed'
  BY <1>1, Zenon DEF ListenerInv, EndsClosed
<1>3. PeersTagged'
  BY <1>1, TagsKept, Zenon
<1>4. <<u, c>> \in Enders
  BY Zenon DEF Enders
<1>5. StreamsTypeOK'
  BY <1>1, <1>4 DEF StreamClose, StreamsTypeOK
<1>6. EnderInv'
  <2>1. ASSUME NEW f \in Enders
        PROVE  ends'[f] = IF f = <<u, c>> THEN "reset" ELSE ends[f]
    BY Zenon DEF StreamClose, StreamsTypeOK
  <2> QED BY <1>1, <1>4, <2>1 DEF EnderInv, StreamClose
<1> QED BY <1>2, <1>3, <1>5, <1>6, Zenon

\* Deregister: whoever comes first uncounts the stream, its ends are closed.
LEMMA DeregisterStep ==
    ASSUME P2PInv, NEW e \in Enders, Deregister(e[1], e[2])
    PROVE  P2PInv'
<1> USE DEF P2PInv
<1> DEFINE c == e[2]
<1>1. UNCHANGED <<lpc, bound, registry, done, todo, cpc, local, remote>>
  BY Zenon DEF Deregister, lvars
<1>2. ListenerInv'
  BY <1>1, Zenon DEF ListenerInv
<1>3. c \in Conns /\ PeerOf[c] \in Peers /\ e = <<e[1], c>>
  BY DEF Enders, Peers
<1>4. ends[e] = "deregister" /\ ends' = [ends EXCEPT ![e] = "idle"]
  BY <1>3, ZenonT(60) DEF Deregister
<1>5. streams' = streams \ {c}
  BY Zenon DEF Deregister
<1>6. EnderInv'
  BY <1>1, <1>4, <1>5, Zenon DEF EnderInv, StreamsTypeOK
<1>7. EndsClosed'
  BY <1>1, <1>4, <1>5, Zenon DEF EndsClosed, EnderInv
<1>8. StreamsTypeOK' /\ PeersTagged'
  <2>1. CASE c \notin streams
    <3>1. UNCHANGED <<streams, conns, tagged>>
      BY <2>1, ZenonT(60) DEF Deregister
    <3> QED BY <1>1, <1>4, <3>1, TagsKept, ZenonT(60) DEF StreamsTypeOK
  <2>2. CASE c \in streams
    <3>1. Uncount(PeerOf[c])
      BY <2>2, Zenon DEF Deregister
    <3>2. StreamsTypeOK'
      BY <1>1, <1>3, <1>4, <1>5, <3>1 DEF Uncount, StreamsTypeOK
    <3>3. ASSUME NEW p \in Peers
          PROVE  /\ conns'[p] = Cardinality({d \in streams' : PeerOf[d] = p})
                 /\ p \in tagged' <=> conns'[p] > 0
      <4>1. conns[p] = Cardinality({d \in streams : PeerOf[d] = p}) /\ conns[p] \in Nat
        BY Zenon DEF PeersTagged, StreamsTypeOK
      <4>2. conns[PeerOf[c]] = Cardinality({d \in streams : PeerOf[d] = PeerOf[c]})
        BY <1>3, Zenon DEF PeersTagged
      <4>a. streams \in SUBSET Conns
        BY Zenon DEF StreamsTypeOK
      <4>b. /\ Cardinality({d \in streams \ {c} : PeerOf[d] = p}) =
                 IF p = PeerOf[c] THEN Cardinality({d \in streams : PeerOf[d] = p}) - 1
                                  ELSE Cardinality({d \in streams : PeerOf[d] = p})
            /\ Cardinality({d \in streams : PeerOf[d] = PeerOf[c]}) > 0
        BY <2>2, <4>a, StreamRemoved, ZenonT(60)
      <4>3. conns[PeerOf[c]] \in Nat /\ conns[PeerOf[c]] > 0
        BY <1>3, <4>2, <4>b, Zenon DEF StreamsTypeOK
      <4>4. conns'[p] = IF p = PeerOf[c] THEN conns[p] - 1 ELSE conns[p]
        BY <1>3, <3>1, <4>3, Zenon DEF Uncount, StreamsTypeOK
      <4>5. Cardinality({d \in streams' : PeerOf[d] = p}) = conns'[p]
        BY <1>5, <4>1, <4>4, <4>b, Zenon
      <4>6. p \in tagged <=> conns[p] > 0
        BY Zenon DEF PeersTagged
      <4>7. tagged' = IF conns[PeerOf[c]] <= 1 THEN tagged \ {PeerOf[c]} ELSE tagged
        BY <3>1, Zenon DEF Uncount
      <4> QED BY <4>1, <4>3, <4>4, <4>5, <4>6, <4>7
    <3>4. tagged' = {p \in Peers : conns'[p] > 0}
      BY <3>2, <3>3, ZenonT(60) DEF StreamsTypeOK
    <3> QED BY <3>2, <3>3, <3>4, ZenonT(60) DEF PeersTagged, Peers, Conns
  <2> QED BY <2>1, <2>2, Zenon
<1> QED BY <1>2, <1>6, <1>7, <1>8, Zenon

-----------------------------------------------------------------------------
LEMMA P2PInvInductive == P2PInv /\ [StreamsNext]_streamvars => P2PInv'
<1> SUFFICES ASSUME P2PInv, [StreamsNext]_streamvars PROVE P2PInv'
  BY Zenon
<1>1. CASE \E l \in Listeners : Listen(l) \/ Register(l) \/ CloseListener(l)
  BY <1>1, ListenerStep, Zenon
<1>2. CASE \E S \in SUBSET registry : CloseMatching(S)
  BY <1>2, ListenerStep, Zenon
<1>3. ASSUME NEW c \in Conns, Setup(c) PROVE P2PInv'
  <2>1. CASE Accept(c)
    BY <2>1, SetupStep, Zenon DEF Accept
  <2>2. CASE SetupLocal(c)
    BY <2>2, SetupStep, Zenon DEF SetupLocal
  <2>3. CASE Match(c)
    BY <2>3, SetupStep, Zenon DEF Match
  <2>4. CASE Handle(c)
    <3> DEFINE found == \E l \in registry : Key[l] = ListenerOf[c] /\ l \in Remotes
    <3>1. Set(c, IF found THEN "handle" ELSE "dropped", "none", "open") /\ cpc[c] = "matched"
      BY <2>4, Zenon DEF Handle
    <3>2. CASE found
      BY <3>1, <3>2, SetupStep, Zenon
    <3>3. CASE ~found
      BY <3>1, <3>3, SetupStep, Zenon
    <3> QED BY <3>2, <3>3, Zenon
  <2>5. CASE SetupRemote(c)
    BY <2>5, SetupStep, Zenon DEF SetupRemote
  <2>6. CASE RegisterStream(c)
    BY <2>6, RegisterStreamStep, Zenon
  <2> QED BY <1>3, <2>1, <2>2, <2>3, <2>4, <2>5, <2>6, Zenon DEF Setup
<1>4. ASSUME NEW u \in Users, NEW c \in Conns, StreamClose(u, c) PROVE P2PInv'
  BY <1>4, StreamCloseStep, Zenon
<1>5. ASSUME NEW w \in Copiers \cup Users, NEW c \in Conns,
             CopyEnds(w, c) \/ StreamReset(w, c) \/ Deregister(w, c)
      PROVE  P2PInv'
  <2>1. <<w, c>> \in Enders /\ <<w, c>>[1] = w /\ <<w, c>>[2] = c
    BY Zenon DEF Enders
  <2>2. CASE CopyEnds(w, c)
    BY <2>1, <2>2, CloseEndsStep, Zenon DEF CopyEnds
  <2>3. CASE StreamReset(w, c)
    BY <2>1, <2>3, CloseEndsStep, Zenon DEF StreamReset
  <2>4. CASE Deregister(w, c)
    BY <2>1, <2>4, DeregisterStep, Zenon
  <2> QED BY <1>5, <2>2, <2>3, <2>4, ZenonT(60)
<1>6. CASE UNCHANGED streamvars
  <2>1. UNCHANGED <<lpc, bound, registry, done, todo, cpc, local, remote, streams, conns, tagged, ends>>
    BY <1>6, Zenon DEF streamvars, lvars, regvars
  <2>2. PeersTagged'
    BY <2>1, TagsKept, Zenon DEF P2PInv
  <2> QED BY <2>1, <2>2, ZenonT(60) DEF P2PInv, StreamsTypeOK, ListenerInv, EnderInv, EndsClosed
<1>7. CASE StreamsNext
  <2>1. (SUBSET (registry \cap Locals)) \cup SUBSET (registry \cap Remotes) \subseteq SUBSET registry
    BY Zenon
  <2> QED BY <1>1, <1>2, <1>3, <1>4, <1>5, <1>7, <2>1, Zenon DEF StreamsNext, EndStep
<1> QED BY <1>6, <1>7, Zenon

\* The types of the listeners, the connections and the registry.
THEOREM StreamsTypeCorrect == StreamsSpec => []StreamsTypeOK
<1>1. P2PInv => StreamsTypeOK
  BY Zenon DEF P2PInv
<1> QED BY <1>1, InitP2PInv, P2PInvInductive, PTL DEF StreamsSpec

\* Whatever commands, copiers and users close at the same time: a listener's
\* done channel is closed once, a bound address is never refused by the
\* registry, a peer is tagged exactly as long as streams of it are counted, and
\* what has left the registry has no open end.
THEOREM StreamsAreSafe == StreamsSpec => []StreamsSafe
<1>1. P2PInv => StreamsSafe
  <2> SUFFICES ASSUME P2PInv PROVE StreamsSafe
    BY Zenon
  <2>1. DoneOnce
    BY SMTT(60) DEF P2PInv, ListenerInv, DoneOnce
  <2>2. BoundRegisters
    BY P2PAssumption, ZenonT(60) DEF P2PInv, ListenerInv, BoundRegisters, Owning, Listeners
  <2> QED BY <2>1, <2>2, Zenon DEF P2PInv, StreamsSafe
<1> QED BY <1>1, InitP2PInv, P2PInvInductive, PTL DEF StreamsSpec

-----------------------------------------------------------------------------
(* p2p forward, listen and close *)

CmdPcs == {"new", "failed", "emit", "wait", "returned", "emitFailed", "close", "done"}
AllKeys == FwdAddrs \cup SvcProtos

PCmdTypeOK ==
  /\ fcmd \in [PCmds -> [pc : CmdPcs, fg : BOOLEAN, key : {Blank} \cup AllKeys,
                         target : {"peer", "addr", Blank}, client : BOOLEAN]]
  /\ freg \in [AllKeys -> PCmds \cup {NoCmd}]
  /\ DOMAIN fdone = PCmds
  /\ fcl \in [pc : {"new", "failed", "panicked", "localTodo", "p2p", "p2pTodo", "done"},
              opts : {<<>>} \cup {<<o>> : o \in CloseOpts}, todo : SUBSET PCmds, count : Nat]

\* The listeners that the close command closed.
ClosedByClose == {c \in PCmds : fdone[c] = "closer"}

\* A listener is registered under its command's key, or taken out by the one that
\* is about to close it, or closed; it is closed once, by its command or by `close`.
OwnInv == \A c \in PCmds :
  /\ fcmd[c].pc \in {"new", "failed"} <=> fcmd[c].key = Blank
  /\ \A k \in AllKeys : freg[k] = c =>
       /\ fcmd[c].key = k /\ fcmd[c].pc \in {"emit", "wait", "returned", "emitFailed"}
       /\ fdone[c] = "open" /\ c \notin fcl.todo
  /\ fcmd[c].pc = "close" => fdone[c] = "open" /\ c \notin fcl.todo
  /\ c \in fcl.todo => fdone[c] = "open" /\ fcmd[c].key # Blank
  /\ fdone[c] # "open" =>
       fcmd[c].key # Blank /\ (fdone[c] = c \/ fdone[c] = "closer")

\* What the close command has taken, and what it has counted.
CloseInv ==
  /\ fcl.pc \notin {"localTodo", "p2pTodo"} => fcl.todo = {}
  /\ fcl.pc \in {"localTodo", "p2p", "p2pTodo", "done"} => fcl.opts \in {<<o>> : o \in CloseOpts}
  /\ \A c \in fcl.todo \cup ClosedByClose :
       /\ fcl.pc \in {"localTodo", "p2p", "p2pTodo", "done"}
       /\ Matches(fcl.opts[1], c)
  /\ fcl.count = Cardinality(ClosedByClose) + Cardinality(fcl.todo)

PCmdInv == PCmdTypeOK /\ OwnInv /\ CloseInv

\* The registries after listeners were taken out, and nothing else.
LEMMA CmdSets ==
  ASSUME NEW S \in SUBSET PCmds
  PROVE  IsFiniteSet(S) /\ Cardinality(S) \in Nat
  BY P2PCmdsAssumption, FS_Subset, FS_CardinalityType, Zenon

\* A step of a command that leaves `close` and what is closed alone.
LEMMA CmdStepCloses ==
  ASSUME PCmdInv, UNCHANGED <<fdone, fcl>>,
         \A c \in PCmds : fcmd[c].key # Blank => fcmd'[c].key = fcmd[c].key /\ fcmd'[c].target = fcmd[c].target
  PROVE  CloseInv'
<1>1. ClosedByClose' = ClosedByClose BY Zenon DEF ClosedByClose
<1>2. ASSUME NEW c \in fcl.todo \cup ClosedByClose
      PROVE  fcl.pc \in {"localTodo", "p2p", "p2pTodo", "done"} /\ Matches(fcl.opts[1], c)'
  <2>1. c \in PCmds /\ fcmd[c].key # Blank
    BY Zenon DEF PCmdInv, PCmdTypeOK, OwnInv, ClosedByClose
  <2>2. fcmd'[c].key = fcmd[c].key /\ fcmd'[c].target = fcmd[c].target BY <2>1, Zenon
  <2>3. fcl.pc \in {"localTodo", "p2p", "p2pTodo", "done"} /\ Matches(fcl.opts[1], c)
    BY Zenon DEF PCmdInv, CloseInv
  <2> QED BY <2>2, <2>3, Zenon DEF Matches
<1> QED BY <1>1, <1>2, Zenon DEF PCmdInv, CloseInv

LEMMA RegistersKeeps ==
  ASSUME PCmdInv, NEW c \in PCmds, Registers(c) PROVE PCmdInv'
<1>0. fcmd[c].pc = "new" /\ fcmd[c].key = Blank /\ UNCHANGED <<fdone, fcl>>
  BY Zenon DEF Registers, PCmdInv, OwnInv
<1>1. CASE fcmd' = [fcmd EXCEPT ![c].pc = "failed"] /\ UNCHANGED freg
  <2>1. PCmdTypeOK' BY <1>0, <1>1 DEF PCmdInv, PCmdTypeOK, CmdPcs
  <2>2. OwnInv' BY <1>0, <1>1 DEF PCmdInv, PCmdTypeOK, OwnInv
  <2>3. CloseInv' BY <1>0, <1>1, CmdStepCloses, Zenon DEF PCmdInv, PCmdTypeOK
  <2> QED BY <2>1, <2>2, <2>3, Zenon DEF PCmdInv
<1>2. ASSUME NEW k \in KeysOf(c), NEW fg \in BOOLEAN, NEW t \in {"peer", "addr", Blank},
             freg[k] = NoCmd,
             fcmd' = [fcmd EXCEPT ![c] =
                          [@ EXCEPT !.pc = IF fg THEN "emit" ELSE "returned",
                                    !.fg = fg, !.key = k, !.target = t]],
             freg' = [freg EXCEPT ![k] = c]
      PROVE  PCmdInv'
  <2>0. k \in AllKeys /\ k # Blank BY <1>2, P2PCmdsAssumption, Zenon DEF KeysOf, AllKeys
  <2>1. PCmdTypeOK'
    <3>1. (IF fg THEN "emit" ELSE "returned") \in CmdPcs BY Zenon DEF CmdPcs
    <3>2. [fcmd[c] EXCEPT !.pc = IF fg THEN "emit" ELSE "returned", !.fg = fg, !.key = k, !.target = t] \in
            [pc : CmdPcs, fg : BOOLEAN, key : {Blank} \cup AllKeys, target : {"peer", "addr", Blank},
             client : BOOLEAN]
      <4>1. fcmd[c] \in [pc : CmdPcs, fg : BOOLEAN, key : {Blank} \cup AllKeys,
                         target : {"peer", "addr", Blank}, client : BOOLEAN]
        BY Zenon DEF PCmdInv, PCmdTypeOK
      <4>2. CASE fg = TRUE BY <2>0, <3>1, <4>1, <4>2, ZenonT(60)
      <4>3. CASE fg = FALSE BY <2>0, <3>1, <4>1, <4>3, ZenonT(60)
      <4> QED BY <4>2, <4>3, ZenonT(60)
    <3>3. fcmd' \in [PCmds -> [pc : CmdPcs, fg : BOOLEAN, key : {Blank} \cup AllKeys,
                              target : {"peer", "addr", Blank}, client : BOOLEAN]]
      BY <1>2, <3>2, Zenon DEF PCmdInv, PCmdTypeOK
    <3> QED BY <1>0, <1>2, <2>0, <3>3, Zenon DEF PCmdInv, PCmdTypeOK
  <2>2. /\ fcmd'[c].key = k /\ fcmd'[c].pc \in {"emit", "returned"}
        /\ \A d \in PCmds \ {c} : fcmd'[d] = fcmd[d]
        /\ freg'[k] = c /\ \A j \in AllKeys \ {k} : freg'[j] = freg[j]
    BY <1>0, <1>2, <2>0 DEF PCmdInv, PCmdTypeOK
  <2>3. fdone[c] = "open" /\ c \notin fcl.todo /\ \A j \in AllKeys : freg[j] # c
    BY <1>0, Zenon DEF PCmdInv, OwnInv
  <2>4. OwnInv' BY <1>0, <2>0, <2>2, <2>3, SMTT(60) DEF PCmdInv, OwnInv
  <2>5. CloseInv' BY <1>0, <2>2, CmdStepCloses, Zenon
  <2> QED BY <2>1, <2>4, <2>5, Zenon DEF PCmdInv
<1> QED BY <1>1, <1>2, ZenonT(60) DEF Registers

\* A step that only moves a command on.
LEMMA CmdMoves ==
  ASSUME PCmdInv, NEW c \in PCmds, NEW at \in CmdPcs,
         fcmd' = [fcmd EXCEPT ![c].pc = at], UNCHANGED <<freg, fdone, fcl>>,
         fcmd[c].pc \notin {"new", "failed"}, at \notin {"new", "failed", "close"},
         at = "done" => \A k \in AllKeys : freg[k] # c
  PROVE  PCmdInv'
<1>1. PCmdTypeOK' BY DEF PCmdInv, PCmdTypeOK
<1>2. /\ fcmd'[c].pc = at /\ fcmd'[c].key = fcmd[c].key /\ fcmd'[c].target = fcmd[c].target
      /\ \A d \in PCmds \ {c} : fcmd'[d] = fcmd[d]
  BY DEF PCmdInv, PCmdTypeOK
<1>3. OwnInv' BY <1>2 DEF PCmdInv, OwnInv, CmdPcs
<1>4. CloseInv' BY <1>2, CmdStepCloses, Zenon
<1> QED BY <1>1, <1>3, <1>4, Zenon DEF PCmdInv

LEMMA InterruptRemovesKeeps ==
  ASSUME PCmdInv, NEW c \in PCmds, InterruptRemoves(c) PROVE PCmdInv'
<1>0. /\ fcmd[c].pc = "wait" /\ fcmd[c].key \in AllKeys /\ UNCHANGED <<fdone, fcl>>
  BY Zenon DEF InterruptRemoves, PCmdInv, OwnInv, PCmdTypeOK
<1>1. CASE freg[fcmd[c].key] = c
  <2>1. freg' = [freg EXCEPT ![fcmd[c].key] = NoCmd] /\ fcmd' = [fcmd EXCEPT ![c].pc = "close"]
    BY <1>1, Zenon DEF InterruptRemoves
  <2>2. PCmdTypeOK' BY <1>0, <2>1 DEF PCmdInv, PCmdTypeOK, CmdPcs
  <2>3. /\ fcmd'[c].pc = "close" /\ fcmd'[c].key = fcmd[c].key /\ fcmd'[c].target = fcmd[c].target
        /\ \A d \in PCmds \ {c} : fcmd'[d] = fcmd[d]
        /\ freg'[fcmd[c].key] = NoCmd /\ \A j \in AllKeys : j # fcmd[c].key => freg'[j] = freg[j]
    BY <1>0, <2>1, ZenonT(60) DEF PCmdInv, PCmdTypeOK
  <2>4. fdone[c] = "open" /\ c \notin fcl.todo /\ NoCmd \notin PCmds
    BY <1>0, <1>1, P2PCmdsAssumption, Zenon DEF PCmdInv, OwnInv
  <2>5. OwnInv' BY <1>0, <2>3, <2>4, SMTT(60) DEF PCmdInv, OwnInv
  <2>6. CloseInv' BY <1>0, <2>3, CmdStepCloses, Zenon
  <2> QED BY <2>2, <2>5, <2>6, Zenon DEF PCmdInv
<1>2. CASE freg[fcmd[c].key] # c
  <2>1. fcmd' = [fcmd EXCEPT ![c].pc = "done"] /\ UNCHANGED <<freg, fdone, fcl>>
    BY <1>0, <1>2, Zenon DEF InterruptRemoves
  <2>2. \A k \in AllKeys : freg[k] # c BY <1>2, ZenonT(60) DEF PCmdInv, OwnInv
  <2> QED BY <1>0, <2>1, <2>2, CmdMoves, ZenonT(60) DEF CmdPcs
<1> QED BY <1>1, <1>2, Zenon

LEMMA InterruptClosesKeeps ==
  ASSUME PCmdInv, NEW c \in PCmds, InterruptCloses(c) PROVE PCmdInv'
<1>0. /\ fcmd[c].pc = "close" /\ UNCHANGED <<freg, fcl>>
      /\ fdone' = [fdone EXCEPT ![c] = c] /\ fcmd' = [fcmd EXCEPT ![c].pc = "done"]
  BY Zenon DEF InterruptCloses
<1>1. PCmdTypeOK' BY <1>0 DEF PCmdInv, PCmdTypeOK, CmdPcs
<1>2. /\ fcmd'[c].pc = "done" /\ fcmd'[c].key = fcmd[c].key /\ fcmd'[c].target = fcmd[c].target
      /\ \A d \in PCmds \ {c} : fcmd'[d] = fcmd[d]
      /\ fdone'[c] = c /\ \A d \in PCmds \ {c} : fdone'[d] = fdone[d]
  BY <1>0, ZenonT(60) DEF PCmdInv, PCmdTypeOK
<1>3. /\ fdone[c] = "open" /\ c \notin fcl.todo /\ \A k \in AllKeys : freg[k] # c
      /\ c # "closer" /\ fcmd[c].key # Blank
  BY <1>0, P2PCmdsAssumption, Zenon DEF PCmdInv, OwnInv
<1>4. OwnInv' BY <1>0, <1>2, <1>3 DEF PCmdInv, OwnInv
<1>5. CloseInv'
  <2>1. ClosedByClose' = ClosedByClose BY <1>2, <1>3, ZenonT(60) DEF ClosedByClose
  <2>2. ASSUME NEW d \in fcl.todo \cup ClosedByClose
        PROVE  fcl.pc \in {"localTodo", "p2p", "p2pTodo", "done"} /\ Matches(fcl.opts[1], d)'
    <3>1. d \in PCmds /\ d # c BY <1>3, Zenon DEF PCmdInv, PCmdTypeOK, ClosedByClose
    <3>2. fcmd'[d] = fcmd[d] BY <1>2, <3>1, Zenon
    <3>3. fcl.pc \in {"localTodo", "p2p", "p2pTodo", "done"} /\ Matches(fcl.opts[1], d)
      BY Zenon DEF PCmdInv, CloseInv
    <3>4. fcl' = fcl BY <1>0, Zenon
    <3> QED BY <3>2, <3>3, <3>4, Zenon DEF Matches
  <2> QED BY <1>0, <2>1, <2>2, Zenon DEF PCmdInv, CloseInv
<1> QED BY <1>1, <1>4, <1>5, Zenon DEF PCmdInv

\* The client goes.
LEMMA ClientGoneKeeps ==
  ASSUME PCmdInv, NEW c \in PCmds, PClientGone(c) PROVE PCmdInv'
<1>0. fcmd' = [fcmd EXCEPT ![c].client = FALSE] /\ UNCHANGED <<freg, fdone, fcl>>
  BY Zenon DEF PClientGone
<1>1. PCmdTypeOK'
  <2>1. [fcmd[c] EXCEPT !.client = FALSE] \in
          [pc : CmdPcs, fg : BOOLEAN, key : {Blank} \cup AllKeys, target : {"peer", "addr", Blank},
           client : BOOLEAN]
    <3>1. fcmd[c] \in [pc : CmdPcs, fg : BOOLEAN, key : {Blank} \cup AllKeys,
                       target : {"peer", "addr", Blank}, client : BOOLEAN]
      BY Zenon DEF PCmdInv, PCmdTypeOK
    <3> QED BY <3>1, ZenonT(60)
  <2>2. fcmd' = [fcmd EXCEPT ![c] = [fcmd[c] EXCEPT !.client = FALSE]] BY <1>0, Zenon
  <2>3. fcmd' \in [PCmds -> [pc : CmdPcs, fg : BOOLEAN, key : {Blank} \cup AllKeys,
                            target : {"peer", "addr", Blank}, client : BOOLEAN]]
    BY <2>1, <2>2, Zenon DEF PCmdInv, PCmdTypeOK
  <2> QED BY <1>0, <2>3, Zenon DEF PCmdInv, PCmdTypeOK
<1>2. \A d \in PCmds : /\ fcmd'[d].pc = fcmd[d].pc /\ fcmd'[d].key = fcmd[d].key
                       /\ fcmd'[d].target = fcmd[d].target
  BY <1>0 DEF PCmdInv, PCmdTypeOK
<1>3. OwnInv' BY <1>0, <1>2 DEF PCmdInv, OwnInv
<1>4. CloseInv' BY <1>0, <1>2, CmdStepCloses, Zenon
<1> QED BY <1>1, <1>3, <1>4, Zenon DEF PCmdInv

\* A step in which the close command takes nothing and closes nothing.
LEMMA CloseMoves ==
  ASSUME PCmdInv, NEW at, fcl.todo = {},
         <<fcl.pc, at>> \in {<<"new", "failed">>, <<"new", "panicked">>, <<"localTodo", "p2p">>,
                            <<"p2pTodo", "done">>},
         fcl' = [fcl EXCEPT !.pc = at], UNCHANGED <<fcmd, freg, fdone>>
  PROVE  PCmdInv'
<1>1. PCmdTypeOK' BY Zenon DEF PCmdInv, PCmdTypeOK
<1>2. fcl'.pc = at /\ fcl'.opts = fcl.opts /\ fcl'.todo = {} /\ fcl'.count = fcl.count
  BY Zenon DEF PCmdInv, PCmdTypeOK
<1>3. OwnInv' BY <1>2 DEF PCmdInv, OwnInv
<1>4. ClosedByClose' = ClosedByClose BY Zenon DEF ClosedByClose
<1>5. ASSUME NEW d \in ClosedByClose
      PROVE  at \in {"localTodo", "p2p", "p2pTodo", "done"} /\ Matches(fcl.opts[1], d)'
  <2>1. fcl.pc \in {"localTodo", "p2p", "p2pTodo", "done"} /\ Matches(fcl.opts[1], d)
    BY <1>5, Zenon DEF PCmdInv, CloseInv
  <2>2. at \in {"localTodo", "p2p", "p2pTodo", "done"} BY <2>1, Zenon
  <2> QED BY <1>2, <2>1, <2>2, Zenon DEF Matches
<1>6. CloseInv' BY <1>2, <1>4, <1>5, Zenon DEF PCmdInv, CloseInv
<1> QED BY <1>1, <1>3, <1>6, Zenon DEF PCmdInv

\* Listeners.Close takes the listeners that match out of the registry and counts them.
LEMMA TakesKeeps ==
  ASSUME PCmdInv, NEW cs \in SUBSET PCmds, NEW o \in CloseOpts, NEW next, Takes(cs, o, next),
         \/ fcl.pc = "new" /\ next = "localTodo"
         \/ fcl.pc = "p2p" /\ next = "p2pTodo" /\ fcl.opts[1] = o
  PROVE  PCmdInv'
<1> DEFINE hit == {c \in Registered(cs) : Matches(o, c)}
<1>0. /\ freg' = [k \in DOMAIN freg |-> IF freg[k] \in hit THEN NoCmd ELSE freg[k]]
      /\ fcl' = [fcl EXCEPT !.pc = next, !.todo = hit, !.opts = <<o>>, !.count = @ + Cardinality(hit)]
      /\ UNCHANGED <<fcmd, fdone, flock>>
  BY Zenon DEF Takes
<1>1. hit \subseteq PCmds /\ fcl.todo = {} /\ next \in {"localTodo", "p2pTodo"}
  BY Zenon DEF Registered, PCmdInv, CloseInv
<1>2. ASSUME NEW c \in hit PROVE fcmd[c].key \in AllKeys /\ freg[fcmd[c].key] = c /\ Matches(o, c)
  BY <1>1, Zenon DEF Registered, PCmdInv, PCmdTypeOK
<1> HIDE DEF hit
<1>3. IsFiniteSet(hit) /\ Cardinality(hit) \in Nat BY <1>1, CmdSets, Zenon
<1>4. /\ fcl' \in [pc : {"new", "failed", "panicked", "localTodo", "p2p", "p2pTodo", "done"},
                    opts : {<<>>} \cup {<<p>> : p \in CloseOpts}, todo : SUBSET PCmds, count : Nat]
      /\ fcl'.pc = next /\ fcl'.todo = hit /\ fcl'.opts = <<o>> /\ fcl'.count = fcl.count + Cardinality(hit)
  <2>1. <<o>> \in {<<>>} \cup {<<p>> : p \in CloseOpts} BY Zenon
  <2>2. fcl.count + Cardinality(hit) \in Nat BY <1>3, SMTT(60) DEF PCmdInv, PCmdTypeOK
  <2> QED BY <1>0, <1>1, <2>1, <2>2, ZenonT(60) DEF PCmdInv, PCmdTypeOK
<1>5. /\ freg' \in [AllKeys -> PCmds \cup {NoCmd}]
      /\ \A k \in AllKeys : freg'[k] = IF freg[k] \in hit THEN NoCmd ELSE freg[k]
  BY <1>0, Zenon DEF PCmdInv, PCmdTypeOK
<1>6. PCmdTypeOK' BY <1>0, <1>4, <1>5, Zenon DEF PCmdInv, PCmdTypeOK
<1>7. OwnInv'
  <2>1. NoCmd \notin PCmds BY P2PCmdsAssumption, Zenon
  <2>2. ASSUME NEW c \in PCmds, NEW k \in AllKeys, freg'[k] = c
        PROVE  freg[k] = c /\ c \notin hit
    BY <1>5, <2>1, <2>2, Zenon
  <2>3. ASSUME NEW c \in hit PROVE fdone[c] = "open" /\ fcmd[c].key # Blank /\ fcmd[c].pc # "close"
    BY <1>1, <1>2, <2>3, P2PCmdsAssumption, SMTT(60) DEF PCmdInv, OwnInv, AllKeys
  <2> QED BY <1>0, <1>1, <1>4, <2>2, <2>3 DEF PCmdInv, OwnInv
<1>8. CloseInv'
  <2>1. ClosedByClose' = ClosedByClose BY <1>0, Zenon DEF ClosedByClose
  <2>2. fcl'.opts[1] = o BY <1>4, SMTT(60)
  <2>3. ASSUME NEW c \in hit \cup ClosedByClose PROVE Matches(o, c)
    <3>1. CASE c \in hit BY <1>2, <3>1, ZenonT(60)
    <3>2. CASE c \in ClosedByClose
      <4>1. Matches(fcl.opts[1], c) /\ fcl.pc \in {"localTodo", "p2p", "p2pTodo", "done"}
        BY <3>2, Zenon DEF PCmdInv, CloseInv
      <4> QED BY <4>1, Zenon
    <3> QED BY <2>3, <3>1, <3>2, Zenon
  <2>4. ASSUME NEW c \in hit \cup ClosedByClose PROVE Matches(fcl.opts[1], c)'
    BY <1>0, <2>2, <2>3, <2>4, Zenon DEF Matches
  <2>5. fcl'.count = Cardinality(ClosedByClose) + Cardinality(hit)
    BY <1>1, <1>3, <1>4, FS_EmptySet, CmdSets, SMTT(60) DEF PCmdInv, CloseInv, ClosedByClose
  <2> QED BY <1>1, <1>4, <2>1, <2>4, <2>5, ZenonT(60) DEF CloseInv
<1> QED BY <1>6, <1>7, <1>8, ZenonT(60) DEF PCmdInv

\* A listener is closed: one fewer to close and one more closed.
LEMMA ClosesKeeps ==
  ASSUME PCmdInv, NEW c \in fcl.todo,
         fdone' = [fdone EXCEPT ![c] = "closer"], fcl' = [fcl EXCEPT !.todo = @ \ {c}],
         UNCHANGED <<fcmd, freg>>
  PROVE  PCmdInv'
<1>1. c \in PCmds /\ fcl.todo \subseteq PCmds BY Zenon DEF PCmdInv, PCmdTypeOK
<1>2. /\ fcl' \in [pc : {"new", "failed", "panicked", "localTodo", "p2p", "p2pTodo", "done"},
                    opts : {<<>>} \cup {<<p>> : p \in CloseOpts}, todo : SUBSET PCmds, count : Nat]
      /\ fcl'.pc = fcl.pc /\ fcl'.todo = fcl.todo \ {c} /\ fcl'.opts = fcl.opts /\ fcl'.count = fcl.count
  BY <1>1, Zenon DEF PCmdInv, PCmdTypeOK
<1>3. PCmdTypeOK' BY <1>2, Zenon DEF PCmdInv, PCmdTypeOK
<1>4. fdone'[c] = "closer" /\ \A d \in PCmds \ {c} : fdone'[d] = fdone[d] BY <1>1, Zenon DEF PCmdInv, PCmdTypeOK
<1>5. fdone[c] = "open" /\ fcmd[c].key # Blank /\ fcmd[c].pc # "close" /\ \A k \in AllKeys : freg[k] # c
  BY <1>1, Zenon DEF PCmdInv, OwnInv
<1>6. OwnInv' BY <1>1, <1>2, <1>4, <1>5 DEF PCmdInv, OwnInv
<1>7. CloseInv'
  <2>1. ClosedByClose' = ClosedByClose \cup {c} /\ c \notin ClosedByClose
    BY <1>1, <1>4, <1>5, Zenon DEF ClosedByClose
  <2>2. IsFiniteSet(fcl.todo) /\ IsFiniteSet(ClosedByClose) /\ Cardinality(fcl.todo) \in Nat
        /\ Cardinality(ClosedByClose) \in Nat
    BY <1>1, CmdSets, Zenon DEF ClosedByClose
  <2>3. Cardinality(ClosedByClose') = Cardinality(ClosedByClose) + 1 BY <2>1, <2>2, FS_AddElement, ZenonT(60)
  <2>4. Cardinality(fcl.todo \ {c}) = Cardinality(fcl.todo) - 1 BY <2>2, FS_RemoveElement, ZenonT(60)
  <2>5. fcl'.count = Cardinality(ClosedByClose') + Cardinality(fcl'.todo)
    BY <1>2, <2>2, <2>3, <2>4 DEF PCmdInv, CloseInv
  <2>6. fcl'.todo \cup ClosedByClose' = fcl.todo \cup ClosedByClose BY <1>2, <2>1, Zenon
  <2>7. ASSUME NEW d \in fcl.todo \cup ClosedByClose
        PROVE  fcl.pc \in {"localTodo", "p2p", "p2pTodo", "done"} /\ Matches(fcl.opts[1], d)'
    <3>1. fcl.pc \in {"localTodo", "p2p", "p2pTodo", "done"} /\ Matches(fcl.opts[1], d)
      BY Zenon DEF PCmdInv, CloseInv
    <3> QED BY <1>2, <3>1, Zenon DEF Matches
  <2>8. fcl.pc \in {"localTodo", "p2pTodo"} BY Zenon DEF PCmdInv, CloseInv
  <2> QED BY <1>2, <2>5, <2>6, <2>7, <2>8, Zenon DEF PCmdInv, CloseInv
<1> QED BY <1>3, <1>6, <1>7, Zenon DEF PCmdInv

LEMMA CloseKeeps ==
  ASSUME PCmdInv, CloseSteps PROVE PCmdInv'
<1>1. CASE CloseFails
  <2>1. fcl.pc = "new" /\ fcl' = [fcl EXCEPT !.pc = "failed"] /\ UNCHANGED <<fcmd, freg, fdone>>
    BY <1>1, Zenon DEF CloseFails
  <2>2. fcl.todo = {} BY <2>1, Zenon DEF PCmdInv, CloseInv
  <2>3. <<fcl.pc, "failed">> = <<"new", "failed">> BY <2>1, Zenon
  <2> QED BY <2>1, <2>2, <2>3, CloseMoves, Zenon
<1>2. CASE ClosePanics
  <2>1. fcl.pc = "new" /\ fcl' = [fcl EXCEPT !.pc = "panicked"] /\ UNCHANGED <<fcmd, freg, fdone>>
    BY <1>2, Zenon DEF ClosePanics
  <2>2. fcl.todo = {} BY <2>1, Zenon DEF PCmdInv, CloseInv
  <2>3. <<fcl.pc, "panicked">> = <<"new", "panicked">> BY <2>1, Zenon
  <2> QED BY <2>1, <2>2, <2>3, CloseMoves, Zenon
<1>3. CASE CloseTakesLocal
  <2>1. PICK o \in CloseOpts : Takes(Forwards, o, "localTodo") BY <1>3, Zenon DEF CloseTakesLocal
  <2>2. fcl.pc = "new" /\ Forwards \in SUBSET PCmds BY <1>3, Zenon DEF CloseTakesLocal, PCmds
  <2> QED BY <2>1, <2>2, TakesKeeps, Zenon
<1>4. CASE CloseTakesP2P
  <2>1. PICK o \in CloseOpts : fcl.opts = <<o>> BY <1>4, Zenon DEF CloseTakesP2P, PCmdInv, CloseInv
  <2>2. Takes(Services, o, "p2pTodo") BY <1>4, <2>1 DEF CloseTakesP2P
  <2>3. fcl.pc = "p2p" /\ fcl.opts[1] = o /\ Services \in SUBSET PCmds
    BY <1>4, <2>1 DEF CloseTakesP2P, PCmds
  <2> QED BY <2>1, <2>2, <2>3, TakesKeeps, Zenon
<1>5. ASSUME NEW pc, NEW next, CloseCloses(pc, next),
             \/ pc = "localTodo" /\ next = "p2p"
             \/ pc = "p2pTodo" /\ next = "done"
      PROVE  PCmdInv'
  <2>1. CASE fcl.todo = {}
    <3>1. fcl.pc = pc /\ fcl' = [fcl EXCEPT !.pc = next] /\ UNCHANGED <<fcmd, freg, fdone>>
      BY <1>5, <2>1, Zenon DEF CloseCloses
    <3>2. <<fcl.pc, next>> \in {<<"new", "failed">>, <<"new", "panicked">>, <<"localTodo", "p2p">>,
                              <<"p2pTodo", "done">>}
      BY <1>5, <3>1, Zenon
    <3> QED BY <2>1, <3>1, <3>2, CloseMoves, Zenon
  <2>2. CASE fcl.todo # {}
    <3>1. PICK c \in fcl.todo : /\ fdone' = [fdone EXCEPT ![c] = "closer"]
                               /\ fcl' = [fcl EXCEPT !.todo = @ \ {c}]
      BY <1>5, <2>2, Zenon DEF CloseCloses
    <3> QED BY <1>5, <3>1, ClosesKeeps, ZenonT(60) DEF CloseCloses
  <2> QED BY <2>1, <2>2, Zenon
<1> QED BY <1>1, <1>2, <1>3, <1>4, <1>5, Zenon DEF CloseSteps

LEMMA CommandKeeps ==
  ASSUME PCmdInv, NEW c \in PCmds, PCmdSteps(c) PROVE PCmdInv'
<1>1. CASE EmitsActive(c)
  <2>1. fcmd[c].pc = "emit" /\ UNCHANGED <<freg, fdone, fcl>> BY <1>1, Zenon DEF EmitsActive
  <2>2. CASE fcmd' = [fcmd EXCEPT ![c].pc = "wait"] BY <2>1, <2>2, CmdMoves, ZenonT(60) DEF CmdPcs
  <2>3. CASE fcmd' = [fcmd EXCEPT ![c].pc = "emitFailed"] BY <2>1, <2>3, CmdMoves, ZenonT(60) DEF CmdPcs
  <2> QED BY <1>1, <2>2, <2>3, Zenon DEF EmitsActive
<1>2. CASE ClosedByOther(c)
  <2>1. /\ fcmd[c].pc = "wait" /\ fcmd' = [fcmd EXCEPT ![c].pc = "done"]
        /\ fdone[c] # "open" /\ UNCHANGED <<freg, fdone, fcl>>
    BY <1>2, Zenon DEF ClosedByOther
  <2>2. \A k \in AllKeys : freg[k] # c BY <2>1, Zenon DEF PCmdInv, OwnInv
  <2> QED BY <2>1, <2>2, CmdMoves, ZenonT(60) DEF CmdPcs
<1> QED BY <1>1, <1>2, RegistersKeeps, InterruptRemovesKeeps, InterruptClosesKeeps, Zenon DEF PCmdSteps

LEMMA PCmdInitially == PCmdInit => PCmdInv
<1> SUFFICES ASSUME PCmdInit PROVE PCmdInv BY Zenon
<1>1. PCmdTypeOK
  <2>1. fcmd \in [PCmds -> [pc : CmdPcs, fg : BOOLEAN, key : {Blank} \cup AllKeys,
                           target : {"peer", "addr", Blank}, client : BOOLEAN]]
    BY Zenon DEF PCmdInit, CmdPcs
  <2>2. freg \in [AllKeys -> PCmds \cup {NoCmd}] BY Zenon DEF PCmdInit, AllKeys
  <2>3. DOMAIN fdone = PCmds BY Zenon DEF PCmdInit
  <2>4. <<>> \in {<<>>} \cup {<<o>> : o \in CloseOpts} BY Zenon
  <2> QED BY <2>1, <2>2, <2>3, <2>4, ZenonT(60) DEF PCmdInit, PCmdTypeOK
<1>2. OwnInv
  <2>1. NoCmd \notin PCmds BY P2PCmdsAssumption, Zenon
  <2>2. \A c \in PCmds : fcmd[c].pc = "new" /\ fcmd[c].key = Blank /\ fdone[c] = "open" BY Zenon DEF PCmdInit
  <2>3. fcl.todo = {} /\ \A k \in AllKeys : freg[k] = NoCmd BY Zenon DEF PCmdInit, AllKeys
  <2> QED BY <2>1, <2>2, <2>3, Zenon DEF OwnInv
<1>3. CloseInv
  <2>1. ClosedByClose = {} BY Zenon DEF PCmdInit, ClosedByClose
  <2> QED BY <2>1, FS_EmptySet, SMTT(60) DEF PCmdInit, CloseInv
<1> QED BY <1>1, <1>2, <1>3, Zenon DEF PCmdInv

LEMMA PCmdInductive == PCmdInv /\ [PCmdNext]_pcmdvars => PCmdInv'
<1> SUFFICES ASSUME PCmdInv, [PCmdNext]_pcmdvars PROVE PCmdInv' BY Zenon
<1>1. CASE UNCHANGED <<fcmd, freg, fdone, fcl>>
  <2>1. PCmdTypeOK' /\ OwnInv' BY <1>1, SMTT(60) DEF PCmdInv, PCmdTypeOK, OwnInv
  <2>2. CloseInv' BY <1>1, CmdStepCloses, Zenon
  <2> QED BY <2>1, <2>2, Zenon DEF PCmdInv
<1>2. CASE LsPanics BY <1>1, <1>2, Zenon DEF LsPanics
<1>3. CASE UNCHANGED pcmdvars BY <1>1, <1>3, Zenon DEF pcmdvars
<1> QED BY <1>2, <1>3, CommandKeeps, ClientGoneKeeps, CloseKeeps, Zenon DEF PCmdNext

\* What the invariant says of the commands that ended, of what was closed and of
\* what `close` counted.
LEMMA PCmdSafely == PCmdInv => ForegroundGone /\ ClosesOwn /\ CountTrue
<1> SUFFICES ASSUME PCmdInv PROVE ForegroundGone /\ ClosesOwn /\ CountTrue BY Zenon
<1>1. ForegroundGone
  <2>1. \A c \in PCmds : fcmd[c].pc = "done" => fcmd[c].key \in AllKeys
    BY Zenon DEF PCmdInv, OwnInv, PCmdTypeOK
  <2> QED BY <2>1, Zenon DEF ForegroundGone, PCmdInv, OwnInv
<1>2. ClosesOwn
  <2>1. SUFFICES ASSUME NEW c \in PCmds, fdone[c] = "closer"
                 PROVE  LET o == fcl.opts[1]
                        IN o.all \/ (o.key \in {Blank, fcmd[c].key}
                                     /\ o.target \in {Blank, fcmd[c].target})
    BY Zenon DEF ClosesOwn, PCmdInv, OwnInv
  <2>2. c \in ClosedByClose BY <2>1, Zenon DEF ClosedByClose
  <2>3. Matches(fcl.opts[1], c) BY <2>2, Zenon DEF PCmdInv, CloseInv
  <2> QED BY <2>3, Zenon DEF Matches
<1>3. CountTrue
  <2>1. ASSUME fcl.pc = "done" PROVE fcl.count = Cardinality(ClosedByClose)
    BY <2>1, FS_EmptySet, CmdSets DEF PCmdInv, CloseInv, ClosedByClose
  <2> QED BY <2>1, Zenon DEF CountTrue, ClosedByClose
<1> QED BY <1>1, <1>2, <1>3, Zenon

\* parseIpfsAddr: an accepted address names one peer.
LEMMA ParsesOnePeer ==
  ASSUME NEW k \in Nat, NEW resolved \in [1..k -> {Blank, "P", "Q"}], ParseIpfsAddr(resolved).ok
  PROVE  \A i \in DOMAIN resolved : resolved[i] \in {Blank, ParseIpfsAddr(resolved).id}
<1> DEFINE named == {i \in DOMAIN resolved : resolved[i] # Blank}
           first == CHOOSE i \in named : \A j \in named : i <= j
<1>1. /\ \A i \in named : resolved[i] = resolved[first]
      /\ ParseIpfsAddr(resolved).id = IF named = {} THEN Blank ELSE resolved[first]
  BY ZenonT(60) DEF ParseIpfsAddr
<1> HIDE DEF first
<1> QED BY <1>1, Zenon

\* `p2p forward`, `listen` and `close` (P2PSafe): an interrupted foreground command
\* leaves no listener of its own and closes no other's, `close` closes what its
\* options match and prints how many, and an address parseIpfsAddr accepts names one
\* peer; for any number of commands, addresses and protocols.
THEOREM P2PCommandsAreSafe == PCmdSpec => []P2PSafe
<1>1. PCmdInit /\ faddr = [topic |-> "none"] => PCmdInv /\ OnePeer
  BY PCmdInitially DEF OnePeer
<1>2. ASSUME PCmdInv, OnePeer,
             [\/ PCmdNext /\ UNCHANGED faddr
              \/ AsksAddr /\ UNCHANGED pcmdvars]_<<pcmdvars, faddr>>
      PROVE  PCmdInv' /\ OnePeer'
  <2>1. PCmdInv' BY <1>2, PCmdInductive, Zenon
  <2>2. OnePeer'
    <3>1. CASE UNCHANGED faddr BY <1>2, <3>1, Zenon DEF OnePeer
    <3>2. CASE AsksAddr
      <4>1. PICK k \in 0..3 : \E resolved \in [1..k -> {Blank, "P", "Q"}] :
              faddr' = [topic |-> "addr", from |-> resolved, to |-> ParseIpfsAddr(resolved)]
        BY <3>2, ZenonT(60) DEF AsksAddr
      <4>2. PICK resolved \in [1..k -> {Blank, "P", "Q"}] :
              faddr' = [topic |-> "addr", from |-> resolved, to |-> ParseIpfsAddr(resolved)]
        BY <4>1, Zenon
      <4>3. k \in Nat /\ faddr'.from = resolved /\ faddr'.to = ParseIpfsAddr(resolved) BY <4>2
      <4> QED BY <4>3, ParsesOnePeer, Zenon DEF OnePeer
    <3> QED BY <1>2, <3>1, <3>2, Zenon
  <2> QED BY <2>1, <2>2, Zenon
<1>3. PCmdInv /\ OnePeer => P2PSafe BY PCmdSafely, Zenon DEF P2PSafe
<1> QED BY <1>1, <1>2, <1>3, PTL DEF PCmdSpec

-----------------------------------------------------------------------------
(* Pins on remote services. Between the listing and the request that follows *)
(* it, whatever a service holds under the name of the policy is the request  *)
(* that the goroutine is about to replace: nobody else uses that name, and   *)
(* an ID somebody still remembers is not given to another request.           *)

\* A service finds an ID for a new request.
IDsLeft == \E i \in RequestIDs : i \notin Remembered

\* The set-up of a node: finitely many services and calls, and services that
\* never run out of IDs.
Endless ==
  /\ IsFiniteSet(PinServices) /\ IsFiniteSet(Waiters) /\ IsFiniteSet(Removals)
  /\ ~IsFiniteSet(RequestIDs)

-----------------------------------------------------------------------------
UniqueIDs == \A r, q \in requests : r.id = q.id => r = q

\* What a goroutine listed is still what it is going to replace.
ActInv ==
  \A s \in PinServices : task[s].pc = "act" =>
    /\ \A r \in requests : r.id = task[s].old => r.svc = s /\ r.name = task[s].cfg.name
    /\ task[s].cfg.name # "user" => \A r \in Named(s, task[s].cfg.name) : r.id = task[s].old

\* A removal without --force has at most one request in hand.
RmInv ==
  \A x \in Removals : ~Filter[x].force =>
    \/ removal[x].gone = 0 /\ \A i, j \in removal[x].ids : i = j
    \/ removal[x].gone = 1 /\ removal[x].ids = {}

FiniteInv == IsFiniteSet(requests) /\ \A x \in Removals : IsFiniteSet(removal[x].ids)

RemoteInv ==
  RemoteTypeOK /\ FiniteInv /\ UniqueIDs /\ ActInv /\ RmInv /\ OneMfsPin /\ LastPinReal

-----------------------------------------------------------------------------
(* IDs and requests *)

\* The ID of a new request is one nobody remembers.
LEMMA Fresh ==
  ASSUME IDsLeft
  PROVE  /\ FreshID \in RequestIDs
         /\ \A r \in requests : r.id # FreshID
         /\ \A s \in PinServices : task[s].old # FreshID
<1>1. FreshID \in RequestIDs /\ FreshID \notin Remembered BY Zenon DEF IDsLeft, FreshID
<1> HIDE DEF FreshID
<1> QED BY <1>1, Zenon DEF Remembered

\* A request that is made has the name, the service and the CID it is for.
LEMMA RequestIs ==
  ASSUME IDsLeft, NEW s \in PinServices, NEW n \in RemoteNames, NEW c \in RemoteCids
  PROVE  /\ Request(s, n, c) \in ReqSet /\ Request(s, n, c).id = FreshID
         /\ Request(s, n, c).svc = s /\ Request(s, n, c).name = n /\ Request(s, n, c).cid = c
<1>1. FreshID \in RequestIDs BY Fresh, Zenon
<1>2. "queued" \in Statuses BY Zenon DEF Statuses
<1> HIDE DEF FreshID
<1> QED BY <1>1, <1>2, Zenon DEF Request, ReqSet

\* The constants are typed.
LEMMA ConstantTypes ==
  /\ NoConfig \in Policies /\ NewConfig \in Policies /\ SvcConfigs \subseteq Policies
  /\ InitConfigs \subseteq Policies /\ Idle \in TaskSet /\ Never \in LastSet
  /\ "user" \in RemoteNames /\ \A c \in Policies : c.name \in RemoteNames
<1>1. NoConfig \in Policies /\ NewConfig \in Policies /\ SvcConfigs \subseteq Policies
      /\ InitConfigs \subseteq Policies /\ "user" \in RemoteNames
      /\ \A c \in Policies : c.name \in RemoteNames
  BY Zenon DEF Policies, RemoteNames
<1> HIDE DEF NoConfig
<1>2. "none" \in RemoteCids BY Zenon DEF RemoteCids
<1>3. Idle \in TaskSet BY <1>1, <1>2, Zenon DEF Idle, TaskSet
<1>4. Never \in LastSet BY <1>1, <1>2, Zenon DEF Never, LastSet
<1> QED BY <1>1, <1>3, <1>4, Zenon

LEMMA TypeInit == RemoteInit => RemoteTypeOK
<1> SUFFICES ASSUME RemoteInit PROVE RemoteTypeOK BY Zenon
<1>1. services \in [PinServices -> Policies] BY ConstantTypes, Zenon DEF RemoteInit
<1>2. lastPins \in [PinServices -> LastSet] /\ task \in [PinServices -> TaskSet]
  BY ConstantTypes, Zenon DEF RemoteInit
<1>3. waiter \in [Waiters -> WaitSet] BY Zenon DEF RemoteInit, WaitSet
<1>4. removal \in [Removals -> RmSet] BY Zenon DEF RemoteInit, RmSet
<1> QED BY <1>1, <1>2, <1>3, <1>4, RemoteAssumption, SMTT(60)
        DEF RemoteInit, RemoteTypeOK

\* What a goroutine reports, and what it asks a service for, is typed.
LEMMA TaskTypes ==
  ASSUME RemoteTypeOK, NEW s \in PinServices
  PROVE  /\ task[s] \in TaskSet /\ task[s].cid \in RemoteCids /\ task[s].cfg \in Policies
         /\ task[s].cfg.name \in RemoteNames
         /\ Pinned(s) \in LastSet /\ \A b \in BOOLEAN : [Pinned(s) EXCEPT !.recent = b] \in LastSet
<1>1. task[s] \in TaskSet BY Zenon DEF RemoteTypeOK
<1>2. task[s].cid \in RemoteCids /\ task[s].cfg \in Policies BY <1>1, Zenon DEF TaskSet
<1>3. task[s].cfg.name \in RemoteNames BY <1>2, ConstantTypes, Zenon
<1>4. Pinned(s) \in LastSet BY <1>2, Zenon DEF Pinned, LastSet
<1>5. \A b \in BOOLEAN : [Pinned(s) EXCEPT !.recent = b] \in LastSet
  <2> HIDE DEF Pinned
  <2> QED BY <1>4, Zenon DEF LastSet
<1> QED BY <1>1, <1>2, <1>3, <1>4, <1>5, Zenon

\* Collecting a result makes the goroutine idle.
LEMMA CollectIs ==
  ASSUME RemoteTypeOK, NEW s \in PinServices, NEW last \in LastSet, Collect(s, last)
  PROVE  /\ lastPins' \in [PinServices -> LastSet] /\ task' \in [PinServices -> TaskSet]
         /\ loop' \in {"sleep", "pin"} /\ lastPins'[s] = last /\ task'[s].pc = "idle"
         /\ \A u \in PinServices \ {s} : lastPins'[u] = lastPins[u] /\ task'[u] = task[u]
<1>1. lastPins \in [PinServices -> LastSet] /\ task \in [PinServices -> TaskSet] BY Zenon DEF RemoteTypeOK
<1>2. lastPins' = [lastPins EXCEPT ![s] = last] /\ task' = [task EXCEPT ![s] = Idle] /\ loop' \in {"sleep", "pin"}
  BY Zenon DEF Collect
<1>3. Idle \in TaskSet /\ Idle.pc = "idle"
  <2>1. Idle.pc = "idle" BY Zenon DEF Idle
  <2> QED BY <2>1, ConstantTypes, Zenon
<1> HIDE DEF Idle
<1> QED BY <1>1, <1>2, <1>3, Zenon

\* What a goroutine does with the listing of its name.
LEMMA LsIs ==
  ASSUME NEW s \in PinServices, Ls(s)
  PROVE  \/ /\ \E r \in Named(s, task[s].cfg.name) : r.cid = task[s].cid
            /\ \E recent \in BOOLEAN : Collect(s, [Pinned(s) EXCEPT !.recent = recent])
         \/ /\ \E o : /\ task' = [task EXCEPT ![s].pc = "act", ![s].old = o]
                      /\ \/ Named(s, task[s].cfg.name) = {} /\ o = NoRequest
                         \/ \E r \in Named(s, task[s].cfg.name) : o = r.id
            /\ UNCHANGED <<loop, lastPins>>
<1> DEFINE found == Named(s, task[s].cfg.name)
           good == {r \in found : r.cid = task[s].cid /\ r.status # "failed"}
<1> HIDE DEF found
<1>1. \/ /\ good # {}
         /\ \E recent \in BOOLEAN : Collect(s, [Pinned(s) EXCEPT !.recent = recent])
      \/ /\ good = {}
         /\ \E o \in IF found = {} THEN {NoRequest} ELSE {r.id : r \in found} :
              task' = [task EXCEPT ![s].pc = "act", ![s].old = o]
         /\ UNCHANGED <<loop, lastPins>>
  BY Zenon DEF Ls, found
<1>2. good # {} => \E r \in found : r.cid = task[s].cid BY Zenon
<1>3. ASSUME NEW o \in IF found = {} THEN {NoRequest} ELSE {r.id : r \in found}
      PROVE  (found = {} /\ o = NoRequest) \/ \E r \in found : o = r.id
  BY Zenon
<1> HIDE DEF good
<1> QED BY <1>1, <1>2, <1>3, Zenon DEF found

LEMMA TypeStep ==
  ASSUME RemoteTypeOK, IDsLeft, RemoteNext
  PROVE  RemoteTypeOK'
<1>t. /\ services \in [PinServices -> Policies] /\ root \in Roots /\ requests \subseteq ReqSet
      /\ loop \in {"sleep", "stuck", "pin", "done"} /\ running \in BOOLEAN
      /\ lastPins \in [PinServices -> LastSet] /\ task \in [PinServices -> TaskSet]
      /\ waiter \in [Waiters -> WaitSet] /\ removal \in [Removals -> RmSet]
      /\ edits \in 0..MaxEdits /\ rfaults \in 0..MaxFaults
      /\ taken \subseteq [svc : PinServices, name : RemoteNames]
  BY Zenon DEF RemoteTypeOK
<1>f. ASSUME Fault PROVE rfaults' \in 0..MaxFaults BY <1>t, <1>f, RemoteAssumption DEF Fault
<1>e. ASSUME Edit PROVE edits' \in 0..MaxEdits BY <1>t, <1>e, RemoteAssumption DEF Edit
<1>1. ASSUME Poll PROVE RemoteTypeOK'
  <2>1. PICK due \in SUBSET PinServices :
          /\ task' = [s \in PinServices |-> IF s \in due
                        THEN [pc |-> "ls", cid |-> root, cfg |-> services[s], old |-> NoRequest] ELSE Idle]
          /\ loop' = IF due = {} THEN "sleep" ELSE "pin"
    BY <1>1, Zenon DEF Poll
  <2>2. \A s \in PinServices : [pc |-> "ls", cid |-> root, cfg |-> services[s], old |-> NoRequest] \in TaskSet
    <3>1. root \in RemoteCids /\ \A s \in PinServices : services[s] \in Policies BY <1>t, Zenon DEF RemoteCids
    <3> QED BY <3>1, Zenon DEF TaskSet
  <2>3. task' \in [PinServices -> TaskSet] BY <2>1, <2>2, ConstantTypes, Zenon
  <2>4. loop' \in {"sleep", "stuck", "pin", "done"} BY <2>1, Zenon
  <2> QED BY <1>t, <1>1, <2>3, <2>4, ZenonT(60) DEF Poll, userVars, RemoteTypeOK
<1>2. ASSUME PollFails \/ LoopEnds \/ Shutdown PROVE RemoteTypeOK'
  <2>1. CASE PollFails BY <1>t, <1>f, <2>1, Zenon DEF PollFails, userVars, RemoteTypeOK
  <2>2. CASE LoopEnds BY <1>t, <2>2, Zenon DEF LoopEnds, userVars, RemoteTypeOK
  <2>3. CASE Shutdown BY <1>t, <2>3, ZenonT(60) DEF Shutdown, loopVars, userVars, RemoteTypeOK
  <2> QED BY <1>2, <2>1, <2>2, <2>3, Zenon
<1>3. ASSUME NEW s \in PinServices, Ls(s) PROVE RemoteTypeOK'
  <2>1. UNCHANGED <<services, root, requests, userVars, running, edits, rfaults>> BY <1>3, Zenon DEF Ls
  <2>2. \/ \E recent \in BOOLEAN : Collect(s, [Pinned(s) EXCEPT !.recent = recent])
        \/ /\ \E o \in RequestIDs \cup {NoRequest} : task' = [task EXCEPT ![s].pc = "act", ![s].old = o]
           /\ UNCHANGED <<loop, lastPins>>
    <3>1. \A r \in Named(s, task[s].cfg.name) : r.id \in RequestIDs BY <1>t, Zenon DEF ReqSet, Named
    <3>2. ASSUME NEW o, \/ Named(s, task[s].cfg.name) = {} /\ o = NoRequest
                        \/ \E r \in Named(s, task[s].cfg.name) : o = r.id
          PROVE  o \in RequestIDs \cup {NoRequest}
      BY <3>1, <3>2, Zenon
    <3> HIDE DEF Named, NoRequest
    <3> QED BY <1>3, <3>2, LsIs, Zenon
  <2>3. lastPins' \in [PinServices -> LastSet] /\ task' \in [PinServices -> TaskSet]
        /\ loop' \in {"sleep", "stuck", "pin", "done"}
    <3>1. CASE \E recent \in BOOLEAN : Collect(s, [Pinned(s) EXCEPT !.recent = recent])
      <4>1. PICK recent \in BOOLEAN : Collect(s, [Pinned(s) EXCEPT !.recent = recent]) BY <3>1, Zenon
      <4>2. [Pinned(s) EXCEPT !.recent = recent] \in LastSet BY TaskTypes, Zenon
      <4> DEFINE last == [Pinned(s) EXCEPT !.recent = recent]
      <4>3. last \in LastSet /\ Collect(s, last) BY <4>1, <4>2, Zenon
      <4> HIDE DEF last
      <4> QED BY <4>3, CollectIs, Zenon
    <3>2. CASE (\E o \in RequestIDs \cup {NoRequest} : task' = [task EXCEPT ![s].pc = "act", ![s].old = o])
               /\ UNCHANGED <<loop, lastPins>>
      <4>1. PICK o \in RequestIDs \cup {NoRequest} : task' = [task EXCEPT ![s].pc = "act", ![s].old = o] BY <3>2, Zenon
      <4>2. [task[s] EXCEPT !.pc = "act", !.old = o] \in TaskSet BY TaskTypes, ZenonT(60) DEF TaskSet
      <4>3. task' \in [PinServices -> TaskSet] BY <1>t, <4>1, <4>2, Zenon
      <4> QED BY <1>t, <3>2, <4>3, Zenon
    <3> QED BY <2>2, <3>1, <3>2, Zenon
  <2> QED BY <1>t, <2>1, <2>3, Zenon DEF userVars, RemoteTypeOK
<1>a. ASSUME NEW s \in PinServices, Apply(s) PROVE requests' \subseteq ReqSet
  <2>1. Request(s, task[s].cfg.name, task[s].cid) \in ReqSet BY TaskTypes, RequestIs, Zenon
  <2> HIDE DEF Request
  <2> QED BY <1>t, <1>a, <2>1, ZenonT(60) DEF Apply
<1>4. ASSUME NEW s \in PinServices, Act(s) \/ TaskFails(s) PROVE RemoteTypeOK'
  <2>1. UNCHANGED <<services, root, userVars, running, edits>> /\ (Apply(s) \/ requests' = requests)
        /\ (Fault \/ rfaults' = rfaults)
    BY <1>4, Zenon DEF Act, TaskFails
  <2>2. \E last \in LastSet : Collect(s, last)
    <3>1. lastPins[s] \in LastSet BY <1>t, Zenon
    <3> QED BY <1>4, <3>1, TaskTypes, Zenon DEF Act, TaskFails
  <2>3. lastPins' \in [PinServices -> LastSet] /\ task' \in [PinServices -> TaskSet] /\ loop' \in {"sleep", "pin"}
    BY <2>2, CollectIs, ZenonT(60)
  <2>4. requests' \subseteq ReqSet /\ rfaults' \in 0..MaxFaults BY <1>t, <1>a, <1>f, <2>1, Zenon
  <2> QED BY <1>t, <2>1, <2>3, <2>4, Zenon DEF userVars, RemoteTypeOK
<1>5. ASSUME NEW s \in PinServices, IntervalPasses(s) PROVE RemoteTypeOK'
  <2>1. [lastPins[s] EXCEPT !.recent = FALSE] \in LastSet BY <1>t, ZenonT(60) DEF LastSet
  <2>2. lastPins' \in [PinServices -> LastSet] BY <1>t, <1>5, <2>1, Zenon DEF IntervalPasses
  <2> QED BY <1>t, <1>5, <2>2, Zenon DEF IntervalPasses, userVars, RemoteTypeOK
<1>6. ASSUME NEW s \in PinServices, NEW c \in Policies, services' = [services EXCEPT ![s] = c], Edit,
             UNCHANGED <<root, requests, loopVars, userVars, running, rfaults>>
      PROVE  RemoteTypeOK'
  BY <1>t, <1>e, <1>6, Zenon DEF loopVars, userVars, RemoteTypeOK
<1>7. ASSUME NEW s \in PinServices, ServiceAdd(s) \/ ServiceRm(s) \/ \E c \in SvcConfigs : SetPolicy(s, c)
      PROVE  RemoteTypeOK'
  <2>1. \E c \in Policies : services' = [services EXCEPT ![s] = c]
    BY <1>7, ConstantTypes, Zenon DEF ServiceAdd, ServiceRm, SetPolicy
  <2>2. Edit /\ UNCHANGED <<root, requests, loopVars, userVars, running, rfaults>>
    BY <1>7, Zenon DEF ServiceAdd, ServiceRm, SetPolicy
  <2> QED BY <1>6, <2>1, <2>2, Zenon
<1>8. ASSUME NEW c \in Roots, FilesChange(c) PROVE RemoteTypeOK'
  BY <1>t, <1>e, <1>8, Zenon DEF FilesChange, loopVars, userVars, RemoteTypeOK
<1>9. ASSUME NEW w \in Waiters, NEW s \in PinServices, NEW c \in AddCids, Add(w, s, c) PROVE RemoteTypeOK'
  <2>1. Request(s, "user", c) \in ReqSet
    <3>1. c \in RemoteCids BY Zenon DEF RemoteCids
    <3> QED BY <3>1, RequestIs, ConstantTypes, Zenon
  <2>2. FreshID \in RequestIDs BY Fresh, Zenon
  <2> HIDE DEF Request, FreshID
  <2>3. [pc |-> "wait", id |-> FreshID] \in WaitSet BY <2>2, Zenon DEF WaitSet
  <2> QED BY <1>t, <1>9, <2>1, <2>3, ZenonT(60) DEF Add, loopVars, RemoteTypeOK
<1>10. ASSUME NEW w \in Waiters, AddPoll(w) PROVE RemoteTypeOK'
  <2>1. [pc |-> "done", id |-> NoRequest] \in WaitSet BY Zenon DEF WaitSet
  <2>2. rfaults' \in 0..MaxFaults BY <1>t, <1>f, <1>10, Zenon DEF AddPoll
  <2> QED BY <1>t, <1>10, <2>1, <2>2, ZenonT(60) DEF AddPoll, loopVars, RemoteTypeOK
<1>11. ASSUME NEW x \in Removals, NEW v \in RmSet, removal' = [removal EXCEPT ![x] = v], requests' \subseteq ReqSet,
              rfaults' \in 0..MaxFaults, taken' \subseteq [svc : PinServices, name : RemoteNames],
              UNCHANGED <<services, root, loopVars, waiter, running, edits>>
       PROVE  RemoteTypeOK'
  BY <1>t, <1>11, Zenon DEF loopVars, RemoteTypeOK
<1>12. ASSUME NEW x \in Removals, RmList(x) PROVE RemoteTypeOK'
  <2>1. PICK ids \in SUBSET RequestIDs :
          \/ removal' = [removal EXCEPT ![x] = [pc |-> "done", ids |-> {}, gone |-> 0]]
          \/ removal' = [removal EXCEPT ![x] = [pc |-> "delete", ids |-> ids, gone |-> 0]]
    <3> DEFINE ids == {r.id : r \in {q \in requests : PinMatches(q, Filter[x])}}
    <3>1. ids \subseteq RequestIDs BY <1>t, Zenon DEF ReqSet
    <3> QED BY <1>12, <3>1, Zenon DEF RmList
  <2>2. [pc |-> "done", ids |-> {}, gone |-> 0] \in RmSet /\ [pc |-> "delete", ids |-> ids, gone |-> 0] \in RmSet
    BY <2>1, ZenonT(60) DEF RmSet
  <2>3. \E v \in RmSet : removal' = [removal EXCEPT ![x] = v] BY <2>1, <2>2, Zenon
  <2>4. UNCHANGED <<services, root, requests, loopVars, waiter, running, edits, rfaults, taken>>
    BY <1>12, Zenon DEF RmList
  <2> QED BY <1>t, <1>11, <2>3, <2>4, ZenonT(60)
<1>13. ASSUME NEW x \in Removals, RmDelete(x) PROVE RemoteTypeOK'
  <2>1. removal[x] \in RmSet BY <1>t, Zenon
  <2>2. UNCHANGED <<services, root, loopVars, waiter, running, edits>> BY <1>13, Zenon DEF RmDelete
  <2>3. CASE \E r \in requests :
               /\ r.id \in removal[x].ids
               /\ requests' = requests \ {r}
               /\ removal' = [removal EXCEPT ![x].ids = @ \ {r.id}, ![x].gone = @ + 1]
               /\ taken' = taken \cup {[svc |-> r.svc, name |-> r.name]}
               /\ UNCHANGED rfaults
    <3>1. PICK r \in requests :
               /\ requests' = requests \ {r}
               /\ removal' = [removal EXCEPT ![x].ids = @ \ {r.id}, ![x].gone = @ + 1]
               /\ taken' = taken \cup {[svc |-> r.svc, name |-> r.name]}
               /\ UNCHANGED rfaults
      BY <2>3, ZenonT(60)
    <3> DEFINE v == [removal[x] EXCEPT !.ids = @ \ {r.id}, !.gone = @ + 1]
    <3>2. v \in RmSet
      <4>1. removal[x].ids \ {r.id} \in SUBSET RequestIDs /\ removal[x].gone + 1 \in Nat BY <2>1 DEF RmSet
      <4>2. v = [removal[x] EXCEPT !.ids = removal[x].ids \ {r.id}, !.gone = removal[x].gone + 1] BY Zenon
      <4> QED BY <2>1, <4>1, <4>2, ZenonT(60) DEF RmSet
    <3>3. removal' = [removal EXCEPT ![x] = v] BY <1>t, <3>1, ZenonT(60)
    <3>4. [svc |-> r.svc, name |-> r.name] \in [svc : PinServices, name : RemoteNames] BY <1>t, Zenon DEF ReqSet
    <3>5. requests' \subseteq ReqSet /\ taken' \subseteq [svc : PinServices, name : RemoteNames] /\ rfaults' \in 0..MaxFaults
      BY <1>t, <3>1, <3>4, Zenon
    <3> HIDE DEF v
    <3> QED BY <1>11, <2>2, <3>2, <3>3, <3>5, ZenonT(60)
  <2>4. CASE /\ \/ removal' = [removal EXCEPT ![x].pc = "done"]
                \/ removal' = [removal EXCEPT ![x].pc = "done", ![x].ids = {}]
             /\ UNCHANGED <<requests, taken>>
             /\ Fault \/ UNCHANGED rfaults
    <3>1. [removal[x] EXCEPT !.pc = "done"] \in RmSet /\ [removal[x] EXCEPT !.pc = "done", !.ids = {}] \in RmSet
      BY <2>1, ZenonT(60) DEF RmSet
    <3>2. \/ removal' = [removal EXCEPT ![x] = [removal[x] EXCEPT !.pc = "done"]]
          \/ removal' = [removal EXCEPT ![x] = [removal[x] EXCEPT !.pc = "done", !.ids = {}]]
      BY <1>t, <2>4, Zenon
    <3>3. \E v \in RmSet : removal' = [removal EXCEPT ![x] = v] BY <3>1, <3>2, Zenon
    <3> QED BY <1>t, <1>f, <1>11, <2>2, <2>4, <3>3, ZenonT(60)
  <2> QED BY <1>13, <2>3, <2>4, Zenon DEF RmDelete
<1>14. ASSUME NEW r \in requests, NEW v \in {"pinned", "failed"}, Settle(r, v) PROVE RemoteTypeOK'
  <2>1. [r EXCEPT !.status = v] \in ReqSet BY <1>t, Zenon DEF ReqSet, Statuses
  <2> QED BY <1>t, <1>14, <2>1, Zenon DEF Settle, loopVars, userVars, RemoteTypeOK
<1> QED BY <1>1, <1>2, <1>3, <1>4, <1>5, <1>7, <1>8, <1>9, <1>10, <1>12, <1>13, <1>14, Zenon DEF RemoteNext, LoopStep

-----------------------------------------------------------------------------
(* The pins of the root *)

CoreInv == UniqueIDs /\ ActInv /\ OneMfsPin /\ LastPinReal

\* LastPinReal of one service, with the state as parameters.
LastOf(s, l, reqs, lost, gone) ==
  \/ l = Never
  \/ \E r \in reqs : r.svc = s /\ r.name = l.cfg.name /\ (r.cid = l.cid \/ lost > 0)
  \/ [svc |-> s, name |-> l.cfg.name] \in gone

LEMMA LastIs ==
  /\ LastPinReal <=> \A s \in PinServices : LastOf(s, lastPins[s], requests, rfaults, taken)
  /\ LastPinReal' <=> \A s \in PinServices : LastOf(s, lastPins'[s], requests', rfaults', taken')
BY Zenon DEF LastPinReal, LastOf, Named

\* What happens away from the requests.
CalmAt(s) ==
  /\ lastPins'[s].cid = lastPins[s].cid /\ lastPins'[s].cfg = lastPins[s].cfg
  /\ lastPins[s] = Never => lastPins'[s] = Never

StillActs == \A s \in PinServices : task'[s].pc = "act" => task'[s] = task[s]

MoreFaults == rfaults > 0 => rfaults' > 0

\* A remembered pin stays real when its request has a successor.
LEMMA LastKept ==
  ASSUME NEW s \in PinServices, LastPinReal, CalmAt(s), taken \subseteq taken', MoreFaults,
         \A r \in requests : r.svc = s =>
           \/ [svc |-> s, name |-> r.name] \in taken'
           \/ \E q \in requests' : q.svc = s /\ q.name = r.name /\ (q.cid = r.cid \/ rfaults' > 0)
  PROVE  LastOf(s, lastPins'[s], requests', rfaults', taken')
<1> DEFINE l == lastPins[s]
           m == lastPins'[s]
<1>0. /\ LastOf(s, l, requests, rfaults, taken)
      /\ m.cfg = l.cfg /\ m.cid = l.cid /\ (l = Never => m = Never)
  BY LastIs, Zenon DEF CalmAt
<1> HIDE DEF Never, l, m
<1> SUFFICES LastOf(s, m, requests', rfaults', taken') BY ZenonT(60) DEF m
<1>1. CASE l = Never BY <1>0, <1>1, Zenon DEF LastOf
<1>2. CASE [svc |-> s, name |-> l.cfg.name] \in taken
  <2>1. [svc |-> s, name |-> m.cfg.name] \in taken' BY <1>0, <1>2, ZenonT(60)
  <2> QED BY <2>1, Zenon DEF LastOf
<1>3. CASE \E r \in requests : r.svc = s /\ r.name = l.cfg.name /\ (r.cid = l.cid \/ rfaults > 0)
  <2>1. PICK r \in requests : r.svc = s /\ r.name = m.cfg.name /\ (r.cid = m.cid \/ rfaults > 0) BY <1>0, <1>3, Zenon
  <2>2. CASE [svc |-> s, name |-> r.name] \in taken' BY <2>1, <2>2, Zenon DEF LastOf
  <2>3. CASE \E q \in requests' : q.svc = s /\ q.name = r.name /\ (q.cid = r.cid \/ rfaults' > 0)
    BY <2>1, <2>3, Zenon DEF LastOf, MoreFaults
  <2> QED BY <2>1, <2>2, <2>3, Zenon
<1> QED BY <1>0, <1>1, <1>2, <1>3, Zenon DEF LastOf

\* A goroutine about to replace a request is not disturbed: what is new under
\* its name would be its own.
LEMMA ActKeeps ==
  ASSUME ActInv, StillActs, RemoteTypeOK,
         \A r \in requests' :
           \/ \E q \in requests : q.id = r.id /\ q.svc = r.svc /\ q.name = r.name
           \/ /\ \A s \in PinServices : task[s].old # r.id
              /\ r.name = "user" \/ task'[r.svc].pc # "act"
  PROVE  ActInv'
<1> SUFFICES ASSUME NEW s \in PinServices, task'[s].pc = "act"
             PROVE  /\ \A r \in requests' : r.id = task'[s].old => r.svc = s /\ r.name = task'[s].cfg.name
                    /\ task'[s].cfg.name # "user" =>
                         \A r \in requests' : r.svc = s /\ r.name = task'[s].cfg.name => r.id = task'[s].old
  BY Zenon DEF ActInv, Named
<1>1. task'[s] = task[s] /\ task[s].pc = "act" BY Zenon DEF StillActs
<1>2. /\ \A r \in requests : r.id = task[s].old => r.svc = s /\ r.name = task[s].cfg.name
      /\ task[s].cfg.name # "user" =>
           \A r \in requests : r.svc = s /\ r.name = task[s].cfg.name => r.id = task[s].old
  BY <1>1, Zenon DEF ActInv, Named
<1>3. ASSUME NEW r \in requests', r.id = task[s].old PROVE r.svc = s /\ r.name = task[s].cfg.name
  BY <1>2, <1>3, Zenon
<1>4. ASSUME NEW r \in requests', task[s].cfg.name # "user", r.svc = s, r.name = task[s].cfg.name
      PROVE  r.id = task[s].old
  BY <1>2, <1>4, Zenon
<1> QED BY <1>1, <1>3, <1>4, ZenonT(60)

\* A step that leaves the requests alone.
LEMMA QuietStep ==
  ASSUME RemoteTypeOK, CoreInv, requests' = requests, taken' = taken, MoreFaults, StillActs,
         \A s \in PinServices : CalmAt(s)
  PROVE  CoreInv'
<1>1. UniqueIDs' /\ OneMfsPin' BY Zenon DEF CoreInv, UniqueIDs, OneMfsPin
<1>2. ActInv' BY ActKeeps, Zenon DEF CoreInv
<1>3. LastPinReal'
  <2>1. ASSUME NEW s \in PinServices PROVE LastOf(s, lastPins'[s], requests', rfaults', taken')
    <3> QED BY LastKept, Zenon DEF CoreInv
  <2> QED BY <2>1, LastIs, Zenon
<1> QED BY <1>1, <1>2, <1>3, Zenon DEF CoreInv

\* A user's request is added.
LEMMA AddStep ==
  ASSUME RemoteTypeOK, IDsLeft, CoreInv, NEW w \in Waiters, NEW s \in PinServices, NEW c \in AddCids, Add(w, s, c)
  PROVE  CoreInv'
<1>1. c \in RemoteCids /\ "user" \in RemoteNames BY ConstantTypes, Zenon DEF RemoteCids
<1>2. PICK n : n = Request(s, "user", c) BY Zenon
<1>3. n.id = FreshID /\ n.svc = s /\ n.name = "user" BY <1>1, <1>2, RequestIs
<1>4. requests' = requests \cup {n} /\ taken' = taken /\ rfaults' = rfaults /\ task' = task /\ lastPins' = lastPins
  BY <1>2, Zenon DEF Add, loopVars
<1>5. /\ \A r \in requests : r.id # n.id
      /\ \A u \in PinServices : task[u].old # n.id
  BY <1>3, Fresh, Zenon
<1>6. UniqueIDs' /\ OneMfsPin' BY <1>3, <1>4, <1>5, Zenon DEF CoreInv, UniqueIDs, OneMfsPin
<1>7. ActInv'
  <2>1. StillActs BY <1>4, ZenonT(60) DEF StillActs
  <2> QED BY <1>3, <1>4, <1>5, <2>1, ActKeeps, ZenonT(60) DEF CoreInv
<1>8. LastPinReal'
  <2>1. ASSUME NEW u \in PinServices PROVE LastOf(u, lastPins'[u], requests', rfaults', taken')
    <3>1. CalmAt(u) BY <1>4, Zenon DEF CalmAt
    <3>m. MoreFaults BY <1>4, Zenon DEF MoreFaults
    <3> QED BY <1>4, <3>1, <3>m, LastKept, Zenon DEF CoreInv
  <2> QED BY <2>1, LastIs, Zenon
<1> QED BY <1>6, <1>7, <1>8, Zenon DEF CoreInv

\* A user's removal is on record.
LEMMA RemoveStep ==
  ASSUME RemoteTypeOK, CoreInv, NEW d \in requests, requests' = requests \ {d},
         taken' = taken \cup {[svc |-> d.svc, name |-> d.name]},
         rfaults' = rfaults, task' = task, lastPins' = lastPins
  PROVE  CoreInv'
<1>1. UniqueIDs' /\ OneMfsPin' BY Zenon DEF CoreInv, UniqueIDs, OneMfsPin
<1>2. ActInv'
  <2>1. StillActs BY ZenonT(60) DEF StillActs
  <2> QED BY <2>1, ActKeeps, ZenonT(60) DEF CoreInv
<1>3. LastPinReal'
  <2>1. ASSUME NEW u \in PinServices PROVE LastOf(u, lastPins'[u], requests', rfaults', taken')
    <3>1. CalmAt(u) BY Zenon DEF CalmAt
    <3>m. MoreFaults BY Zenon DEF MoreFaults
    <3>2. ASSUME NEW r \in requests, r.svc = u
          PROVE  \/ [svc |-> u, name |-> r.name] \in taken'
                 \/ \E q \in requests' : q.svc = u /\ q.name = r.name /\ (q.cid = r.cid \/ rfaults' > 0)
      BY <3>2, Zenon
    <3> QED BY <3>1, <3>2, <3>m, LastKept, Zenon DEF CoreInv
  <2> QED BY <2>1, LastIs, Zenon
<1> QED BY <1>1, <1>2, <1>3, Zenon DEF CoreInv

\* A service that settles a request keeps its ID, name and CID.
LEMMA SettleStep ==
  ASSUME RemoteTypeOK, CoreInv, NEW d \in requests, NEW v \in {"pinned", "failed"}, Settle(d, v)
  PROVE  CoreInv'
<1>1. PICK n : n = [d EXCEPT !.status = v] BY ZenonT(60)
<1>2. n.id = d.id /\ n.svc = d.svc /\ n.name = d.name /\ n.cid = d.cid BY <1>1, Zenon DEF RemoteTypeOK, ReqSet
<1>3. requests' = (requests \ {d}) \cup {n} /\ taken' = taken /\ rfaults' = rfaults /\ task' = task /\ lastPins' = lastPins
  BY <1>1, Zenon DEF Settle, loopVars, userVars
<1>u. UniqueIDs'
  <2>1. ASSUME NEW r \in requests', NEW q \in requests', r.id = q.id PROVE r = q
    BY <1>2, <1>3, <2>1, Zenon DEF CoreInv, UniqueIDs
  <2> QED BY <2>1, Zenon DEF UniqueIDs
<1>4. OneMfsPin'
  <2>1. ASSUME NEW r \in requests', NEW q \in requests', r.svc = q.svc, r.name = q.name, r.name # "user" PROVE r = q
    BY <1>2, <1>3, <2>1, Zenon DEF CoreInv, OneMfsPin
  <2> QED BY <2>1, Zenon DEF OneMfsPin
<1>5. ActInv'
  <2>1. StillActs BY <1>3, Zenon DEF StillActs
  <2>2. \A r \in requests' : \E q \in requests : q.id = r.id /\ q.svc = r.svc /\ q.name = r.name
    BY <1>2, <1>3, Zenon
  <2> QED BY <2>1, <2>2, ActKeeps, Zenon DEF CoreInv
<1>6. LastPinReal'
  <2>1. ASSUME NEW u \in PinServices PROVE LastOf(u, lastPins'[u], requests', rfaults', taken')
    <3>1. CalmAt(u) BY <1>3, Zenon DEF CalmAt
    <3>m. MoreFaults BY <1>3, Zenon DEF MoreFaults
    <3>2. ASSUME NEW r \in requests, r.svc = u
          PROVE  \E q \in requests' : q.svc = u /\ q.name = r.name /\ (q.cid = r.cid \/ rfaults' > 0)
      <4>1. CASE r = d
        <5>1. n \in requests' BY <1>3, Zenon
        <5> QED BY <1>2, <3>2, <4>1, <5>1, Zenon
      <4>2. CASE r # d BY <1>3, <3>2, <4>2, Zenon
      <4> QED BY <4>1, <4>2, ZenonT(60)
    <3> QED BY <1>3, <3>1, <3>2, <3>m, LastKept, Zenon DEF CoreInv
  <2> QED BY <2>1, LastIs, Zenon
<1> QED BY <1>u, <1>4, <1>5, <1>6, Zenon DEF CoreInv

\* A goroutine replaces what it listed, or creates the first pin of its name;
\* the answer arrives, or is lost and counted.
LEMMA ApplyStep ==
  ASSUME RemoteTypeOK, IDsLeft, CoreInv, NEW s \in PinServices, NEW last \in LastSet,
         task[s].pc = "act", Apply(s), Collect(s, last), taken' = taken, MoreFaults,
         \/ last = Pinned(s)
         \/ last = lastPins[s] /\ rfaults' > 0
  PROVE  CoreInv'
<1>1. PICK n : n = Request(s, task[s].cfg.name, task[s].cid) BY ZenonT(60)
<1>2. n.id = FreshID /\ n.svc = s /\ n.name = task[s].cfg.name /\ n.cid = task[s].cid
  BY <1>1, RequestIs, TaskTypes
<1>3. requests' = {r \in requests : r.id # task[s].old} \cup {n} BY <1>1, Zenon DEF Apply
<1>4. /\ \A r \in requests : r.id # n.id
      /\ \A u \in PinServices : task[u].old # n.id
  BY <1>2, Fresh, Zenon
<1>5. /\ lastPins'[s] = last /\ task'[s].pc = "idle"
      /\ \A u \in PinServices \ {s} : lastPins'[u] = lastPins[u] /\ task'[u] = task[u]
  BY CollectIs, ZenonT(60)
<1>6. /\ \A r \in requests : r.id = task[s].old => r.svc = s /\ r.name = task[s].cfg.name
      /\ task[s].cfg.name # "user" => \A r \in requests : r.svc = s /\ r.name = task[s].cfg.name => r.id = task[s].old
  BY Zenon DEF CoreInv, ActInv, Named
<1>7. UniqueIDs'
  <2>1. ASSUME NEW r \in requests', NEW q \in requests', r.id = q.id PROVE r = q
    BY <1>3, <1>4, <2>1, Zenon DEF CoreInv, UniqueIDs
  <2> QED BY <2>1, Zenon DEF UniqueIDs
<1>8. OneMfsPin'
  <2>1. ASSUME NEW r \in requests', NEW q \in requests', r.svc = q.svc, r.name = q.name, r.name # "user" PROVE r = q
    <3>1. ASSUME NEW o \in requests', o.svc = n.svc, o.name = n.name, o.name # "user" PROVE o = n
      BY <1>2, <1>3, <1>6, <3>1, Zenon
    <3> QED BY <1>3, <2>1, <3>1, Zenon DEF CoreInv, OneMfsPin
  <2> QED BY <2>1, Zenon DEF OneMfsPin
<1>9. ActInv'
  <2>1. StillActs
    <3> SUFFICES ASSUME NEW u \in PinServices, task'[u].pc = "act" PROVE task'[u] = task[u] BY ZenonT(60) DEF StillActs
    <3>1. "act" # "idle" BY Zenon
    <3> QED BY <1>5, <3>1, Zenon
  <2>2. \A r \in requests' :
           \/ \E q \in requests : q.id = r.id /\ q.svc = r.svc /\ q.name = r.name
           \/ /\ \A u \in PinServices : task[u].old # r.id
              /\ task'[r.svc].pc # "act"
    <3>1. task'[n.svc].pc # "act" BY <1>2, <1>5, Zenon
    <3> QED BY <1>3, <1>4, <3>1, Zenon
  <2> QED BY <2>1, <2>2, ActKeeps, ZenonT(60) DEF CoreInv
<1>10. LastPinReal'
  <2>n. n \in requests' BY <1>3, ZenonT(60)
  <2>1. ASSUME NEW u \in PinServices PROVE LastOf(u, lastPins'[u], requests', rfaults', taken')
    <3>1. (u = s /\ last = Pinned(s)) \/ CalmAt(u) BY <1>5, ZenonT(60) DEF CalmAt
    <3>2. CASE u # s
      <4>1. ASSUME NEW r \in requests, r.svc = u PROVE r \in requests'
        BY <1>3, <1>6, <3>2, <4>1, Zenon
      <4> QED BY <1>5, <3>1, <3>2, <4>1, LastKept, ZenonT(60) DEF CoreInv
    <3>3. CASE u = s /\ last = Pinned(s)
      <4>1. last.cfg.name = n.name /\ last.cid = n.cid BY <1>2, <3>3, ZenonT(60) DEF Pinned
      <4> QED BY <1>2, <1>5, <2>n, <3>3, <4>1, Zenon DEF LastOf
    <3>4. CASE u = s /\ last = lastPins[s] /\ rfaults' > 0
      <4>1. ASSUME NEW r \in requests, r.svc = s
            PROVE  \E q \in requests' : q.svc = s /\ q.name = r.name /\ (q.cid = r.cid \/ rfaults' > 0)
        BY <1>2, <1>3, <1>6, <2>n, <3>4, <4>1, Zenon
      <4>2. CalmAt(s) BY <1>5, <3>4, ZenonT(60) DEF CalmAt
      <4> QED BY <3>4, <4>1, <4>2, LastKept, Zenon DEF CoreInv
    <3> QED BY <3>2, <3>3, <3>4, Zenon
  <2> QED BY <2>1, LastIs, Zenon
<1> QED BY <1>7, <1>8, <1>9, <1>10, Zenon DEF CoreInv

\* A goroutine finds the pin it wants, or remembers the only one of its name.
LEMMA LsStep ==
  ASSUME RemoteTypeOK, CoreInv, NEW s \in PinServices, Ls(s)
  PROVE  CoreInv'
<1>1. requests' = requests /\ taken' = taken /\ rfaults' = rfaults BY Zenon DEF Ls, userVars
<1>2. UniqueIDs' /\ OneMfsPin' BY <1>1, Zenon DEF CoreInv, UniqueIDs, OneMfsPin
<1>m. MoreFaults BY <1>1, Zenon DEF MoreFaults
<1>3. CASE /\ \E r \in Named(s, task[s].cfg.name) : r.cid = task[s].cid
           /\ \E recent \in BOOLEAN : Collect(s, [Pinned(s) EXCEPT !.recent = recent])
  <2>1. PICK recent \in BOOLEAN : Collect(s, [Pinned(s) EXCEPT !.recent = recent]) BY <1>3, Zenon
  <2>2. PICK last : last = [Pinned(s) EXCEPT !.recent = recent] BY ZenonT(60)
  <2>3. last \in LastSet /\ last.cid = task[s].cid /\ last.cfg = task[s].cfg BY <2>2, TaskTypes, Zenon DEF Pinned
  <2>4. /\ lastPins'[s] = last /\ task'[s].pc = "idle"
        /\ \A u \in PinServices \ {s} : lastPins'[u] = lastPins[u] /\ task'[u] = task[u]
    BY <2>1, <2>2, <2>3, CollectIs, Zenon
  <2>5. ActInv'
    <3>1. StillActs
      <4> SUFFICES ASSUME NEW u \in PinServices, task'[u].pc = "act" PROVE task'[u] = task[u] BY Zenon DEF StillActs
      <4>1. "act" # "idle" BY Zenon
      <4> QED BY <2>4, <4>1, Zenon
    <3> QED BY <1>1, <3>1, ActKeeps, ZenonT(60) DEF CoreInv
  <2>6. LastPinReal'
    <3>1. ASSUME NEW u \in PinServices PROVE LastOf(u, lastPins'[u], requests', rfaults', taken')
      <4>1. CASE u = s BY <1>1, <1>3, <2>3, <2>4, <4>1, Zenon DEF LastOf, Named
      <4>2. CASE u # s
        <5>1. CalmAt(u) BY <2>4, <4>2, Zenon DEF CalmAt
        <5> QED BY <1>1, <1>m, <5>1, LastKept, Zenon DEF CoreInv
      <4> QED BY <4>1, <4>2, Zenon
    <3> QED BY <3>1, LastIs, Zenon
  <2> QED BY <1>2, <2>5, <2>6, Zenon DEF CoreInv
<1>4. CASE /\ \E o : /\ task' = [task EXCEPT ![s].pc = "act", ![s].old = o]
                     /\ \/ Named(s, task[s].cfg.name) = {} /\ o = NoRequest
                        \/ \E r \in Named(s, task[s].cfg.name) : o = r.id
           /\ UNCHANGED <<loop, lastPins>>
  <2>1. PICK o : /\ task' = [task EXCEPT ![s].pc = "act", ![s].old = o]
                 /\ \/ Named(s, task[s].cfg.name) = {} /\ o = NoRequest
                    \/ \E r \in Named(s, task[s].cfg.name) : o = r.id
    BY <1>4, Zenon
  <2>2. /\ task'[s].old = o /\ task'[s].cfg = task[s].cfg
        /\ \A u \in PinServices \ {s} : task'[u] = task[u]
    BY <2>1, TaskTypes, Zenon DEF RemoteTypeOK, TaskSet
  <2>3. /\ \A r \in requests : r.id = o => r.svc = s /\ r.name = task[s].cfg.name
        /\ task[s].cfg.name # "user" => \A r \in requests : r.svc = s /\ r.name = task[s].cfg.name => r.id = o
    <3>1. CASE Named(s, task[s].cfg.name) = {} /\ o = NoRequest
      <4>1. \A r \in requests : r.id # NoRequest BY RemoteAssumption, Zenon DEF RemoteTypeOK, ReqSet
      <4> QED BY <3>1, <4>1, Zenon DEF Named
    <3>2. CASE \E r \in Named(s, task[s].cfg.name) : o = r.id
      <4>1. PICK r \in requests : r.svc = s /\ r.name = task[s].cfg.name /\ o = r.id BY <3>2, Zenon DEF Named
      <4> QED BY <4>1, Zenon DEF CoreInv, UniqueIDs, OneMfsPin
    <3> QED BY <2>1, <3>1, <3>2, Zenon
  <2>4. ActInv'
    <3>1. ASSUME NEW u \in PinServices, task'[u].pc = "act"
          PROVE  /\ \A r \in requests' : r.id = task'[u].old => r.svc = u /\ r.name = task'[u].cfg.name
                 /\ task'[u].cfg.name # "user" =>
                      \A r \in requests' : r.svc = u /\ r.name = task'[u].cfg.name => r.id = task'[u].old
      <4>1. CASE u = s BY <1>1, <2>2, <2>3, <4>1, ZenonT(60)
      <4>2. CASE u # s
        <5>1. task'[u] = task[u] BY <2>2, <4>2, Zenon
        <5>2. /\ \A r \in requests : r.id = task[u].old => r.svc = u /\ r.name = task[u].cfg.name
              /\ task[u].cfg.name # "user" =>
                   \A r \in requests : r.svc = u /\ r.name = task[u].cfg.name => r.id = task[u].old
          BY <3>1, <5>1, Zenon DEF CoreInv, ActInv, Named
        <5> QED BY <1>1, <5>1, <5>2, Zenon
      <4> QED BY <4>1, <4>2, ZenonT(60)
    <3> QED BY <3>1, Zenon DEF ActInv, Named
  <2>5. LastPinReal' BY <1>1, <1>4, Zenon DEF CoreInv, LastPinReal, Named
  <2> QED BY <1>2, <2>4, <2>5, Zenon DEF CoreInv
<1> QED BY <1>3, <1>4, LsIs, Zenon

LEMMA CoreStep ==
  ASSUME RemoteTypeOK, IDsLeft, CoreInv, RemoteNext
  PROVE  CoreInv'
<1>t. rfaults \in Nat /\ lastPins \in [PinServices -> LastSet] BY RemoteAssumption DEF RemoteTypeOK
<1>f. ASSUME Fault PROVE rfaults' > 0 BY <1>t, <1>f DEF Fault
<1>m. ASSUME Fault \/ rfaults' = rfaults PROVE MoreFaults BY <1>f, <1>m, Zenon DEF MoreFaults
<1>c. ASSUME lastPins' = lastPins PROVE \A s \in PinServices : CalmAt(s) BY <1>c, Zenon DEF CalmAt
<1>1. ASSUME requests' = requests, taken' = taken, Fault \/ rfaults' = rfaults, lastPins' = lastPins, task' = task
      PROVE  CoreInv'
  <2>1. StillActs BY <1>1, Zenon DEF StillActs
  <2> QED BY <1>1, <1>m, <1>c, <2>1, QuietStep, Zenon
<1>2. CASE Poll
  <2>1. requests' = requests /\ taken' = taken /\ rfaults' = rfaults /\ lastPins' = lastPins
    BY <1>2, Zenon DEF Poll, userVars
  <2>2. PICK due :
          task' = [s \in PinServices |-> IF s \in due
                      THEN [pc |-> "ls", cid |-> root, cfg |-> services[s], old |-> NoRequest] ELSE Idle]
    BY <1>2, Zenon DEF Poll
  <2>3. \A s \in PinServices : task'[s].pc # "act" BY <2>2, ZenonT(60) DEF Idle
  <2>4. StillActs BY <2>3, Zenon DEF StillActs
  <2> QED BY <1>m, <1>c, <2>1, <2>4, QuietStep, Zenon
<1>3. CASE PollFails \/ LoopEnds \/ Shutdown
  BY <1>1, <1>3, Zenon DEF PollFails, LoopEnds, Shutdown, userVars, loopVars
<1>4. ASSUME NEW s \in PinServices, IntervalPasses(s) PROVE CoreInv'
  <2>1. requests' = requests /\ taken' = taken /\ rfaults' = rfaults /\ task' = task
        /\ lastPins[s].recent /\ lastPins' = [lastPins EXCEPT ![s].recent = FALSE]
    BY <1>4, Zenon DEF IntervalPasses, userVars
  <2>2. ASSUME NEW u \in PinServices PROVE CalmAt(u)
    <3>1. lastPins[s] # Never BY <2>1 DEF Never
    <3>2. lastPins[s] \in LastSet /\ lastPins[u] \in LastSet BY <1>t, Zenon
    <3>3. lastPins'[u] = IF u = s THEN [lastPins[s] EXCEPT !.recent = FALSE] ELSE lastPins[u] BY <1>t, <2>1, Zenon
    <3> HIDE DEF Never
    <3>4. CASE u = s BY <3>1, <3>2, <3>3, <3>4, Zenon DEF CalmAt, LastSet
    <3>5. CASE u # s BY <3>3, <3>5, Zenon DEF CalmAt
    <3> QED BY <3>4, <3>5, Zenon
  <2>3. StillActs BY <2>1, Zenon DEF StillActs
  <2> QED BY <1>m, <2>1, <2>2, <2>3, QuietStep, Zenon
<1>5. ASSUME NEW s \in PinServices, ServiceAdd(s) \/ ServiceRm(s) \/ \E c \in SvcConfigs : SetPolicy(s, c)
      PROVE  CoreInv'
  BY <1>1, <1>5, Zenon DEF ServiceAdd, ServiceRm, SetPolicy, userVars, loopVars
<1>6. ASSUME NEW c \in Roots, FilesChange(c) PROVE CoreInv'
  BY <1>1, <1>6, Zenon DEF FilesChange, userVars, loopVars
<1>7. ASSUME NEW w \in Waiters, AddPoll(w) PROVE CoreInv' BY <1>1, <1>7, Zenon DEF AddPoll, loopVars
<1>8. ASSUME NEW x \in Removals, RmList(x) PROVE CoreInv' BY <1>1, <1>8, Zenon DEF RmList, loopVars
<1>9. ASSUME NEW x \in Removals, RmDelete(x) PROVE CoreInv'
  <2>1. task' = task /\ lastPins' = lastPins BY <1>9, Zenon DEF RmDelete, loopVars
  <2>2. \/ \E d \in requests : /\ requests' = requests \ {d} /\ rfaults' = rfaults
                               /\ taken' = taken \cup {[svc |-> d.svc, name |-> d.name]}
        \/ requests' = requests /\ taken' = taken /\ (Fault \/ rfaults' = rfaults)
    BY <1>9, Zenon DEF RmDelete
  <2> QED BY <1>1, <2>1, <2>2, RemoveStep, Zenon
<1>10. ASSUME NEW s \in PinServices, Act(s) PROVE CoreInv'
  <2>1. /\ task[s].pc = "act" /\ Apply(s) /\ Collect(s, Pinned(s)) /\ taken' = taken /\ rfaults' = rfaults
    BY <1>10, Zenon DEF Act, userVars
  <2> QED BY <1>m, <2>1, TaskTypes, ApplyStep, Zenon
<1>11. ASSUME NEW s \in PinServices, TaskFails(s) PROVE CoreInv'
  <2>1. Collect(s, lastPins[s]) /\ taken' = taken /\ lastPins[s] \in LastSet
    BY <1>11, <1>t, Zenon DEF TaskFails, userVars
  <2>2. CASE requests' = requests /\ (Fault \/ rfaults' = rfaults)
    <3>1. /\ lastPins'[s] = lastPins[s] /\ task'[s].pc = "idle"
          /\ \A u \in PinServices \ {s} : lastPins'[u] = lastPins[u] /\ task'[u] = task[u]
      BY <2>1, CollectIs, ZenonT(60)
    <3>2. \A u \in PinServices : CalmAt(u) BY <3>1, ZenonT(60) DEF CalmAt
    <3>3. StillActs
      <4> SUFFICES ASSUME NEW u \in PinServices, task'[u].pc = "act" PROVE task'[u] = task[u] BY Zenon DEF StillActs
      <4>1. "act" # "idle" BY Zenon
      <4> QED BY <3>1, <4>1, Zenon
    <3> QED BY <1>m, <2>1, <2>2, <3>2, <3>3, QuietStep, Zenon
  <2>3. CASE task[s].pc = "act" /\ Apply(s) /\ Fault BY <1>f, <1>m, <2>1, <2>3, ApplyStep, Zenon
  <2> QED BY <1>11, <2>2, <2>3, Zenon DEF TaskFails
<1> QED BY <1>2, <1>3, <1>4, <1>5, <1>6, <1>7, <1>8, <1>9, <1>10, <1>11, LsStep, AddStep, SettleStep, ZenonT(60)
        DEF RemoteNext, LoopStep

-----------------------------------------------------------------------------
(* Removals, and the IDs a service has given out *)

LEMMA FiniteImage ==
  ASSUME NEW S, IsFiniteSet(S), NEW f
  PROVE  IsFiniteSet({f[x] : x \in S})
<1> DEFINE T == {f[x] : x \in S}
           g == [x \in S |-> f[x]]
<1>1. g \in Surjection(S, T) BY Zenon DEF Surjection
<1> HIDE DEF g, T
<1>2. IsFiniteSet(T) BY <1>1, FS_Surjection, Zenon
<1> QED BY <1>2, Zenon DEF T

\* The IDs of the requests a filter matches.
LEMMA MatchFinite ==
  ASSUME FiniteInv, NEW x \in Removals
  PROVE  IsFiniteSet({r.id : r \in {q \in requests : PinMatches(q, Filter[x])}})
<1> DEFINE match == {q \in requests : PinMatches(q, Filter[x])}
           g == [r \in match |-> r.id]
<1>1. IsFiniteSet(match) BY FS_Subset, ZenonT(60) DEF FiniteInv
<1> HIDE DEF match
<1>2. {r.id : r \in match} = {g[r] : r \in match} BY Zenon
<1> HIDE DEF g
<1>3. IsFiniteSet({g[r] : r \in match}) BY <1>1, FiniteImage, Zenon
<1> QED BY <1>2, <1>3, Zenon DEF match

\* A removal deletes a request it has in hand, or ends.
LEMMA RmDeleteIs ==
  ASSUME RemoteTypeOK, NEW x \in Removals, RmDelete(x)
  PROVE  \/ \E i \in removal[x].ids : removal'[x].ids = removal[x].ids \ {i} /\ removal'[x].gone = removal[x].gone + 1
         \/ removal'[x].gone = removal[x].gone /\ (removal'[x].ids = removal[x].ids \/ removal'[x].ids = {})
<1>t. removal \in [Removals -> RmSet] /\ removal[x] \in RmSet BY Zenon DEF RemoteTypeOK
<1>1. CASE \E r \in requests : r.id \in removal[x].ids
                              /\ removal' = [removal EXCEPT ![x].ids = @ \ {r.id}, ![x].gone = @ + 1]
  <2>1. PICK r \in requests : r.id \in removal[x].ids
                              /\ removal' = [removal EXCEPT ![x].ids = @ \ {r.id}, ![x].gone = @ + 1]
    BY <1>1, ZenonT(60)
  <2>2. removal'[x] = [removal[x] EXCEPT !.ids = removal[x].ids \ {r.id}, !.gone = removal[x].gone + 1] BY <1>t, <2>1, Zenon
  <2>3. removal'[x].ids = removal[x].ids \ {r.id} /\ removal'[x].gone = removal[x].gone + 1 BY <1>t, <2>2, Zenon DEF RmSet
  <2> QED BY <2>1, <2>3, ZenonT(60)
<1>2. CASE removal' = [removal EXCEPT ![x].pc = "done"]
  <2>1. removal'[x] = [removal[x] EXCEPT !.pc = "done"] BY <1>t, <1>2, Zenon
  <2> QED BY <1>t, <2>1, Zenon DEF RmSet
<1>3. CASE removal' = [removal EXCEPT ![x].pc = "done", ![x].ids = {}]
  <2>1. removal'[x] = [removal[x] EXCEPT !.pc = "done", !.ids = {}] BY <1>t, <1>3, Zenon
  <2> QED BY <1>t, <2>1, Zenon DEF RmSet
<1> QED BY <1>1, <1>2, <1>3, Zenon DEF RmDelete

LEMMA FiniteStep ==
  ASSUME RemoteTypeOK, FiniteInv, RemoteNext
  PROVE  FiniteInv'
<1>1. CASE IsFiniteSet(requests') /\ removal' = removal BY <1>1, Zenon DEF FiniteInv
<1>a. ASSUME NEW s \in PinServices, Apply(s) PROVE IsFiniteSet(requests')
  <2>1. IsFiniteSet({r \in requests : r.id # task[s].old}) BY FS_Subset, Zenon DEF FiniteInv
  <2> QED BY <1>a, <2>1, FS_AddElement, Zenon DEF Apply
<1>2. CASE LoopStep \/ PollFails \/ Shutdown
  <2>1. removal' = removal /\ (requests' = requests \/ \E s \in PinServices : Apply(s))
    BY <1>2, Zenon DEF LoopStep, PollFails, Shutdown, Poll, LoopEnds, Ls, Act, TaskFails, userVars
  <2> QED BY <1>1, <1>a, <2>1, Zenon DEF FiniteInv
<1>3. ASSUME NEW s \in PinServices, IntervalPasses(s) \/ ServiceAdd(s) \/ ServiceRm(s) \/ \E c \in SvcConfigs : SetPolicy(s, c)
      PROVE  FiniteInv'
  BY <1>1, <1>3, Zenon DEF IntervalPasses, ServiceAdd, ServiceRm, SetPolicy, userVars, FiniteInv
<1>4. ASSUME NEW w \in Waiters, NEW s \in PinServices, NEW c \in AddCids, Add(w, s, c) PROVE FiniteInv'
  BY <1>1, <1>4, FS_AddElement, ZenonT(60) DEF Add, FiniteInv
<1>5. ASSUME NEW c \in Roots, FilesChange(c) PROVE FiniteInv' BY <1>1, <1>5, Zenon DEF FilesChange, userVars, FiniteInv
<1>6. ASSUME NEW w \in Waiters, AddPoll(w) PROVE FiniteInv' BY <1>1, <1>6, Zenon DEF AddPoll, FiniteInv
<1>7. ASSUME NEW r \in requests, NEW v, Settle(r, v) PROVE FiniteInv'
  BY <1>1, <1>7, FS_AddElement, FS_RemoveElement, ZenonT(60) DEF Settle, userVars, FiniteInv
<1>8. ASSUME NEW x \in Removals, RmList(x) \/ RmDelete(x) PROVE FiniteInv'
  <2>t. removal \in [Removals -> RmSet] /\ removal[x] \in RmSet BY Zenon DEF RemoteTypeOK
  <2>1. IsFiniteSet(requests')
    <3>1. requests' = requests \/ \E r \in requests : requests' = requests \ {r} BY <1>8, Zenon DEF RmList, RmDelete
    <3> QED BY <3>1, FS_RemoveElement, Zenon DEF FiniteInv
  <2>2. IsFiniteSet(removal'[x].ids)
    <3>1. CASE RmList(x)
      <4> DEFINE ids == {r.id : r \in {q \in requests : PinMatches(q, Filter[x])}}
      <4>2. IsFiniteSet(ids) BY MatchFinite, Zenon
      <4>3. \/ removal' = [removal EXCEPT ![x] = [pc |-> "done", ids |-> {}, gone |-> 0]]
            \/ removal' = [removal EXCEPT ![x] = [pc |-> "delete", ids |-> ids, gone |-> 0]]
        BY <3>1, Zenon DEF RmList
      <4> HIDE DEF ids
      <4> QED BY <2>t, <4>2, <4>3, FS_EmptySet
    <3>2. CASE RmDelete(x)
      BY <3>2, RmDeleteIs, FS_EmptySet, FS_RemoveElement, ZenonT(60) DEF FiniteInv
    <3> QED BY <1>8, <3>1, <3>2, Zenon
  <2>3. \A y \in Removals \ {x} : removal'[y] = removal[y] BY <1>8, <2>t, ZenonT(60) DEF RmList, RmDelete
  <2> QED BY <2>1, <2>2, <2>3, Zenon DEF FiniteInv
<1> QED BY <1>2, <1>3, <1>4, <1>5, <1>6, <1>7, <1>8, Zenon DEF RemoteNext

\* A removal without --force goes on with one match at most, and is done with it
\* after one deletion.
LEMMA RmStep ==
  ASSUME RemoteTypeOK, FiniteInv, RmInv, RemoteNext
  PROVE  RmInv'
<1>1. CASE removal' = removal BY <1>1, Zenon DEF RmInv
<1>2. ASSUME NEW x \in Removals, RmList(x) \/ RmDelete(x) PROVE RmInv'
  <2>t. removal \in [Removals -> RmSet] /\ removal[x] \in RmSet BY Zenon DEF RemoteTypeOK
  <2>1. \A y \in Removals \ {x} : removal'[y] = removal[y] BY <1>2, <2>t, ZenonT(60) DEF RmList, RmDelete
  <2>2. ASSUME ~Filter[x].force
        PROVE  \/ removal'[x].gone = 0 /\ \A i, j \in removal'[x].ids : i = j
               \/ removal'[x].gone = 1 /\ removal'[x].ids = {}
    <3>1. CASE RmList(x)
      <4> DEFINE ids == {r.id : r \in {q \in requests : PinMatches(q, Filter[x])}}
      <4>2. IsFiniteSet(ids) BY MatchFinite, Zenon
      <4>3. \/ removal' = [removal EXCEPT ![x] = [pc |-> "done", ids |-> {}, gone |-> 0]]
            \/ /\ ~(Cardinality(ids) > 1)
               /\ removal' = [removal EXCEPT ![x] = [pc |-> "delete", ids |-> ids, gone |-> 0]]
        BY <2>2, <3>1, ZenonT(60) DEF RmList
      <4> HIDE DEF ids
      <4>4. ASSUME ~(Cardinality(ids) > 1) PROVE \A i, j \in ids : i = j
        <5> SUFFICES ASSUME NEW i \in ids, NEW j \in ids, i # j PROVE FALSE BY Zenon
        <5>1. IsFiniteSet({i, j}) /\ Cardinality({i, j}) = 2
          <6>1. IsFiniteSet({j}) /\ Cardinality({j}) = 1 BY FS_Singleton, Zenon
          <6>2. {i, j} = {j} \cup {i} /\ i \notin {j} BY Zenon
          <6> QED BY <6>1, <6>2, FS_AddElement
        <5>2. Cardinality({i, j}) <= Cardinality(ids) BY <4>2, FS_Subset, Zenon
        <5>3. Cardinality(ids) \in Nat BY <4>2, FS_CardinalityType, Zenon
        <5> QED BY <4>4, <5>1, <5>2, <5>3
      <4> QED BY <2>t, <4>3, <4>4, SMTT(60)
    <3>2. CASE RmDelete(x)
      <4>3. \/ removal[x].gone = 0 /\ \A i, j \in removal[x].ids : i = j
            \/ removal[x].gone = 1 /\ removal[x].ids = {}
        BY <2>2, Zenon DEF RmInv
      <4>4. \/ \E i \in removal[x].ids : removal'[x].ids = removal[x].ids \ {i} /\ removal'[x].gone = removal[x].gone + 1
            \/ removal'[x].gone = removal[x].gone /\ (removal'[x].ids = removal[x].ids \/ removal'[x].ids = {})
        BY <3>2, RmDeleteIs, Zenon
      <4>5. CASE \E i \in removal[x].ids : removal'[x].ids = removal[x].ids \ {i} /\ removal'[x].gone = removal[x].gone + 1
        <5>1. PICK i \in removal[x].ids : removal'[x].ids = removal[x].ids \ {i} /\ removal'[x].gone = removal[x].gone + 1
          BY <4>5, Zenon
        <5>2. removal[x].gone = 0 /\ \A k, j \in removal[x].ids : k = j BY <4>3, <5>1, Zenon
        <5>3. removal[x].ids \ {i} = {} BY <5>2, Zenon
        <5> QED BY <5>1, <5>2, <5>3, SMTT(60)
      <4>6. CASE removal'[x].gone = removal[x].gone /\ (removal'[x].ids = removal[x].ids \/ removal'[x].ids = {})
        BY <4>3, <4>6, Zenon
      <4> QED BY <4>4, <4>5, <4>6, Zenon
    <3> QED BY <1>2, <3>1, <3>2, ZenonT(60)
  <2> QED BY <2>1, <2>2, ZenonT(60) DEF RmInv
<1>3. \/ removal' = removal
      \/ \E x \in Removals : RmList(x) \/ RmDelete(x)
  BY Zenon DEF RemoteNext, LoopStep, PollFails, Shutdown, Poll, LoopEnds, Ls, Act, TaskFails, userVars, IntervalPasses,
     ServiceAdd, ServiceRm, SetPolicy, Add, FilesChange, AddPoll, Settle
<1> QED BY <1>1, <1>2, <1>3, Zenon

-----------------------------------------------------------------------------
LEMMA RemoteInitInv == RemoteInit => RemoteInv
<1> SUFFICES ASSUME RemoteInit PROVE RemoteInv BY Zenon
<1>1. RemoteTypeOK BY TypeInit, Zenon
<1>2. FiniteInv BY FS_EmptySet, ZenonT(60) DEF RemoteInit, FiniteInv
<1>3. UniqueIDs /\ OneMfsPin BY Zenon DEF RemoteInit, UniqueIDs, OneMfsPin
<1>4. ActInv BY ZenonT(60) DEF RemoteInit, ActInv, Idle
<1>5. RmInv BY Zenon DEF RemoteInit, RmInv
<1>6. LastPinReal BY Zenon DEF RemoteInit, LastPinReal
<1> QED BY <1>1, <1>2, <1>3, <1>4, <1>5, <1>6, Zenon DEF RemoteInv

LEMMA RemoteInvStep ==
  ASSUME RemoteInv, IDsLeft, [RemoteNext]_remoteVars
  PROVE  RemoteInv'
<1>1. CASE RemoteNext
  <2>1. RemoteTypeOK /\ FiniteInv /\ CoreInv /\ RmInv BY Zenon DEF RemoteInv, CoreInv
  <2>2. RemoteTypeOK' /\ FiniteInv' /\ CoreInv' /\ RmInv'
    BY <1>1, <2>1, TypeStep, FiniteStep, CoreStep, RmStep, Zenon
  <2> QED BY <2>2, Zenon DEF RemoteInv, CoreInv
<1>2. CASE UNCHANGED remoteVars
  <2>1. UNCHANGED <<services, root, requests, loop, lastPins, task, waiter, removal, taken, running, edits, rfaults>>
    BY <1>2, Zenon DEF remoteVars, loopVars, userVars
  <2>2. RemoteTypeOK' BY <2>1, Zenon DEF RemoteInv, RemoteTypeOK
  <2>3. FiniteInv' /\ UniqueIDs' /\ ActInv' /\ RmInv' /\ OneMfsPin' /\ LastPinReal'
    BY <2>1, ZenonT(60) DEF RemoteInv, FiniteInv, UniqueIDs, ActInv, RmInv, OneMfsPin, LastPinReal, Named
  <2> QED BY <2>2, <2>3, Zenon DEF RemoteInv
<1> QED BY <1>1, <1>2, Zenon

LEMMA RemoteInvSafe == RemoteInv => RemoteSafe
<1> SUFFICES ASSUME RemoteInv PROVE RemoteSafe BY Zenon
<1>1. RmCautious BY DEF RemoteInv, RmInv, RmCautious
<1> QED BY <1>1, Zenon DEF RemoteInv, RemoteSafe

\* Of services that never run out, an ID is always left: what is remembered is
\* finite.
LEMMA NeverOut ==
  ASSUME Endless, RemoteInv
  PROVE  IDsLeft
<1> DEFINE A == {r.id : r \in requests}
           B == {task[s].old : s \in PinServices}
           C == {waiter[w].id : w \in Waiters}
           D == {removal[x].ids : x \in Removals}
<1>1. IsFiniteSet(A)
  <2> DEFINE g == [r \in requests |-> r.id]
  <2>1. A = {g[r] : r \in requests} BY Zenon
  <2> HIDE DEF g, A
  <2> QED BY <2>1, FiniteImage, Zenon DEF RemoteInv, FiniteInv
<1>2. IsFiniteSet(B)
  <2> DEFINE g == [s \in PinServices |-> task[s].old]
  <2>1. B = {g[r] : r \in PinServices} BY Zenon
  <2> HIDE DEF g, B
  <2> QED BY <2>1, FiniteImage, Zenon DEF Endless
<1>3. IsFiniteSet(C)
  <2> DEFINE g == [w \in Waiters |-> waiter[w].id]
  <2>1. C = {g[r] : r \in Waiters} BY Zenon
  <2> HIDE DEF g, C
  <2> QED BY <2>1, FiniteImage, Zenon DEF Endless
<1>4. IsFiniteSet(UNION D)
  <2> DEFINE g == [x \in Removals |-> removal[x].ids]
  <2>1. D = {g[r] : r \in Removals} BY Zenon
  <2>2. \A d \in D : IsFiniteSet(d) BY Zenon DEF RemoteInv, FiniteInv
  <2> HIDE DEF g, D
  <2>3. IsFiniteSet(D) BY <2>1, FiniteImage, ZenonT(60) DEF Endless
  <2> QED BY <2>2, <2>3, FS_UNION, Zenon
<1>5. Remembered = ((A \cup B) \cup C) \cup UNION D BY Zenon DEF Remembered
<1> HIDE DEF A, B, C, D
<1>6. IsFiniteSet(Remembered)
  <2>1. IsFiniteSet(A \cup B) BY <1>1, <1>2, FS_Union, ZenonT(60)
  <2>2. IsFiniteSet((A \cup B) \cup C) BY <1>3, <2>1, FS_Union, ZenonT(60)
  <2> QED BY <1>4, <1>5, <2>2, FS_Union, ZenonT(60)
<1>7. CASE RequestIDs \subseteq Remembered BY <1>6, <1>7, FS_Subset, Zenon DEF Endless
<1> QED BY <1>7, Zenon DEF IDsLeft

\* Whatever is called in whatever order, each service finding a new ID when it
\* makes a request: a service holds one pin of the MFS root under one name, the
\* loop (pinMFS, cmd/ipfs/kubo/pinmfs.go) remembers no pin that was not made,
\* and `pin remote rm` without --force deletes one request at most.
THEOREM RemotePinsAreSafe == RemoteSpec /\ []IDsLeft => []RemoteSafe
<1>1. RemoteInit => RemoteInv BY RemoteInitInv, Zenon
<1>2. RemoteInv /\ IDsLeft /\ [RemoteNext]_remoteVars => RemoteInv' BY RemoteInvStep, Zenon
<1>3. RemoteInv => RemoteSafe BY RemoteInvSafe, Zenon
<1> QED BY <1>1, <1>2, <1>3, PTL DEF RemoteSpec

\* The same of services that never run out of IDs, which is how the pinning
\* service API is used in core/commands/pin/remotepin.go: no assumption on the
\* behaviour is left.
THEOREM RemotePinsStaySafe == ASSUME Endless PROVE RemoteSpec => []RemoteSafe
<1>1. RemoteInit => RemoteInv BY RemoteInitInv, Zenon
<1>2. RemoteInv /\ [RemoteNext]_remoteVars => RemoteInv' BY RemoteInvStep, NeverOut, Zenon
<1>3. RemoteInv => RemoteSafe BY RemoteInvSafe, Zenon
<1> QED BY <1>1, <1>2, <1>3, PTL DEF RemoteSpec
=============================================================================
