----------------------------- MODULE P2PStreams -----------------------------
(* The p2p mounts: listeners that forward connections over libp2p, and the     *)
(* registry of the streams in flight, which tags the peers it talks to.        *)
(* Listeners are closed by `ipfs p2p close` and by foreground commands that    *)
(* end, streams by either of their two copying goroutines and by               *)
(* `ipfs p2p stream close`, all of them at the same time.                      *)
EXTENDS Integers, FiniteSets

CONSTANTS
  Locals, Remotes,   \* listeners made by ForwardLocal and by ForwardRemote
  Key,               \* listener -> its address or protocol
  Ins, Outs,         \* streams coming in over libp2p, and connections accepted
  ListenerOf,        \* connection -> the key it is made to
  PeerOf,            \* connection -> the peer at the other end
  Users              \* calls of `ipfs p2p stream close`

Listeners == Locals \cup Remotes
Conns == Ins \cup Outs
Peers == {PeerOf[c] : c \in Conns}
Copiers == {"toLocal", "toRemote"}

ASSUME P2PAssumption ==
  /\ Key \in [Listeners -> STRING] /\ ListenerOf \in [Conns -> STRING]
  /\ Locals \cap Remotes = {} /\ Ins \cap Outs = {}
  /\ IsFiniteSet(Conns)

VARIABLES
  lpc,       \* listener -> "new", "bound", "live", "closing" or "closed"
  bound,     \* the addresses bound in the operating system
  registry,  \* the listeners in ListenersLocal and ListenersP2P
  done,      \* listener -> how often its done channel was closed
  todo,      \* listener -> the calls of Listeners.Close that still have to close it
  cpc,       \* connection -> how far its set-up is
  local, remote, \* connection -> the state of its two ends
  streams,   \* the registered connections
  conns,     \* peer -> its registered streams
  tagged,    \* peers that the connection manager keeps
  ends       \* <<who, connection>> -> closing steps still to make

lvars == <<lpc, bound, registry, done, todo>>
regvars == <<streams, conns, tagged, ends>>
streamvars == <<lvars, cpc, local, remote, regvars>>

Enders == (Copiers \cup Users) \X Conns

-----------------------------------------------------------------------------
(* Listeners *)

\* ForwardLocal binds the address (a taken one is an error, and the command may
\* be given again) ...
Listen(l) ==
  /\ l \in Locals /\ lpc[l] = "new"
  /\ \/ /\ Key[l] \notin bound /\ bound' = bound \cup {Key[l]}
        /\ lpc' = [lpc EXCEPT ![l] = "bound"]
     \/ Key[l] \in bound /\ UNCHANGED <<bound, lpc>>
  /\ UNCHANGED <<registry, done, todo, cpc, local, remote, regvars>>

\* ... and registers; ForwardRemote only registers.  A key that is taken is an
\* error, after which nobody closes what was bound.
Register(l) ==
  /\ lpc[l] = IF l \in Locals THEN "bound" ELSE "new"
  /\ LET taken == \E r \in registry : Key[r] = Key[l] /\ (r \in Locals <=> l \in Locals)
     IN  \/ taken /\ lpc' = [lpc EXCEPT ![l] = "new"] /\ UNCHANGED registry
         \/ ~taken /\ lpc' = [lpc EXCEPT ![l] = "live"] /\ registry' = registry \cup {l}
  /\ UNCHANGED <<bound, done, todo, cpc, local, remote, regvars>>

\* Listeners.Close takes what matches out of a registry under its lock ...
CloseMatching(S) ==
  /\ registry' = registry \ S
  /\ todo' = [l \in Listeners |-> IF l \in S THEN todo[l] + 1 ELSE todo[l]]
  /\ lpc' = [l \in Listeners |-> IF l \in S THEN "closing" ELSE lpc[l]]
  /\ UNCHANGED <<bound, done, cpc, local, remote, regvars>>

\* ... and closes it after that.
CloseListener(l) ==
  /\ todo[l] > 0 /\ todo' = [todo EXCEPT ![l] = @ - 1]
  /\ done' = [done EXCEPT ![l] = @ + 1]
  /\ bound' = IF l \in Locals THEN bound \ {Key[l]} ELSE bound
  /\ lpc' = [lpc EXCEPT ![l] = "closed"]
  /\ UNCHANGED <<registry, cpc, local, remote, regvars>>

-----------------------------------------------------------------------------
(* Setting up a stream *)

Set(c, pc, l, r) ==
  /\ cpc' = [cpc EXCEPT ![c] = pc]
  /\ local' = [local EXCEPT ![c] = l]
  /\ remote' = [remote EXCEPT ![c] = r]
  /\ UNCHANGED <<lvars, regvars>>

\* acceptConns: a socket that is open accepts.
Accept(c) ==
  /\ c \in Outs /\ cpc[c] = "new" /\ ListenerOf[c] \in bound
  /\ Set(c, "dial", "open", "none")

\* setupStream: dial the peer; a failure closes the local end.
SetupLocal(c) ==
  /\ c \in Outs /\ cpc[c] = "dial"
  /\ Set(c, "ready", "open", "open") \/ Set(c, "refused", "closed", "none")

\* The host asks whether there is a listener for the protocol ...
Match(c) ==
  /\ c \in Ins /\ cpc[c] = "new"
  /\ \E l \in registry : Key[l] = ListenerOf[c] /\ l \in Remotes
  /\ Set(c, "matched", "none", "open")

\* ... and the handler looks it up again; if it is gone, nobody has the stream.
Handle(c) ==
  /\ cpc[c] = "matched"
  /\ LET found == \E l \in registry : Key[l] = ListenerOf[c] /\ l \in Remotes
     IN  Set(c, IF found THEN "handle" ELSE "dropped", "none", "open")

\* handleStream: a failed dial resets the stream; so does a failed report of
\* the peer ID, which leaves the local end open.
SetupRemote(c) ==
  /\ c \in Ins /\ cpc[c] = "handle"
  /\ \/ Set(c, "ready", "open", "open")
     \/ Set(c, "refused", "none", "closed")
     \/ Set(c, "unreported", "open", "closed")

-----------------------------------------------------------------------------
(* The registry *)

\* StreamRegistry.Register: tag, count, and start both copiers.
RegisterStream(c) ==
  /\ cpc[c] = "ready" /\ cpc' = [cpc EXCEPT ![c] = "live"]
  /\ streams' = streams \cup {c}
  /\ tagged' = tagged \cup {PeerOf[c]}
  /\ conns' = [conns EXCEPT ![PeerOf[c]] = @ + 1]
  /\ ends' = [e \in Enders |-> IF e[2] = c /\ e[1] \in Copiers THEN "copy" ELSE ends[e]]
  /\ UNCHANGED <<lvars, local, remote>>

\* Close and Reset: both ends, whoever closed them before; then the registry.
\* (Whether the remote end is closed or reset is not told apart.)
CloseEnds(w, c) ==
  /\ local' = [local EXCEPT ![c] = "closed"]
  /\ remote' = [remote EXCEPT ![c] = "closed"]
  /\ ends' = [ends EXCEPT ![<<w, c>>] = "deregister"]
  /\ UNCHANGED <<lvars, cpc, streams, conns, tagged>>

\* A copy ends, with an error or because its source is exhausted.  (Once an end
\* is closed, every copy ends.)
CopyEnds(w, c) == ends[<<w, c>>] = "copy" /\ CloseEnds(w, c)

\* `ipfs p2p stream close` looks up a stream under the lock, and resets it
\* after that, when it may be gone.  (--all is a call for each stream.)
StreamClose(u, c) ==
  /\ c \in streams /\ \A d \in Conns : ends[<<u, d>>] = "idle"
  /\ ends' = [ends EXCEPT ![<<u, c>>] = "reset"]
  /\ UNCHANGED <<lvars, cpc, local, remote, streams, conns, tagged>>

StreamReset(u, c) == ends[<<u, c>>] = "reset" /\ CloseEnds(u, c)

Uncount(p) ==
  /\ conns' = [conns EXCEPT ![p] = IF @ > 0 THEN @ - 1 ELSE 0]
  /\ tagged' = IF conns[p] <= 1 THEN tagged \ {p} ELSE tagged

\* Mutant: Deregister does not look whether the stream is still there.
DeregisterBlind(w, c) ==
  /\ ends[<<w, c>>] = "deregister"
  /\ ends' = [ends EXCEPT ![<<w, c>>] = "idle"]
  /\ Uncount(PeerOf[c]) /\ streams' = streams \ {c}
  /\ UNCHANGED <<lvars, cpc, local, remote>>

\* Deregister: the second of two closers finds the stream gone.
Deregister(w, c) ==
  /\ ends[<<w, c>>] = "deregister"
  /\ ends' = [ends EXCEPT ![<<w, c>>] = "idle"]
  /\ \/ c \in streams /\ Uncount(PeerOf[c]) /\ streams' = streams \ {c}
     \/ c \notin streams /\ UNCHANGED <<conns, tagged, streams>>
  /\ UNCHANGED <<lvars, cpc, local, remote>>

-----------------------------------------------------------------------------
StreamsInit ==
  /\ lpc = [l \in Listeners |-> "new"] /\ bound = {} /\ registry = {}
  /\ done = [l \in Listeners |-> 0] /\ todo = [l \in Listeners |-> 0]
  /\ cpc = [c \in Conns |-> "new"]
  /\ local = [c \in Conns |-> "none"] /\ remote = [c \in Conns |-> "none"]
  /\ streams = {} /\ conns = [p \in Peers |-> 0] /\ tagged = {}
  /\ ends = [e \in Enders |-> "idle"]

Setup(c) ==
  \/ Accept(c) \/ SetupLocal(c) \/ Match(c) \/ Handle(c) \/ SetupRemote(c) \/ RegisterStream(c)

EndStep(w, c) == StreamReset(w, c) \/ Deregister(w, c)

StreamsNext ==
  \/ \E l \in Listeners : Listen(l) \/ Register(l)
  \/ \E S \in (SUBSET (registry \cap Locals)) \cup SUBSET (registry \cap Remotes) :
       S # {} /\ CloseMatching(S)
  \/ \E l \in Listeners : CloseListener(l)
  \/ \E c \in Conns : Setup(c)
  \/ \E u \in Users, c \in Conns : StreamClose(u, c)
  \/ \E w \in Copiers, c \in Conns : CopyEnds(w, c)
  \/ \E w \in Copiers \cup Users, c \in Conns : EndStep(w, c)

StreamsSpec == StreamsInit /\ [][StreamsNext]_streamvars

-----------------------------------------------------------------------------
\* Type correctness of listeners, connections and the registry.
StreamsTypeOK ==
  /\ lpc \in [Listeners -> {"new", "bound", "live", "closing", "closed"}]
  /\ bound \subseteq {Key[l] : l \in Locals} /\ registry \subseteq Listeners
  /\ done \in [Listeners -> Nat] /\ todo \in [Listeners -> Nat]
  /\ cpc \in [Conns -> {"new", "dial", "matched", "handle", "ready", "refused", "dropped",
                        "unreported", "live"}]
  /\ {local, remote} \subseteq [Conns -> {"none", "open", "closed"}]
  /\ streams \subseteq Conns /\ tagged \subseteq Peers /\ conns \in [Peers -> Nat]
  /\ ends \in [Enders -> {"idle", "copy", "reset", "deregister"}]

\* A listener's done channel is closed once, whoever closes it: Listeners.Close
\* gives every listener to one caller.
DoneOnce == \A l \in Listeners : done[l] <= 1 /\ (done[l] = 1 <=> lpc[l] = "closed")

\* A local listener that could bind its address is never refused by the
\* registry, so that ForwardLocal never returns with a socket left open: Close
\* removes a listener before it frees the address.
BoundRegisters ==
  \A l \in Locals : lpc[l] = "bound" => ~\E r \in registry \cap Locals : Key[r] = Key[l]

\* The registry counts the streams of a peer exactly, and the connection
\* manager keeps the peer as long as there is one, although up to three
\* goroutines take the same stream out.
PeersTagged ==
  /\ \A p \in Peers : conns[p] = Cardinality({c \in streams : PeerOf[c] = p})
  /\ tagged = {p \in Peers : conns[p] > 0}

\* A stream that has left the registry, and a connection whose peer or target
\* could not be dialled, has no open end.
EndsClosed ==
  \A c \in Conns :
    cpc[c] = "refused" \/ (cpc[c] = "live" /\ c \notin streams) =>
      local[c] # "open" /\ remote[c] # "open"

\* Once a stream's ends are closed, it leaves the registry and none of the
\* goroutines that worked for it is left behind.
StreamsEnd ==
  []<>(\A c \in Conns : local[c] = "closed" =>
         c \notin streams /\ \A w \in Copiers : ends[<<w, c>>] = "idle")

\* The listeners and streams of p2p are closed once, counted exactly and left
\* with no open end, whoever closes them at the same time.
StreamsSafe == DoneOnce /\ BoundRegisters /\ PeersTagged /\ EndsClosed
=============================================================================
