------------------------------- MODULE Swarm --------------------------------
(* The swarm: the commands on connections and filters, and the node's own      *)
(* addresses.                                                                  *)
EXTENDS Naturals, Sequences, FiniteSets

LOCAL INSTANCE SequencesExt

-----------------------------------------------------------------------------
(***************************************************************************)
(* 'ipfs swarm connect' and 'disconnect', whose addresses are resolved by  *)
(* a goroutine each, and 'ipfs swarm filters add' and 'rm', which change   *)
(* the filters of the running node and those of its configuration.         *)
(***************************************************************************)

CONSTANTS SwarmArgs,    \* addresses on the command line
          SwarmPeers,   \* peers
          FilterArgs,   \* lists of filters, as they are written
          FilterJunk,   \* what is no mask
          FilterCmds,   \* commands on filters at a time, numbered
          MaxFilterCmds

VARIABLES sdial,   \* the command: its arguments and what it did
          sres,    \* the goroutines that resolve
          flive,   \* the masks that the node applies
          fmem,    \* Swarm.AddrFilters of the node's config
          fdisk,   \* and of the config file
          fcmds,   \* the commands on filters
          fcount

dialvars == <<sdial, sres>>
filtervars == <<flive, fmem, fdisk, fcmds, fcount>>

-----------------------------------------------------------------------------
(* connect and disconnect *)

ArgIds == 1..SwarmArgs

\* "peer" ends in a peer ID, "dns" has to be resolved and "bad" does not parse.
ArgKinds == {"peer", "dns", "bad"}

DialInit ==
  /\ sdial \in [op: {"connect", "disconnect"}, kinds: [ArgIds -> ArgKinds], pc: {"parse"}, i: {1},
                found: {<<>>}, closed: {FALSE}, done: {{}}, failed: {{}}]
  /\ sres = [a \in ArgIds |-> [pc |-> "none", send |-> <<>>, sent |-> 0, err |-> FALSE]]

DialEnds(how) == sdial' = [sdial EXCEPT !.pc = how]

\* resolveAddresses: the loop over the arguments. An argument that does not parse
\* ends the command there, with the goroutines of the earlier ones left to
\* themselves.
ParsesArg ==
  /\ sdial.pc = "parse" /\ sdial.i <= SwarmArgs
  /\ LET k == sdial.kinds[sdial.i]
     IN \/ k = "bad" /\ DialEnds("error") /\ UNCHANGED sres
        \/ \E p \in SwarmPeers:
             /\ k = "peer"
             /\ sdial' = [sdial EXCEPT !.i = @ + 1, !.found = Append(@, p)]
             /\ UNCHANGED sres
        \/ /\ k = "dns"
           /\ sdial' = [sdial EXCEPT !.i = @ + 1]
           /\ sres' = [sres EXCEPT ![sdial.i].pc = "resolve"]

ParsedArgs == /\ sdial.pc = "parse" /\ sdial.i > SwarmArgs
              /\ sdial' = [sdial EXCEPT !.pc = "collect"]
              /\ UNCHANGED sres

\* A goroutine resolves its address, to any peers, within the timeout or not.
Resolves(a) ==
  /\ sres[a].pc = "resolve"
  /\ \/ sres' = [sres EXCEPT ![a].err = TRUE, ![a].pc = "done"]
     \/ \E ps \in {<<>>} \union {<<p>>: p \in SwarmPeers}:
          sres' = [sres EXCEPT ![a].send = ps, ![a].pc = "send"]
  /\ UNCHANGED sdial

\* maddrC has no buffer: a peer is handed over while the handler ranges over it.
HandsOver(a) ==
  /\ sres[a].pc = "send" /\ sres[a].send # <<>> /\ sdial.pc = "collect"
  /\ sdial' = [sdial EXCEPT !.found = Append(@, Head(sres[a].send))]
  /\ sres' = [sres EXCEPT ![a].send = Tail(@), ![a].sent = @ + 1]

\* An address without a single peer is an error.
SentAll(a) ==
  /\ sres[a].pc = "send" /\ sres[a].send = <<>>
  /\ sres' = [sres EXCEPT ![a].pc = "done", ![a].err = (sres[a].sent = 0)]
  /\ UNCHANGED sdial

\* The goroutine that waits for the others closes the channel.
ClosesC == /\ sdial.pc = "collect" /\ ~sdial.closed
           /\ \A a \in ArgIds: sres[a].pc \in {"none", "done"}
           /\ sdial' = [sdial EXCEPT !.closed = TRUE]
           /\ UNCHANGED sres

\* The errors were buffered, one for each goroutine.
Collected == /\ sdial.pc = "collect" /\ sdial.closed
             /\ DialEnds(IF \E a \in ArgIds: sres[a].err THEN "error" ELSE "dial")
             /\ UNCHANGED sres

\* The first peer that the command has not dealt with; addresses of a peer are one.
NextPeer == LET rest == SelectSeq(sdial.found, LAMBDA p: p \notin sdial.done \union sdial.failed)
            IN Head(rest)

PeersLeft == ToSet(sdial.found) \ (sdial.done \union sdial.failed) # {}

\* Connect and its error, which ends the command.
Dials == /\ sdial.pc = "dial" /\ sdial.op = "connect" /\ PeersLeft
         /\ \/ sdial' = [sdial EXCEPT !.done = @ \union {NextPeer}]
            \/ sdial' = [sdial EXCEPT !.failed = @ \union {NextPeer}, !.pc = "error"]
         /\ UNCHANGED sres

\* Disconnect, whose error is only reported.
HangsUp == /\ sdial.pc = "dial" /\ sdial.op = "disconnect" /\ PeersLeft
           /\ \/ sdial' = [sdial EXCEPT !.done = @ \union {NextPeer}]
              \/ sdial' = [sdial EXCEPT !.failed = @ \union {NextPeer}]
           /\ UNCHANGED sres

DialDone == sdial.pc = "dial" /\ ~PeersLeft /\ DialEnds("ok") /\ UNCHANGED sres

ResolverSteps(a) == Resolves(a) \/ HandsOver(a) \/ SentAll(a)
DialHandler == ParsesArg \/ ParsedArgs \/ ClosesC \/ Collected \/ Dials \/ HangsUp \/ DialDone
DialNext == DialHandler \/ \E a \in ArgIds: ResolverSteps(a)

-----------------------------------------------------------------------------
(* filters *)

\* Two spellings of one mask.
MaskOf(t) == IF t = "a'" THEN "a" ELSE t
MasksOf(s) == {MaskOf(t): t \in ToSet(s) \ FilterJunk}

NoFilterCmd == [op |-> "none", args |-> <<>>, pc |-> "idle", i |-> 1, old |-> <<>>, alone |-> TRUE,
                live0 |-> {}, disk0 |-> <<>>]

FilterInit == /\ fdisk \in {<<>>, <<"a">>}
              /\ fmem = fdisk /\ flive = MasksOf(fdisk)
              /\ fcmds = [c \in FilterCmds |-> NoFilterCmd]
              /\ fcount = 0

FilterRuns == {c \in FilterCmds: fcmds[c].pc \notin {"idle", "ok", "error"}}

\* A request arrives; alone tells whether another is under way at the same time.
FilterStarts(c) ==
  /\ c \notin FilterRuns /\ (1..(c - 1)) \subseteq FilterRuns /\ fcount < MaxFilterCmds
  /\ \E op \in {"add", "rm", "rmall"}, args \in FilterArgs:
       /\ op = "rmall" => args = <<"a">>
       /\ fcmds' = [d \in FilterCmds |->
            IF d = c THEN [NoFilterCmd EXCEPT !.op = op, !.args = args, !.pc = "masks",
                             !.alone = (FilterRuns = {}), !.live0 = flive, !.disk0 = fdisk]
            ELSE IF d \in FilterRuns THEN [fcmds[d] EXCEPT !.alone = FALSE] ELSE fcmds[d]]
  /\ fcount' = fcount + 1
  /\ UNCHANGED <<flive, fmem, fdisk>>

GoesTo(c, pc) == fcmds' = [fcmds EXCEPT ![c].pc = pc]

\* One mask after the other is applied to the node; what is no mask ends the
\* command, the earlier ones stay applied.
AppliesMask(c) ==
  /\ fcmds[c].pc = "masks" /\ fcmds[c].op \in {"add", "rm"} /\ fcmds[c].i <= Len(fcmds[c].args)
  /\ LET t == fcmds[c].args[fcmds[c].i]
     IN \/ t \in FilterJunk /\ GoesTo(c, "error") /\ UNCHANGED flive
        \/ /\ t \notin FilterJunk
           /\ flive' = IF fcmds[c].op = "add" THEN flive \union {MaskOf(t)} ELSE flive \ {MaskOf(t)}
           /\ fcmds' = [fcmds EXCEPT ![c].i = @ + 1]
  /\ UNCHANGED <<fmem, fdisk, fcount>>

AppliedMasks(c) ==
  /\ fcmds[c].pc = "masks" /\ fcmds[c].op \in {"add", "rm"} /\ fcmds[c].i > Len(fcmds[c].args)
  /\ GoesTo(c, "take")
  /\ UNCHANGED <<flive, fmem, fdisk, fcount>>

RemovesAll(c) ==
  /\ fcmds[c].pc = "masks" /\ fcmds[c].op = "rmall"
  /\ flive' = {}
  /\ GoesTo(c, "take")
  /\ UNCHANGED <<fmem, fdisk, fcount>>

\* filtersAdd, filtersRemove and filtersRemoveAll read the filters of the config
\* that the node shares; the first and the last empty them there.
TakesFilters(c) ==
  /\ fcmds[c].pc = "take"
  /\ fcmds' = [fcmds EXCEPT ![c].old = fmem, ![c].pc = "merge"]
  /\ fmem' = IF fcmds[c].op = "rm" THEN fmem ELSE <<>>
  /\ UNCHANGED <<flive, fdisk, fcount>>

Deduped(s) == FoldLeft(LAMBDA acc, t: IF t \in ToSet(acc) THEN acc ELSE Append(acc, t), <<>>, s)

\* Mutant: the filters that were there are not added back.
MergedFiltersNew(c) == CASE fcmds[c].op = "add" -> Deduped(fcmds[c].args)
                         [] fcmds[c].op = "rm" ->
                              SelectSeq(fcmds[c].old, LAMBDA t: t \notin ToSet(fcmds[c].args))
                         [] fcmds[c].op = "rmall" -> <<>>

\* The new filters first, then the old ones; no filter twice.
MergedFilters(c) == CASE fcmds[c].op = "add" -> Deduped(fcmds[c].args \o fcmds[c].old)
                      [] fcmds[c].op = "rm" ->
                           SelectSeq(fcmds[c].old, LAMBDA t: t \notin ToSet(fcmds[c].args))
                      [] fcmds[c].op = "rmall" -> <<>>

MergesFilters(c) ==
  /\ fcmds[c].pc = "merge"
  /\ fmem' = MergedFilters(c)
  /\ GoesTo(c, "save")
  /\ UNCHANGED <<flive, fdisk, fcount>>

\* SetConfig writes the shared config, or fails.
SavesFilters(c) ==
  /\ fcmds[c].pc = "save"
  /\ \/ fdisk' = fmem /\ GoesTo(c, "ok")
     \/ UNCHANGED fdisk /\ GoesTo(c, "error")
  /\ UNCHANGED <<flive, fmem, fcount>>

\* The node starts again with the filters of the file.
FilterRestarts ==
  /\ FilterRuns = {} /\ \E c \in FilterCmds: fcmds[c].pc # "idle"
  /\ flive' = MasksOf(fdisk) /\ fmem' = fdisk
  /\ fcmds' = [c \in FilterCmds |-> NoFilterCmd]
  /\ UNCHANGED <<fdisk, fcount>>

FilterNext == FilterRestarts \/ \E c \in FilterCmds:
  \/ FilterStarts(c) \/ AppliesMask(c) \/ AppliedMasks(c) \/ RemovesAll(c)
  \/ TakesFilters(c) \/ MergesFilters(c) \/ SavesFilters(c)

-----------------------------------------------------------------------------
(* Properties *)

\* 'swarm connect' says success only when every argument was resolved to some peer
\* and every peer was connected; 'swarm disconnect' leaves out no peer either.
DialWhole == sdial.pc = "ok" =>
  /\ \A a \in ArgIds: sdial.kinds[a] = "dns" => sres[a].sent > 0
  /\ ToSet(sdial.found) = sdial.done \union sdial.failed
  /\ sdial.op = "connect" => sdial.failed = {}

\* When every argument parses, no goroutine that resolves is left behind.
ResolversEnd == []<>((\A a \in ArgIds: sdial.kinds[a] # "bad") =>
                      \A a \in ArgIds: sres[a].pc \in {"none", "done"})

\* A command on filters that succeeds without another one under way, and when the
\* node's config was that of the file, has the same effect on the running node and
\* on the file: the filters it names and no others are added or removed, and none
\* is there twice.
FiltersExact == \A c \in FilterCmds: LET f == fcmds[c] IN
  (f.pc = "ok" /\ f.alone /\ f.old = f.disk0 /\ FilterRuns = {} /\ \A d \in FilterCmds \ {c}: fcmds[d].pc = "idle") =>
    /\ ToSet(fdisk) = CASE f.op = "add" -> ToSet(f.disk0) \union ToSet(f.args)
                        [] f.op = "rm" -> ToSet(f.disk0) \ ToSet(f.args)
                        [] f.op = "rmall" -> {}
    /\ flive = CASE f.op = "add" -> f.live0 \union MasksOf(f.args)
                 [] f.op = "rm" -> f.live0 \ MasksOf(f.args)
                 [] f.op = "rmall" -> {}
    /\ Cardinality(ToSet(fdisk)) = Len(fdisk)

-----------------------------------------------------------------------------
(***************************************************************************)
(* The addresses of a node: the monitor that reports listeners which a     *)
(* filter makes unreachable, while addresses come and go, and the factory  *)
(* that decides which addresses are announced.                             *)
(*                                                                         *)
(* An address is <<ip, transport>>; a rule is an IP range, of one IP here. *)
(***************************************************************************)

CONSTANTS AnnIps, AnnTransports, MaxAddrChanges, AnnLists

VARIABLES amon,    \* the monitor
          aaddrs,  \* the addresses that the node listens on now
          alogged, \* findings logged since a check last went without them
          aask     \* a question to the factory, and its answer

monvars == <<amon, aaddrs, alogged>>

AnnAddrs == AnnIps \X AnnTransports
AnyIp == "0.0.0.0"
Junk == "junk"

-----------------------------------------------------------------------------
(* Dead listeners *)

\* listenEndpoint: the socket, for an address with an IP of its own.
Endpoint(a) == IF a[1] = AnyIp THEN {} ELSE {a}

ExplicitListens(swarm) == UNION {Endpoint(a): a \in swarm}

\* findDeadListeners: a rule that is no range is passed over.
DeadListeners(listen, swarm, rules) ==
  {[listener |-> l, rule |-> r[1], source |-> r[2], explicit |-> l \in ExplicitListens(swarm)]:
     <<l, r>> \in {<<l, r>> \in listen \X rules: r[1] = l[1]}}

\* logDeadListenerFinding: only a listener that was asked for is an error.
Level(f) == IF f.source = "AddrFilters" /\ f.explicit THEN "error" ELSE "debug"

AnnRules == (AnnIps \union {Junk}) \X {"AddrFilters", "NoAnnounce"}

MonInit ==
  /\ aaddrs \in SUBSET AnnAddrs
  /\ \E swarm \in {{<<ip[t], t>>: t \in AnnTransports}: ip \in [AnnTransports -> AnnIps \union {AnyIp}]},
        rules \in SUBSET AnnRules:
       amon = [pc |-> "check", seen |-> {}, swarm |-> swarm, rules |-> rules, event |-> FALSE,
               failed |-> FALSE, changes |-> 0]
  /\ alogged = {}

Now == DeadListeners(aaddrs, amon.swarm, amon.rules)

\* The addresses change; the event bus keeps the last event for who subscribes later.
AddrsChange ==
  /\ amon.changes < MaxAddrChanges
  /\ \E s \in SUBSET AnnAddrs: s # aaddrs /\ aaddrs' = s
  /\ amon' = [amon EXCEPT !.event = TRUE, !.changes = @ + 1]
  /\ UNCHANGED alogged

\* What was found before is replaced by what is found now.
Seen(next) == next

\* runCheck: what is new is logged; a failure to read the addresses ends it.
RunCheck(pc) ==
  \/ /\ amon' = [amon EXCEPT !.pc = pc, !.seen = Seen(Now), !.event = (@ /\ pc # "loop")]
     /\ alogged' = (alogged \intersect Now) \union (Now \ amon.seen)
     /\ UNCHANGED aaddrs
  \/ /\ amon' = [amon EXCEPT !.pc = pc, !.failed = TRUE, !.event = (@ /\ pc # "loop")]
     /\ UNCHANGED <<aaddrs, alogged>>

StartCheck == amon.pc = "check" /\ RunCheck("subscribe")

\* Without a subscription only the check at the start was made.
Subscribes == /\ amon.pc = "subscribe"
              /\ \E pc \in {"loop", "off"}: amon' = [amon EXCEPT !.pc = pc]
              /\ UNCHANGED <<aaddrs, alogged>>

EventCheck == amon.pc = "loop" /\ amon.event /\ RunCheck("loop")

MonStops == /\ amon.pc = "loop"
            /\ amon' = [amon EXCEPT !.pc = "off"]
            /\ UNCHANGED <<aaddrs, alogged>>

MonSteps == StartCheck \/ Subscribes \/ EventCheck
MonNext == MonSteps \/ MonStops \/ AddrsChange

-----------------------------------------------------------------------------
(* The factory of announced addresses; "" is an empty address *)

AnnNames == UNION {ToSet(l): l \in AnnLists}

\* Appended addresses that are announced anyway are skipped.
Appended(announce, append) == SelectSeq(append, LAMBDA a: a \notin ToSet(announce))

\* makeAddrsFactory: all addresses or the announced ones, with the appended, less
\* what is empty or not to be announced.
Announced(announce, append, no, all) ==
  SelectSeq((IF announce # <<>> THEN announce ELSE all) \o Appended(announce, append),
            LAMBDA a: a # "" /\ a \notin no)

\* External: with AutoTLS an address of the forge is added to the others.
Forged(all) == Append(all, "forge")

\* AddrsFactory: the forge comes first.
Factory(q) == Announced(q.announce, q.append, q.no, IF q.tls THEN Forged(q.all) ELSE q.all)

AsksAnnounced ==
  \E announce, append, all \in AnnLists, no \in SUBSET (AnnNames \union {"forge"}), tls \in BOOLEAN:
    LET q == [announce |-> announce, append |-> append, no |-> no, all |-> all, tls |-> tls]
    IN aask' = [topic |-> "announce", q |-> q, out |-> Factory(q)]

-----------------------------------------------------------------------------
(* Properties *)

\* Every unreachable listener of the present is logged in the end, also when the
\* addresses change while the monitor starts, and again after it was gone, unless
\* the addresses could not be read or the monitor is off.
DeadLogged == []<>(amon.failed \/ amon.pc = "off" \/ Now \subseteq alogged)

\* An error is logged exactly for a listener of the config that a filter blocks: one
\* that a wildcard brought in is none.
ErrorsMeant == \A f \in alogged: Level(f) = "error" =>
  f.listener \in amon.swarm /\ <<f.listener[1], "AddrFilters">> \in amon.rules

\* No address that is not to be announced, and no empty one, is announced, whether
\* it was found, configured, appended or made by the forge; every other one is,
\* and what is announced and appended is announced once.
AnnounceExact == aask.topic = "announce" =>
  LET q == aask.q
      base == IF q.announce # <<>> THEN ToSet(q.announce)
              ELSE ToSet(q.all) \union (IF q.tls THEN {"forge"} ELSE {})
      times(a) == Cardinality({i \in DOMAIN aask.out: aask.out[i] = a})
  IN /\ ToSet(aask.out) = (base \union ToSet(q.append)) \ (q.no \union {""})
     /\ \A a \in ToSet(q.announce): times(a) <= 1

\* Success of a swarm command means that it did all of it, to the node and to the
\* file alike; what the node logs and announces of its addresses is exact.
SwarmSafe == DialWhole /\ FiltersExact /\ ErrorsMeant /\ AnnounceExact
=============================================================================
