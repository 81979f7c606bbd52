------------------------------- MODULE P2PCmds -------------------------------
(***************************************************************************)
(* `ipfs p2p forward`, `listen`, `close` and `ls`                          *)
(* (core/commands/p2p.go): commands that stay in the foreground remove     *)
(* their listener when they are interrupted, while other commands close    *)
(* and replace listeners. What a listener does with connections is in      *)
(* P2PStreams; creating one is a single step here.                         *)
(***************************************************************************)
EXTENDS Integers, Sequences, FiniteSets

CONSTANTS Forwards, \* forward commands, each with its listener
          Services, \* listen commands, each with its listener
          FwdAddrs, \* listen addresses
          SvcProtos \* protocols

PCmds == Forwards \cup Services
NoCmd == "none"
Blank == "blank" \* the empty string: an option not given, an address without a peer

ASSUME P2PCmdsAssumption ==
  /\ IsFiniteSet(PCmds) /\ Forwards \cap Services = {} /\ FwdAddrs \cap SvcProtos = {}
  /\ {NoCmd, "open", "closer"} \cap PCmds = {} /\ Blank \notin FwdAddrs \cup SvcProtos

VARIABLES fcmd,  \* a foreground or background command
          freg,  \* ListenersLocal by address, ListenersP2P by protocol
          fdone, \* listeners whose done channel is closed, and for whom
          flock, \* the lock of ListenersLocal
          fcl,   \* one close command
          faddr  \* a question to parseIpfsAddr

pcmdvars == <<fcmd, freg, fdone, flock, fcl>>

\* A target Blank is an address that names no peer: parseIpfsAddr accepts it.
PCmdInit ==
  /\ fcmd = [c \in PCmds |-> [pc |-> "new", fg |-> FALSE, key |-> Blank,
                              target |-> Blank, client |-> TRUE]]
  /\ freg = [k \in FwdAddrs \cup SvcProtos |-> NoCmd]
  /\ fdone = [c \in PCmds |-> "open"]
  /\ flock = "free"
  /\ fcl = [pc |-> "new", opts |-> <<>>, todo |-> {}, count |-> 0]

KeysOf(c) == IF c \in Forwards THEN FwdAddrs ELSE SvcProtos
Unlocked(c) == c \in Forwards => flock = "free"

\* The address stays bound until close() is called.
Bound(k) == \E d \in PCmds: fcmd[d].key = k /\ fdone[d] = "open"
                             /\ fcmd[d].pc # "new" /\ d \in Forwards

-----------------------------------------------------------------------------
(* forward and listen *)

\* The address is bound, the listener registered under a key that must be free;
\* an error on the way ends the command.
Registers(c) ==
  /\ fcmd[c].pc = "new"
  /\ Unlocked(c)
  /\ \E k \in KeysOf(c), fg \in BOOLEAN, t \in IF c \in Forwards THEN {"peer", Blank} ELSE {"addr"}:
       IF freg[k] # NoCmd \/ Bound(k)
       THEN /\ fcmd' = [fcmd EXCEPT ![c].pc = "failed"]
            /\ UNCHANGED <<freg, fdone, flock, fcl>>
       ELSE /\ fcmd' = [fcmd EXCEPT ![c] =
                          [@ EXCEPT !.pc = IF fg THEN "emit" ELSE "returned",
                                    !.fg = fg, !.key = k, !.target = t]]
            /\ freg' = [freg EXCEPT ![k] = c]
            /\ UNCHANGED <<fdone, flock, fcl>>

\* The foreground command reports "active"; if that fails it returns at once.
EmitsActive(c) ==
  /\ fcmd[c].pc = "emit"
  /\ \/ fcmd' = [fcmd EXCEPT ![c].pc = "wait"]
     \/ /\ ~fcmd[c].client
        /\ fcmd' = [fcmd EXCEPT ![c].pc = "emitFailed"]
  /\ UNCHANGED <<freg, fdone, flock, fcl>>

\* Mutant: the listener that stands under the command's key is removed.
InterruptRemovesKey(c) ==
  /\ fcmd[c].pc = "wait" /\ ~fcmd[c].client /\ Unlocked(c)
  /\ LET mine == {d \in PCmds: freg[fcmd[c].key] = d}
     IN /\ freg' = [freg EXCEPT ![fcmd[c].key] = NoCmd]
        /\ fdone' = [d \in PCmds |-> IF d \in mine THEN c ELSE fdone[d]]
        /\ fcmd' = [fcmd EXCEPT ![c].pc = "done"]
  /\ UNCHANGED <<flock, fcl>>

\* The request's context: Listeners.Close with the command's own listener, which
\* somebody else may have removed already.
InterruptRemoves(c) ==
  /\ fcmd[c].pc = "wait" /\ ~fcmd[c].client /\ Unlocked(c)
  /\ IF freg[fcmd[c].key] = c
     THEN /\ freg' = [freg EXCEPT ![fcmd[c].key] = NoCmd]
          /\ fcmd' = [fcmd EXCEPT ![c].pc = "close"]
     ELSE /\ fcmd' = [fcmd EXCEPT ![c].pc = "done"]
          /\ UNCHANGED freg
  /\ UNCHANGED <<fdone, flock, fcl>>

InterruptCloses(c) == /\ fcmd[c].pc = "close"
                      /\ fdone' = [fdone EXCEPT ![c] = c]
                      /\ fcmd' = [fcmd EXCEPT ![c].pc = "done"]
                      /\ UNCHANGED <<freg, flock, fcl>>

\* listener.Done(): a close command has closed it.
ClosedByOther(c) == /\ fcmd[c].pc = "wait"
                    /\ fdone[c] # "open"
                    /\ fcmd' = [fcmd EXCEPT ![c].pc = "done"]
                    /\ UNCHANGED <<freg, fdone, flock, fcl>>

PCmdSteps(c) == Registers(c) \/ EmitsActive(c) \/ InterruptRemoves(c)
                \/ InterruptCloses(c) \/ ClosedByOther(c)

PClientGone(c) == /\ fcmd[c].client
                  /\ fcmd[c].pc \in {"emit", "wait"}
                  /\ fcmd' = [fcmd EXCEPT ![c].client = FALSE]
                  /\ UNCHANGED <<freg, fdone, flock, fcl>>

-----------------------------------------------------------------------------
(* close and ls *)

\* all, a protocol or address as key (p, l), a target (t): Blank is not given.
CloseOpts == {o \in [all: BOOLEAN, key: {Blank} \cup FwdAddrs \cup SvcProtos,
                     target: {Blank, "peer"}]:
                o.all <=> (o.key = Blank /\ o.target = Blank)}

Matches(o, c) == \/ o.all
                 \/ /\ o.key # Blank => fcmd[c].key = o.key
                    /\ o.target # Blank => fcmd[c].target = o.target

Registered(cs) == {c \in cs: fcmd[c].key # Blank /\ freg[fcmd[c].key] = c}

\* TargetAddress of a listener whose target names no peer panics.
Unnamed == {c \in Registered(Forwards): fcmd[c].target = Blank}
LooksAtUnnamed(o) == o.target # Blank /\ \E c \in Unnamed: o.key \in {Blank, fcmd[c].key}

\* No option, or --all with another one, is an error.
CloseFails == /\ fcl.pc = "new"
              /\ fcl' = [fcl EXCEPT !.pc = "failed"]
              /\ UNCHANGED <<fcmd, freg, fdone, flock>>

\* A panic in the match leaves the registry locked.
ClosePanics == /\ fcl.pc = "new"
               /\ flock = "free"
               /\ \E o \in CloseOpts: LooksAtUnnamed(o)
               /\ flock' = "stuck"
               /\ fcl' = [fcl EXCEPT !.pc = "panicked"]
               /\ UNCHANGED <<fcmd, freg, fdone>>

\* Listeners.Close: the matching ones are removed from one registry, under its
\* lock.
Takes(cs, o, next) ==
  LET hit == {c \in Registered(cs): Matches(o, c)}
  IN /\ freg' = [k \in DOMAIN freg |-> IF freg[k] \in hit THEN NoCmd ELSE freg[k]]
     /\ fcl' = [fcl EXCEPT !.pc = next, !.todo = hit, !.opts = <<o>>,
                           !.count = @ + Cardinality(hit)]
     /\ UNCHANGED <<fcmd, fdone, flock>>

CloseTakesLocal == /\ fcl.pc = "new"
                   /\ flock = "free"
                   /\ \E o \in CloseOpts: ~LooksAtUnnamed(o)
                                          /\ Takes(Forwards, o, "localTodo")

CloseTakesP2P == fcl.pc = "p2p" /\ Takes(Services, fcl.opts[1], "p2pTodo")

\* Then they are closed, one by one, without it.
CloseCloses(pc, next) ==
  /\ fcl.pc = pc
  /\ IF fcl.todo = {} THEN /\ fcl' = [fcl EXCEPT !.pc = next]
                           /\ UNCHANGED fdone
     ELSE \E c \in fcl.todo: /\ fdone' = [fdone EXCEPT ![c] = "closer"]
                             /\ fcl' = [fcl EXCEPT !.todo = @ \ {c}]
  /\ UNCHANGED <<fcmd, freg, flock>>

CloseSteps == \/ CloseFails \/ ClosePanics
              \/ CloseTakesLocal
              \/ CloseCloses("localTodo", "p2p")
              \/ CloseTakesP2P
              \/ CloseCloses("p2pTodo", "done")

\* p2p ls reads every target, under the lock.
LsPanics == /\ flock = "free"
            /\ Unnamed # {}
            /\ flock' = "stuck"
            /\ UNCHANGED <<fcmd, freg, fdone, fcl>>

PCmdNext == \/ \E c \in PCmds: PCmdSteps(c) \/ PClientGone(c)
            \/ CloseSteps
            \/ LsPanics

-----------------------------------------------------------------------------
(* parseIpfsAddr *)

\* What an address resolved to, as the peers of the results (Blank: none): it is
\* refused if there are none or they name two peers; those without are skipped.
ParseIpfsAddr(resolved) ==
  LET named == {i \in DOMAIN resolved : resolved[i] # Blank}
      first == CHOOSE i \in named : \A j \in named : i <= j
      bad == DOMAIN resolved = {} \/ \E i \in named : resolved[i] # resolved[first]
  IN  IF bad THEN [ok |-> FALSE, id |-> Blank, n |-> 0]
      ELSE [ok |-> TRUE, id |-> IF named = {} THEN Blank ELSE resolved[first],
            n |-> Cardinality(named)]

AsksAddr == \E k \in 0..3: \E resolved \in [1..k -> {Blank, "P", "Q"}]:
              faddr' = [topic |-> "addr", from |-> resolved,
                        to |-> ParseIpfsAddr(resolved)]

PCmdSpec ==
  /\ PCmdInit /\ faddr = [topic |-> "none"]
  /\ [][\/ PCmdNext /\ UNCHANGED faddr
        \/ AsksAddr /\ UNCHANGED pcmdvars]_<<pcmdvars, faddr>>

-----------------------------------------------------------------------------
(* Properties *)

\* A foreground command that was interrupted, or told that its listener was
\* closed, leaves no listener of its own behind.
ForegroundGone == \A c \in PCmds: fcmd[c].fg /\ fcmd[c].pc = "done" =>
                    freg[fcmd[c].key] # c

\* An interrupted command closes no listener but its own, also when its own was
\* closed and replaced under the same address or protocol in the meantime; a
\* close command closes what all of its options match.
ClosesOwn == \A c \in PCmds: fdone[c] # "open" =>
               \/ fdone[c] = c
               \/ /\ fdone[c] = "closer"
                  /\ LET o == fcl.opts[1]
                     IN o.all \/ (o.key \in {Blank, fcmd[c].key}
                                  /\ o.target \in {Blank, fcmd[c].target})

\* The number `p2p close` prints is the number of listeners it closed, although
\* others close listeners between its two passes.
CountTrue == fcl.pc = "done" => fcl.count = Cardinality({c \in PCmds: fdone[c] = "closer"})

\* A foreground command whose requester has gone ends, unless a panic has left
\* the registry locked.
ForegroundEnds == []<>(\A c \in PCmds:
                    fcmd[c].client \/ fcmd[c].pc \in {"done", "emitFailed"} \/ flock = "stuck")

\* An address that is accepted stands for one peer, the only one that anything it
\* resolved to names.
OnePeer == faddr.topic = "addr" /\ faddr.to.ok =>
             \A i \in DOMAIN faddr.from: faddr.from[i] \in {Blank, faddr.to.id}

\* A p2p command closes what it opened or was asked to close, no other listener,
\* and counts it right.
P2PSafe == ForegroundGone /\ ClosesOwn /\ CountTrue /\ OnePeer
=============================================================================
