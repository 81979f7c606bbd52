------------------------------ MODULE PinCmds -------------------------------
(* The pin commands: the ones that pin and verify several objects by a         *)
(* goroutine, and the listing of pins.                                         *)
EXTENDS Integers, Sequences, FiniteSets

LOCAL INSTANCE SequencesExt

-----------------------------------------------------------------------------
(***************************************************************************)
(* `ipfs pin add`, `rm`, `update` and `verify` (core/commands/pin/pin.go): *)
(* several objects pinned one after the other by a goroutine, while the    *)
(* handler reports progress and the requester may leave; and the goroutine *)
(* that verifies.                                                          *)
(***************************************************************************)

CONSTANTS PinArgs,  \* arguments of a command
          MaxTicks, \* progress reports
          PinRoots  \* recursive pins to verify

VARIABLES pmany, \* a command over several objects
          pchk   \* pin verify

pcvars == <<pmany, pchk>>

-----------------------------------------------------------------------------

\* op: "progress" is add with --progress, whose goroutine g pins; the others
\* run in the handler, which g stands for then. done: objects pinned (or
\* unpinned); ch: the result in the channel, which has room for one; provided:
\* fastProvideAfterPin has been called, with so many objects.
ManyInit == \E op \in {"add", "progress", "rm", "update"}:
              pmany = [op |-> op, main |-> "wait", g |-> "run", done |-> 0,
                       ch |-> "none", provided |-> 0, ticks |-> 0,
                       client |-> TRUE]

ManyArgs == IF pmany.op = "update" THEN 1 ELSE PinArgs

OneMore == /\ pmany.g = "run"
           /\ pmany.done < ManyArgs
           /\ pmany' = [pmany EXCEPT !.done = @ + 1]

\* pinAddMany: resolve and pin one object.
AddsPin == pmany.op \in {"add", "progress"} /\ OneMore

\* rm: resolve and unpin one object.
RmsPin == pmany.op = "rm" /\ OneMore

\* update: both paths are resolved before the pin is moved.
UpdatesPin == pmany.op = "update" /\ OneMore

\* One cannot be resolved or pinned, or the request has ended: the ones before
\* it stay as they are.
ManyFails == /\ pmany.g = "run"
             /\ pmany.done < ManyArgs
             /\ pmany' = [pmany EXCEPT !.g = "end", !.ch = "error"]

ManyEnds == /\ pmany.g = "run"
            /\ pmany.done = ManyArgs
            /\ pmany' = [pmany EXCEPT !.g = "end", !.ch = "ok"]

\* The result: after an error nothing is provided; rm provides nothing (fast
\* provide is taken to be configured otherwise); Emit may fail when nobody
\* listens.
ManyReturns ==
  /\ pmany.main = "wait"
  /\ pmany.ch # "none"
  /\ \E ret \in IF pmany.ch = "error" THEN {"failed"}
                ELSE IF pmany.client THEN {"ok"} ELSE {"ok", "failed"}:
       pmany' = [pmany EXCEPT !.main = ret,
                   !.provided = IF pmany.ch = "ok" /\ pmany.op # "rm"
                                THEN pmany.done ELSE 0]

\* The ticker of --progress; a failed Emit ends the handler.
ManyTicks == /\ pmany.main = "wait"
             /\ pmany.op = "progress"
             /\ pmany.ticks < MaxTicks
             /\ \/ pmany' = [pmany EXCEPT !.ticks = @ + 1]
                \/ /\ ~pmany.client
                   /\ pmany' = [pmany EXCEPT !.main = "failed"]

\* ctx.Done in the select of --progress.
ManyGivesUp == /\ pmany.main = "wait"
               /\ pmany.op = "progress"
               /\ ~pmany.client
               /\ pmany' = [pmany EXCEPT !.main = "failed"]

PinClientLeaves == /\ pmany.client
                   /\ pmany.main = "wait"
                   /\ pmany' = [pmany EXCEPT !.client = FALSE]

ManySteps == AddsPin \/ RmsPin \/ UpdatesPin \/ ManyEnds \/ ManyReturns

ManyNext == ManySteps \/ ManyFails \/ ManyTicks \/ ManyGivesUp \/ PinClientLeaves

-----------------------------------------------------------------------------
(* pinVerify's goroutine *)

\* at: pins checked; sent: results received; bad: results that were due.
ChkInit == \E verbose \in BOOLEAN:
             pchk = [g |-> "next", at |-> 0, due |-> 0, sent |-> 0,
                     verbose |-> verbose, reads |-> TRUE, client |-> TRUE,
                     closed |-> FALSE]

\* The next pin is whole or broken; whole ones are sent with --verbose.
ChkChecks ==
  /\ pchk.g = "next"
  /\ pchk.at < PinRoots
  /\ \E ok \in BOOLEAN:
       pchk' = IF ok /\ ~pchk.verbose THEN [pchk EXCEPT !.at = @ + 1]
               ELSE [pchk EXCEPT !.at = @ + 1, !.due = @ + 1, !.g = "send"]

\* The index cannot be read: its error is sent without looking at the context.
ChkIndexFails == /\ pchk.g = "next"
                 /\ pchk.at < PinRoots
                 /\ pchk' = [pchk EXCEPT !.g = "sendErr"]

ChkSends ==
  \/ /\ pchk.g = "send" /\ pchk.reads
     /\ pchk' = [pchk EXCEPT !.g = "next", !.sent = @ + 1]
  \/ /\ pchk.g = "send" /\ ~pchk.client
     /\ pchk' = [pchk EXCEPT !.g = "end", !.closed = TRUE]
  \/ /\ pchk.g = "sendErr" /\ pchk.reads
     /\ pchk' = [pchk EXCEPT !.g = "end", !.closed = TRUE]

ChkEnds == /\ pchk.g = "next"
           /\ pchk.at = PinRoots
           /\ pchk' = [pchk EXCEPT !.g = "end", !.closed = TRUE]

\* The requester leaves, and what reads the channel with them.
ChkLeft == /\ pchk.client
           /\ ~pchk.closed
           /\ pchk' = [pchk EXCEPT !.client = FALSE, !.reads = FALSE]

ChkSteps == ChkChecks \/ ChkSends \/ ChkEnds

ChkNext == ChkSteps \/ ChkIndexFails \/ ChkLeft

-----------------------------------------------------------------------------
(* Properties *)

\* The fast provide of `pin add` and `pin update` comes after every object of
\* the command was pinned and is for all of them, and a command that failed
\* provides nothing, however many it pinned before.
ProvidedPinned == pmany.provided > 0 =>
                    /\ pmany.done = ManyArgs /\ pmany.provided = ManyArgs
                    /\ pmany.ch = "ok"

\* The command and its goroutine end, also when the handler has gone because
\* the requester left while objects were being pinned.
PinManyEnded == pmany.main # "wait" /\ pmany.g = "end"

\* A requester who waits sees a result for every pin that has one due before
\* the channel is closed.
VerifyWhole == pchk.closed /\ pchk.client => pchk.sent = pchk.due

\* The verifying goroutine ends when the requester leaves, unless it is about
\* to report an error of the index, which it does without looking.
VerifyEnded == pchk.g \in {"end", "sendErr"}

-----------------------------------------------------------------------------
(***************************************************************************)
(* `ipfs pin ls` and `ipfs pin verify`: the listing of core/coreapi/pin.go *)
(* with the command that prints it (core/commands/pin/pin.go), while other *)
(* commands change the pins, and the check of recursive pins, which        *)
(* remembers what it has seen.                                             *)
(***************************************************************************)

CONSTANTS LNodes,    \* objects
          LLinks,    \* [LNodes -> SUBSET LNodes], the links of each
          MaxRepins  \* pin commands of others while a listing runs

VARIABLES ppins, \* rec, dir: recursive and direct pins; left: commands to come
          plist, \* one listing
          pver   \* a question to pin verify

plvars == <<ppins, plist, pver>>

LReach(S) ==
  LET f[k \in 0..Cardinality(LNodes)] ==
        IF k = 0 THEN UNION {LLinks[n]: n \in S}
        ELSE f[k - 1] \cup UNION {LLinks[n]: n \in f[k - 1]}
  IN f[Cardinality(LNodes)]

\* The kinds of pin that hold an object, as `pin ls` names them: direct and
\* recursive go before indirect.
IsRec(p) == p.rec
IsDir(p) == p.dir
IsInd(p) == LReach(p.rec) \ (p.rec \cup p.dir)

\* What has been pinned, and how, ever since the listing began.
HeldNow(p) == [rec |-> IsRec(p), dir |-> IsDir(p), ind |-> IsInd(p),
               any |-> p.rec \cup p.dir \cup LReach(p.rec)]
HeldStill(h, p) == [k \in DOMAIN h |-> h[k] \cap HeldNow(p)[k]]

-----------------------------------------------------------------------------
(* The pinner, under its own lock *)

Repins(new) == /\ ppins.left > 0
               /\ plist.pc \notin {"new", "done", "failed"}
               /\ ppins' = [new EXCEPT !.left = @ - 1]
               /\ plist' = [plist EXCEPT !.held = HeldStill(@, new)]
               /\ UNCHANGED pver

\* Pin: a recursive pin replaces a direct one, and a direct pin of what is
\* pinned recursively is refused.
PinnerPins == \E c \in LNodes:
                \/ Repins([ppins EXCEPT !.rec = @ \cup {c}, !.dir = @ \ {c}])
                \/ /\ c \notin ppins.rec
                   /\ Repins([ppins EXCEPT !.dir = @ \cup {c}])

PinnerUnpins == \/ \E c \in ppins.rec: Repins([ppins EXCEPT !.rec = @ \ {c}])
                \/ \E c \in ppins.dir: Repins([ppins EXCEPT !.dir = @ \ {c}])

\* Update: the new pin first, then the old one goes.
PinnerUpdates == \E c \in ppins.rec, d \in LNodes \ ppins.rec:
                   Repins([ppins EXCEPT !.rec = (@ \cup {d}) \ {c},
                                        !.dir = @ \ {d}])

-----------------------------------------------------------------------------
(* PinAPI.Ls *)

ListTypes == {"all", "direct", "indirect", "recursive"}

\* pc: what is read next; todo: read and not yet emitted, as kind; seen:
\* emittedSet; rkeys: roots to walk; out: what the command received, kind by
\* kind.
ListsInit ==
  /\ ppins \in [rec: SUBSET LNodes, dir: SUBSET LNodes, left: {MaxRepins}]
  /\ ppins.rec \cap ppins.dir = {}
  /\ plist = [pc |-> "new", type |-> "all", todo |-> {}, kind |-> "recursive",
              seen |-> {}, rkeys |-> {}, out |-> {}, twice |-> FALSE,
              held |-> HeldNow(ppins)]
  /\ pver = [topic |-> "none"]

\* An unknown type is refused before anything is read.
ListStarts ==
  /\ plist.pc = "new"
  /\ \E t \in ListTypes \cup {"unknown"}:
       plist' = [plist EXCEPT !.type = t,
                              !.pc = CASE t = "unknown" -> "failed"
                                       [] t \in {"recursive", "all"} -> "rec"
                                       [] t = "direct" -> "dir"
                                       [] OTHER -> "skip dir"]
  /\ UNCHANGED <<ppins, pver>>

\* RecursiveKeys: the roots are emitted and kept for the walk.
ListsRecursive ==
  /\ plist.pc = "rec"
  /\ plist' = [plist EXCEPT !.pc = "emit", !.kind = "recursive",
                            !.todo = ppins.rec, !.rkeys = ppins.rec]
  /\ UNCHANGED <<ppins, pver>>

ListsDirect ==
  /\ plist.pc = "dir"
  /\ plist' = [plist EXCEPT !.pc = "emit", !.kind = "direct",
                            !.todo = ppins.dir]
  /\ UNCHANGED <<ppins, pver>>

\* Type indirect: the direct pins, then the recursive ones, are noted as seen.
ListSkips ==
  \/ /\ plist.pc = "skip dir"
     /\ plist' = [plist EXCEPT !.pc = "skip rec", !.seen = @ \cup ppins.dir]
     /\ UNCHANGED <<ppins, pver>>
  \/ /\ plist.pc = "skip rec"
     /\ plist' = [plist EXCEPT !.pc = "walk", !.seen = @ \cup ppins.rec,
                               !.rkeys = ppins.rec]
     /\ UNCHANGED <<ppins, pver>>

\* Mutant: the walk stops at what was emitted.
ListWalksStopping ==
  /\ plist.pc = "walk"
  /\ LET Next(S) == S \cup UNION {LLinks[n]: n \in S \ plist.seen}
         first == UNION {LLinks[n]: n \in plist.rkeys}
     IN plist' = [plist EXCEPT !.pc = "emit", !.kind = "indirect",
                               !.todo = Next(Next(first)) \ plist.seen]
  /\ UNCHANGED <<ppins, pver>>

\* The walk below all the roots, without the roots themselves; what was emitted
\* is passed through.
ListWalks ==
  /\ plist.pc = "walk"
  /\ plist' = [plist EXCEPT !.pc = "emit", !.kind = "indirect",
                            !.todo = LReach(plist.rkeys) \ plist.seen]
  /\ UNCHANGED <<ppins, pver>>

\* AddToResultKeys sends one object to the command, once.
ListEmits ==
  /\ plist.pc = "emit"
  /\ \E c \in plist.todo:
       plist' = IF c \in plist.seen THEN [plist EXCEPT !.todo = @ \ {c}]
                ELSE [plist EXCEPT !.todo = @ \ {c}, !.seen = @ \cup {c},
                        !.out = @ \cup {<<c, plist.kind>>},
                        !.twice = @ \/ \E e \in plist.out: e[1] = c]
  /\ UNCHANGED <<ppins, pver>>

\* The next kind, by the type that was asked for.
ListGoesOn ==
  /\ plist.pc = "emit"
  /\ plist.todo = {}
  /\ plist' = [plist EXCEPT !.pc =
       CASE plist.type = "all" /\ plist.kind = "recursive" -> "dir"
         [] plist.type = "all" /\ plist.kind = "direct" -> "walk"
         [] OTHER -> "done"]
  /\ UNCHANGED <<ppins, pver>>

\* The index or a block cannot be read, or the requester leaves.
ListFails == /\ plist.pc \notin {"new", "done", "failed"}
             /\ plist' = [plist EXCEPT !.pc = "failed"]
             /\ UNCHANGED <<ppins, pver>>

ListsNext == \/ PinnerPins \/ PinnerUnpins \/ PinnerUpdates \/ ListStarts
             \/ ListsRecursive \/ ListsDirect \/ ListSkips \/ ListWalks
             \/ ListEmits \/ ListGoesOn \/ ListFails

-----------------------------------------------------------------------------
(* pin verify *)

\* checkPin: seen is the map visited, res what the call returns. An object is
\* noted when its links have been followed.
RECURSIVE CheckPin(_, _, _, _)
CheckPin(links, bad, st, c) ==
  IF c \in DOMAIN st.seen THEN [st EXCEPT !.res = st.seen[c]]
  ELSE LET Note(s, r) == [seen |-> [x \in DOMAIN s.seen \cup {c} |->
                            IF x = c THEN r ELSE s.seen[x]], res |-> r]
           Step(acc, l) ==
             LET s == CheckPin(links, bad, acc, l)
             IN [seen |-> s.seen,
                 res |-> [ok |-> acc.res.ok /\ s.res.ok,
                          nodes |-> IF s.res.ok THEN acc.res.nodes
                                    ELSE acc.res.nodes \o s.res.nodes]]
           start == [seen |-> st.seen, res |-> [ok |-> TRUE, nodes |-> <<>>]]
           all == FoldLeft(Step, start, links[c])
       IN IF c \in bad THEN Note(st, [ok |-> FALSE, nodes |-> <<c>>])
          ELSE Note(all, all.res)

\* pinVerify over the recursive pins, in the order the index gives them.
PinVerify(links, bad, roots) ==
  LET Step(acc, r) == LET s == CheckPin(links, bad, acc.st, r)
                      IN [st |-> s, out |-> Append(acc.out, s.res)]
      none == [seen |-> <<>>, res |-> [ok |-> TRUE, nodes |-> <<>>]]
  IN FoldLeft(Step, [st |-> none, out |-> <<>>], roots).out

\* The DAGs over four objects whose links go upwards.
VerifyDags ==
  LET up == {<<1, 2>>, <<1, 3>>, <<1, 4>>, <<2, 3>>, <<2, 4>>, <<3, 4>>}
  IN {[n \in 1..4 |-> SetToSortSeq({m \in 1..4: <<n, m>> \in E},
                                   LAMBDA x, y: x < y)]: E \in SUBSET up}

AsksVerify ==
  \E links \in VerifyDags, bad \in SUBSET (1..4),
     roots \in {<<1, 2>>, <<2, 1>>, <<3, 1, 2>>}:
    pver' = [topic |-> "verify", links |-> links, bad |-> bad,
             roots |-> roots, out |-> PinVerify(links, bad, roots)]

-----------------------------------------------------------------------------
(* Properties *)

\* No object is listed twice, and a listing of one kind lists no other, however
\* the pins change under it (emittedSet in pinLsAll).
ListsOnce ==
  /\ ~plist.twice
  /\ plist.type \in {"recursive", "direct", "indirect"} =>
       \A e \in plist.out: e[2] = plist.type

\* A listing that ends without an error lists, as what it is, every object that
\* was pinned in one way all the time, whatever else was changed meanwhile.
ListsSteady ==
  plist.pc = "done" =>
    LET Has(kinds) == {e[1]: e \in {x \in plist.out: x[2] \in kinds}}
    IN /\ plist.type \in {"all", "recursive"} =>
            plist.held.rec \subseteq Has({"recursive"})
       /\ plist.type \in {"all", "direct"} =>
            plist.held.dir \subseteq Has({"direct"})
       /\ plist.type \in {"all", "indirect"} =>
            plist.held.ind \subseteq Has({"indirect"})

\* `pin verify` says of each recursive pin whether anything below it is missing
\* and names exactly the missing objects that are reached, although it looks at
\* each object once and pins share parts of their DAGs.
VerifyExact ==
  pver.topic = "verify" =>
    \A i \in DOMAIN pver.roots:
      LET Next(S) == S \cup UNION {ToSet(pver.links[n]): n \in S \ pver.bad}
          below == Next(Next(Next(Next({pver.roots[i]}))))
      IN /\ pver.out[i].ok = (below \cap pver.bad = {})
         /\ ToSet(pver.out[i].nodes) = below \cap pver.bad

\* Listing, verifying and pinning report what is there, once and all of it, while
\* others pin and unpin.
PinsSafe == ListsOnce /\ ListsSteady /\ VerifyExact /\ ProvidedPinned /\ VerifyWhole
=============================================================================
