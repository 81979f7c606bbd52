----------------------------- MODULE BlockCmds ------------------------------
(* The commands that remove blocks: `block rm` and `filestore verify`, and      *)
(* `repo verify` and `repo gc`.                                                *)
EXTENDS Sequences, FiniteSets, Integers

-----------------------------------------------------------------------------
(***************************************************************************)
(* 'ipfs block put' and 'block rm', and 'ipfs filestore verify', which may *)
(* remove what it finds bad: the handler in the daemon, the client that    *)
(* reads its results, and others who pin, unpin, collect and edit files.   *)
(***************************************************************************)

CONSTANTS BBlocks,    \* blocks; a path to each resolves while it is there
          BBig,       \* the ones above the limit on the size of a block
          BMaxArgs, BMaxOthers

VARIABLES brun,    \* the command
          bstore,  \* blocks in the store
          bpins,   \* pinned blocks
          bfile,   \* what each block's backing file is like now
          bcli,    \* what the client has printed and returned
          bothers  \* steps of others so far

blockvars == <<brun, bstore, bpins, bfile, bcli, bothers>>

BCmds == {"put", "rm", "verify"}
FileStates == {"ok", "changed", "no-file", "error", "missing"}
BArgs == UNION {[1..n -> BBlocks]: n \in 1..BMaxArgs}

BlockInit ==
  /\ brun \in [cmd: BCmds, args: BArgs, i: {1}, pin: BOOLEAN, force: BOOLEAN, remove: BOOLEAN, quiet: BOOLEAN,
               out: {<<>>}, gone: {{}}, pc: {"run"}]
  /\ brun.cmd # "put" => ~brun.pin
  /\ brun.cmd # "rm" => ~brun.force /\ ~brun.quiet
  /\ brun.cmd # "verify" => ~brun.remove
  /\ bstore \in SUBSET BBlocks /\ (brun.cmd = "verify" => bstore = {})
  /\ bpins \in SUBSET bstore
  /\ IF brun.cmd = "verify" THEN bfile \in [BBlocks -> FileStates] ELSE bfile = [b \in BBlocks |-> "ok"]
  /\ bcli = [lines |-> <<>>, pc |-> "run"]
  /\ bothers = 0

Arg == brun.args[brun.i]
More == brun.pc = "run" /\ brun.i <= Len(brun.args)

\* The handler goes on to another step, or ends.
BlockEnds(how) == brun' = [brun EXCEPT !.pc = how]

\* BlockAPI.Put: the block is added; with --pin the pin lock is taken first and
\* held until the pin is flushed.
Puts ==
  /\ More /\ brun.cmd = "put"
  /\ \/ /\ bstore' = bstore \union {Arg}
        /\ BlockEnds(IF brun.pin THEN "pinning" ELSE "put")
     \/ BlockEnds("error") /\ UNCHANGED bstore
  /\ UNCHANGED <<bpins, bfile, bcli, bothers>>

CollectorFree == brun.pc # "pinning"

PutPins ==
  /\ brun.pc = "pinning"
  /\ \/ bpins' = bpins \union {Arg} /\ BlockEnds("put")
     \/ BlockEnds("error") /\ UNCHANGED bpins
  /\ UNCHANGED <<bstore, bfile, bcli, bothers>>

\* The size is looked at when the block is stored.
PutChecks ==
  /\ brun.pc = "put"
  /\ brun' = IF Arg \in BBig THEN [brun EXCEPT !.pc = "error"]
             ELSE [brun EXCEPT !.out = Append(@, <<"stored", Arg>>), !.i = @ + 1, !.pc = "run"]
  /\ UNCHANGED <<bstore, bpins, bfile, bcli, bothers>>

\* External: RmBlocks, under the collector's lock, leaves what is pinned, and says
\* nothing of a block that is not there when that is to be ignored.
RmResult(b) == CASE b \in bpins -> "pinned"
                 [] b \notin bpins /\ b \notin bstore /\ ~brun.force -> "notfound"
                 [] OTHER -> "removed"

\* blockRmCmd: an error of a block is a result of its own, and --quiet leaves out
\* the blocks that were removed.
Emits(out) == IF RmResult(Arg) # "removed" THEN Append(out, <<"failed", Arg>>)
              ELSE IF brun.quiet THEN out ELSE Append(out, <<"removed", Arg>>)

Rms ==
  /\ More /\ brun.cmd = "rm"
  /\ bstore' = IF RmResult(Arg) = "removed" THEN bstore \ {Arg} ELSE bstore
  /\ brun' = [brun EXCEPT !.i = @ + 1, !.out = Emits(@),
                          !.gone = IF RmResult(Arg) = "removed" THEN @ \union {<<"removed", Arg>>} ELSE @]
  /\ UNCHANGED <<bpins, bfile, bcli, bothers>>

\* A path that does not resolve, or a client that is gone, ends the command.
BlockFails == /\ More /\ brun.cmd \in {"rm", "verify"}
              /\ BlockEnds("error")
              /\ UNCHANGED <<bstore, bpins, bfile, bcli, bothers>>

Bad(status) == status \notin {"ok", "error"}

\* filestore.Verify, then the deletion of what it found bad.
VerifiesFile ==
  /\ More /\ brun.cmd = "verify"
  /\ LET s == bfile[Arg]
     IN /\ brun' = [brun EXCEPT !.i = @ + 1, !.out = Append(@, <<s, Arg>>),
                                !.gone = IF brun.remove /\ Bad(s) THEN @ \union {<<s, Arg>>} ELSE @]
        /\ bfile' = IF brun.remove /\ Bad(s) THEN [bfile EXCEPT ![Arg] = "missing"] ELSE bfile
  /\ UNCHANGED <<bstore, bpins, bcli, bothers>>

BlockDone == /\ brun.pc = "run" /\ brun.i > Len(brun.args)
             /\ BlockEnds("ok")
             /\ UNCHANGED <<bstore, bpins, bfile, bcli, bothers>>

\* What the client says of a verified block it tells from the status.
Line(r) == IF brun.cmd # "verify" THEN r
           ELSE IF brun.remove /\ r[1] \notin {"ok", "error"} THEN <<"remove", r[2]>> ELSE <<"keep", r[2]>>

\* The client prints the results as they come.
Prints ==
  /\ bcli.pc = "run" /\ Len(bcli.lines) < Len(brun.out)
  /\ bcli' = [bcli EXCEPT !.lines = Append(@, Line(brun.out[Len(@) + 1]))]
  /\ UNCHANGED <<brun, bstore, bpins, bfile, bothers>>

\* A result that is an error makes the client fail in the end.
ClientResult == IF brun.pc = "error" \/ \E k \in DOMAIN bcli.lines: bcli.lines[k][1] = "failed"
                THEN "error" ELSE "ok"

BlockClientEnds ==
  /\ bcli.pc = "run" /\ brun.pc \in {"ok", "error"} /\ Len(bcli.lines) = Len(brun.out)
  /\ bcli' = [bcli EXCEPT !.pc = ClientResult]
  /\ UNCHANGED <<brun, bstore, bpins, bfile, bothers>>

\* Others: a pin or an unpin, a collection, an edit of a backing file.
BOthers ==
  /\ bothers < BMaxOthers /\ bothers' = bothers + 1 /\ bcli.pc = "run"
  /\ \/ \E b \in bstore \ bpins: bpins' = bpins \union {b} /\ UNCHANGED <<bstore, bfile>>
     \/ \E b \in bpins: bpins' = bpins \ {b} /\ UNCHANGED <<bstore, bfile>>
     \/ CollectorFree /\ bstore' = bpins /\ UNCHANGED <<bpins, bfile>>
     \/ /\ brun.cmd = "verify"
        /\ \E b \in BBlocks, s \in {"ok", "changed"}:
             bfile[b] # "missing" /\ bfile' = [bfile EXCEPT ![b] = s]
        /\ UNCHANGED <<bstore, bpins>>
  /\ UNCHANGED <<brun, bcli>>

BlockNext == Puts \/ PutPins \/ PutChecks \/ Rms \/ BlockFails \/ VerifiesFile \/ BlockDone \/ Prints \/ BlockClientEnds \/ BOthers

-----------------------------------------------------------------------------
(* Properties *)

\* Whatever is put, removed and collected, a pinned block is in the store.
PinnedStay == bpins \subseteq bstore

\* 'block rm' says success only when it has removed every block, or passed over it
\* with --force: none of its results is lost on the way to the client.
RmReports == (brun.cmd = "rm" /\ bcli.pc = "ok") =>
  /\ \A k \in DOMAIN brun.args: <<"removed", brun.args[k]>> \in brun.gone
  /\ bcli.lines = IF brun.quiet THEN <<>> ELSE [k \in DOMAIN brun.args |-> <<"removed", brun.args[k]>>]

\* What 'filestore verify' prints as removed is what was removed, and a block that
\* could not be judged is never removed.
VerifyPrints == brun.cmd = "verify" =>
  /\ \A g \in brun.gone: g[1] \in {"changed", "no-file", "missing"}
  /\ bcli.pc = "ok" =>
       \A b \in BBlocks: <<"remove", b>> \in {bcli.lines[k]: k \in DOMAIN bcli.lines}
                          <=> \E g \in brun.gone: g[2] = b

-----------------------------------------------------------------------------
(***************************************************************************)
(* `ipfs repo verify`: workers that read every block, and remove or fetch  *)
(* again the ones they cannot read, while the node goes on collecting      *)
(* garbage; and how `ipfs repo gc` gathers what a collection reports.      *)
(***************************************************************************)

CONSTANTS VBlocks,   \* blocks in the datastore
          VNet,      \* those that the network has
          VWorkers,  \* goroutines that verify
          GcEvents   \* results of a collection

ASSUME BlockCmdsAssumption ==
  IsFiniteSet(VBlocks) /\ VWorkers # {} /\ BMaxArgs \in Nat /\ GcEvents \in Nat

VARIABLES vrun,   \* the command: options, keys to come, counters, outcome
          vwork,  \* what each worker does
          vstore, \* "good", "bad" or "gone"
          vpast,  \* the store when the command began, and what was collected
          gcrun   \* a `repo gc`

verifyvars == <<vrun, vwork, vstore, vpast>>

\* External: the datastore, whose reads may fail now and then when flaky, and
\* whose deletes may be refused.
VerifyInit ==
  \E mode \in {"check", "drop", "heal"}, fault \in {"none", "flaky", "refuses"}:
    /\ vstore \in [VBlocks -> {"good", "bad"}]
    /\ vrun = [mode |-> mode, fault |-> fault,
               keys |-> VBlocks, results |-> "open", h |-> "range", ctx |-> "live", seen |-> 0,
               corrupted |-> 0, removefailed |-> 0, healfailed |-> 0]
    /\ vpast = [start |-> vstore, collected |-> {}]
    /\ vwork = [w \in VWorkers |-> [pc |-> "next", key |-> "none", state |-> "none"]]

Becomes(w, r) == vwork' = [vwork EXCEPT ![w] = r]

\* Another key, or none is left.
WorkerTakes(w) == /\ vwork[w].pc = "next"
                  /\ \E k \in vrun.keys:
                       /\ Becomes(w, [pc |-> "get", key |-> k, state |-> "none"])
                       /\ vrun' = [vrun EXCEPT !.keys = @ \ {k}]
                  /\ UNCHANGED <<vstore, vpast>>

WorkerEnds(w) == /\ vwork[w].pc = "next" /\ vrun.keys = {}
                 /\ Becomes(w, [pc |-> "done", key |-> "none", state |-> "none"])
                 /\ UNCHANGED <<vrun, vstore, vpast>>

\* Read through the ValidatingBlockstore.
GetValid(w) == /\ vwork[w].pc = "get" /\ vstore[vwork[w].key] = "good"
               /\ Becomes(w, [vwork[w] EXCEPT !.pc = "send", !.state = "valid"])
               /\ UNCHANGED <<vrun, vstore, vpast>>

\* Any error counts as corruption.
GetFails(w) == /\ vwork[w].pc = "get"
               /\ vstore[vwork[w].key] # "good" \/ vrun.fault = "flaky"
               /\ Becomes(w, IF vrun.mode # "check"
                             THEN [vwork[w] EXCEPT !.pc = "delete"]
                             ELSE [vwork[w] EXCEPT !.pc = "send", !.state = "corrupt"])
               /\ UNCHANGED <<vrun, vstore, vpast>>

DeleteFails(w) == /\ vwork[w].pc = "delete" /\ vrun.fault = "refuses"
                  /\ Becomes(w, [vwork[w] EXCEPT !.pc = "send", !.state = "removefailed"])
                  /\ UNCHANGED <<vrun, vstore, vpast>>

Deletes(w) == /\ vwork[w].pc = "delete"
              /\ vstore' = [vstore EXCEPT ![vwork[w].key] = "gone"]
              /\ Becomes(w, IF vrun.mode = "heal" THEN [vwork[w] EXCEPT !.pc = "heal"]
                            ELSE [vwork[w] EXCEPT !.pc = "send", !.state = "removed"])
              /\ UNCHANGED <<vrun, vpast>>

\* Fetched from the network and stored by the node's own blockstore.
Heals(w) == /\ vwork[w].pc = "heal" /\ vwork[w].key \in VNet
            /\ vstore' = [vstore EXCEPT ![vwork[w].key] = "good"]
            /\ Becomes(w, [vwork[w] EXCEPT !.pc = "send", !.state = "healed"])
            /\ UNCHANGED <<vrun, vpast>>

\* Nobody has it, or the time for it is over.
HealFails(w) == /\ vwork[w].pc = "heal"
                /\ vwork[w].key \notin VNet \/ vrun.ctx = "done"
                /\ Becomes(w, [vwork[w] EXCEPT !.pc = "send", !.state = "healfailed"])
                /\ UNCHANGED <<vrun, vstore, vpast>>

\* A result reaches the handler, which counts it and reports it.
Counted(r, state) ==
  [r EXCEPT !.seen = @ + 1, !.corrupted = @ + (IF state = "valid" THEN 0 ELSE 1),
            !.removefailed = @ + (IF state = "removefailed" THEN 1 ELSE 0),
            !.healfailed = @ + (IF state = "healfailed" THEN 1 ELSE 0)]

SendResult(w) == /\ vwork[w].pc = "send" /\ vrun.h = "range"
                 /\ vrun' = Counted(vrun, vwork[w].state)
                 /\ Becomes(w, [pc |-> "next", key |-> "none", state |-> "none"])
                 /\ UNCHANGED <<vstore, vpast>>

SendGivesUp(w) == /\ vwork[w].pc = "send" /\ vrun.ctx = "done"
                  /\ Becomes(w, [vwork[w] EXCEPT !.pc = "done"])
                  /\ UNCHANGED <<vrun, vstore, vpast>>

\* All workers are done: verifyResultChan closes the channel.
ResultsClose == /\ vrun.results = "open" /\ \A w \in VWorkers: vwork[w].pc = "done"
                /\ vrun' = [vrun EXCEPT !.results = "closed"]
                /\ UNCHANGED <<vwork, vstore, vpast>>

\* Mutant: the requester who left is not looked at.
VerifyFailsEver(r) == \/ r.corrupted > 0 /\ r.mode = "check"
                      \/ r.removefailed > 0
                      \/ r.healfailed > 0

\* What makes the command fail.
VerifyFails(r) == \/ r.ctx = "done"
                  \/ r.corrupted > 0 /\ r.mode = "check"
                  \/ r.removefailed > 0
                  \/ r.healfailed > 0

VerifyReturns == /\ vrun.h = "range" /\ vrun.results = "closed"
                 /\ vrun' = [vrun EXCEPT !.h = IF VerifyFails(vrun) THEN "error" ELSE "ok",
                               !.ctx = "done"]
                 /\ UNCHANGED <<vwork, vstore, vpast>>

\* A report cannot be written: the handler returns with workers at work, and the
\* context of the request ends.
VerifyEmitFails == /\ vrun.h = "range" /\ vrun.ctx = "done"
                   /\ vrun' = [vrun EXCEPT !.h = "error"]
                   /\ UNCHANGED <<vwork, vstore, vpast>>

VerifyClientLeaves == /\ vrun.h = "range" /\ vrun.ctx = "live"
                      /\ vrun' = [vrun EXCEPT !.ctx = "done"]
                      /\ UNCHANGED <<vwork, vstore, vpast>>

\* External: the node's collector removes a block that was listed; once.
VerifyCollected == /\ vrun.h = "range" /\ vpast.collected = {}
                   /\ \E b \in VBlocks:
                        /\ vstore' = [vstore EXCEPT ![b] = "gone"]
                        /\ vpast' = [vpast EXCEPT !.collected = {b}]
                   /\ UNCHANGED <<vrun, vwork>>

VerifyWorks(w) == WorkerTakes(w) \/ WorkerEnds(w) \/ GetValid(w) \/ GetFails(w) \/ DeleteFails(w)
                  \/ Deletes(w) \/ Heals(w) \/ HealFails(w) \/ SendResult(w) \/ SendGivesUp(w)

VerifySteps == (\E w \in VWorkers: VerifyWorks(w)) \/ ResultsClose \/ VerifyReturns

VerifyNext == VerifySteps \/ VerifyEmitFails \/ VerifyClientLeaves \/ VerifyCollected

-----------------------------------------------------------------------------
(* repo gc *)

GcInit == \E n \in 0..GcEvents: \E events \in [1..n -> {"key", "error"}], stream \in BOOLEAN:
  gcrun = [events |-> events, stream |-> stream, at |-> 0, errs |-> 0, h |-> "loop",
           ctx |-> "live"]

GcNow == gcrun.events[gcrun.at + 1]

\* With --stream-errors every result is emitted, and when that fails the handler
\* returns; without it a result that cannot be emitted is dropped.
GcTakes == /\ gcrun.h = "loop" /\ gcrun.at < Len(gcrun.events)
           /\ gcrun' = IF gcrun.stream /\ gcrun.ctx = "done"
                       THEN [gcrun EXCEPT !.h = "error", !.at = @ + 1]
                       ELSE [gcrun EXCEPT !.at = @ + 1,
                               !.errs = @ + (IF GcNow = "error" THEN 1 ELSE 0)]

\* CollectResult stops with the context's error.
GcStops == /\ gcrun.h = "loop" /\ ~gcrun.stream /\ gcrun.ctx = "done"
           /\ gcrun' = [gcrun EXCEPT !.h = "error"]

GcReturns == /\ gcrun.h = "loop" /\ gcrun.at = Len(gcrun.events)
             /\ gcrun' = [gcrun EXCEPT !.h = IF gcrun.errs > 0 THEN "error" ELSE "ok"]

GcClientLeaves == /\ gcrun.h = "loop" /\ gcrun.ctx = "live"
                  /\ gcrun' = [gcrun EXCEPT !.ctx = "done"]

GcNext == GcTakes \/ GcStops \/ GcReturns \/ GcClientLeaves

\* The commands have nothing in common but the node they run in.
BlockCmdsSpec ==
  /\ BlockInit /\ VerifyInit /\ GcInit
  /\ [][\/ BlockNext /\ UNCHANGED <<verifyvars, gcrun>>
        \/ VerifyNext /\ UNCHANGED <<blockvars, gcrun>>
        \/ GcNext /\ UNCHANGED <<blockvars, verifyvars>>]_<<blockvars, verifyvars, gcrun>>

-----------------------------------------------------------------------------
(* Properties *)

\* A `repo verify` that succeeds leaves no corrupt block behind, has accounted
\* for every block, and with --heal every corrupt block is there again unless
\* it was collected meanwhile.
VerifySound == vrun.h = "ok" =>
  /\ vrun.seen = Cardinality(VBlocks)
  /\ \A b \in VBlocks: vstore[b] # "bad"
  /\ vrun.mode = "heal" => \A b \in VBlocks \ vpast.collected: vstore[b] = "good"

\* When every read of the datastore can be trusted, a good block is never removed
\* by any mode of the command.
GoodKept == vrun.fault # "flaky" => \A b \in VBlocks \ vpast.collected:
              vpast.start[b] = "good" => vstore[b] = "good"

\* The workers end when the requester leaves, whichever result they hold.
VerifyGone == []<>(vrun.h # "range" \/ vrun.ctx = "done" => \A w \in VWorkers: vwork[w].pc = "done")

\* `repo gc` reports success only when the collection went through without errors.
GcReported == gcrun.h = "ok" =>
                /\ gcrun.at = Len(gcrun.events)
                /\ \A i \in DOMAIN gcrun.events: gcrun.events[i] # "error"

\* No command removes a block that is pinned or good, and what it reports removed,
\* healed or collected is so.
BlocksSafe == PinnedStay /\ RmReports /\ VerifyPrints /\ VerifySound /\ GoodKept /\ GcReported
=============================================================================
