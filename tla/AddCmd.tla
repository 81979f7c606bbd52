------------------------------- MODULE AddCmd -------------------------------
(***************************************************************************)
(* `ipfs add` (core/commands/add.go): the handler and the goroutine that adds *)
(* one argument after the other (coreapi/unixfs.go, coreunix/add.go), tied by *)
(* a bounded channel of events; the pin lock they hold against a collector;   *)
(* how the options and the config become the settings of the adder; what is   *)
(* announced; the client's progress bar.                                      *)
(***************************************************************************)
EXTENDS Integers, Sequences, FiniteSets

CONSTANTS
  AArgs,      \* arguments of a request, at most
  AEvents,    \* events the adder sends for one argument
  AChanSize   \* adderOutChanSize

ASSUME AddAssumption == AArgs \in Nat /\ AEvents \in Nat

VARIABLES
  aopt,   \* of the request: arguments, --pin, --to-files
  ah,     \* the handler and its client
  ag,     \* the goroutine of the current argument
  ach,    \* its events channel and its error channel
  agc,    \* a collector: "idle", "wait" (in GCLock) or "hold"
  adone,  \* arguments that are pinned, and linked into MFS
  aset,   \* a command line and the settings it yields
  abar    \* the client: its loop, the progress bar

addvars == <<aopt, ah, ag, ach, agc, adone>>
avars == <<addvars, aset, abar>>

(***************************************************************************)
(* The goroutine                                                           *)
(***************************************************************************)
GTo(at) == ag' = [ag EXCEPT !.at = at]
\* PinLock: a reader waits for a writer that waits.
AFree == agc = "idle"
PinHeld == ag.outer \/ ag.inner

\* The end of the goroutine: its answer, then the deferred Unlock, then the
\* deferred close of the events.
GAnswers(err) == ach' = [ach EXCEPT !.err = err] /\ GTo("unwind")

\* Copying into MFS without a pin: the lock is held across the add.
GStarts ==
  /\ ag.at = "start"
  /\ IF aopt.mfs # "no" /\ ~aopt.pin THEN AFree /\ ag' = [ag EXCEPT !.outer = TRUE, !.at = "open"]
                                     ELSE GTo("open")
  /\ UNCHANGED <<aopt, ah, ach, agc, adone>>

\* AddAllAndPin takes the lock itself for an add that pins.
GOpens ==
  /\ ag.at = "open"
  /\ IF aopt.pin THEN AFree /\ ag' = [ag EXCEPT !.inner = TRUE, !.at = "add"] ELSE GTo("add")
  /\ UNCHANGED <<aopt, ah, ach, agc, adone>>

\* outputDagnode, progressReader: a send that waits for room and for nothing else.
GSends ==
  /\ ag.at = "add" /\ ag.sent < AEvents /\ Len(ach.buf) < AChanSize
  /\ ach' = [ach EXCEPT !.buf = Append(@, ag.sent + 1)]
  /\ ag' = [ag EXCEPT !.sent = @ + 1]
  /\ UNCHANGED <<aopt, ah, agc, adone>>

\* maybePauseForGC, once before each file.
GPauses ==
  /\ \/ /\ ag.at = "add" /\ ag.inner /\ agc = "wait" /\ ag.files <= ag.sent
        /\ ag' = [ag EXCEPT !.inner = FALSE, !.at = "paused", !.files = ag.sent + 1]
     \/ ag.at = "paused" /\ AFree /\ ag' = [ag EXCEPT !.inner = TRUE, !.at = "add"]
  /\ UNCHANGED <<aopt, ah, ach, agc, adone>>

\* Any read or write of the add may fail, when the request is cancelled too.
GFails ==
  /\ ag.at = "add" /\ ach' = [ach EXCEPT !.err = "err"]
  /\ ag' = [ag EXCEPT !.inner = FALSE, !.at = "unwind"]
  /\ UNCHANGED <<aopt, ah, agc, adone>>

GAdded ==
  /\ ag.at = "add" /\ ag.sent = AEvents
  /\ adone' = IF aopt.pin THEN [adone EXCEPT !.pinned = @ \cup {ah.entry}] ELSE adone
  /\ ag' = [ag EXCEPT !.inner = FALSE, !.at = IF aopt.mfs = "no" THEN "unwind" ELSE "link"]
  /\ ach' = IF aopt.mfs = "no" THEN [ach EXCEPT !.err = "nil"] ELSE ach
  /\ UNCHANGED <<aopt, ah, agc>>

\* The link into MFS: for an add that pins, the lock is taken here.
GLinkLocks ==
  /\ ag.at = "link" /\ ~ag.outer /\ AFree /\ ag' = [ag EXCEPT !.outer = TRUE]
  /\ UNCHANGED <<aopt, ah, ach, agc, adone>>

\* A destination that is not a directory takes one argument.
RefusesLink == adone.linked # {} /\ aopt.mfs = "file"

GLinks ==
  /\ ag.at = "link" /\ ag.outer
  /\ \/ GAnswers("err") /\ UNCHANGED adone
     \/ ~RefusesLink /\ GAnswers("nil") /\ adone' = [adone EXCEPT !.linked = @ \cup {ah.entry}]
  /\ UNCHANGED <<aopt, ah, agc>>

\* Mutant: the channel is closed before the lock is given back.
GUnwindsClosing ==
  /\ \/ ag.at = "unwind" /\ GTo("unlock") /\ ach' = [ach EXCEPT !.closed = TRUE]
     \/ ag.at = "unlock" /\ ag' = [ag EXCEPT !.outer = FALSE, !.at = "off"] /\ UNCHANGED ach
  /\ UNCHANGED <<aopt, ah, agc, adone>>

GUnwinds ==
  /\ \/ ag.at = "unwind" /\ ag' = [ag EXCEPT !.outer = FALSE, !.at = "close"] /\ UNCHANGED ach
     \/ ag.at = "close" /\ GTo("off") /\ ach' = [ach EXCEPT !.closed = TRUE]
  /\ UNCHANGED <<aopt, ah, agc, adone>>

GSteps == GStarts \/ GOpens \/ GSends \/ GPauses \/ GFails \/ GAdded \/ GLinkLocks \/ GLinks \/ GUnwinds

(***************************************************************************)
(* The handler                                                             *)
(***************************************************************************)
HReturns(res) == ah' = [ah EXCEPT !.at = "done", !.res = res]

HNext ==
  /\ ah.at = "next"
  /\ \/ /\ ah.entry < aopt.n
        /\ ah' = [ah EXCEPT !.at = "recv", !.entry = @ + 1]
        /\ ag' = [at |-> "start", sent |-> 0, files |-> 0, outer |-> FALSE, inner |-> FALSE]
        /\ ach' = [buf |-> <<>>, closed |-> FALSE, err |-> "empty"]
     \/ HReturns("iter") /\ UNCHANGED <<ag, ach>>
     \/ ah.entry = aopt.n /\ ah.entry = 0 /\ HReturns("none") /\ UNCHANGED <<ag, ach>>
     \/ ah.entry = aopt.n /\ ah.entry > 0 /\ HReturns("ok") /\ UNCHANGED <<ag, ach>>
  /\ UNCHANGED <<aopt, agc, adone>>

\* Emit fails when the client is gone: the handler leaves, the goroutine stays.
HEmits ==
  /\ ah.at = "recv" /\ ach.buf # <<>>
  /\ ach' = [ach EXCEPT !.buf = Tail(@)]
  /\ IF ah.conn THEN ah' = [ah EXCEPT !.emitted = @ + 1] ELSE HReturns("emit")
  /\ UNCHANGED <<aopt, ag, agc, adone>>

\* The channel is closed and drained; then the answer.
HDrained == ach.buf = <<>> /\ ach.closed

HEnds ==
  /\ ah.at = "recv" /\ HDrained /\ ach.err # "empty"
  /\ IF ach.err = "err" THEN HReturns("add") ELSE ah' = [ah EXCEPT !.at = "next"]
  /\ UNCHANGED <<aopt, ag, ach, agc, adone>>

ClientLeaves ==
  /\ ah.conn /\ ah.at # "done" /\ ah' = [ah EXCEPT !.conn = FALSE]
  /\ UNCHANGED <<aopt, ag, ach, agc, adone>>

CollectorAsks == agc = "idle" /\ agc' = "wait" /\ UNCHANGED <<aopt, ah, ag, ach, adone>>
CollectorGoesOn ==
  /\ \/ agc = "wait" /\ ~PinHeld /\ agc' = "hold"
     \/ agc = "hold" /\ agc' = "idle"
  /\ UNCHANGED <<aopt, ah, ag, ach, adone>>

AddSteps == GSteps \/ HNext \/ HEmits \/ HEnds \/ CollectorGoesOn
AddNext == AddSteps \/ ClientLeaves \/ CollectorAsks

(***************************************************************************)
(* Options                                                                 *)
(***************************************************************************)
\* A command line and the config: raw-leaves ("unset", "true", "false") on both,
\* the CID version (-1: not given), metadata (mode, mtime), the destination.
CommandLines ==
  [raw : {"unset", "true", "false"}, cfgraw : {"unset", "true"}, cid : {-1, 0, 1},
   hash : {"sha2-256", "blake3", "unknown"}, meta : {"no", "set", "nsecs"}, nocopy : BOOLEAN,
   onlyhash : BOOLEAN, pin : BOOLEAN, name : BOOLEAN, dest : {"none", "mfs", "wrap", "both"}]

RawGiven(f) == IF f.raw # "unset" THEN f.raw ELSE f.cfgraw
DoPin(f) == f.pin /\ ~f.onlyhash

\* The checks of the command and of UnixfsAddOptions, in their order.
MetadataRefused(f) == f.meta = "set" /\ RawGiven(f) = "true"

AddRefused(f) ==
  \/ MetadataRefused(f)
  \/ f.onlyhash /\ f.dest \in {"mfs", "both"}
  \/ ~DoPin(f) /\ f.name
  \/ f.dest = "both"
  \/ f.hash = "unknown"
  \/ f.meta = "nsecs"
  \/ f.nocopy /\ (IF f.meta = "set" THEN "false" ELSE RawGiven(f)) = "false"
  \/ f.hash # "sha2-256" /\ f.cid = 0

\* Metadata turns raw leaves off; nocopy and CIDv1 turn them on unless they
\* were set.
CidOf(f) == IF f.hash # "sha2-256" THEN 1 ELSE IF f.cid < 0 THEN 0 ELSE f.cid
RawOf(f) ==
  CASE f.meta = "set" -> "false"
    [] f.meta # "set" /\ RawGiven(f) # "unset" -> RawGiven(f)
    [] OTHER -> IF f.nocopy \/ CidOf(f) = 1 THEN "true" ELSE "false"

AddSettings(f) ==
  [ok |-> ~AddRefused(f), raw |-> RawOf(f) = "true", cid |-> CidOf(f), pin |-> DoPin(f),
   store |-> IF f.onlyhash THEN "null" ELSE IF f.nocopy THEN "filestore" ELSE "blocks"]

\* Fast provide.  The walk of the DAG goes by the strategy alone, and replaces
\* the announcement of the root.
Provisions ==
  [root : BOOLEAN, dag : BOOLEAN, pin : BOOLEAN, mfs : BOOLEAN, enabled : BOOLEAN, dht : BOOLEAN,
   strategy : {{"all"}, {"pinned"}, {"roots"}, {"mfs"}, {"pinned", "mfs"}}]

Selected(p) ==
  \/ "all" \in p.strategy
  \/ p.strategy \cap {"pinned", "roots"} # {} /\ p.pin
  \/ "mfs" \in p.strategy /\ p.mfs

RootAnnounced(p) == p.enabled /\ p.dht /\ Selected(p)
\* (A node that does not provide has a provider that does nothing.)
DagWalked(p) == p.enabled /\ p.strategy \cap {"pinned", "mfs"} # {}

FastProvided(p) ==
  [root |-> IF p.dag THEN DagWalked(p) ELSE p.root /\ RootAnnounced(p), dag |-> p.dag /\ DagWalked(p)]

AsksAdd ==
  /\ aset.q = "none"
  /\ \/ \E f \in CommandLines : aset' = [q |-> "settings", in |-> f, out |-> AddSettings(f)]
     \/ \E p \in Provisions : aset' = [q |-> "provide", in |-> p, out |-> FastProvided(p)]

(***************************************************************************)
(* The client                                                              *)
(***************************************************************************)
\* The response: progress of the files x and y, of 2 and 1 units, each followed
\* by what was added.
Response == <<[name |-> "x", bytes |-> 1], [name |-> "x", bytes |-> 2], [name |-> "x", bytes |-> 0],
              [name |-> "y", bytes |-> 1], [name |-> "y", bytes |-> 0]>>
Shown(n) == Cardinality({i \in 1..n : Response[i].bytes > 0})

\* progressBar: what the bar shows after an event; bytes = 0 is the event of an
\* added file.
Advance(b, e) ==
  IF e.bytes = 0 THEN b
  ELSE LET prev == IF b.name \notin {"none", e.name} \/ e.bytes < b.last THEN b.prev + b.last ELSE b.prev
       IN [b EXCEPT !.name = e.name, !.last = e.bytes, !.prev = prev, !.total = prev + e.bytes]

\* The loop hands an event over (the channel has no buffer) or gives up.
LoopHands ==
  /\ abar.loop = "next" /\ abar.got < Len(Response) /\ abar.bar = "runs"
  /\ abar' = [Advance(abar, Response[abar.got + 1]) EXCEPT !.got = @ + 1]
LoopGivesUp ==
  /\ abar.loop = "next" /\ abar.cancelled /\ abar' = [abar EXCEPT !.loop = "wait"]
\* The response ends; the channel is closed and the bar waited for.
LoopEnds ==
  /\ abar.loop = "next" /\ (abar.got = Len(Response) \/ abar.failed)
  /\ abar' = [abar EXCEPT !.loop = "wait"]
BarEnds ==
  /\ abar.bar = "runs" /\ (abar.loop = "wait" \/ abar.cancelled)
  /\ abar' = [abar EXCEPT !.bar = "gone"]
LoopReturns == abar.loop = "wait" /\ abar.bar = "gone" /\ abar' = [abar EXCEPT !.loop = "done"]
ResponseFails == ~abar.failed /\ abar.loop = "next" /\ abar' = [abar EXCEPT !.failed = TRUE]
Cancelled == ~abar.cancelled /\ abar.loop # "done" /\ abar' = [abar EXCEPT !.cancelled = TRUE]

BarSteps == LoopHands \/ LoopGivesUp \/ LoopEnds \/ BarEnds \/ LoopReturns
BarNext == BarSteps \/ ResponseFails \/ Cancelled

AddInit ==
  /\ aopt \in [n : 0..AArgs, pin : BOOLEAN, mfs : {"no", "dir", "file"}]
  /\ ah = [at |-> "next", entry |-> 0, emitted |-> 0, res |-> "unset", conn |-> TRUE]
  /\ ag = [at |-> "off", sent |-> 0, files |-> 0, outer |-> FALSE, inner |-> FALSE]
  /\ ach = [buf |-> <<>>, closed |-> TRUE, err |-> "empty"]
  /\ agc = "idle" /\ adone = [pinned |-> {}, linked |-> {}]
  /\ aset = [q |-> "none"]
  /\ abar = [loop |-> "next", bar |-> "runs", got |-> 0, name |-> "none", last |-> 0, prev |-> 0,
             total |-> 0, failed |-> FALSE, cancelled |-> FALSE]

\* Handler and goroutine, a question about the options, and the client's loop.
AddSpec ==
  AddInit /\ [][\/ AddNext /\ UNCHANGED <<aset, abar>>
                \/ AsksAdd /\ UNCHANGED <<addvars, abar>>
                \/ BarNext /\ UNCHANGED <<addvars, aset>>]_avars

(***************************************************************************)
(* Properties                                                              *)
(***************************************************************************)

\* When the command answers the client that all went well, every argument was
\* added: pinned when asked to, linked into MFS when asked to, and each event of
\* it was passed on.  One argument at most went to a destination that is a file.
AddWhole ==
  /\ ah.res = "ok" => /\ aopt.pin => adone.pinned = 1..aopt.n
                      /\ aopt.mfs # "no" => adone.linked = 1..aopt.n
                      /\ ah.conn => ah.emitted = aopt.n * AEvents
  /\ aopt.mfs = "file" => Cardinality(adone.linked) <= 1

\* A handler that returned for any reason but a client that was gone has left
\* no goroutine behind and no lock.
AddLeavesNothing == ah.res \in {"ok", "add"} => ag.at = "off" /\ ~PinHeld

\* An add whose client stays ends, and a collector that waits gets the lock; when
\* the client is gone, the goroutine ends unless it waits on a full channel that
\* nobody reads any more.
AddEnded ==
  /\ ah.at = "done"
  /\ \/ ah.res = "emit" /\ Len(ach.buf) = AChanSize /\ ag.at = "add"
     \/ ag.at = "off" /\ agc # "wait"

\* What a command line says explicitly is done or refused, never overridden:
\* raw leaves, the CID version, a pin name; nocopy has raw leaves, metadata has
\* none, another hash has CIDv1, and only-hash touches neither pins nor blocks.
SettingsKept ==
  aset.q = "settings" /\ aset.out.ok =>
    LET f == aset.in s == aset.out IN
    /\ f.raw # "unset" => s.raw = (f.raw = "true")
    /\ f.cid >= 0 => s.cid = f.cid
    /\ f.name => s.pin
    /\ f.nocopy => s.raw
    /\ f.meta # "no" => ~s.raw
    /\ f.hash # "sha2-256" => s.cid = 1
    /\ f.onlyhash => ~s.pin /\ s.store = "null"

\* The root alone is announced at once only when the strategy selects it.
RootFits == aset.q = "provide" /\ ~aset.in.dag /\ aset.out.root => Selected(aset.in)

\* The bar shows the bytes of all files so far, also when a new file begins with
\* as many bytes as the last one ended with.
BarTruthful == abar.total = Shown(abar.got)

\* The client's loop ends, whatever way the response, the bar and a cancelled
\* request meet.
ClientEnded == abar.loop = "done"

\* An add that succeeds is whole, one that returns leaves nothing running and
\* nothing locked, and the settings are done or refused.
AddSafe == AddWhole /\ AddLeavesNothing /\ SettingsKept /\ RootFits /\ BarTruthful
=============================================================================
