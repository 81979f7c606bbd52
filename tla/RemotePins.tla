----------------------------- MODULE RemotePins -----------------------------
(* Remote pinning: the loop of the daemon that keeps a pin of the MFS root on  *)
(* every service that asks for one, and the commands `ipfs pin remote add`,    *)
(* `rm` and `service add`, `rm` that work on the same services meanwhile.      *)
(* A service holds requests with a name, a CID and a status; "queued" stands   *)
(* for queued and pinning.  Time only matters as the repin interval of a       *)
(* service having passed or not.                                               *)
EXTENDS Naturals, FiniteSets

CONSTANTS
  PinServices,    \* names of services, each with an endpoint of its own
  SvcConfigs,  \* [mfs, name]: policy on with an interval that parses, name
  NewConfig,   \* what `service add` writes: no policy
  InitConfigs, \* those the daemon starts with
  Roots,       \* CIDs the MFS root takes
  InitRoot,    \* the first of them
  AddCids,     \* CIDs that `pin remote add` is given
  Waiters,     \* calls of `pin remote add`
  Removals,    \* calls of `pin remote rm`
  Filter,      \* removal -> [name, statuses, force, svc]
  RequestIDs,  \* numbers; one that nobody remembers is used again
  MaxEdits,    \* bound on changes of the root and of the config
  MaxFaults    \* bound on failed calls and config reads

NoRequest == 0

ASSUME RemoteAssumption ==
  InitRoot \in Roots /\ NoRequest \notin RequestIDs /\ MaxEdits \in Nat /\ MaxFaults \in Nat

NoConfig == [mfs |-> FALSE, name |-> "absent"]
Never == [cid |-> "none", cfg |-> NoConfig, recent |-> FALSE]

VARIABLES
  services,   \* service -> its section of the config, or NoConfig
  root,       \* the MFS root
  requests,   \* [id, svc, name, cid, status] on the services
  loop,       \* "sleep", "stuck" (its timer is not armed), "pin", "done"
  lastPins,   \* service -> the pin the loop made last
  task,       \* service -> what its goroutine of the loop is doing
  waiter,     \* add -> [pc, id]
  removal,    \* rm -> [pc, ids, gone]
  running,    \* the daemon's context is alive
  edits, rfaults,
  taken       \* [svc, name] of requests that users removed

loopVars == <<loop, lastPins, task>>
userVars == <<waiter, removal, taken>>
remoteVars == <<services, root, requests, loopVars, userVars, running, edits, rfaults>>

Idle == [pc |-> "idle", cid |-> "none", cfg |-> NoConfig, old |-> NoRequest]

Fault == rfaults < MaxFaults /\ rfaults' = rfaults + 1
Edit == edits < MaxEdits /\ edits' = edits + 1

Named(s, n) == {r \in requests : r.svc = s /\ r.name = n}

\* An ID that no request has and nobody remembers.
Remembered ==
  {r.id : r \in requests} \cup {task[s].old : s \in PinServices}
    \cup {waiter[w].id : w \in Waiters} \cup UNION {removal[x].ids : x \in Removals}
FreshID == CHOOSE i \in RequestIDs : i \notin Remembered

Request(s, n, c) == [id |-> FreshID, svc |-> s, name |-> n, cid |-> c, status |-> "queued"]

-----------------------------------------------------------------------------
(* The loop *)

\* Mutant: the config of the last pin is not compared.
DueByRoot(s) ==
  /\ services[s].mfs
  /\ lastPins[s].cid # root /\ ~lastPins[s].recent

\* A service whose policy asks for the root and whose last pin is another one,
\* made long enough ago, or was made with another config.
Due(s) ==
  /\ services[s].mfs
  /\ ~ /\ lastPins[s].cfg = services[s]
       /\ lastPins[s].cid = root \/ lastPins[s].recent

\* The timer fires: read the config and the root, start a goroutine for each
\* service that is due (for some of them if the context ends meanwhile).
Poll ==
  /\ loop = "sleep"
  /\ \E due \in SUBSET {s \in PinServices : Due(s)} :
       /\ running => due = {s \in PinServices : Due(s)}
       /\ task' = [s \in PinServices |-> IF s \in due
                      THEN [pc |-> "ls", cid |-> root, cfg |-> services[s], old |-> NoRequest]
                      ELSE Idle]
       /\ loop' = IF due = {} THEN "sleep" ELSE "pin"
  /\ UNCHANGED <<services, root, requests, lastPins, userVars, running, edits, rfaults>>

\* The root cannot be read: nothing is done in this round.  The config cannot
\* be read: `continue` passes over the Reset of the timer.
PollFails ==
  /\ loop = "sleep" /\ Fault
  /\ loop' \in {"sleep", "stuck"}
  /\ UNCHANGED <<services, root, requests, lastPins, task, userVars, running, edits>>

LoopEnds ==
  /\ ~running /\ loop \in {"sleep", "stuck"} /\ loop' = "done"
  /\ UNCHANGED <<services, root, requests, lastPins, task, userVars, running, edits, rfaults>>

\* pinAllMFS receives the result of a goroutine; after the last the timer is
\* armed again.
Collect(s, last) ==
  /\ lastPins' = [lastPins EXCEPT ![s] = last]
  /\ task' = [task EXCEPT ![s] = Idle]
  /\ loop' = IF \A t \in PinServices \ {s} : task[t].pc = "idle" THEN "sleep" ELSE "pin"

Pinned(s) == [cid |-> task[s].cid, cfg |-> task[s].cfg, recent |-> TRUE]

\* Mutant: a failed request counts as no request, and a new one is added.
LsForgets(s) ==
  LET found == {r \in Named(s, task[s].cfg.name) : r.status # "failed"}
  IN  /\ task[s].pc = "ls"
      /\ \/ (\E r \in found : r.cid = task[s].cid) /\ Collect(s, Pinned(s))
         \/ /\ \A r \in found : r.cid # task[s].cid
            /\ \E o \in IF found = {} THEN {NoRequest} ELSE {r.id : r \in found} :
                 task' = [task EXCEPT ![s].pc = "act", ![s].old = o]
            /\ UNCHANGED <<loop, lastPins>>
      /\ UNCHANGED <<services, root, requests, userVars, running, edits, rfaults>>

\* pinMFS lists the requests of its name in all states.  One for the root that
\* has not failed will do; its age is the age of the pin.  Otherwise the last
\* one listed is to be replaced.
Ls(s) ==
  LET found == Named(s, task[s].cfg.name)
      good == {r \in found : r.cid = task[s].cid /\ r.status # "failed"}
  IN  /\ task[s].pc = "ls"
      /\ \/ /\ good # {}
            /\ \E recent \in BOOLEAN : Collect(s, [Pinned(s) EXCEPT !.recent = recent])
         \/ /\ good = {}
            /\ \E o \in IF found = {} THEN {NoRequest} ELSE {r.id : r \in found} :
                 task' = [task EXCEPT ![s].pc = "act", ![s].old = o]
            /\ UNCHANGED <<loop, lastPins>>
      /\ UNCHANGED <<services, root, requests, userVars, running, edits, rfaults>>

\* The service replaces a request by a new one with a new ID, or adds one.
Apply(s) ==
  /\ requests' = {r \in requests : r.id # task[s].old}
                   \cup {Request(s, task[s].cfg.name, task[s].cid)}

CanApply(s) == task[s].old \in {NoRequest} \cup {r.id : r \in requests}

\* ... then pinMFS creates or replaces, and the result is collected.
Act(s) ==
  /\ task[s].pc = "act" /\ CanApply(s) /\ Apply(s)
  /\ Collect(s, Pinned(s))
  /\ UNCHANGED <<services, root, userVars, running, edits, rfaults>>

\* A call fails, the answer to one that was carried out is lost, or the request
\* to replace is gone: the zero result, which is not recorded.
TaskFails(s) ==
  /\ task[s].pc \in {"ls", "act"}
  /\ \/ Fault /\ UNCHANGED requests
     \/ task[s].pc = "act" /\ CanApply(s) /\ Apply(s) /\ Fault
     \/ task[s].pc = "act" /\ ~CanApply(s) /\ UNCHANGED <<requests, rfaults>>
     \/ ~running /\ UNCHANGED <<requests, rfaults>>
  /\ Collect(s, lastPins[s])
  /\ UNCHANGED <<services, root, userVars, running, edits>>

\* time.Since(last.Time) reaches the repin interval.
IntervalPasses(s) ==
  /\ lastPins[s].recent
  /\ lastPins' = [lastPins EXCEPT ![s].recent = FALSE]
  /\ UNCHANGED <<services, root, requests, loop, task, userVars, running, edits, rfaults>>

-----------------------------------------------------------------------------
(* Commands *)

Known(s) == services[s] # NoConfig

\* `pin remote add` makes a request (and with --background is done) ...
Add(w, s, c) ==
  /\ waiter[w].pc = "new" /\ Known(s)
  /\ requests' = requests \cup {Request(s, "user", c)}
  /\ waiter' = [waiter EXCEPT ![w] = [pc |-> "wait", id |-> FreshID]]
  /\ UNCHANGED <<services, root, loopVars, removal, running, edits, rfaults, taken>>

\* ... or asks for its status until it is pinned or failed, the request is
\* gone or a call fails.
AddPoll(w) ==
  /\ waiter[w].pc = "wait"
  /\ \/ /\ \A r \in requests : r.id = waiter[w].id => r.status \in {"pinned", "failed"}
        /\ UNCHANGED rfaults
     \/ Fault
  /\ waiter' = [waiter EXCEPT ![w] = [pc |-> "done", id |-> NoRequest]]
  /\ UNCHANGED <<services, root, requests, loopVars, removal, running, edits, taken>>

PinMatches(r, f) == r.svc = f.svc /\ r.status \in f.statuses /\ (f.name = "any" \/ r.name = f.name)

\* `pin remote rm` lists what matches and refuses several without --force ...
RmList(x) ==
  LET ids == {r.id : r \in {q \in requests : PinMatches(q, Filter[x])}}
  IN  /\ removal[x].pc = "new" /\ Known(Filter[x].svc)
      /\ removal' = [removal EXCEPT ![x] =
           IF Cardinality(ids) > 1 /\ ~Filter[x].force
           THEN [pc |-> "done", ids |-> {}, gone |-> 0]
           ELSE [pc |-> "delete", ids |-> ids, gone |-> 0]]
      /\ UNCHANGED <<services, root, requests, loopVars, waiter, running, edits, rfaults, taken>>

\* ... then deletes one request ID after the other; the first failure ends it.
RmDelete(x) ==
  /\ removal[x].pc = "delete"
  /\ \/ \E r \in requests :
          /\ r.id \in removal[x].ids
          /\ requests' = requests \ {r}
          /\ removal' = [removal EXCEPT ![x].ids = @ \ {r.id}, ![x].gone = @ + 1]
          /\ taken' = taken \cup {[svc |-> r.svc, name |-> r.name]}
          /\ UNCHANGED rfaults
     \/ /\ removal[x].ids = {} /\ removal' = [removal EXCEPT ![x].pc = "done"]
        /\ UNCHANGED <<requests, taken, rfaults>>
     \/ /\ \E i \in removal[x].ids : \A r \in requests : r.id # i
        /\ removal' = [removal EXCEPT ![x].pc = "done", ![x].ids = {}]
        /\ UNCHANGED <<requests, taken, rfaults>>
     \/ /\ removal[x].ids # {} /\ Fault /\ removal' = [removal EXCEPT ![x].pc = "done", ![x].ids = {}]
        /\ UNCHANGED <<requests, taken>>
  /\ UNCHANGED <<services, root, loopVars, waiter, running, edits>>

\* `service add` refuses a name that is present.
ServiceAdd(s) ==
  /\ Edit /\ ~Known(s) /\ services' = [services EXCEPT ![s] = NewConfig]
  /\ UNCHANGED <<root, requests, loopVars, userVars, running, rfaults>>

ServiceRm(s) ==
  /\ Edit /\ Known(s) /\ services' = [services EXCEPT ![s] = NoConfig]
  /\ UNCHANGED <<root, requests, loopVars, userVars, running, rfaults>>

-----------------------------------------------------------------------------
(* The rest of the world *)

\* `ipfs config` sets the policies of a service.
SetPolicy(s, c) ==
  /\ Edit /\ Known(s) /\ services' = [services EXCEPT ![s] = c]
  /\ UNCHANGED <<root, requests, loopVars, userVars, running, rfaults>>

FilesChange(c) ==
  /\ Edit /\ root # c /\ root' = c
  /\ UNCHANGED <<services, requests, loopVars, userVars, running, rfaults>>

\* A service gets round to a request.
Settle(r, status) ==
  /\ r.status = "queued"
  /\ requests' = (requests \ {r}) \cup {[r EXCEPT !.status = status]}
  /\ UNCHANGED <<services, root, loopVars, userVars, running, edits, rfaults>>

Shutdown ==
  /\ running /\ running' = FALSE
  /\ UNCHANGED <<services, root, requests, loopVars, userVars, edits, rfaults>>

RemoteInit ==
  /\ services \in [PinServices -> InitConfigs]
  /\ root = InitRoot /\ requests = {}
  /\ loop = "sleep" /\ running = TRUE
  /\ lastPins = [s \in PinServices |-> Never]
  /\ task = [s \in PinServices |-> Idle]
  /\ waiter = [w \in Waiters |-> [pc |-> "new", id |-> NoRequest]]
  /\ removal = [x \in Removals |-> [pc |-> "new", ids |-> {}, gone |-> 0]]
  /\ edits = 0 /\ rfaults = 0 /\ taken = {}

LoopStep == Poll \/ LoopEnds \/ \E s \in PinServices : Ls(s) \/ Act(s) \/ TaskFails(s)

RemoteNext ==
  \/ LoopStep \/ PollFails \/ Shutdown
  \/ \E s \in PinServices :
       \/ IntervalPasses(s) \/ ServiceAdd(s) \/ ServiceRm(s)
       \/ \E c \in SvcConfigs : SetPolicy(s, c)
       \/ \E w \in Waiters, c \in AddCids : Add(w, s, c)
  \/ \E c \in Roots : FilesChange(c)
  \/ \E w \in Waiters : AddPoll(w)
  \/ \E x \in Removals : RmList(x) \/ RmDelete(x)
  \/ \E r \in requests : Settle(r, "pinned") \/ Settle(r, "failed")

RemoteSpec == RemoteInit /\ [][RemoteNext]_remoteVars

-----------------------------------------------------------------------------
(* Properties *)

Policies == SvcConfigs \cup InitConfigs \cup {NewConfig, NoConfig}
RemoteNames == {c.name : c \in Policies} \cup {"user"}
RemoteCids == Roots \cup AddCids \cup {"none"}
Statuses == {"queued", "pinned", "failed"}

ReqSet == [id : RequestIDs, svc : PinServices, name : RemoteNames, cid : RemoteCids, status : Statuses]
LastSet == [cid : RemoteCids, cfg : Policies, recent : BOOLEAN]
TaskSet == [pc : {"idle", "ls", "act"}, cid : RemoteCids, cfg : Policies, old : RequestIDs \cup {NoRequest}]
WaitSet == [pc : {"new", "wait", "done"}, id : RequestIDs \cup {NoRequest}]
RmSet == [pc : {"new", "delete", "done"}, ids : SUBSET RequestIDs, gone : Nat]

\* Type correctness of the services, the loop and the commands.
RemoteTypeOK ==
  /\ services \in [PinServices -> Policies] /\ root \in Roots /\ requests \subseteq ReqSet
  /\ loop \in {"sleep", "stuck", "pin", "done"} /\ running \in BOOLEAN
  /\ lastPins \in [PinServices -> LastSet] /\ task \in [PinServices -> TaskSet]
  /\ waiter \in [Waiters -> WaitSet] /\ removal \in [Removals -> RmSet]
  /\ edits \in 0..MaxEdits /\ rfaults \in 0..MaxFaults
  /\ taken \subseteq [svc : PinServices, name : RemoteNames]

\* However calls fail, answers are lost and settings change, a service never
\* holds two pins of the MFS root under one name: pinMFS replaces what it finds.
OneMfsPin ==
  \A r, q \in requests : r.svc = q.svc /\ r.name = q.name /\ r.name # "user" => r = q

\* What lastPins calls pinned was accepted by the service and is there still,
\* unless a user removed a pin of that name; only when an answer was lost can
\* the service be ahead of lastPins.
LastPinReal ==
  \A s \in PinServices : LET l == lastPins[s] IN
    \/ l = Never
    \/ \E r \in Named(s, l.cfg.name) : r.cid = l.cid \/ rfaults > 0
    \/ [svc |-> s, name |-> l.cfg.name] \in taken

\* `pin remote rm` without --force deletes one request at most.
RmCautious == \A x \in Removals : ~Filter[x].force => removal[x].gone <= 1

\* When the root, the policies and the daemon stay as they are, each service
\* whose policy asks for it is given the current root, unless the config could
\* not be read once (the loop never wakes again) or a user takes the pin away.
RootPinned ==
  \A s \in PinServices :
    []<>(running /\ services[s].mfs =>
           \/ loop = "stuck"
           \/ \E r \in requests : r.svc = s /\ r.name = services[s].name /\ r.cid = root
           \/ [svc |-> s, name |-> services[s].name] \in taken)

\* The loop ends after the context has ended, and a blocking add ends once the
\* service has made up its mind.
LoopStops ==
  []<>(~running => loop = "done") /\ \A w \in Waiters : []<>(waiter[w].pc # "wait")

\* The remote service holds one pin of the MFS root, the loop remembers only pins
\* that were made, and a removal takes no more than it was asked to.
RemoteSafe == OneMfsPin /\ LastPinReal /\ RmCautious
=============================================================================
