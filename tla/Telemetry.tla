------------------------------ MODULE Telemetry ------------------------------
(***************************************************************************)
(* The telemetry plugin (plugin/plugins/telemetry/telemetry.go): what the  *)
(* operator asked for decides whether a run of the daemon reports at all,  *)
(* under which identifier and after which notice, and a collector may      *)
(* retire itself. Runs end and crash, and files fail to be written.        *)
(***************************************************************************)
EXTENDS Integers, Sequences, FiniteSets

CONSTANTS Collectors, \* endpoints
          MaxUuids    \* identifiers generated

Unset == "unset" \* the empty string: a setting not given, no collector, no marker

ASSUME TelemetryAssumption == MaxUuids \in Nat /\ Unset \notin Collectors

VARIABLES tel,   \* the plugin in the running daemon
          tdisk, \* telemetry_uuid, telemetry_retired
          tpast, \* what has happened, for the properties
          task   \* a question to the collecting functions

telvars == <<tel, tdisk, tpast>>

Reported == [uuid |-> 0, to |-> Unset, box |-> FALSE]
TelDown == [pc |-> "down", mode |-> "off", endpoint |-> Unset, uuid |-> 0,
            cache |-> {}, last |-> Reported]

\* uuid: 0 for no file, -1 for one that does not parse. out: the run's operator
\* opted out; gen: identifiers generated; shown: identifiers a notice was printed
\* for; cut: those whose notice was cut off by the end of the run; gone: the
\* collector whose 410 was recorded last, ever: all of them; forgot: identifiers
\* that were to be dropped; twice, again: a report went to gone, or to one of
\* ever; boxes: what this run's reports said of the machine.
TelInit ==
  /\ tel = TelDown
  /\ \E old \in BOOLEAN:
       /\ tdisk = [uuid |-> IF old THEN 1 ELSE 0, marker |-> Unset]
       /\ tpast = [out |-> FALSE, gen |-> IF old THEN 1 ELSE 0, shown |-> IF old THEN {1} ELSE {},
                   cut |-> {}, gone |-> Unset, ever |-> {}, forgot |-> {},
                   twice |-> FALSE, again |-> FALSE, boxes |-> {}]
  /\ task = [topic |-> "none"]

-----------------------------------------------------------------------------
(* Init *)

\* IPFS_TELEMETRY, then DO_NOT_TRACK, then the config.
ModeString(env, dnt, cfg) == IF env # Unset THEN env
                             ELSE IF dnt THEN "off"
                             ELSE cfg

\* removeUUID, which may fail and is then only logged.
RemovesUuid(fails) == tdisk' = IF fails THEN tdisk ELSE [tdisk EXCEPT !.uuid = 0]

EndpointRetired(ep) == tdisk.marker = ep

\* The operator wants no reports, or names nobody to send them to.
OptedOut(env, dnt, cfg, ep) == \/ ep = Unset
                               \/ env = "off"
                               \/ env = Unset /\ (dnt \/ cfg = "off")

\* Mutant: a node without a collector keeps its identifier.
BootsKeeping(v, ep, fails) ==
  IF v = "off" \/ ep = Unset \/ EndpointRetired(ep)
  THEN /\ tel' = [TelDown EXCEPT !.pc = "init", !.endpoint = ep]
       /\ IF v = "off" THEN RemovesUuid(fails) ELSE UNCHANGED tdisk
  ELSE /\ tel' = [TelDown EXCEPT !.pc = "init", !.endpoint = ep,
                    !.mode = IF v = "auto" THEN "auto" ELSE "on"]
       /\ UNCHANGED tdisk

\* Off, or nowhere to send to: the identifier goes. A retired collector ends it
\* without that. Every mode but "off" and "auto", known or not, is "on".
Boots(v, ep, fails) ==
  IF v = "off" \/ ep = Unset
  THEN /\ tel' = [TelDown EXCEPT !.pc = "init", !.endpoint = ep]
       /\ RemovesUuid(fails)
  ELSE /\ tel' = [TelDown EXCEPT !.pc = "init", !.endpoint = ep,
                    !.mode = IF EndpointRetired(ep) THEN "off"
                             ELSE IF v = "auto" THEN "auto" ELSE "on"]
       /\ UNCHANGED tdisk

TelBoots ==
  /\ tel.pc = "down"
  /\ \E env, cfg \in {Unset, "off", "auto", "on", "other"}, dnt \in BOOLEAN,
        ep \in Collectors \cup {Unset}, fails \in BOOLEAN:
       LET out == OptedOut(env, dnt, cfg, ep)
       IN /\ Boots(ModeString(env, dnt, cfg), ep, fails)
          /\ tpast' = [tpast EXCEPT !.out = out,
                         !.forgot = IF out /\ ~fails THEN @ \cup {tdisk.uuid} ELSE @]

-----------------------------------------------------------------------------
(* Start *)

\* Off, or not an online daemon.
StartSkips == /\ tel.pc = "init"
              /\ tel' = [tel EXCEPT !.pc = "off"]
              /\ UNCHANGED <<tdisk, tpast>>

\* loadUUID with a file: one that does not parse turns reporting off.
LoadsUuid == /\ tel.pc = "init"
             /\ tel.mode # "off"
             /\ tdisk.uuid # 0
             /\ tel' = IF tdisk.uuid < 0 THEN [tel EXCEPT !.pc = "off", !.mode = "off"]
                       ELSE [tel EXCEPT !.uuid = tdisk.uuid,
                               !.pc = IF tel.mode = "auto" THEN "notice" ELSE "timer"]
             /\ UNCHANGED <<tdisk, tpast>>

\* Without one: a new identifier is written, and the notice is due. A write that
\* fails leaves nothing, or a file that will not parse, and turns reporting off.
GeneratesUuid ==
  /\ tel.pc = "init" /\ tel.mode # "off"
  /\ tdisk.uuid = 0 /\ tpast.gen < MaxUuids
  /\ \/ /\ tel' = [tel EXCEPT !.uuid = tpast.gen + 1, !.mode = "auto",
                              !.pc = "notice"]
        /\ tdisk' = [tdisk EXCEPT !.uuid = tpast.gen + 1]
     \/ /\ tel' = [tel EXCEPT !.mode = "off", !.pc = "off"]
        /\ \E left \in {0, -1}: tdisk' = [tdisk EXCEPT !.uuid = left]
  /\ tpast' = [tpast EXCEPT !.gen = @ + 1]

ShowsInfo == /\ tel.pc = "notice"
             /\ tel' = [tel EXCEPT !.pc = "timer"]
             /\ tpast' = [tpast EXCEPT !.shown = @ \cup {tel.uuid}]
             /\ UNCHANGED tdisk

\* isRunningInContainer and isRunningInVM remember their first answer: the files
\* they look for may come and go.
Platform(looks) == IF tel.cache = {} THEN looks ELSE CHOOSE c \in tel.cache: TRUE

\* The timer: prepareEvent and sendTelemetry. The collector takes the report,
\* fails in some way, or answers 410.
Sends == /\ tel.pc = "timer"
         /\ \E looks \in BOOLEAN, answer \in {"ok", "failed", "gone"}:
              LET box == Platform(looks)
              IN /\ tel' = [tel EXCEPT !.cache = {box},
                              !.last = [uuid |-> tel.uuid, to |-> tel.endpoint,
                                        box |-> box],
                              !.pc = IF answer = "gone" THEN "retire" ELSE "timer"]
                 /\ tpast' = [tpast EXCEPT
                                !.twice = @ \/ tpast.gone = tel.endpoint,
                                !.again = @ \/ tel.endpoint \in tpast.ever,
                                !.boxes = @ \cup {box}]
         /\ UNCHANGED tdisk

\* retire: the marker, whose write may fail; then the identifier.
Retires == /\ tel.pc = "retire"
           /\ tel' = [tel EXCEPT !.pc = "remove"]
           /\ \/ /\ tdisk' = [tdisk EXCEPT !.marker = tel.endpoint]
                 /\ tpast' = [tpast EXCEPT !.gone = tel.endpoint,
                                           !.ever = @ \cup {tel.endpoint}]
              \/ UNCHANGED <<tdisk, tpast>>

RetireRemoves == /\ tel.pc = "remove"
                 /\ tel' = [tel EXCEPT !.pc = "off"]
                 /\ \E fails \in BOOLEAN:
                      /\ RemovesUuid(fails)
                      /\ tpast' = [tpast EXCEPT !.forgot =
                                     IF fails THEN @ ELSE @ \cup {tdisk.uuid}]

\* The daemon ends or is killed, at any step.
TelEnds == /\ tel.pc # "down"
           /\ tel' = TelDown
           /\ tpast' = [tpast EXCEPT !.boxes = {},
                          !.cut = IF tel.pc = "notice" THEN @ \cup {tel.uuid} ELSE @]
           /\ UNCHANGED tdisk

\* The operator deletes the marker, as its text proposes.
MarkerDeleted == /\ tdisk.marker # Unset
                 /\ tel.pc = "down"
                 /\ tdisk' = [tdisk EXCEPT !.marker = Unset]
                 /\ tpast' = [tpast EXCEPT !.gone = Unset, !.ever = {}]
                 /\ UNCHANGED tel

TelNext == TelBoots \/ StartSkips \/ LoadsUuid \/ GeneratesUuid \/ ShowsInfo
           \/ Sends \/ Retires \/ RetireRemoves \/ TelEnds \/ MarkerDeleted

-----------------------------------------------------------------------------
(* What a report says *)

\* In GiB; in days.
RepoSizeBuckets == <<1, 5, 10, 100, 500, 1024, 10240, 11264>>
UptimeBuckets == <<1, 2, 3, 7, 14, 30, 31>>

\* The first bucket that the value does not exceed; the last one if there is
\* none.
BucketOf(buckets, x) ==
  LET fits == {i \in DOMAIN buckets: x <= buckets[i]}
  IN IF fits = {} THEN buckets[Len(buckets)]
     ELSE buckets[CHOOSE i \in fits: \A j \in fits: i <= j]

HostAddrs == [public: BOOLEAN, ip: {"ip4", "ip6", "none"}, circuit: BOOLEAN]

\* collectSwarmInfo. A relay's address begins with the relay's own IP.
SwarmInfo(addrs) ==
  [ip4 |-> \E a \in addrs: a.public /\ a.ip = "ip4",
   ip6 |-> \E a \in addrs: a.public /\ a.ip = "ip6",
   circuit |-> \E a \in addrs: a.circuit]

Edges(buckets) == UNION {{b - 1, b, b + 1}: b \in {buckets[i]: i \in DOMAIN buckets}}

AsksTelemetry ==
  \/ \E x \in Edges(RepoSizeBuckets):
       task' = [topic |-> "size", x |-> x, in |-> BucketOf(RepoSizeBuckets, x)]
  \/ \E x \in Edges(UptimeBuckets):
       task' = [topic |-> "uptime", x |-> x, in |-> BucketOf(UptimeBuckets, x)]
  \/ \E addrs \in SUBSET HostAddrs:
       /\ Cardinality(addrs) <= 2
       /\ task' = [topic |-> "swarm", addrs |-> addrs, says |-> SwarmInfo(addrs)]

TelSpec == TelInit /\ [][\/ TelNext /\ UNCHANGED task
                         \/ AsksTelemetry /\ UNCHANGED telvars]_<<telvars, task>>

-----------------------------------------------------------------------------
(* Properties *)

\* Nothing is ever sent by a run whose operator opted out (by IPFS_TELEMETRY, or
\* failing that by DO_NOT_TRACK, or failing that by the config) or named no
\* collector.
SentAsked == tel.last.to # Unset => ~tpast.out /\ tel.last.to = tel.endpoint

\* An identifier that opting out, or a collector's retirement, dropped from the
\* disk is never sent again: a node that reports once more is a new one.
ForgottenStays == tel.pc \in {"timer", "retire"} =>
                    tel.last.uuid \notin tpast.forgot \ {0}

\* An identifier is sent only after the notice that names the ways to opt out was
\* printed for it, unless the run that should have printed it was cut off
\* between writing the identifier and printing.
NoticeFirst == tel.last.to # Unset => tel.last.uuid \in tpast.shown \cup tpast.cut

\* A collector whose 410 has been recorded gets no report from this run or a
\* later one, until the record is deleted or another collector's replaces it.
RetiredHeld == ~tpast.twice

\* A bucket holds the value it is reported for and no smaller bucket does; the
\* last takes everything above.
BucketFits == task.topic \in {"size", "uptime"} =>
  LET bs == IF task.topic = "size" THEN RepoSizeBuckets ELSE UptimeBuckets
      top == bs[Len(bs)]
  IN /\ task.in = top \/ task.x <= task.in
     /\ \A i \in DOMAIN bs: bs[i] < task.in => bs[i] < task.x

\* Reports go only where the operator wants them, under an identifier they were
\* told of and have not dropped, and in buckets that fit.
TelemetrySafe == SentAsked /\ ForgottenStays /\ NoticeFirst /\ RetiredHeld /\ BucketFits
=============================================================================
