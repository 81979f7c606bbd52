----------------------------- MODULE Migrations -----------------------------
(* Repository migration: the daemon and `ipfs repo migrate` bring the version  *)
(* file and the config from one repo version to another under repo.lock, by    *)
(* external binaries below EmbeddedMin and by embedded migrations from there.  *)
(* Each embedded migration is several file operations, and the process may     *)
(* die between any two of them.                                                *)
EXTENDS Naturals, Sequences, FiniteSets

CONSTANTS
  MigDaemons, Users,   \* processes: `ipfs daemon --migrate`, `ipfs repo migrate`
  Born,             \* the versions the repo may start with
  Latest,           \* version.RepoVersion
  EmbeddedMin,      \* embeddedMigrationsMinVersion
  Embedded,         \* n for each embedded migration n-to-(n+1)
  Requests,         \* the <<target, allow-downgrade>> pairs users ask for
  MigConfigs,          \* the configs the repo may start with
  Convert(_, _),    \* the conversion of embedded migration n
  TornWrites,       \* may the version file be left empty by a fault?
  MaxMigFaults         \* crashes and failed operations in a behaviour

MigProcs == MigDaemons \cup Users
Nobody == "none"
Unreadable == 0

ASSUME MigrationsAssumption ==
  /\ Born \subseteq Nat \ {Unreadable} /\ EmbeddedMin \in Nat \ {0} /\ Latest \in Nat
  /\ Embedded \subseteq Nat /\ MigDaemons \cap Users = {} /\ Nobody \notin MigProcs
  /\ MaxMigFaults \in Nat /\ TornWrites \in BOOLEAN

\* What a re-run after a crash rests on: both conversions leave a converted
\* config as it is.
ASSUME ConvertIdempotent ==
  \A n \in Embedded : \A c \in MigConfigs :
    LET below == IF n = EmbeddedMin THEN c ELSE Convert(EmbeddedMin, c)
    IN  Convert(n, Convert(n, below)) = Convert(n, below)

VARIABLES
  version,   \* the version file: a version, or Unreadable
  config,    \* the config file
  backup,    \* n -> config.n-to-(n+1).bak, a set of at most one config
  mlock,      \* who holds repo.lock
  mpc, job,   \* the processes: where they are, and the migration they run
  result,    \* what the last migration of a process returned
  mfaults,    \* faults so far
  morig       \* history: the version and config the repo began with

mfiles == <<version, config, backup>>
mvars == <<version, config, backup, mlock, mpc, job, result, mfaults, morig>>

-----------------------------------------------------------------------------
(* Which migrations run *)

\* findMigrations: the lower version of every migration between the two.
findMigrations(from, to) ==
  IF from <= to THEN [i \in 1..(to - from) |-> from + i - 1]
  ELSE [i \in 1..(from - to) |-> from - i]

EmbeddedLeg(to) == [kind |-> "embedded", from |-> 0, to |-> to, revert |-> FALSE]
ExternalLeg(from, to, revert) ==
  [kind |-> "external", from |-> from, to |-> to, revert |-> revert]

\* The four cases of RunHybridMigrations.  "revert" is the flag binaries found
\* in PATH are run with.
Legs(cur, target) ==
  CASE cur >= EmbeddedMin /\ target >= EmbeddedMin -> <<EmbeddedLeg(target)>>
    [] cur < EmbeddedMin /\ target < EmbeddedMin ->
         <<ExternalLeg(cur, target, FALSE)>>
    [] cur < EmbeddedMin /\ target >= EmbeddedMin ->
         <<ExternalLeg(cur, EmbeddedMin, FALSE), EmbeddedLeg(target)>>
    [] OTHER ->
         (IF cur > EmbeddedMin THEN <<EmbeddedLeg(EmbeddedMin)>> ELSE <<>>)
           \o <<ExternalLeg(EmbeddedMin, target, TRUE)>>

NoMigration == [target |-> Latest, allow |-> FALSE, legs |-> <<>>,
                todo |-> <<>>, revert |-> FALSE]

\* The version a migration n starts from and leads to, in its direction.
Source(p) == LET n == Head(job[p].todo) IN IF job[p].revert THEN n + 1 ELSE n
Goal(p) == LET n == Head(job[p].todo) IN IF job[p].revert THEN n ELSE n + 1

MigGoto(p, l) == mpc' = [mpc EXCEPT ![p] = l]

\* Returning from the migration, with or without an error, closes the lock.
Finish(p, res) ==
  /\ mlock' = IF mlock = p THEN Nobody ELSE mlock
  /\ result' = [result EXCEPT ![p] = res]
  /\ MigGoto(p, IF res = "ok" /\ p \in MigDaemons THEN "reopen" ELSE "idle")

Fail(p) == Finish(p, "error")

\* A failed file operation or download: any step may fail instead.
MigFault(p) == mfaults < MaxMigFaults /\ mfaults' = mfaults + 1 /\ Fail(p)

-----------------------------------------------------------------------------
(* The callers *)

\* fsrepo.Open, as far as the lock and the version: the lock is kept only when
\* the version is the program's.
Opens(p) == mlock = Nobody /\ version = Latest /\ mlock' = p /\ MigGoto(p, "open")

DaemonStart(p) ==
  /\ mpc[p] = "idle"
  /\ \/ Opens(p) /\ UNCHANGED job
     \/ /\ mlock = Nobody /\ version # Unreadable /\ version < Latest
        /\ job' = [job EXCEPT ![p] = NoMigration]
        /\ MigGoto(p, "lock") /\ UNCHANGED mlock
  /\ result' = [result EXCEPT ![p] = "none"]
  /\ UNCHANGED <<mfiles, mfaults, morig>>

\* The daemon opens the repo again once its migration has succeeded; any error
\* of this second Open ends it.
DaemonReopen(p) ==
  /\ mpc[p] = "reopen"
  /\ \/ Opens(p)
     \/ (mlock # Nobody \/ version # Latest) /\ MigGoto(p, "idle") /\ UNCHANGED mlock
  /\ UNCHANGED <<mfiles, job, result, mfaults, morig>>

MigClose(p) ==
  /\ mpc[p] = "open" /\ mlock' = Nobody /\ MigGoto(p, "idle")
  /\ UNCHANGED <<mfiles, job, result, mfaults, morig>>

\* `ipfs repo migrate` looks at the version once before it takes the lock.
CmdMigrate(p, target, allow) ==
  /\ mpc[p] = "idle" /\ version # Unreadable /\ version # target
  /\ target < version => allow
  /\ job' = [job EXCEPT ![p] = [NoMigration EXCEPT !.target = target, !.allow = allow]]
  /\ result' = [result EXCEPT ![p] = "none"]
  /\ MigGoto(p, "lock")
  /\ UNCHANGED <<mfiles, mlock, mfaults, morig>>

-----------------------------------------------------------------------------
(* RunHybridMigrations *)

\* A repo lock that is taken is an error at once.
Lock(p) ==
  /\ mpc[p] = "lock"
  /\ \/ mlock = Nobody /\ mlock' = p /\ MigGoto(p, "plan") /\ UNCHANGED result
     \/ mlock # Nobody /\ Fail(p)
  /\ UNCHANGED <<mfiles, job, mfaults, morig>>

Plan(p) ==
  LET t == job[p].target
      refused == version = Unreadable \/ (t < version /\ ~job[p].allow)
  IN  /\ mpc[p] = "plan"
      /\ \/ refused /\ Fail(p) /\ UNCHANGED job
         \/ version = t /\ Finish(p, "ok") /\ UNCHANGED job
         \/ /\ ~refused /\ version # t
            /\ job' = [job EXCEPT ![p].legs = Legs(version, t)]
            /\ MigGoto(p, "leg") /\ UNCHANGED <<mlock, result>>
      /\ UNCHANGED <<mfiles, mfaults, morig>>

\* The next leg, or the end.
LegsDone(p) ==
  /\ mpc[p] = "leg" /\ job[p].legs = <<>>
  /\ Finish(p, "ok")
  /\ UNCHANGED <<mfiles, job, mfaults, morig>>

SkipLeg(p) == job' = [job EXCEPT ![p].legs = Tail(@)] /\ UNCHANGED <<mpc, mlock, result>>

\* The migrations of this leg, and where their steps begin.
Run(p, todo, revert, l) ==
  /\ job' = [job EXCEPT ![p] = [@ EXCEPT !.todo = todo, !.revert = revert, !.legs = Tail(@)]]
  /\ MigGoto(p, l) /\ UNCHANGED <<mlock, result>>

\* runEmbeddedMigrationsUnlocked: migrations that are not embedded are passed
\* over, and only if none is left is that an error.
EmbeddedStart(p) ==
  LET to == Head(job[p].legs).to
      revert == version > to
      todo == SelectSeq(findMigrations(version, to), LAMBDA n : n \in Embedded)
      refused == version = Unreadable \/ (revert /\ ~job[p].allow)
                   \/ (version # to /\ todo = <<>>)
  IN  \/ refused /\ Fail(p) /\ UNCHANGED job
      \/ version = to /\ SkipLeg(p)
      \/ ~refused /\ version # to /\ Run(p, todo, revert, "step")

\* Binaries found in PATH are run with the flag of the case; downloaded ones
\* (RunMigration) in the direction the version file asks for.
ExternalStart(p) ==
  LET leg == Head(job[p].legs)
      refused == version = Unreadable \/ (version > leg.to /\ ~job[p].allow)
  IN  \/ Run(p, findMigrations(leg.from, leg.to), leg.revert, "external")
      \/ refused /\ Fail(p) /\ UNCHANGED job
      \/ version = leg.to /\ SkipLeg(p)
      \/ /\ ~refused /\ version # leg.to
         /\ Run(p, findMigrations(version, leg.to), version > leg.to, "external")

LegStart(p) ==
  /\ mpc[p] = "leg" /\ job[p].legs # <<>>
  /\ \/ Head(job[p].legs).kind = "embedded" /\ EmbeddedStart(p) /\ UNCHANGED mfaults
     \/ Head(job[p].legs).kind = "external"
        /\ ((ExternalStart(p) /\ UNCHANGED mfaults) \/ (MigFault(p) /\ UNCHANGED job))
  /\ UNCHANGED <<mfiles, morig>>

-----------------------------------------------------------------------------
(* One migration *)

TodoDone(p) ==
  /\ mpc[p] \in {"step", "external"} /\ job[p].todo = <<>>
  /\ MigGoto(p, "leg")
  /\ UNCHANGED <<mfiles, mlock, job, result, mfaults, morig>>

Popped(p) == [job EXCEPT ![p].todo = Tail(@)]

\* runMigration: the binary refuses a repo at another version than its own.
External(p) ==
  /\ mpc[p] = "external" /\ job[p].todo # <<>>
  /\ \/ /\ version = Source(p) /\ version' = Goal(p)
        /\ job' = Popped(p) /\ UNCHANGED <<mpc, mlock, result, mfaults>>
     \/ version # Source(p) /\ Fail(p) /\ UNCHANGED <<version, job, mfaults>>
     \/ MigFault(p) /\ UNCHANGED <<version, job>>
  /\ UNCHANGED <<config, backup, morig>>

\* Apply and Revert begin with CheckVersion.
Step(p) ==
  /\ mpc[p] = "step" /\ job[p].todo # <<>>
  /\ \/ /\ version = Source(p)
        /\ MigGoto(p, IF job[p].revert THEN "restore" ELSE "backup")
        /\ UNCHANGED <<mlock, result>>
     \/ version # Source(p) /\ Fail(p)
  /\ UNCHANGED <<mfiles, job, mfaults, morig>>

\* Mutant: a backup left by an earlier run is an error.
BackupExclusive(p) ==
  /\ mpc[p] = "backup"
  /\ \/ /\ backup[Head(job[p].todo)] = {}
        /\ backup' = [backup EXCEPT ![Head(job[p].todo)] = {config}]
        /\ MigGoto(p, "convert") /\ UNCHANGED <<mlock, result>>
     \/ backup[Head(job[p].todo)] # {} /\ Fail(p) /\ UNCHANGED backup
  /\ UNCHANGED <<version, config, job, mfaults, morig>>

\* Mutant: where there is a backup, the config is taken for converted.
BackupMeansDone(p) ==
  /\ mpc[p] = "backup"
  /\ \/ /\ backup' = [backup EXCEPT ![Head(job[p].todo)] = IF @ = {} THEN {config} ELSE @]
        /\ MigGoto(p, IF backup[Head(job[p].todo)] = {} THEN "convert" ELSE "truncate")
        /\ UNCHANGED <<mlock, result, mfaults>>
     \/ MigFault(p) /\ UNCHANGED backup
  /\ UNCHANGED <<version, config, job, morig>>

\* WithBackup: read the config, write the backup through a temporary file.
Backup(p) ==
  /\ mpc[p] = "backup"
  /\ \/ /\ backup' = [backup EXCEPT ![Head(job[p].todo)] = {config}]
        /\ MigGoto(p, "convert") /\ UNCHANGED <<mlock, result, mfaults>>
     \/ MigFault(p) /\ UNCHANGED backup
  /\ UNCHANGED <<version, config, job, morig>>

\* WithBackup: convert, and replace the config atomically; an error removes
\* the backup.
ConvertConfig(p) ==
  /\ mpc[p] = "convert"
  /\ \/ /\ config' = Convert(Head(job[p].todo), config)
        /\ MigGoto(p, "truncate") /\ UNCHANGED <<mlock, result, mfaults, backup>>
     \/ /\ MigFault(p) /\ UNCHANGED config
        /\ backup' = [backup EXCEPT ![Head(job[p].todo)] = {}]
  /\ UNCHANGED <<version, job, morig>>

\* Mutant: the backup is copied back the wrong way and the config stays.
RestoreNothing(p) ==
  /\ mpc[p] = "restore"
  /\ \/ /\ backup[Head(job[p].todo)] # {}
        /\ backup' = [backup EXCEPT ![Head(job[p].todo)] = {}]
        /\ MigGoto(p, "truncate") /\ UNCHANGED <<mlock, result>>
     \/ backup[Head(job[p].todo)] = {} /\ Fail(p) /\ UNCHANGED backup
  /\ UNCHANGED <<version, config, job, mfaults, morig>>

\* RevertBackup: rename the backup over the config.
Restore(p) ==
  LET n == Head(job[p].todo)
  IN  /\ mpc[p] = "restore"
      /\ \/ /\ config' \in backup[n]
            /\ backup' = [backup EXCEPT ![n] = {}]
            /\ MigGoto(p, "truncate") /\ UNCHANGED <<mlock, result>>
         \/ backup[n] = {} /\ Fail(p) /\ UNCHANGED <<config, backup>>
      /\ UNCHANGED <<version, job, mfaults, morig>>

\* WriteVersion is os.WriteFile: the file is truncated, then written.
Truncate(p) ==
  /\ mpc[p] = "truncate"
  /\ \/ version' = Unreadable /\ MigGoto(p, "write") /\ UNCHANGED <<mlock, result, mfaults>>
     \/ MigFault(p) /\ UNCHANGED version
  /\ UNCHANGED <<config, backup, job, morig>>

WriteVersion(p) ==
  /\ mpc[p] = "write"
  /\ \/ /\ version' = Goal(p) /\ job' = Popped(p)
        /\ MigGoto(p, "step") /\ UNCHANGED <<mlock, result, mfaults>>
     \/ TornWrites /\ MigFault(p) /\ UNCHANGED <<version, job>>
  /\ UNCHANGED <<config, backup, morig>>

\* The process dies (a signal, a power cut, a panic of Must): the operating
\* system releases its lock, and what it had written stays.
MigCrash(p) ==
  /\ mpc[p] \notin {"idle", "lock", "reopen"}
  /\ mpc[p] = "write" => TornWrites
  /\ mfaults < MaxMigFaults /\ mfaults' = mfaults + 1
  /\ mlock' = IF mlock = p THEN Nobody ELSE mlock
  /\ MigGoto(p, "idle")
  /\ result' = [result EXCEPT ![p] = "none"]
  /\ UNCHANGED <<mfiles, job, morig>>

-----------------------------------------------------------------------------
MigInit ==
  /\ version \in Born /\ config \in MigConfigs
  /\ backup = [n \in Embedded |-> {}]
  /\ mlock = Nobody
  /\ mpc = [p \in MigProcs |-> "idle"]
  /\ job = [p \in MigProcs |-> NoMigration]
  /\ result = [p \in MigProcs |-> "none"]
  /\ mfaults = 0
  /\ morig = [version |-> version, config |-> config]

Migrate(p) ==
  \/ Lock(p) \/ Plan(p) \/ LegsDone(p) \/ LegStart(p) \/ TodoDone(p) \/ External(p)
  \/ Step(p) \/ Backup(p) \/ ConvertConfig(p) \/ Restore(p)
  \/ Truncate(p) \/ WriteVersion(p)

MigNext ==
  \/ \E p \in MigDaemons : DaemonStart(p) \/ DaemonReopen(p) \/ MigClose(p)
  \/ \E p \in Users, r \in Requests : CmdMigrate(p, r[1], r[2])
  \/ \E p \in MigProcs : Migrate(p) \/ MigCrash(p)

MigSpec == MigInit /\ [][MigNext]_mvars

-----------------------------------------------------------------------------
(* Properties *)

MigrationsTypeOK ==
  /\ version \in Nat /\ mlock \in MigProcs \cup {Nobody} /\ mfaults \in 0..MaxMigFaults
  /\ \A n \in Embedded : Cardinality(backup[n]) <= 1
  /\ \A p \in MigProcs :
       /\ mpc[p] \in {"idle", "lock", "plan", "leg", "step", "external", "backup",
                     "convert", "restore", "truncate", "write", "open", "reopen"}
       /\ result[p] \in {"none", "ok", "error"}
       /\ mpc[p] \in {"backup", "convert", "restore", "truncate", "write"} =>
            job[p].todo # <<>> /\ Head(job[p].todo) \in Embedded

\* The config a repo of version v has when every migration since it was
\* created ran once and without a fault.
ConfAt(v) ==
  LET f[w \in morig.version..v] ==
        IF w = morig.version THEN morig.config
        ELSE IF w - 1 \in Embedded THEN Convert(w - 1, f[w - 1]) ELSE f[w - 1]
  IN  f[v]

\* Whoever works on the repo holds repo.lock: two migrations, or a migration
\* and an open repo, never overlap, although the version is also read unlocked.
OneAtATime ==
  \A p \in MigProcs : mpc[p] \notin {"idle", "lock", "reopen"} => mlock = p

\* A daemon that has opened the repo reads the config that an undisturbed
\* migration would have made, however often migrations were interrupted and run
\* again before (Apply runs again on a config it has already converted), unless
\* a backup is gone: Revert moves it over the config before it lowers the
\* version, and a crash in between leaves the old config at the new version.
OpenSeesMigrated ==
  \A p \in MigDaemons : mpc[p] = "open" =>
    /\ version = Latest
    /\ (\A n \in Embedded : morig.version <= n => backup[n] # {}) => config = ConfAt(Latest)

\* A migration that returns nil leaves the config that belongs to the version:
\* as long as no operation has failed, going down gives back what was there
\* before going up.  (After a crash, a second Apply overwrites the backup with
\* the config the first one converted.)
RevertRestores ==
  [][\A p \in MigProcs :
       /\ result[p] # "ok" /\ result'[p] = "ok"
       /\ version' >= morig.version /\ mfaults = 0
       => config' = ConfAt(version')]_mvars

\* However a migration is interrupted, a daemon that is started again brings
\* the repo to the latest version and opens it once the users leave the repo
\* alone, unless a crash has left the version file empty.
LeftAloneOpen ==
  (\A u \in Users : mpc[u] = "idle") =>
    \A p \in MigDaemons : mpc[p] = "open" \/ (mlock = Nobody /\ version = Unreadable)
=============================================================================
