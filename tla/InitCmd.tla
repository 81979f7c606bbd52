------------------------------- MODULE InitCmd -------------------------------
(***************************************************************************)
(* 'ipfs init': the checks, the profiles, the files of the repo, the help  *)
(* files and the pin of the empty directory, by processes that may run at  *)
(* the same time and may be killed between any two steps.                  *)
(***************************************************************************)
EXTENDS Naturals, FiniteSets

CONSTANTS InitProcs,   \* processes, whose names stand for the identities too
          NoIdentity

ASSUME InitAssumption == NoIdentity \notin InitProcs

VARIABLES idisk,   \* the repo's directory
          ilock,   \* the process that holds repo.lock, if any
          iproc,   \* the processes
          irace    \* whether two of them were about to write the config at once

initvars == <<idisk, ilock, iproc, irace>>

\* What may be wrong with the input: a config without a private key, a profile
\* that does not exist, a Datastore.Spec that is none.
InitInputs == {"good", "nokey", "badprofile", "badspec"}

InitCmdInit == /\ idisk = [dir |-> FALSE, config |-> NoIdentity, has |-> {}]
               /\ ilock = NoIdentity
               /\ iproc \in [InitProcs -> [input: InitInputs, empty: BOOLEAN, pc: {"idle"}, alone: {TRUE}]]
               /\ irace = FALSE

InitEnded == {"idle", "ok", "error", "dead"}
InitRunning == {p \in InitProcs: iproc[p].pc \notin InitEnded}

Moves(p, pc) == iproc' = [iproc EXCEPT ![p].pc = pc]

\* A process starts; it is alone as long as no other one runs too.
InitBegins(p) ==
  /\ iproc[p].pc = "idle"
  /\ iproc' = [q \in InitProcs |->
       IF q = p THEN [iproc[p] EXCEPT !.pc = "key", !.alone = (InitRunning = {})]
       ELSE IF q \in InitRunning THEN [iproc[q] EXCEPT !.alone = FALSE] ELSE iproc[q]]
  /\ UNCHANGED <<idisk, ilock>>

\* A config without a private key is refused first.
ChecksKey(p) == /\ iproc[p].pc = "key"
                /\ Moves(p, IF iproc[p].input = "nokey" THEN "error" ELSE "writable")
                /\ UNCHANGED <<idisk, ilock>>

\* checkWritable makes the directory; it may fail.
ChecksWritable(p) == /\ iproc[p].pc = "writable"
                     /\ \/ idisk' = [idisk EXCEPT !.dir = TRUE] /\ Moves(p, "exists")
                        \/ UNCHANGED idisk /\ Moves(p, "error")
                     /\ UNCHANGED ilock

ChecksExists(p) == /\ iproc[p].pc = "exists"
                   /\ Moves(p, IF idisk.config # NoIdentity THEN "error" ELSE "profiles")
                   /\ UNCHANGED <<idisk, ilock>>

AppliesProfiles(p) == /\ iproc[p].pc = "profiles"
                      /\ Moves(p, IF iproc[p].input = "badprofile" THEN "error" ELSE "fsinit")
                      /\ UNCHANGED <<idisk, ilock>>

Races(p) == irace \/ \E q \in InitProcs \ {p}: iproc[q].pc = "config"

\* fsrepo.Init has nothing to do when another process was faster, and refuses a
\* bad spec before it writes anything.
FsInit(p) ==
  /\ iproc[p].pc = "fsinit"
  /\ Moves(p, CASE idisk.config # NoIdentity -> "docs"
                [] idisk.config = NoIdentity /\ iproc[p].input = "badspec" -> "error"
                [] OTHER -> "config")
  /\ irace' = Races(p)
  /\ UNCHANGED <<idisk, ilock>>

\* initConfig, initSpec, WriteRepoVersion: the first fault is the last step.
WritesConfig(p) == /\ iproc[p].pc = "config"
                   /\ \/ idisk' = [idisk EXCEPT !.config = p] /\ Moves(p, "spec")
                      \/ UNCHANGED idisk /\ Moves(p, "error")
                   /\ UNCHANGED ilock

WritesSpec(p) == /\ iproc[p].pc = "spec"
                 /\ \/ /\ iproc[p].input # "badspec"
                       /\ idisk' = [idisk EXCEPT !.has = @ \union {"spec"}] /\ Moves(p, "version")
                    \/ UNCHANGED idisk /\ Moves(p, "error")
                 /\ UNCHANGED ilock

WritesVersion(p) == /\ iproc[p].pc = "version"
                    /\ \/ idisk' = [idisk EXCEPT !.has = @ \union {"version"}] /\ Moves(p, "docs")
                       \/ UNCHANGED idisk /\ Moves(p, "error")
                    /\ UNCHANGED ilock

\* fsrepo.Open, of a complete repo that no other process has open.
Openable == ilock = NoIdentity /\ {"spec", "version"} \subseteq idisk.has

\* addDefaultAssets: open, seed and close, unless an empty repo was asked for.
SkipsAssets(p) == iproc[p].pc = "docs" /\ iproc[p].empty /\ Moves(p, "pin") /\ UNCHANGED <<idisk, ilock>>

OpensRepo(p) ==
  /\ \/ iproc[p].pc = "docs" /\ ~iproc[p].empty
     \/ iproc[p].pc = "pin"
  /\ IF Openable
     THEN ilock' = p /\ Moves(p, IF iproc[p].pc = "docs" THEN "seed" ELSE "pinning")
     ELSE UNCHANGED ilock /\ Moves(p, "error")
  /\ UNCHANGED idisk

SeedsDocs(p) == /\ iproc[p].pc = "seed"
                /\ \/ idisk' = [idisk EXCEPT !.has = @ \union {"docs"}] /\ Moves(p, "pin")
                   \/ UNCHANGED idisk /\ Moves(p, "error")
                /\ ilock' = NoIdentity

\* Mutant: the pin is not flushed.
PinsEmptyDirUnflushed(p) == /\ iproc[p].pc = "pinning"
                            /\ Moves(p, "ok")
                            /\ ilock' = NoIdentity
                            /\ UNCHANGED idisk

\* pinEmptyDir: pinned and flushed, then closed.
PinsEmptyDir(p) == /\ iproc[p].pc = "pinning"
                   /\ \/ idisk' = [idisk EXCEPT !.has = @ \union {"pin"}] /\ Moves(p, "ok")
                      \/ UNCHANGED idisk /\ Moves(p, "error")
                   /\ ilock' = NoIdentity

InitKilled(p) == /\ p \in InitRunning
                 /\ Moves(p, "dead")
                 /\ ilock' = IF ilock = p THEN NoIdentity ELSE ilock
                 /\ UNCHANGED idisk

InitCmdNext == \E p \in InitProcs:
  \/ FsInit(p)
  \/ /\ \/ InitBegins(p) \/ ChecksKey(p) \/ ChecksWritable(p) \/ ChecksExists(p) \/ AppliesProfiles(p)
        \/ WritesConfig(p) \/ WritesSpec(p) \/ WritesVersion(p) \/ SkipsAssets(p)
        \/ OpensRepo(p) \/ SeedsDocs(p) \/ PinsEmptyDir(p) \/ InitKilled(p)
     /\ UNCHANGED irace

InitCmdSpec == InitCmdInit /\ [][InitCmdNext]_initvars

-----------------------------------------------------------------------------
(* Properties *)

\* An init that says it succeeded leaves a repo that can be opened, with the pin
\* of the empty directory and the help files if they were asked for.
InitWhole == \A p \in InitProcs: iproc[p].pc = "ok" =>
  {"spec", "version", "pin"} \union (IF iproc[p].empty THEN {} ELSE {"docs"}) \subseteq idisk.has

\* An init that ran alone and succeeded made the repo: the identity in it is its
\* own. The identity of a repo that is being written is never overwritten by
\* another init, unless two processes were between the last check and the write
\* of the config at once.
InitOwns == \A p \in InitProcs:
  (iproc[p].pc = "ok" /\ iproc[p].alone) \/ (iproc[p].pc \in {"spec", "version"} /\ ~irace) =>
    idisk.config = p

\* An init that fails because of what it was given leaves no repo behind that the
\* next one would refuse to touch.
InitRetries == \A p \in InitProcs:
  (iproc[p].pc = "error" /\ iproc[p].input # "good") => idisk.config # p

\* An init that succeeds leaves a whole repo of its own, one that fails on its
\* input leaves nothing in the way of the next.
InitSafe == InitWhole /\ InitOwns /\ InitRetries
=============================================================================
