---------------------------- MODULE MCRepository ----------------------------
(* The repository directory and the binary, small instances side by side:     *)
(* `part` says which component this behaviour is about, and the others stand  *)
(* still.                                                                     *)
EXTENDS FSRepo, InitCmd, ConfigCmds, ConfigTypes, Fetchers, SelfUpdate, TLC

VARIABLE part

-----------------------------------------------------------------------------
(* FSRepo.  In p1: two inits, a daemon and two commands that set the same     *)
(* key; in p2 and p3 a command each that changes another.                     *)

MCProcOf == [h \in Handles |-> CASE h = "other" -> "p2"
                                [] h \in {"edit", "rm"} -> "p3"
                                [] OTHER -> "p1"]
MCEdit == [h \in Commands |->
  CASE h = "set" -> [key |-> "k1", val |-> "a"]
    [] h = "set2" -> [key |-> "k1", val |-> "b"]
    [] h = "other" -> [key |-> "k2", val |-> "c"]
    [] h = "edit" -> [key |-> "k2", val |-> "d"]
    [] h = "rm" -> [key |-> "k2", val |-> NoValue]]
-----------------------------------------------------------------------------
(* ConfigCmds: what the requests ask for. *)

R(op, names, key, val) == [op |-> op, names |-> names, key |-> key, val |-> val]

MCConfigRequests ==
  {R("bootadd", {"auto"}, "", ""), R("bootadd", {"x1", "y1"}, "", ""), R("bootadd", {"x"}, "", ""),
   R("bootrm", {"x1"}, "", ""), R("bootrm", {"x"}, "", ""), R("bootrmall", {}, "", ""),
   R("set", {}, "auto", "false"), R("set", {}, "peer", "other"), R("set", {}, "peer", "id"),
   R("set", {}, "priv", "j"),
   R("replace", {}, "", "peer"), R("replace", {}, "", "fewer"),
   R("profile", {}, "server", ""), R("profile", {}, "test", ""), R("profile", {}, "pebbleds", ""),
   R("profile", {}, "autoconf-on", "dry-run")}

-----------------------------------------------------------------------------
(* ConfigTypes: durations, sizes and numbers a config may give. *)

MCDurations == ("0s" :> 0) @@ ("1h" :> 3600) @@ ("-1ns" :> -1) @@ ("1ns" :> 1) @@ ("5ns" :> 5)
MCSizes == ("5GiB" :> 5)
MCNums == {-1, 0, 1, 5}
MCData == <<"p", "q">>

-----------------------------------------------------------------------------
Conf == <<cvars, ctask>>
Fetch == <<fetchvars, tempvars, fask>>
vars == <<repovars, initvars, Conf, Fetch, uvars, part>>

MCParts == {"repo", "init", "config", "profile", "key", "type", "fetch", "temp", "ask", "update", "look"}

Init ==
  /\ part \in MCParts
  /\ FSRepoInit
  /\ InitCmdInit /\ (part # "init" => \A p \in InitProcs : iproc[p].input = "good" /\ iproc[p].empty)
  /\ ConfigInit /\ ctask = [topic |-> "none"]
  /\ FetchInit /\ TempInit /\ fask = FNothing
  /\ part # "fetch" => fenv = [up |-> {}, found |-> {}, keep |-> FALSE, canceled |-> FALSE]
  /\ UpdateInit /\ (part \notin {"update", "look"} => ubin.ver = 1)

ConfPart ==
  \/ part = "config" /\ ConfigRequests /\ UNCHANGED ctask
  \/ part = "profile" /\ AppliesProfile /\ UNCHANGED ctask
  \/ part = "key" /\ AsksKey /\ UNCHANGED ctask
  \/ part = "type" /\ ctask.topic = "none" /\ AsksConfigType /\ UNCHANGED cvars

FetchPart ==
  \/ part = "fetch" /\ FetchNext /\ UNCHANGED <<tempvars, fask>>
  \/ part = "temp" /\ TempNext /\ UNCHANGED <<fetchvars, fask>>
  \/ part = "ask" /\ fask.topic = "none" /\ AsksFetcher /\ UNCHANGED <<fetchvars, tempvars>>

UpdatePart ==
  \/ part = "update" /\ UpdateNext
  \/ part = "look" /\ UpdateReads

Next ==
  /\ UNCHANGED part
  /\ \/ part = "repo" /\ FSRepoNext /\ UNCHANGED <<initvars, Conf, Fetch, uvars>>
     \/ part = "init" /\ InitCmdNext /\ UNCHANGED <<repovars, Conf, Fetch, uvars>>
     \/ ConfPart /\ UNCHANGED <<repovars, initvars, Fetch, uvars>>
     \/ FetchPart /\ UNCHANGED <<repovars, initvars, Conf, uvars>>
     \/ UpdatePart /\ UNCHANGED <<repovars, initvars, Conf, Fetch>>

Spec == Init /\ [][Next]_vars

\* The commands on the repo alone.
RepoOnly == Init /\ part = "repo" /\ [][Next]_vars
=============================================================================
