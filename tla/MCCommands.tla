----------------------------- MODULE MCCommands -----------------------------
(* Commands on blocks, pins and DAGs with the goroutines they start, and the  *)
(* RPC client.  Small instances side by side, `part` says which one this      *)
(* behaviour is about.                                                        *)
EXTENDS AddCmd, PinCmds, DagCmds, RpcClient, BlockCmds, TLC

VARIABLE part

\* A chain of three nodes, for pins and for imported files.
MCChain == ("a" :> {"b"}) @@ ("b" :> {"c"}) @@ ("c" :> {})

\* All DAGs of four nodes in topological order, with their links in any order.
MCLists(S) ==
  {s \in UNION {[1 .. k -> S] : k \in 0 .. Cardinality(S)} :
     \A i, j \in DOMAIN s : i # j => s[i] # s[j]}
MCDags ==
  {<<a, b, c, <<>>>> : a \in MCLists({2, 3, 4}), b \in MCLists({3, 4}), c \in MCLists({4})}
MCRoots == {<<1>>, <<1, 2>>, <<2, 1>>}

-----------------------------------------------------------------------------
Pins == <<pcvars, plvars>>
DagReads == <<dask, dpipe, dls, dimp>>
Blocks == <<blockvars, verifyvars, gcrun>>
vars == <<avars, Pins, DagReads, rpcvars, Blocks, part>>

Init ==
  /\ part \in {"add", "set", "bar", "many", "chk", "list", "ask", "dag", "pipe", "ls", "imp",
               "call", "sub", "file", "msg", "block", "verify", "gc"}
  /\ AddInit /\ (part # "add" => aopt = [n |-> 1, pin |-> TRUE, mfs |-> "no"])
  /\ ManyInit /\ (part # "many" => pmany.op = "add")
  /\ ChkInit /\ (part # "chk" => ~pchk.verbose)
  /\ ListsInit /\ (part # "list" => ppins.rec = {} /\ ppins.dir = {})
  /\ dask = [topic |-> "none"]
  /\ PipeInit /\ (part # "pipe" => dpipe.t = GetTraits /\ dpipe.miss = 0)
  /\ LsInit /\ (part # "ls" => ~dls.stream /\ dls.miss = 0 /\ dls.kinds = <<"dir", "dir">>)
  /\ ImpInit /\ (part # "imp" => ~dimp.pin /\ ~dimp.fault)
  /\ CallInit /\ SubInit /\ FileInit /\ rmsg = [topic |-> "none"]
  /\ part # "call" => /\ rcall.api = "pin.Ls" /\ rcall.n = 0
                      /\ rcall.end = "eof" /\ rcall.status = "ok"
  /\ BlockInit
  /\ part # "block" => /\ brun.cmd = "verify" /\ ~brun.remove /\ brun.args = CHOOSE x \in BArgs : TRUE
                       /\ bfile = [b \in BBlocks |-> "ok"]
  /\ VerifyInit
  /\ part # "verify" => /\ vrun.mode = "check" /\ vrun.fault = "none"
                        /\ vstore = [b \in VBlocks |-> "good"]
  /\ GcInit /\ (part # "gc" => gcrun.events = <<>> /\ ~gcrun.stream)

AddPart ==
  \/ part = "add" /\ AddNext /\ UNCHANGED <<aset, abar>>
  \/ part = "set" /\ AsksAdd /\ UNCHANGED <<addvars, abar>>
  \/ part = "bar" /\ BarNext /\ UNCHANGED <<addvars, aset>>

PinPart ==
  \/ part = "many" /\ ManyNext /\ UNCHANGED <<pchk, plvars>>
  \/ part = "chk" /\ ChkNext /\ UNCHANGED <<pmany, plvars>>
  \/ part = "list" /\ ListsNext /\ UNCHANGED pcvars
  \/ part = "ask" /\ pver.topic = "none" /\ AsksVerify /\ UNCHANGED <<ppins, plist, pcvars>>

DagPart ==
  \/ part = "dag" /\ dask.topic = "none" /\ AsksDag /\ UNCHANGED <<dpipe, dls, dimp>>
  \/ part = "pipe" /\ PipeNext /\ UNCHANGED <<dask, dls, dimp>>
  \/ part = "ls" /\ LsNext /\ UNCHANGED <<dask, dpipe, dimp>>
  \/ part = "imp" /\ ImpNext /\ UNCHANGED <<dask, dpipe, dls>>

RpcPart ==
  \/ part = "call" /\ CallNext /\ UNCHANGED <<rsub, rfile, rmsg>>
  \/ part = "sub" /\ SubNext /\ UNCHANGED <<rcall, rfile, rmsg>>
  \/ part = "file" /\ FileNext /\ UNCHANGED <<rcall, rsub, rmsg>>
  \/ part = "msg" /\ rmsg.topic = "none" /\ ParsesMessage /\ UNCHANGED <<rcall, rsub, rfile>>

BlockPart ==
  \/ part = "block" /\ BlockNext /\ UNCHANGED <<verifyvars, gcrun>>
  \/ part = "verify" /\ VerifyNext /\ UNCHANGED <<blockvars, gcrun>>
  \/ part = "gc" /\ GcNext /\ UNCHANGED <<blockvars, verifyvars>>

Next ==
  /\ UNCHANGED part
  /\ \/ AddPart /\ UNCHANGED <<Pins, DagReads, rpcvars, Blocks>>
     \/ PinPart /\ UNCHANGED <<avars, DagReads, rpcvars, Blocks>>
     \/ DagPart /\ UNCHANGED <<avars, Pins, rpcvars, Blocks>>
     \/ RpcPart /\ UNCHANGED <<avars, Pins, DagReads, Blocks>>
     \/ BlockPart /\ UNCHANGED <<avars, Pins, DagReads, rpcvars>>

-----------------------------------------------------------------------------
\* A goroutine that can go on goes on; the adding goroutine is in the race for
\* the pin lock again and again, and gets it.
Fairness ==
  /\ SF_addvars(part = "add" /\ GSteps)
  /\ WF_addvars(part = "add" /\ (HNext \/ HEmits \/ HEnds))
  /\ WF_addvars(part = "add" /\ CollectorGoesOn)
  /\ WF_abar(part = "bar" /\ BarSteps)
  /\ WF_pmany(part = "many" /\ ManySteps) /\ WF_pchk(part = "chk" /\ ChkSteps)
  /\ WF_dpipe(part = "pipe" /\ PipeGoroutine) /\ WF_dpipe(part = "pipe" /\ PipeHandler)
  /\ WF_dls(part = "ls" /\ LsSteps)
  /\ WF_rcall(part = "call" /\ CallSteps) /\ WF_rsub(part = "sub" /\ SubSteps)
  /\ WF_verifyvars(part = "verify" /\ VerifySteps)

Spec == Init /\ [][Next]_vars /\ Fairness

\* Commands and the goroutines they start end: an add whose client stays, and the
\* goroutine of one whose client has gone unless nobody reads its full channel;
\* the client's loop over the answer; pin add and rm; the verification of pins;
\* every call of the RPC client and the goroutine of a subscription; the writer
\* of a pipe, the lister of a directory and the workers of `repo verify` when
\* the requester leaves.
CommandsEnd ==
  /\ []<>(part = "add" => AddEnded) /\ []<>(part = "bar" => ClientEnded)
  /\ []<>(part = "many" => PinManyEnded) /\ []<>(part = "chk" => VerifyEnded)
  /\ []<>(part = "call" => CallEnded) /\ SubscriptionEnds
  /\ PipeGone /\ LsGone /\ VerifyGone
=============================================================================
