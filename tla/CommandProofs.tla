---------------------------- MODULE CommandProofs ---------------------------
(***************************************************************************)
(* What the commands that write and check blocks tell their user, for any  *)
(* blocks, workers, arguments and events: block put, block rm, filestore   *)
(* verify, repo verify and repo gc (BlockCmds), and add (AddCmd).          *)
(***************************************************************************)
EXTENDS BlockCmds, AddCmd, SequenceTheorems, FiniteSetTheorems, TLAPS

-----------------------------------------------------------------------------
(* block put, block rm and filestore verify                                 *)

BResults == ({"stored", "failed", "removed", "remove", "keep"} \cup FileStates) \X BBlocks

BlockTypeOK ==
  /\ DOMAIN brun = {"cmd", "args", "i", "pin", "force", "remove", "quiet", "out", "gone", "pc"}
  /\ DOMAIN bcli = {"lines", "pc"}
  /\ brun.cmd \in BCmds /\ brun.args \in Seq(BBlocks) /\ brun.i \in 1..(Len(brun.args) + 1)
  /\ brun.out \in Seq(BResults) /\ bcli.lines \in Seq(BResults)
  /\ brun.gone \subseteq BResults
  /\ brun.pc \in {"run", "put", "pinning", "ok", "error"} /\ bcli.pc \in {"run", "ok", "error"}
  /\ bfile \in [BBlocks -> FileStates]

\* A pin is set on a block that is still there.
PutInv ==
  /\ brun.pc \in {"put", "pinning"} => brun.cmd = "put" /\ brun.i <= Len(brun.args)
  /\ brun.pc = "pinning" => brun.args[brun.i] \in bstore
  /\ PinnedStay

\* The command has gone through its arguments, and the client through the results.
DoneInv ==
  /\ brun.pc = "ok" => brun.i = Len(brun.args) + 1
  /\ Len(bcli.lines) <= Len(brun.out)
  /\ \A k \in 1..Len(bcli.lines) : bcli.lines[k] = Line(brun.out[k])
  /\ bcli.pc = "ok" => /\ brun.pc = "ok" /\ Len(bcli.lines) = Len(brun.out)
                       /\ \A k \in 1..Len(bcli.lines) : bcli.lines[k][1] # "failed"

\* Each argument of `block rm` so far has been removed or has a failure among the
\* results; without a failure the results are the removals.
RmInv == brun.cmd = "rm" =>
  \/ \E m \in 1..Len(brun.out) : brun.out[m][1] = "failed"
  \/ /\ \A k \in 1..(brun.i - 1) : <<"removed", brun.args[k]>> \in brun.gone
     /\ brun.quiet => Len(brun.out) = 0
     /\ ~brun.quiet => /\ Len(brun.out) = brun.i - 1
                       /\ \A k \in 1..(brun.i - 1) : brun.out[k] = <<"removed", brun.args[k]>>

\* The bad results of `filestore verify` are the blocks it removed.
VerifyInv == brun.cmd = "verify" =>
  /\ \A g \in brun.gone : g[1] \in {"changed", "no-file", "missing"}
  /\ \A m \in 1..Len(brun.out) : brun.remove /\ Bad(brun.out[m][1]) => brun.out[m] \in brun.gone
  /\ \A g \in brun.gone : brun.remove /\ \E m \in 1..Len(brun.out) : brun.out[m] = g

BlockInv == BlockTypeOK /\ PutInv /\ DoneInv /\ RmInv /\ VerifyInv

LEMMA BlockInitially == BlockInit => BlockInv
<1> SUFFICES ASSUME BlockInit PROVE BlockInv BY Zenon
<1>1. PICK n \in 1..BMaxArgs : brun.args \in [1..n -> BBlocks] BY Zenon DEF BlockInit, BArgs
<1>2. brun.args \in Seq(BBlocks) /\ Len(brun.args) \in Nat
  <2>1. n \in Nat BY BlockCmdsAssumption
  <2> QED BY <1>1, <2>1
<1>3. /\ DOMAIN brun = {"cmd", "args", "i", "pin", "force", "remove", "quiet", "out", "gone", "pc"}
      /\ brun.cmd \in BCmds /\ brun.i = 1 /\ brun.out = <<>> /\ brun.gone = {} /\ brun.pc = "run"
  BY Zenon DEF BlockInit
<1>4. bcli = [lines |-> <<>>, pc |-> "run"] /\ PinnedStay BY Zenon DEF BlockInit, PinnedStay
<1>5. bfile \in [BBlocks -> FileStates] BY DEF BlockInit, FileStates
<1>6. BlockTypeOK BY <1>2, <1>3, <1>4, <1>5 DEF BlockTypeOK
<1>7. PutInv BY <1>3, <1>4, Zenon DEF PutInv
<1>8. DoneInv BY <1>3, <1>4 DEF DoneInv
<1>9. RmInv BY <1>3 DEF RmInv
<1>10. VerifyInv BY <1>3 DEF VerifyInv
<1> QED BY <1>6, <1>7, <1>8, <1>9, <1>10, Zenon DEF BlockInv

\* A step that only moves the command on.
LEMMA EndsKeeps ==
  ASSUME BlockInv, NEW how \in {"put", "pinning", "ok", "error"}, BlockEnds(how),
         brun.pc \in {"run", "put", "pinning"},
         how \in {"put", "pinning"} => brun.cmd = "put" /\ brun.i <= Len(brun.args),
         how = "pinning" => brun.args[brun.i] \in bstore',
         how = "ok" => brun.i = Len(brun.args) + 1,
         PinnedStay', UNCHANGED <<bfile, bcli>>
  PROVE  BlockInv'
<1>0. /\ DOMAIN brun' = DOMAIN brun /\ brun'.pc = how
      /\ UNCHANGED <<brun.cmd, brun.args, brun.i, brun.remove, brun.quiet, brun.out, brun.gone>>
  BY Zenon DEF BlockEnds, BlockInv, BlockTypeOK
<1>1. BlockTypeOK' BY <1>0, Zenon DEF BlockInv, BlockTypeOK
<1>2. PutInv' BY <1>0, Zenon DEF BlockInv, PutInv
<1>3. DoneInv' BY <1>0, ZenonT(60) DEF BlockInv, DoneInv, Line
<1>4. RmInv' BY <1>0, Zenon DEF BlockInv, RmInv
<1>5. VerifyInv' BY <1>0 DEF BlockInv, VerifyInv, Bad
<1> QED BY <1>1, <1>2, <1>3, <1>4, <1>5, Zenon DEF BlockInv

LEMMA PutKeeps == ASSUME BlockInv, Puts \/ PutPins \/ BlockFails \/ BlockDone PROVE BlockInv'
<1>0. /\ brun.args \in Seq(BBlocks) /\ brun.i \in 1..(Len(brun.args) + 1) /\ PinnedStay
      /\ brun.pc = "pinning" => Arg \in bstore
      /\ brun.pc = "pinning" => brun.cmd = "put" /\ brun.i <= Len(brun.args)
  BY Zenon DEF BlockInv, BlockTypeOK, PutInv, Arg
<1>1. CASE Puts
  <2>1. PinnedStay' BY <1>0, <1>1, Zenon DEF Puts, PinnedStay
  <2>2. PICK how \in {"put", "pinning", "error"} : BlockEnds(how) /\ (how = "pinning" => Arg \in bstore')
    BY <1>1, Zenon DEF Puts
  <2> QED BY <1>1, <2>1, <2>2, EndsKeeps, Zenon DEF Puts, More, Arg
<1>2. CASE PutPins
  <2>1. PinnedStay' BY <1>0, <1>2, Zenon DEF PutPins, PinnedStay
  <2>2. PICK how \in {"put", "error"} : BlockEnds(how) BY <1>2, Zenon DEF PutPins
  <2> QED BY <1>0, <1>2, <2>1, <2>2, EndsKeeps, Zenon DEF PutPins
<1>3. CASE BlockFails
  <2>1. PinnedStay' BY <1>0, <1>3, Zenon DEF BlockFails, PinnedStay
  <2> QED BY <1>3, <2>1, EndsKeeps, Zenon DEF BlockFails, More
<1>4. CASE BlockDone
  <2>1. PinnedStay' BY <1>0, <1>4, Zenon DEF BlockDone, PinnedStay
  <2>2. brun.i = Len(brun.args) + 1 BY <1>0, <1>4 DEF BlockDone
  <2> QED BY <1>4, <2>1, <2>2, EndsKeeps, Zenon DEF BlockDone
<1> QED BY <1>1, <1>2, <1>3, <1>4, Zenon

\* What a step that adds one result, or none, does to the sequences.
LEMMA AppendIs ==
  ASSUME NEW S, NEW q \in Seq(S), NEW e \in S
  PROVE  /\ Append(q, e) \in Seq(S) /\ Len(Append(q, e)) = Len(q) + 1
         /\ \A k \in 1..Len(q) : Append(q, e)[k] = q[k]
         /\ Append(q, e)[Len(q) + 1] = e
OBVIOUS

LEMMA PutChecksKeeps == ASSUME BlockInv, PutChecks PROVE BlockInv'
<1>0. /\ brun.args \in Seq(BBlocks) /\ brun.i \in 1..Len(brun.args) /\ PinnedStay
      /\ brun.cmd = "put" /\ brun.pc = "put" /\ brun.out \in Seq(BResults)
  BY DEF BlockInv, BlockTypeOK, PutInv, PutChecks
<1>1. PinnedStay' BY <1>0, Zenon DEF PutChecks, PinnedStay
<1>2. CASE Arg \in BBig
  <2>1. BlockEnds("error") BY <1>2, Zenon DEF PutChecks, BlockEnds
  <2> QED BY <1>0, <1>1, <2>1, EndsKeeps, Zenon DEF PutChecks
<1>3. CASE Arg \notin BBig
  <2> DEFINE e == <<"stored", Arg>>
             o == Append(brun.out, e)
  <2>1. /\ DOMAIN brun' = DOMAIN brun /\ brun'.pc = "run" /\ brun'.out = o /\ brun'.i = brun.i + 1
        /\ UNCHANGED <<brun.cmd, brun.args, brun.remove, brun.quiet, brun.gone>>
    BY <1>3, Zenon DEF PutChecks, BlockInv, BlockTypeOK
  <2>2. e \in BResults BY <1>0 DEF Arg, BResults
  <2>3. /\ o \in Seq(BResults) /\ Len(o) = Len(brun.out) + 1
        /\ \A k \in 1..Len(brun.out) : o[k] = brun.out[k]
    BY <1>0, <2>2, AppendIs
  <2> HIDE DEF e, o
  <2>4. UNCHANGED <<bfile, bcli, bstore, bpins>> BY Zenon DEF PutChecks
  <2>5. BlockTypeOK' BY <1>0, <2>1, <2>3, <2>4 DEF BlockInv, BlockTypeOK
  <2>6. PutInv' BY <1>1, <2>1, Zenon DEF PutInv
  <2>7. DoneInv' BY <1>0, <2>1, <2>3, <2>4 DEF BlockInv, BlockTypeOK, DoneInv, Line
  <2>8. RmInv' /\ VerifyInv' BY <1>0, <2>1, Zenon DEF RmInv, VerifyInv
  <2> QED BY <2>5, <2>6, <2>7, <2>8, Zenon DEF BlockInv
<1> QED BY <1>2, <1>3, Zenon

LEMMA RmsKeeps == ASSUME BlockInv, Rms PROVE BlockInv'
<1>0. /\ brun.args \in Seq(BBlocks) /\ brun.i \in 1..Len(brun.args) /\ PinnedStay
      /\ brun.cmd = "rm" /\ brun.pc = "run" /\ brun.out \in Seq(BResults) /\ Arg \in BBlocks
  BY DEF BlockInv, BlockTypeOK, PutInv, Rms, More, Arg
<1> DEFINE f == <<"failed", Arg>>
           m == <<"removed", Arg>>
           o == Emits(brun.out)
           g == IF RmResult(Arg) = "removed" THEN brun.gone \cup {m} ELSE brun.gone
<1>1. PinnedStay' BY <1>0, Zenon DEF Rms, PinnedStay, RmResult
<1>2. /\ DOMAIN brun' = DOMAIN brun /\ brun'.out = o /\ brun'.i = brun.i + 1 /\ brun'.gone = g
      /\ UNCHANGED <<brun.cmd, brun.args, brun.remove, brun.quiet, brun.pc>>
  BY Zenon DEF Rms, BlockInv, BlockTypeOK
<1>3. f \in BResults /\ m \in BResults BY <1>0, Zenon DEF BResults
<1>4. \/ o = Append(brun.out, f)
      \/ o = brun.out /\ brun.quiet /\ m \in g
      \/ o = Append(brun.out, m) /\ ~brun.quiet /\ m \in g
  BY Zenon DEF Emits
<1>5. g \subseteq BResults /\ brun.gone \subseteq g BY <1>3, ZenonT(60) DEF BlockInv, BlockTypeOK
<1>6. UNCHANGED <<bfile, bcli>> BY Zenon DEF Rms
<1>7. f[1] = "failed" /\ m = <<"removed", brun.args[brun.i]>> BY Zenon DEF Arg
<1> HIDE DEF f, m, o, g
<1>8. /\ o \in Seq(BResults) /\ Len(o) \in {Len(brun.out), Len(brun.out) + 1}
      /\ \A k \in 1..Len(brun.out) : o[k] = brun.out[k]
  <2>1. CASE o = brun.out BY <1>0, <2>1, Zenon
  <2>2. CASE o = Append(brun.out, f) BY <1>0, <1>3, <2>2, AppendIs
  <2>3. CASE o = Append(brun.out, m) BY <1>0, <1>3, <2>3, AppendIs
  <2> QED BY <1>4, <2>1, <2>2, <2>3, Zenon
<1>9. BlockTypeOK' BY <1>0, <1>2, <1>5, <1>6, <1>8 DEF BlockInv, BlockTypeOK
<1>10. PutInv' BY <1>0, <1>1, <1>2, Zenon DEF PutInv
<1>11. DoneInv' BY <1>0, <1>2, <1>6, <1>8 DEF BlockInv, BlockTypeOK, DoneInv, Line
<1>12. RmInv'
  <2>0. ~(\E k \in 1..Len(brun.out) : brun.out[k][1] = "failed") =>
           /\ \A k \in 1..(brun.i - 1) : <<"removed", brun.args[k]>> \in brun.gone
           /\ brun.quiet => Len(brun.out) = 0
           /\ ~brun.quiet => /\ Len(brun.out) = brun.i - 1
                             /\ \A k \in 1..(brun.i - 1) : brun.out[k] = <<"removed", brun.args[k]>>
    BY <1>0, Zenon DEF BlockInv, RmInv
  <2>i. \A k \in 1..brun.i : k \in 1..(brun.i - 1) \/ k = brun.i BY <1>0
  <2>j. brun'.i - 1 = brun.i BY <1>0, <1>2
  <2>1. CASE o = Append(brun.out, f)
    <3>1. Len(o) = Len(brun.out) + 1 /\ o[Len(brun.out) + 1] = f BY <1>0, <1>3, <2>1, AppendIs
    <3>2. Len(brun.out) + 1 \in 1..Len(o) /\ o[Len(brun.out) + 1][1] = "failed" BY <1>0, <1>7, <3>1
    <3> QED BY <1>2, <3>2, Zenon DEF RmInv
  <2>2. CASE \E k \in 1..Len(brun.out) : brun.out[k][1] = "failed"
    <3>1. \E k \in 1..Len(o) : o[k][1] = "failed" BY <1>0, <1>8, <2>2
    <3> QED BY <1>2, <3>1, Zenon DEF RmInv
  <2>3. CASE /\ ~(\E k \in 1..Len(brun.out) : brun.out[k][1] = "failed")
             /\ o = brun.out /\ brun.quiet /\ m \in g
    <3>1. \A k \in 1..brun.i : <<"removed", brun.args[k]>> \in g BY <1>5, <1>7, <2>0, <2>i, <2>3, Zenon
    <3> QED BY <1>2, <2>0, <2>3, <2>j, <3>1, Zenon DEF RmInv
  <2>4. CASE /\ ~(\E k \in 1..Len(brun.out) : brun.out[k][1] = "failed")
             /\ o = Append(brun.out, m) /\ ~brun.quiet /\ m \in g
    <3>1. Len(o) = Len(brun.out) + 1 /\ o[Len(brun.out) + 1] = m BY <1>0, <1>3, <2>4, AppendIs
    <3>2. Len(brun.out) = brun.i - 1 BY <2>0, <2>4, Zenon
    <3>3. \A k \in 1..brun.i : <<"removed", brun.args[k]>> \in g BY <1>5, <1>7, <2>0, <2>i, <2>4, Zenon
    <3>4. \A k \in 1..brun.i : o[k] = <<"removed", brun.args[k]>>
      <4>1. ASSUME NEW k \in 1..(brun.i - 1) PROVE o[k] = <<"removed", brun.args[k]>>
        BY <1>0, <1>8, <2>0, <2>4, <3>2, Zenon
      <4>2. o[brun.i] = <<"removed", brun.args[brun.i]>> BY <1>0, <1>7, <3>1, <3>2
      <4> QED BY <2>i, <4>1, <4>2, Zenon
    <3>5. Len(o) = brun.i BY <1>0, <3>1, <3>2
    <3> QED BY <1>2, <2>4, <2>j, <3>3, <3>4, <3>5, Zenon DEF RmInv
  <2> QED BY <1>4, <2>1, <2>2, <2>3, <2>4, Zenon
<1>13. VerifyInv' BY <1>0, <1>2, Zenon DEF VerifyInv
<1> QED BY <1>9, <1>10, <1>11, <1>12, <1>13, Zenon DEF BlockInv

LEMMA VerifiesKeeps == ASSUME BlockInv, VerifiesFile PROVE BlockInv'
<1> DEFINE st == bfile[Arg]
           e == <<st, Arg>>
           o == Append(brun.out, e)
           g == IF brun.remove /\ Bad(st) THEN brun.gone \cup {e} ELSE brun.gone
<1>0. /\ brun.args \in Seq(BBlocks) /\ brun.i \in 1..Len(brun.args) /\ PinnedStay
      /\ brun.cmd = "verify" /\ brun.pc = "run" /\ brun.out \in Seq(BResults) /\ Arg \in BBlocks
      /\ st \in FileStates
  BY DEF BlockInv, BlockTypeOK, PutInv, VerifiesFile, More, Arg
<1>1. PinnedStay' BY <1>0, Zenon DEF VerifiesFile, PinnedStay
<1>2. /\ DOMAIN brun' = DOMAIN brun /\ brun'.out = o /\ brun'.i = brun.i + 1 /\ brun'.gone = g
      /\ UNCHANGED <<brun.cmd, brun.args, brun.remove, brun.quiet, brun.pc>>
  BY Zenon DEF VerifiesFile, BlockInv, BlockTypeOK
<1>3. e \in BResults /\ e[1] = st BY <1>0, Zenon DEF BResults
<1>4. bfile' \in [BBlocks -> FileStates] BY <1>0, Zenon DEF VerifiesFile, BlockInv, BlockTypeOK, FileStates
<1>5. bcli' = bcli BY Zenon DEF VerifiesFile
<1>6. g \subseteq BResults BY <1>3, ZenonT(60) DEF BlockInv, BlockTypeOK
<1>7. /\ o \in Seq(BResults) /\ Len(o) = Len(brun.out) + 1 /\ o[Len(brun.out) + 1] = e
      /\ \A k \in 1..Len(brun.out) : o[k] = brun.out[k]
  BY <1>0, <1>3, AppendIs
<1>8. Bad(st) => st \in {"changed", "no-file", "missing"} BY <1>0, Zenon DEF Bad, FileStates
<1> HIDE DEF o, e, st
<1>9. BlockTypeOK' BY <1>0, <1>2, <1>4, <1>5, <1>6, <1>7 DEF BlockInv, BlockTypeOK
<1>10. PutInv' BY <1>0, <1>1, <1>2, Zenon DEF PutInv
<1>11. DoneInv'
  <2>1. ASSUME NEW k \in 1..Len(bcli.lines) PROVE bcli'.lines[k] = Line(brun.out[k])'
    <3>1. k \in 1..Len(brun.out) /\ bcli.lines[k] = Line(brun.out[k])
      BY <1>0 DEF BlockInv, BlockTypeOK, DoneInv
    <3>2. brun'.out[k] = brun.out[k] BY <1>2, <1>7, <3>1, Zenon
    <3> QED BY <1>2, <1>5, <3>1, <3>2, Zenon DEF Line
  <2> QED BY <1>0, <1>2, <1>5, <1>7, <2>1 DEF BlockInv, BlockTypeOK, DoneInv
<1>12. RmInv' BY <1>0, <1>2, Zenon DEF RmInv
<1>13. VerifyInv'
  <2>1. \A h \in g : h[1] \in {"changed", "no-file", "missing"}
    BY <1>0, <1>3, <1>8, Zenon DEF BlockInv, VerifyInv
  <2>2. \A m \in 1..Len(o) : brun.remove /\ Bad(o[m][1]) => o[m] \in g
    BY <1>0, <1>3, <1>7 DEF BlockInv, VerifyInv
  <2>3. \A h \in g : brun.remove /\ \E m \in 1..Len(o) : o[m] = h
    BY <1>0, <1>7 DEF BlockInv, VerifyInv
  <2> HIDE DEF g
  <2> QED BY <1>2, <2>1, <2>2, <2>3, Zenon DEF VerifyInv, Bad
<1> QED BY <1>9, <1>10, <1>11, <1>12, <1>13, Zenon DEF BlockInv

LEMMA ClientKeeps == ASSUME BlockInv, Prints \/ BlockClientEnds PROVE BlockInv'
<1>0. /\ brun.out \in Seq(BResults) /\ bcli.lines \in Seq(BResults)
      /\ UNCHANGED <<brun, bstore, bpins, bfile>>
  BY Zenon DEF BlockInv, BlockTypeOK, Prints, BlockClientEnds
<1>1. PutInv' BY <1>0, Zenon DEF BlockInv, PutInv, PinnedStay
<1>2. RmInv' BY <1>0, Zenon DEF BlockInv, RmInv
<1>3. VerifyInv' BY <1>0, Zenon DEF BlockInv, VerifyInv, Bad
<1>l. ASSUME NEW k PROVE Line(brun.out[k])' = Line(brun.out[k]) BY <1>0, Zenon DEF Line
<1>4. CASE Prints
  <2> DEFINE e == Line(brun.out[Len(bcli.lines) + 1])
             q == Append(bcli.lines, e)
  <2>1. bcli.pc = "run" /\ Len(bcli.lines) < Len(brun.out) BY <1>4, Zenon DEF Prints
  <2>2. bcli'.lines = q /\ bcli'.pc = bcli.pc /\ DOMAIN bcli' = DOMAIN bcli
    BY <1>4, Zenon DEF Prints, BlockInv, BlockTypeOK
  <2>3. e \in BResults
    <3> DEFINE x == brun.out[Len(bcli.lines) + 1]
    <3>1. x \in BResults BY <1>0, <2>1
    <3> HIDE DEF x
    <3>2. Line(x) \in BResults BY <3>1, Zenon DEF Line, BResults
    <3> QED BY <3>2, Zenon DEF x
  <2>4. /\ q \in Seq(BResults) /\ Len(q) = Len(bcli.lines) + 1 /\ q[Len(bcli.lines) + 1] = e
        /\ \A k \in 1..Len(bcli.lines) : q[k] = bcli.lines[k]
    BY <1>0, <2>3, AppendIs
  <2> HIDE DEF q
  <2>5. BlockTypeOK' BY <1>0, <2>2, <2>4, Zenon DEF BlockInv, BlockTypeOK
  <2>6. \A k \in 1..Len(q) : q[k] = Line(brun.out[k])
    <3> HIDE DEF e
    <3>1. \A k \in 1..Len(q) : k \in 1..Len(bcli.lines) \/ k = Len(bcli.lines) + 1 BY <1>0, <2>4
    <3>2. \A k \in 1..Len(bcli.lines) : q[k] = Line(brun.out[k]) BY <2>4, Zenon DEF BlockInv, DoneInv
    <3>3. q[Len(bcli.lines) + 1] = Line(brun.out[Len(bcli.lines) + 1]) BY <2>4, Zenon DEF e
    <3> QED BY <3>1, <3>2, <3>3, Zenon
  <2>7. Len(q) <= Len(brun.out) BY <1>0, <2>1, <2>4
  <2>8. brun.pc = "ok" => brun.i = Len(brun.args) + 1 BY Zenon DEF BlockInv, DoneInv
  <2>9. \A k \in 1..Len(q) : q[k] = Line(brun.out[k])' BY <1>l, <2>6, Zenon
  <2>10. DoneInv' BY <1>0, <2>1, <2>2, <2>7, <2>8, <2>9, Zenon DEF DoneInv
  <2> QED BY <1>1, <1>2, <1>3, <2>5, <2>10, Zenon DEF BlockInv
<1>5. CASE BlockClientEnds
  <2>1. bcli'.lines = bcli.lines /\ bcli'.pc = ClientResult /\ DOMAIN bcli' = DOMAIN bcli
    BY <1>5, Zenon DEF BlockClientEnds, BlockInv, BlockTypeOK
  <2>2. brun.pc \in {"ok", "error"} /\ Len(bcli.lines) = Len(brun.out) BY <1>5, Zenon DEF BlockClientEnds
  <2>3. BlockTypeOK' BY <1>0, <2>1, Zenon DEF BlockInv, BlockTypeOK, ClientResult
  <2>4. ClientResult = "ok" => brun.pc = "ok" /\ \A k \in 1..Len(bcli.lines) : bcli.lines[k][1] # "failed"
    BY <1>0, <2>2 DEF ClientResult
  <2>5. \A k \in 1..Len(bcli.lines) : bcli.lines[k] = Line(brun.out[k])' BY <1>l, Zenon DEF BlockInv, DoneInv
  <2>6. (brun.pc = "ok" => brun.i = Len(brun.args) + 1) /\ Len(bcli.lines) <= Len(brun.out) BY Zenon DEF BlockInv, DoneInv
  <2>7. DoneInv' BY <1>0, <2>1, <2>2, <2>4, <2>5, <2>6, Zenon DEF DoneInv
  <2> QED BY <1>1, <1>2, <1>3, <2>3, <2>7, Zenon DEF BlockInv
<1> QED BY <1>4, <1>5, Zenon

LEMMA OthersKeep == ASSUME BlockInv, BOthers PROVE BlockInv'
<1>0. UNCHANGED <<brun, bcli>> BY Zenon DEF BOthers
<1>1. BlockTypeOK' BY <1>0 DEF BOthers, BlockInv, BlockTypeOK, FileStates
<1>2. PutInv' BY <1>0, Zenon DEF BOthers, BlockInv, PutInv, PinnedStay, CollectorFree
<1>3. DoneInv' BY <1>0, Zenon DEF BlockInv, DoneInv, Line
<1>4. RmInv' BY <1>0, Zenon DEF BlockInv, RmInv
<1>5. VerifyInv' BY <1>0, Zenon DEF BlockInv, VerifyInv, Bad
<1> QED BY <1>1, <1>2, <1>3, <1>4, <1>5, Zenon DEF BlockInv

LEMMA BlockStutters == ASSUME BlockInv, UNCHANGED blockvars PROVE BlockInv'
<1> USE DEF blockvars
<1>1. BlockTypeOK' BY Zenon DEF BlockInv, BlockTypeOK
<1>2. PutInv' BY Zenon DEF BlockInv, PutInv, PinnedStay
<1>3. DoneInv' BY Zenon DEF BlockInv, DoneInv, Line
<1>4. RmInv' BY Zenon DEF BlockInv, RmInv
<1>5. VerifyInv' BY Zenon DEF BlockInv, VerifyInv, Bad
<1> QED BY <1>1, <1>2, <1>3, <1>4, <1>5, Zenon DEF BlockInv

LEMMA BlockInductive == BlockInv /\ [BlockNext]_blockvars => BlockInv'
BY PutKeeps, PutChecksKeeps, RmsKeeps, VerifiesKeeps, ClientKeeps, OthersKeep, BlockStutters, Zenon DEF BlockNext

LEMMA BlockSafely == BlockInv => PinnedStay /\ RmReports /\ VerifyPrints
<1> SUFFICES ASSUME BlockInv PROVE PinnedStay /\ RmReports /\ VerifyPrints BY Zenon
<1>0. /\ brun.out \in Seq(BResults) /\ bcli.lines \in Seq(BResults) /\ brun.args \in Seq(BBlocks)
      /\ brun.gone \subseteq BResults
  BY Zenon DEF BlockInv, BlockTypeOK
<1>1. PinnedStay BY Zenon DEF BlockInv, PutInv
<1>2. bcli.pc = "ok" => /\ brun.pc = "ok" /\ brun.i = Len(brun.args) + 1 /\ Len(bcli.lines) = Len(brun.out)
                        /\ \A k \in 1..Len(bcli.lines) : bcli.lines[k][1] # "failed"
  BY Zenon DEF BlockInv, DoneInv
<1>l. \A k \in 1..Len(bcli.lines) : bcli.lines[k] = Line(brun.out[k]) BY Zenon DEF BlockInv, DoneInv
<1>3. RmReports
  <2> SUFFICES ASSUME brun.cmd = "rm", bcli.pc = "ok"
               PROVE  /\ \A k \in DOMAIN brun.args: <<"removed", brun.args[k]>> \in brun.gone
                      /\ bcli.lines = IF brun.quiet THEN <<>>
                                      ELSE [k \in DOMAIN brun.args |-> <<"removed", brun.args[k]>>]
    BY Zenon DEF RmReports
  <2>1. \A k \in 1..Len(bcli.lines) : bcli.lines[k] = brun.out[k] BY <1>l, Zenon DEF Line
  <2>2. ~(\E k \in 1..Len(brun.out) : brun.out[k][1] = "failed") BY <1>2, <2>1, Zenon
  <2>3. brun.i - 1 = Len(brun.args) /\ DOMAIN brun.args = 1..Len(brun.args) BY <1>0, <1>2, SMTT(60)
  <2>4. /\ \A k \in 1..Len(brun.args) : <<"removed", brun.args[k]>> \in brun.gone
        /\ brun.quiet => Len(brun.out) = 0
        /\ ~brun.quiet => /\ Len(brun.out) = Len(brun.args)
                          /\ \A k \in 1..Len(brun.args) : brun.out[k] = <<"removed", brun.args[k]>>
    BY <2>2, <2>3, Zenon DEF BlockInv, RmInv
  <2>5. CASE brun.quiet
    <3>1. Len(bcli.lines) = 0 BY <1>2, <2>4, <2>5, Zenon
    <3>2. bcli.lines = <<>> BY <1>0, <3>1
    <3> QED BY <2>3, <2>4, <2>5, <3>2, Zenon
  <2>6. CASE ~brun.quiet
    <3>1. Len(bcli.lines) = Len(brun.args) BY <1>2, <2>4, <2>6, Zenon
    <3>2. \A k \in 1..Len(brun.args) : bcli.lines[k] = <<"removed", brun.args[k]>> BY <2>1, <2>4, <2>6, <3>1, Zenon
    <3>4. bcli.lines = [k \in 1..Len(bcli.lines) |-> bcli.lines[k]] BY <1>0
    <3>3. bcli.lines = [k \in 1..Len(brun.args) |-> <<"removed", brun.args[k]>>] BY <3>1, <3>2, <3>4, ZenonT(60)
    <3> QED BY <2>3, <2>4, <2>6, <3>3, Zenon
  <2> QED BY <2>5, <2>6, Zenon
<1>4. VerifyPrints
  <2> SUFFICES ASSUME brun.cmd = "verify"
               PROVE  /\ \A g \in brun.gone: g[1] \in {"changed", "no-file", "missing"}
                      /\ bcli.pc = "ok" =>
                           \A b \in BBlocks: <<"remove", b>> \in {bcli.lines[k]: k \in DOMAIN bcli.lines}
                                             <=> \E g \in brun.gone: g[2] = b
    BY Zenon DEF VerifyPrints
  <2>1. \A g \in brun.gone: g[1] \in {"changed", "no-file", "missing"} BY Zenon DEF BlockInv, VerifyInv
  <2>2. ASSUME bcli.pc = "ok", NEW b \in BBlocks, NEW k \in DOMAIN bcli.lines, bcli.lines[k] = <<"remove", b>>
        PROVE  \E g \in brun.gone : g[2] = b
    <3>1. k \in 1..Len(bcli.lines) /\ k \in 1..Len(brun.out) BY <1>0, <1>2, <2>2
    <3>2. bcli.lines[k] = Line(brun.out[k]) BY <1>l, <3>1, Zenon
    <3>3. brun.out[k] \in BResults BY <1>0, <3>1
    <3>4. brun.remove /\ Bad(brun.out[k][1]) /\ brun.out[k][2] = b
      BY <2>2, <3>2, <3>3 DEF Line, Bad
    <3>5. brun.out[k] \in brun.gone BY <3>1, <3>4, Zenon DEF BlockInv, VerifyInv
    <3> QED BY <3>4, <3>5, Zenon
  <2>3. ASSUME bcli.pc = "ok", NEW b \in BBlocks, NEW g \in brun.gone, g[2] = b
        PROVE  <<"remove", b>> \in {bcli.lines[k]: k \in DOMAIN bcli.lines}
    <3>1. brun.remove /\ \E m \in 1..Len(brun.out) : brun.out[m] = g BY Zenon DEF BlockInv, VerifyInv
    <3>2. PICK m \in 1..Len(brun.out) : brun.out[m] = g BY <3>1, Zenon
    <3>3. m \in 1..Len(bcli.lines) /\ m \in DOMAIN bcli.lines BY <1>0, <1>2, <2>3
    <3>4. Line(g) = <<"remove", b>> BY <2>1, <2>3, <3>1, Zenon DEF Line
    <3>5. bcli.lines[m] = <<"remove", b>> BY <1>l, <3>2, <3>3, <3>4, Zenon
    <3> QED BY <3>3, <3>5, Zenon
  <2>4. bcli.pc = "ok" =>
          \A b \in BBlocks: <<"remove", b>> \in {bcli.lines[k]: k \in DOMAIN bcli.lines}
                            <=> \E g \in brun.gone: g[2] = b
    BY <2>2, <2>3, Zenon
  <2> QED BY <2>1, <2>4, Zenon
<1> QED BY <1>1, <1>3, <1>4, Zenon

-----------------------------------------------------------------------------
(* repo gc *)

\* Every error the loop has passed is counted.
GcInv ==
  /\ DOMAIN gcrun = {"events", "stream", "at", "errs", "h", "ctx"}
  /\ gcrun.events \in Seq({"key", "error"}) /\ gcrun.at \in 0..Len(gcrun.events) /\ gcrun.errs \in Nat
  /\ gcrun.h # "error" /\ gcrun.errs = 0 => \A i \in 1..gcrun.at : gcrun.events[i] # "error"
  /\ gcrun.h = "ok" => gcrun.at = Len(gcrun.events) /\ gcrun.errs = 0

LEMMA GcInitially == GcInit => GcInv
<1> SUFFICES ASSUME GcInit PROVE GcInv BY Zenon
<1>1. PICK n \in 0..GcEvents : \E events \in [1..n -> {"key", "error"}], stream \in BOOLEAN :
        gcrun = [events |-> events, stream |-> stream, at |-> 0, errs |-> 0, h |-> "loop", ctx |-> "live"]
  BY Zenon DEF GcInit
<1>2. PICK events \in [1..n -> {"key", "error"}], stream \in BOOLEAN :
        gcrun = [events |-> events, stream |-> stream, at |-> 0, errs |-> 0, h |-> "loop", ctx |-> "live"]
  BY <1>1, Zenon
<1>3. n \in Nat BY BlockCmdsAssumption
<1>4. events \in Seq({"key", "error"}) BY <1>3
<1> QED BY <1>2, <1>4 DEF GcInv

LEMMA GcInductive == GcInv /\ [GcNext]_gcrun => GcInv'
<1> SUFFICES ASSUME GcInv, [GcNext]_gcrun PROVE GcInv' BY Zenon
<1> USE DEF GcInv
<1>1. CASE UNCHANGED gcrun BY <1>1, Zenon
<1>2. CASE GcTakes
  <2>1. gcrun.h = "loop" /\ gcrun.at + 1 \in 1..Len(gcrun.events) BY <1>2 DEF GcTakes
  <2>2. CASE gcrun' = [gcrun EXCEPT !.h = "error", !.at = @ + 1] BY <2>1, <2>2
  <2>3. CASE gcrun' = [gcrun EXCEPT !.at = @ + 1, !.errs = @ + (IF GcNow = "error" THEN 1 ELSE 0)]
    <3>1. /\ gcrun'.at = gcrun.at + 1 /\ gcrun'.errs = gcrun.errs + (IF GcNow = "error" THEN 1 ELSE 0)
          /\ UNCHANGED <<gcrun.events, gcrun.h>> /\ DOMAIN gcrun' = DOMAIN gcrun
      BY <2>3, Zenon
    <3>2. gcrun'.errs \in Nat /\ (gcrun'.errs = 0 => gcrun.errs = 0 /\ gcrun.events[gcrun.at + 1] # "error")
      BY <3>1 DEF GcNow
    <3> QED BY <2>1, <3>1, <3>2
  <2> QED BY <1>2, <2>2, <2>3, Zenon DEF GcTakes
<1>3. CASE GcStops BY <1>3, Zenon DEF GcStops
<1>4. CASE GcReturns
  <2>1. gcrun.h = "loop" /\ gcrun.at = Len(gcrun.events) BY <1>4, Zenon DEF GcReturns
  <2>2. CASE gcrun.errs > 0 BY <1>4, <2>1, <2>2, Zenon DEF GcReturns
  <2>3. CASE gcrun.errs = 0 BY <1>4, <2>1, <2>3, Zenon DEF GcReturns
  <2> QED BY <2>2, <2>3
<1>5. CASE GcClientLeaves BY <1>5, Zenon DEF GcClientLeaves
<1> QED BY <1>1, <1>2, <1>3, <1>4, <1>5, Zenon DEF GcNext

LEMMA GcSafely == GcInv => GcReported
BY DEF GcInv, GcReported

-----------------------------------------------------------------------------
(* repo verify *)

WorkRecord == {"pc", "key", "state"}
Busy == {"get", "delete", "heal", "send"}

\* The keys in the hands of the workers, and those that the handler has counted.
InHand(work) == {work[w].key : w \in {x \in VWorkers : work[x].pc \in Busy}}
Settled(keys, work) == (VBlocks \ keys) \ InHand(work)

CheckTypeOK ==
  /\ DOMAIN vrun = {"mode", "fault", "keys", "results", "h", "ctx", "seen", "corrupted", "removefailed", "healfailed"}
  /\ vrun.mode \in {"check", "drop", "heal"} /\ vrun.keys \subseteq VBlocks /\ vrun.ctx \in {"live", "done"}
  /\ vrun.seen \in Nat /\ vrun.corrupted \in Nat /\ vrun.removefailed \in Nat /\ vrun.healfailed \in Nat
  /\ DOMAIN vwork = VWorkers
  /\ \A w \in VWorkers : DOMAIN vwork[w] = WorkRecord /\ vwork[w].pc \in Busy \cup {"next", "done"}
  /\ vstore \in [VBlocks -> {"good", "bad", "gone"}]
  /\ DOMAIN vpast = {"start", "collected"}

\* A key is in the hands of one worker.
HandsInv ==
  /\ \A w \in VWorkers : vwork[w].pc \in Busy => vwork[w].key \in VBlocks \ vrun.keys
  /\ \A w, x \in VWorkers :
       vwork[w].pc \in Busy /\ vwork[x].pc \in Busy /\ vwork[w].key = vwork[x].key => w = x

\* What a worker knows of the block in its hands.
Knows(r) ==
  /\ r.pc \in {"delete", "heal"} => vrun.mode # "check"
  /\ r.pc = "heal" => vrun.mode = "heal" /\ (vstore[r.key] # "bad")
  /\ r.pc = "send" =>
       /\ r.state \in {"valid", "corrupt", "removed", "removefailed", "healed", "healfailed"}
       /\ r.state = "corrupt" => vrun.mode = "check"
       /\ r.state = "removed" => vrun.mode # "heal"
       /\ r.state \in {"valid", "removed", "healed", "healfailed"} => vstore[r.key] # "bad"
       /\ r.state \in {"valid", "healed"} => vstore[r.key] = "good" \/ r.key \in vpast.collected
  /\ r.pc = "delete" /\ vrun.fault # "flaky" => vpast.start[r.key] # "good" \/ r.key \in vpast.collected

KnowsInv == \A w \in VWorkers : Knows(vwork[w])

\* As long as the requester is there nothing is passed over: each block that was
\* counted is sound or has made the command fail.
CountInv == vrun.ctx = "live" \/ vrun.h = "ok" =>
  /\ \A w \in VWorkers : vwork[w].pc = "done" => vrun.keys = {}
  /\ vrun.seen = Cardinality(Settled(vrun.keys, vwork))
  /\ \A b \in Settled(vrun.keys, vwork) :
       /\ vstore[b] # "bad" \/ (vrun.mode = "check" /\ vrun.corrupted > 0) \/ vrun.removefailed > 0
       /\ vrun.mode = "heal" => \/ vstore[b] = "good" \/ b \in vpast.collected
                                \/ vrun.removefailed > 0 \/ vrun.healfailed > 0

\* The answer is given when all workers are done.
AnswerInv ==
  /\ vrun.results = "closed" => \A w \in VWorkers : vwork[w].pc = "done"
  /\ vrun.h = "ok" => /\ vrun.results = "closed" /\ vrun.removefailed = 0 /\ vrun.healfailed = 0
                      /\ ~(vrun.mode = "check" /\ vrun.corrupted > 0)

CheckInv == CheckTypeOK /\ HandsInv /\ KnowsInv /\ CountInv /\ AnswerInv /\ GoodKept

LEMMA CheckSafely == CheckInv => VerifySound /\ GoodKept
<1> SUFFICES ASSUME CheckInv PROVE VerifySound /\ GoodKept BY Zenon
<1>1. GoodKept BY Zenon DEF CheckInv
<1>2. SUFFICES ASSUME vrun.h = "ok"
               PROVE  /\ vrun.seen = Cardinality(VBlocks)
                      /\ \A b \in VBlocks: vstore[b] # "bad"
                      /\ vrun.mode = "heal" => \A b \in VBlocks \ vpast.collected: vstore[b] = "good"
  BY <1>1, Zenon DEF VerifySound
<1>3. \A w \in VWorkers : vwork[w].pc = "done" BY <1>2, Zenon DEF CheckInv, AnswerInv
<1>4. vrun.keys = {} BY <1>2, <1>3, BlockCmdsAssumption, Zenon DEF CheckInv, CountInv
<1>5. InHand(vwork) = {} BY <1>3, Zenon DEF InHand, Busy
<1>6. Settled(vrun.keys, vwork) = VBlocks BY <1>4, <1>5, Zenon DEF Settled
<1> QED BY <1>2, <1>6 DEF CheckInv, CountInv, AnswerInv

LEMMA CheckInitially == VerifyInit => CheckInv
<1> SUFFICES ASSUME VerifyInit PROVE CheckInv BY Zenon
<1>1. PICK mode \in {"check", "drop", "heal"}, fault \in {"none", "flaky", "refuses"} :
    /\ vstore \in [VBlocks -> {"good", "bad"}]
    /\ vrun = [mode |-> mode, fault |-> fault,
               keys |-> VBlocks, results |-> "open", h |-> "range", ctx |-> "live", seen |-> 0,
               corrupted |-> 0, removefailed |-> 0, healfailed |-> 0]
    /\ vpast = [start |-> vstore, collected |-> {}]
    /\ vwork = [w \in VWorkers |-> [pc |-> "next", key |-> "none", state |-> "none"]]
  BY Zenon DEF VerifyInit
<1>2. CheckTypeOK BY <1>1, Zenon DEF CheckTypeOK, WorkRecord
<1>3. HandsInv BY <1>1, Zenon DEF HandsInv, Busy
<1>4. KnowsInv BY <1>1, Zenon DEF KnowsInv, Knows
<1>5. Settled(vrun.keys, vwork) = {} BY <1>1, Zenon DEF Settled
<1>6. CountInv BY <1>1, <1>5, FS_EmptySet, Zenon DEF CountInv
<1>7. AnswerInv BY <1>1, Zenon DEF AnswerInv
<1>8. GoodKept BY <1>1, Zenon DEF GoodKept
<1> QED BY <1>2, <1>3, <1>4, <1>6, <1>7, <1>8, Zenon DEF CheckInv

\* A worker that goes on with its block.
LEMMA GoesOnKeeps ==
  ASSUME CheckInv, NEW w \in VWorkers, NEW r, vwork' = [vwork EXCEPT ![w] = r],
         vwork[w].pc \in Busy, r.pc \in Busy, r.key = vwork[w].key, DOMAIN r = WorkRecord,
         Knows(r)', vstore' \in [VBlocks -> {"good", "bad", "gone"}],
         \A b \in VBlocks : b # vwork[w].key => vstore'[b] = vstore[b],
         GoodKept', UNCHANGED <<vrun, vpast>>
  PROVE  CheckInv'
<1>0. vwork'[w] = r /\ \A x \in VWorkers : x # w => vwork'[x] = vwork[x] BY Zenon DEF CheckInv, CheckTypeOK
<1>1. \A x \in VWorkers : (vwork'[x].pc \in Busy <=> vwork[x].pc \in Busy) /\ (vwork[x].pc \in Busy => vwork'[x].key = vwork[x].key)
  BY <1>0, Zenon
<1>2. InHand(vwork') = InHand(vwork) BY <1>1, Zenon DEF InHand
<1>3. Settled(vrun', vwork') = Settled(vrun', vwork) BY <1>2, Zenon DEF Settled
<1>4. Settled(vrun.keys, vwork)' = Settled(vrun.keys, vwork) BY <1>2, Zenon DEF Settled
<1>5. vwork[w].key \notin Settled(vrun.keys, vwork) BY Zenon DEF Settled, InHand
<1>6. CheckTypeOK' BY <1>0, Zenon DEF CheckInv, CheckTypeOK
<1>7. HandsInv' BY <1>1, ZenonT(60) DEF CheckInv, HandsInv
<1>8. KnowsInv'
  <2>1. ASSUME NEW x \in VWorkers, x # w PROVE Knows(vwork[x])'
    <3>1. vwork[x].pc \in Busy => vwork[x].key \in VBlocks /\ vwork[x].key # vwork[w].key
      BY <2>1, Zenon DEF CheckInv, HandsInv
    <3>2. vwork[x].pc \in Busy => vstore'[vwork[x].key] = vstore[vwork[x].key] BY <3>1, Zenon
    <3>3. Knows(vwork[x]) BY Zenon DEF CheckInv, KnowsInv
    <3> QED BY <1>0, <2>1, <3>2, <3>3, ZenonT(60) DEF Knows, Busy
  <2>2. Knows(vwork[w])' BY <1>0, Zenon DEF Knows
  <2> QED BY <2>1, <2>2, Zenon DEF KnowsInv
<1>9. CountInv'
  <2>1. \A x \in VWorkers : vwork'[x].pc = "done" => vwork[x].pc = "done" BY <1>0, Zenon DEF Busy
  <2>2. \A b \in Settled(vrun.keys, vwork) : vstore'[b] = vstore[b] BY <1>5, Zenon DEF Settled
  <2> QED BY <1>4, <2>1, <2>2, ZenonT(60) DEF CheckInv, CountInv
<1>10. AnswerInv' BY Zenon DEF CheckInv, AnswerInv, Busy
<1> QED BY <1>6, <1>7, <1>8, <1>9, <1>10, Zenon DEF CheckInv

LEMMA GetKeeps == ASSUME CheckInv, NEW w \in VWorkers, GetValid(w) \/ GetFails(w) PROVE CheckInv'
<1>0. vwork[w].pc = "get" /\ UNCHANGED <<vrun, vstore, vpast>> BY Zenon DEF GetValid, GetFails
<1>1. vwork[w].key \in VBlocks /\ Knows(vwork[w]) /\ DOMAIN vwork[w] = WorkRecord
  BY <1>0, Zenon DEF CheckInv, CheckTypeOK, HandsInv, KnowsInv, Busy
<1>2. GoodKept' /\ vstore' \in [VBlocks -> {"good", "bad", "gone"}] BY <1>0, Zenon DEF CheckInv, CheckTypeOK, GoodKept
<1>3. CASE GetValid(w)
  <2>9. PICK r : r = [vwork[w] EXCEPT !.pc = "send", !.state = "valid"] BY Zenon
  <2>1. vwork' = [vwork EXCEPT ![w] = r] /\ vstore[vwork[w].key] = "good" BY <2>9, <1>3, Zenon DEF GetValid, Becomes
  <2>2. r.pc = "send" /\ r.state = "valid" /\ r.key = vwork[w].key /\ DOMAIN r = WorkRecord BY <2>9, <1>1, Zenon DEF WorkRecord
  <2>3. Knows(r)' BY <1>0, <2>1, <2>2, Zenon DEF Knows
  <2> QED BY <1>0, <1>2, <2>1, <2>2, <2>3, GoesOnKeeps, ZenonT(60) DEF Busy
<1>4. CASE GetFails(w) /\ vrun.mode # "check"
  <2>9. PICK r : r = [vwork[w] EXCEPT !.pc = "delete"] BY ZenonT(60)
  <2>1. vwork' = [vwork EXCEPT ![w] = r] /\ (vrun.fault # "flaky" => vstore[vwork[w].key] # "good")
    BY <2>9, <1>4, Zenon DEF GetFails, Becomes
  <2>2. r.pc = "delete" /\ r.key = vwork[w].key /\ DOMAIN r = WorkRecord BY <2>9, <1>1, Zenon DEF WorkRecord
  <2>4. vrun.fault # "flaky" => vpast.start[vwork[w].key] # "good" \/ vwork[w].key \in vpast.collected
    BY <1>1, <2>1, Zenon DEF CheckInv, GoodKept
  <2>3. Knows(r)' BY <1>0, <1>4, <2>1, <2>2, <2>4, Zenon DEF Knows
  <2> QED BY <1>0, <1>2, <2>1, <2>2, <2>3, GoesOnKeeps, ZenonT(60) DEF Busy
<1>5. CASE GetFails(w) /\ vrun.mode = "check"
  <2>9. PICK r : r = [vwork[w] EXCEPT !.pc = "send", !.state = "corrupt"] BY Zenon
  <2>1. vwork' = [vwork EXCEPT ![w] = r] BY <2>9, <1>5, Zenon DEF GetFails, Becomes
  <2>2. r.pc = "send" /\ r.state = "corrupt" /\ r.key = vwork[w].key /\ DOMAIN r = WorkRecord BY <2>9, <1>1, Zenon DEF WorkRecord
  <2>3. Knows(r)' BY <1>0, <1>5, <2>2, Zenon DEF Knows
  <2> QED BY <1>0, <1>2, <2>1, <2>2, <2>3, GoesOnKeeps, ZenonT(60) DEF Busy
<1> QED BY <1>3, <1>4, <1>5, Zenon

LEMMA DeleteKeeps == ASSUME CheckInv, NEW w \in VWorkers, DeleteFails(w) \/ Deletes(w) PROVE CheckInv'
<1>0. vwork[w].pc = "delete" /\ UNCHANGED <<vrun, vpast>> BY Zenon DEF DeleteFails, Deletes
<1>1. vwork[w].key \in VBlocks /\ Knows(vwork[w]) /\ DOMAIN vwork[w] = WorkRecord /\ vstore \in [VBlocks -> {"good", "bad", "gone"}]
  BY <1>0, Zenon DEF CheckInv, CheckTypeOK, HandsInv, KnowsInv, Busy
<1>3. CASE DeleteFails(w)
  <2>9. PICK r : r = [vwork[w] EXCEPT !.pc = "send", !.state = "removefailed"] BY Zenon
  <2>0. GoodKept' /\ vstore' = vstore BY <1>0, <1>3, Zenon DEF CheckInv, GoodKept, DeleteFails
  <2>1. vwork' = [vwork EXCEPT ![w] = r] BY <2>9, <1>3, Zenon DEF DeleteFails, Becomes
  <2>2. r.pc = "send" /\ r.state = "removefailed" /\ r.key = vwork[w].key /\ DOMAIN r = WorkRecord BY <2>9, <1>1, Zenon DEF WorkRecord
  <2>3. Knows(r)' BY <1>0, <2>2, Zenon DEF Knows
  <2> QED BY <1>0, <1>1, <2>0, <2>1, <2>2, <2>3, GoesOnKeeps, ZenonT(60) DEF Busy
<1>4. CASE Deletes(w)
  <2>0. vstore' = [vstore EXCEPT ![vwork[w].key] = "gone"] BY <1>4, Zenon DEF Deletes
  <2>4. /\ vstore' \in [VBlocks -> {"good", "bad", "gone"}] /\ vstore'[vwork[w].key] = "gone"
        /\ \A b \in VBlocks : b # vwork[w].key => vstore'[b] = vstore[b]
    BY <1>1, <2>0, Zenon
  <2>5. GoodKept'
    <3>1. vrun.fault # "flaky" => vpast.start[vwork[w].key] # "good" \/ vwork[w].key \in vpast.collected
      BY <1>0, <1>1, Zenon DEF Knows
    <3> QED BY <1>0, <2>4, <3>1, Zenon DEF CheckInv, GoodKept
  <2>6. CASE vrun.mode = "heal"
    <3>9. PICK r : r = [vwork[w] EXCEPT !.pc = "heal"] BY ZenonT(60)
    <3>1. vwork' = [vwork EXCEPT ![w] = r] BY <3>9, <1>4, <2>6, Zenon DEF Deletes, Becomes
    <3>2. r.pc = "heal" /\ r.key = vwork[w].key /\ DOMAIN r = WorkRecord BY <3>9, <1>1, Zenon DEF WorkRecord
    <3>3. Knows(r)' BY <1>0, <2>4, <2>6, <3>2, Zenon DEF Knows
    <3> QED BY <1>0, <2>4, <2>5, <3>1, <3>2, <3>3, GoesOnKeeps, ZenonT(60) DEF Busy
  <2>7. CASE vrun.mode # "heal"
    <3>9. PICK r : r = [vwork[w] EXCEPT !.pc = "send", !.state = "removed"] BY Zenon
    <3>1. vwork' = [vwork EXCEPT ![w] = r] BY <3>9, <1>4, <2>7, Zenon DEF Deletes, Becomes
    <3>2. r.pc = "send" /\ r.state = "removed" /\ r.key = vwork[w].key /\ DOMAIN r = WorkRecord BY <3>9, <1>1, Zenon DEF WorkRecord
    <3>3. Knows(r)' BY <1>0, <2>4, <2>7, <3>2, Zenon DEF Knows
    <3> QED BY <1>0, <2>4, <2>5, <3>1, <3>2, <3>3, GoesOnKeeps, ZenonT(60) DEF Busy
  <2> QED BY <2>6, <2>7, Zenon
<1> QED BY <1>3, <1>4, Zenon

LEMMA HealKeeps == ASSUME CheckInv, NEW w \in VWorkers, Heals(w) \/ HealFails(w) PROVE CheckInv'
<1>0. vwork[w].pc = "heal" /\ UNCHANGED <<vrun, vpast>> BY Zenon DEF Heals, HealFails
<1>1. vwork[w].key \in VBlocks /\ Knows(vwork[w]) /\ DOMAIN vwork[w] = WorkRecord /\ vstore \in [VBlocks -> {"good", "bad", "gone"}]
  BY <1>0, Zenon DEF CheckInv, CheckTypeOK, HandsInv, KnowsInv, Busy
<1>3. CASE HealFails(w)
  <2>9. PICK r : r = [vwork[w] EXCEPT !.pc = "send", !.state = "healfailed"] BY Zenon
  <2>0. GoodKept' /\ vstore' = vstore BY <1>0, <1>3, Zenon DEF CheckInv, GoodKept, HealFails
  <2>1. vwork' = [vwork EXCEPT ![w] = r] BY <2>9, <1>3, Zenon DEF HealFails, Becomes
  <2>2. r.pc = "send" /\ r.state = "healfailed" /\ r.key = vwork[w].key /\ DOMAIN r = WorkRecord BY <2>9, <1>1, Zenon DEF WorkRecord
  <2>3. Knows(r)' BY <1>0, <1>1, <2>0, <2>2, Zenon DEF Knows
  <2> QED BY <1>0, <1>1, <2>0, <2>1, <2>2, <2>3, GoesOnKeeps, ZenonT(60) DEF Busy
<1>4. CASE Heals(w)
  <2>9. PICK r : r = [vwork[w] EXCEPT !.pc = "send", !.state = "healed"] BY Zenon
  <2>0. vstore' = [vstore EXCEPT ![vwork[w].key] = "good"] BY <1>4, Zenon DEF Heals
  <2>4. /\ vstore' \in [VBlocks -> {"good", "bad", "gone"}] /\ vstore'[vwork[w].key] = "good"
        /\ \A b \in VBlocks : b # vwork[w].key => vstore'[b] = vstore[b]
    BY <1>1, <2>0, Zenon
  <2>5. GoodKept' BY <1>0, <2>4, Zenon DEF CheckInv, GoodKept
  <2>1. vwork' = [vwork EXCEPT ![w] = r] BY <2>9, <1>4, Zenon DEF Heals, Becomes
  <2>2. r.pc = "send" /\ r.state = "healed" /\ r.key = vwork[w].key /\ DOMAIN r = WorkRecord BY <2>9, <1>1, Zenon DEF WorkRecord
  <2>3. Knows(r)' BY <1>0, <2>4, <2>2, Zenon DEF Knows
  <2> QED BY <1>0, <2>4, <2>5, <2>1, <2>2, <2>3, GoesOnKeeps, ZenonT(60) DEF Busy
<1> QED BY <1>3, <1>4, Zenon

\* A worker takes the next key: neither set of keys gains or loses a settled one.
LEMMA TakesKeeps == ASSUME CheckInv, NEW w \in VWorkers, WorkerTakes(w) PROVE CheckInv'
<1>0. PICK k \in vrun.keys : /\ vwork' = [vwork EXCEPT ![w] = [pc |-> "get", key |-> k, state |-> "none"]]
                             /\ vrun' = [vrun EXCEPT !.keys = @ \ {k}]
  BY ZenonT(60) DEF WorkerTakes, Becomes
<1>1. vwork[w].pc = "next" /\ UNCHANGED <<vstore, vpast>> BY Zenon DEF WorkerTakes
<1>2. PICK r : r = [pc |-> "get", key |-> k, state |-> "none"] BY ZenonT(60)
<1>3. r.pc = "get" /\ r.key = k /\ DOMAIN r = WorkRecord BY <1>2, Zenon DEF WorkRecord
<1>4. DOMAIN vwork' = VWorkers /\ vwork'[w] = r /\ \A x \in VWorkers : x # w => vwork'[x] = vwork[x]
  BY <1>0, <1>2, Zenon DEF CheckInv, CheckTypeOK
<1>5. /\ vrun'.keys = vrun.keys \ {k} /\ vrun'.mode = vrun.mode /\ vrun'.fault = vrun.fault /\ vrun'.ctx = vrun.ctx
      /\ vrun'.h = vrun.h /\ vrun'.results = vrun.results /\ vrun'.seen = vrun.seen /\ vrun'.corrupted = vrun.corrupted
      /\ vrun'.removefailed = vrun.removefailed /\ vrun'.healfailed = vrun.healfailed /\ DOMAIN vrun' = DOMAIN vrun
      /\ k \in VBlocks
  BY <1>0, Zenon DEF CheckInv, CheckTypeOK
<1>6. InHand(vwork') = InHand(vwork) \cup {k} BY <1>1, <1>3, <1>4 DEF InHand, Busy
<1>7. Settled(vrun.keys, vwork)' = Settled(vrun.keys, vwork) BY <1>5, <1>6, Zenon DEF Settled
<1>8. CheckTypeOK' BY <1>1, <1>3, <1>4, <1>5, Zenon DEF CheckInv, CheckTypeOK, Busy
<1>9. HandsInv' BY <1>1, <1>3, <1>4, <1>5 DEF CheckInv, HandsInv, Busy
<1>10. KnowsInv'
  <2>1. Knows(r)' BY <1>3, Zenon DEF Knows
  <2>2. ASSUME NEW x \in VWorkers, x # w PROVE Knows(vwork[x])'
    <3>1. vwork'[x] = vwork[x] /\ Knows(vwork[x]) BY <1>4, <2>2, Zenon DEF CheckInv, KnowsInv
    <3> QED BY <1>1, <1>5, <3>1, Zenon DEF Knows
  <2> QED BY <1>4, <2>1, <2>2, Zenon DEF KnowsInv
<1>11. CountInv' BY <1>1, <1>3, <1>4, <1>5, <1>7, ZenonT(60) DEF CheckInv, CountInv
<1>12. AnswerInv' BY <1>1, <1>3, <1>4, <1>5, ZenonT(60) DEF CheckInv, AnswerInv
<1>13. GoodKept' BY <1>1, <1>5, Zenon DEF CheckInv, GoodKept
<1> QED BY <1>8, <1>9, <1>10, <1>11, <1>12, <1>13, Zenon DEF CheckInv

LEMMA EndsWorkKeeps == ASSUME CheckInv, NEW w \in VWorkers, WorkerEnds(w) PROVE CheckInv'
<1>1. vwork[w].pc = "next" /\ vrun.keys = {} /\ UNCHANGED <<vrun, vstore, vpast>> BY Zenon DEF WorkerEnds
<1>2. PICK r : r = [pc |-> "done", key |-> "none", state |-> "none"] BY ZenonT(60)
<1>3. r.pc = "done" /\ DOMAIN r = WorkRecord BY <1>2, Zenon DEF WorkRecord
<1>4. DOMAIN vwork' = VWorkers /\ vwork'[w] = r /\ \A x \in VWorkers : x # w => vwork'[x] = vwork[x]
  BY <1>2, Zenon DEF CheckInv, CheckTypeOK, WorkerEnds, Becomes
<1>6. InHand(vwork') = InHand(vwork) BY <1>1, <1>3, <1>4 DEF InHand, Busy
<1>7. Settled(vrun.keys, vwork)' = Settled(vrun.keys, vwork) BY <1>1, <1>6, Zenon DEF Settled
<1>8. CheckTypeOK' BY <1>1, <1>3, <1>4, Zenon DEF CheckInv, CheckTypeOK, Busy
<1>9. HandsInv' BY <1>1, <1>3, <1>4, ZenonT(60) DEF CheckInv, HandsInv, Busy
<1>10. KnowsInv' BY <1>1, <1>3, <1>4, ZenonT(60) DEF CheckInv, KnowsInv, Knows
<1>11. CountInv' BY <1>1, <1>3, <1>4, <1>7, Zenon DEF CheckInv, CountInv
<1>12. AnswerInv' BY <1>1, <1>3, <1>4, ZenonT(60) DEF CheckInv, AnswerInv
<1>13. GoodKept' BY <1>1, Zenon DEF CheckInv, GoodKept
<1> QED BY <1>8, <1>9, <1>10, <1>11, <1>12, <1>13, Zenon DEF CheckInv

\* The handler counts a result: the key of the worker is settled from now on.
LEMMA SendKeeps == ASSUME CheckInv, NEW w \in VWorkers, SendResult(w) PROVE CheckInv'
<1>1. vwork[w].pc = "send" /\ vrun.h = "range" /\ UNCHANGED <<vstore, vpast>> BY Zenon DEF SendResult
<1>2. PICK r : r = [pc |-> "next", key |-> "none", state |-> "none"] BY ZenonT(60)
<1>3. r.pc = "next" /\ DOMAIN r = WorkRecord BY <1>2, Zenon DEF WorkRecord
<1>4. DOMAIN vwork' = VWorkers /\ vwork'[w] = r /\ \A x \in VWorkers : x # w => vwork'[x] = vwork[x]
  BY <1>2, Zenon DEF CheckInv, CheckTypeOK, SendResult, Becomes
<1>5. PICK k, st : k = vwork[w].key /\ st = vwork[w].state BY Zenon
<1>k. k \in VBlocks \ vrun.keys /\ Knows(vwork[w]) BY <1>1, <1>5, Zenon DEF CheckInv, HandsInv, KnowsInv, Busy
<1>v. /\ vrun'.keys = vrun.keys /\ vrun'.mode = vrun.mode /\ vrun'.fault = vrun.fault /\ vrun'.ctx = vrun.ctx
      /\ vrun'.h = vrun.h /\ vrun'.results = vrun.results /\ vrun'.seen = vrun.seen + 1
      /\ vrun'.corrupted = vrun.corrupted + (IF st = "valid" THEN 0 ELSE 1)
      /\ vrun'.removefailed = vrun.removefailed + (IF st = "removefailed" THEN 1 ELSE 0)
      /\ vrun'.healfailed = vrun.healfailed + (IF st = "healfailed" THEN 1 ELSE 0) /\ DOMAIN vrun' = DOMAIN vrun
  BY <1>5, Zenon DEF CheckInv, CheckTypeOK, SendResult, Counted
<1>c. /\ vrun.corrupted \in Nat /\ vrun.removefailed \in Nat /\ vrun.healfailed \in Nat /\ vrun.seen \in Nat
  BY Zenon DEF CheckInv, CheckTypeOK
<1>6. InHand(vwork') = InHand(vwork) \ {k}
  <2>1. \A x \in VWorkers : vwork'[x].pc \in Busy <=> vwork[x].pc \in Busy /\ x # w BY <1>3, <1>4, Zenon DEF Busy
  <2>2. \A x \in VWorkers : x # w /\ vwork[x].pc \in Busy => vwork'[x].key = vwork[x].key /\ vwork[x].key # k
    BY <1>1, <1>4, <1>5, Zenon DEF CheckInv, HandsInv, Busy
  <2>3. ASSUME NEW b \in InHand(vwork') PROVE b \in InHand(vwork) \ {k} BY <2>1, <2>2, Zenon DEF InHand
  <2>4. ASSUME NEW b \in InHand(vwork) \ {k} PROVE b \in InHand(vwork') BY <1>5, <2>1, <2>2, Zenon DEF InHand
  <2> QED BY <2>3, <2>4, Zenon
<1>t. k \in InHand(vwork) BY <1>1, <1>5, Zenon DEF InHand, Busy
<1>7. Settled(vrun.keys, vwork)' = Settled(vrun.keys, vwork) \cup {k} /\ k \notin Settled(vrun.keys, vwork)
  BY <1>6, <1>t, <1>k, <1>v, Zenon DEF Settled
<1>f. Cardinality(Settled(vrun.keys, vwork)') = Cardinality(Settled(vrun.keys, vwork)) + 1
  <2>1. IsFiniteSet(Settled(vrun.keys, vwork)) BY BlockCmdsAssumption, FS_Subset, Zenon DEF Settled
  <2> QED BY <2>1, <1>7, FS_AddElement, ZenonT(60)
<1>8. CheckTypeOK'
  <2>1. vrun'.seen \in Nat /\ vrun'.corrupted \in Nat /\ vrun'.removefailed \in Nat /\ vrun'.healfailed \in Nat
    <3>1. \A n \in Nat : n + 1 \in Nat /\ n + 0 \in Nat OBVIOUS
    <3> QED BY <1>v, <1>c, <3>1, ZenonT(60)
  <2>2. CheckTypeOK BY Zenon DEF CheckInv
  <2> QED BY <1>1, <1>3, <1>4, <1>v, <2>1, <2>2, ZenonT(60) DEF CheckTypeOK
<1>9. HandsInv' BY <1>1, <1>3, <1>4, <1>v, ZenonT(60) DEF CheckInv, HandsInv, Busy
<1>10. KnowsInv'
  <2>1. Knows(r)' BY <1>3, Zenon DEF Knows
  <2>2. ASSUME NEW x \in VWorkers, x # w PROVE Knows(vwork[x])'
    <3>1. vwork'[x] = vwork[x] /\ Knows(vwork[x]) BY <1>4, <2>2, Zenon DEF CheckInv, KnowsInv
    <3> QED BY <1>1, <1>v, <3>1, Zenon DEF Knows
  <2> QED BY <1>4, <2>1, <2>2, Zenon DEF KnowsInv
<1>11. CountInv'
  <2>1. SUFFICES ASSUME vrun.ctx = "live" PROVE CountInv' BY <1>1, <1>v, Zenon DEF CountInv
  <2>2. \A x \in VWorkers : vwork'[x].pc = "done" => vrun'.keys = {} BY <1>3, <1>4, <1>v, <2>1, Zenon DEF CheckInv, CountInv
  <2>3. vrun'.seen = Cardinality(Settled(vrun.keys, vwork)') BY <1>v, <1>f, <2>1, Zenon DEF CheckInv, CountInv
  <2>4. ASSUME NEW b \in Settled(vrun.keys, vwork)
        PROVE  /\ vstore[b] # "bad" \/ (vrun'.mode = "check" /\ vrun'.corrupted > 0) \/ vrun'.removefailed > 0
               /\ vrun'.mode = "heal" => \/ vstore[b] = "good" \/ b \in vpast.collected
                                         \/ vrun'.removefailed > 0 \/ vrun'.healfailed > 0
    BY <1>v, <1>c, <2>1, SMTT(60) DEF CheckInv, CountInv
  <2>5. /\ vstore[k] # "bad" \/ (vrun'.mode = "check" /\ vrun'.corrupted > 0) \/ vrun'.removefailed > 0
        /\ vrun'.mode = "heal" => \/ vstore[k] = "good" \/ k \in vpast.collected
                                  \/ vrun'.removefailed > 0 \/ vrun'.healfailed > 0
    BY <1>1, <1>5, <1>k, <1>v, <1>c DEF Knows
  <2> QED BY <1>1, <1>7, <2>2, <2>3, <2>4, <2>5, ZenonT(60) DEF CountInv
<1>12. AnswerInv' BY <1>1, <1>3, <1>4, <1>v, Zenon DEF CheckInv, AnswerInv
<1>13. GoodKept' BY <1>1, <1>v, Zenon DEF CheckInv, GoodKept
<1> QED BY <1>8, <1>9, <1>10, <1>11, <1>12, <1>13, Zenon DEF CheckInv

LEMMA GivesUpKeeps == ASSUME CheckInv, NEW w \in VWorkers, SendGivesUp(w) PROVE CheckInv'
<1>1. vwork[w].pc = "send" /\ vrun.ctx = "done" /\ UNCHANGED <<vrun, vstore, vpast>> BY Zenon DEF SendGivesUp
<1>2. PICK r : r = [vwork[w] EXCEPT !.pc = "done"] BY ZenonT(60)
<1>3. r.pc = "done" /\ DOMAIN r = WorkRecord BY <1>2, Zenon DEF WorkRecord, CheckInv, CheckTypeOK
<1>4. DOMAIN vwork' = VWorkers /\ vwork'[w] = r /\ \A x \in VWorkers : x # w => vwork'[x] = vwork[x]
  BY <1>2, Zenon DEF CheckInv, CheckTypeOK, SendGivesUp, Becomes
<1>8. CheckTypeOK' BY <1>1, <1>3, <1>4, Zenon DEF CheckInv, CheckTypeOK, Busy
<1>9. HandsInv' BY <1>1, <1>3, <1>4, ZenonT(60) DEF CheckInv, HandsInv, Busy
<1>10. KnowsInv' BY <1>1, <1>3, <1>4, ZenonT(60) DEF CheckInv, KnowsInv, Knows
<1>11. CountInv' BY <1>1, ZenonT(60) DEF CheckInv, CountInv, AnswerInv
<1>12. AnswerInv' BY <1>1, <1>3, <1>4, Zenon DEF CheckInv, AnswerInv
<1>13. GoodKept' BY <1>1, Zenon DEF CheckInv, GoodKept
<1> QED BY <1>8, <1>9, <1>10, <1>11, <1>12, <1>13, Zenon DEF CheckInv

\* The handler and the requester touch no block.
LEMMA HandlerKeeps ==
  ASSUME CheckInv, ResultsClose \/ VerifyReturns \/ VerifyEmitFails \/ VerifyClientLeaves
  PROVE  CheckInv'
<1>1. UNCHANGED <<vwork, vstore, vpast>>
  BY Zenon DEF ResultsClose, VerifyReturns, VerifyEmitFails, VerifyClientLeaves
<1>2. /\ DOMAIN vrun' = DOMAIN vrun /\ vrun'.mode = vrun.mode /\ vrun'.fault = vrun.fault /\ vrun'.keys = vrun.keys
      /\ vrun'.seen = vrun.seen /\ vrun'.corrupted = vrun.corrupted /\ vrun'.removefailed = vrun.removefailed
      /\ vrun'.healfailed = vrun.healfailed
  BY ZenonT(60) DEF CheckInv, CheckTypeOK, ResultsClose, VerifyReturns, VerifyEmitFails, VerifyClientLeaves
<1>3. /\ vrun'.ctx \in {"live", "done"} /\ (vrun'.ctx = "live" => vrun.ctx = "live")
      /\ vrun'.h = "ok" => vrun.h = "ok" \/ (vrun.ctx = "live" /\ vrun.results = "closed" /\ ~VerifyFails(vrun))
      /\ vrun'.results = "closed" => vrun.results = "closed" \/ \A w \in VWorkers : vwork[w].pc = "done"
      /\ vrun.results = "closed" => vrun'.results = "closed"
  BY ZenonT(60) DEF CheckInv, CheckTypeOK, ResultsClose, VerifyReturns, VerifyEmitFails, VerifyClientLeaves, VerifyFails
<1>4. CheckTypeOK' BY <1>1, <1>2, <1>3, Zenon DEF CheckInv, CheckTypeOK
<1>5. HandsInv' BY <1>1, <1>2, Zenon DEF CheckInv, HandsInv
<1>6. KnowsInv' BY <1>1, <1>2, Zenon DEF CheckInv, KnowsInv, Knows
<1>7. CountInv'
  <2>1. Settled(vrun.keys, vwork)' = Settled(vrun.keys, vwork) BY <1>1, <1>2, Zenon DEF Settled, InHand
  <2> QED BY <1>1, <1>2, <1>3, <2>1, Zenon DEF CheckInv, CountInv
<1>8. AnswerInv'
  <2>1. /\ vrun.corrupted \in Nat /\ vrun.removefailed \in Nat /\ vrun.healfailed \in Nat BY Zenon DEF CheckInv, CheckTypeOK
  <2> QED BY <1>1, <1>2, <1>3, <2>1 DEF CheckInv, AnswerInv, VerifyFails
<1>9. GoodKept' BY <1>1, <1>2, Zenon DEF CheckInv, GoodKept
<1> QED BY <1>4, <1>5, <1>6, <1>7, <1>8, <1>9, Zenon DEF CheckInv

LEMMA CollectedKeeps == ASSUME CheckInv, VerifyCollected PROVE CheckInv'
<1>0. PICK b \in VBlocks : vstore' = [vstore EXCEPT ![b] = "gone"] /\ vpast' = [vpast EXCEPT !.collected = {b}]
  BY ZenonT(60) DEF VerifyCollected
<1>1. vrun.h = "range" /\ vpast.collected = {} /\ UNCHANGED <<vrun, vwork>> BY Zenon DEF VerifyCollected
<1>2. vpast'.start = vpast.start /\ vpast'.collected = {b} /\ DOMAIN vpast' = DOMAIN vpast
  BY <1>0, Zenon DEF CheckInv, CheckTypeOK
<1>3. /\ vstore' \in [VBlocks -> {"good", "bad", "gone"}] /\ vstore'[b] = "gone"
      /\ \A c \in VBlocks : c # b => vstore'[c] = vstore[c]
  BY <1>0, Zenon DEF CheckInv, CheckTypeOK
<1>4. CheckTypeOK' BY <1>1, <1>2, <1>3, Zenon DEF CheckInv, CheckTypeOK
<1>5. HandsInv' BY <1>1, Zenon DEF CheckInv, HandsInv
<1>6. KnowsInv'
  <2>1. ASSUME NEW w \in VWorkers PROVE Knows(vwork[w])'
    <3>1. Knows(vwork[w]) /\ (vwork[w].pc \in Busy => vwork[w].key \in VBlocks) BY Zenon DEF CheckInv, KnowsInv, HandsInv
    <3> QED BY <1>1, <1>2, <1>3, <3>1, Zenon DEF Knows, Busy
  <2> QED BY <2>1, Zenon DEF KnowsInv
<1>7. CountInv'
  <2>1. Settled(vrun.keys, vwork)' = Settled(vrun.keys, vwork) BY <1>1, ZenonT(60) DEF Settled, InHand
  <2>2. Settled(vrun.keys, vwork) \subseteq VBlocks BY Zenon DEF Settled
  <2> QED BY <1>1, <1>2, <1>3, <2>1, <2>2, ZenonT(60) DEF CheckInv, CountInv
<1>8. AnswerInv' BY <1>1, ZenonT(60) DEF CheckInv, AnswerInv
<1>9. GoodKept' BY <1>1, <1>2, <1>3 DEF CheckInv, GoodKept
<1> QED BY <1>4, <1>5, <1>6, <1>7, <1>8, <1>9, Zenon DEF CheckInv

LEMMA CheckStutters == ASSUME CheckInv, UNCHANGED verifyvars PROVE CheckInv'
<1>1. vrun' = vrun /\ vwork' = vwork /\ vstore' = vstore /\ vpast' = vpast BY Zenon DEF verifyvars
<1>2. Settled(vrun.keys, vwork)' = Settled(vrun.keys, vwork) BY <1>1, Zenon DEF Settled, InHand
<1>3. CheckTypeOK' BY <1>1, Zenon DEF CheckInv, CheckTypeOK
<1>4. HandsInv' BY <1>1, Zenon DEF CheckInv, HandsInv
<1>5. KnowsInv' BY <1>1, Zenon DEF CheckInv, KnowsInv, Knows
<1>6. CountInv' BY <1>1, <1>2, Zenon DEF CheckInv, CountInv
<1>7. AnswerInv' BY <1>1, Zenon DEF CheckInv, AnswerInv
<1>8. GoodKept' BY <1>1, Zenon DEF CheckInv, GoodKept
<1> QED BY <1>3, <1>4, <1>5, <1>6, <1>7, <1>8, Zenon DEF CheckInv

LEMMA CheckInductive == CheckInv /\ [VerifyNext]_verifyvars => CheckInv'
<1> SUFFICES ASSUME CheckInv, [VerifyNext]_verifyvars PROVE CheckInv' BY Zenon
<1>1. ASSUME NEW w \in VWorkers, VerifyWorks(w) PROVE CheckInv'
  BY <1>1, TakesKeeps, EndsWorkKeeps, GetKeeps, DeleteKeeps, HealKeeps, SendKeeps, GivesUpKeeps, Zenon DEF VerifyWorks
<1> QED BY <1>1, HandlerKeeps, CollectedKeeps, CheckStutters, Zenon DEF VerifyNext, VerifySteps

\* What `ipfs block put`, `block rm`, `filestore verify` (core/commands/block.go,
\* filestore.go), `repo verify` and `repo gc` (core/commands/repo.go) promise, for any
\* blocks, workers and arguments and any order of their steps: a pinned block is in the
\* store; block rm says success only when every argument was removed, and prints just
\* those; filestore verify prints a removal exactly for what was removed; repo verify
\* answers ok only when every block was accounted for and none is left corrupt, and
\* loses no good block while the datastore reads reliably; and repo gc says success
\* only when its collection reported no error.
THEOREM BlocksAreSafe == BlockCmdsSpec => []BlocksSafe
<1> DEFINE Inv == BlockInv /\ CheckInv /\ GcInv
<1>1. BlockInit /\ VerifyInit /\ GcInit => Inv BY BlockInitially, CheckInitially, GcInitially, Zenon
<1>2. Inv /\ [\/ BlockNext /\ UNCHANGED <<verifyvars, gcrun>>
              \/ VerifyNext /\ UNCHANGED <<blockvars, gcrun>>
              \/ GcNext /\ UNCHANGED <<blockvars, verifyvars>>]_<<blockvars, verifyvars, gcrun>> => Inv'
  BY BlockInductive, CheckInductive, GcInductive, Zenon
<1>3. Inv => BlocksSafe BY BlockSafely, CheckSafely, GcSafely, Zenon DEF BlocksSafe
<1> QED BY <1>1, <1>2, <1>3, PTL DEF BlockCmdsSpec

-----------------------------------------------------------------------------
(* add: the handler, the goroutine it starts and the client's bar           *)

AddTypeOK ==
  /\ aopt.n \in 0..AArgs /\ aopt.pin \in BOOLEAN /\ aopt.mfs \in {"no", "dir", "file"}
  /\ DOMAIN ah = {"at", "entry", "emitted", "res", "conn"}
  /\ ah.at \in {"next", "recv", "done"} /\ ah.entry \in 0..aopt.n /\ ah.emitted \in Nat /\ ah.conn \in BOOLEAN
  /\ DOMAIN ag = {"at", "sent", "files", "outer", "inner"}
  /\ ag.at \in {"start", "open", "add", "paused", "link", "unwind", "close", "off"} /\ ag.sent \in 0..AEvents
  /\ ag.outer \in BOOLEAN /\ ag.inner \in BOOLEAN
  /\ DOMAIN ach = {"buf", "closed", "err"}
  /\ ach.buf \in Seq(Nat) /\ ach.closed \in BOOLEAN /\ ach.err \in {"empty", "err", "nil"}
  /\ DOMAIN adone = {"pinned", "linked"}

\* The first e arguments are pinned and linked, as far as the request asks for it.
PinnedTo(e) == aopt.pin => adone.pinned = 1..e
LinkedTo(e) == aopt.mfs # "no" => adone.linked = 1..e

\* The goroutine: what it still has, and when it has answered.
GoInv ==
  /\ ach.closed <=> ag.at = "off"
  /\ ag.at \in {"link", "unwind", "close", "off"} => ~ag.inner
  /\ ag.at \in {"close", "off"} => ~ag.outer
  /\ ach.err # "empty" => ag.at \in {"unwind", "close", "off"}

\* An argument on its way.
RecvInv == ah.at = "recv" =>
  /\ ah.entry >= 1
  /\ ah.emitted + Len(ach.buf) = (ah.entry - 1) * AEvents + ag.sent
  /\ ag.at \in {"start", "open", "add", "paused"} => PinnedTo(ah.entry - 1) /\ LinkedTo(ah.entry - 1)
  /\ ag.at = "link" => ag.sent = AEvents /\ PinnedTo(ah.entry) /\ LinkedTo(ah.entry - 1)
  /\ ach.err = "nil" => ag.sent = AEvents /\ PinnedTo(ah.entry) /\ LinkedTo(ah.entry)

\* Between two arguments, and at the end.
RestInv ==
  /\ ah.at = "next" => /\ ag.at = "off" /\ PinnedTo(ah.entry) /\ LinkedTo(ah.entry)
                       /\ ah.emitted = ah.entry * AEvents
  /\ ah.at # "done" => ah.res = "unset"
  /\ ah.res # "unset" /\ ah.res # "emit" => ag.at = "off"
  /\ ah.res = "ok" => PinnedTo(aopt.n) /\ LinkedTo(aopt.n) /\ ah.emitted = aopt.n * AEvents

OneLinked == aopt.mfs = "file" => adone.linked = {} \/ \E x \in Nat : adone.linked = {x}

RunInv == AddTypeOK /\ GoInv /\ RecvInv /\ RestInv /\ OneLinked

LEMMA RunInitially == AddInit => RunInv
<1> SUFFICES ASSUME AddInit PROVE RunInv BY Zenon
<1>1. aopt \in [n : 0..AArgs, pin : BOOLEAN, mfs : {"no", "dir", "file"}] BY Zenon DEF AddInit
<1>2. aopt.n \in 0..AArgs /\ aopt.pin \in BOOLEAN /\ aopt.mfs \in {"no", "dir", "file"} BY <1>1, Zenon
<1>3. /\ DOMAIN ah = {"at", "entry", "emitted", "res", "conn"} /\ ah.at = "next" /\ ah.entry = 0
      /\ ah.emitted = 0 /\ ah.res = "unset" /\ ah.conn = TRUE
  BY ZenonT(60) DEF AddInit
<1>4. /\ DOMAIN ag = {"at", "sent", "files", "outer", "inner"} /\ ag.at = "off" /\ ag.sent = 0
      /\ ag.outer = FALSE /\ ag.inner = FALSE
  BY ZenonT(60) DEF AddInit
<1>5. DOMAIN ach = {"buf", "closed", "err"} /\ ach.buf = <<>> /\ ach.closed = TRUE /\ ach.err = "empty"
  BY ZenonT(60) DEF AddInit
<1>6. DOMAIN adone = {"pinned", "linked"} /\ adone.pinned = {} /\ adone.linked = {} BY ZenonT(60) DEF AddInit
<1>7. {} = 1..0 /\ 0 * AEvents = 0 /\ 0 \in 0..AEvents /\ 0 \in 0..aopt.n /\ 0 \in Nat /\ <<>> \in Seq(Nat)
  BY <1>2, AddAssumption
<1>8. AddTypeOK BY <1>2, <1>3, <1>4, <1>5, <1>6, <1>7, ZenonT(60) DEF AddTypeOK
<1>9. GoInv /\ RecvInv BY <1>3, <1>4, <1>5, ZenonT(60) DEF GoInv, RecvInv
<1>10. RestInv BY <1>3, <1>4, <1>6, <1>7, ZenonT(60) DEF RestInv, PinnedTo, LinkedTo
<1>11. OneLinked BY <1>6, Zenon DEF OneLinked
<1> QED BY <1>8, <1>9, <1>10, <1>11, Zenon DEF RunInv

LEMMA SafelyRun == RunInv => AddWhole /\ AddLeavesNothing
<1> SUFFICES ASSUME RunInv PROVE AddWhole /\ AddLeavesNothing BY Zenon
<1>1. aopt.mfs = "file" => Cardinality(adone.linked) <= 1
  <2>1. Cardinality({}) = 0 BY FS_EmptySet, Zenon
  <2>2. ASSUME NEW x \in Nat PROVE Cardinality({x}) = 1 BY FS_Singleton, Zenon
  <2> QED BY <2>1, <2>2 DEF RunInv, OneLinked
<1>2. AddWhole BY <1>1, Zenon DEF RunInv, RestInv, AddWhole, PinnedTo, LinkedTo
<1>3. AddLeavesNothing BY Zenon DEF RunInv, RestInv, GoInv, AddLeavesNothing, PinHeld
<1> QED BY <1>2, <1>3, Zenon

\* Steps of the goroutine that change nothing but itself.
LEMMA LocalKeeps ==
  ASSUME RunInv, GStarts \/ GOpens \/ GPauses \/ GLinkLocks \/ (GUnwinds /\ ag.at = "unwind")
  PROVE  RunInv'
<1>0. UNCHANGED <<aopt, ah, ach, adone>> BY Zenon DEF GStarts, GOpens, GPauses, GLinkLocks, GUnwinds
<1>1. /\ DOMAIN ag' = DOMAIN ag /\ ag'.sent = ag.sent /\ ag'.outer \in BOOLEAN /\ ag'.inner \in BOOLEAN
      /\ \/ /\ ag.at \in {"start", "open", "add", "paused"} /\ ag'.at \in {"start", "open", "add", "paused"}
         \/ /\ ag.at = "link" /\ ag'.at = "link" /\ ag'.inner = ag.inner
         \/ /\ ag.at = "unwind" /\ ag'.at = "close" /\ ag'.outer = FALSE /\ ag'.inner = ag.inner
  <2>1. CASE GStarts BY <2>1, ZenonT(60) DEF RunInv, AddTypeOK, GStarts, GTo
  <2>2. CASE GOpens BY <2>2, ZenonT(60) DEF RunInv, AddTypeOK, GOpens, GTo
  <2>3. CASE GPauses BY <2>3, ZenonT(60) DEF RunInv, AddTypeOK, GPauses
  <2>4. CASE GLinkLocks BY <2>4, Zenon DEF RunInv, AddTypeOK, GLinkLocks
  <2>5. CASE GUnwinds /\ ag.at = "unwind" BY <2>5, ZenonT(60) DEF RunInv, AddTypeOK, GUnwinds, GTo
  <2> QED BY <2>1, <2>2, <2>3, <2>4, <2>5, ZenonT(60)
<1>2. AddTypeOK' BY <1>0, <1>1 DEF RunInv, AddTypeOK
<1>3. GoInv' BY <1>0, <1>1, Zenon DEF RunInv, GoInv, AddTypeOK
<1>4. RecvInv' BY <1>0, <1>1, Zenon DEF RunInv, GoInv, RecvInv, PinnedTo, LinkedTo
<1>5. RestInv' BY <1>0, <1>1, Zenon DEF RunInv, RestInv, PinnedTo, LinkedTo
<1>6. OneLinked' BY <1>0, Zenon DEF RunInv, OneLinked
<1> QED BY <1>2, <1>3, <1>4, <1>5, <1>6, Zenon DEF RunInv

LEMMA ClosesKeeps == ASSUME RunInv, GUnwinds, ag.at # "unwind" PROVE RunInv'
<1>0. UNCHANGED <<aopt, ah, adone>> /\ ag.at = "close" BY Zenon DEF GUnwinds
<1>1. /\ DOMAIN ag' = DOMAIN ag /\ ag'.sent = ag.sent /\ ag'.outer = ag.outer /\ ag'.inner = ag.inner /\ ag'.at = "off"
      /\ DOMAIN ach' = DOMAIN ach /\ ach'.buf = ach.buf /\ ach'.err = ach.err /\ ach'.closed = TRUE
  BY <1>0, ZenonT(60) DEF RunInv, AddTypeOK, GUnwinds, GTo
<1>2. AddTypeOK' BY <1>0, <1>1, ZenonT(60) DEF RunInv, AddTypeOK
<1>3. GoInv' BY <1>0, <1>1, Zenon DEF RunInv, GoInv, AddTypeOK
<1>4. RecvInv' BY <1>0, <1>1, Zenon DEF RunInv, RecvInv, PinnedTo, LinkedTo
<1>5. RestInv' BY <1>0, <1>1, Zenon DEF RunInv, RestInv, PinnedTo, LinkedTo
<1>6. OneLinked' BY <1>0, Zenon DEF RunInv, OneLinked
<1> QED BY <1>2, <1>3, <1>4, <1>5, <1>6, Zenon DEF RunInv

LEMMA SendsKeeps == ASSUME RunInv, GSends PROVE RunInv'
<1>0. UNCHANGED <<aopt, ah, adone>> /\ ag.at = "add" /\ ag.sent < AEvents BY Zenon DEF GSends
<1>1. /\ DOMAIN ag' = DOMAIN ag /\ ag'.sent = ag.sent + 1 /\ ag'.outer = ag.outer /\ ag'.inner = ag.inner /\ ag'.at = ag.at
      /\ DOMAIN ach' = DOMAIN ach /\ ach'.buf = Append(ach.buf, ag.sent + 1) /\ ach'.err = ach.err /\ ach'.closed = ach.closed
  BY Zenon DEF RunInv, AddTypeOK, GSends
<1>7. ach'.buf \in Seq(Nat) /\ Len(ach'.buf) = Len(ach.buf) + 1
  <2>1. PICK q, e : q = ach.buf /\ e = ag.sent + 1 BY Zenon
  <2>2. q \in Seq(Nat) /\ e \in Nat BY <2>1, AddAssumption DEF RunInv, AddTypeOK
  <2>3. Append(q, e) \in Seq(Nat) /\ Len(Append(q, e)) = Len(q) + 1 BY <2>2, AppendProperties, Zenon
  <2> QED BY <1>1, <2>1, <2>3, Zenon
<1>2. AddTypeOK' BY <1>0, <1>1, <1>7, AddAssumption DEF RunInv, AddTypeOK
<1>3. GoInv' BY <1>0, <1>1, Zenon DEF RunInv, GoInv
<1>4. RecvInv'
  <2>1. ah.at = "recv" => ah'.emitted + Len(ach'.buf) = (ah'.entry - 1) * AEvents + ag'.sent
    <3>1. /\ ah.emitted \in Nat /\ Len(ach.buf) \in Nat /\ ag.sent \in Nat /\ ah.entry \in Nat BY DEF RunInv, AddTypeOK
    <3>2. PICK d : d = (ah.entry - 1) * AEvents BY Zenon
    <3>3. d \in Int BY <3>1, <3>2, AddAssumption
    <3>4. ah.at = "recv" => ah.emitted + Len(ach.buf) = d + ag.sent BY <3>2, Zenon DEF RunInv, RecvInv
    <3>5. ah.at = "recv" => ah.emitted + Len(ach'.buf) = d + ag'.sent
      <4>1. ag'.sent = ag.sent + 1 BY <1>1, Zenon
      <4>2. PICK m, l, g : m = ah.emitted /\ l = Len(ach.buf) /\ g = ag.sent BY ZenonT(60)
      <4>3. m \in Nat /\ l \in Nat /\ g \in Nat BY <3>1, <4>2, Zenon
      <4>4. m + l = d + g => m + (l + 1) = d + (g + 1) BY <3>3, <4>3
      <4>5. Len(ach'.buf) = l + 1 /\ ag'.sent = g + 1 BY <1>7, <4>1, <4>2, Zenon
      <4> QED BY <3>4, <4>2, <4>4, <4>5, Zenon
    <3> QED BY <1>0, <3>2, <3>5, Zenon
  <2> QED BY <1>0, <1>1, <2>1, ZenonT(60) DEF RunInv, GoInv, RecvInv, PinnedTo, LinkedTo
<1>5. RestInv' BY <1>0, <1>1, Zenon DEF RunInv, RestInv, PinnedTo, LinkedTo
<1>6. OneLinked' BY <1>0, Zenon DEF RunInv, OneLinked
<1> QED BY <1>2, <1>3, <1>4, <1>5, <1>6, Zenon DEF RunInv

LEMMA FailsKeeps == ASSUME RunInv, GFails PROVE RunInv'
<1>0. UNCHANGED <<aopt, ah, adone>> /\ ag.at = "add" BY Zenon DEF GFails
<1>1. /\ DOMAIN ag' = DOMAIN ag /\ ag'.sent = ag.sent /\ ag'.outer = ag.outer /\ ag'.inner = FALSE /\ ag'.at = "unwind"
      /\ DOMAIN ach' = DOMAIN ach /\ ach'.buf = ach.buf /\ ach'.err = "err" /\ ach'.closed = ach.closed
  BY Zenon DEF RunInv, AddTypeOK, GFails
<1>2. AddTypeOK' BY <1>0, <1>1, ZenonT(60) DEF RunInv, AddTypeOK
<1>3. GoInv' BY <1>0, <1>1, Zenon DEF RunInv, GoInv
<1>4. RecvInv' BY <1>0, <1>1, Zenon DEF RunInv, RecvInv, PinnedTo, LinkedTo
<1>5. RestInv' BY <1>0, <1>1, ZenonT(60) DEF RunInv, RestInv, PinnedTo, LinkedTo
<1>6. OneLinked' BY <1>0, Zenon DEF RunInv, OneLinked
<1> QED BY <1>2, <1>3, <1>4, <1>5, <1>6, Zenon DEF RunInv

LEMMA AddedKeeps == ASSUME RunInv, GAdded PROVE RunInv'
<1>0. UNCHANGED <<aopt, ah>> /\ ag.at = "add" /\ ag.sent = AEvents BY Zenon DEF GAdded
<1>1. /\ DOMAIN ag' = DOMAIN ag /\ ag'.sent = ag.sent /\ ag'.outer = ag.outer /\ ag'.inner = FALSE
      /\ ag'.at = IF aopt.mfs = "no" THEN "unwind" ELSE "link"
      /\ DOMAIN ach' = DOMAIN ach /\ ach'.buf = ach.buf /\ ach'.closed = ach.closed
      /\ ach'.err = IF aopt.mfs = "no" THEN "nil" ELSE ach.err
  BY Zenon DEF RunInv, AddTypeOK, GAdded
<1>7. /\ DOMAIN adone' = DOMAIN adone /\ adone'.linked = adone.linked
      /\ adone'.pinned = IF aopt.pin THEN adone.pinned \cup {ah.entry} ELSE adone.pinned
  BY Zenon DEF RunInv, AddTypeOK, GAdded
<1>8. ah.entry \in Nat BY DEF RunInv, AddTypeOK
<1>2. AddTypeOK' BY <1>0, <1>1, <1>7, ZenonT(60) DEF RunInv, AddTypeOK
<1>3. GoInv' BY <1>0, <1>1, Zenon DEF RunInv, GoInv
<1>4. RecvInv'
  <2>1. SUFFICES ASSUME ah.at = "recv" PROVE RecvInv' BY <1>0, Zenon DEF RecvInv
  <2>2. ah.entry >= 1 /\ PinnedTo(ah.entry - 1) /\ LinkedTo(ah.entry - 1) BY <1>0, <2>1, Zenon DEF RunInv, RecvInv
  <2>3. (1..(ah.entry - 1)) \cup {ah.entry} = 1..ah.entry BY <1>8, <2>2
  <2>4. PinnedTo(ah.entry)' /\ LinkedTo(ah.entry - 1)' BY <1>0, <1>7, <2>2, <2>3, ZenonT(60) DEF PinnedTo, LinkedTo
  <2>5. aopt.mfs = "no" => LinkedTo(ah.entry)' BY <1>0, Zenon DEF LinkedTo
  <2> QED BY <1>0, <1>1, <2>1, <2>4, <2>5, Zenon DEF RunInv, RecvInv, GoInv
<1>5. RestInv' BY <1>0, <1>1, <1>7, Zenon DEF RunInv, RestInv
<1>6. OneLinked' BY <1>0, <1>7, Zenon DEF RunInv, OneLinked
<1> QED BY <1>2, <1>3, <1>4, <1>5, <1>6, Zenon DEF RunInv

LEMMA LinksKeeps == ASSUME RunInv, GLinks PROVE RunInv'
<1>0. UNCHANGED <<aopt, ah>> /\ ag.at = "link" BY Zenon DEF GLinks
<1>1. /\ DOMAIN ag' = DOMAIN ag /\ ag'.sent = ag.sent /\ ag'.outer = ag.outer /\ ag'.inner = ag.inner /\ ag'.at = "unwind"
      /\ DOMAIN ach' = DOMAIN ach /\ ach'.buf = ach.buf /\ ach'.closed = ach.closed /\ ach'.err \in {"err", "nil"}
  BY ZenonT(60) DEF RunInv, AddTypeOK, GLinks, GAnswers, GTo
<1>7. /\ DOMAIN adone' = DOMAIN adone /\ adone'.pinned = adone.pinned
      /\ \/ adone'.linked = adone.linked /\ ach'.err = "err"
         \/ adone'.linked = adone.linked \cup {ah.entry} /\ ach'.err = "nil" /\ ~RefusesLink
  BY Zenon DEF RunInv, AddTypeOK, GLinks, GAnswers
<1>8. ah.entry \in Nat BY DEF RunInv, AddTypeOK
<1>2. AddTypeOK' BY <1>0, <1>1, <1>7, ZenonT(60) DEF RunInv, AddTypeOK
<1>3. GoInv' BY <1>0, <1>1, Zenon DEF RunInv, GoInv
<1>4. RecvInv'
  <2>1. SUFFICES ASSUME ah.at = "recv" PROVE RecvInv' BY <1>0, Zenon DEF RecvInv
  <2>2. ah.entry >= 1 /\ ag.sent = AEvents /\ PinnedTo(ah.entry) /\ LinkedTo(ah.entry - 1)
    BY <1>0, <2>1, Zenon DEF RunInv, RecvInv
  <2>3. (1..(ah.entry - 1)) \cup {ah.entry} = 1..ah.entry BY <1>8, <2>2
  <2>4. PinnedTo(ah.entry)' BY <1>0, <1>7, <2>2, Zenon DEF PinnedTo
  <2>5. ach'.err = "nil" => LinkedTo(ah.entry)' BY <1>0, <1>7, <2>2, <2>3, ZenonT(60) DEF LinkedTo
  <2> QED BY <1>0, <1>1, <2>1, <2>2, <2>4, <2>5, ZenonT(60) DEF RunInv, RecvInv
<1>5. RestInv' BY <1>0, <1>1, <1>7, ZenonT(60) DEF RunInv, RestInv
<1>6. OneLinked' BY <1>0, <1>7, <1>8, Zenon DEF RunInv, OneLinked, RefusesLink
<1> QED BY <1>2, <1>3, <1>4, <1>5, <1>6, Zenon DEF RunInv

\* The handler.
LEMMA NextsKeeps == ASSUME RunInv, HNext PROVE RunInv'
<1>0. UNCHANGED <<aopt, adone>> /\ ah.at = "next" /\ ag.at = "off" /\ ah.emitted = ah.entry * AEvents
  BY Zenon DEF HNext, RunInv, RestInv
<1>8. ah.entry \in Nat /\ aopt.n \in Nat /\ ah.entry <= aopt.n BY AddAssumption DEF RunInv, AddTypeOK
<1>1. CASE /\ ah.entry < aopt.n
           /\ ah' = [ah EXCEPT !.at = "recv", !.entry = @ + 1]
           /\ ag' = [at |-> "start", sent |-> 0, files |-> 0, outer |-> FALSE, inner |-> FALSE]
           /\ ach' = [buf |-> <<>>, closed |-> FALSE, err |-> "empty"]
  <2>1. /\ DOMAIN ah' = DOMAIN ah /\ ah'.at = "recv" /\ ah'.entry = ah.entry + 1 /\ ah'.emitted = ah.emitted
        /\ ah'.res = ah.res /\ ah'.conn = ah.conn
    BY <1>1, Zenon DEF RunInv, AddTypeOK
  <2>2. /\ DOMAIN ag' = DOMAIN ag /\ ag'.at = "start" /\ ag'.sent = 0 /\ ag'.outer = FALSE /\ ag'.inner = FALSE
        /\ DOMAIN ach' = DOMAIN ach /\ ach'.buf = <<>> /\ ach'.closed = FALSE /\ ach'.err = "empty"
    BY <1>1, Zenon DEF RunInv, AddTypeOK
  <2>3. AddTypeOK' BY <1>0, <1>1, <1>8, <2>1, <2>2, AddAssumption DEF RunInv, AddTypeOK
  <2>4. GoInv' BY <2>2, Zenon DEF GoInv
  <2>5. RecvInv'
    <3>1. ah'.entry - 1 = ah.entry BY <1>8, <2>1
    <3>2. PinnedTo(ah.entry - 1)' /\ LinkedTo(ah.entry - 1)'
      BY <1>0, <3>1, Zenon DEF RunInv, RestInv, PinnedTo, LinkedTo
    <3>3. ah'.emitted + Len(ach'.buf) = (ah'.entry - 1) * AEvents + ag'.sent
      <4>1. PICK d : d = ah.entry * AEvents BY Zenon
      <4>2. d \in Int BY <4>1, <1>8, AddAssumption
      <4>3. ah'.emitted = d /\ (ah'.entry - 1) * AEvents = d BY <1>0, <2>1, <3>1, <4>1, Zenon
      <4> QED BY <2>2, <4>2, <4>3, Zenon
    <3> QED BY <1>8, <2>1, <2>2, <3>2, <3>3 DEF RecvInv
  <2>6. RestInv' BY <1>0, <2>1, Zenon DEF RunInv, RestInv
  <2>7. OneLinked' BY <1>0, ZenonT(60) DEF RunInv, OneLinked
  <2> QED BY <2>3, <2>4, <2>5, <2>6, <2>7, Zenon DEF RunInv
<1>2. CASE \E res \in {"iter", "none", "ok"} :
             (res = "ok" => ah.entry = aopt.n) /\ HReturns(res) /\ UNCHANGED <<ag, ach>>
  <2>0. PICK res \in {"iter", "none", "ok"} :
             (res = "ok" => ah.entry = aopt.n) /\ HReturns(res) /\ UNCHANGED <<ag, ach>> BY <1>2, Zenon
  <2>1. /\ DOMAIN ah' = DOMAIN ah /\ ah'.at = "done" /\ ah'.entry = ah.entry /\ ah'.emitted = ah.emitted
        /\ ah'.res = res /\ ah'.conn = ah.conn
    BY <2>0, Zenon DEF RunInv, AddTypeOK, HReturns
  <2>3. AddTypeOK' BY <1>0, <2>0, <2>1, ZenonT(60) DEF RunInv, AddTypeOK
  <2>4. GoInv' BY <2>0, Zenon DEF RunInv, GoInv
  <2>5. RecvInv' BY <2>1, Zenon DEF RecvInv
  <2>6. RestInv' BY <1>0, <2>0, <2>1, Zenon DEF RunInv, RestInv, PinnedTo, LinkedTo
  <2>7. OneLinked' BY <1>0, Zenon DEF RunInv, OneLinked
  <2> QED BY <2>3, <2>4, <2>5, <2>6, <2>7, Zenon DEF RunInv
<1> QED BY <1>1, <1>2, Zenon DEF HNext

LEMMA EmitsKeeps == ASSUME RunInv, HEmits PROVE RunInv'
<1>0. UNCHANGED <<aopt, ag, adone>> /\ ah.at = "recv" /\ ach.buf # <<>> BY Zenon DEF HEmits
<1>1. /\ DOMAIN ach' = DOMAIN ach /\ ach'.buf = Tail(ach.buf) /\ ach'.err = ach.err /\ ach'.closed = ach.closed
  BY Zenon DEF RunInv, AddTypeOK, HEmits
<1>2. /\ DOMAIN ah' = DOMAIN ah /\ ah'.entry = ah.entry /\ ah'.conn = ah.conn
      /\ \/ ah'.at = "recv" /\ ah'.emitted = ah.emitted + 1 /\ ah'.res = ah.res
         \/ ah'.at = "done" /\ ah'.emitted = ah.emitted /\ ah'.res = "emit"
  BY <1>0, ZenonT(60) DEF RunInv, AddTypeOK, HEmits, HReturns
<1>3. ach'.buf \in Seq(Nat) /\ Len(ach'.buf) = Len(ach.buf) - 1 /\ Len(ach.buf) \in Nat
  <2>1. PICK q : q = ach.buf BY Zenon
  <2>2. q \in Seq(Nat) /\ q # <<>> BY <1>0, <2>1, Zenon DEF RunInv, AddTypeOK
  <2>3. Tail(q) \in Seq(Nat) /\ Len(Tail(q)) = Len(q) - 1 /\ Len(q) \in Nat BY <2>2, HeadTailProperties, LenProperties, Zenon
  <2> QED BY <1>1, <2>1, <2>3, Zenon
<1>4. AddTypeOK' BY <1>0, <1>1, <1>2, <1>3 DEF RunInv, AddTypeOK
<1>5. GoInv' BY <1>0, <1>1, Zenon DEF RunInv, GoInv
<1>6. RecvInv'
  <2>1. ah'.at = "recv" => ah'.emitted + Len(ach'.buf) = (ah'.entry - 1) * AEvents + ag'.sent
    <3>1. ah.emitted \in Nat BY ZenonT(60) DEF RunInv, AddTypeOK
    <3>2. PICK d : d = (ah.entry - 1) * AEvents + ag.sent BY Zenon
    <3>3. ah.emitted + Len(ach.buf) = d BY <1>0, <3>2, Zenon DEF RunInv, RecvInv
    <3>4. ah'.at = "recv" => ah'.emitted + Len(ach'.buf) = d
      <4>1. PICK m, l : m = ah.emitted /\ l = Len(ach.buf) BY ZenonT(60)
      <4>2. m \in Nat /\ l \in Nat /\ m + l = d BY <1>3, <3>1, <3>3, <4>1, Zenon
      <4>3. (m + 1) + (l - 1) = d BY <4>2
      <4>4. Len(ach'.buf) = l - 1 BY <1>3, <4>1, Zenon
      <4>5. ah'.at = "recv" => ah'.emitted = m + 1 BY <1>2, <4>1, Zenon
      <4> QED BY <4>3, <4>4, <4>5, Zenon
    <3> QED BY <1>0, <1>2, <3>2, <3>4, Zenon
  <2> QED BY <1>0, <1>1, <1>2, <2>1, ZenonT(60) DEF RunInv, RecvInv, PinnedTo, LinkedTo
<1>7. RestInv' BY <1>0, <1>2, Zenon DEF RunInv, RestInv
<1>8. OneLinked' BY <1>0, Zenon DEF RunInv, OneLinked
<1> QED BY <1>4, <1>5, <1>6, <1>7, <1>8, Zenon DEF RunInv

LEMMA EndsArgKeeps == ASSUME RunInv, HEnds PROVE RunInv'
<1>0. /\ UNCHANGED <<aopt, ag, ach, adone>> /\ ah.at = "recv" /\ ach.buf = <<>> /\ ach.closed = TRUE /\ ach.err # "empty"
  BY Zenon DEF HEnds, HDrained, RunInv, AddTypeOK
<1>1. /\ DOMAIN ah' = DOMAIN ah /\ ah'.entry = ah.entry /\ ah'.conn = ah.conn /\ ah'.emitted = ah.emitted
      /\ \/ ah'.at = "next" /\ ach.err = "nil" /\ ah'.res = ah.res
         \/ ah'.at = "done" /\ ach.err = "err" /\ ah'.res = "add"
  BY <1>0, ZenonT(60) DEF RunInv, AddTypeOK, HEnds, HReturns
<1>2. ag.at = "off" BY <1>0, Zenon DEF RunInv, GoInv
<1>3. ach.err = "nil" => ah.emitted = ah.entry * AEvents
  <2>1. /\ ah.emitted \in Nat /\ ah.entry \in Nat /\ ag.sent \in Nat BY AddAssumption DEF RunInv, AddTypeOK
  <2>2. ach.err = "nil" => ah.emitted = (ah.entry - 1) * AEvents + AEvents
    <3>1. ach.err = "nil" => ah.emitted + Len(ach.buf) = (ah.entry - 1) * AEvents + AEvents
      BY <1>0, Zenon DEF RunInv, RecvInv
    <3> QED BY <1>0, <2>1, <3>1
  <2>3. (ah.entry - 1) * AEvents + AEvents = ah.entry * AEvents BY <2>1, AddAssumption
  <2> QED BY <2>2, <2>3, Zenon
<1>4. AddTypeOK' BY <1>0, <1>1 DEF RunInv, AddTypeOK
<1>5. GoInv' BY <1>0, Zenon DEF RunInv, GoInv
<1>6. RecvInv' BY <1>1, Zenon DEF RecvInv
<1>7. RestInv' BY <1>0, <1>1, <1>2, <1>3, ZenonT(60) DEF RunInv, RestInv, RecvInv, PinnedTo, LinkedTo
<1>8. OneLinked' BY <1>0, Zenon DEF RunInv, OneLinked
<1> QED BY <1>4, <1>5, <1>6, <1>7, <1>8, Zenon DEF RunInv

LEMMA ElseKeeps ==
  ASSUME RunInv, ClientLeaves \/ CollectorAsks \/ CollectorGoesOn \/ UNCHANGED addvars
  PROVE  RunInv'
<1>0. UNCHANGED <<aopt, ag, ach, adone>> BY Zenon DEF ClientLeaves, CollectorAsks, CollectorGoesOn, addvars
<1>1. /\ DOMAIN ah' = DOMAIN ah /\ ah'.entry = ah.entry /\ ah'.emitted = ah.emitted /\ ah'.at = ah.at /\ ah'.res = ah.res
      /\ ah'.conn \in BOOLEAN
  BY ZenonT(60) DEF ClientLeaves, CollectorAsks, CollectorGoesOn, addvars, RunInv, AddTypeOK
<1>4. AddTypeOK' BY <1>0, <1>1, ZenonT(60) DEF RunInv, AddTypeOK
<1>5. GoInv' BY <1>0, Zenon DEF RunInv, GoInv
<1>6. RecvInv' BY <1>0, <1>1, ZenonT(60) DEF RunInv, RecvInv, PinnedTo, LinkedTo
<1>7. RestInv' BY <1>0, <1>1, ZenonT(60) DEF RunInv, RestInv, PinnedTo, LinkedTo
<1>8. OneLinked' BY <1>0, Zenon DEF RunInv, OneLinked
<1> QED BY <1>4, <1>5, <1>6, <1>7, <1>8, Zenon DEF RunInv

LEMMA RunInductive == RunInv /\ [AddNext]_addvars => RunInv'
BY LocalKeeps, ClosesKeeps, SendsKeeps, FailsKeeps, AddedKeeps, LinksKeeps, NextsKeeps, EmitsKeeps, EndsArgKeeps, ElseKeeps, Zenon
   DEF AddNext, AddSteps, GSteps

-----------------------------------------------------------------------------
(* The options: what was asked and answered. *)

AskedInv ==
  /\ aset.q = "settings" => aset.in \in CommandLines /\ aset.out = AddSettings(aset.in)
  /\ aset.q = "provide" => aset.in \in Provisions /\ aset.out = FastProvided(aset.in)

LEMMA AskedInductive == (AddInit => AskedInv) /\ (AskedInv /\ [AsksAdd]_aset => AskedInv')
<1>1. ASSUME AddInit PROVE AskedInv
  <2>1. aset.q = "none" BY <1>1, Zenon DEF AddInit
  <2> QED BY <2>1, Zenon DEF AskedInv
<1>2. ASSUME AskedInv, AsksAdd PROVE AskedInv'
  <2>1. CASE \E f \in CommandLines : aset' = [q |-> "settings", in |-> f, out |-> AddSettings(f)]
    <3>1. PICK f \in CommandLines : aset' = [q |-> "settings", in |-> f, out |-> AddSettings(f)] BY <2>1, Zenon
    <3>2. aset'.q = "settings" /\ aset'.in = f /\ aset'.out = AddSettings(f) BY <3>1, Zenon
    <3> QED BY <3>2, Zenon DEF AskedInv
  <2>2. CASE \E p \in Provisions : aset' = [q |-> "provide", in |-> p, out |-> FastProvided(p)]
    <3>1. PICK p \in Provisions : aset' = [q |-> "provide", in |-> p, out |-> FastProvided(p)] BY <2>2, Zenon
    <3>2. aset'.q = "provide" /\ aset'.in = p /\ aset'.out = FastProvided(p) BY <3>1, Zenon
    <3> QED BY <3>2, Zenon DEF AskedInv
  <2> QED BY <1>2, <2>1, <2>2, Zenon DEF AsksAdd
<1>3. ASSUME AskedInv, aset' = aset PROVE AskedInv' BY <1>3, Zenon DEF AskedInv
<1> QED BY <1>1, <1>2, <1>3, Zenon

LEMMA SettingsFit ==
  ASSUME NEW f \in CommandLines, NEW s, s = AddSettings(f), s.ok
  PROVE  /\ f.raw # "unset" => s.raw = (f.raw = "true")
         /\ f.cid >= 0 => s.cid = f.cid
         /\ f.name => s.pin
         /\ f.nocopy => s.raw
         /\ f.meta # "no" => ~s.raw
         /\ f.hash # "sha2-256" => s.cid = 1
         /\ f.onlyhash => ~s.pin /\ s.store = "null"
<1>0. /\ f.raw \in {"unset", "true", "false"} /\ f.cfgraw \in {"unset", "true"} /\ f.cid \in {-1, 0, 1}
      /\ f.hash \in {"sha2-256", "blake3", "unknown"} /\ f.meta \in {"no", "set", "nsecs"}
      /\ f.nocopy \in BOOLEAN /\ f.onlyhash \in BOOLEAN /\ f.pin \in BOOLEAN /\ f.name \in BOOLEAN
  BY Zenon DEF CommandLines
<1>1. /\ ~AddRefused(f) /\ s.raw = (RawOf(f) = "true") /\ s.cid = CidOf(f) /\ s.pin = DoPin(f)
      /\ s.store = IF f.onlyhash THEN "null" ELSE IF f.nocopy THEN "filestore" ELSE "blocks"
  BY ZenonT(60) DEF AddSettings
<1>2. f.raw # "unset" => s.raw = (f.raw = "true") BY <1>0, <1>1, Zenon DEF AddRefused, MetadataRefused, RawGiven, RawOf
<1>3. f.cid >= 0 => s.cid = f.cid BY <1>0, <1>1 DEF AddRefused, CidOf
<1>4. f.name => s.pin BY <1>0, <1>1, Zenon DEF AddRefused
<1>5. f.nocopy => s.raw BY <1>0, <1>1, ZenonT(60) DEF AddRefused, RawGiven, RawOf
<1>6. f.meta # "no" => ~s.raw BY <1>0, <1>1, Zenon DEF AddRefused, RawOf
<1>7. f.hash # "sha2-256" => s.cid = 1 BY <1>0, <1>1, Zenon DEF CidOf
<1>8. f.onlyhash => ~s.pin /\ s.store = "null" BY <1>0, <1>1, ZenonT(60) DEF DoPin
<1> QED BY <1>2, <1>3, <1>4, <1>5, <1>6, <1>7, <1>8, ZenonT(60)

LEMMA AskedSafely == AskedInv => SettingsKept /\ RootFits
<1> SUFFICES ASSUME AskedInv PROVE SettingsKept /\ RootFits BY Zenon
<1>1. SettingsKept BY SettingsFit, ZenonT(60) DEF SettingsKept, AskedInv
<1>2. RootFits
  <2>1. SUFFICES ASSUME aset.q = "provide", ~aset.in.dag, aset.out.root PROVE Selected(aset.in) BY Zenon DEF RootFits
  <2>2. PICK p, o : p = aset.in /\ o = aset.out BY Zenon
  <2>3. p \in Provisions /\ o = FastProvided(p) BY <2>1, <2>2, Zenon DEF AskedInv
  <2>4. o.root = IF p.dag THEN DagWalked(p) ELSE p.root /\ RootAnnounced(p) BY <2>3, Zenon DEF FastProvided
  <2>5. p.root /\ RootAnnounced(p) BY <2>1, <2>2, <2>4, ZenonT(60)
  <2> QED BY <2>2, <2>5, Zenon DEF RootAnnounced
<1> QED BY <1>1, <1>2, Zenon

-----------------------------------------------------------------------------
(* The bar: where it stands after each event of the response. *)

BarAt(b, name, last, prev, total) == b.name = name /\ b.last = last /\ b.prev = prev /\ b.total = total

BarInv ==
  /\ DOMAIN abar = {"loop", "bar", "got", "name", "last", "prev", "total", "failed", "cancelled"}
  /\ \/ abar.got = 0 /\ BarAt(abar, "none", 0, 0, 0)
     \/ abar.got = 1 /\ BarAt(abar, "x", 1, 0, 1)
     \/ abar.got \in {2, 3} /\ BarAt(abar, "x", 2, 0, 2)
     \/ abar.got \in {4, 5} /\ BarAt(abar, "y", 1, 2, 3)

LEMMA BarInductive == (AddInit => BarInv) /\ (BarInv /\ [BarNext]_abar => BarInv')
<1>1. ASSUME AddInit PROVE BarInv
  <2>1. /\ DOMAIN abar = {"loop", "bar", "got", "name", "last", "prev", "total", "failed", "cancelled"}
        /\ abar.got = 0 /\ abar.name = "none" /\ abar.last = 0 /\ abar.prev = 0 /\ abar.total = 0
    BY <1>1, ZenonT(60) DEF AddInit
  <2> QED BY <2>1, Zenon DEF BarInv, BarAt
<1>2. ASSUME BarInv, LoopHands PROVE BarInv'
  <2>0. abar.got \in 0..4 /\ abar' = [Advance(abar, Response[abar.got + 1]) EXCEPT !.got = @ + 1]
    BY <1>2 DEF LoopHands, BarInv, Response
  <2>e. PICK e, v : e = Response[abar.got + 1] /\ v = Advance(abar, e) BY Zenon
  <2>v. abar' = [v EXCEPT !.got = @ + 1] BY <2>0, <2>e, Zenon
  <2>1. CASE abar.got = 0
    <3>1. e.name = "x" /\ e.bytes = 1 BY <2>1, <2>e DEF Response
    <3>2. DOMAIN v = DOMAIN abar /\ v.got = 0 /\ BarAt(v, "x", 1, 0, 1)
      BY <1>2, <2>1, <2>e, <3>1 DEF BarInv, BarAt, Advance
    <3> QED BY <1>2, <2>v, <3>2 DEF BarInv, BarAt
  <2>2. CASE abar.got = 1
    <3>1. e.name = "x" /\ e.bytes = 2 BY <2>2, <2>e DEF Response
    <3>2. DOMAIN v = DOMAIN abar /\ v.got = 1 /\ BarAt(v, "x", 2, 0, 2)
      BY <1>2, <2>2, <2>e, <3>1 DEF BarInv, BarAt, Advance
    <3> QED BY <1>2, <2>v, <3>2 DEF BarInv, BarAt
  <2>3. CASE abar.got = 2
    <3>1. e.name = "x" /\ e.bytes = 0 BY <2>3, <2>e DEF Response
    <3>2. DOMAIN v = DOMAIN abar /\ v.got = 2 /\ BarAt(v, "x", 2, 0, 2)
      BY <1>2, <2>3, <2>e, <3>1 DEF BarInv, BarAt, Advance
    <3> QED BY <1>2, <2>v, <3>2 DEF BarInv, BarAt
  <2>4. CASE abar.got = 3
    <3>1. e.name = "y" /\ e.bytes = 1 BY <2>4, <2>e DEF Response
    <3>2. DOMAIN v = DOMAIN abar /\ v.got = 3 /\ BarAt(v, "y", 1, 2, 3)
      BY <1>2, <2>4, <2>e, <3>1 DEF BarInv, BarAt, Advance
    <3> QED BY <1>2, <2>v, <3>2 DEF BarInv, BarAt
  <2>5. CASE abar.got = 4
    <3>1. e.name = "y" /\ e.bytes = 0 BY <2>5, <2>e DEF Response
    <3>2. DOMAIN v = DOMAIN abar /\ v.got = 4 /\ BarAt(v, "y", 1, 2, 3)
      BY <1>2, <2>5, <2>e, <3>1 DEF BarInv, BarAt, Advance
    <3> QED BY <1>2, <2>v, <3>2 DEF BarInv, BarAt
  <2> QED BY <2>0, <2>1, <2>2, <2>3, <2>4, <2>5
<1>3. ASSUME BarInv, LoopGivesUp \/ LoopEnds \/ BarEnds \/ LoopReturns \/ ResponseFails \/ Cancelled \/ UNCHANGED abar
      PROVE  BarInv'
  <2>1. /\ DOMAIN abar' = DOMAIN abar /\ abar'.got = abar.got /\ abar'.name = abar.name /\ abar'.last = abar.last
        /\ abar'.prev = abar.prev /\ abar'.total = abar.total
    BY <1>3, Zenon DEF BarInv, LoopGivesUp, LoopEnds, BarEnds, LoopReturns, ResponseFails, Cancelled
  <2> QED BY <1>3, <2>1, Zenon DEF BarInv, BarAt
<1> QED BY <1>1, <1>2, <1>3, ZenonT(60) DEF BarNext, BarSteps

LEMMA BarSafely == BarInv => BarTruthful
<1> DEFINE S(n) == {i \in 1..n : Response[i].bytes > 0}
<1>1. /\ Response[1].bytes = 1 /\ Response[2].bytes = 2 /\ Response[3].bytes = 0
      /\ Response[4].bytes = 1 /\ Response[5].bytes = 0
  BY Zenon DEF Response
<1>2. S(0) = {} /\ S(1) = {1} /\ S(2) = {1, 2} /\ S(3) = {1, 2} /\ S(4) = {1, 2, 4} /\ S(5) = {1, 2, 4} BY <1>1
<1>3. Cardinality({}) = 0 BY FS_EmptySet, Zenon
<1>4. IsFiniteSet({1}) /\ Cardinality({1}) = 1 BY FS_Singleton, Zenon
<1>5. IsFiniteSet({1, 2}) /\ Cardinality({1, 2}) = 2
  <2>1. {1, 2} = {1} \cup {2} /\ 2 \notin {1} OBVIOUS
  <2> QED BY <1>4, <2>1, FS_AddElement
<1>6. Cardinality({1, 2, 4}) = 3
  <2>1. {1, 2, 4} = {1, 2} \cup {4} /\ 4 \notin {1, 2} OBVIOUS
  <2> QED BY <1>5, <2>1, FS_AddElement
<1> HIDE DEF S
<1>7. \A n \in 0..5 : Shown(n) = Cardinality(S(n)) BY Zenon DEF Shown, S
<1> QED BY <1>2, <1>3, <1>4, <1>5, <1>6, <1>7 DEF BarInv, BarAt, BarTruthful

\* What `ipfs add` (core/commands/add.go, core/coreapi/unixfs.go) promises, for any
\* number of arguments and events and however the client, the goroutine that adds and
\* a collection meet: an add that says success has pinned and linked every argument and
\* shown every event; a handler that returns to a client that is there leaves no
\* goroutine running and no lock held; explicit settings are done or refused; the root
\* is announced only as the strategy says; and the bar counts the bytes of all files.
THEOREM AddIsSafe == AddSpec => []AddSafe
<1> DEFINE Inv == RunInv /\ AskedInv /\ BarInv
<1>1. AddInit => Inv BY RunInitially, AskedInductive, BarInductive, Zenon
<1>2. Inv /\ [\/ AddNext /\ UNCHANGED <<aset, abar>>
              \/ AsksAdd /\ UNCHANGED <<addvars, abar>>
              \/ BarNext /\ UNCHANGED <<addvars, aset>>]_avars => Inv'
  BY RunInductive, AskedInductive, BarInductive, Zenon DEF avars
<1>3. Inv => AddSafe BY SafelyRun, AskedSafely, BarSafely, Zenon DEF AddSafe
<1> QED BY <1>1, <1>2, <1>3, PTL DEF AddSpec
=============================================================================
