---------------------------- MODULE FSRepoProofs ----------------------------
(***************************************************************************)
(* The reference count of OnlyOne and repo.lock, for every set of processes*)
(* and handles.                                                            *)
(*                                                                         *)
(* The count of an item is a balance: the handles that opened it and have not*)
(* closed it, less the daemons that closed it twice.  While the item is the*)
(* open one of its process the balance is positive; once it was forgotten it*)
(* only falls, so the count, taken modulo 2^32, passes zero once and only  *)
(* once, and an FSRepo is closed once.                                     *)
(***************************************************************************)
EXTENDS FSRepo, Integers, FiniteSetTheorems, TLAPS

\* Fewer handles than a uint32 counts.
FewHandles == IsFiniteSet(Handles) /\ Cardinality(Handles) < RefMod
\* A process runs at most one daemon.
OneDaemon == \A d, e \in Daemons : ProcOf[d] = ProcOf[e] => d = e
\* The inits are calls in one process.
OneInitProcess == \A g, h \in Inits : ProcOf[g] = ProcOf[h]
\* A command that edits Config() or a clone of it is alone in its process, and
\* sets a value rather than taking one away.
SoleEditor ==
  \A h \in Cloners \cup InPlace :
    /\ h \notin KeySetters \cup Daemons /\ Edit[h].val # NoValue
    /\ \A g \in Handles : ProcOf[g] = ProcOf[h] => g = h

-----------------------------------------------------------------------------
Full(h) == IF h \in Daemons /\ ClosesTwice THEN 2 ELSE 1
Plus(r, l, j) == {h \in Handles : r[h] = j /\ l[h] = Full(h)}
Minus(r, l, j) == {h \in Handles : r[h] = j /\ l[h] + 2 = Full(h)}
Balance(r, l, j) == Cardinality(Plus(r, l, j)) - Cardinality(Minus(r, l, j))
Wrap(n) == IF n >= 0 THEN n ELSE n + RefMod

InitPcs == {"config", "spec", "version"}
ClosePcs == {"remove", "unlock"}
HoldPcs == {"open", "serving", "edited", "done"}

\* Where a handle is says whether it has opened and closed.
LocalInv ==
  \A h \in Handles :
    /\ left[h] \in 0..Full(h)
    /\ pc[h] \in InitPcs \cup {"idle", "inited"} => ref[h] = 0 /\ left[h] = Full(h)
    /\ pc[h] \in HoldPcs => ref[h] # 0 /\ left[h] = Full(h)
    /\ pc[h] \in ClosePcs \cup {"closed"} => ref[h] # 0 /\ left[h] < Full(h)
    /\ pc[h] \in InitPcs \cup ClosePcs => busy[ProcOf[h]] = h
    /\ pc[h] \in InitPcs \cup {"inited"} => h \in Inits
    /\ pc[h] = "edited" => h \in Cloners \cup InPlace

\* repo.lock is with the process whose FSRepo is open.
OpenInv ==
  /\ \A g, h \in Handles : ref[g] # 0 /\ ref[g] = ref[h] => ProcOf[g] = ProcOf[h]
  /\ \A h \in Handles : ref[h] # 0 /\ ~item[ref[h]].closed => lock = ProcOf[h]
  /\ \A g, h \in Handles :
       ref[g] # 0 /\ ~item[ref[g]].closed /\ ref[h] # 0 /\ ~item[ref[h]].closed => ref[g] = ref[h]
  /\ lock # None => \E h \in Handles : ref[h] # 0 /\ ~item[ref[h]].closed /\ lock = ProcOf[h]
  /\ \A h \in Handles : pc[h] = "dead" /\ ref[h] # 0 => item[ref[h]].closed

\* The last one out has forgotten the item and still has to close the FSRepo.
LastInv ==
  /\ \A p \in Procs : active[p] # 0 => lock = p /\ ~item[active[p]].closed /\ Balance(ref, left, active[p]) > 0
  /\ \A h \in Handles : pc[h] \in ClosePcs =>
       lock = ProcOf[h] /\ active[ProcOf[h]] = 0 /\ ~item[ref[h]].closed

\* The count is the balance, and that of a forgotten item is not positive.
CountInv ==
  /\ \A j \in 1..opens : item[j].refs = Wrap(Balance(ref, left, j))
  /\ \A h \in Handles : ref[h] # 0 /\ pc[h] # "dead" /\ active[ProcOf[h]] # ref[h] => Balance(ref, left, ref[h]) <= 0

RepoInv == FSRepoTypeOK /\ LocalInv /\ OpenInv /\ LastInv /\ CountInv

\* A process that finds the config file finds a whole repo, or waits for the
\* init that is under way.
InitInv ==
  faults = 0 =>
    /\ "config" \in parts /\ parts # Parts => \E h \in Inits : pc[h] \in {"spec", "version"}
    /\ \A h \in Inits : /\ pc[h] \in {"spec", "version", "inited"} => "config" \in parts
                        /\ pc[h] \in {"version", "inited"} => "spec" \in parts
                        /\ pc[h] = "inited" => "version" \in parts

\* What an editor read, and what it is about to write, is what the file holds.
EditInv ==
  \A h \in Cloners \cup InPlace :
    /\ pc[h] = "open" /\ ~item[ref[h]].closed => heap[item[ref[h]].conf] = disk
    /\ pc[h] = "edited" => heap[edits[h]] = [disk EXCEPT ![Edit[h].key] = Edit[h].val]

SoundInv == RepoInv /\ DaemonReachable /\ InitInv /\ EditInv /\ AckedKept

-----------------------------------------------------------------------------
(* Types *)

\* The arithmetic of a uint32: a remainder is one, and taking one from zero
\* wraps around.
LEMMA ModType == ASSUME NEW N \in Nat \ {0}, NEW x \in Nat PROVE x % N \in 0..N-1
BY SMT
LEMMA ModSmall == ASSUME NEW N \in Nat \ {0}, NEW x \in 0..N-1 PROVE x % N = x
BY SMT
LEMMA ModDown ==
  ASSUME NEW N \in Nat \ {0}, NEW x \in 0..N-1
  PROVE  (x + N - 1) % N = IF x = 0 THEN N - 1 ELSE x - 1
BY SMT

\* What a command makes of a config is a config.
LEMMA EditType ==
  ASSUME NEW h \in Commands, NEW c \in Configs, NEW d \in Configs
  PROVE  /\ [c EXCEPT ![Edit[h].key] = Edit[h].val] \in Configs
         /\ MapMergeDeep(c, d) \in Configs
<1>1. Edit[h].val \in {Edit[g].val : g \in Commands} BY Zenon
<1> QED BY <1>1, Zenon DEF Configs, MapMergeDeep

\* A count one higher or one lower, modulo 2^32, is a count.
LEMMA CountType ==
  ASSUME NEW x \in 0..RefMod-1
  PROVE  (x + 1) % RefMod \in 0..RefMod-1 /\ (x + RefMod - 1) % RefMod \in 0..RefMod-1
<1>1. RefMod \in Nat \ {0} /\ x + 1 \in Nat /\ x + RefMod - 1 \in Nat BY FSRepoAssumption
<1> QED BY <1>1, ModType, Zenon

ItemSet == [Items -> [refs : 0..RefMod-1, closed : BOOLEAN, conf : Objects]]

\* Changing one field of one item.
LEMMA ItemFields ==
  ASSUME NEW t \in ItemSet, NEW i \in Items
  PROVE  /\ \A n \in 0..RefMod-1 : [t EXCEPT ![i].refs = n] \in ItemSet
         /\ \A b \in BOOLEAN : [t EXCEPT ![i].closed = b] \in ItemSet
         /\ \A o \in Objects : [t EXCEPT ![i].conf = o] \in ItemSet
<1> DEFINE Rec == [refs : 0..RefMod-1, closed : BOOLEAN, conf : Objects]
<1>1. t[i] \in Rec BY Zenon DEF ItemSet
<1>2. \A n \in 0..RefMod-1 : [t[i] EXCEPT !.refs = n] \in Rec BY <1>1, Zenon
<1>3. \A b \in BOOLEAN : [t[i] EXCEPT !.closed = b] \in Rec BY <1>1, Zenon
<1>4. \A o \in Objects : [t[i] EXCEPT !.conf = o] \in Rec BY <1>1, Zenon
<1> HIDE DEF Rec
<1>5. ItemSet = [Items -> Rec] BY Zenon DEF ItemSet, Rec
<1> QED BY <1>2, <1>3, <1>4, <1>5, Zenon

\* The item of a handle that has opened the repo.
LEMMA ItemOf ==
  ASSUME FSRepoTypeOK, LocalInv, NEW h \in Handles, pc[h] \in HoldPcs \cup ClosePcs \cup {"closed"}
  PROVE  /\ ref[h] \in 1..opens /\ ref[h] \in Items /\ item \in ItemSet
         /\ item[ref[h]].refs \in 0..RefMod-1 /\ item[ref[h]].conf \in Objects
<1>1. ref[h] # 0 BY Zenon DEF LocalInv
<1>2. ref[h] \in 1..opens /\ ref[h] \in Items BY <1>1, FSRepoAssumption DEF FSRepoTypeOK, Items
<1> QED BY <1>2, Zenon DEF FSRepoTypeOK, ItemSet

LEMMA TypeInit == FSRepoInit => FSRepoTypeOK
<1> SUFFICES ASSUME FSRepoInit PROVE FSRepoTypeOK BY Zenon
<1>1. item \in ItemSet
  <2>1. \A i \in Items : Opened(i) \in Objects BY Zenon DEF Objects
  <2>2. 0 \in 0..RefMod-1 BY FSRepoAssumption
  <2> QED BY <2>1, <2>2, Zenon DEF FSRepoInit, ItemSet
<1>2. disk \in Configs /\ acked \in Configs /\ heap \in [Objects -> Configs]
  BY Zenon DEF FSRepoInit, Configs
<1>3. edits \in [Handles -> Objects] BY Zenon DEF FSRepoInit, Objects
<1>4. left \in [Handles -> 0..2] BY DEF FSRepoInit
<1>5. opens \in 0..MaxOpens /\ active \in [Procs -> 0..opens] /\ ref \in [Handles -> 0..opens]
  BY FSRepoAssumption DEF FSRepoInit
<1> QED BY <1>1, <1>2, <1>3, <1>4, <1>5, FSRepoAssumption DEF FSRepoInit, FSRepoTypeOK, ItemSet

LEMMA TypeStep ==
  ASSUME FSRepoTypeOK, LocalInv, FSRepoNext
  PROVE  FSRepoTypeOK'
<1> USE FSRepoAssumption
<1>1. ASSUME NEW h \in Inits, InitStart(h) \/ InitStep(h) PROVE FSRepoTypeOK'
  <2>1. h \in Handles BY Zenon DEF Handles
  <2>2. CASE InitStart(h)
    BY <2>1, <2>2 DEF InitStart, Goto, files, refs, edit, FSRepoTypeOK
  <2>3. ASSUME NEW part \in Parts, NEW next \in {"spec", "version", "inited"}, InitWrite(h, part, next)
        PROVE  FSRepoTypeOK'
    BY <2>1, <2>3, Zenon DEF InitWrite, Goto, refs, edit, FSRepoTypeOK
  <2> QED BY <1>1, <2>2, <2>3, Zenon DEF InitStep, Parts
<1>2. ASSUME NEW h \in Daemons, SetAPIAddr(h) PROVE FSRepoTypeOK'
  BY <1>2, Zenon DEF SetAPIAddr, Goto, locks, refs, edit, FSRepoTypeOK, Handles
<1>3. ASSUME NEW h \in Daemons \cup Commands, Open(h), OpenShared(h) PROVE FSRepoTypeOK'
  <2>1. h \in Handles /\ active[ProcOf[h]] \in 1..opens /\ active[ProcOf[h]] \in Items
    BY <1>3 DEF OpenShared, FSRepoTypeOK, Handles, Items
  <2>2. item' \in ItemSet
    <3>1. item[active[ProcOf[h]]].refs \in 0..RefMod-1 BY <2>1, Zenon DEF FSRepoTypeOK
    <3>2. (item[active[ProcOf[h]]].refs + 1) % RefMod \in 0..RefMod-1 BY <3>1, CountType, Zenon
    <3> QED BY <1>3, <2>1, <3>2 DEF OpenShared, FSRepoTypeOK, ItemSet
  <2>3. ref' \in [Handles -> 0..opens] BY <1>3, <2>1, Zenon DEF OpenShared, FSRepoTypeOK
  <2> QED BY <1>3, <2>1, <2>2, <2>3, Zenon DEF Open, OpenShared, Goto, files, FSRepoTypeOK, ItemSet
<1>4. ASSUME NEW h \in Daemons \cup Commands, Open(h), OpenNew(h) PROVE FSRepoTypeOK'
  <2>1. h \in Handles /\ opens + 1 \in Items /\ Opened(opens + 1) \in Objects /\ opens' \in 0..MaxOpens
    BY <1>4 DEF OpenNew, FSRepoTypeOK, Handles, Items, Objects
  <2>2. item' \in ItemSet BY <1>4, <2>1 DEF OpenNew, FSRepoTypeOK, ItemSet
  <2>3. ref' \in [Handles -> 0..opens'] /\ active' \in [Procs -> 0..opens']
    BY <1>4, <2>1 DEF OpenNew, FSRepoTypeOK
  <2>4. heap' \in [Objects -> Configs] BY <1>4, <2>1, Zenon DEF OpenNew, FSRepoTypeOK
  <2> QED BY <1>4, <2>1, <2>2, <2>3, <2>4, Zenon DEF Open, OpenNew, Goto, files, FSRepoTypeOK, ItemSet
<1>5. ASSUME NEW h \in Daemons \cup Commands, Close(h) PROVE FSRepoTypeOK'
  <2>1. h \in Handles BY Zenon DEF Handles
  <2>2. pc[h] \in HoldPcs \cup {"closed"} BY <1>5, Zenon DEF Close, HoldPcs
  <2>3. item' \in ItemSet
    <3>2. (item[ref[h]].refs + RefMod - 1) % RefMod \in 0..RefMod-1 BY <2>1, <2>2, ItemOf, CountType, Zenon
    <3>3. [item EXCEPT ![ref[h]].refs = (item[ref[h]].refs + RefMod - 1) % RefMod] \in ItemSet
      BY <2>1, <2>2, ItemOf, <3>2, ItemFields, Zenon
    <3> QED BY <1>5, <3>3, Zenon DEF Close, CloseRef
  <2>4. active' \in [Procs -> 0..opens]
    <3>1. 0 \in 0..opens BY DEF FSRepoTypeOK
    <3>2. active' = active \/ active' = [active EXCEPT ![ProcOf[h]] = 0] BY <1>5, Zenon DEF Close, CloseRef
    <3> QED BY <3>1, <3>2, Zenon DEF FSRepoTypeOK
  <2>7. busy' \in [Procs -> Handles \cup {None}]
    <3>1. busy' = busy \/ busy' = [busy EXCEPT ![ProcOf[h]] = h] BY <1>5, Zenon DEF Close, CloseRef
    <3> QED BY <2>1, <3>1, Zenon DEF FSRepoTypeOK
  <2>5. left' \in [Handles -> 0..2] BY <1>5, <2>1 DEF Close, FSRepoTypeOK
  <2>6. pc' \in [Handles -> {"idle", "config", "spec", "version", "inited", "open", "serving",
                           "edited", "done", "remove", "unlock", "closed", "dead"}]
    BY <1>5, <2>1, ZenonT(60) DEF Close, CloseRef, Goto, FSRepoTypeOK
  <2> QED BY <1>5, <2>3, <2>4, <2>5, <2>6, <2>7, Zenon DEF Close, files, edit, FSRepoTypeOK, ItemSet
<1>6. ASSUME NEW h \in Daemons \cup Commands, RemoveApi(h) PROVE FSRepoTypeOK'
  BY <1>6, Zenon DEF RemoveApi, Goto, locks, refs, edit, FSRepoTypeOK, Handles
<1>7. ASSUME NEW h \in Daemons \cup Commands, Unlock(h) PROVE FSRepoTypeOK'
  <2>1. h \in Handles BY Zenon DEF Handles
  <2>2. item' \in ItemSet
    <3>1. ref[h] \in Items /\ item \in ItemSet BY <1>7, <2>1, ItemOf, Zenon DEF Unlock, ClosePcs
    <3>2. [item EXCEPT ![ref[h]].closed = TRUE] \in ItemSet BY <3>1, ItemFields, Zenon
    <3> QED BY <1>7, <3>1, <3>2, Zenon DEF Unlock
  <2> QED BY <1>7, <2>1, <2>2 DEF Unlock, Fault, Goto, files, edit, FSRepoTypeOK, ItemSet
<1>8. ASSUME NEW h \in Commands, Config(h) PROVE FSRepoTypeOK'
  <2>1. h \in Handles BY Zenon DEF Handles
  <2>2. item[ref[h]].conf \in Objects BY <1>8, <2>1, ItemOf, Zenon DEF Config, HoldPcs
  <2>3. [heap[item[ref[h]].conf] EXCEPT ![Edit[h].key] = Edit[h].val] \in Configs
    <3>1. heap[item[ref[h]].conf] \in Configs BY <2>2, Zenon DEF FSRepoTypeOK
    <3> QED BY <3>1, EditType, Zenon
  <2>4. Made(h) \in Objects BY <2>1, Zenon DEF Objects
  <2>5. heap' \in [Objects -> Configs] /\ edits' \in [Handles -> Objects]
    <3> DEFINE new == [heap[item[ref[h]].conf] EXCEPT ![Edit[h].key] = Edit[h].val]
    <3>1. \E o \in Objects : heap' = [heap EXCEPT ![o] = new] /\ edits' = [edits EXCEPT ![h] = o]
      BY <1>8, <2>2, <2>4, Zenon DEF Config
    <3>2. new \in Configs BY <2>3, Zenon
    <3> HIDE DEF new
    <3> QED BY <2>1, <3>1, <3>2 DEF FSRepoTypeOK
  <2> QED BY <1>8, <2>1, <2>5, Zenon DEF Config, Goto, files, locks, refs, FSRepoTypeOK
<1>9. ASSUME NEW h \in Commands, SetConfig(h) PROVE FSRepoTypeOK'
  <2>1. h \in Handles /\ edits[h] \in Objects BY Zenon DEF Handles, FSRepoTypeOK
  <2>2. MapMergeDeep(disk, heap[edits[h]]) \in Configs BY <2>1, EditType, Zenon DEF FSRepoTypeOK
  <2>3. [acked EXCEPT ![Edit[h].key] = Edit[h].val] \in Configs BY EditType, Zenon DEF FSRepoTypeOK
  <2>4. item' \in ItemSet
    <3>1. ref[h] \in Items /\ item \in ItemSet BY <1>9, <2>1, ItemOf, Zenon DEF SetConfig, HoldPcs
    <3>2. [item EXCEPT ![ref[h]].conf = edits[h]] \in ItemSet BY <2>1, <3>1, ItemFields, Zenon
    <3> QED BY <1>9, <3>1, <3>2, Zenon DEF SetConfig
  <2>5. disk' \in Configs /\ acked' \in Configs
    BY <1>9, <2>2, <2>3, Zenon DEF SetConfig, Acked, FSRepoTypeOK
  <2> QED BY <1>9, <2>1, <2>4, <2>5 DEF SetConfig, Fault, Goto, locks, FSRepoTypeOK, ItemSet
<1>10. ASSUME NEW h \in Commands, SetConfigKey(h) PROVE FSRepoTypeOK'
  <2>1. h \in Handles /\ Made(h) \in Objects BY Zenon DEF Handles, Objects
  <2>2. [disk EXCEPT ![Edit[h].key] = Edit[h].val] \in Configs
        /\ [acked EXCEPT ![Edit[h].key] = Edit[h].val] \in Configs
    BY EditType, Zenon DEF FSRepoTypeOK
  <2>3. item' \in ItemSet
    <3>1. ref[h] \in Items /\ item \in ItemSet BY <1>10, <2>1, ItemOf, Zenon DEF SetConfigKey, HoldPcs
    <3>2. [item EXCEPT ![ref[h]].conf = Made(h)] \in ItemSet BY <2>1, <3>1, ItemFields, Zenon
    <3> QED BY <1>10, <3>2, Zenon DEF SetConfigKey
  <2>4. disk' \in Configs /\ acked' \in Configs /\ heap' \in [Objects -> Configs]
    BY <1>10, <2>1, <2>2, Zenon DEF SetConfigKey, Acked, FSRepoTypeOK
  <2> QED BY <1>10, <2>1, <2>3, <2>4 DEF SetConfigKey, Fault, Goto, locks, FSRepoTypeOK, ItemSet
<1>11. ASSUME NEW h \in Commands, Refused(h) PROVE FSRepoTypeOK'
  BY <1>11, Zenon DEF Refused, Goto, files, locks, refs, edit, FSRepoTypeOK, Handles
<1>12. ASSUME NEW p \in Procs, Crash(p) PROVE FSRepoTypeOK'
  <2>1. item' \in ItemSet
    <3>1. ASSUME NEW i \in Items
          PROVE  item'[i] \in [refs : 0..RefMod-1, closed : BOOLEAN, conf : Objects]
      <4>1. item'[i] = [item[i] EXCEPT !.closed = @ \/ \E h \in Handles : ProcOf[h] = p /\ ref[h] = i]
        BY <1>12, Zenon DEF Crash
      <4> DEFINE b == item[i].closed \/ \E h \in Handles : ProcOf[h] = p /\ ref[h] = i
      <4>2. b \in BOOLEAN BY Zenon
      <4>3. item'[i] = [item[i] EXCEPT !.closed = b] BY <4>1, Zenon
      <4>4. item[i] \in [refs : 0..RefMod-1, closed : BOOLEAN, conf : Objects] BY Zenon DEF FSRepoTypeOK
      <4> HIDE DEF b
      <4> QED BY <4>2, <4>3, <4>4, Zenon
    <3> QED BY <1>12, <3>1, Zenon DEF Crash, ItemSet
  <2> QED BY <1>12, <2>1 DEF Crash, Fault, files, edit, FSRepoTypeOK, ItemSet
<1> QED BY <1>1, <1>2, <1>3, <1>4, <1>5, <1>6, <1>7, <1>8, <1>9, <1>10, <1>11, <1>12, Zenon
        DEF FSRepoNext, Open

-----------------------------------------------------------------------------
(* Handles *)

LEMMA LocalInit == FSRepoInit => LocalInv
BY FSRepoAssumption DEF FSRepoInit, LocalInv, Full, InitPcs, HoldPcs, ClosePcs

\* Of the handles of a process, at most one is inside Init or FSRepo.Close.
LEMMA LocalStep ==
  ASSUME FSRepoTypeOK, LocalInv, FSRepoNext
  PROVE  LocalInv'
<1> USE FSRepoAssumption DEF LocalInv, Full, InitPcs, HoldPcs, ClosePcs
<1>1. ASSUME NEW h \in Inits, InitStart(h) PROVE LocalInv'
  BY <1>1 DEF InitStart, Goto, Free, refs, FSRepoTypeOK, Handles
<1>2. ASSUME NEW h \in Inits, InitStep(h) PROVE LocalInv'
  <2>1. h \in Handles BY Zenon DEF Handles
  <2>2. ASSUME NEW part \in InitPcs, NEW next \in {"spec", "version", "inited"}, InitWrite(h, part, next)
        PROVE  LocalInv'
    BY <2>1, <2>2 DEF InitWrite, Goto, refs, FSRepoTypeOK
  <2> QED BY <1>2, <2>2, Zenon DEF InitStep
<1>3. ASSUME NEW h \in Daemons, SetAPIAddr(h) PROVE LocalInv'
  BY <1>3, Zenon DEF SetAPIAddr, Goto, locks, FSRepoTypeOK, Handles
<1>4. ASSUME NEW h \in Daemons \cup Commands, Open(h) PROVE LocalInv'
  <2>1. h \in Handles /\ pc[h] = "idle" /\ left' = left /\ busy' = busy /\ pc' = [pc EXCEPT ![h] = "open"]
    BY <1>4, Zenon DEF Handles, Open, Goto
  <2>2. \E i \in Nat \ {0} : ref' = [ref EXCEPT ![h] = i]
    <3>1. opens + 1 \in Nat \ {0} /\ active[ProcOf[h]] \in Nat BY <2>1, SMTT(30) DEF FSRepoTypeOK
    <3> QED BY <1>4, <3>1, Zenon DEF Open, OpenShared, OpenNew
  <2> QED BY <2>1, <2>2, SMTT(30) DEF FSRepoTypeOK
<1>5. ASSUME NEW h \in Daemons \cup Commands, Close(h) PROVE LocalInv'
  <2>1. h \in Handles /\ ref' = ref /\ left[h] > 0 /\ left' = [left EXCEPT ![h] = left[h] - 1] /\ busy[ProcOf[h]] = None
        /\ pc[h] \in HoldPcs \cup {"closed"}
    BY <1>5, Zenon DEF Close, CloseRef, Free, Handles
  <2>2. \/ pc' = [pc EXCEPT ![h] = "closed"] /\ busy' = busy
        \/ pc' = [pc EXCEPT ![h] = "remove"] /\ busy' = [busy EXCEPT ![ProcOf[h]] = h]
    BY <1>5, Zenon DEF Close, CloseRef, Goto
  <2>3. ref[h] # 0 /\ left[h] \in 1..Full(h) BY <2>1 DEF FSRepoTypeOK
  <2>4. \A g \in Handles : g # h => pc'[g] = pc[g] /\ left'[g] = left[g] BY <2>1, <2>2 DEF FSRepoTypeOK
  <2>5. \A g \in Handles : g # h /\ pc[g] \in InitPcs \cup ClosePcs => busy'[ProcOf[g]] = g
    BY <2>1, <2>2 DEF FSRepoTypeOK
  <2>6. left'[h] = left[h] - 1 /\ pc'[h] \in {"closed", "remove"}
        /\ (pc'[h] = "remove" => busy'[ProcOf[h]] = h)
    BY <2>1, <2>2 DEF FSRepoTypeOK
  <2> DEFINE Local(g) == /\ left[g] \in 0..Full(g)
                         /\ pc[g] \in InitPcs \cup {"idle", "inited"} => ref[g] = 0 /\ left[g] = Full(g)
                         /\ pc[g] \in HoldPcs => ref[g] # 0 /\ left[g] = Full(g)
                         /\ pc[g] \in ClosePcs \cup {"closed"} => ref[g] # 0 /\ left[g] < Full(g)
                         /\ pc[g] \in InitPcs \cup ClosePcs => busy[ProcOf[g]] = g
                         /\ pc[g] \in InitPcs \cup {"inited"} => g \in Inits
                         /\ pc[g] = "edited" => g \in Cloners \cup InPlace
  <2>7. \A g \in Handles : g # h => Local(g)' BY <2>1, <2>4, <2>5
  <2>8. Local(h)' BY <2>1, <2>3, <2>6
  <2> HIDE DEF Full, InitPcs, HoldPcs, ClosePcs
  <2> QED BY <2>7, <2>8, Zenon
<1>6. ASSUME NEW h \in Daemons \cup Commands, RemoveApi(h) PROVE LocalInv'
  BY <1>6, ZenonT(60) DEF RemoveApi, Goto, locks, FSRepoTypeOK, Handles
<1>7. ASSUME NEW h \in Daemons \cup Commands, Unlock(h) PROVE LocalInv'
  <2>1. h \in Handles /\ pc[h] = "unlock" /\ pc' = [pc EXCEPT ![h] = "closed"] /\ ref' = ref /\ left' = left
        /\ busy' = [busy EXCEPT ![ProcOf[h]] = None]
    BY <1>7, Zenon DEF Unlock, Goto, Handles
  <2> QED BY <2>1, SMTT(30) DEF FSRepoTypeOK
<1>8. ASSUME NEW h \in Commands, Config(h) \/ SetConfig(h) \/ SetConfigKey(h) \/ Refused(h) PROVE LocalInv'
  <2>1. h \in Handles /\ ref' = ref /\ left' = left /\ busy' = busy /\ pc[h] \in {"open", "edited"}
    BY <1>8, ZenonT(60) DEF Config, SetConfig, SetConfigKey, Refused, Goto, locks, Handles
  <2>2. \/ pc' = [pc EXCEPT ![h] = "edited"] /\ h \in Cloners \cup InPlace
        \/ pc' = [pc EXCEPT ![h] = "done"]
    BY <1>8, Zenon DEF Config, SetConfig, SetConfigKey, Refused, Goto
  <2> QED BY <2>1, <2>2, SMTT(30) DEF FSRepoTypeOK
<1>9. ASSUME NEW p \in Procs, Crash(p) PROVE LocalInv'
  <2>1. ref' = ref /\ left' = left /\ busy' = [busy EXCEPT ![p] = None]
        /\ pc' = [h \in Handles |-> IF ProcOf[h] = p /\ pc[h] # "idle" THEN "dead" ELSE pc[h]]
    BY <1>9, Zenon DEF Crash
  <2> QED BY <2>1, ZenonT(60) DEF FSRepoTypeOK
<1> QED BY <1>1, <1>2, <1>3, <1>4, <1>5, <1>6, <1>7, <1>8, <1>9, Zenon DEF FSRepoNext

\* The types hold however many handles there are.
THEOREM RepoTypeCorrect == FSRepoSpec => []FSRepoTypeOK
<1>1. FSRepoTypeOK /\ LocalInv /\ [FSRepoNext]_repovars => (FSRepoTypeOK /\ LocalInv)'
  <2>1. CASE FSRepoNext BY <2>1, TypeStep, LocalStep, Zenon
  <2>2. CASE UNCHANGED repovars
    BY <2>2, Zenon DEF repovars, files, locks, refs, edit, FSRepoTypeOK, LocalInv
  <2> QED BY <2>1, <2>2, Zenon
<1> QED BY TypeInit, LocalInit, <1>1, PTL DEF FSRepoSpec

-----------------------------------------------------------------------------
(* Items and the lock *)

CountsInv == OpenInv /\ LastInv /\ CountInv

LEMMA CountsInit == FSRepoInit => CountsInv
BY FSRepoAssumption DEF FSRepoInit, CountsInv, OpenInv, LastInv, CountInv, ClosePcs

LEMMA RepoInvInit == FSRepoInit => RepoInv
BY TypeInit, LocalInit, CountsInit, Zenon DEF RepoInv, CountsInv

\* A step that opens, closes and kills nothing.
Quiet ==
  /\ UNCHANGED <<lock, active, opens, ref, left>>
  /\ \A i \in Items : item'[i].refs = item[i].refs /\ item'[i].closed = item[i].closed
  /\ \A h \in Handles : (pc'[h] = "dead" <=> pc[h] = "dead") /\ (pc'[h] \in ClosePcs => pc[h] \in ClosePcs)

LEMMA QuietStep ==
  ASSUME RepoInv, Quiet
  PROVE  CountsInv'
<1>1. \A h \in Handles : ref[h] # 0 => ref[h] \in Items
  BY FSRepoAssumption DEF RepoInv, FSRepoTypeOK, Items
<1>2. \A p \in Procs : active[p] # 0 => active[p] \in Items
  BY FSRepoAssumption DEF RepoInv, FSRepoTypeOK, Items
<1>3. \A j \in 1..opens : j \in Items BY FSRepoAssumption DEF RepoInv, FSRepoTypeOK, Items
<1>4. \A h \in Handles : ref[h] # 0 => item'[ref'[h]].closed = item[ref[h]].closed BY <1>1, Zenon DEF Quiet
<1>5. OpenInv' BY <1>4, SMTT(30) DEF Quiet, RepoInv, OpenInv
<1>6. LastInv'
  <2>1. \A p \in Procs : active[p] # 0 => item'[active'[p]].closed = item[active[p]].closed BY <1>2, Zenon DEF Quiet
  <2>2. \A p \in Procs : active'[p] # 0 =>
          lock' = p /\ ~item'[active'[p]].closed /\ Balance(ref', left', active'[p]) > 0
    BY <2>1, Zenon DEF Quiet, RepoInv, LastInv
  <2>3. \A h \in Handles : pc'[h] \in ClosePcs =>
          lock' = ProcOf[h] /\ active'[ProcOf[h]] = 0 /\ ~item'[ref'[h]].closed
    <3> SUFFICES ASSUME NEW h \in Handles, pc'[h] \in ClosePcs
                 PROVE  lock' = ProcOf[h] /\ active'[ProcOf[h]] = 0 /\ ~item'[ref'[h]].closed
      BY Zenon
    <3>1. pc[h] \in ClosePcs /\ ref[h] # 0 BY Zenon DEF Quiet, RepoInv, LocalInv
    <3> QED BY <1>4, <3>1, Zenon DEF Quiet, RepoInv, LastInv
  <2> QED BY <2>2, <2>3, Zenon DEF LastInv
<1>7. CountInv'
  <2>1. \A j \in 1..opens' : item'[j].refs = Wrap(Balance(ref', left', j))
    BY <1>3, Zenon DEF Quiet, RepoInv, CountInv
  <2>2. \A h \in Handles : ref'[h] # 0 /\ pc'[h] # "dead" /\ active'[ProcOf[h]] # ref'[h] =>
          Balance(ref', left', ref'[h]) <= 0
    BY Zenon DEF Quiet, RepoInv, CountInv
  <2> QED BY <2>1, <2>2, Zenon DEF CountInv
<1> QED BY <1>5, <1>6, <1>7, Zenon DEF CountsInv

\* FSRepo.Close closes the one repo that is open and frees the lock.
LEMMA UnlockStep ==
  ASSUME RepoInv, NEW h \in Handles, Unlock(h)
  PROVE  CountsInv'
<1> DEFINE p == ProcOf[h]
           i == ref[h]
<1> USE FSRepoAssumption
<1>1. pc[h] = "unlock" /\ pc' = [pc EXCEPT ![h] = "closed"] /\ UNCHANGED <<active, opens, ref, left>>
  BY Zenon DEF Unlock, Goto
<1>2. lock = p /\ active[p] = 0 /\ ~item[i].closed /\ busy[p] = h /\ i # 0
  BY <1>1, Zenon DEF RepoInv, LastInv, LocalInv, ClosePcs
<1>3. \A g \in Handles : pc'[g] = IF g = h THEN "closed" ELSE pc[g] BY <1>1, Zenon DEF RepoInv, FSRepoTypeOK
<1>4. CASE item' = [item EXCEPT ![i].closed = TRUE] /\ lock' = None
  <2>1. \A k \in Items : item'[k].refs = item[k].refs /\ (item[k].closed => item'[k].closed)
    BY <1>4, SMTT(30) DEF RepoInv, FSRepoTypeOK
  <2>2. i \in Items BY <1>1, ItemOf, Zenon DEF RepoInv, ClosePcs
  <2>3. item'[i].closed BY <1>4, <2>2, ZenonT(60) DEF RepoInv, FSRepoTypeOK
  <2>4. \A g \in Handles : ref[g] # 0 => ref[g] \in Items BY DEF RepoInv, FSRepoTypeOK, Items
  <2>5. \A g \in Handles : ref[g] # 0 => item'[ref[g]].closed
    <3>1. \A g \in Handles : ref[g] # 0 /\ ~item[ref[g]].closed => ref[g] = i BY <1>2, Zenon DEF RepoInv, OpenInv
    <3> QED BY <2>1, <2>3, <2>4, <3>1, Zenon
  <2>6. OpenInv' BY <1>1, <1>4, <2>5 DEF RepoInv, OpenInv
  <2>7. LastInv'
    <3>1. \A q \in Procs : active'[q] = 0 BY <1>1, <1>2, Zenon DEF RepoInv, LastInv
    <3>2. \A g \in Handles : pc'[g] \notin ClosePcs
      <4> SUFFICES ASSUME NEW g \in Handles, pc'[g] \in ClosePcs PROVE FALSE BY Zenon
      <4>1. g # h /\ pc[g] \in ClosePcs BY <1>3, Zenon DEF ClosePcs
      <4>2. lock = ProcOf[g] /\ busy[ProcOf[g]] = g BY <4>1, Zenon DEF RepoInv, LastInv, LocalInv
      <4> QED BY <1>2, <4>1, <4>2, Zenon
    <3> QED BY <3>1, <3>2, Zenon DEF LastInv
  <2>8. CountInv'
    <3>1. \A j \in 1..opens' : item'[j].refs = Wrap(Balance(ref', left', j))
      <4>1. 1..opens \subseteq Items BY DEF RepoInv, FSRepoTypeOK, Items
      <4> QED BY <1>1, <2>1, <4>1, Zenon DEF RepoInv, CountInv
    <3>2. \A g \in Handles : ref'[g] # 0 /\ pc'[g] # "dead" /\ active'[ProcOf[g]] # ref'[g] =>
            Balance(ref', left', ref'[g]) <= 0
      <4>1. \A g \in Handles : pc'[g] # "dead" => pc[g] # "dead" BY <1>1, <1>3, Zenon
      <4> QED BY <1>1, <4>1, Zenon DEF RepoInv, CountInv
    <3> QED BY <3>1, <3>2, Zenon DEF CountInv
  <2> QED BY <2>6, <2>7, <2>8, Zenon DEF CountsInv
<1>5. CASE UNCHANGED <<item, lock>>
  <2>1. Quiet BY <1>1, <1>3, <1>5 DEF Quiet, ClosePcs
  <2> QED BY <2>1, QuietStep, Zenon
<1> QED BY <1>4, <1>5, Zenon DEF Unlock

\* A crash closes what its process had open, and nothing else.
LEMMA CrashStep ==
  ASSUME RepoInv, NEW p \in Procs, Crash(p)
  PROVE  CountsInv'
<1> USE FSRepoAssumption
<1>1. pc' = [h \in Handles |-> IF ProcOf[h] = p /\ pc[h] # "idle" THEN "dead" ELSE pc[h]]
      /\ lock' = (IF lock = p THEN None ELSE lock) /\ active' = [active EXCEPT ![p] = 0]
      /\ UNCHANGED <<opens, ref, left>>
  BY Zenon DEF Crash
<1>2. \A k \in Items :
        /\ item'[k].refs = item[k].refs
        /\ item'[k].closed <=> (item[k].closed \/ \E h \in Handles : ProcOf[h] = p /\ ref[h] = k)
  <2> SUFFICES ASSUME NEW k \in Items
               PROVE  /\ item'[k].refs = item[k].refs
                      /\ item'[k].closed <=> (item[k].closed \/ \E h \in Handles : ProcOf[h] = p /\ ref[h] = k)
    BY Zenon
  <2> DEFINE b == item[k].closed \/ \E h \in Handles : ProcOf[h] = p /\ ref[h] = k
  <2>1. item'[k] = [item[k] EXCEPT !.closed = b] BY Zenon DEF Crash
  <2>2. item[k] \in [refs : 0..RefMod-1, closed : BOOLEAN, conf : Objects] BY Zenon DEF RepoInv, FSRepoTypeOK
  <2>3. b \in BOOLEAN BY Zenon
  <2>4. item'[k].refs = item[k].refs /\ item'[k].closed = b
    <3> HIDE DEF b
    <3> QED BY <2>1, <2>2, <2>3, Zenon
  <2> QED BY <2>4, Zenon
<1>3. \A g \in Handles : ref[g] # 0 => ref[g] \in Items BY DEF RepoInv, FSRepoTypeOK, Items
<1>4. \A f, g \in Handles : ref[f] # 0 /\ ref[f] = ref[g] => ProcOf[f] = ProcOf[g] BY Zenon DEF RepoInv, OpenInv
<1>5. \A g \in Handles : ref[g] # 0 =>
        /\ ProcOf[g] = p => item'[ref[g]].closed
        /\ ProcOf[g] # p => (item'[ref[g]].closed <=> item[ref[g]].closed)
  <2> SUFFICES ASSUME NEW g \in Handles, ref[g] # 0
               PROVE  /\ ProcOf[g] = p => item'[ref[g]].closed
                      /\ ProcOf[g] # p => (item'[ref[g]].closed <=> item[ref[g]].closed)
    BY Zenon
  <2>1. item'[ref[g]].closed <=> (item[ref[g]].closed \/ \E h \in Handles : ProcOf[h] = p /\ ref[h] = ref[g])
    <3>1. ref[g] \in Items BY <1>3, Zenon
    <3> QED BY <1>2, <3>1, Zenon
  <2>2. (\E h \in Handles : ProcOf[h] = p /\ ref[h] = ref[g]) <=> ProcOf[g] = p BY <1>4, Zenon
  <2> QED BY <2>1, <2>2, Zenon
<1>6. \A g \in Handles : pc'[g] = IF ProcOf[g] = p /\ pc[g] # "idle" THEN "dead" ELSE pc[g] BY <1>1, Zenon
<1>7. \A g \in Handles : ref[g] # 0 => pc[g] # "idle" BY Zenon DEF RepoInv, LocalInv
<1>8. OpenInv'
  <2>1. \A g \in Handles : ref'[g] # 0 /\ ~item'[ref'[g]].closed => lock' = ProcOf[g] BY <1>1, <1>5, Zenon DEF RepoInv, OpenInv
  <2>2. \A f, g \in Handles :
          ref'[f] # 0 /\ ~item'[ref'[f]].closed /\ ref'[g] # 0 /\ ~item'[ref'[g]].closed => ref'[f] = ref'[g]
    BY <1>1, <1>5, Zenon DEF RepoInv, OpenInv
  <2>3. lock' # None => \E g \in Handles : ref'[g] # 0 /\ ~item'[ref'[g]].closed /\ lock' = ProcOf[g]
    <3> SUFFICES ASSUME lock' # None PROVE \E g \in Handles : ref'[g] # 0 /\ ~item'[ref'[g]].closed /\ lock' = ProcOf[g]
      BY Zenon
    <3>1. lock # None /\ lock # p /\ lock' = lock BY <1>1, Zenon
    <3>2. PICK g \in Handles : ref[g] # 0 /\ ~item[ref[g]].closed /\ lock = ProcOf[g] BY <3>1, Zenon DEF RepoInv, OpenInv
    <3> QED BY <1>1, <1>5, <3>1, <3>2, Zenon
  <2>4. \A g \in Handles : pc'[g] = "dead" /\ ref'[g] # 0 => item'[ref'[g]].closed
    BY <1>1, <1>5, <1>6, Zenon DEF RepoInv, OpenInv
  <2> QED BY <1>1, <1>4, <2>1, <2>2, <2>3, <2>4, ZenonT(60) DEF OpenInv
<1>9. LastInv'
  <2>1. ASSUME NEW q \in Procs, active'[q] # 0
        PROVE  lock' = q /\ ~item'[active'[q]].closed /\ Balance(ref', left', active'[q]) > 0
    <3>1. q # p /\ active'[q] = active[q] BY <1>1, <2>1, Zenon DEF RepoInv, FSRepoTypeOK
    <3>2. lock = q /\ ~item[active[q]].closed /\ Balance(ref, left, active[q]) > 0 BY <2>1, <3>1, Zenon DEF RepoInv, LastInv
    <3>3. active[q] \in Items
      <4>1. active[q] \in 0..opens /\ opens \in 0..MaxOpens BY Zenon DEF RepoInv, FSRepoTypeOK
      <4>2. active[q] # 0 BY <2>1, <3>1, Zenon
      <4> QED BY <4>1, <4>2 DEF Items
    <3>4. \A g \in Handles : ref[g] = active[q] => ProcOf[g] # p
      <4>1. \A g \in Handles : ref[g] # 0 /\ ~item[ref[g]].closed => lock = ProcOf[g] BY Zenon DEF RepoInv, OpenInv
      <4> QED BY <2>1, <3>1, <3>2, <4>1, Zenon
    <3>7. item'[active[q]].closed <=> (item[active[q]].closed \/ \E h \in Handles : ProcOf[h] = p /\ ref[h] = active[q])
      BY <1>2, <3>3, Zenon
    <3>5. ~item'[active[q]].closed BY <3>2, <3>4, <3>7, Zenon
    <3>6. lock' = lock BY <1>1, <3>1, <3>2, Zenon
    <3> QED BY <1>1, <3>1, <3>2, <3>5, <3>6, Zenon
  <2>2. ASSUME NEW g \in Handles, pc'[g] \in ClosePcs
        PROVE  lock' = ProcOf[g] /\ active'[ProcOf[g]] = 0 /\ ~item'[ref'[g]].closed
    <3>1. ProcOf[g] # p /\ pc[g] \in ClosePcs BY <1>6, <2>2, Zenon DEF ClosePcs
    <3>2. lock = ProcOf[g] /\ active[ProcOf[g]] = 0 /\ ~item[ref[g]].closed /\ ref[g] # 0
      BY <3>1, Zenon DEF RepoInv, LastInv, LocalInv
    <3>3. active'[ProcOf[g]] = active[ProcOf[g]] BY <1>1, <3>1, Zenon DEF RepoInv, FSRepoTypeOK
    <3>4. ~item'[ref[g]].closed BY <1>5, <3>1, <3>2, Zenon
    <3>5. lock' = lock /\ ref' = ref BY <1>1, <3>1, <3>2, Zenon
    <3> QED BY <3>2, <3>3, <3>4, <3>5, Zenon
  <2> QED BY <2>1, <2>2, Zenon DEF LastInv
<1>10. CountInv'
  <2>1. \A j \in 1..opens' : item'[j].refs = Wrap(Balance(ref', left', j))
    <3>1. 1..opens \subseteq Items BY DEF RepoInv, FSRepoTypeOK, Items
    <3> QED BY <1>1, <1>2, <3>1, Zenon DEF RepoInv, CountInv
  <2>2. ASSUME NEW g \in Handles, ref'[g] # 0, pc'[g] # "dead", active'[ProcOf[g]] # ref'[g]
        PROVE  Balance(ref', left', ref'[g]) <= 0
    <3>1. ProcOf[g] # p BY <1>1, <1>6, <1>7, <2>2, Zenon
    <3>2. active'[ProcOf[g]] = active[ProcOf[g]] /\ pc'[g] = pc[g] BY <1>1, <1>6, <3>1, Zenon DEF RepoInv, FSRepoTypeOK
    <3> QED BY <1>1, <2>2, <3>2, Zenon DEF RepoInv, CountInv
  <2> QED BY <2>1, <2>2, Zenon DEF CountInv
<1> QED BY <1>8, <1>9, <1>10, Zenon DEF CountsInv

\* Who holds a reference, in a process whose daemon has not closed twice, holds
\* it to the repo its process has open.
HeldInv ==
  \A h \in Handles : pc[h] \in HoldPcs /\ ~Overclosed(ProcOf[h]) =>
    ref[h] # 0 /\ active[ProcOf[h]] = ref[h] /\ lock = ProcOf[h] /\ ~item[ref[h]].closed

-----------------------------------------------------------------------------
(* The api file and Init *)

\* A daemon that has not stopped holds the lock.
LEMMA DaemonHolds ==
  ASSUME OneDaemon, RepoInv, HeldInv, NEW d \in Daemons, pc[d] \in {"open", "serving"}
  PROVE  lock = ProcOf[d] /\ active[ProcOf[d]] # 0
<1>1. d \in Handles /\ pc[d] \in HoldPcs BY Zenon DEF Handles, HoldPcs
<1>2. left[d] # 0 BY <1>1 DEF RepoInv, LocalInv, Full
<1>3. ~Overclosed(ProcOf[d]) BY <1>2, Zenon DEF Overclosed, OneDaemon
<1> QED BY <1>1, <1>3, Zenon DEF HeldInv

LEMMA ServingStep ==
  ASSUME OneDaemon, RepoInv, HeldInv, DaemonReachable, FSRepoNext
  PROVE  DaemonReachable'
<1> SUFFICES ASSUME NEW d \in Daemons, pc'[d] = "serving" PROVE api' = ProcOf[d] BY Zenon DEF DaemonReachable
<1>0. d \in Handles BY Zenon DEF Handles
<1>1. ASSUME NEW h \in Daemons, SetAPIAddr(h) PROVE api' = ProcOf[d]
  <2>1. pc[h] = "open" /\ api' = ProcOf[h] /\ (d = h \/ pc[d] = "serving")
    BY <1>0, <1>1, Zenon DEF SetAPIAddr, Goto, RepoInv, FSRepoTypeOK
  <2>2. CASE pc[d] = "serving"
    <3>1. lock = ProcOf[d] BY <2>2, DaemonHolds, Zenon
    <3>2. lock = ProcOf[h] BY <2>1, DaemonHolds, Zenon
    <3> QED BY <2>1, <3>1, <3>2, Zenon
  <2> QED BY <2>1, <2>2, Zenon
<1>2. ASSUME NEW h \in Daemons \cup Commands, RemoveApi(h) PROVE api' = ProcOf[d]
  <2>1. h \in Handles /\ pc[h] \in ClosePcs /\ pc[d] = "serving"
    BY <1>0, <1>2, Zenon DEF RemoveApi, Goto, RepoInv, FSRepoTypeOK, ClosePcs, Handles
  <2>2. lock = ProcOf[d] /\ active[ProcOf[d]] # 0 BY <2>1, DaemonHolds, Zenon
  <2>3. lock = ProcOf[h] /\ active[ProcOf[h]] = 0 BY <2>1, Zenon DEF RepoInv, LastInv
  <2> QED BY <2>2, <2>3, Zenon
<1>3. ASSUME api' = api, pc[d] = "serving" PROVE api' = ProcOf[d] BY <1>3, Zenon DEF DaemonReachable
<1>4. ASSUME NEW h \in Handles, NEW l, l # "serving", pc' = [pc EXCEPT ![h] = l] PROVE pc[d] = "serving"
  BY <1>0, <1>4, Zenon DEF RepoInv, FSRepoTypeOK
<1>5. ASSUME NEW h \in Inits, InitStart(h) \/ InitStep(h) PROVE api' = ProcOf[d]
  <2>1. h \in Handles /\ api' = api /\ \E l \in {"inited", "config", "spec", "version"} : pc' = [pc EXCEPT ![h] = l]
    BY <1>5, Zenon DEF InitStart, InitStep, InitWrite, Goto, files, Handles
  <2> QED BY <1>3, <1>4, <2>1, Zenon
<1>6. ASSUME NEW h \in Daemons \cup Commands, Open(h) \/ Close(h) \/ Unlock(h) PROVE api' = ProcOf[d]
  <2>1. h \in Handles /\ api' = api /\ \E l \in {"open", "closed", "remove"} : pc' = [pc EXCEPT ![h] = l]
    BY <1>6, Zenon DEF Open, Close, CloseRef, Unlock, Goto, files, Handles
  <2> QED BY <1>3, <1>4, <2>1, Zenon
<1>7. ASSUME NEW h \in Commands, Config(h) \/ SetConfig(h) \/ SetConfigKey(h) \/ Refused(h) PROVE api' = ProcOf[d]
  <2>1. h \in Handles /\ api' = api /\ \E l \in {"edited", "done"} : pc' = [pc EXCEPT ![h] = l]
    BY <1>7, Zenon DEF Config, SetConfig, SetConfigKey, Refused, Goto, files, Handles
  <2> QED BY <1>3, <1>4, <2>1, Zenon
<1>8. ASSUME NEW p \in Procs, Crash(p) PROVE api' = ProcOf[d]
  <2>1. api' = api /\ pc[d] = "serving" BY <1>0, <1>8, Zenon DEF Crash, files
  <2> QED BY <1>3, <2>1, Zenon
<1> QED BY <1>1, <1>2, <1>5, <1>6, <1>7, <1>8, Zenon DEF FSRepoNext

\* Init: the config file comes first and the version last, in one process at a
\* time.
LEMMA InitInvStep ==
  ASSUME OneInitProcess, RepoInv, InitInv, FSRepoNext
  PROVE  InitInv'
<1> SUFFICES ASSUME faults' = 0
             PROVE  /\ "config" \in parts' /\ parts' # Parts => \E h \in Inits : pc'[h] \in {"spec", "version"}
                    /\ \A h \in Inits : /\ pc'[h] \in {"spec", "version", "inited"} => "config" \in parts'
                                        /\ pc'[h] \in {"version", "inited"} => "spec" \in parts'
                                        /\ pc'[h] = "inited" => "version" \in parts'
  BY Zenon DEF InitInv
<1>1. ASSUME NEW h \in Inits, InitStart(h) PROVE InitInv'
  <2>1. h \in Handles /\ pc[h] = "idle" /\ busy[ProcOf[h]] = None /\ parts' = parts /\ faults' = faults
    BY <1>1, Zenon DEF InitStart, Free, files, Handles
  <2>2. \A g \in Inits : pc[g] \notin InitPcs
    <3> SUFFICES ASSUME NEW g \in Inits, pc[g] \in InitPcs PROVE FALSE BY Zenon
    <3>1. g \in Handles /\ ProcOf[g] = ProcOf[h] BY Zenon DEF Handles, OneInitProcess
    <3>2. busy[ProcOf[g]] = g BY <3>1, Zenon DEF RepoInv, LocalInv
    <3> QED BY <2>1, <3>1, <3>2, FSRepoAssumption, Zenon
  <2>3. "config" \in parts => parts = Parts BY <2>1, <2>2, Zenon DEF InitInv, InitPcs
  <2>4. CASE "config" \in parts
    BY <2>1, <2>3, <2>4, Zenon DEF InitInv, Parts
  <2>5. CASE "config" \notin parts
    <3>1. pc' = [pc EXCEPT ![h] = "config"] BY <1>1, <2>5, Zenon DEF InitStart, Goto
    <3>2. \A g \in Inits : g \in Handles BY Zenon DEF Handles
    <3>3. \A g \in Inits : pc'[g] = IF g = h THEN "config" ELSE pc[g] BY <3>1, <3>2, Zenon DEF RepoInv, FSRepoTypeOK
    <3>4. \A g \in Inits : pc[g] \notin {"spec", "version", "inited"} BY <2>1, <2>5, Zenon DEF InitInv
    <3>5. \A g \in Inits : pc'[g] \notin {"spec", "version", "inited"} BY <3>3, <3>4, Zenon
    <3> QED BY <2>1, <2>5, <3>5, Zenon DEF InitInv
  <2> QED BY <2>4, <2>5, Zenon
<1>2. ASSUME NEW h \in Inits, InitStep(h) PROVE InitInv'
  <2>1. h \in Handles /\ faults' = faults /\ parts \subseteq Parts BY <1>2, Zenon DEF InitStep, InitWrite, Handles, RepoInv, FSRepoTypeOK
  <2>0. \A g \in Inits : g \in Handles BY Zenon DEF Handles
  <2>2. CASE pc[h] = "config" /\ parts' = parts \cup {"config"} /\ pc' = [pc EXCEPT ![h] = "spec"]
    <3>1. \A g \in Inits : pc'[g] = IF g = h THEN "spec" ELSE pc[g] BY <2>0, <2>2, Zenon DEF RepoInv, FSRepoTypeOK
    <3> QED BY <2>1, <2>2, <3>1 DEF InitInv
  <2>3. CASE pc[h] = "spec" /\ parts' = parts \cup {"spec"} /\ pc' = [pc EXCEPT ![h] = "version"]
    <3>1. \A g \in Inits : pc'[g] = IF g = h THEN "version" ELSE pc[g] BY <2>0, <2>3, Zenon DEF RepoInv, FSRepoTypeOK
    <3> QED BY <2>1, <2>3, <3>1 DEF InitInv
  <2>4. CASE pc[h] = "version" /\ parts' = parts \cup {"version"} /\ pc' = [pc EXCEPT ![h] = "inited"]
    <3>1. parts' = Parts BY <2>1, <2>4, Zenon DEF InitInv, Parts
    <3> QED BY <3>1, Zenon DEF InitInv, Parts
  <2> QED BY <1>2, <2>2, <2>3, <2>4, Zenon DEF InitStep, InitWrite, Goto
<1>3. ASSUME parts' = parts, faults = 0,
             \A g \in Inits : pc[g] \in {"spec", "version"} => pc'[g] = pc[g],
             \A g \in Inits : pc'[g] \in {"spec", "version", "inited"} => pc'[g] = pc[g]
      PROVE  InitInv'
  <2>1. \A g \in Inits : pc'[g] \in {"spec", "version", "inited"} => pc[g] \in {"spec", "version", "inited"} BY <1>3, Zenon
  <2> QED BY <1>3, <2>1, Zenon DEF InitInv
<1>4. ASSUME NEW h \in Handles, pc[h] \notin {"spec", "version"}, NEW l, l \notin {"spec", "version", "inited"},
             pc' = [pc EXCEPT ![h] = l], parts' = parts, faults = 0
      PROVE  InitInv'
  <2>1. \A g \in Inits : g \in Handles BY Zenon DEF Handles
  <2>2. \A g \in Inits : pc'[g] = IF g = h THEN l ELSE pc[g] BY <1>4, <2>1, Zenon DEF RepoInv, FSRepoTypeOK
  <2> QED BY <1>3, <1>4, <2>2, Zenon
<1>5. ASSUME NEW h \in Daemons, SetAPIAddr(h) PROVE InitInv'
  <2>1. h \in Handles /\ pc[h] = "open" /\ pc' = [pc EXCEPT ![h] = "serving"] /\ parts' = parts /\ faults = 0
    BY <1>5, Zenon DEF SetAPIAddr, Goto, Handles
  <2> QED BY <1>4, <2>1, Zenon
<1>6. ASSUME NEW h \in Daemons \cup Commands, Open(h) \/ Close(h) \/ RemoveApi(h) \/ Unlock(h) PROVE InitInv'
  <2>1. h \in Handles /\ pc[h] \notin {"spec", "version"} /\ parts' = parts
        /\ \E l \in {"open", "closed", "remove", "unlock"} : pc' = [pc EXCEPT ![h] = l]
    BY <1>6, Zenon DEF Open, Close, CloseRef, RemoveApi, Unlock, Goto, files, Handles
  <2>2. faults = 0
    <3>1. faults' = faults \/ faults' = faults + 1 BY <1>6, Zenon DEF Open, Close, RemoveApi, Unlock, Fault
    <3> QED BY <3>1 DEF RepoInv, FSRepoTypeOK
  <2> QED BY <1>4, <2>1, <2>2, Zenon
<1>7. ASSUME NEW h \in Commands, Config(h) \/ SetConfig(h) \/ SetConfigKey(h) \/ Refused(h) PROVE InitInv'
  <2>1. h \in Handles /\ pc[h] \notin {"spec", "version"} /\ parts' = parts
        /\ \E l \in {"edited", "done"} : pc' = [pc EXCEPT ![h] = l]
    BY <1>7, ZenonT(60) DEF Config, SetConfig, SetConfigKey, Refused, Goto, files, Handles
  <2>2. faults = 0
    <3>1. faults' = faults \/ faults' = faults + 1 BY <1>7, Zenon DEF Config, SetConfig, SetConfigKey, Refused, Fault
    <3> QED BY <3>1 DEF RepoInv, FSRepoTypeOK
  <2> QED BY <1>4, <2>1, <2>2, Zenon
<1>8. ASSUME NEW p \in Procs, Crash(p) PROVE FALSE
  BY <1>8 DEF Crash, Fault, RepoInv, FSRepoTypeOK
<1> QED BY <1>1, <1>2, <1>5, <1>6, <1>7, <1>8, Zenon DEF FSRepoNext, InitInv

-----------------------------------------------------------------------------
(* The config file *)

Editors == Cloners \cup InPlace

\* An editor at work has the lock, so nobody else has the repo open.
LEMMA EditorHolds ==
  ASSUME SoleEditor, RepoInv, HeldInv, NEW h \in Editors, pc[h] \in {"open", "edited"}
  PROVE  /\ h \in Handles /\ ref[h] # 0 /\ ~item[ref[h]].closed /\ lock = ProcOf[h]
         /\ \A g \in Handles : lock = ProcOf[g] => g = h
<1>1. h \in Handles /\ pc[h] \in HoldPcs BY Zenon DEF Editors, Handles, Commands, HoldPcs
<1>2. ~Overclosed(ProcOf[h])
  <2> SUFFICES ASSUME NEW d \in Daemons, ProcOf[d] = ProcOf[h] PROVE FALSE BY Zenon DEF Overclosed
  <2>1. d \in Handles BY Zenon DEF Handles
  <2> QED BY <2>1, Zenon DEF SoleEditor, Editors
<1>3. ref[h] # 0 /\ ~item[ref[h]].closed /\ lock = ProcOf[h] BY <1>1, <1>2, Zenon DEF HeldInv
<1> QED BY <1>1, <1>3, Zenon DEF SoleEditor, Editors

\* A step that touches neither the file nor a config object.
LEMMA EditQuiet ==
  ASSUME RepoInv, EditInv, UNCHANGED <<disk, heap, edits>>,
         \A h \in Editors : pc'[h] \in {"open", "edited"} => pc'[h] = pc[h] /\ ref'[h] = ref[h],
         \A i \in Items : item'[i].conf = item[i].conf /\ (item[i].closed => item'[i].closed)
  PROVE  EditInv'
<1> SUFFICES ASSUME NEW h \in Editors
             PROVE  /\ pc'[h] = "open" /\ ~item'[ref'[h]].closed => heap'[item'[ref'[h]].conf] = disk'
                    /\ pc'[h] = "edited" => heap'[edits'[h]] = [disk' EXCEPT ![Edit[h].key] = Edit[h].val]
  BY Zenon DEF EditInv, Editors
<1>1. ASSUME pc'[h] = "open", ~item'[ref'[h]].closed PROVE heap'[item'[ref'[h]].conf] = disk'
  <2>1. h \in Handles /\ pc[h] = "open" /\ ref'[h] = ref[h] BY <1>1, Zenon DEF Editors, Handles, Commands
  <2>2. ref[h] \in Items BY <2>1, ItemOf, Zenon DEF RepoInv, HoldPcs
  <2>3. ~item[ref[h]].closed /\ item'[ref'[h]].conf = item[ref[h]].conf BY <1>1, <2>1, <2>2, Zenon
  <2> QED BY <2>1, <2>3, Zenon DEF EditInv, Editors
<1>2. ASSUME pc'[h] = "edited" PROVE heap'[edits'[h]] = [disk' EXCEPT ![Edit[h].key] = Edit[h].val]
  BY <1>2, Zenon DEF EditInv, Editors
<1> QED BY <1>1, <1>2, Zenon

\* What a command that keeps the rest of the file writes: the file with its one
\* key changed.
LEMMA MergeKeeps ==
  ASSUME NEW c \in Configs, NEW h \in Commands, Edit[h].val # NoValue
  PROVE  MapMergeDeep(c, [c EXCEPT ![Edit[h].key] = Edit[h].val]) = [c EXCEPT ![Edit[h].key] = Edit[h].val]
<1>1. Edit[h].key \in Keys BY FSRepoAssumption, Zenon
<1> QED BY <1>1, Zenon DEF MapMergeDeep, Configs

LEMMA EditStep ==
  ASSUME SoleEditor, RepoInv, HeldInv, EditInv, AckedKept, FSRepoNext
  PROVE  EditInv' /\ AckedKept'
<1>a. \A h \in Editors : h \in Handles /\ h \in Commands BY Zenon DEF Editors, Handles, Commands
<1>b. \A i \in Items : item[i] \in [refs : 0..RefMod-1, closed : BOOLEAN, conf : Objects]
  BY Zenon DEF RepoInv, FSRepoTypeOK
<1>1. ASSUME NEW h \in Inits, InitStart(h) \/ InitStep(h) PROVE EditInv' /\ AckedKept'
  <2>1. h \in Handles /\ UNCHANGED <<disk, heap, edits, acked, item, ref>>
        /\ \E l \in {"inited", "config", "spec", "version"} : pc' = [pc EXCEPT ![h] = l]
    BY <1>1, ZenonT(60) DEF InitStart, InitStep, InitWrite, Goto, files, edit, refs, Handles
  <2>2. \A g \in Editors : pc'[g] \in {"open", "edited"} => pc'[g] = pc[g] /\ ref'[g] = ref[g]
    BY <1>a, <2>1, Zenon DEF RepoInv, FSRepoTypeOK
  <2>3. EditInv' BY <2>1, <2>2, EditQuiet, Zenon
  <2> QED BY <2>1, <2>3, Zenon DEF AckedKept
<1>2. ASSUME NEW h \in Daemons, SetAPIAddr(h) PROVE EditInv' /\ AckedKept'
  <2>1. h \in Handles /\ UNCHANGED <<disk, heap, edits, acked, item, ref>> /\ pc' = [pc EXCEPT ![h] = "serving"]
    BY <1>2, Zenon DEF SetAPIAddr, Goto, edit, refs, Handles
  <2>2. \A g \in Editors : pc'[g] \in {"open", "edited"} => pc'[g] = pc[g] /\ ref'[g] = ref[g]
    BY <1>a, <2>1, Zenon DEF RepoInv, FSRepoTypeOK
  <2>3. EditInv' BY <2>1, <2>2, EditQuiet, Zenon
  <2> QED BY <2>1, <2>3, Zenon DEF AckedKept
<1>3. ASSUME NEW h \in Daemons \cup Commands, Close(h) \/ RemoveApi(h) \/ Unlock(h) \/ Refused(h)
      PROVE  EditInv' /\ AckedKept'
  <2>1. h \in Handles /\ UNCHANGED <<disk, heap, edits, acked, ref>>
        /\ \E l \in {"closed", "remove", "unlock", "done"} : pc' = [pc EXCEPT ![h] = l]
    BY <1>3, Zenon DEF Close, CloseRef, RemoveApi, Unlock, Refused, Goto, files, edit, refs, Handles
  <2>2. \A g \in Editors : pc'[g] \in {"open", "edited"} => pc'[g] = pc[g] /\ ref'[g] = ref[g]
    BY <1>a, <2>1, Zenon DEF RepoInv, FSRepoTypeOK
  <2>3. \/ item' = item
        \/ \E n : item' = [item EXCEPT ![ref[h]].refs = n]
        \/ item' = [item EXCEPT ![ref[h]].closed = TRUE]
    BY <1>3, Zenon DEF Close, CloseRef, RemoveApi, Unlock, Refused, refs
  <2>4. \A i \in Items : item'[i].conf = item[i].conf /\ (item[i].closed => item'[i].closed)
    <3> SUFFICES ASSUME NEW i \in Items PROVE item'[i].conf = item[i].conf /\ (item[i].closed => item'[i].closed)
      BY Zenon
    <3>1. CASE \E n : item' = [item EXCEPT ![ref[h]].refs = n]
      <4>1. PICK n : item' = [item EXCEPT ![ref[h]].refs = n] BY <3>1, Zenon
      <4>2. item'[i] = IF i = ref[h] THEN [item[i] EXCEPT !.refs = n] ELSE item[i] BY <4>1, Zenon DEF RepoInv, FSRepoTypeOK
      <4> QED BY <1>b, <4>2, Zenon
    <3>2. CASE item' = [item EXCEPT ![ref[h]].closed = TRUE]
      <4>1. item'[i] = IF i = ref[h] THEN [item[i] EXCEPT !.closed = TRUE] ELSE item[i] BY <3>2, Zenon DEF RepoInv, FSRepoTypeOK
      <4> QED BY <1>b, <4>1, Zenon
    <3> QED BY <2>3, <3>1, <3>2, Zenon
  <2>5. EditInv' BY <2>1, <2>2, <2>4, EditQuiet, Zenon
  <2> QED BY <2>1, <2>5, Zenon DEF AckedKept
<1>4. ASSUME NEW p \in Procs, Crash(p) PROVE EditInv' /\ AckedKept'
  <2>1. UNCHANGED <<disk, heap, edits, acked, ref>>
        /\ pc' = [h \in Handles |-> IF ProcOf[h] = p /\ pc[h] # "idle" THEN "dead" ELSE pc[h]]
    BY <1>4, Zenon DEF Crash, files, edit
  <2>2. \A g \in Editors : pc'[g] \in {"open", "edited"} => pc'[g] = pc[g] /\ ref'[g] = ref[g] BY <1>a, <2>1, Zenon
  <2>3. ASSUME NEW i \in Items PROVE item'[i].conf = item[i].conf /\ (item[i].closed => item'[i].closed)
    <3> DEFINE b == item[i].closed \/ \E h \in Handles : ProcOf[h] = p /\ ref[h] = i
    <3>1. item'[i] = [item[i] EXCEPT !.closed = b] BY <1>4, Zenon DEF Crash
    <3>2. b \in BOOLEAN /\ (item[i].closed => b) BY Zenon
    <3> HIDE DEF b
    <3> QED BY <1>b, <3>1, <3>2, Zenon
  <2>4. EditInv' BY <2>1, <2>2, <2>3, EditQuiet, Zenon
  <2> QED BY <2>1, <2>4, Zenon DEF AckedKept
<1>5. ASSUME NEW h \in Daemons \cup Commands, Open(h) PROVE EditInv' /\ AckedKept'
  <2>1. h \in Handles /\ UNCHANGED <<disk, edits, acked>> /\ pc[h] = "idle" /\ pc' = [pc EXCEPT ![h] = "open"]
    BY <1>5, Zenon DEF Open, Goto, files, Handles
  <2>2. \A g \in Handles : pc'[g] = IF g = h THEN "open" ELSE pc[g] BY <2>1, Zenon DEF RepoInv, FSRepoTypeOK
  <2>3. ref[h] = 0 BY <2>1, Zenon DEF RepoInv, LocalInv
  <2>4. CASE OpenShared(h)
    <3> DEFINE i == active[ProcOf[h]]
    <3>1. i # 0 /\ item' = [item EXCEPT ![i].refs = (@ + 1) % RefMod] /\ ref' = [ref EXCEPT ![h] = i] /\ heap' = heap
      BY <2>4, Zenon DEF OpenShared
    <3>2. h \notin Editors
      <4> SUFFICES ASSUME h \in Editors PROVE FALSE BY Zenon
      <4>1. ProcOf[h] \in Procs BY <2>1, FSRepoAssumption, Zenon
      <4>2. lock = ProcOf[h] /\ lock # None BY <3>1, <4>1, FSRepoAssumption, Zenon DEF RepoInv, LastInv
      <4>3. PICK f \in Handles : ref[f] # 0 /\ lock = ProcOf[f] BY <4>2, Zenon DEF RepoInv, OpenInv
      <4>4. f = h BY <2>1, <4>2, <4>3, Zenon DEF SoleEditor, Editors
      <4> QED BY <2>3, <4>3, <4>4, Zenon
    <3>3. \A g \in Editors : pc'[g] \in {"open", "edited"} => pc'[g] = pc[g] /\ ref'[g] = ref[g]
      BY <1>a, <2>2, <3>1, <3>2, Zenon DEF RepoInv, FSRepoTypeOK
    <3>4. ASSUME NEW k \in Items PROVE item'[k].conf = item[k].conf /\ (item[k].closed => item'[k].closed)
      <4> DEFINE n == (item[i].refs + 1) % RefMod
      <4>1. item'[k] = IF k = i THEN [item[k] EXCEPT !.refs = n] ELSE item[k] BY <3>1, Zenon DEF RepoInv, FSRepoTypeOK
      <4> HIDE DEF n
      <4> QED BY <1>b, <4>1, Zenon
    <3>5. EditInv' BY <2>1, <3>1, <3>3, <3>4, EditQuiet, Zenon
    <3> QED BY <2>1, <3>5, Zenon DEF AckedKept
  <2>5. CASE OpenNew(h)
    <3> DEFINE i == opens + 1
    <3>1. lock = None /\ item' = [item EXCEPT ![i] = [refs |-> 1, closed |-> FALSE, conf |-> Opened(i)]]
          /\ heap' = [heap EXCEPT ![Opened(i)] = disk] /\ ref' = [ref EXCEPT ![h] = i] /\ opens < MaxOpens
      BY <2>5, Zenon DEF OpenNew
    <3>2. i \in Items /\ Opened(i) \in Objects
      <4>1. opens \in 0..MaxOpens BY Zenon DEF RepoInv, FSRepoTypeOK
      <4>2. i \in Items BY <3>1, <4>1, FSRepoAssumption DEF Items
      <4> QED BY <4>2, Zenon DEF Objects
    <3>3. \A g \in Editors : pc'[g] \in {"open", "edited"} => g = h /\ pc'[g] = "open"
      <4> SUFFICES ASSUME NEW g \in Editors, pc'[g] \in {"open", "edited"}, g # h PROVE FALSE
        BY <1>a, <2>2, Zenon
      <4>1. pc[g] \in {"open", "edited"} BY <1>a, <2>2, Zenon
      <4>2. lock = ProcOf[g] BY <4>1, EditorHolds, Zenon
      <4>3. ProcOf[g] # None BY <1>a, FSRepoAssumption
      <4> QED BY <3>1, <4>2, <4>3, Zenon
    <3>4. heap'[item'[ref'[h]].conf] = disk'
      <4>1. ref'[h] = i BY <2>1, <3>1, Zenon DEF RepoInv, FSRepoTypeOK
      <4>2. item'[i].conf = Opened(i) BY <3>1, <3>2, Zenon DEF RepoInv, FSRepoTypeOK
      <4>3. heap'[Opened(i)] = disk BY <3>1, <3>2, Zenon DEF RepoInv, FSRepoTypeOK
      <4> QED BY <2>1, <4>1, <4>2, <4>3, Zenon
    <3>5. EditInv' BY <3>3, <3>4, ZenonT(60) DEF EditInv, Editors
    <3> QED BY <2>1, <3>5, Zenon DEF AckedKept
  <2> QED BY <1>5, <2>4, <2>5, Zenon DEF Open
<1>6. ASSUME NEW h \in Commands, Config(h) PROVE EditInv' /\ AckedKept'
  <2> DEFINE o == item[ref[h]].conf
             new == [heap[o] EXCEPT ![Edit[h].key] = Edit[h].val]
  <2>1. h \in Handles /\ h \in Editors /\ pc[h] = "open" /\ ~item[ref[h]].closed
        /\ UNCHANGED <<disk, acked>> /\ pc' = [pc EXCEPT ![h] = "edited"]
    BY <1>6, Zenon DEF Config, Goto, files, Handles, Editors
  <2>2. \E w \in {o, Made(h)} : heap' = [heap EXCEPT ![w] = new] /\ edits' = [edits EXCEPT ![h] = w]
    BY <1>6, Zenon DEF Config
  <2>3. heap[o] = disk BY <2>1, Zenon DEF EditInv, Editors
  <2>4. o \in Objects /\ Made(h) \in Objects
    <3>1. o \in Objects BY <2>1, ItemOf, Zenon DEF RepoInv, HoldPcs
    <3> QED BY <2>1, <3>1, Zenon DEF Objects
  <2>5. heap'[edits'[h]] = new
    <3> HIDE DEF o, new
    <3>1. PICK w \in {o, Made(h)} : heap' = [heap EXCEPT ![w] = new] /\ edits' = [edits EXCEPT ![h] = w] BY <2>2, ZenonT(60)
    <3>2. w \in Objects BY <2>4, Zenon
    <3>3. edits'[h] = w BY <2>1, <3>1, Zenon DEF RepoInv, FSRepoTypeOK
    <3>4. heap'[w] = new BY <3>1, <3>2, Zenon DEF RepoInv, FSRepoTypeOK
    <3> QED BY <3>3, <3>4, Zenon
  <2>6. \A g \in Editors : pc'[g] \in {"open", "edited"} => g = h /\ pc'[g] = "edited"
    <3> SUFFICES ASSUME NEW g \in Editors, pc'[g] \in {"open", "edited"} PROVE g = h /\ pc'[g] = "edited"
      BY Zenon
    <3>1. g = h \/ pc'[g] = pc[g] BY <1>a, <2>1, Zenon DEF RepoInv, FSRepoTypeOK
    <3>2. CASE pc'[g] = pc[g]
      <4>1. lock = ProcOf[h] BY <2>1, EditorHolds, Zenon
      <4>2. h = g BY <2>1, <3>2, <4>1, EditorHolds, Zenon
      <4> QED BY <2>1, <4>2, Zenon DEF RepoInv, FSRepoTypeOK
    <3> QED BY <2>1, <3>1, <3>2, Zenon DEF RepoInv, FSRepoTypeOK
  <2>7. EditInv' BY <2>1, <2>3, <2>5, <2>6, Zenon DEF EditInv, Editors
  <2> QED BY <2>1, <2>7, Zenon DEF AckedKept
<1>7. ASSUME NEW h \in Commands, SetConfig(h) PROVE EditInv' /\ AckedKept'
  <2>1. h \in Handles /\ pc[h] = "edited" /\ pc' = [pc EXCEPT ![h] = "done"]
    BY <1>7, Zenon DEF SetConfig, Goto, Handles
  <2>2. h \in Editors BY <2>1, Zenon DEF RepoInv, LocalInv, Editors
  <2>3. \A g \in Editors : pc'[g] \notin {"open", "edited"}
    <3> SUFFICES ASSUME NEW g \in Editors, pc'[g] \in {"open", "edited"} PROVE FALSE BY Zenon
    <3>1. g # h /\ pc[g] \in {"open", "edited"} BY <1>a, <2>1, Zenon DEF RepoInv, FSRepoTypeOK
    <3>2. lock = ProcOf[h] BY <2>1, <2>2, EditorHolds, Zenon
    <3> QED BY <2>1, <3>1, <3>2, EditorHolds, Zenon
  <2>4. EditInv' BY <2>3, Zenon DEF EditInv, Editors
  <2>5. AckedKept'
    <3>1. MapMergeDeep(disk, heap[edits[h]]) = [disk EXCEPT ![Edit[h].key] = Edit[h].val]
      <4>1. heap[edits[h]] = [disk EXCEPT ![Edit[h].key] = Edit[h].val] BY <2>1, <2>2, Zenon DEF EditInv, Editors
      <4>2. disk \in Configs /\ Edit[h].val # NoValue BY <2>2, ZenonT(60) DEF RepoInv, FSRepoTypeOK, SoleEditor, Editors
      <4> QED BY <4>1, <4>2, MergeKeeps, Zenon
    <3>2. \/ disk' = MapMergeDeep(disk, heap[edits[h]]) /\ acked' = [acked EXCEPT ![Edit[h].key] = Edit[h].val]
          \/ disk' = disk /\ acked' = acked
      BY <1>7, Zenon DEF SetConfig, Acked
    <3> QED BY <3>1, <3>2, Zenon DEF AckedKept
  <2> QED BY <2>4, <2>5, Zenon
<1>8. ASSUME NEW h \in Commands, SetConfigKey(h) PROVE EditInv' /\ AckedKept'
  <2>1. h \in Handles /\ h \in KeySetters /\ pc[h] = "open" /\ ~item[ref[h]].closed /\ pc' = [pc EXCEPT ![h] = "done"]
    BY <1>8, Zenon DEF SetConfigKey, Goto, Handles
  <2>2. lock = ProcOf[h]
    <3>1. ref[h] # 0 BY <2>1, Zenon DEF RepoInv, LocalInv, HoldPcs
    <3> QED BY <2>1, <3>1, ZenonT(60) DEF RepoInv, OpenInv
  <2>3. \A g \in Editors : pc'[g] \notin {"open", "edited"}
    <3> SUFFICES ASSUME NEW g \in Editors, pc'[g] \in {"open", "edited"} PROVE FALSE BY Zenon
    <3>1. g # h BY <2>1, Zenon DEF SoleEditor, Editors
    <3>2. pc[g] \in {"open", "edited"} BY <1>a, <2>1, <3>1, Zenon DEF RepoInv, FSRepoTypeOK
    <3> QED BY <2>1, <2>2, <3>1, <3>2, EditorHolds, Zenon
  <2>4. EditInv' BY <2>3, Zenon DEF EditInv, Editors
  <2>5. \/ disk' = [disk EXCEPT ![Edit[h].key] = Edit[h].val] /\ acked' = [acked EXCEPT ![Edit[h].key] = Edit[h].val]
        \/ disk' = disk /\ acked' = acked
    BY <1>8, Zenon DEF SetConfigKey, Acked
  <2> QED BY <2>4, <2>5, Zenon DEF AckedKept
<1>9. ASSUME NEW h \in Commands, Refused(h) PROVE EditInv' /\ AckedKept' BY <1>3, <1>9, Zenon
<1> QED BY <1>1, <1>2, <1>3, <1>4, <1>5, <1>6, <1>7, <1>8, <1>9, Zenon DEF FSRepoNext

-----------------------------------------------------------------------------
(* The balance *)

\* The balance is an integer smaller than 2^32 either way.
LEMMA BalanceType ==
  ASSUME FewHandles, NEW r, NEW l, NEW j
  PROVE  /\ IsFiniteSet(Plus(r, l, j)) /\ IsFiniteSet(Minus(r, l, j))
         /\ Cardinality(Plus(r, l, j)) \in Nat /\ Cardinality(Minus(r, l, j)) \in Nat
         /\ Balance(r, l, j) \in Int /\ Balance(r, l, j) < RefMod /\ -RefMod < Balance(r, l, j)
<1>1. Plus(r, l, j) \subseteq Handles /\ Minus(r, l, j) \subseteq Handles
  BY Zenon DEF Plus, Minus
<1>2. IsFiniteSet(Plus(r, l, j)) /\ Cardinality(Plus(r, l, j)) \in Nat
      /\ Cardinality(Plus(r, l, j)) <= Cardinality(Handles)
  BY <1>1, FS_Subset, FS_CardinalityType, Zenon DEF FewHandles
<1>3. IsFiniteSet(Minus(r, l, j)) /\ Cardinality(Minus(r, l, j)) \in Nat
      /\ Cardinality(Minus(r, l, j)) <= Cardinality(Handles)
  BY <1>1, FS_Subset, FS_CardinalityType, Zenon DEF FewHandles
<1>4. Cardinality(Handles) \in Nat /\ Cardinality(Handles) < RefMod
  BY FS_CardinalityType, Zenon DEF FewHandles
<1> QED BY <1>2, <1>3, <1>4, FSRepoAssumption DEF Balance

\* An item nobody has opened has balance zero.
LEMMA BalanceNew ==
  ASSUME NEW r, NEW l, NEW j, \A h \in Handles : r[h] # j
  PROVE  Balance(r, l, j) = 0
<1>1. Plus(r, l, j) = {} /\ Minus(r, l, j) = {} BY Zenon DEF Plus, Minus
<1> QED BY <1>1, FS_EmptySet DEF Balance

\* Open adds one to the item it opens.
LEMMA BalanceOpen ==
  ASSUME FewHandles, NEW r \in [Handles -> Nat], NEW l \in [Handles -> 0..2],
         NEW h \in Handles, NEW j \in Nat \ {0}, r[h] = 0, l[h] = Full(h),
         NEW r2, r2[h] = j, \A g \in Handles : g # h => r2[g] = r[g]
  PROVE  /\ Balance(r2, l, j) = Balance(r, l, j) + 1
         /\ \A k \in Nat \ {0, j} : Balance(r2, l, k) = Balance(r, l, k)
<1>1. Plus(r2, l, j) = Plus(r, l, j) \cup {h} /\ h \notin Plus(r, l, j) /\ Minus(r2, l, j) = Minus(r, l, j)
  BY DEF Plus, Minus, Full
<1>2. \A k \in Nat \ {0, j} : Plus(r2, l, k) = Plus(r, l, k) /\ Minus(r2, l, k) = Minus(r, l, k)
  BY Zenon DEF Plus, Minus, Full
<1>3. Cardinality(Plus(r, l, j) \cup {h}) = Cardinality(Plus(r, l, j)) + 1
  BY <1>1, BalanceType, FS_AddElement, Zenon
<1>4. Cardinality(Plus(r, l, j)) \in Nat /\ Cardinality(Minus(r, l, j)) \in Nat BY BalanceType, Zenon
<1>c. Cardinality(Plus(r2, l, j)) = Cardinality(Plus(r, l, j)) + 1
      /\ Cardinality(Minus(r2, l, j)) = Cardinality(Minus(r, l, j))
  BY <1>1, <1>3, Zenon
<1>5. Balance(r2, l, j) = Balance(r, l, j) + 1
  BY <1>4, <1>c DEF Balance
<1>6. \A k \in Nat \ {0, j} : Balance(r2, l, k) = Balance(r, l, k) BY <1>2, Zenon DEF Balance
<1> QED BY <1>5, <1>6, Zenon

\* Close takes one from the item it closes, the first time and the second.
LEMMA BalanceClose ==
  ASSUME FewHandles, NEW r \in [Handles -> Nat], NEW l \in [Handles -> 0..2],
         NEW h \in Handles, l[h] \in 1..Full(h), NEW j, j = r[h],
         NEW l2, l2[h] = l[h] - 1, \A g \in Handles : g # h => l2[g] = l[g]
  PROVE  /\ Balance(r, l2, j) = Balance(r, l, j) - 1
         /\ \A k \in Nat \ {j} : Balance(r, l2, k) = Balance(r, l, k)
<1>1. \A k \in Nat \ {r[h]} : Plus(r, l2, k) = Plus(r, l, k) /\ Minus(r, l2, k) = Minus(r, l, k)
  BY Zenon DEF Plus, Minus, Full
<1>a. \A k \in Nat \ {r[h]} : Balance(r, l2, k) = Balance(r, l, k) BY <1>1, Zenon DEF Balance
<1>b. Cardinality(Plus(r, l, j)) \in Nat /\ Cardinality(Minus(r, l, j)) \in Nat BY BalanceType, Zenon
<1>2. CASE l[h] = Full(h)
  <2>1. Plus(r, l2, j) = Plus(r, l, j) \ {h} /\ h \in Plus(r, l, j) /\ Minus(r, l2, j) = Minus(r, l, j)
    BY <1>2 DEF Plus, Minus, Full
  <2>2. Cardinality(Plus(r, l, j) \ {h}) = Cardinality(Plus(r, l, j)) - 1
    BY <2>1, BalanceType, FS_RemoveElement, Zenon
  <2>c. Cardinality(Plus(r, l2, j)) = Cardinality(Plus(r, l, j)) - 1
        /\ Cardinality(Minus(r, l2, j)) = Cardinality(Minus(r, l, j))
    BY <2>1, <2>2, Zenon
  <2>3. Balance(r, l2, j) = Balance(r, l, j) - 1
    BY <1>b, <2>c DEF Balance
  <2> QED BY <1>a, <2>3, Zenon
<1>3. CASE l[h] # Full(h)
  <2>1. Plus(r, l2, j) = Plus(r, l, j) /\ h \notin Minus(r, l, j) /\ Minus(r, l2, j) = Minus(r, l, j) \cup {h}
    BY <1>3 DEF Plus, Minus, Full
  <2>2. Cardinality(Minus(r, l, j) \cup {h}) = Cardinality(Minus(r, l, j)) + 1
    BY <2>1, BalanceType, FS_AddElement, Zenon
  <2>c. Cardinality(Plus(r, l2, j)) = Cardinality(Plus(r, l, j))
        /\ Cardinality(Minus(r, l2, j)) = Cardinality(Minus(r, l, j)) + 1
    BY <2>1, <2>2, Zenon
  <2>3. Balance(r, l2, j) = Balance(r, l, j) - 1
    BY <1>b, <2>c DEF Balance
  <2> QED BY <1>a, <2>3, Zenon
<1> QED BY <1>2, <1>3, Zenon

-----------------------------------------------------------------------------
(* Opening and closing *)

\* Who holds a reference, in a process whose daemon has not closed twice, holds
\* it to the repo its process has open.
LEMMA HeldIsOpen ==
  ASSUME FewHandles, RepoInv, NEW h \in Handles, pc[h] \in HoldPcs, ~Overclosed(ProcOf[h])
  PROVE  /\ ref[h] # 0 /\ active[ProcOf[h]] = ref[h]
         /\ lock = ProcOf[h] /\ ~item[ref[h]].closed
<1> DEFINE j == ref[h]
<1>1. j # 0 /\ left[h] = Full(h) BY Zenon DEF RepoInv, LocalInv
<1>2. Minus(ref, left, j) = {}
  <2> SUFFICES ASSUME NEW g \in Minus(ref, left, j) PROVE FALSE BY Zenon
  <2>1. g \in Handles /\ ref[g] = j /\ left[g] + 2 = Full(g) BY Zenon DEF Minus
  <2>2. ProcOf[g] = ProcOf[h] BY <1>1, <2>1, ZenonT(60) DEF RepoInv, OpenInv
  <2>3. g \in Daemons /\ ClosesTwice /\ left[g] = 0 BY <2>1 DEF Full, RepoInv, FSRepoTypeOK
  <2> QED BY <2>2, <2>3, Zenon DEF Overclosed
<1>3. h \in Plus(ref, left, j) BY <1>1, ZenonT(60) DEF Plus
<1>4. Balance(ref, left, j) > 0
  <2>1. Cardinality(Plus(ref, left, j)) \in Nat /\ IsFiniteSet(Plus(ref, left, j)) BY BalanceType, Zenon
  <2>2. Cardinality(Plus(ref, left, j)) # 0 BY <1>3, <2>1, FS_EmptySet, Zenon
  <2>3. Cardinality(Minus(ref, left, j)) = 0 BY <1>2, FS_EmptySet, Zenon
  <2> QED BY <2>1, <2>2, <2>3 DEF Balance
<1>5. pc[h] # "dead" BY Zenon DEF HoldPcs
<1>6. active[ProcOf[h]] = j
  <2> SUFFICES ASSUME active[ProcOf[h]] # j PROVE FALSE BY Zenon
  <2>1. Balance(ref, left, j) <= 0 BY <1>1, <1>5, ZenonT(60) DEF RepoInv, CountInv
  <2>2. Balance(ref, left, j) \in Int BY BalanceType, Zenon
  <2> QED BY <1>4, <2>1, <2>2
<1> QED BY <1>1, <1>6, FSRepoAssumption, Zenon DEF RepoInv, LastInv

\* Opening again shares the open repo and adds one to its count.
LEMMA SharedStep ==
  ASSUME FewHandles, RepoInv, FSRepoTypeOK', NEW h \in Handles, Open(h), OpenShared(h)
  PROVE  CountsInv'
<1> DEFINE p == ProcOf[h]
           i == active[p]
<1> USE FSRepoAssumption
<1>1. pc[h] = "idle" /\ pc' = [pc EXCEPT ![h] = "open"] /\ ref' = [ref EXCEPT ![h] = i]
      /\ item' = [item EXCEPT ![i].refs = (@ + 1) % RefMod]
      /\ UNCHANGED <<lock, active, opens, left>> /\ i # 0
  BY Zenon DEF Open, OpenShared, Goto
<1>2. p \in Procs /\ i \in 1..opens /\ i \in Items /\ 1..opens \subseteq Items BY <1>1, SMTT(30) DEF RepoInv, FSRepoTypeOK, Items
<1>3. ref[h] = 0 /\ left[h] = Full(h) BY <1>1, Zenon DEF RepoInv, LocalInv
<1>4. lock = p /\ ~item[i].closed /\ Balance(ref, left, i) > 0 BY <1>1, <1>2, Zenon DEF RepoInv, LastInv
<1>5. /\ Balance(ref', left', i) = Balance(ref, left, i) + 1
      /\ \A k \in Nat \ {0, i} : Balance(ref', left', k) = Balance(ref, left, k)
  <2>1. ref \in [Handles -> Nat] /\ left \in [Handles -> 0..2] /\ i \in Nat \ {0}
    BY <1>1, <1>2 DEF RepoInv, FSRepoTypeOK
  <2> HIDE DEF i
  <2>2. ref'[h] = i /\ left' = left BY <1>1, <2>1, Zenon
  <2>4. \A g \in Handles : g # h => ref'[g] = ref[g] BY <1>1, <2>1, Zenon
  <2>3. /\ Balance(ref', left, i) = Balance(ref, left, i) + 1
        /\ \A k \in Nat \ {0, i} : Balance(ref', left, k) = Balance(ref, left, k)
    BY <1>3, <2>1, <2>2, <2>4, BalanceOpen, SMTT(30)
  <2> QED BY <2>2, <2>3, Zenon
<1>6. \A k \in Items : item'[k].closed = item[k].closed /\ (k # i => item'[k].refs = item[k].refs)
  BY <1>1 DEF RepoInv, FSRepoTypeOK
<1>7. item'[i].refs = (item[i].refs + 1) % RefMod BY <1>1, <1>2 DEF RepoInv, FSRepoTypeOK
<1>8. item'[i].refs = Balance(ref', left', i)
  <2>1. Balance(ref, left, i) \in Int /\ Balance(ref', left', i) \in Int /\ Balance(ref', left', i) < RefMod
    BY BalanceType, Zenon
  <2>a. item[i].refs = Wrap(Balance(ref, left, i)) BY <1>2, Zenon DEF RepoInv, CountInv
  <2>2. item[i].refs = Balance(ref, left, i) BY <1>4, <2>1, <2>a, SMTT(60) DEF Wrap
  <2>3. item[i].refs + 1 \in 0..RefMod-1 BY <1>4, <1>5, <2>1, <2>2, SMTT(60)
  <2>4. (item[i].refs + 1) % RefMod = item[i].refs + 1 BY <2>3, ModSmall, RefMod \in Nat \ {0}, Zenon
  <2> QED BY <1>5, <1>7, <2>1, <2>2, <2>4, ZenonT(60)
<1>9. OpenInv'
  <2>1. \A g \in Handles : ref[g] # 0 => ref[g] \in Items BY <1>2, SMTT(30) DEF RepoInv, FSRepoTypeOK
  <2>2. \A g \in Handles : ref[g] = i => ProcOf[g] = p
    <3> SUFFICES ASSUME NEW g \in Handles, ref[g] = i PROVE ProcOf[g] = p BY Zenon
    <3>1. ref[g] # 0 /\ ~item[ref[g]].closed BY <1>1, <1>4, Zenon
    <3>2. lock = ProcOf[g] BY <3>1, ZenonT(60) DEF RepoInv, OpenInv
    <3> QED BY <1>4, <3>2, ZenonT(60)
  <2>3. \A g \in Handles : ref[g] # 0 /\ ~item[ref[g]].closed => ref[g] = i
    <3> SUFFICES ASSUME NEW g \in Handles, ref[g] # 0, ~item[ref[g]].closed PROVE ref[g] = i BY Zenon
    <3>1. Plus(ref, left, i) # {}
      <4> SUFFICES ASSUME Plus(ref, left, i) = {} PROVE FALSE BY ZenonT(60)
      <4>1. Cardinality(Plus(ref, left, i)) = 0 BY FS_EmptySet, Zenon
      <4>2. Cardinality(Minus(ref, left, i)) \in Nat BY BalanceType, ZenonT(60)
      <4> QED BY <1>4, <4>1, <4>2, SMTT(60) DEF Balance
    <3>2. PICK f \in Handles : ref[f] = i BY <3>1, Zenon DEF Plus
    <3> QED BY <1>1, <1>4, <3>2, ZenonT(60) DEF RepoInv, OpenInv
  <2>4. \A g \in Handles : ref'[g] = IF g = h THEN i ELSE ref[g] BY <1>1, ZenonT(60) DEF RepoInv, FSRepoTypeOK
  <2>5. \A g \in Handles : pc'[g] = IF g = h THEN "open" ELSE pc[g] BY <1>1, Zenon DEF RepoInv, FSRepoTypeOK
  <2>6. \A g \in Handles : ref'[g] # 0 => ref'[g] \in Items /\ item'[ref'[g]].closed = item[ref'[g]].closed
    BY <1>2, <1>6, <2>1, <2>4, ZenonT(60)
  <2>7. \A g \in Handles : ref'[g] # 0 /\ ~item'[ref'[g]].closed => ref'[g] = i /\ lock' = ProcOf[g]
    BY <1>1, <1>4, <2>2, <2>3, <2>4, <2>6, SMTT(30)
  <2>8. \A g \in Handles : pc'[g] = "dead" /\ ref'[g] # 0 => item'[ref'[g]].closed
    BY <2>4, <2>5, <2>6, Zenon DEF RepoInv, OpenInv
  <2>9. \A f, g \in Handles : ref'[f] # 0 /\ ref'[f] = ref'[g] => ProcOf[f] = ProcOf[g]
    BY <2>2, <2>4, SMTT(60) DEF RepoInv, OpenInv
  <2>10. ref'[h] # 0 /\ ~item'[ref'[h]].closed /\ lock' = ProcOf[h] BY <1>1, <1>4, <2>4, <2>6, Zenon
  <2> QED BY <2>7, <2>8, <2>9, <2>10, ZenonT(60) DEF OpenInv
<1>10. LastInv'
  <2>1. \A q \in Procs : active'[q] # 0 => q = p BY <1>1, <1>4, Zenon DEF RepoInv, LastInv
  <2>2. \A q \in Procs : active'[q] # 0 =>
          lock' = q /\ ~item'[active'[q]].closed /\ Balance(ref', left', active'[q]) > 0
    <3>1. Balance(ref, left, i) \in Int BY BalanceType, Zenon
    <3>2. Balance(ref', left', i) > 0 BY <1>4, <1>5, <3>1
    <3> QED BY <1>1, <1>2, <1>4, <1>6, <2>1, <3>2, Zenon
  <2>3. \A g \in Handles : pc'[g] \notin ClosePcs
    <3> SUFFICES ASSUME NEW g \in Handles, pc'[g] \in ClosePcs PROVE FALSE BY Zenon
    <3>1. pc[g] \in ClosePcs BY <1>1, Zenon DEF ClosePcs, RepoInv, FSRepoTypeOK
    <3>2. lock = ProcOf[g] /\ active[ProcOf[g]] = 0 BY <3>1, Zenon DEF RepoInv, LastInv
    <3> QED BY <1>1, <1>4, <3>2, Zenon
  <2> QED BY <2>2, <2>3, ZenonT(60) DEF LastInv
<1>11. CountInv'
  <2>1. \A j \in 1..opens' : item'[j].refs = Wrap(Balance(ref', left', j))
    <3> SUFFICES ASSUME NEW j \in 1..opens PROVE item'[j].refs = Wrap(Balance(ref', left', j)) BY <1>1, Zenon
    <3>1. CASE j = i
      <4>1. Balance(ref, left, i) \in Int BY BalanceType, Zenon
      <4> QED BY <1>4, <1>5, <1>8, <3>1, <4>1, SMTT(60) DEF Wrap
    <3>2. CASE j # i
      <4>1. j \in Nat \ {0, i} /\ j \in Items BY <1>2, <3>2, SMTT(30)
      <4> QED BY <1>5, <1>6, <3>2, <4>1, ZenonT(60) DEF RepoInv, CountInv
    <3> QED BY <3>1, <3>2, Zenon
  <2>2. \A g \in Handles : ref'[g] # 0 /\ pc'[g] # "dead" /\ active'[ProcOf[g]] # ref'[g] =>
          Balance(ref', left', ref'[g]) <= 0
    <3> SUFFICES ASSUME NEW g \in Handles, ref'[g] # 0, pc'[g] # "dead", active'[ProcOf[g]] # ref'[g]
                 PROVE  Balance(ref', left', ref'[g]) <= 0
      BY Zenon
    <3>1. g # h BY <1>1, Zenon DEF RepoInv, FSRepoTypeOK
    <3>2. ref'[g] = ref[g] /\ pc'[g] = pc[g] BY <1>1, <3>1, ZenonT(60) DEF RepoInv, FSRepoTypeOK
    <3>3. Balance(ref, left, ref[g]) <= 0 BY <1>1, <3>2, Zenon DEF RepoInv, CountInv
    <3>4. ref[g] # i
      <4>1. Balance(ref, left, i) \in Int BY BalanceType, Zenon
      <4> QED BY <1>4, <3>3, <4>1, SMTT(30)
    <3>5. ref[g] \in Nat \ {0, i} BY <3>2, <3>4, SMTT(30) DEF RepoInv, FSRepoTypeOK
    <3> QED BY <1>5, <3>2, <3>3, <3>5, ZenonT(60)
  <2> QED BY <2>1, <2>2, ZenonT(60) DEF CountInv
<1> QED BY <1>9, <1>10, <1>11, Zenon DEF CountsInv

\* Opening for the first time makes a new item with count one, under the lock.
LEMMA NewStep ==
  ASSUME FewHandles, RepoInv, FSRepoTypeOK', NEW h \in Handles, Open(h), OpenNew(h)
  PROVE  CountsInv'
<1> DEFINE p == ProcOf[h]
           i == opens + 1
<1> USE FSRepoAssumption
<1>1. pc[h] = "idle" /\ pc' = [pc EXCEPT ![h] = "open"] /\ ref' = [ref EXCEPT ![h] = i] /\ left' = left
      /\ item' = [item EXCEPT ![i] = [refs |-> 1, closed |-> FALSE, conf |-> Opened(i)]]
      /\ opens' = i /\ lock = None /\ lock' = p /\ active' = [active EXCEPT ![p] = i] /\ opens < MaxOpens
  BY Zenon DEF Open, OpenNew, Goto
<1>2. p \in Procs /\ p # None /\ i \in Items /\ i \in Nat \ {0} /\ 1..opens \subseteq Items
      /\ 1..opens' = 1..opens \cup {i} /\ i \notin 1..opens
  <2>1. opens \in 0..MaxOpens /\ MaxOpens \in Nat /\ opens < MaxOpens BY <1>1, Zenon DEF RepoInv, FSRepoTypeOK
  <2>2. p \in Procs /\ p # None OBVIOUS
  <2>3. i \in Items /\ i \in Nat \ {0} /\ 1..opens \subseteq Items BY <2>1, SMTT(30) DEF Items
  <2>4. 1..i = 1..opens \cup {i} /\ i \notin 1..opens BY <2>1, SMTT(30)
  <2>5. opens' = i BY <1>1, Zenon
  <2> QED BY <2>2, <2>3, <2>4, <2>5, Zenon
<1>3. ref[h] = 0 /\ left[h] = Full(h) BY <1>1, ZenonT(60) DEF RepoInv, LocalInv
<1>4. \A g \in Handles : ref[g] # i /\ (ref[g] # 0 => ref[g] \in Items \ {i} /\ ref[g] \in Nat)
  BY <1>2, SMTT(30) DEF RepoInv, FSRepoTypeOK
<1>5. \A q \in Procs : active[q] = 0 BY <1>1, ZenonT(60) DEF RepoInv, LastInv
<1>6. \A g \in Handles : ref[g] # 0 => item[ref[g]].closed
  BY <1>1, SMTT(30) DEF RepoInv, OpenInv
<1>7. \A g \in Handles : ref'[g] = IF g = h THEN i ELSE ref[g] BY <1>1, ZenonT(60) DEF RepoInv, FSRepoTypeOK
<1>8. \A g \in Handles : pc'[g] = IF g = h THEN "open" ELSE pc[g] BY <1>1, ZenonT(60) DEF RepoInv, FSRepoTypeOK
<1>9. \A k \in Items \ {i} : item'[k] = item[k] BY <1>1, Zenon DEF RepoInv, FSRepoTypeOK
<1>10. item'[i].refs = 1 /\ item'[i].closed = FALSE BY <1>1, <1>2, ZenonT(60) DEF RepoInv, FSRepoTypeOK
<1>11. \A q \in Procs : active'[q] = IF q = p THEN i ELSE 0 BY <1>1, <1>5, Zenon DEF RepoInv, FSRepoTypeOK
<1>12. /\ Balance(ref', left', i) = 1
       /\ \A k \in Nat \ {0, i} : Balance(ref', left', k) = Balance(ref, left, k)
  <2>1. ref \in [Handles -> Nat] /\ left \in [Handles -> 0..2] BY SMTT(30) DEF RepoInv, FSRepoTypeOK
  <2>2. ref'[h] = i /\ left' = left BY <1>1, <1>7, Zenon
  <2>3. \A g \in Handles : g # h => ref'[g] = ref[g] BY <1>7, Zenon
  <2>4. Balance(ref, left, i) = 0
    <3>1. \A g \in Handles : ref[g] # i BY <1>4, Zenon
    <3> HIDE DEF i
    <3> QED BY <3>1, BalanceNew, Zenon
  <2>5. i \in Nat \ {0} BY <1>2, Zenon
  <2> HIDE DEF i
  <2>6. /\ Balance(ref', left, i) = Balance(ref, left, i) + 1
        /\ \A k \in Nat \ {0, i} : Balance(ref', left, k) = Balance(ref, left, k)
    BY <1>3, <2>1, <2>2, <2>3, <2>5, BalanceOpen, SMTT(30)
  <2> QED BY <2>2, <2>4, <2>6
<1> HIDE DEF i, p
<1>13. OpenInv'
  <2>1. \A g \in Handles : ref'[g] # 0 /\ ~item'[ref'[g]].closed => g = h
    BY <1>4, <1>6, <1>7, <1>9, Zenon
  <2>2. \A f, g \in Handles : ref'[f] # 0 /\ ref'[f] = ref'[g] => ProcOf[f] = ProcOf[g]
    <3>1. \A f, g \in Handles : ref[f] # 0 /\ ref[f] = ref[g] => ProcOf[f] = ProcOf[g] BY ZenonT(60) DEF RepoInv, OpenInv
    <3> QED BY <1>4, <1>7, <3>1, ZenonT(60)
  <2>3. \A g \in Handles : pc'[g] = "dead" /\ ref'[g] # 0 => item'[ref'[g]].closed
    BY <2>1, <1>8, ZenonT(60)
  <2>4. ref'[h] # 0 /\ ~item'[ref'[h]].closed /\ lock' = ProcOf[h] BY <1>1, <1>2, <1>7, <1>10, ZenonT(60) DEF p
  <2> QED BY <2>1, <2>2, <2>3, <2>4, ZenonT(60) DEF OpenInv
<1>14. LastInv'
  <2>1. \A q \in Procs : active'[q] # 0 =>
          lock' = q /\ ~item'[active'[q]].closed /\ Balance(ref', left', active'[q]) > 0
    <3> SUFFICES ASSUME NEW q \in Procs, active'[q] # 0
                 PROVE  lock' = q /\ ~item'[active'[q]].closed /\ Balance(ref', left', active'[q]) > 0
      BY Zenon
    <3>1. q = p /\ active'[q] = i BY <1>11, Zenon
    <3>2. lock' = p BY <1>1, Zenon
    <3> QED BY <1>10, <1>12, <3>1, <3>2
  <2>2. \A g \in Handles : pc'[g] \notin ClosePcs
    <3> SUFFICES ASSUME NEW g \in Handles, pc'[g] \in ClosePcs PROVE FALSE BY Zenon
    <3>1. pc[g] \in ClosePcs BY <1>8, Zenon DEF ClosePcs
    <3>2. lock = ProcOf[g] /\ ProcOf[g] # None BY <3>1, SMTT(60) DEF RepoInv, LastInv
    <3> QED BY <1>1, <3>2, Zenon
  <2> QED BY <2>1, <2>2, ZenonT(60) DEF LastInv
<1>15. CountInv'
  <2>1. \A j \in 1..opens' : item'[j].refs = Wrap(Balance(ref', left', j))
    <3> SUFFICES ASSUME NEW j \in 1..opens' PROVE item'[j].refs = Wrap(Balance(ref', left', j)) BY Zenon
    <3>1. CASE j = i BY <1>10, <1>12, <3>1, SMTT(60) DEF Wrap
    <3>2. CASE j # i
      <4>1. j \in Nat \ {0, i} /\ j \in Items \ {i} /\ j \in 1..opens BY <1>2, <3>2
      <4>2. item'[j].refs = item[j].refs /\ Balance(ref', left', j) = Balance(ref, left, j) BY <1>9, <1>12, <4>1, ZenonT(60)
      <4> QED BY <4>1, <4>2, ZenonT(60) DEF RepoInv, CountInv
    <3> QED BY <3>1, <3>2, Zenon
  <2>2. \A g \in Handles : ref'[g] # 0 /\ pc'[g] # "dead" /\ active'[ProcOf[g]] # ref'[g] =>
          Balance(ref', left', ref'[g]) <= 0
    <3> SUFFICES ASSUME NEW g \in Handles, ref'[g] # 0, pc'[g] # "dead", active'[ProcOf[g]] # ref'[g]
                 PROVE  Balance(ref', left', ref'[g]) <= 0
      BY Zenon
    <3>1. g # h BY <1>2, <1>7, <1>11, Zenon DEF p
    <3>2. ref'[g] = ref[g] /\ pc'[g] = pc[g] /\ ref[g] \in Nat \ {0, i} BY <1>4, <1>7, <1>8, <3>1, Zenon
    <3>3. active[ProcOf[g]] # ref[g] BY <1>5, <3>2, Zenon
    <3>4. Balance(ref, left, ref[g]) <= 0 BY <3>2, <3>3, ZenonT(60) DEF RepoInv, CountInv
    <3> QED BY <1>12, <3>2, <3>4, Zenon
  <2> QED BY <2>1, <2>2, ZenonT(60) DEF CountInv
<1> QED BY <1>13, <1>14, <1>15, Zenon DEF CountsInv

\* Close lowers the count; it reaches zero only for the repo the process has
\* open, with its last reference.
LEMMA CloseStep ==
  ASSUME FewHandles, RepoInv, FSRepoTypeOK', NEW h \in Handles, Close(h)
  PROVE  CountsInv'
<1> DEFINE p == ProcOf[h]
           i == ref[h]
           B == Balance(ref, left, i)
           n == (item[i].refs + RefMod - 1) % RefMod
<1> USE FSRepoAssumption
<1>1. left[h] > 0 /\ left' = [left EXCEPT ![h] = left[h] - 1] /\ ref' = ref /\ lock' = lock /\ opens' = opens
      /\ item' = [item EXCEPT ![i].refs = n] /\ pc[h] \in HoldPcs \cup {"closed"} /\ busy[p] = None
  BY Zenon DEF Close, CloseRef, Free, HoldPcs
<1>2. \/ n > 0 /\ pc' = [pc EXCEPT ![h] = "closed"] /\ active' = active
      \/ n = 0 /\ pc' = [pc EXCEPT ![h] = "remove"] /\ active' = [active EXCEPT ![p] = 0]
  BY Zenon DEF Close, CloseRef, Goto
<1>3. p \in Procs /\ i \in 1..opens /\ i \in Items /\ i \in Nat \ {0} /\ 1..opens \subseteq Items
  <2>1. i \in 1..opens BY <1>1, ItemOf, Zenon DEF RepoInv
  <2>2. opens \in 0..MaxOpens BY Zenon DEF RepoInv, FSRepoTypeOK
  <2> QED BY <2>1, <2>2 DEF Items
<1>4. pc[h] # "dead" BY <1>1, Zenon DEF HoldPcs
<1>5. B \in Int /\ -RefMod < B /\ B < RefMod BY BalanceType, Zenon
<1>6. /\ Balance(ref', left', i) = B - 1
      /\ \A k \in Nat \ {i} : Balance(ref', left', k) = Balance(ref, left, k)
  <2>1. ref \in [Handles -> Nat] /\ left \in [Handles -> 0..2] BY DEF RepoInv, FSRepoTypeOK
  <2>2. left[h] \in 1..Full(h) BY <1>1, <2>1 DEF RepoInv, LocalInv
  <2>3. left'[h] = left[h] - 1 BY <1>1, <2>1, Zenon
  <2>4. \A g \in Handles : g # h => left'[g] = left[g] BY <1>1, <2>1, Zenon
  <2>5. ref[h] = i BY Zenon
  <2> HIDE DEF i
  <2>6. /\ Balance(ref, left', i) = Balance(ref, left, i) - 1
        /\ \A k \in Nat \ {i} : Balance(ref, left', k) = Balance(ref, left, k)
    BY <2>1, <2>2, <2>3, <2>4, <2>5, BalanceClose
  <2> QED BY <1>1, <2>6, Zenon
<1>7. B - 1 > -RefMod
  <2>1. -RefMod < Balance(ref', left', i) BY BalanceType, Zenon
  <2> QED BY <1>6, <2>1, Zenon
<1>8. n = Wrap(B - 1)
  <2>1. item[i].refs = Wrap(B) /\ item[i].refs \in 0..RefMod-1 BY <1>3, ZenonT(60) DEF RepoInv, CountInv, FSRepoTypeOK
  <2>2. n = IF item[i].refs = 0 THEN RefMod - 1 ELSE item[i].refs - 1
    BY <2>1, ModDown, RefMod \in Nat \ {0}, ZenonT(60)
  <2> HIDE DEF n, B
  <2> QED BY <1>5, <1>7, <2>1, <2>2 DEF Wrap
<1>9. item'[i].refs = n /\ \A k \in Items : item'[k].closed = item[k].closed /\ (k # i => item'[k].refs = item[k].refs)
  <2> HIDE DEF n
  <2> QED BY <1>1, <1>3 DEF RepoInv, FSRepoTypeOK
<1> HIDE DEF n, B
<1>10. \A g \in Handles : g # h => pc'[g] = pc[g] BY <1>2, Zenon DEF RepoInv, FSRepoTypeOK
<1>11. pc'[h] \in {"closed", "remove"} BY <1>2, Zenon DEF RepoInv, FSRepoTypeOK
<1>12. \A g \in Handles : ref[g] # 0 => ref[g] \in Items /\ ref[g] \in Nat
  BY <1>3 DEF RepoInv, FSRepoTypeOK
<1>13. \A g \in Handles : ref[g] # 0 => item'[ref'[g]].closed = item[ref[g]].closed BY <1>1, <1>9, <1>12, Zenon
<1>14. OpenInv'
  <2>1. \A g \in Handles : pc'[g] = "dead" => pc[g] = "dead" BY <1>10, <1>11, ZenonT(60)
  <2> QED BY <1>1, <1>13, <2>1 DEF RepoInv, OpenInv
<1>15. \A j \in 1..opens' : item'[j].refs = Wrap(Balance(ref', left', j))
  <2> SUFFICES ASSUME NEW j \in 1..opens PROVE item'[j].refs = Wrap(Balance(ref', left', j)) BY <1>1, Zenon
  <2>1. CASE j = i BY <1>6, <1>8, <1>9, <2>1, Zenon
  <2>2. CASE j # i
    <3>1. j \in Nat \ {i} /\ j \in Items BY <1>3, <2>2
    <3>2. item'[j].refs = item[j].refs /\ Balance(ref', left', j) = Balance(ref, left, j) BY <1>6, <1>9, <2>2, <3>1, ZenonT(60)
    <3> QED BY <3>2, ZenonT(60) DEF RepoInv, CountInv
  <2> QED BY <2>1, <2>2, Zenon
<1>16. CASE n > 0
  <2>1. active' = active /\ pc'[h] = "closed"
    <3>1. n # 0 BY <1>16
    <3> QED BY <1>2, <3>1, Zenon DEF RepoInv, FSRepoTypeOK
  <2>2. LastInv'
    <3>1. \A q \in Procs : active'[q] # 0 =>
            lock' = q /\ ~item'[active'[q]].closed /\ Balance(ref', left', active'[q]) > 0
      <4> SUFFICES ASSUME NEW q \in Procs, active[q] # 0
                   PROVE  lock = q /\ ~item'[active[q]].closed /\ Balance(ref', left', active[q]) > 0
        BY <1>1, <2>1, Zenon
      <4>1. lock = q /\ ~item[active[q]].closed /\ Balance(ref, left, active[q]) > 0 BY ZenonT(60) DEF RepoInv, LastInv
      <4>2. active[q] \in Items /\ active[q] \in Nat BY <1>3 DEF RepoInv, FSRepoTypeOK
      <4>3. CASE active[q] # i BY <1>6, <1>9, <4>1, <4>2, <4>3, ZenonT(60)
      <4>4. CASE active[q] = i
        <5>1. B > 0 BY <4>1, <4>4, Zenon DEF B
        <5>2. B - 1 > 0 BY <1>5, <1>8, <1>16, <5>1 DEF Wrap
        <5> QED BY <1>6, <1>9, <4>1, <4>2, <4>4, <5>2, ZenonT(60)
      <4> QED BY <4>3, <4>4, ZenonT(60)
    <3>2. \A g \in Handles : pc'[g] \in ClosePcs =>
            lock' = ProcOf[g] /\ active'[ProcOf[g]] = 0 /\ ~item'[ref'[g]].closed
      <4> SUFFICES ASSUME NEW g \in Handles, pc'[g] \in ClosePcs
                   PROVE  lock' = ProcOf[g] /\ active'[ProcOf[g]] = 0 /\ ~item'[ref'[g]].closed
        BY Zenon
      <4>1. pc[g] \in ClosePcs BY <1>10, <2>1, Zenon DEF ClosePcs
      <4>2. ref[g] # 0 BY <4>1, ZenonT(60) DEF RepoInv, LocalInv
      <4> QED BY <1>1, <1>13, <2>1, <4>1, <4>2, Zenon DEF RepoInv, LastInv
    <3> QED BY <3>1, <3>2, ZenonT(60) DEF LastInv
  <2>3. \A g \in Handles : ref'[g] # 0 /\ pc'[g] # "dead" /\ active'[ProcOf[g]] # ref'[g] =>
          Balance(ref', left', ref'[g]) <= 0
    <3> SUFFICES ASSUME NEW g \in Handles, ref[g] # 0, pc'[g] # "dead", active[ProcOf[g]] # ref[g]
                 PROVE  Balance(ref', left', ref[g]) <= 0
      BY <1>1, <2>1, Zenon
    <3>1. pc[g] # "dead" BY <1>4, <1>10, Zenon
    <3>2. Balance(ref, left, ref[g]) <= 0 BY <3>1, Zenon DEF RepoInv, CountInv
    <3>3. CASE ref[g] = i
      <4>1. B <= 0 BY <3>2, <3>3, Zenon DEF B
      <4>2. Balance(ref', left', ref[g]) = B - 1 BY <1>6, <3>3, Zenon
      <4> QED BY <1>5, <4>1, <4>2, SMTT(60)
    <3>4. CASE ref[g] # i BY <1>6, <1>12, <3>2, <3>4, Zenon
    <3> QED BY <3>3, <3>4, ZenonT(60)
  <2> QED BY <1>14, <1>15, <2>2, <2>3, ZenonT(60) DEF CountsInv, CountInv
<1>17. CASE n = 0
  <2>1. active' = [active EXCEPT ![p] = 0]
    <3>1. ~(n > 0) BY <1>17
    <3> QED BY <1>2, <3>1, Zenon
  <2>2. B = 1 BY <1>5, <1>7, <1>8, <1>17 DEF Wrap
  <2>3. active[p] = i
    <3> SUFFICES ASSUME active[p] # i PROVE FALSE BY Zenon
    <3>1. B <= 0 BY <1>3, <1>4, ZenonT(60) DEF RepoInv, CountInv, B
    <3> QED BY <2>2, <3>1
  <2>4. lock = p /\ ~item[i].closed BY <1>3, <2>3, ZenonT(60) DEF RepoInv, LastInv
  <2>5. \A q \in Procs : active'[q] = 0 /\ (q # p => active[q] = 0)
    <3>1. \A q \in Procs : active[q] # 0 => q = p BY <2>4, ZenonT(60) DEF RepoInv, LastInv
    <3> QED BY <2>1, <3>1, ZenonT(60) DEF RepoInv, FSRepoTypeOK
  <2>6. \A g \in Handles : pc'[g] \in ClosePcs => g = h
    <3> SUFFICES ASSUME NEW g \in Handles, pc'[g] \in ClosePcs, g # h PROVE FALSE BY Zenon
    <3>1. pc[g] \in ClosePcs BY <1>10, Zenon
    <3>2. lock = ProcOf[g] /\ active[ProcOf[g]] = 0 BY <3>1, ZenonT(60) DEF RepoInv, LastInv
    <3> QED BY <1>3, <2>3, <2>4, <3>2, ZenonT(60)
  <2>7. LastInv' BY <1>1, <1>3, <1>13, <2>4, <2>5, <2>6, Zenon DEF LastInv
  <2>8. \A g \in Handles : ref'[g] # 0 /\ pc'[g] # "dead" /\ active'[ProcOf[g]] # ref'[g] =>
          Balance(ref', left', ref'[g]) <= 0
    <3> SUFFICES ASSUME NEW g \in Handles, ref[g] # 0, pc'[g] # "dead"
                 PROVE  Balance(ref', left', ref[g]) <= 0
      BY <1>1, Zenon
    <3>1. pc[g] # "dead" BY <1>4, <1>10, Zenon
    <3>2. CASE ref[g] = i BY <1>6, <2>2, <3>2, SMTT(60)
    <3>3. CASE ref[g] # i
      <4>1. active[ProcOf[g]] # ref[g] BY <2>3, <2>5, <3>3, Zenon
      <4>2. Balance(ref, left, ref[g]) <= 0 BY <3>1, <4>1, ZenonT(60) DEF RepoInv, CountInv
      <4> QED BY <1>6, <1>12, <3>3, <4>2, ZenonT(60)
    <3> QED BY <3>2, <3>3, ZenonT(60)
  <2> QED BY <1>14, <1>15, <2>7, <2>8, ZenonT(60) DEF CountsInv, CountInv
<1> QED BY <1>2, <1>16, <1>17, Zenon

LEMMA RepoInvStep ==
  ASSUME FewHandles, RepoInv, [FSRepoNext]_repovars
  PROVE  RepoInv'
<1>1. CASE FSRepoNext
  <2> USE <1>1
  <2>1. FSRepoTypeOK' BY TypeStep, Zenon DEF RepoInv
  <2>2. LocalInv' BY LocalStep, Zenon DEF RepoInv
  <2>3. ASSUME NEW h \in Inits, InitStart(h) \/ InitStep(h) PROVE Quiet
    <3>1. pc[h] # "dead" /\ h \in Handles
          /\ \E l \in {"inited", "config", "spec", "version"} : pc' = [pc EXCEPT ![h] = l]
      BY <2>3, ZenonT(60) DEF InitStart, InitStep, InitWrite, Goto, Handles
    <3>2. UNCHANGED <<lock, active, item, opens, ref, left>>
      BY <2>3, Zenon DEF InitStart, InitStep, InitWrite, refs
    <3> QED BY <3>1, <3>2, Zenon DEF Quiet, ClosePcs, RepoInv, FSRepoTypeOK
  <2>4. ASSUME NEW h \in Daemons, SetAPIAddr(h) PROVE Quiet
    BY <2>4, Zenon DEF SetAPIAddr, Goto, locks, refs, Quiet, ClosePcs, RepoInv, FSRepoTypeOK, Handles
  <2>5. ASSUME NEW h \in Daemons \cup Commands, RemoveApi(h) PROVE Quiet
    BY <2>5, Zenon DEF RemoveApi, Goto, locks, refs, Quiet, ClosePcs, RepoInv, FSRepoTypeOK, Handles
  <2>6. ASSUME NEW h \in Commands, Config(h) \/ SetConfig(h) \/ SetConfigKey(h) \/ Refused(h) PROVE Quiet
    <3>1. pc[h] \in {"open", "edited"} /\ h \in Handles /\ \E l \in {"edited", "done"} : pc' = [pc EXCEPT ![h] = l]
      BY <2>6, ZenonT(60) DEF Config, SetConfig, SetConfigKey, Refused, Goto, Handles
    <3>2. UNCHANGED <<lock, active, opens, ref, left>>
      BY <2>6, Zenon DEF Config, SetConfig, SetConfigKey, Refused, refs, locks
    <3>3. item' = item \/ \E o : item' = [item EXCEPT ![ref[h]].conf = o]
      BY <2>6, Zenon DEF Config, SetConfig, SetConfigKey, Refused, refs
    <3>4. \A i \in Items : item'[i].refs = item[i].refs /\ item'[i].closed = item[i].closed
      <4> SUFFICES ASSUME NEW i \in Items
                   PROVE  item'[i].refs = item[i].refs /\ item'[i].closed = item[i].closed
        BY Zenon
      <4>1. item[i] \in [refs : 0..RefMod-1, closed : BOOLEAN, conf : Objects] BY Zenon DEF RepoInv, FSRepoTypeOK
      <4>2. CASE \E o : item' = [item EXCEPT ![ref[h]].conf = o]
        <5>1. PICK o : item' = [item EXCEPT ![ref[h]].conf = o] BY <4>2, Zenon
        <5>2. item'[i] = IF i = ref[h] THEN [item[i] EXCEPT !.conf = o] ELSE item[i]
          BY <5>1, Zenon DEF RepoInv, FSRepoTypeOK
        <5> QED BY <4>1, <5>2, Zenon
      <4> QED BY <3>3, <4>2, Zenon
    <3> QED BY <3>1, <3>2, <3>4, ZenonT(60) DEF Quiet, ClosePcs, RepoInv, FSRepoTypeOK
  <2>7. ASSUME NEW h \in Daemons \cup Commands, Open(h) \/ Close(h) \/ Unlock(h) PROVE CountsInv'
    <3>1. h \in Handles BY Zenon DEF Handles
    <3>2. CASE Open(h) BY <2>1, <3>1, <3>2, SharedStep, NewStep, Zenon DEF Open
    <3>3. CASE Close(h) BY <2>1, <3>1, <3>3, CloseStep, Zenon
    <3>4. CASE Unlock(h) BY <3>1, <3>4, UnlockStep, Zenon
    <3> QED BY <2>7, <3>2, <3>3, <3>4, Zenon
  <2>8. CountsInv' BY <2>3, <2>4, <2>5, <2>6, <2>7, QuietStep, CrashStep, ZenonT(60) DEF FSRepoNext
  <2> QED BY <2>1, <2>2, <2>8, Zenon DEF RepoInv, CountsInv
<1>2. CASE UNCHANGED repovars
  <2> USE <1>2 DEF repovars, files, locks, refs, edit
  <2>1. FSRepoTypeOK' BY Zenon DEF RepoInv, FSRepoTypeOK
  <2>2. LocalInv' BY Zenon DEF RepoInv, LocalInv
  <2>3. OpenInv' BY Zenon DEF RepoInv, OpenInv
  <2>4. LastInv' BY Zenon DEF RepoInv, LastInv
  <2>5. CountInv' BY Zenon DEF RepoInv, CountInv
  <2> QED BY <2>1, <2>2, <2>3, <2>4, <2>5, Zenon DEF RepoInv
<1> QED BY <1>1, <1>2, Zenon

\* With fewer than 2^32 handles, a repo somebody holds a reference to is open
\* and locked by its process, until a daemon of that process closes twice.
THEOREM HeldIsUsable == ASSUME FewHandles PROVE FSRepoSpec => []UsableWhileHeld
<1>1. RepoInv => UsableWhileHeld BY HeldIsOpen, ZenonT(60) DEF UsableWhileHeld, Holds, HoldPcs
<1> QED BY RepoInvInit, RepoInvStep, <1>1, PTL DEF FSRepoSpec

-----------------------------------------------------------------------------
(* What the repository promises *)

\* Who keeps repo.lock has the repo open, is closing it, or failed to.
LEMMA LockIsHeld ==
  ASSUME FewHandles, RepoInv
  PROVE  LockReleased
<1> SUFFICES ASSUME NEW p \in Procs, lock = p,
                    \A i \in 1..opens : item[i].closed \/ active[p] = i
             PROVE  \E h \in Handles : ProcOf[h] = p /\ (Holds(h) \/ pc[h] \in {"remove", "unlock"})
  BY Zenon DEF LockReleased
<1>1. lock # None BY FSRepoAssumption, Zenon
<1>2. PICK g \in Handles : ref[g] # 0 /\ ~item[ref[g]].closed /\ lock = ProcOf[g] BY <1>1, ZenonT(60) DEF RepoInv, OpenInv
<1>3. ref[g] \in 1..opens BY <1>2, SMTT(60) DEF RepoInv, FSRepoTypeOK
<1>4. active[p] = ref[g] /\ active[p] # 0 BY <1>2, <1>3, Zenon
<1>5. Balance(ref, left, active[p]) > 0 BY <1>4, Zenon DEF RepoInv, LastInv
<1>6. Plus(ref, left, active[p]) # {}
  <2> SUFFICES ASSUME Plus(ref, left, active[p]) = {} PROVE FALSE BY Zenon
  <2>1. Cardinality(Plus(ref, left, active[p])) = 0 BY FS_EmptySet, Zenon
  <2>2. Cardinality(Minus(ref, left, active[p])) \in Nat BY BalanceType, Zenon
  <2> QED BY <1>5, <2>1, <2>2 DEF Balance
<1>7. PICK h \in Handles : ref[h] = ref[g] /\ left[h] = Full(h) BY <1>4, <1>6, Zenon DEF Plus
<1>8. ref[h] # 0 /\ ProcOf[h] = p BY <1>2, <1>7, ZenonT(60) DEF RepoInv, OpenInv
<1>9. pc[h] # "dead" BY <1>2, <1>7, <1>8, ZenonT(60) DEF RepoInv, OpenInv
<1>10. Holds(h)
  <2>1. pc[h] \notin InitPcs \cup {"idle", "inited"} BY <1>8, ZenonT(60) DEF RepoInv, LocalInv
  <2>2. left[h] \in Int /\ ~(left[h] < Full(h)) BY <1>7 DEF RepoInv, FSRepoTypeOK
  <2>3. pc[h] \notin ClosePcs \cup {"closed"} BY <2>2, Zenon DEF RepoInv, LocalInv
  <2> QED BY <1>8, <1>9, <2>1, <2>3, ZenonT(60) DEF Holds, RepoInv, FSRepoTypeOK, InitPcs, ClosePcs
<1> QED BY <1>8, <1>10, ZenonT(60)

\* With fewer than 2^32 handles, one daemon in a process, the inits in one
\* process and every editor of a config object alone in its own: a process that
\* is done lets the next one in, the api file leads to the daemon that serves,
\* what was reported written is in the config file, and Init that returns has
\* made a whole repo.
THEOREM RepoIsSound ==
  ASSUME FewHandles, OneDaemon, OneInitProcess, SoleEditor
  PROVE  FSRepoSpec => []RepoSound
<1>1. FSRepoInit => SoundInv
  <2> SUFFICES ASSUME FSRepoInit PROVE SoundInv BY Zenon
  <2>1. DaemonReachable BY Zenon DEF FSRepoInit, DaemonReachable, Handles
  <2>2. InitInv BY Zenon DEF FSRepoInit, InitInv, Handles
  <2>3. EditInv BY ZenonT(60) DEF FSRepoInit, EditInv, Handles, Commands
  <2>4. AckedKept BY Zenon DEF FSRepoInit, AckedKept
  <2> QED BY RepoInvInit, <2>1, <2>2, <2>3, <2>4, Zenon DEF SoundInv
<1>2. SoundInv /\ [FSRepoNext]_repovars => SoundInv'
  <2> SUFFICES ASSUME SoundInv, [FSRepoNext]_repovars PROVE SoundInv' BY Zenon
  <2>1. RepoInv' BY RepoInvStep, Zenon DEF SoundInv
  <2>0. HeldInv BY HeldIsOpen, Zenon DEF SoundInv, HeldInv
  <2>2. CASE FSRepoNext
    <3>1. DaemonReachable' BY <2>0, <2>2, ServingStep, Zenon DEF SoundInv
    <3>2. InitInv' BY <2>2, InitInvStep, Zenon DEF SoundInv
    <3>3. EditInv' /\ AckedKept' BY <2>0, <2>2, EditStep, Zenon DEF SoundInv
    <3> QED BY <2>1, <3>1, <3>2, <3>3, Zenon DEF SoundInv
  <2>3. CASE UNCHANGED repovars
    BY <2>1, <2>3, ZenonT(60) DEF SoundInv, repovars, files, locks, refs, edit, DaemonReachable, InitInv, EditInv, AckedKept
  <2> QED BY <2>2, <2>3, Zenon
<1>3. SoundInv => RepoSound
  <2> SUFFICES ASSUME SoundInv PROVE RepoSound BY Zenon
  <2>1. LockReleased BY LockIsHeld, Zenon DEF SoundInv
  <2>2. InitCompletes BY Zenon DEF SoundInv, InitInv, InitCompletes, RepoInv, FSRepoTypeOK, Parts
  <2> QED BY <2>1, <2>2, Zenon DEF RepoSound, SoundInv
<1> QED BY <1>1, <1>2, <1>3, PTL DEF FSRepoSpec
=============================================================================
