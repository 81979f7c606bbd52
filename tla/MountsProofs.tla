---------------------------- MODULE MountsProofs ----------------------------
(***************************************************************************)
(* The FUSE mounts of a daemon, for any number of mount calls and mounts.  *)
(*                                                                         *)
(* A mount that failed, an unmount from outside and a shutdown each hand   *)
(* around lists of what is still to be undone.  The invariant says what such*)
(* a list may hold: the unregistering and the closing of the root of a mount*)
(* stand first, in this order, and only after its unmount; what a call     *)
(* mounted and did not publish is on its own list; and nothing is undone by*)
(* two lists at once.                                                      *)
(***************************************************************************)
EXTENDS Mounts, TLAPS

Items == (Kinds \cup {"unregister", "close"}) \X (0..MaxMounts)
Holds(todo, item) == \E i \in DOMAIN todo : todo[i] = item

MountPhases == {"idle", "unmount", "mount", "cleanup"}
MountSteps == Kinds \cup {"load", "register"}

MountsTypeOK ==
  /\ st \in [Objs -> {"none", "up", "down"}]
  /\ once \subseteq Objs /\ stuck \subseteq Objs /\ outside \subseteq Objs
  /\ nm \in [Kinds -> 0..MaxMounts]
  /\ registered \subseteq MountNos /\ openRoots \subseteq MountNos
  /\ call \in [MountCalls -> [pc : MountPhases, n : 0..MaxMounts, done : SUBSET MountSteps,
                              err : BOOLEAN, todo : Seq(Items)]]
  /\ down \in [pc : {"no", "closing", "done"}, todo : Seq(Items)]
  /\ nmounts \in 0..MaxMounts

LEMMA IdleTyped ==
  NoMount \in [pc : MountPhases, n : 0..MaxMounts, done : SUBSET MountSteps, err : BOOLEAN, todo : Seq(Items)]
BY MountsAssumption DEF NoMount, MountPhases

\* The /ipns mounts whose unmount is over: they are down or could not be unmounted.
Gone == {n \in MountNos : st[<<n, "ipns">>] = "down" \/ <<n, "ipns">> \in stuck}

\* What a list of unmounts may hold: the unregistering and the closing of a root
\* come first and in this order, after the unmount (gone); `mine` is the number of
\* the only mounts that it names directly.
GoodList(todo, mine, gone, reg) ==
  \A i \in DOMAIN todo :
    /\ todo[i][1] = "unregister" =>
         /\ todo[i][2] \in gone
         /\ i = 1 /\ Len(todo) >= 2 /\ todo[2] = <<"close", todo[i][2]>>
    /\ todo[i][1] = "close" =>
         /\ todo[i][2] \in gone
         /\ \/ i = 1 /\ todo[i][2] \notin reg
            \/ i = 2 /\ todo[1] = <<"unregister", todo[i][2]>>
    /\ todo[i][1] \in Kinds => todo[i][2] = 0 \/ todo[i][2] = mine

Mine(c) == IF call[c].pc = "cleanup" THEN call[c].n ELSE 0

ListInv ==
  /\ \A c \in MountCalls : GoodList(call[c].todo, Mine(c), Gone, registered)
  /\ GoodList(down.todo, 0, Gone, registered)
  /\ down.pc # "closing" => down.todo = <<>>

\* The kernel's side; numbers beyond nmounts are not in use.
KernelInv ==
  /\ \A n \in MountNos, k \in Kinds :
       /\ <<n, k>> \in once \cup stuck \cup outside => st[<<n, k>>] # "none"
       /\ <<n, k>> \in once /\ st[<<n, k>>] = "up" => <<n, k>> \in stuck
       /\ st[<<n, k>>] # "none" => n <= nmounts
  /\ \A n \in registered \cup openRoots : n <= nmounts
  /\ \A k \in Kinds : nm[k] <= nmounts

\* A request has its number to itself.
NumberOf(c) ==
  /\ call[c].pc \in {"idle", "mount"} => call[c].todo = <<>>
  /\ call[c].pc # "idle" =>
       /\ call[c].n \in 1..nmounts
       /\ \A k \in Kinds : nm[k] # call[c].n
       /\ \A d \in MountCalls : d # c /\ call[d].pc # "idle" => call[d].n # call[c].n
  /\ call[c].pc = "unmount" => call[c].done = {}

NumberInv == \A c \in MountCalls : NumberOf(c)

\* Until a request is through, what it has done tells what there is of its mounts
\* and of its root.
DoneOf(c) == call[c].pc \in {"unmount", "mount"} =>
  /\ \A k \in Kinds :
       /\ k \notin call[c].done => st[<<call[c].n, k>>] = "none"
       /\ st[<<call[c].n, k>>] = "down" => <<call[c].n, k>> \in outside
       /\ ~call[c].err /\ k \in call[c].done => st[<<call[c].n, k>>] # "none"
  /\ "load" \notin call[c].done => call[c].n \notin openRoots /\ "register" \notin call[c].done
  /\ "register" \notin call[c].done => call[c].n \notin registered /\ "ipns" \notin call[c].done
  /\ "load" \in call[c].done /\ "ipns" \notin call[c].done => call[c].n \in openRoots
  /\ "register" \in call[c].done /\ "ipns" \notin call[c].done => call[c].n \in registered
  /\ "ipns" \in call[c].done /\ call[c].n \in registered \cup openRoots =>
       st[<<call[c].n, "ipns">>] # "none"

DoneInv == \A c \in MountCalls : DoneOf(c)

\* The clean-up of a request that failed is about what it mounted, its root included.
CleanOf(c) == call[c].pc = "cleanup" =>
  /\ \A k \in Kinds : Holds(call[c].todo, <<k, call[c].n>>) => st[<<call[c].n, k>>] # "none"
  /\ call[c].n \in registered \cup openRoots =>
       Holds(call[c].todo, <<"ipns", call[c].n>>) \/ Holds(call[c].todo, <<"close", call[c].n>>)

CleanInv == \A c \in MountCalls : CleanOf(c)

\* Some list is about to close the root n.
Closes(n) == \/ \E c \in MountCalls : Holds(call[c].todo, <<"close", n>>)
             \/ Holds(down.todo, <<"close", n>>)

\* A root that is open or registered is in somebody's care, and one behind a mount
\* that could not be unmounted is about to be closed.
RootInv ==
  /\ \A n \in registered \cup openRoots :
       \/ st[<<n, "ipns">>] = "up" \/ <<n, "ipns">> \in outside \/ Closes(n)
       \/ \E c \in MountCalls : call[c].pc # "idle" /\ call[c].n = n
  /\ \A n \in openRoots : <<n, "ipns">> \in stuck => Closes(n)
  /\ \A n \in MountNos : st[<<n, "ipns">>] = "up" /\ <<n, "ipns">> \notin stuck =>
       n \in registered /\ n \in openRoots

\* While no two requests meet, the mounts that are up and not stuck are the ones
\* that the list under way, or node.Mounts, still names.
Left(n, k) == st[<<n, k>>] = "up" /\ <<n, k>> \notin stuck

AloneInv == ~overlapped =>
  /\ \A c, d \in MountCalls : call[c].pc # "idle" /\ call[d].pc # "idle" => c = d
  /\ \A c \in MountCalls : call[c].pc # "idle" => down.pc = "no"
  /\ \A n \in MountNos, k \in Kinds : Left(n, k) =>
       /\ \A c \in MountCalls :
            /\ call[c].pc = "unmount" => nm[k] = n /\ Holds(call[c].todo, <<k, 0>>)
            /\ call[c].pc \in {"mount", "cleanup"} => call[c].n = n
            /\ call[c].pc = "cleanup" => Holds(call[c].todo, <<k, n>>)
       /\ (\A c \in MountCalls : call[c].pc = "idle") => nm[k] = n
       /\ down.pc = "closing" => Holds(down.todo, <<k, 0>>)
       /\ down.pc # "done"

HandInv ==
  /\ ~handLost
  /\ hand \in [pc : {"idle", "allowed"}, raced : BOOLEAN]
  /\ old \subseteq MountNos
  /\ ~raced => \A n \in old : <<n, "ipns">> \in outside
  /\ hand.pc = "allowed" /\ ~hand.raced =>
       /\ \A c \in MountCalls : call[c].pc = "idle"
       /\ down.pc # "closing" /\ ~Up(<<nm["ipns"], "ipns">>)

MountsInv ==
  /\ MountsTypeOK /\ ListInv /\ KernelInv /\ NumberInv /\ DoneInv /\ CleanInv
  /\ RootInv /\ AloneInv /\ HandInv

-----------------------------------------------------------------------------
(* Lists of unmounts *)

LEMMA HoldsTail ==
  ASSUME NEW todo \in Seq(Items), todo # <<>>
  PROVE  /\ Head(todo) \in Items /\ Tail(todo) \in Seq(Items)
         /\ Head(todo) = todo[1] /\ Len(Tail(todo)) = Len(todo) - 1
         /\ \A i \in 1..(Len(todo) - 1) : Tail(todo)[i] = todo[i + 1]
         /\ \A x : Holds(Tail(todo), x) => Holds(todo, x)
         /\ \A x : Holds(todo, x) => x = Head(todo) \/ Holds(Tail(todo), x)
         /\ Holds(todo, Head(todo))
<1> USE DEF Holds
<1>1. /\ Len(todo) \in Nat /\ Len(todo) > 0 /\ DOMAIN todo = 1..Len(todo)
      /\ Head(todo) = todo[1] /\ Head(todo) \in Items /\ Tail(todo) \in Seq(Items)
      /\ Len(Tail(todo)) = Len(todo) - 1 /\ DOMAIN Tail(todo) = 1..(Len(todo) - 1)
      /\ \A i \in 1..(Len(todo) - 1) : Tail(todo)[i] = todo[i + 1]
  OBVIOUS
<1>2. ASSUME NEW x, Holds(Tail(todo), x) PROVE Holds(todo, x)
  BY <1>1, <1>2
<1>3. ASSUME NEW x, Holds(todo, x), x # Head(todo) PROVE Holds(Tail(todo), x)
  <2>1. PICK i \in DOMAIN todo : todo[i] = x BY <1>3, Zenon
  <2>2. i # 1 BY <1>1, <1>3, <2>1, Zenon
  <2>3. i - 1 \in 1..(Len(todo) - 1) /\ Tail(todo)[i - 1] = x BY <1>1, <2>1, <2>2
  <2> QED BY <2>3, <1>1, Zenon
<1>4. Holds(todo, Head(todo)) BY <1>1
<1> QED BY <1>1, <1>2, <1>3, <1>4, ZenonT(60)

LEMMA HoldsBoth ==
  ASSUME NEW s \in Seq(Items), NEW t \in Seq(Items), NEW x
  PROVE  Holds(s \o t, x) <=> Holds(s, x) \/ Holds(t, x)
<1>1. /\ Len(s) \in Nat /\ DOMAIN s = 1..Len(s) /\ Len(t) \in Nat /\ DOMAIN t = 1..Len(t)
      /\ DOMAIN (s \o t) = 1..(Len(s) + Len(t))
  OBVIOUS
<1>2. \A i \in 1..(Len(s) + Len(t)) : (s \o t)[i] = IF i <= Len(s) THEN s[i] ELSE t[i - Len(s)]
  OBVIOUS
<1> HIDE DEF Holds
<1>3. ASSUME Holds(s \o t, x) PROVE Holds(s, x) \/ Holds(t, x)
  <2>1. PICK i \in 1..(Len(s) + Len(t)) : (s \o t)[i] = x BY <1>1, <1>3, Zenon DEF Holds
  <2>2. CASE i <= Len(s)
    <3>1. i \in DOMAIN s /\ s[i] = x BY <2>1, <2>2, <1>1, <1>2
    <3> QED BY <3>1, Zenon DEF Holds
  <2>3. CASE i > Len(s)
    <3>1. i - Len(s) \in DOMAIN t /\ t[i - Len(s)] = x BY <2>1, <2>3, <1>1, <1>2
    <3> QED BY <3>1, Zenon DEF Holds
  <2> QED BY <2>1, <2>2, <2>3, <1>1
<1>4. ASSUME Holds(s, x) PROVE Holds(s \o t, x)
  <2>1. PICK i \in 1..Len(s) : s[i] = x BY <1>1, <1>4, Zenon DEF Holds
  <2>2. i \in DOMAIN (s \o t) /\ (s \o t)[i] = x BY <2>1, <1>1, <1>2
  <2> QED BY <2>2, Zenon DEF Holds
<1>5. ASSUME Holds(t, x) PROVE Holds(s \o t, x)
  <2>1. PICK i \in 1..Len(t) : t[i] = x BY <1>1, <1>5, Zenon DEF Holds
  <2>2. Len(s) + i \in 1..(Len(s) + Len(t)) /\ ~(Len(s) + i <= Len(s)) /\ (Len(s) + i) - Len(s) = i
    BY <2>1, <1>1
  <2>3. Len(s) + i \in DOMAIN (s \o t) /\ (s \o t)[Len(s) + i] = x BY <2>1, <2>2, <1>1, <1>2, Zenon
  <2> QED BY <2>3, Zenon DEF Holds
<1> QED BY <1>3, <1>4, <1>5, Zenon

LEMMA PushedSeq ==
  ASSUME NEW todo \in Seq(Items), NEW a \in Items, NEW b \in Items
  PROVE  /\ <<a, b>> \o todo \in Seq(Items)
         /\ Len(<<a, b>> \o todo) = Len(todo) + 2
         /\ (<<a, b>> \o todo)[1] = a /\ (<<a, b>> \o todo)[2] = b
         /\ \A i \in 1..Len(todo) : (<<a, b>> \o todo)[i + 2] = todo[i]
OBVIOUS

LEMMA HoldsPushed ==
  ASSUME NEW todo \in Seq(Items), NEW a \in Items, NEW b \in Items
  PROVE  \A x : Holds(<<a, b>> \o todo, x) <=> x = a \/ x = b \/ Holds(todo, x)
<1>1. <<a, b>> \in Seq(Items) OBVIOUS
<1>2. \A x : Holds(<<a, b>>, x) <=> x = a \/ x = b BY DEF Holds
<1>3. \A x : Holds(<<a, b>> \o todo, x) <=> Holds(<<a, b>>, x) \/ Holds(todo, x)
  BY <1>1, HoldsBoth, ZenonT(60)
<1> QED BY <1>2, <1>3, Zenon

LEMMA HoldsNothing == \A x : ~Holds(<<>>, x)
BY DEF Holds

LEMMA InOrderList ==
  ASSUME NEW n \in 0..MaxMounts, NEW kinds \in SUBSET Kinds
  PROVE  /\ InOrder(n, kinds) \in Seq(Items)
         /\ \A x : Holds(InOrder(n, kinds), x) <=> \E k \in kinds : x = <<k, n>>
<1> DEFINE one(k) == IF k \in kinds THEN << <<k, n>> >> ELSE <<>>
<1>0. InOrder(n, kinds) = one("ipfs") \o one("ipns") \o one("mfs") BY Zenon DEF InOrder
<1>1. \A k \in kinds : <<k, n>> \in Items BY Zenon DEF Items
<1>2. kinds \subseteq {"ipfs", "ipns", "mfs"} BY MountsAssumption, Zenon
<1>3. ASSUME NEW k PROVE one(k) \in Seq(Items)
  BY <1>1
<1>4. ASSUME NEW k, NEW x PROVE Holds(one(k), x) <=> k \in kinds /\ x = <<k, n>>
  BY DEF Holds
<1> HIDE DEF one
<1>5. one("ipfs") \o one("ipns") \in Seq(Items) BY <1>3
<1>6. one("ipfs") \o one("ipns") \o one("mfs") \in Seq(Items) BY <1>3, <1>5
<1>7. ASSUME NEW x
      PROVE  Holds(one("ipfs") \o one("ipns") \o one("mfs"), x)
               <=> Holds(one("ipfs"), x) \/ Holds(one("ipns"), x) \/ Holds(one("mfs"), x)
  BY <1>3, <1>5, HoldsBoth, Zenon
<1> QED BY <1>0, <1>2, <1>4, <1>6, <1>7, Zenon

\* A good list stays good as mounts go down and roots are unregistered.
LEMMA GoodStays ==
  ASSUME NEW todo, NEW mine, NEW gone, NEW gone2, NEW reg, NEW reg2,
         GoodList(todo, mine, gone, reg), gone \subseteq gone2, reg2 \cap gone \subseteq reg
  PROVE  GoodList(todo, mine, gone2, reg2)
BY Zenon DEF GoodList

\* What AfterItem makes of a list.
Pushes(item) == item[1] = "ipns" /\ ~Passed(item)

LEMMA AfterHolds ==
  ASSUME MountsTypeOK, NEW todo \in Seq(Items), todo # <<>>,
         NEW n, n = ObjOf(Head(todo))[1], Pushes(Head(todo)) => n \in MountNos
  PROVE  /\ AfterItem(todo) \in Seq(Items)
         /\ Pushes(Head(todo)) => /\ Len(AfterItem(todo)) = Len(todo) + 1
                                  /\ AfterItem(todo)[1] = <<"unregister", n>>
                                  /\ AfterItem(todo)[2] = <<"close", n>>
                                  /\ \A i \in 3..(Len(todo) + 1) : AfterItem(todo)[i] = todo[i - 1]
         /\ ~Pushes(Head(todo)) => AfterItem(todo) = Tail(todo)
         /\ \A x : Holds(AfterItem(todo), x) <=>
               \/ Holds(Tail(todo), x)
               \/ Pushes(Head(todo)) /\ x \in {<<"unregister", n>>, <<"close", n>>}
<1>1. /\ Tail(todo) \in Seq(Items) /\ Len(todo) \in Nat /\ Len(Tail(todo)) = Len(todo) - 1
      /\ \A i \in 1..(Len(todo) - 1) : Tail(todo)[i] = todo[i + 1]
  BY HoldsTail
<1>2. CASE Pushes(Head(todo))
  <2> DEFINE s == << <<"unregister", n>>, <<"close", n>> >> \o Tail(todo)
  <2>1. AfterItem(todo) = s BY <1>2, Zenon DEF AfterItem, Pushes
  <2>2. <<"unregister", n>> \in Items /\ <<"close", n>> \in Items
    BY <1>2, MountsAssumption DEF Items, MountNos
  <2>3. /\ s \in Seq(Items) /\ Len(s) = Len(Tail(todo)) + 2
        /\ s[1] = <<"unregister", n>> /\ s[2] = <<"close", n>>
        /\ \A i \in 1..Len(Tail(todo)) : s[i + 2] = Tail(todo)[i]
    BY <1>1, <2>2, PushedSeq
  <2>h. \A x : Holds(s, x) <=>
              x = <<"unregister", n>> \/ x = <<"close", n>> \/ Holds(Tail(todo), x)
    BY <1>1, <2>2, HoldsPushed, Zenon
  <2> HIDE DEF s
  <2>4. Len(s) = Len(todo) + 1 BY <1>1, <2>3
  <2>5. ASSUME NEW i \in 3..(Len(todo) + 1) PROVE s[i] = todo[i - 1]
    <3>1. i - 2 \in 1..(Len(todo) - 1) /\ (i - 2) + 2 = i /\ (i - 2) + 1 = i - 1 BY <1>1
    <3> QED BY <1>1, <2>3, <3>1, ZenonT(60)
  <2> QED BY <1>2, <2>1, <2>3, <2>h, <2>4, <2>5, Zenon
<1>3. CASE ~Pushes(Head(todo))
  <2>1. AfterItem(todo) = Tail(todo) BY <1>3, Zenon DEF AfterItem, Pushes
  <2> QED BY <1>1, <1>3, <2>1, Zenon
<1> QED BY <1>2, <1>3, Zenon

LEMMA AfterGood ==
  ASSUME MountsTypeOK, NEW todo \in Seq(Items), todo # <<>>,
         NEW mine, NEW gone, NEW gone2, NEW reg, NEW reg2,
         GoodList(todo, mine, gone, reg), gone \subseteq gone2, gone2 \subseteq MountNos,
         reg2 \cap gone \subseteq reg,
         Pushes(Head(todo)) => ObjOf(Head(todo))[1] \in gone2,
         \A m : Head(todo) = <<"unregister", m>> => m \notin reg2
  PROVE  GoodList(AfterItem(todo), mine, gone2, reg2)
<1> DEFINE n == ObjOf(Head(todo))[1]
           t == AfterItem(todo)
<1>0. n = ObjOf(Head(todo))[1] BY Zenon
<1> HIDE DEF n
<1>1. /\ Head(todo) = todo[1] /\ Head(todo) \in Items /\ Len(Tail(todo)) = Len(todo) - 1
      /\ Len(todo) \in Nat
      /\ \A i \in 1..(Len(todo) - 1) : Tail(todo)[i] = todo[i + 1]
      /\ DOMAIN todo = 1..Len(todo)
  BY HoldsTail
<1>2. Pushes(Head(todo)) => n \in gone2 /\ n \in MountNos BY <1>0, Zenon
<1>3. /\ t \in Seq(Items)
      /\ Pushes(Head(todo)) => /\ Len(t) = Len(todo) + 1
                               /\ t[1] = <<"unregister", n>> /\ t[2] = <<"close", n>>
                               /\ \A i \in 3..(Len(todo) + 1) : t[i] = todo[i - 1]
      /\ ~Pushes(Head(todo)) => t = Tail(todo)
  BY <1>0, <1>2, AfterHolds, Zenon
<1>d. Len(t) \in Nat /\ DOMAIN t = 1..Len(t) BY <1>3
<1> HIDE DEF t
<1>4. ASSUME NEW i \in DOMAIN t
      PROVE  /\ t[i][1] = "unregister" =>
                  /\ t[i][2] \in gone2
                  /\ i = 1 /\ Len(t) >= 2 /\ t[2] = <<"close", t[i][2]>>
             /\ t[i][1] = "close" =>
                  /\ t[i][2] \in gone2
                  /\ \/ i = 1 /\ t[i][2] \notin reg2
                     \/ i = 2 /\ t[1] = <<"unregister", t[i][2]>>
             /\ t[i][1] \in Kinds => t[i][2] = 0 \/ t[i][2] = mine
  <2>0. "unregister" \notin Kinds /\ "close" \notin Kinds BY MountsAssumption, Zenon
  <2>1. CASE Pushes(Head(todo))
    <3>0. /\ Len(t) = Len(todo) + 1
          /\ t[1] = <<"unregister", n>> /\ t[2] = <<"close", n>>
          /\ \A j \in 3..(Len(todo) + 1) : t[j] = todo[j - 1]
          /\ n \in gone2
      BY <1>2, <1>3, <2>1, Zenon
    <3>1. DOMAIN t = 1..(Len(todo) + 1) /\ Len(todo) >= 1
      BY <1>1, <1>d, <3>0
    <3>2. CASE i = 1
      BY <1>1, <2>0, <3>0, <3>1, <3>2
    <3>3. CASE i = 2
      BY <1>1, <2>0, <3>0, <3>1, <3>3
    <3>4. CASE i > 2
      <4>1. i - 1 \in DOMAIN todo /\ i - 1 > 1 /\ t[i] = todo[i - 1]
        BY <1>1, <3>0, <3>1, <3>4
      <4>2. todo[1][1] = "ipns" BY <1>1, <2>1, Zenon DEF Pushes
      <4> QED BY <4>1, <4>2, <2>0 DEF GoodList
    <3> QED BY <3>1, <3>2, <3>3, <3>4
  <2>2. CASE ~Pushes(Head(todo))
    <3>1. t = Tail(todo) BY <1>3, <2>2, Zenon
    <3>2. i \in 1..(Len(todo) - 1) /\ i + 1 \in DOMAIN todo /\ t[i] = todo[i + 1] /\ i + 1 > 1
      BY <1>1, <1>d, <3>1
    <3>3. t[i][1] # "unregister" BY <3>2 DEF GoodList
    <3>4. ASSUME t[i][1] = "close" PROVE i = 1 /\ t[i][2] \in gone2 /\ t[i][2] \notin reg2
      <4>1. t[i][2] \in gone /\ i + 1 = 2 /\ todo[1] = <<"unregister", t[i][2]>>
        BY <3>2, <3>4 DEF GoodList
      <4> QED BY <1>1, <4>1, <3>2
    <3>5. t[i][1] \in Kinds => t[i][2] = 0 \/ t[i][2] = mine BY <3>2, Zenon DEF GoodList
    <3> QED BY <3>3, <3>4, <3>5, Zenon
  <2> QED BY <2>1, <2>2, Zenon
<1> QED BY <1>4, Zenon DEF GoodList, t

-----------------------------------------------------------------------------
(* One item of a list of unmounts *)

\* What an unmount may change in the kernel: the mount that the item is about goes
\* down, or is stuck.
KernelStep(item) ==
  /\ st' \in [Objs -> {"none", "up", "down"}]
  /\ once' \subseteq Objs /\ stuck' \subseteq Objs /\ outside' = outside
  /\ stuck \subseteq stuck'
  /\ \A o \in Objs : \/ st'[o] = st[o]
                     \/ st[o] = "up" /\ st'[o] = "down" /\ o = ObjOf(item)
  /\ \A o \in Objs : o \in stuck' => o \in stuck \/ (st[o] = "up" /\ o = ObjOf(item))
  /\ \A o \in Objs : o \in once' => o \in once \/ (st[o] = "up" /\ o = ObjOf(item))
  /\ \A o \in Objs : o \in once' /\ st'[o] = "up" => o \in stuck'

LEMMA ObjOfItem ==
  ASSUME MountsTypeOK, NEW item \in Items, item[1] \in Kinds
  PROVE  /\ ObjOf(item)[2] = item[1] /\ ObjOf(item)[1] \in 0..MaxMounts
         /\ item[2] = 0 => ObjOf(item)[1] = nm[item[1]]
         /\ item[2] # 0 => ObjOf(item)[1] = item[2]
         /\ ObjOf(item)[1] # 0 => ObjOf(item)[1] \in MountNos /\ ObjOf(item) \in Objs
         /\ ObjOf(item) = <<ObjOf(item)[1], item[1]>>
<1>1. item[2] \in 0..MaxMounts BY Zenon DEF Items
<1>2. nm[item[1]] \in 0..MaxMounts BY Zenon DEF MountsTypeOK
<1>3. PICK m \in 0..MaxMounts : /\ ObjOf(item) = <<m, item[1]>>
                                /\ item[2] = 0 => m = nm[item[1]]
                                /\ item[2] # 0 => m = item[2]
  BY <1>1, <1>2, Zenon DEF ObjOf
<1>4. m # 0 => m \in MountNos BY MountsAssumption DEF MountNos
<1> QED BY <1>3, <1>4 DEF Objs

LEMMA UnmountKernel ==
  ASSUME MountsTypeOK, KernelInv, NEW item \in Items, item[1] \in Kinds,
         UnmountObj(ObjOf(item))
  PROVE  /\ KernelStep(item)
         /\ ObjOf(item)[1] # 0 => st'[ObjOf(item)] # "up" \/ ObjOf(item) \in stuck'
<1> DEFINE o == ObjOf(item)
<1>1. /\ o[2] = item[1] /\ o[1] \in 0..MaxMounts
      /\ o[1] # 0 => o[1] \in MountNos /\ o \in Objs
      /\ o = <<o[1], item[1]>>
  BY ObjOfItem, Zenon
<1> HIDE DEF o
<1>2. \A p \in Objs : p \in once /\ st[p] = "up" => p \in stuck
  BY DEF KernelInv, Objs
<1>3. CASE (Up(o) => o \in once) /\ UNCHANGED <<kernel, mntfaults>>
  BY <1>1, <1>2, <1>3, Zenon DEF KernelStep, Up, kernel, MountsTypeOK, o
<1>4. CASE /\ Up(o) /\ o \notin once /\ once' = once \cup {o} /\ UNCHANGED outside
           /\ st' = [st EXCEPT ![o] = "down"] /\ UNCHANGED <<stuck, mntfaults>>
  BY <1>1, <1>2, <1>4, Zenon DEF KernelStep, Up, MountsTypeOK, o
<1>5. CASE /\ Up(o) /\ o \notin once /\ once' = once \cup {o} /\ UNCHANGED outside
           /\ MountFault /\ stuck' = stuck \cup {o} /\ UNCHANGED st
  BY <1>1, <1>2, <1>5, Zenon DEF KernelStep, Up, MountsTypeOK, o
<1> QED BY <1>3, <1>4, <1>5, Zenon DEF UnmountObj, o

\* Every item, with what it does to the roots and to the names.
LEMMA ItemStep ==
  ASSUME MountsTypeOK, KernelInv, NEW item \in Items, DoItem(item)
  PROVE  /\ KernelStep(item)
         /\ item[1] \in Kinds =>
              /\ UNCHANGED <<registered, openRoots>>
              /\ ObjOf(item)[1] # 0 => st'[ObjOf(item)] # "up" \/ ObjOf(item) \in stuck'
         /\ item[1] = "unregister" =>
              registered' = registered \ {item[2]} /\ UNCHANGED <<st, stuck, openRoots>>
         /\ item[1] = "close" =>
              openRoots' = openRoots \ {item[2]} /\ UNCHANGED <<st, stuck, registered>>
<1>k. ASSUME UNCHANGED kernel PROVE KernelStep(item)
  BY <1>k DEF KernelStep, kernel, MountsTypeOK, KernelInv, Objs
<1>0. "unregister" \notin Kinds /\ "close" \notin Kinds BY MountsAssumption, Zenon
<1>1. CASE item[1] \in Kinds /\ Passed(item) /\ UNCHANGED <<kernel, roots, names, mntfaults>>
  <2>1. KernelStep(item) BY <1>1, <1>k, Zenon
  <2>2. ObjOf(item)[1] # 0 => st'[ObjOf(item)] # "up"
    BY <1>1, Zenon DEF Passed, Up, kernel
  <2> QED BY <1>0, <1>1, <2>1, <2>2, Zenon DEF roots
<1>2. CASE item[1] \in Kinds /\ ~Passed(item) /\ UnmountObj(ObjOf(item)) /\ UNCHANGED <<roots, names>>
  BY <1>0, <1>2, UnmountKernel, Zenon DEF roots
<1>3. CASE /\ item[1] = "unregister" /\ registered' = registered \ {item[2]}
           /\ UNCHANGED <<kernel, openRoots, dirty, names, mntfaults>>
  <2>1. KernelStep(item) BY <1>3, <1>k, Zenon
  <2> QED BY <1>0, <1>3, <2>1, Zenon DEF kernel
<1>4. CASE /\ item[1] = "close" /\ openRoots' = openRoots \ {item[2]}
           /\ UNCHANGED <<kernel, registered, mntfaults>>
  <2>1. KernelStep(item) BY <1>4, <1>k, Zenon
  <2> QED BY <1>0, <1>4, <2>1, Zenon DEF kernel
<1> QED BY <1>1, <1>2, <1>3, <1>4, Zenon DEF DoItem

\* One step of a list: `todo` is a request's list or the shutdown's.
ListStep(todo, mine) ==
  /\ todo \in Seq(Items) /\ todo # <<>> /\ DoItem(Head(todo))
  /\ GoodList(todo, mine, Gone, registered)
  /\ \A k \in Kinds, n \in MountNos : Head(todo) = <<k, n>> => st[<<n, k>>] # "none"
  /\ UNCHANGED <<nm, nmounts>>

LEMMA StepKernel ==
  ASSUME MountsTypeOK, KernelInv, NEW todo, NEW mine, ListStep(todo, mine)
  PROVE  /\ KernelInv'
         /\ Gone \subseteq Gone' /\ Gone' \subseteq MountNos
         /\ registered' \subseteq registered /\ openRoots' \subseteq openRoots
         /\ \A n \in MountNos, k \in Kinds :
              /\ st'[<<n, k>>] = "none" <=> st[<<n, k>>] = "none"
              /\ st'[<<n, k>>] = "up" => st[<<n, k>>] = "up"
<1> DEFINE item == Head(todo)
<1>1. item \in Items /\ DoItem(item) BY HoldsTail, Zenon DEF ListStep
<1> HIDE DEF item
<1>2. /\ KernelStep(item)
      /\ registered' \subseteq registered /\ openRoots' \subseteq openRoots
  <2>1. item[1] \in Kinds \/ item[1] = "unregister" \/ item[1] = "close" BY <1>1, Zenon DEF Items
  <2> QED BY <1>1, <2>1, ItemStep, Zenon
<1>3. UNCHANGED <<nm, nmounts>> BY Zenon DEF ListStep
<1>4. \A n \in MountNos, k \in Kinds : <<n, k>> \in Objs BY Zenon DEF Objs
<1>5. \A n \in MountNos, k \in Kinds :
        /\ st'[<<n, k>>] = "none" <=> st[<<n, k>>] = "none"
        /\ st'[<<n, k>>] = "up" => st[<<n, k>>] = "up"
  BY <1>2, <1>4, ZenonT(60) DEF KernelStep
<1>6. KernelInv'
  BY <1>2, <1>3, <1>4, <1>5, ZenonT(60) DEF KernelInv, KernelStep
<1>7. Gone \subseteq Gone'
  BY <1>2, <1>4, MountsAssumption, Zenon DEF KernelStep, Gone
<1> QED BY <1>2, <1>5, <1>6, <1>7, Zenon DEF Gone

LEMMA StepLists ==
  ASSUME MountsTypeOK, KernelInv, NEW todo, NEW mine, ListStep(todo, mine)
  PROVE  /\ AfterItem(todo) \in Seq(Items)
         /\ GoodList(AfterItem(todo), mine, Gone', registered')
         /\ \A x : Holds(todo, x) /\ x # Head(todo) => Holds(AfterItem(todo), x)
         /\ \A k \in Kinds, n \in 0..MaxMounts : Holds(AfterItem(todo), <<k, n>>) => Holds(todo, <<k, n>>)
         /\ \A n \in MountNos :
              /\ st[<<n, "ipns">>] = "up" /\ st'[<<n, "ipns">>] # "up" => Holds(AfterItem(todo), <<"close", n>>)
              /\ <<n, "ipns">> \in stuck' => <<n, "ipns">> \in stuck \/ Holds(AfterItem(todo), <<"close", n>>)
              /\ Head(todo) = <<"ipns", n>> => Holds(AfterItem(todo), <<"close", n>>)
<1> DEFINE item == Head(todo)
           o == ObjOf(item)
<1>0. item = Head(todo) /\ o = ObjOf(item) BY Zenon
<1>1. /\ todo \in Seq(Items) /\ todo # <<>> /\ GoodList(todo, mine, Gone, registered)
      /\ item \in Items /\ DoItem(item) /\ item = todo[1] /\ 1 \in DOMAIN todo
      /\ \A k \in Kinds, n \in MountNos : item = <<k, n>> => st[<<n, k>>] # "none"
  BY HoldsTail DEF ListStep
<1>2. /\ \A x : Holds(Tail(todo), x) => Holds(todo, x)
      /\ \A x : Holds(todo, x) => x = item \/ Holds(Tail(todo), x)
  BY <1>1, HoldsTail, Zenon DEF ListStep
<1> HIDE DEF item, o
<1>3. /\ Gone \subseteq Gone' /\ Gone' \subseteq MountNos
      /\ registered' \subseteq registered
  BY StepKernel, Zenon
<1>4. /\ KernelStep(item)
      /\ item[1] \in Kinds /\ o[1] # 0 => st'[o] # "up" \/ o \in stuck'
      /\ item[1] = "unregister" => registered' = registered \ {item[2]}
  BY <1>0, <1>1, ItemStep, Zenon
<1>5. ASSUME item[1] = "ipns", ~Passed(item) PROVE o[1] \in Gone' /\ o = <<o[1], "ipns">>
  <2>1. item[1] \in Kinds BY <1>5, MountsAssumption, Zenon
  <2>2. /\ o[1] \in 0..MaxMounts /\ o = <<o[1], "ipns">>
        /\ item[2] # 0 => o[1] = item[2]
        /\ o[1] # 0 => o[1] \in MountNos /\ o \in Objs
    BY <1>0, <1>1, <1>5, <2>1, ObjOfItem, Zenon
  <2>3. item[2] \in 0..MaxMounts /\ item = <<item[1], item[2]>> BY <1>1 DEF Items
  <2>4. o[1] # 0 /\ st[o] # "none"
    <3>1. CASE item[2] = 0
      BY <1>0, <1>5, <3>1, Zenon DEF Passed, Up
    <3>2. CASE item[2] # 0
      <4>1. item = <<"ipns", o[1]>> /\ o[1] \in MountNos BY <1>5, <2>2, <2>3, <3>2, Zenon
      <4> QED BY <1>1, <2>1, <2>2, <4>1, <1>5, <3>2, Zenon
    <3> QED BY <3>1, <3>2, Zenon
  <2>5. st'[o] = "down" \/ o \in stuck'
    BY <1>4, <2>1, <2>2, <2>4, Zenon DEF KernelStep, MountsTypeOK
  <2> QED BY <2>2, <2>4, <2>5, Zenon DEF Gone
<1>6. Pushes(item) => ObjOf(item)[1] \in Gone' /\ ObjOf(item)[1] \in MountNos
  BY <1>0, <1>3, <1>5, Zenon DEF Pushes
<1>7. ASSUME NEW m, item = <<"unregister", m>> PROVE m \notin registered'
  <2>1. item[1] = "unregister" /\ item[2] = m BY <1>7, Zenon
  <2> QED BY <1>4, <2>1, Zenon
<1>8. registered' \cap Gone \subseteq registered BY <1>3, Zenon
<1>9. GoodList(AfterItem(todo), mine, Gone', registered')
  BY <1>0, <1>1, <1>3, <1>6, <1>7, <1>8, AfterGood, ZenonT(60)
<1>10. /\ AfterItem(todo) \in Seq(Items)
       /\ \A x : Holds(AfterItem(todo), x) <=>
               \/ Holds(Tail(todo), x)
               \/ Pushes(item) /\ x \in {<<"unregister", o[1]>>, <<"close", o[1]>>}
  BY <1>0, <1>1, <1>6, AfterHolds, Zenon
<1>11. \A x : Holds(todo, x) /\ x # item => Holds(AfterItem(todo), x)
  BY <1>2, <1>10, Zenon
<1>12. \A k \in Kinds, n \in 0..MaxMounts : Holds(AfterItem(todo), <<k, n>>) => Holds(todo, <<k, n>>)
  <2> SUFFICES ASSUME NEW k \in Kinds, NEW n \in 0..MaxMounts, Holds(AfterItem(todo), <<k, n>>)
               PROVE  Holds(todo, <<k, n>>)
    BY Zenon
  <2>1. <<k, n>> # <<"unregister", o[1]>> /\ <<k, n>> # <<"close", o[1]>> BY MountsAssumption, Zenon
  <2> QED BY <1>2, <1>10, <2>1, Zenon
<1>13. ASSUME Pushes(item) PROVE Holds(AfterItem(todo), <<"close", o[1]>>)
  BY <1>10, <1>13, Zenon
<1>14. ASSUME NEW n \in MountNos,
              \/ st[<<n, "ipns">>] = "up" /\ st'[<<n, "ipns">>] # "up"
              \/ <<n, "ipns">> \in stuck' /\ <<n, "ipns">> \notin stuck
              \/ item = <<"ipns", n>>
       PROVE  Holds(AfterItem(todo), <<"close", n>>)
  <2>1. <<n, "ipns">> \in Objs /\ n # 0 BY MountsAssumption DEF Objs, MountNos
  <2>2. CASE item = <<"ipns", n>>
    <3>1. o = <<n, "ipns">> /\ item[1] = "ipns" /\ ~Passed(item) BY <1>0, <2>1, <2>2 DEF ObjOf, Passed
    <3> QED BY <3>1, <1>13, Zenon DEF Pushes
  <2>3. CASE item # <<"ipns", n>>
    <3>1. st[<<n, "ipns">>] = "up" /\ <<n, "ipns">> = o
      BY <1>0, <1>4, <1>14, <2>1, <2>3, Zenon DEF KernelStep
    <3>2. item[1] \in Kinds
      <4>1. item[1] \in Kinds \/ item[1] = "unregister" \/ item[1] = "close" BY <1>1, Zenon DEF Items
      <4> QED BY <1>1, <1>14, <2>3, <4>1, ItemStep, Zenon
    <3>3. item[1] = "ipns" BY <1>0, <1>1, <3>1, <3>2, ObjOfItem
    <3>4. ~Passed(item) BY <1>0, <2>1, <3>1 DEF Passed, Up
    <3>5. o[1] = n BY <3>1, Zenon
    <3> QED BY <1>13, <3>3, <3>4, <3>5, Zenon DEF Pushes
  <2> QED BY <2>2, <2>3, Zenon
<1> QED BY <1>0, <1>9, <1>10, <1>11, <1>12, <1>14, Zenon

\* What a step of a list leaves of the mounts that are up and not stuck, and of the
\* roots.
LEMMA StepLeft ==
  ASSUME MountsTypeOK, KernelInv, NEW todo, NEW mine, ListStep(todo, mine)
  PROVE  \A n \in MountNos, k \in Kinds : Left(n, k)' =>
           /\ Left(n, k)
           /\ Head(todo) # <<k, n>>
           /\ nm[k] = n => Head(todo) # <<k, 0>>
<1> DEFINE item == Head(todo)
<1>0. item = Head(todo) BY Zenon
<1>1. item \in Items /\ DoItem(item) BY HoldsTail, Zenon DEF ListStep
<1> HIDE DEF item
<1>2. /\ KernelStep(item)
      /\ item[1] \in Kinds /\ ObjOf(item)[1] # 0 => st'[ObjOf(item)] # "up" \/ ObjOf(item) \in stuck'
  BY <1>1, ItemStep, Zenon
<1>3. ASSUME NEW n \in MountNos, NEW k \in Kinds, Left(n, k)'
      PROVE  Left(n, k) /\ item # <<k, n>> /\ (nm[k] = n => item # <<k, 0>>)
  <2>1. <<n, k>> \in Objs /\ n # 0 BY MountsAssumption DEF Objs, MountNos
  <2>2. Left(n, k) BY <1>2, <1>3, <2>1, Zenon DEF KernelStep, Left
  <2>3. item # <<k, n>>
    BY <1>2, <1>3, <2>1 DEF Left, ObjOf
  <2>4. nm[k] = n => item # <<k, 0>>
    BY <1>2, <1>3, <2>1 DEF Left, ObjOf
  <2> QED BY <2>2, <2>3, <2>4, Zenon
<1> QED BY <1>0, <1>3, Zenon

LEMMA StepRoots ==
  ASSUME MountsTypeOK, KernelInv, RootInv, NEW todo, NEW mine, ListStep(todo, mine)
  PROVE  /\ \A n \in MountNos : Left(n, "ipns")' => n \in registered' /\ n \in openRoots'
         /\ \A n \in MountNos : Holds(todo, <<"close", n>>) =>
              \/ Holds(AfterItem(todo), <<"close", n>>)
              \/ n \notin registered' \cup openRoots'
         /\ outside' = outside
<1> DEFINE item == Head(todo)
<1>0. item = Head(todo) BY Zenon
<1>1. item \in Items /\ DoItem(item) /\ item = todo[1] /\ 1 \in DOMAIN todo
      /\ GoodList(todo, mine, Gone, registered) /\ todo \in Seq(Items) /\ todo # <<>>
  BY HoldsTail DEF ListStep
<1> HIDE DEF item
<1>2. /\ item[1] \in Kinds => UNCHANGED <<registered, openRoots>>
      /\ item[1] = "unregister" => registered' = registered \ {item[2]} /\ UNCHANGED openRoots
      /\ item[1] = "close" => openRoots' = openRoots \ {item[2]} /\ UNCHANGED registered
  BY <1>1, ItemStep, Zenon
<1>3. item[1] \in Kinds \/ item[1] = "unregister" \/ item[1] = "close" BY <1>1, Zenon DEF Items
<1>4. item[1] \in {"unregister", "close"} => item[2] \in Gone BY <1>1, Zenon DEF GoodList
<1>5. ASSUME NEW n \in MountNos, Left(n, "ipns")' PROVE n \in registered' /\ n \in openRoots'
  <2>1. "ipns" \in Kinds BY MountsAssumption, Zenon
  <2>2. Left(n, "ipns") BY <2>1, <1>5, StepLeft, Zenon
  <2>3. n \in registered /\ n \in openRoots /\ n \notin Gone BY <2>2, Zenon DEF RootInv, Left, Gone
  <2> QED BY <1>2, <1>3, <1>4, <2>3, Zenon
<1>6. ASSUME NEW n \in MountNos, Holds(todo, <<"close", n>>), item = <<"close", n>>
      PROVE  n \notin registered' \cup openRoots'
  <2>1. item[1] = "close" /\ item[2] = n BY <1>6, Zenon
  <2>2. n \notin registered BY <1>1, <2>1 DEF GoodList
  <2> QED BY <1>2, <2>1, <2>2, Zenon
<1>7. \A x : Holds(todo, x) /\ x # item => Holds(AfterItem(todo), x) BY <1>0, StepLists, Zenon
<1>8. outside' = outside BY <1>1, ItemStep, Zenon DEF KernelStep
<1> QED BY <1>5, <1>6, <1>7, <1>8, Zenon

\* What a step of a list does not change: types, the mounts of other requests and
\* the roots of mounts that are not gone.
LEMMA StepOthers ==
  ASSUME MountsTypeOK, KernelInv, NEW todo, NEW mine, ListStep(todo, mine)
  PROVE  /\ st' \in [Objs -> {"none", "up", "down"}]
         /\ once' \subseteq Objs /\ stuck' \subseteq Objs /\ outside' \subseteq Objs
         /\ \A n \in MountNos : n # mine /\ (\A k \in Kinds : nm[k] # n) =>
              \A k \in Kinds : st'[<<n, k>>] = st[<<n, k>>]
         /\ \A n \in MountNos : n \notin Gone =>
              /\ n \in registered' <=> n \in registered
              /\ n \in openRoots' <=> n \in openRoots
<1> DEFINE item == Head(todo)
<1>1. item \in Items /\ DoItem(item) /\ item = todo[1] /\ 1 \in DOMAIN todo
      /\ GoodList(todo, mine, Gone, registered)
  BY HoldsTail DEF ListStep
<1> HIDE DEF item
<1>2. /\ KernelStep(item)
      /\ item[1] \in Kinds => UNCHANGED <<registered, openRoots>>
      /\ item[1] = "unregister" => registered' = registered \ {item[2]} /\ UNCHANGED <<st, openRoots>>
      /\ item[1] = "close" => openRoots' = openRoots \ {item[2]} /\ UNCHANGED <<st, registered>>
  BY <1>1, ItemStep, Zenon
<1>3. item[1] \in Kinds \/ item[1] = "unregister" \/ item[1] = "close" BY <1>1, Zenon DEF Items
<1>4. /\ item[1] \in {"unregister", "close"} => item[2] \in Gone
      /\ item[1] \in Kinds => item[2] = 0 \/ item[2] = mine
  BY <1>1, Zenon DEF GoodList
<1>5. ASSUME NEW n \in MountNos, n # mine, \A k \in Kinds : nm[k] # n, NEW k \in Kinds
      PROVE  st'[<<n, k>>] = st[<<n, k>>]
  <2>1. CASE item[1] \in Kinds
    <3>1. <<n, k>> # ObjOf(item) BY <1>1, <1>4, <1>5, <2>1, ObjOfItem
    <3>2. <<n, k>> \in Objs BY Zenon DEF Objs
    <3> QED BY <1>2, <3>1, <3>2, Zenon DEF KernelStep
  <2>2. CASE item[1] \notin Kinds BY <1>2, <1>3, <2>2, Zenon
  <2> QED BY <2>1, <2>2, Zenon
<1>6. \A n \in MountNos : n \notin Gone =>
              /\ n \in registered' <=> n \in registered
              /\ n \in openRoots' <=> n \in openRoots
  BY <1>2, <1>3, <1>4, Zenon
<1>7. /\ st' \in [Objs -> {"none", "up", "down"}]
      /\ once' \subseteq Objs /\ stuck' \subseteq Objs /\ outside' \subseteq Objs
  BY <1>2, Zenon DEF KernelStep, MountsTypeOK
<1> QED BY <1>5, <1>6, <1>7, Zenon

\* A root that is closed with content that is not published, or that publishes by
\* itself, overwrites no name that was published by hand.
LEMMA PublishKeeps ==
  ASSUME HandInv, NEW n, RootPublished(n), UNCHANGED outside
  PROVE  ~handLost' /\ old' = {} /\ UNCHANGED <<hand, raced>>
<1>1. ~(n \in old /\ ~raced /\ <<n, "ipns">> \notin outside) BY Zenon DEF HandInv
<1>2. ~handLost' BY <1>1, Zenon DEF RootPublished, HandInv
<1> QED BY <1>2, Zenon DEF RootPublished

LEMMA StepHand ==
  ASSUME MountsTypeOK, KernelInv, HandInv, NEW item \in Items, DoItem(item)
  PROVE  ~handLost' /\ old' \subseteq old /\ UNCHANGED <<hand, raced, outside>>
<1>0. UNCHANGED outside BY ItemStep, Zenon DEF KernelStep
<1>1. ASSUME UNCHANGED names PROVE ~handLost' /\ old' \subseteq old /\ UNCHANGED <<hand, raced>>
  BY <1>1, Zenon DEF names, HandInv
<1>2. CASE item[1] = "close"
  <2>1. item[1] \notin Kinds BY <1>2, MountsAssumption, Zenon
  <2>2. CASE item[2] \in dirty
    <3>1. RootPublished(item[2]) BY <1>2, <2>1, <2>2, Zenon DEF DoItem
    <3> QED BY <1>0, <3>1, PublishKeeps, Zenon
  <2>3. CASE item[2] \notin dirty
    <3>1. UNCHANGED names BY <1>2, <2>1, <2>3, Zenon DEF DoItem
    <3> QED BY <1>0, <1>1, <3>1, Zenon
  <2> QED BY <2>2, <2>3, Zenon
<1>3. CASE item[1] # "close"
  <2>1. UNCHANGED names BY <1>3, Zenon DEF DoItem
  <2> QED BY <1>0, <1>1, <2>1, Zenon
<1> QED BY <1>2, <1>3, Zenon

-----------------------------------------------------------------------------
(* The steps of the requests and of the shutdown *)

LEMMA MountUnmountsKeeps ==
  ASSUME MountsInv, NEW c \in MountCalls, MountUnmounts(c) PROVE MountsInv'
<1> DEFINE todo == call[c].todo
           t == AfterItem(todo)
<1>1. /\ todo \in Seq(Items) /\ todo # <<>> /\ DoItem(Head(todo))
      /\ call' = [call EXCEPT ![c].todo = t]
      /\ UNCHANGED <<nm, down, overlapped, nmounts>>
  BY Zenon DEF MountUnmounts, MountsInv, MountsTypeOK
<1>2. /\ call[c].pc \in {"unmount", "cleanup"}
      /\ call[c].n \in MountNos
  BY <1>1, MountsAssumption DEF MountsInv, MountsTypeOK, NumberInv, NumberOf, MountPhases, MountNos
<1>3. ListStep(todo, Mine(c))
  <2>1. GoodList(todo, Mine(c), Gone, registered) BY Zenon DEF MountsInv, ListInv
  <2>2. ASSUME NEW k \in Kinds, NEW n \in MountNos, Head(todo) = <<k, n>> PROVE st[<<n, k>>] # "none"
    <3>1. n # 0 BY MountsAssumption DEF MountNos
    <3>2. 1 \in DOMAIN todo /\ todo[1] = <<k, n>> BY <1>1, <2>2
    <3>3. n = Mine(c) BY <2>1, <3>1, <3>2 DEF GoodList
    <3>4. call[c].pc = "cleanup" /\ n = call[c].n BY <3>1, <3>3, Zenon DEF Mine
    <3>5. Holds(todo, <<k, n>>) BY <3>2, Zenon DEF Holds
    <3> QED BY <3>4, <3>5, ZenonT(60) DEF MountsInv, CleanInv, CleanOf
  <2> QED BY <1>1, <2>1, <2>2, Zenon DEF ListStep
<1> HIDE DEF todo, t
<1>4. MountsTypeOK /\ KernelInv /\ RootInv BY Zenon DEF MountsInv
<1>5. t \in Seq(Items) /\ GoodList(t, Mine(c), Gone', registered') BY <1>3, <1>4, StepLists, Zenon DEF t
<1>6. /\ \A d \in MountCalls :
           /\ call'[d].pc = call[d].pc /\ call'[d].n = call[d].n
           /\ call'[d].done = call[d].done
           /\ d # c => call'[d].todo = call[d].todo
      /\ call'[c].todo = t
  BY <1>1, <1>4, <1>5, Zenon DEF MountsTypeOK
<1>e. \A d \in MountCalls : call'[d].err = call[d].err
  BY <1>1, <1>4, Zenon DEF MountsTypeOK
<1>y. call' \in [MountCalls -> [pc : MountPhases, n : 0..MaxMounts, done : SUBSET MountSteps,
                              err : BOOLEAN, todo : Seq(Items)]]
  BY <1>1, <1>4, <1>5, ZenonT(60) DEF MountsTypeOK
<1>7. /\ KernelInv'
      /\ Gone \subseteq Gone' /\ Gone' \subseteq MountNos
      /\ registered' \subseteq registered /\ openRoots' \subseteq openRoots
      /\ \A n \in MountNos, k \in Kinds :
           /\ st'[<<n, k>>] = "none" <=> st[<<n, k>>] = "none"
           /\ st'[<<n, k>>] = "up" => st[<<n, k>>] = "up"
  BY <1>3, <1>4, StepKernel, Zenon
<1>8. /\ \A n \in MountNos : n # Mine(c) /\ (\A k \in Kinds : nm[k] # n) =>
              \A k \in Kinds : st'[<<n, k>>] = st[<<n, k>>]
      /\ \A n \in MountNos : n \notin Gone =>
              /\ n \in registered' <=> n \in registered
              /\ n \in openRoots' <=> n \in openRoots
  BY <1>3, <1>4, StepOthers, ZenonT(60)
<1>9. outside' = outside BY <1>3, <1>4, StepRoots, Zenon
<1>t. MountsTypeOK'
  <2>1. /\ st' \in [Objs -> {"none", "up", "down"}]
        /\ once' \subseteq Objs /\ stuck' \subseteq Objs /\ outside' \subseteq Objs
    BY <1>3, <1>4, StepOthers, Zenon
  <2> QED BY <1>1, <1>4, <1>y, <1>7, <2>1, ZenonT(60) DEF MountsTypeOK
<1>l. ListInv'
  <2>1. ASSUME NEW d \in MountCalls PROVE GoodList(call'[d].todo, Mine(d)', Gone', registered')
    <3>1. Mine(d)' = Mine(d) BY <1>6, Zenon DEF Mine
    <3>2. CASE d = c BY <1>5, <1>6, <3>1, <3>2, Zenon
    <3>3. CASE d # c
      <4>1. GoodList(call[d].todo, Mine(d), Gone, registered) BY Zenon DEF MountsInv, ListInv
      <4>2. registered' \cap Gone \subseteq registered BY <1>7, Zenon
      <4>3. GoodList(call[d].todo, Mine(d), Gone', registered') BY <1>7, <4>1, <4>2, GoodStays, Zenon
      <4> QED BY <1>6, <3>1, <3>3, <4>3, Zenon
    <3> QED BY <3>2, <3>3, Zenon
  <2>2. GoodList(down.todo, 0, Gone', registered')
    <3>1. GoodList(down.todo, 0, Gone, registered) BY Zenon DEF MountsInv, ListInv
    <3>2. registered' \cap Gone \subseteq registered BY <1>7, Zenon
    <3> QED BY <1>7, <3>1, <3>2, GoodStays, Zenon
  <2> QED BY <1>1, <2>1, <2>2, Zenon DEF ListInv, MountsInv
<1>n. NumberInv'
  BY <1>1, <1>2, <1>6 DEF NumberInv, NumberOf, MountsInv
<1>d. DoneInv'
  <2>1. ASSUME NEW d \in MountCalls, call[d].pc \in {"unmount", "mount"}
        PROVE  /\ call[d].n \in MountNos
               /\ \A k \in Kinds : st'[<<call[d].n, k>>] = st[<<call[d].n, k>>]
               /\ "ipns" \notin call[d].done =>
                    /\ call[d].n \in registered' <=> call[d].n \in registered
                    /\ call[d].n \in openRoots' <=> call[d].n \in openRoots
    <3>1. /\ call[d].n \in MountNos /\ \A k \in Kinds : nm[k] # call[d].n
          /\ call[d].n # Mine(c)
      BY <1>2, <1>4, <2>1, MountsAssumption DEF MountsInv, NumberInv, NumberOf, MountsTypeOK, Mine, MountNos
    <3>2. "ipns" \notin call[d].done => call[d].n \notin Gone
      BY <1>4, <2>1, <3>1, MountsAssumption, Zenon DEF MountsInv, DoneInv, DoneOf, KernelInv, Gone
    <3> QED BY <1>8, <3>1, <3>2, Zenon
  <2>2. ASSUME NEW d \in MountCalls, call'[d].pc \in {"unmount", "mount"}
        PROVE  \A k \in Kinds :
                 /\ k \notin call'[d].done => st'[<<call'[d].n, k>>] = "none"
                 /\ st'[<<call'[d].n, k>>] = "down" => <<call'[d].n, k>> \in outside'
                 /\ ~call'[d].err /\ k \in call'[d].done => st'[<<call'[d].n, k>>] # "none"
    <3>1. /\ call[d].pc \in {"unmount", "mount"} /\ call'[d].n = call[d].n
          /\ call'[d].done = call[d].done /\ call'[d].err = call[d].err
      BY <1>6, <1>e, <2>2, Zenon
    <3>2. \A k \in Kinds :
                 /\ k \notin call[d].done => st[<<call[d].n, k>>] = "none"
                 /\ st[<<call[d].n, k>>] = "down" => <<call[d].n, k>> \in outside
                 /\ ~call[d].err /\ k \in call[d].done => st[<<call[d].n, k>>] # "none"
      BY <3>1, Zenon DEF MountsInv, DoneInv, DoneOf
    <3>3. \A k \in Kinds : st'[<<call[d].n, k>>] = st[<<call[d].n, k>>] BY <2>1, <3>1, Zenon
    <3> QED BY <1>9, <3>1, <3>2, <3>3, Zenon
  <2>3. ASSUME NEW d \in MountCalls, call'[d].pc \in {"unmount", "mount"}
        PROVE  /\ "load" \notin call'[d].done => call'[d].n \notin openRoots' /\ "register" \notin call'[d].done
               /\ "register" \notin call'[d].done => call'[d].n \notin registered' /\ "ipns" \notin call'[d].done
               /\ "load" \in call'[d].done /\ "ipns" \notin call'[d].done => call'[d].n \in openRoots'
               /\ "register" \in call'[d].done /\ "ipns" \notin call'[d].done => call'[d].n \in registered'
               /\ "ipns" \in call'[d].done /\ call'[d].n \in registered' \cup openRoots' =>
                    st'[<<call'[d].n, "ipns">>] # "none"
    <3>0. "ipns" \in Kinds BY MountsAssumption, Zenon
    <3>1. call[d].pc \in {"unmount", "mount"} /\ call'[d].n = call[d].n /\ call'[d].done = call[d].done
      BY <1>6, <2>3, Zenon
    <3>2. /\ "load" \notin call[d].done => call[d].n \notin openRoots /\ "register" \notin call[d].done
          /\ "register" \notin call[d].done => call[d].n \notin registered /\ "ipns" \notin call[d].done
          /\ "load" \in call[d].done /\ "ipns" \notin call[d].done => call[d].n \in openRoots
          /\ "register" \in call[d].done /\ "ipns" \notin call[d].done => call[d].n \in registered
          /\ "ipns" \in call[d].done /\ call[d].n \in registered \cup openRoots =>
               st[<<call[d].n, "ipns">>] # "none"
      BY <3>1, Zenon DEF MountsInv, DoneInv, DoneOf
    <3>3. st'[<<call[d].n, "ipns">>] = st[<<call[d].n, "ipns">>] BY <2>1, <3>0, <3>1, Zenon
    <3>4. /\ registered' \subseteq registered /\ openRoots' \subseteq openRoots BY <1>7, Zenon
    <3>5. "ipns" \notin call[d].done =>
            /\ call[d].n \in registered' <=> call[d].n \in registered
            /\ call[d].n \in openRoots' <=> call[d].n \in openRoots
      BY <2>1, <3>1, Zenon
    <3> QED BY <3>1, <3>2, <3>3, <3>4, <3>5, Zenon
  <2> QED BY <2>2, <2>3, Zenon DEF DoneInv, DoneOf
<1>10. /\ \A x : Holds(todo, x) /\ x # Head(todo) => Holds(t, x)
       /\ \A k \in Kinds, n \in 0..MaxMounts : Holds(t, <<k, n>>) => Holds(todo, <<k, n>>)
       /\ \A n \in MountNos :
            /\ st[<<n, "ipns">>] = "up" /\ st'[<<n, "ipns">>] # "up" => Holds(t, <<"close", n>>)
            /\ <<n, "ipns">> \in stuck' => <<n, "ipns">> \in stuck \/ Holds(t, <<"close", n>>)
            /\ Head(todo) = <<"ipns", n>> => Holds(t, <<"close", n>>)
  BY <1>3, <1>4, StepLists, Zenon DEF t
<1>11. /\ \A n \in MountNos : Left(n, "ipns")' => n \in registered' /\ n \in openRoots'
       /\ \A n \in MountNos : Holds(todo, <<"close", n>>) =>
            Holds(t, <<"close", n>>) \/ n \notin registered' \cup openRoots'
  BY <1>3, <1>4, StepRoots, Zenon DEF t
<1>12. call[c].todo = todo BY Zenon DEF todo
<1>c. CleanInv'
  <2>1. ASSUME NEW d \in MountCalls, call'[d].pc = "cleanup"
        PROVE  /\ \A k \in Kinds : Holds(call'[d].todo, <<k, call'[d].n>>) => st'[<<call'[d].n, k>>] # "none"
               /\ call'[d].n \in registered' \cup openRoots' =>
                    \/ Holds(call'[d].todo, <<"ipns", call'[d].n>>)
                    \/ Holds(call'[d].todo, <<"close", call'[d].n>>)
    <3>1. /\ call[d].pc = "cleanup" /\ call'[d].n = call[d].n /\ call[d].n \in MountNos
          /\ call[d].n \in 0..MaxMounts
      <4>1. call[d].pc = "cleanup" /\ call'[d].n = call[d].n BY <1>6, <2>1, Zenon
      <4>2. call[d].n \in 1..nmounts BY <4>1, Zenon DEF MountsInv, NumberInv, NumberOf
      <4>3. nmounts \in 0..MaxMounts /\ MaxMounts \in Nat BY MountsAssumption, Zenon DEF MountsInv, MountsTypeOK
      <4> QED BY <4>1, <4>2, <4>3 DEF MountNos
    <3>2. /\ \A k \in Kinds : Holds(call[d].todo, <<k, call[d].n>>) => st[<<call[d].n, k>>] # "none"
          /\ call[d].n \in registered \cup openRoots =>
                    \/ Holds(call[d].todo, <<"ipns", call[d].n>>)
                    \/ Holds(call[d].todo, <<"close", call[d].n>>)
      BY <3>1, Zenon DEF MountsInv, CleanInv, CleanOf
    <3>3. call[d].n \in registered' \cup openRoots' => call[d].n \in registered \cup openRoots BY <1>7, Zenon
    <3>4. CASE d # c
      <4>1. call'[d].todo = call[d].todo BY <1>6, <3>4, Zenon
      <4> QED BY <1>7, <3>1, <3>2, <3>3, <4>1, Zenon
    <3>5. CASE d = c
      <4>1. call'[d].todo = t /\ call[d].todo = todo BY <1>6, <1>12, <3>5, Zenon
      <4>2. \A k \in Kinds : Holds(t, <<k, call[d].n>>) => st'[<<call[d].n, k>>] # "none"
        BY <1>7, <1>10, <3>1, <3>2, <4>1, Zenon
      <4>3. call[d].n \in registered' \cup openRoots' =>
              Holds(t, <<"ipns", call[d].n>>) \/ Holds(t, <<"close", call[d].n>>)
        BY <1>10, <1>11, <3>1, <3>2, <3>3, <4>1, Zenon
      <4> QED BY <3>1, <4>1, <4>2, <4>3, Zenon
    <3> QED BY <3>4, <3>5, Zenon
  <2> QED BY <2>1, Zenon DEF CleanInv, CleanOf
<1>r. RootInv'
  <2>1. ASSUME NEW n \in MountNos, n \in registered' \cup openRoots', Closes(n) PROVE Closes(n)'
    BY <1>1, <1>6, <1>11, <1>12, <2>1, Zenon DEF Closes
  <2>2. ASSUME NEW n \in MountNos, Holds(t, <<"close", n>>) PROVE Closes(n)'
    BY <1>6, <2>2, Zenon DEF Closes
  <2>3. registered' \cup openRoots' \subseteq MountNos /\ registered' \cup openRoots' \subseteq registered \cup openRoots
    BY <1>4, <1>7, Zenon DEF MountsTypeOK
  <2>4. ASSUME NEW n \in registered' \cup openRoots'
        PROVE  \/ st'[<<n, "ipns">>] = "up" \/ <<n, "ipns">> \in outside' \/ Closes(n)'
               \/ \E d \in MountCalls : call'[d].pc # "idle" /\ call'[d].n = n
    <3>1. n \in MountNos /\ n \in registered \cup openRoots BY <2>3, <2>4, Zenon
    <3>2. CASE st[<<n, "ipns">>] = "up" BY <1>10, <2>2, <3>1, <3>2, Zenon
    <3>3. CASE <<n, "ipns">> \in outside BY <1>9, <3>3, Zenon
    <3>4. CASE Closes(n) BY <2>1, <2>4, <3>1, <3>4, Zenon
    <3>5. CASE \E d \in MountCalls : call[d].pc # "idle" /\ call[d].n = n BY <1>6, <3>5, Zenon
    <3> QED BY <1>4, <3>1, <3>2, <3>3, <3>4, <3>5, Zenon DEF RootInv
  <2>5. ASSUME NEW n \in openRoots', <<n, "ipns">> \in stuck' PROVE Closes(n)'
    BY <1>4, <1>7, <1>10, <2>1, <2>2, <2>3, <2>5, Zenon DEF RootInv
  <2>6. ASSUME NEW n \in MountNos, st'[<<n, "ipns">>] = "up", <<n, "ipns">> \notin stuck'
        PROVE  n \in registered' /\ n \in openRoots'
    BY <1>11, <2>6, Zenon DEF Left
  <2> QED BY <2>4, <2>5, <2>6, Zenon DEF RootInv
<1>a. AloneInv'
  <2>1. \A n \in MountNos, k \in Kinds : Left(n, k)' =>
          Left(n, k) /\ Head(todo) # <<k, n>> /\ (nm[k] = n => Head(todo) # <<k, 0>>)
    BY <1>3, <1>4, StepLeft, Zenon
  <2>2. ASSUME ~overlapped, NEW n \in MountNos, NEW k \in Kinds, Left(n, k)'
        PROVE /\ \A d \in MountCalls :
                  /\ call'[d].pc = "unmount" => nm'[k] = n /\ Holds(call'[d].todo, <<k, 0>>)
                  /\ call'[d].pc \in {"mount", "cleanup"} => call'[d].n = n
                  /\ call'[d].pc = "cleanup" => Holds(call'[d].todo, <<k, n>>)
              /\ (\A d \in MountCalls : call'[d].pc = "idle") => nm'[k] = n
              /\ down'.pc = "closing" => Holds(down'.todo, <<k, 0>>)
              /\ down'.pc # "done"
    <3>1. Left(n, k) /\ Head(todo) # <<k, n>> /\ (nm[k] = n => Head(todo) # <<k, 0>>) BY <2>1, <2>2, Zenon
    <3>2. /\ \A d \in MountCalls :
                  /\ call[d].pc = "unmount" => nm[k] = n /\ Holds(call[d].todo, <<k, 0>>)
                  /\ call[d].pc \in {"mount", "cleanup"} => call[d].n = n
                  /\ call[d].pc = "cleanup" => Holds(call[d].todo, <<k, n>>)
          /\ (\A d \in MountCalls : call[d].pc = "idle") => nm[k] = n
          /\ down.pc = "closing" => Holds(down.todo, <<k, 0>>)
          /\ down.pc # "done"
      BY <2>2, <3>1, Zenon DEF MountsInv, AloneInv
    <3>3. ASSUME NEW d \in MountCalls, NEW x, Holds(call[d].todo, x), x # Head(todo)
          PROVE  Holds(call'[d].todo, x)
      BY <1>6, <1>10, <1>12, <3>3, Zenon
    <3> QED BY <1>1, <1>6, <3>1, <3>2, <3>3, Zenon
  <2>3. ASSUME ~overlapped
        PROVE  /\ \A d, e \in MountCalls : call'[d].pc # "idle" /\ call'[e].pc # "idle" => d = e
               /\ \A d \in MountCalls : call'[d].pc # "idle" => down'.pc = "no"
    <3>1. /\ \A d, e \in MountCalls : call[d].pc # "idle" /\ call[e].pc # "idle" => d = e
          /\ \A d \in MountCalls : call[d].pc # "idle" => down.pc = "no"
      BY <2>3, Zenon DEF MountsInv, AloneInv
    <3>2. \A d \in MountCalls : call'[d].pc = call[d].pc BY <1>6, Zenon
    <3> QED BY <1>1, <3>1, <3>2, Zenon
  <2> QED BY <1>1, <2>2, <2>3, Zenon DEF AloneInv
<1>h. HandInv'
  <2>1. ~handLost' /\ old' \subseteq old /\ UNCHANGED <<hand, raced, outside>>
    BY <1>1, <1>4, HoldsTail, StepHand, Zenon DEF MountsInv
  <2>0. call[c].pc # "idle" BY <1>2, Zenon
  <2>2. ~(hand.pc = "allowed" /\ ~hand.raced)
    BY <2>0, Zenon DEF MountsInv, HandInv
  <2> QED BY <2>1, <2>2, Zenon DEF HandInv, MountsInv
<1> QED BY <1>7, <1>t, <1>l, <1>n, <1>d, <1>c, <1>r, <1>a, <1>h, Zenon DEF MountsInv

LEMMA ShutUnmountsKeeps ==
  ASSUME MountsInv, ShutUnmounts PROVE MountsInv'
<1> DEFINE todo == down.todo
           t == AfterItem(todo)
<1>1. /\ todo \in Seq(Items) /\ todo # <<>> /\ DoItem(Head(todo)) /\ down.pc = "closing"
      /\ down' = [down EXCEPT !.todo = t]
      /\ UNCHANGED <<nm, call, overlapped, nmounts>>
  BY Zenon DEF ShutUnmounts, MountsInv, MountsTypeOK
<1>3. ListStep(todo, 0)
  <2>1. GoodList(todo, 0, Gone, registered) BY Zenon DEF MountsInv, ListInv
  <2>2. ASSUME NEW k \in Kinds, NEW n \in MountNos, Head(todo) = <<k, n>> PROVE FALSE
    <3>1. n # 0 BY MountsAssumption DEF MountNos
    <3>2. 1 \in DOMAIN todo /\ todo[1] = <<k, n>> BY <1>1, <2>2
    <3> QED BY <2>1, <3>1, <3>2 DEF GoodList
  <2> QED BY <1>1, <2>1, <2>2, Zenon DEF ListStep
<1> HIDE DEF todo, t
<1>4. MountsTypeOK /\ KernelInv /\ RootInv BY Zenon DEF MountsInv
<1>5. t \in Seq(Items) /\ GoodList(t, 0, Gone', registered') BY <1>3, <1>4, StepLists, Zenon DEF t
<1>6. down'.pc = "closing" /\ down'.todo = t /\ down' \in [pc : {"no", "closing", "done"}, todo : Seq(Items)]
  BY <1>1, <1>4, <1>5, Zenon DEF MountsTypeOK
<1>7. /\ KernelInv'
      /\ Gone \subseteq Gone' /\ Gone' \subseteq MountNos
      /\ registered' \subseteq registered /\ openRoots' \subseteq openRoots
      /\ \A n \in MountNos, k \in Kinds :
           /\ st'[<<n, k>>] = "none" <=> st[<<n, k>>] = "none"
           /\ st'[<<n, k>>] = "up" => st[<<n, k>>] = "up"
  BY <1>3, <1>4, StepKernel, Zenon
<1>8. /\ \A n \in MountNos : n # 0 /\ (\A k \in Kinds : nm[k] # n) =>
              \A k \in Kinds : st'[<<n, k>>] = st[<<n, k>>]
      /\ \A n \in MountNos : n \notin Gone =>
              /\ n \in registered' <=> n \in registered
              /\ n \in openRoots' <=> n \in openRoots
  BY <1>3, <1>4, StepOthers, Zenon
<1>9. outside' = outside BY <1>3, <1>4, StepRoots, Zenon
<1>10. /\ \A x : Holds(todo, x) /\ x # Head(todo) => Holds(t, x)
       /\ \A n \in MountNos :
            /\ st[<<n, "ipns">>] = "up" /\ st'[<<n, "ipns">>] # "up" => Holds(t, <<"close", n>>)
            /\ <<n, "ipns">> \in stuck' => <<n, "ipns">> \in stuck \/ Holds(t, <<"close", n>>)
  BY <1>3, <1>4, StepLists, Zenon DEF t
<1>11. /\ \A n \in MountNos : Left(n, "ipns")' => n \in registered' /\ n \in openRoots'
       /\ \A n \in MountNos : Holds(todo, <<"close", n>>) =>
            Holds(t, <<"close", n>>) \/ n \notin registered' \cup openRoots'
  BY <1>3, <1>4, StepRoots, Zenon DEF t
<1>12. down.todo = todo BY Zenon DEF todo
<1>t. MountsTypeOK'
  <2>1. /\ st' \in [Objs -> {"none", "up", "down"}]
        /\ once' \subseteq Objs /\ stuck' \subseteq Objs /\ outside' \subseteq Objs
    BY <1>3, <1>4, StepOthers, Zenon
  <2> QED BY <1>1, <1>4, <1>6, <1>7, <2>1, Zenon DEF MountsTypeOK
<1>l. ListInv'
  <2>1. ASSUME NEW d \in MountCalls PROVE GoodList(call'[d].todo, Mine(d)', Gone', registered')
    <3>1. Mine(d)' = Mine(d) BY <1>1, Zenon DEF Mine
    <3>2. GoodList(call[d].todo, Mine(d), Gone, registered) BY Zenon DEF MountsInv, ListInv
    <3>3. registered' \cap Gone \subseteq registered BY <1>7, Zenon
    <3>4. GoodList(call[d].todo, Mine(d), Gone', registered') BY <1>7, <3>2, <3>3, GoodStays, Zenon
    <3> QED BY <1>1, <3>1, <3>4, Zenon
  <2> QED BY <1>5, <1>6, <2>1, Zenon DEF ListInv
<1>n. NumberInv'
  BY <1>1, Zenon DEF NumberInv, NumberOf, MountsInv
<1>d. DoneInv'
  <2>1. ASSUME NEW d \in MountCalls, call[d].pc \in {"unmount", "mount"}
        PROVE  /\ \A k \in Kinds : st'[<<call[d].n, k>>] = st[<<call[d].n, k>>]
               /\ "ipns" \notin call[d].done =>
                    /\ call[d].n \in registered' <=> call[d].n \in registered
                    /\ call[d].n \in openRoots' <=> call[d].n \in openRoots
    <3>1. /\ call[d].n \in MountNos /\ \A k \in Kinds : nm[k] # call[d].n
          /\ call[d].n # 0
      BY <1>4, <2>1, MountsAssumption DEF MountsInv, NumberInv, NumberOf, MountsTypeOK, MountNos
    <3>2. "ipns" \notin call[d].done => call[d].n \notin Gone
      BY <1>4, <2>1, <3>1, MountsAssumption, Zenon DEF MountsInv, DoneInv, DoneOf, KernelInv, Gone
    <3> QED BY <1>8, <3>1, <3>2, Zenon
  <2>2. ASSUME NEW d \in MountCalls, call[d].pc \in {"unmount", "mount"}
        PROVE  \A k \in Kinds :
                 /\ k \notin call[d].done => st'[<<call[d].n, k>>] = "none"
                 /\ st'[<<call[d].n, k>>] = "down" => <<call[d].n, k>> \in outside'
                 /\ ~call[d].err /\ k \in call[d].done => st'[<<call[d].n, k>>] # "none"
    <3>2. \A k \in Kinds :
                 /\ k \notin call[d].done => st[<<call[d].n, k>>] = "none"
                 /\ st[<<call[d].n, k>>] = "down" => <<call[d].n, k>> \in outside
                 /\ ~call[d].err /\ k \in call[d].done => st[<<call[d].n, k>>] # "none"
      BY <2>2, Zenon DEF MountsInv, DoneInv, DoneOf
    <3>3. \A k \in Kinds : st'[<<call[d].n, k>>] = st[<<call[d].n, k>>] BY <2>1, <2>2, Zenon
    <3> QED BY <1>9, <3>2, <3>3
  <2>3. ASSUME NEW d \in MountCalls, call[d].pc \in {"unmount", "mount"}
        PROVE  /\ "load" \notin call[d].done => call[d].n \notin openRoots' /\ "register" \notin call[d].done
               /\ "register" \notin call[d].done => call[d].n \notin registered' /\ "ipns" \notin call[d].done
               /\ "load" \in call[d].done /\ "ipns" \notin call[d].done => call[d].n \in openRoots'
               /\ "register" \in call[d].done /\ "ipns" \notin call[d].done => call[d].n \in registered'
               /\ "ipns" \in call[d].done /\ call[d].n \in registered' \cup openRoots' =>
                    st'[<<call[d].n, "ipns">>] # "none"
    <3>0. "ipns" \in Kinds BY MountsAssumption, Zenon
    <3>2. /\ "load" \notin call[d].done => call[d].n \notin openRoots /\ "register" \notin call[d].done
          /\ "register" \notin call[d].done => call[d].n \notin registered /\ "ipns" \notin call[d].done
          /\ "load" \in call[d].done /\ "ipns" \notin call[d].done => call[d].n \in openRoots
          /\ "register" \in call[d].done /\ "ipns" \notin call[d].done => call[d].n \in registered
          /\ "ipns" \in call[d].done /\ call[d].n \in registered \cup openRoots =>
               st[<<call[d].n, "ipns">>] # "none"
      BY <2>3, Zenon DEF MountsInv, DoneInv, DoneOf
    <3>3. st'[<<call[d].n, "ipns">>] = st[<<call[d].n, "ipns">>] BY <2>1, <2>3, <3>0, Zenon
    <3>4. /\ registered' \subseteq registered /\ openRoots' \subseteq openRoots BY <1>7, Zenon
    <3>5. "ipns" \notin call[d].done =>
            /\ call[d].n \in registered' <=> call[d].n \in registered
            /\ call[d].n \in openRoots' <=> call[d].n \in openRoots
      BY <2>1, <2>3, Zenon
    <3> QED BY <3>2, <3>3, <3>4, <3>5, Zenon
  <2> QED BY <1>1, <2>2, <2>3, Zenon DEF DoneInv, DoneOf
<1>c. CleanInv'
  <2>1. ASSUME NEW d \in MountCalls, call[d].pc = "cleanup"
        PROVE  /\ \A k \in Kinds : Holds(call[d].todo, <<k, call[d].n>>) => st'[<<call[d].n, k>>] # "none"
               /\ call[d].n \in registered' \cup openRoots' =>
                    \/ Holds(call[d].todo, <<"ipns", call[d].n>>)
                    \/ Holds(call[d].todo, <<"close", call[d].n>>)
    <3>1. call[d].n \in MountNos
      <4>1. call[d].n \in 1..nmounts BY <2>1, Zenon DEF MountsInv, NumberInv, NumberOf
      <4>2. nmounts \in 0..MaxMounts /\ MaxMounts \in Nat BY MountsAssumption, Zenon DEF MountsInv, MountsTypeOK
      <4> QED BY <4>1, <4>2 DEF MountNos
    <3>3. call[d].n \in registered' \cup openRoots' => call[d].n \in registered \cup openRoots BY <1>7, Zenon
    <3> QED BY <1>7, <2>1, <3>1, <3>3, Zenon DEF MountsInv, CleanInv, CleanOf
  <2> QED BY <1>1, <2>1, Zenon DEF CleanInv, CleanOf
<1>r. RootInv'
  <2>1. ASSUME NEW n \in MountNos, n \in registered' \cup openRoots', Closes(n) PROVE Closes(n)'
    BY <1>1, <1>6, <1>11, <1>12, <2>1, Zenon DEF Closes
  <2>2. ASSUME NEW n \in MountNos, Holds(t, <<"close", n>>) PROVE Closes(n)'
    BY <1>6, <2>2, Zenon DEF Closes
  <2>3. registered' \cup openRoots' \subseteq MountNos /\ registered' \cup openRoots' \subseteq registered \cup openRoots
    BY <1>4, <1>7, Zenon DEF MountsTypeOK
  <2>4. ASSUME NEW n \in registered' \cup openRoots'
        PROVE  \/ st'[<<n, "ipns">>] = "up" \/ <<n, "ipns">> \in outside' \/ Closes(n)'
               \/ \E d \in MountCalls : call'[d].pc # "idle" /\ call'[d].n = n
    <3>1. n \in MountNos /\ n \in registered \cup openRoots BY <2>3, <2>4, Zenon
    <3>2. CASE st[<<n, "ipns">>] = "up" BY <1>10, <2>2, <3>1, <3>2, Zenon
    <3>3. CASE <<n, "ipns">> \in outside BY <1>9, <3>3, Zenon
    <3>4. CASE Closes(n) BY <2>1, <2>4, <3>1, <3>4, Zenon
    <3>5. CASE \E d \in MountCalls : call[d].pc # "idle" /\ call[d].n = n BY <1>1, <3>5, Zenon
    <3> QED BY <1>4, <3>1, <3>2, <3>3, <3>4, <3>5, Zenon DEF RootInv
  <2>5. ASSUME NEW n \in openRoots', <<n, "ipns">> \in stuck' PROVE Closes(n)'
    BY <1>4, <1>7, <1>10, <2>1, <2>2, <2>3, <2>5, Zenon DEF RootInv
  <2>6. ASSUME NEW n \in MountNos, st'[<<n, "ipns">>] = "up", <<n, "ipns">> \notin stuck'
        PROVE  n \in registered' /\ n \in openRoots'
    BY <1>11, <2>6, Zenon DEF Left
  <2> QED BY <2>4, <2>5, <2>6, Zenon DEF RootInv
<1>a. AloneInv'
  <2>1. \A n \in MountNos, k \in Kinds : Left(n, k)' =>
          Left(n, k) /\ Head(todo) # <<k, n>> /\ (nm[k] = n => Head(todo) # <<k, 0>>)
    BY <1>3, <1>4, StepLeft, Zenon
  <2>0. down.pc # "no" BY <1>1, Zenon
  <2>2. ASSUME ~overlapped PROVE \A d \in MountCalls : call[d].pc = "idle"
    BY <2>0, <2>2, Zenon DEF MountsInv, AloneInv
  <2>3. ASSUME ~overlapped, NEW n \in MountNos, NEW k \in Kinds, Left(n, k)'
        PROVE nm[k] = n /\ Holds(t, <<k, 0>>)
    <3>1. Left(n, k) BY <2>1, <2>3, Zenon
    <3>2. nm[k] = n /\ Holds(todo, <<k, 0>>)
      BY <1>1, <1>12, <2>2, <2>3, <3>1, Zenon DEF MountsInv, AloneInv
    <3>3. Head(todo) # <<k, 0>> BY <2>1, <2>3, <3>2, Zenon
    <3> QED BY <1>10, <3>2, <3>3, Zenon
  <2>4. down'.pc # "done" BY <1>6, Zenon
  <2>5. ASSUME NEW d \in MountCalls, call[d].pc = "idle" PROVE call[d].pc \notin {"unmount", "mount", "cleanup"}
    BY <2>5, Zenon
  <2> QED BY <1>1, <1>6, <2>2, <2>3, <2>4, <2>5, Zenon DEF AloneInv
<1>h. HandInv'
  <2>1. ~handLost' /\ old' \subseteq old /\ UNCHANGED <<hand, raced, outside>>
    BY <1>1, <1>4, HoldsTail, StepHand, Zenon DEF MountsInv
  <2>2. ~(hand.pc = "allowed" /\ ~hand.raced)
    BY <1>1, Zenon DEF MountsInv, HandInv
  <2> QED BY <2>1, <2>2, Zenon DEF HandInv, MountsInv
<1> QED BY <1>7, <1>t, <1>l, <1>n, <1>d, <1>c, <1>r, <1>a, <1>h, Zenon DEF MountsInv

\* What no action of the world touches.
LEMMA WorldKeeps ==
  ASSUME MountsInv, HandInv',
         UNCHANGED <<kernel, nm, registered, openRoots, call, down, overlapped, nmounts>>
  PROVE  MountsInv'
<1> USE DEF kernel
<1>1. MountsTypeOK' BY Zenon DEF MountsInv, MountsTypeOK
<1>2. ListInv' BY ZenonT(60) DEF MountsInv, ListInv, Mine, Gone, GoodList
<1>3. KernelInv' BY Zenon DEF MountsInv, KernelInv
<1>4. NumberInv' BY Zenon DEF MountsInv, NumberInv, NumberOf
<1>5. DoneInv' BY Zenon DEF MountsInv, DoneInv, DoneOf
<1>6. CleanInv' BY Zenon DEF MountsInv, CleanInv, CleanOf, Holds
<1>7. RootInv'
  <2>1. \A n : Closes(n)' <=> Closes(n) BY Zenon DEF Closes, Holds
  <2> QED BY <2>1, Zenon DEF MountsInv, RootInv
<1>8. AloneInv'
  <2>1. \A n, k : Left(n, k)' <=> Left(n, k) BY Zenon DEF Left
  <2> QED BY <2>1 DEF MountsInv, AloneInv
<1> QED BY <1>1, <1>2, <1>3, <1>4, <1>5, <1>6, <1>7, <1>8, Zenon DEF MountsInv

LEMMA WriteUnderKeeps ==
  ASSUME MountsInv, NEW n \in MountNos, WriteUnder(n) PROVE MountsInv'
<1>1. UNCHANGED <<kernel, nm, registered, openRoots, call, down, names, overlapped, nmounts>>
  BY Zenon DEF WriteUnder
<1>2. HandInv' BY <1>1, Zenon DEF MountsInv, HandInv, Up, kernel, names
<1> QED BY <1>1, <1>2, WorldKeeps, Zenon

LEMMA RootPublishKeeps ==
  ASSUME MountsInv, NEW n \in MountNos, RootPublish(n) PROVE MountsInv'
<1>1. RootPublished(n) /\ UNCHANGED <<kernel, nm, registered, openRoots, call, down, overlapped, nmounts>>
  BY Zenon DEF RootPublish
<1>2. ~handLost' /\ old' = {} /\ UNCHANGED <<hand, raced>>
  BY <1>1, PublishKeeps, Zenon DEF MountsInv, kernel
<1>3. HandInv'
  <2>1. old' \subseteq MountNos /\ \A m \in old' : <<m, "ipns">> \in outside' BY <1>2, Zenon
  <2>2. hand'.pc = "allowed" /\ ~hand'.raced =>
          /\ \A c \in MountCalls : call'[c].pc = "idle"
          /\ down'.pc # "closing" /\ ~Up(<<nm["ipns"], "ipns">>)'
    BY <1>1, <1>2, Zenon DEF MountsInv, HandInv, Up, kernel
  <2>3. hand' \in [pc : {"idle", "allowed"}, raced : BOOLEAN]
    BY <1>2, Zenon DEF MountsInv, HandInv
  <2> QED BY <1>2, <2>1, <2>2, <2>3, Zenon DEF HandInv
<1> QED BY <1>1, <1>3, WorldKeeps, Zenon

LEMMA HandCheckKeeps ==
  ASSUME MountsInv, HandCheck PROVE MountsInv'
<1>1. /\ hand' = [pc |-> "allowed", raced |-> Changing] /\ PublishAllowed
      /\ UNCHANGED <<kernel, nm, registered, openRoots, call, down, old, raced, handLost, overlapped, nmounts>>
  BY Zenon DEF HandCheck, roots
<1>2. HandInv'
  <2>1. hand'.raced = Changing BY <1>1, Zenon
  <2>2. ~Changing => (\A c \in MountCalls : call[c].pc = "idle") /\ down.pc # "closing"
    BY Zenon DEF Changing, Busy
  <2>3. ~Up(<<nm["ipns"], "ipns">>) BY <1>1, Zenon DEF PublishAllowed
  <2>4. hand' \in [pc : {"idle", "allowed"}, raced : BOOLEAN]
    <3>1. Changing \in BOOLEAN BY Zenon DEF Changing
    <3> QED BY <1>1, <3>1, Zenon
  <2> QED BY <1>1, <2>1, <2>2, <2>3, <2>4, Zenon DEF MountsInv, HandInv, Up, kernel
<1> QED BY <1>1, <1>2, WorldKeeps, Zenon

\* When a name is published by hand, no request having come in since the check,
\* every root that is still open is one whose mount was unmounted from outside.
LEMMA HandPublishKeeps ==
  ASSUME MountsInv, HandPublish PROVE MountsInv'
<1>1. /\ hand.pc = "allowed" /\ hand' = [hand EXCEPT !.pc = "idle"]
      /\ old' = openRoots /\ raced' = (hand.raced \/ overlapped)
      /\ UNCHANGED <<kernel, nm, registered, openRoots, call, down, handLost, overlapped, nmounts>>
  BY Zenon DEF HandPublish, roots
<1>2. ASSUME ~hand.raced, ~overlapped, NEW n \in openRoots PROVE <<n, "ipns">> \in outside
  <2>1. n \in MountNos /\ "ipns" \in Kinds BY <1>2, MountsAssumption, Zenon DEF MountsInv, MountsTypeOK
  <2>2. /\ \A c \in MountCalls : call[c].pc = "idle"
        /\ down.pc # "closing" /\ ~Up(<<nm["ipns"], "ipns">>)
    BY <1>1, <1>2, Zenon DEF MountsInv, HandInv
  <2>3. ~Closes(n)
    <3>1. \A c \in MountCalls : call[c].todo = <<>> BY <2>2, Zenon DEF MountsInv, NumberInv, NumberOf
    <3>2. down.todo = <<>> BY <2>2, Zenon DEF MountsInv, ListInv
    <3> QED BY <3>1, <3>2, HoldsNothing, Zenon DEF Closes
  <2>4. <<n, "ipns">> \notin stuck BY <1>2, <2>3, Zenon DEF MountsInv, RootInv
  <2>5. st[<<n, "ipns">>] # "up"
    <3> SUFFICES ASSUME st[<<n, "ipns">>] = "up" PROVE FALSE BY Zenon
    <3>1. nm["ipns"] = n
      BY <1>2, <2>1, <2>2, <2>4, Zenon DEF MountsInv, AloneInv, Left
    <3>2. n # 0 BY <2>1 DEF MountNos
    <3> QED BY <2>2, <3>1, <3>2, Zenon DEF Up
  <2> QED BY <1>2, <2>2, <2>3, <2>5, Zenon DEF MountsInv, RootInv
<1>3. HandInv'
  <2>1. hand' \in [pc : {"idle", "allowed"}, raced : BOOLEAN] /\ hand'.pc # "allowed"
    BY <1>1, Zenon DEF MountsInv, HandInv
  <2>2. ~handLost' /\ old' \subseteq MountNos BY <1>1, Zenon DEF MountsInv, HandInv, MountsTypeOK
  <2>3. ~raced' => \A n \in old' : <<n, "ipns">> \in outside'
    BY <1>1, <1>2, Zenon DEF kernel
  <2> QED BY <2>1, <2>2, <2>3, Zenon DEF HandInv
<1> QED BY <1>1, <1>3, WorldKeeps, Zenon

-----------------------------------------------------------------------------
(* Requests *)

\* A step of the request c, all of whose mounts are numbered m, that runs no list.
CallStep(c, m) ==
  /\ \A d \in MountCalls \ {c} : call'[d] = call[d]
  /\ \A d \in MountCalls \ {c} : call[d].pc # "idle" => call[d].n # m
  /\ call[c].todo = <<>>
  /\ (call[c].pc # "idle" => call[c].n = m) /\ (call'[c].pc # "idle" => call'[c].n = m)
  /\ UNCHANGED <<once, stuck, outside>> /\ down'.pc = down.pc /\ down'.todo = down.todo
  /\ nmounts <= nmounts'
  /\ \A k \in Kinds : nm'[k] = nm[k] \/ nm'[k] = m
  /\ \A n \in MountNos \ {m} :
       /\ \A k \in Kinds : st'[<<n, k>>] = st[<<n, k>>]
       /\ n \in registered' <=> n \in registered
       /\ n \in openRoots' <=> n \in openRoots
  /\ m \in Gone => registered' \subseteq registered /\ m \in Gone'

\* It keeps the invariant when it keeps what the invariant says of c and m.
LEMMA CallKeeps ==
  ASSUME MountsInv, NEW c \in MountCalls, NEW m \in MountNos, CallStep(c, m),
         MountsTypeOK', KernelInv', AloneInv', HandInv',
         NumberOf(c)', DoneOf(c)', CleanOf(c)',
         GoodList(call'[c].todo, Mine(c)', Gone', registered'),
         m \in registered' \cup openRoots' =>
           \/ st'[<<m, "ipns">>] = "up" \/ <<m, "ipns">> \in outside' \/ call'[c].pc # "idle",
         m \in openRoots' /\ <<m, "ipns">> \in stuck' => m \in openRoots,
         Left(m, "ipns")' => m \in registered' /\ m \in openRoots'
  PROVE  MountsInv'
<1>k. "ipns" \in Kinds /\ registered \subseteq MountNos /\ openRoots \subseteq MountNos
      /\ registered' \subseteq MountNos /\ openRoots' \subseteq MountNos
  BY MountsAssumption, Zenon DEF MountsInv, MountsTypeOK
<1>1. \A n \in MountNos \ {m} :
        /\ \A k \in Kinds : st'[<<n, k>>] = st[<<n, k>>]
        /\ n \in registered' <=> n \in registered
        /\ n \in openRoots' <=> n \in openRoots
  BY Zenon DEF CallStep
<1>2. \A d \in MountCalls \ {c} : call'[d] = call[d] /\ (call[d].pc # "idle" => call[d].n # m)
  BY Zenon DEF CallStep
<1>3. /\ UNCHANGED <<once, stuck, outside>> /\ call[c].todo = <<>> /\ (call'[c].pc # "idle" => call'[c].n = m)
      /\ down'.pc = down.pc /\ down'.todo = down.todo
  BY Zenon DEF CallStep
<1>4. ASSUME NEW d \in MountCalls \ {c}, call[d].pc # "idle"
      PROVE  call[d].n \in MountNos \ {m}
  BY <1>2, <1>4, MountsAssumption DEF MountsInv, MountsTypeOK, NumberInv, NumberOf, MountNos
<1>5. Gone \subseteq Gone' /\ registered' \cap Gone \subseteq registered
  <2>1. Gone \subseteq Gone'
    BY <1>k, <1>1, <1>3, Zenon DEF Gone, CallStep
  <2>2. registered' \cap Gone \subseteq registered
    BY <1>k, <1>1, ZenonT(60) DEF CallStep
  <2> QED BY <2>1, <2>2, ZenonT(60)
<1>l. ListInv'
  <2>1. ASSUME NEW d \in MountCalls \ {c} PROVE GoodList(call'[d].todo, Mine(d)', Gone', registered')
    <3>1. GoodList(call[d].todo, Mine(d), Gone, registered) BY Zenon DEF MountsInv, ListInv
    <3>2. GoodList(call[d].todo, Mine(d), Gone', registered') BY <1>5, <3>1, GoodStays, Zenon
    <3>3. Mine(d)' = Mine(d) /\ call'[d].todo = call[d].todo BY <1>2, Zenon DEF Mine
    <3> QED BY <3>2, <3>3, Zenon
  <2>2. GoodList(down'.todo, 0, Gone', registered')
    <3>1. GoodList(down.todo, 0, Gone, registered) BY Zenon DEF MountsInv, ListInv
    <3>2. GoodList(down.todo, 0, Gone', registered') BY <1>5, <3>1, GoodStays, Zenon
    <3> QED BY <1>3, <3>2, Zenon
  <2>3. down'.pc # "closing" => down'.todo = <<>> BY <1>3, ZenonT(60) DEF MountsInv, ListInv
  <2>4. \A d \in MountCalls : GoodList(call'[d].todo, Mine(d)', Gone', registered') BY <2>1, Zenon
  <2> QED BY <2>2, <2>3, <2>4, Zenon DEF ListInv
<1>n. NumberInv'
  <2>1. ASSUME NEW d \in MountCalls \ {c} PROVE NumberOf(d)'
    <3>1. NumberOf(d) BY ZenonT(60) DEF MountsInv, NumberInv
    <3>2. ASSUME call[d].pc # "idle"
          PROVE /\ call[d].n \in 1..nmounts' /\ \A k \in Kinds : nm'[k] # call[d].n
                /\ \A e \in MountCalls : e # d /\ call'[e].pc # "idle" => call'[e].n # call[d].n
      <4>1. call[d].n \in 1..nmounts'
        BY <3>1, <3>2 DEF NumberOf, CallStep, MountsInv, MountsTypeOK
      <4>2. \A k \in Kinds : nm'[k] # call[d].n
        BY <1>2, <3>1, <3>2, ZenonT(60) DEF NumberOf, CallStep
      <4>3. \A e \in MountCalls \ {c} : e # d /\ call'[e].pc # "idle" => call'[e].n # call[d].n
        BY <1>2, <3>1, <3>2, ZenonT(60) DEF NumberOf
      <4>4. call'[c].pc # "idle" => call'[c].n # call[d].n BY <1>2, <1>3, <3>2, ZenonT(60)
      <4> QED BY <4>1, <4>2, <4>3, <4>4, Zenon
    <3>3. call'[d] = call[d] BY <1>2, Zenon
    <3>4. /\ call[d].pc \in {"idle", "mount"} => call[d].todo = <<>>
          /\ call[d].pc = "unmount" => call[d].done = {}
      BY <3>1, Zenon DEF NumberOf
    <3> QED BY <3>2, <3>3, <3>4, Zenon DEF NumberOf
  <2> QED BY <2>1, Zenon DEF NumberInv
<1>d. DoneInv'
  <2>1. ASSUME NEW d \in MountCalls \ {c} PROVE DoneOf(d)'
    <3>1. CASE call[d].pc = "idle" BY <1>2, <3>1, ZenonT(60) DEF DoneOf
    <3>2. CASE call[d].pc # "idle"
      <4>1. /\ \A k \in Kinds : st'[<<call[d].n, k>>] = st[<<call[d].n, k>>]
            /\ call[d].n \in registered' <=> call[d].n \in registered
            /\ call[d].n \in openRoots' <=> call[d].n \in openRoots
        BY <1>1, <1>4, <3>2, ZenonT(60)
      <4>2. DoneOf(d) BY Zenon DEF MountsInv, DoneInv
      <4>3. call'[d] = call[d] BY <1>2, Zenon
      <4>4. outside' = outside BY <1>3, ZenonT(60)
      <4> HIDE DEF DoneOf
      <4> QED BY <1>k, <4>1, <4>2, <4>3, <4>4, ZenonT(60) DEF DoneOf
    <3> QED BY <3>1, <3>2, Zenon
  <2> QED BY <2>1, Zenon DEF DoneInv
<1>c. CleanInv'
  <2>1. ASSUME NEW d \in MountCalls \ {c} PROVE CleanOf(d)'
    <3>1. CASE call[d].pc = "idle" BY <1>2, <3>1, ZenonT(60) DEF CleanOf
    <3>2. CASE call[d].pc # "idle"
      <4>1. /\ \A k \in Kinds : st'[<<call[d].n, k>>] = st[<<call[d].n, k>>]
            /\ call[d].n \in registered' <=> call[d].n \in registered
            /\ call[d].n \in openRoots' <=> call[d].n \in openRoots
        BY <1>1, <1>4, <3>2, ZenonT(60)
      <4>2. CleanOf(d) BY Zenon DEF MountsInv, CleanInv
      <4>3. call'[d] = call[d] BY <1>2, ZenonT(60)
      <4>4. \A x : Holds(call'[d].todo, x) <=> Holds(call[d].todo, x) BY <4>3, Zenon
      <4> QED BY <1>k, <4>1, <4>2, <4>3, <4>4, ZenonT(60) DEF CleanOf
    <3> QED BY <3>1, <3>2, ZenonT(60)
  <2> QED BY <2>1, Zenon DEF CleanInv
<1>r. RootInv'
  <2>1. ASSUME NEW n, Closes(n) PROVE Closes(n)'
    <3>1. \A x : Holds(down.todo, x) => Holds(down'.todo, x) BY <1>3, Zenon
    <3>2. \A d \in MountCalls : \A x : Holds(call[d].todo, x) => Holds(call'[d].todo, x)
      BY <1>2, <1>3, HoldsNothing, Zenon
    <3> QED BY <2>1, <3>1, <3>2, Zenon DEF Closes
  <2>2. ASSUME NEW n \in registered' \cup openRoots'
        PROVE  \/ st'[<<n, "ipns">>] = "up" \/ <<n, "ipns">> \in outside' \/ Closes(n)'
               \/ \E d \in MountCalls : call'[d].pc # "idle" /\ call'[d].n = n
    <3>1. CASE n = m BY <1>3, <2>2, <3>1, Zenon
    <3>2. CASE n # m
      <4>1. n \in MountNos \ {m} /\ n \in registered \cup openRoots BY <1>k, <1>1, <2>2, <3>2, ZenonT(60)
      <4>2. st'[<<n, "ipns">>] = st[<<n, "ipns">>] /\ outside' = outside BY <1>k, <1>1, <1>3, <4>1, ZenonT(60)
      <4>3. CASE st[<<n, "ipns">>] = "up" BY <4>2, <4>3, ZenonT(60)
      <4>4. CASE <<n, "ipns">> \in outside BY <4>2, <4>4, ZenonT(60)
      <4>5. CASE Closes(n) BY <2>1, <4>5, Zenon
      <4>6. CASE \E d \in MountCalls : call[d].pc # "idle" /\ call[d].n = n
        <5>1. PICK d \in MountCalls : call[d].pc # "idle" /\ call[d].n = n BY <4>6, ZenonT(60)
        <5>2. CASE d # c BY <1>2, <5>1, <5>2, ZenonT(60)
        <5>3. CASE d = c BY <3>2, <5>1, <5>3, ZenonT(60) DEF CallStep
        <5> QED BY <5>2, <5>3, ZenonT(60)
      <4> QED BY <4>1, <4>3, <4>4, <4>5, <4>6, Zenon DEF MountsInv, RootInv
    <3> QED BY <3>1, <3>2, ZenonT(60)
  <2>3. ASSUME NEW n \in openRoots', <<n, "ipns">> \in stuck' PROVE Closes(n)'
    <3>1. n \in openRoots BY <1>k, <1>1, <2>3, ZenonT(60)
    <3> QED BY <1>3, <2>1, <2>3, <3>1, Zenon DEF MountsInv, RootInv
  <2>4. ASSUME NEW n \in MountNos, st'[<<n, "ipns">>] = "up", <<n, "ipns">> \notin stuck'
        PROVE  n \in registered' /\ n \in openRoots'
    <3>1. CASE n = m BY <2>4, <3>1, Zenon DEF Left
    <3>2. CASE n # m
      <4>1. st[<<n, "ipns">>] = "up" /\ <<n, "ipns">> \notin stuck BY <1>k, <1>1, <1>3, <2>4, <3>2, ZenonT(60)
      <4>2. n \in registered /\ n \in openRoots BY <4>1, Zenon DEF MountsInv, RootInv
      <4> QED BY <1>1, <3>2, <4>2, ZenonT(60)
    <3> QED BY <3>1, <3>2, ZenonT(60)
  <2> QED BY <2>2, <2>3, <2>4, Zenon DEF RootInv
<1> QED BY <1>l, <1>n, <1>d, <1>c, <1>r, Zenon DEF MountsInv

\* A step of a request that has begun: the invariants on requests that meet nobody
\* and on names published by hand.
BusyStep(c) ==
  /\ call[c].pc # "idle"
  /\ \A d \in MountCalls \ {c} : call'[d] = call[d]
  /\ UNCHANGED <<outside, down, names, overlapped>>

LEMMA BusyAlone ==
  ASSUME MountsInv, NEW c \in MountCalls, BusyStep(c), call'[c].pc # "unmount",
         ~overlapped => \A n \in MountNos, k \in Kinds : Left(n, k)' =>
           /\ call'[c].pc \in {"mount", "cleanup"} => call'[c].n = n
           /\ call'[c].pc = "cleanup" => Holds(call'[c].todo, <<k, n>>)
           /\ call'[c].pc = "idle" => nm'[k] = n
  PROVE  AloneInv'
<1>1. /\ call[c].pc # "idle" /\ UNCHANGED <<down, overlapped>>
      /\ \A d \in MountCalls \ {c} : call'[d] = call[d]
  BY Zenon DEF BusyStep
<1> SUFFICES ASSUME ~overlapped PROVE AloneInv'
  BY <1>1, Zenon DEF AloneInv
<1>2. down.pc = "no" /\ \A d \in MountCalls \ {c} : call[d].pc = "idle"
  BY <1>1, Zenon DEF MountsInv, AloneInv
<1>3. \A d \in MountCalls \ {c} : call'[d].pc = "idle" BY <1>1, <1>2, ZenonT(60)
<1>4. down'.pc = "no" BY <1>1, <1>2, ZenonT(60)
<1>5. ASSUME NEW n \in MountNos, NEW k \in Kinds, Left(n, k)',
             NEW d \in MountCalls
      PROVE  /\ call'[d].pc = "unmount" => nm'[k] = n /\ Holds(call'[d].todo, <<k, 0>>)
             /\ call'[d].pc \in {"mount", "cleanup"} => call'[d].n = n
             /\ call'[d].pc = "cleanup" => Holds(call'[d].todo, <<k, n>>)
  <2>1. CASE d = c BY <1>5, <2>1, Zenon
  <2>2. CASE d # c
    <3>1. call'[d].pc = "idle" BY <1>3, <2>2, ZenonT(60)
    <3>2. call'[d].pc \notin {"unmount", "mount", "cleanup"} BY <3>1, Zenon
    <3> QED BY <3>2, Zenon
  <2> QED BY <2>1, <2>2, ZenonT(60)
<1>6. ASSUME NEW n \in MountNos, NEW k \in Kinds, Left(n, k)', call'[c].pc = "idle" PROVE nm'[k] = n
  BY <1>6, Zenon
<1>7. down'.pc # "closing" /\ down'.pc # "done" BY <1>4, Zenon
<1> QED BY <1>3, <1>4, <1>5, <1>6, <1>7, Zenon DEF AloneInv

LEMMA BusyHand ==
  ASSUME MountsInv, NEW c \in MountCalls, BusyStep(c) PROVE HandInv'
<1>1. call[c].pc # "idle" /\ UNCHANGED <<outside, hand, old, raced, handLost>> BY Zenon DEF BusyStep, names
<1>2. ~(hand.pc = "allowed" /\ ~hand.raced) BY <1>1, Zenon DEF MountsInv, HandInv
<1> QED BY <1>1, <1>2, Zenon DEF MountsInv, HandInv

\* What a request's state is like while it mounts.
LEMMA Mounting ==
  ASSUME MountsInv, NEW c \in MountCalls, call[c].pc # "idle"
  PROVE  /\ call[c].n \in MountNos /\ call[c].n \in 1..nmounts
         /\ \A d \in MountCalls \ {c} : call[d].pc # "idle" => call[d].n # call[c].n
         /\ \A k \in Kinds : nm[k] # call[c].n
         /\ call[c].pc = "mount" => call[c].todo = <<>>
         /\ call[c].pc \in {"mount", "unmount"} /\ "ipns" \notin call[c].done => call[c].n \notin Gone
<1>1. /\ call[c].n \in MountNos /\ call[c].n \in 1..nmounts
      /\ \A d \in MountCalls \ {c} : call[d].pc # "idle" => call[d].n # call[c].n
      /\ \A k \in Kinds : nm[k] # call[c].n
      /\ call[c].pc = "mount" => call[c].todo = <<>>
  BY MountsAssumption DEF MountsInv, MountsTypeOK, NumberInv, NumberOf, MountNos
<1>2. call[c].pc \in {"mount", "unmount"} /\ "ipns" \notin call[c].done => call[c].n \notin Gone
  BY <1>1, MountsAssumption, ZenonT(60) DEF MountsInv, DoneInv, DoneOf, KernelInv, Gone
<1> QED BY <1>1, <1>2, Zenon

LEMMA EmptyGood == \A mine, gone, reg : GoodList(<<>>, mine, gone, reg)
BY DEF GoodList

LEMMA MountStartKeeps ==
  ASSUME MountsInv, NEW c \in MountCalls, MountStart(c) PROVE MountsInv'
<1>1. /\ call[c].pc = "unmount" /\ call[c].todo = <<>>
      /\ call' = [call EXCEPT ![c].pc = "mount"]
      /\ UNCHANGED <<st, once, stuck, outside, nm, registered, openRoots, down, names, overlapped, nmounts>>
  BY Zenon DEF MountStart, kernel, roots
<1>5. PICK m \in MountNos : call[c].n = m BY <1>1, Mounting, Zenon
<1>2. MountsTypeOK' BY <1>1, ZenonT(60) DEF MountsInv, MountsTypeOK, MountPhases
<1>3. call'[c] = [call[c] EXCEPT !.pc = "mount"] /\ \A d \in MountCalls \ {c} : call'[d] = call[d]
  BY <1>1, Zenon DEF MountsInv, MountsTypeOK
<1>4. /\ call'[c].pc = "mount" /\ call'[c].n = m /\ call'[c].done = call[c].done
      /\ call'[c].err = call[c].err /\ call'[c].todo = <<>>
  BY <1>1, <1>3, <1>5 DEF MountsInv, MountsTypeOK
<1>6. BusyStep(c) BY <1>1, <1>3, Zenon DEF BusyStep
<1>7. Gone' = Gone BY <1>1, Zenon DEF Gone
<1>8. CallStep(c, m)
  BY <1>1, <1>3, <1>4, <1>5, <1>7, Mounting DEF CallStep, MountsInv, MountsTypeOK
<1>9. AloneInv'
  <2>1. ASSUME ~overlapped, NEW n \in MountNos, NEW k \in Kinds, Left(n, k)' PROVE FALSE
    <3>1. Left(n, k) BY <1>1, <2>1, Zenon DEF Left
    <3>2. Holds(call[c].todo, <<k, 0>>) BY <1>1, <2>1, <3>1, Zenon DEF MountsInv, AloneInv
    <3> QED BY <1>1, <3>2, HoldsNothing, Zenon
  <2>2. call'[c].pc # "unmount" BY <1>4, Zenon
  <2> QED BY <1>6, <2>1, <2>2, BusyAlone, Zenon
<1>10. HandInv' BY <1>6, BusyHand, Zenon
<1>11. KernelInv' BY <1>1, Zenon DEF MountsInv, KernelInv
<1>12. NumberOf(c)'
  BY <1>1, <1>3, <1>4, <1>5, Mounting DEF NumberOf
<1>13. DoneOf(c)'
  <2>1. DoneOf(c) BY Zenon DEF MountsInv, DoneInv
  <2> QED BY <1>1, <1>4, <1>5, <2>1 DEF DoneOf
<1>14. CleanOf(c)' BY <1>4, Zenon DEF CleanOf
<1>15. GoodList(call'[c].todo, Mine(c)', Gone', registered') BY <1>4, EmptyGood, Zenon
<1>16. call'[c].pc # "idle" BY <1>4, Zenon
<1>17. Left(m, "ipns")' => m \in registered' /\ m \in openRoots'
  BY <1>1, <1>5, Zenon DEF MountsInv, RootInv, Left
<1>18. openRoots' = openRoots BY <1>1, Zenon
<1> QED BY <1>2, <1>8, <1>9, <1>10, <1>11, <1>12, <1>13, <1>14, <1>15, <1>16, <1>17, <1>18, CallKeeps, Zenon

\* A step of doMount's goroutines.
LEMMA MountingKeeps ==
  ASSUME MountsInv, NEW c \in MountCalls, NEW m \in MountNos, BusyStep(c),
         call[c].pc = "mount", call[c].n = m,
         call'[c].pc = "mount", call'[c].n = m, call'[c].todo = <<>>,
         UNCHANGED <<once, stuck, nm, nmounts>>,
         \A n \in MountNos \ {m} :
           /\ \A k \in Kinds : st'[<<n, k>>] = st[<<n, k>>]
           /\ n \in registered' <=> n \in registered
           /\ n \in openRoots' <=> n \in openRoots,
         m \in Gone => registered' \subseteq registered /\ m \in Gone',
         MountsTypeOK', KernelInv', DoneOf(c)',
         m \in openRoots' /\ <<m, "ipns">> \in stuck' => m \in openRoots,
         Left(m, "ipns")' => m \in registered' /\ m \in openRoots'
  PROVE  MountsInv'
<1>1. CallStep(c, m)
  <2>1. call[c].todo = <<>> /\ \A d \in MountCalls \ {c} : call[d].pc # "idle" => call[d].n # m
    BY Mounting, ZenonT(60)
  <2>2. /\ \A d \in MountCalls \ {c} : call'[d] = call[d]
        /\ outside' = outside /\ down'.pc = down.pc /\ down'.todo = down.todo
    BY ZenonT(60) DEF BusyStep
  <2>3. nmounts <= nmounts' BY DEF MountsInv, MountsTypeOK
  <2> QED BY <2>1, <2>2, <2>3, Zenon DEF CallStep
<1>2. AloneInv'
  <2>1. ASSUME ~overlapped, NEW n \in MountNos, NEW k \in Kinds, Left(n, k)' PROVE n = m
    <3> SUFFICES ASSUME n # m PROVE FALSE BY ZenonT(60)
    <3>1. Left(n, k) BY <2>1, ZenonT(60) DEF Left
    <3>2. call[c].pc \in {"mount", "cleanup"} BY ZenonT(60)
    <3> QED BY <2>1, <3>1, <3>2, Zenon DEF MountsInv, AloneInv
  <2>2. call'[c].pc # "unmount" /\ call'[c].pc # "cleanup" /\ call'[c].pc # "idle" BY Zenon
  <2> QED BY <2>1, <2>2, BusyAlone, Zenon
<1>3. HandInv' BY BusyHand, Zenon
<1>4. NumberOf(c)' BY <1>1, Mounting, ZenonT(60) DEF NumberOf, BusyStep
<1>5. CleanOf(c)' BY ZenonT(60) DEF CleanOf
<1>6. GoodList(call'[c].todo, Mine(c)', Gone', registered') BY EmptyGood, Zenon
<1>7. call'[c].pc # "idle" BY Zenon
<1> QED BY <1>1, <1>2, <1>3, <1>4, <1>5, <1>6, <1>7, CallKeeps, Zenon

LEMMA MountLoadKeeps ==
  ASSUME MountsInv, NEW c \in MountCalls, MountLoad(c) PROVE MountsInv'
<1>1. /\ call[c].pc = "mount" /\ "load" \notin call[c].done
      /\ call' = [call EXCEPT ![c].done = @ \cup {"load"}]
      /\ openRoots' = openRoots \cup {call[c].n}
      /\ UNCHANGED <<st, once, stuck, outside, nm, registered, down, names, overlapped, nmounts>>
  BY Zenon DEF MountLoad, Ready, MountStep, kernel
<1>2. PICK m \in MountNos : call[c].n = m BY <1>1, Mounting, Zenon
<1>3. /\ call'[c].pc = "mount" /\ call'[c].n = m /\ call'[c].todo = <<>>
      /\ call'[c].done = call[c].done \cup {"load"} /\ call'[c].err = call[c].err
      /\ \A d \in MountCalls \ {c} : call'[d] = call[d]
  BY <1>1, <1>2, Mounting DEF MountsInv, MountsTypeOK
<1>4. MountsTypeOK'
  <2>1. call[c].done \cup {"load"} \subseteq MountSteps BY Zenon DEF MountsInv, MountsTypeOK, MountSteps
  <2> QED BY <1>1, <1>2, <2>1, ZenonT(60) DEF MountsInv, MountsTypeOK
<1>5. BusyStep(c) BY <1>1, <1>3, Zenon DEF BusyStep
<1>6. DoneOf(c) BY Zenon DEF MountsInv, DoneInv
<1>7. "register" \notin call[c].done /\ "ipns" \notin call[c].done BY <1>1, <1>6, Zenon DEF DoneOf
<1>8. m \notin Gone BY <1>1, <1>2, <1>7, Mounting, Zenon
<1>9. DoneOf(c)'
  <2>1. \A k \in Kinds : k # "load" BY MountsAssumption, Zenon
  <2> QED BY <1>1, <1>2, <1>3, <1>6, <1>7, <2>1 DEF DoneOf
<1>10. KernelInv' BY <1>1, <1>2, Mounting DEF MountsInv, KernelInv
<1>11. <<m, "ipns">> \notin stuck /\ (Left(m, "ipns")' => m \in registered' /\ m \in openRoots')
  BY <1>1, <1>2, <1>8, Zenon DEF Gone, Left, MountsInv, RootInv
<1> QED BY <1>1, <1>2, <1>3, <1>4, <1>5, <1>8, <1>9, <1>10, <1>11, MountingKeeps, Zenon

LEMMA MountLoadFailsKeeps ==
  ASSUME MountsInv, NEW c \in MountCalls, MountLoadFails(c) PROVE MountsInv'
<1>1. /\ call[c].pc = "mount" /\ "load" \notin call[c].done
      /\ call' = [call EXCEPT ![c].done = @ \cup {"load", "register", "ipns"}, ![c].err = TRUE]
      /\ UNCHANGED <<st, once, stuck, outside, nm, registered, openRoots, down, names, overlapped, nmounts>>
  BY Zenon DEF MountLoadFails, Ready, kernel, roots
<1>2. PICK m \in MountNos : call[c].n = m BY <1>1, Mounting, Zenon
<1>3. /\ call'[c].pc = "mount" /\ call'[c].n = m /\ call'[c].todo = <<>>
      /\ call'[c].done = call[c].done \cup {"load", "register", "ipns"} /\ call'[c].err = TRUE
      /\ \A d \in MountCalls \ {c} : call'[d] = call[d]
  BY <1>1, <1>2, Mounting DEF MountsInv, MountsTypeOK
<1>4. MountsTypeOK'
  <2>1. call[c].done \cup {"load", "register", "ipns"} \subseteq MountSteps
    BY MountsAssumption, Zenon DEF MountsInv, MountsTypeOK, MountSteps
  <2>2. call' = [call EXCEPT ![c] = [call[c] EXCEPT !.done = call[c].done \cup {"load", "register", "ipns"},
                                                   !.err = TRUE]]
    BY <1>1, ZenonT(60)
  <2>3. [call[c] EXCEPT !.done = call[c].done \cup {"load", "register", "ipns"}, !.err = TRUE] \in
          [pc : MountPhases, n : 0..MaxMounts, done : SUBSET MountSteps, err : BOOLEAN, todo : Seq(Items)]
    BY <2>1, ZenonT(60) DEF MountsInv, MountsTypeOK
  <2>4. call' \in [MountCalls -> [pc : MountPhases, n : 0..MaxMounts, done : SUBSET MountSteps,
                                  err : BOOLEAN, todo : Seq(Items)]]
    BY <2>2, <2>3, Zenon DEF MountsInv, MountsTypeOK
  <2> QED BY <1>1, <2>4, Zenon DEF MountsInv, MountsTypeOK
<1>5. BusyStep(c) BY <1>1, <1>3, ZenonT(60) DEF BusyStep
<1>6. DoneOf(c) BY Zenon DEF MountsInv, DoneInv
<1>7. "register" \notin call[c].done /\ "ipns" \notin call[c].done BY <1>1, <1>6, Zenon DEF DoneOf
<1>9. DoneOf(c)'
  <2>1. /\ \A k \in Kinds :
             /\ k \notin call[c].done => st[<<m, k>>] = "none"
             /\ st[<<m, k>>] = "down" => <<m, k>> \in outside
        /\ m \notin openRoots /\ m \notin registered
    BY <1>1, <1>2, <1>6, <1>7, Zenon DEF DoneOf
  <2>2. /\ "load" \in call'[c].done /\ "register" \in call'[c].done /\ "ipns" \in call'[c].done
        /\ \A k \in Kinds : k \notin call'[c].done => k \notin call[c].done
    BY <1>3, Zenon
  <2>3. st' = st /\ outside' = outside /\ openRoots' = openRoots /\ registered' = registered BY <1>1, Zenon
  <2>4. /\ \A k \in Kinds :
             /\ k \notin call'[c].done => st'[<<call'[c].n, k>>] = "none"
             /\ st'[<<call'[c].n, k>>] = "down" => <<call'[c].n, k>> \in outside'
        /\ call'[c].n \notin openRoots' /\ call'[c].n \notin registered'
    BY <1>3, <2>1, <2>2, <2>3, Zenon
  <2>5. /\ "load" \notin call'[c].done => call'[c].n \notin openRoots' /\ "register" \notin call'[c].done
        /\ "register" \notin call'[c].done => call'[c].n \notin registered' /\ "ipns" \notin call'[c].done
        /\ "ipns" \in call'[c].done
        /\ call'[c].n \notin registered' \cup openRoots'
    BY <2>2, <2>4, Zenon
  <2>6. call'[c].err BY <1>3, Zenon
  <2> QED BY <2>4, <2>5, <2>6, Zenon DEF DoneOf
<1>10. KernelInv' BY <1>1, Zenon DEF MountsInv, KernelInv
<1>11. /\ Left(m, "ipns")' => m \in registered' /\ m \in openRoots'
       /\ m \in Gone => registered' \subseteq registered /\ m \in Gone'
  BY <1>1, <1>2, Zenon DEF Left, Gone, MountsInv, RootInv
<1> QED BY <1>1, <1>2, <1>3, <1>4, <1>5, <1>9, <1>10, <1>11, MountingKeeps, ZenonT(60)

LEMMA MountRegisterKeeps ==
  ASSUME MountsInv, NEW c \in MountCalls, MountRegister(c) PROVE MountsInv'
<1>1. /\ call[c].pc = "mount" /\ "register" \notin call[c].done /\ "load" \in call[c].done
      /\ call' = [call EXCEPT ![c].done = @ \cup {"register"}]
      /\ registered' = registered \cup {call[c].n}
      /\ UNCHANGED <<st, once, stuck, outside, nm, openRoots, down, names, overlapped, nmounts>>
  BY Zenon DEF MountRegister, Ready, MountStep, kernel
<1>2. PICK m \in MountNos : call[c].n = m BY <1>1, Mounting, Zenon
<1>3. /\ call'[c].pc = "mount" /\ call'[c].n = m /\ call'[c].todo = <<>>
      /\ call'[c].done = call[c].done \cup {"register"} /\ call'[c].err = call[c].err
      /\ \A d \in MountCalls \ {c} : call'[d] = call[d]
  BY <1>1, <1>2, Mounting DEF MountsInv, MountsTypeOK
<1>4. MountsTypeOK'
  <2>1. call[c].done \cup {"register"} \subseteq MountSteps BY Zenon DEF MountsInv, MountsTypeOK, MountSteps
  <2> QED BY <1>1, <1>2, <2>1, ZenonT(60) DEF MountsInv, MountsTypeOK
<1>5. BusyStep(c) BY <1>1, <1>3, Zenon DEF BusyStep
<1>6. DoneOf(c) BY Zenon DEF MountsInv, DoneInv
<1>7. "ipns" \notin call[c].done BY <1>1, <1>6, Zenon DEF DoneOf
<1>8. m \notin Gone BY <1>1, <1>2, <1>7, Mounting, Zenon
<1>9. DoneOf(c)'
  <2>1. \A k \in Kinds : k # "register" BY MountsAssumption, Zenon
  <2> QED BY <1>1, <1>2, <1>3, <1>6, <1>7, <2>1 DEF DoneOf
<1>10. KernelInv' BY <1>1, <1>2, Mounting DEF MountsInv, KernelInv
<1>11. Left(m, "ipns")' => m \in registered' /\ m \in openRoots'
  BY <1>1, <1>2, Zenon DEF Left, MountsInv, RootInv
<1> QED BY <1>1, <1>2, <1>3, <1>4, <1>5, <1>8, <1>9, <1>10, <1>11, MountingKeeps, ZenonT(60)

LEMMA MountUpKeeps ==
  ASSUME MountsInv, NEW c \in MountCalls, NEW k \in Kinds, MountUp(c, k) PROVE MountsInv'
<1>1. /\ call[c].pc = "mount" /\ k \notin call[c].done /\ (k = "ipns" => "register" \in call[c].done)
      /\ call' = [call EXCEPT ![c].done = @ \cup {k}]
      /\ st' = [st EXCEPT ![<<call[c].n, k>>] = "up"]
      /\ UNCHANGED <<once, stuck, outside, nm, registered, openRoots, down, names, overlapped, nmounts>>
  BY Zenon DEF MountUp, Ready, MountStep, roots
<1>2. PICK m \in MountNos : call[c].n = m BY <1>1, Mounting, Zenon
<1>3. /\ call'[c].pc = "mount" /\ call'[c].n = m /\ call'[c].todo = <<>>
      /\ call'[c].done = call[c].done \cup {k} /\ call'[c].err = call[c].err
      /\ \A d \in MountCalls \ {c} : call'[d] = call[d]
  BY <1>1, <1>2, Mounting DEF MountsInv, MountsTypeOK
<1>4. /\ st' \in [Objs -> {"none", "up", "down"}] /\ st'[<<m, k>>] = "up"
      /\ \A n \in MountNos, j \in Kinds : n # m \/ j # k => st'[<<n, j>>] = st[<<n, j>>]
  BY <1>1, <1>2, Zenon DEF MountsInv, MountsTypeOK, Objs
<1>5. MountsTypeOK'
  <2>1. call[c].done \cup {k} \subseteq MountSteps BY Zenon DEF MountsInv, MountsTypeOK, MountSteps
  <2>2. call' \in [MountCalls -> [pc : MountPhases, n : 0..MaxMounts, done : SUBSET MountSteps,
                                  err : BOOLEAN, todo : Seq(Items)]]
    BY <1>1, <2>1, ZenonT(60) DEF MountsInv, MountsTypeOK
  <2> QED BY <1>1, <1>4, <2>2, Zenon DEF MountsInv, MountsTypeOK
<1>6. BusyStep(c) BY <1>1, <1>3, Zenon DEF BusyStep
<1>7. DoneOf(c) BY Zenon DEF MountsInv, DoneInv
<1>8. st[<<m, k>>] = "none" /\ <<m, k>> \notin once \cup stuck \cup outside
  BY <1>1, <1>2, <1>7, Zenon DEF DoneOf, MountsInv, KernelInv
<1>9. DoneOf(c)'
  <2>1. k # "load" /\ k # "register" BY MountsAssumption, Zenon
  <2>2. ASSUME NEW j \in Kinds
        PROVE  /\ j \notin call'[c].done => st'[<<m, j>>] = "none"
               /\ st'[<<m, j>>] = "down" => <<m, j>> \in outside'
    BY <1>1, <1>2, <1>3, <1>4, <1>7 DEF DoneOf
  <2>3. ASSUME NEW j \in Kinds, ~call'[c].err, j \in call'[c].done PROVE st'[<<m, j>>] # "none"
    <3>1. j \in call[c].done => st[<<m, j>>] # "none"
      BY <1>1, <1>2, <1>3, <1>7, <2>3, Zenon DEF DoneOf
    <3> QED BY <1>3, <1>4, <2>3, <3>1, Zenon
  <2>4. /\ "load" \notin call'[c].done => m \notin openRoots' /\ "register" \notin call'[c].done
        /\ "register" \notin call'[c].done => m \notin registered' /\ "ipns" \notin call'[c].done
        /\ "load" \in call'[c].done /\ "ipns" \notin call'[c].done => m \in openRoots'
        /\ "register" \in call'[c].done /\ "ipns" \notin call'[c].done => m \in registered'
        /\ "ipns" \in call'[c].done /\ m \in registered' \cup openRoots' => st'[<<m, "ipns">>] # "none"
    BY <1>1, <1>2, <1>3, <1>4, <1>7, <2>1, MountsAssumption DEF DoneOf
  <2> QED BY <1>3, <2>2, <2>3, <2>4, Zenon DEF DoneOf
<1>10. KernelInv'
  <2>1. ASSUME NEW n \in MountNos, NEW j \in Kinds
        PROVE  /\ <<n, j>> \in once' \cup stuck' \cup outside' => st'[<<n, j>>] # "none"
               /\ <<n, j>> \in once' /\ st'[<<n, j>>] = "up" => <<n, j>> \in stuck'
               /\ st'[<<n, j>>] # "none" => n <= nmounts'
    <3>1. CASE n = m /\ j = k BY <1>1, <1>2, <1>4, <1>8, <3>1, Mounting
    <3>2. CASE n # m \/ j # k BY <1>1, <1>4, <3>2 DEF MountsInv, KernelInv
    <3> QED BY <3>1, <3>2, Zenon
  <2> QED BY <1>1, <2>1, Zenon DEF MountsInv, KernelInv
<1>11. m \in Gone => m \in Gone' BY <1>1, <1>4, <1>8, MountsAssumption, Zenon DEF Gone
<1>12. Left(m, "ipns")' => m \in registered' /\ m \in openRoots'
  <2>1. CASE k = "ipns" BY <1>1, <1>2, <1>7, <2>1, Zenon DEF DoneOf
  <2>2. CASE k # "ipns" BY <1>1, <1>2, <1>4, <2>2, MountsAssumption DEF Left, MountsInv, RootInv
  <2> QED BY <2>1, <2>2, Zenon
<1>13. \A n \in MountNos \ {m} :
         /\ \A j \in Kinds : st'[<<n, j>>] = st[<<n, j>>]
         /\ n \in registered' <=> n \in registered
         /\ n \in openRoots' <=> n \in openRoots
  BY <1>1, <1>4, Zenon
<1>14. UNCHANGED <<once, stuck, nm, nmounts>> /\ registered' = registered /\ openRoots' = openRoots BY <1>1, Zenon
<1>15. m \in Gone => registered' \subseteq registered /\ m \in Gone' BY <1>11, <1>14, Zenon
<1> QED BY <1>1, <1>2, <1>3, <1>5, <1>6, <1>9, <1>10, <1>12, <1>13, <1>14, <1>15, MountingKeeps, Zenon

LEMMA MountFailsKeeps ==
  ASSUME MountsInv, NEW c \in MountCalls, NEW k \in Kinds, MountFails(c, k) PROVE MountsInv'
<1>1. /\ call[c].pc = "mount" /\ k \notin call[c].done /\ (k = "ipns" => "register" \in call[c].done)
      /\ call' = [call EXCEPT ![c].done = @ \cup {k}, ![c].err = TRUE]
      /\ UNCHANGED <<st, once, stuck, outside, nm, down, names, overlapped, nmounts>>
  BY Zenon DEF MountFails, Ready, kernel
<1>2. PICK m \in MountNos : call[c].n = m BY <1>1, Mounting, Zenon
<1>r. /\ k = "ipns" => registered' = registered \ {m} /\ openRoots' = openRoots \ {m}
      /\ k # "ipns" => UNCHANGED <<registered, openRoots>>
  BY <1>2, Zenon DEF MountFails, GiveBack
<1>3. /\ call'[c].pc = "mount" /\ call'[c].n = m /\ call'[c].todo = <<>>
      /\ call'[c].done = call[c].done \cup {k} /\ call'[c].err = TRUE
      /\ \A d \in MountCalls \ {c} : call'[d] = call[d]
  BY <1>1, <1>2, Mounting DEF MountsInv, MountsTypeOK
<1>5. MountsTypeOK'
  <2>1. call[c].done \cup {k} \subseteq MountSteps BY Zenon DEF MountsInv, MountsTypeOK, MountSteps
  <2>2. call' = [call EXCEPT ![c] = [call[c] EXCEPT !.done = call[c].done \cup {k}, !.err = TRUE]]
    BY <1>1, ZenonT(60)
  <2>3. [call[c] EXCEPT !.done = call[c].done \cup {k}, !.err = TRUE] \in
          [pc : MountPhases, n : 0..MaxMounts, done : SUBSET MountSteps, err : BOOLEAN, todo : Seq(Items)]
    BY <2>1, ZenonT(60) DEF MountsInv, MountsTypeOK
  <2>4. call' \in [MountCalls -> [pc : MountPhases, n : 0..MaxMounts, done : SUBSET MountSteps,
                                  err : BOOLEAN, todo : Seq(Items)]]
    BY <2>2, <2>3, Zenon DEF MountsInv, MountsTypeOK
  <2> QED BY <1>1, <1>r, <2>4, Zenon DEF MountsInv, MountsTypeOK
<1>6. BusyStep(c) BY <1>1, <1>3, ZenonT(60) DEF BusyStep
<1>7. DoneOf(c) BY Zenon DEF MountsInv, DoneInv
<1>9. DoneOf(c)'
  <2>1. k # "load" /\ k # "register" BY MountsAssumption, Zenon
  <2>2. ASSUME NEW j \in Kinds
        PROVE  /\ j \notin call'[c].done => st'[<<m, j>>] = "none"
               /\ st'[<<m, j>>] = "down" => <<m, j>> \in outside'
    BY <1>1, <1>2, <1>3, <1>7, ZenonT(60) DEF DoneOf
  <2>3. call'[c].err BY <1>3, Zenon
  <2>4. /\ "load" \notin call'[c].done => m \notin openRoots' /\ "register" \notin call'[c].done
        /\ "register" \notin call'[c].done => m \notin registered' /\ "ipns" \notin call'[c].done
        /\ "load" \in call'[c].done /\ "ipns" \notin call'[c].done => m \in openRoots'
        /\ "register" \in call'[c].done /\ "ipns" \notin call'[c].done => m \in registered'
        /\ "ipns" \in call'[c].done /\ m \in registered' \cup openRoots' => st'[<<m, "ipns">>] # "none"
    BY <1>1, <1>2, <1>r, <1>3, <1>7, <2>1, ZenonT(60) DEF DoneOf
  <2> QED BY <1>3, <2>2, <2>3, <2>4, Zenon DEF DoneOf
<1>10. KernelInv' BY <1>1, <1>r, Zenon DEF MountsInv, KernelInv
<1>11. m \in Gone => registered' \subseteq registered /\ m \in Gone' BY <1>1, <1>r, Zenon DEF Gone
<1>12. Left(m, "ipns")' => m \in registered' /\ m \in openRoots'
  <2>1. k = "ipns" => st[<<m, "ipns">>] = "none" BY <1>1, <1>2, <1>7, Zenon DEF DoneOf
  <2> QED BY <1>1, <1>2, <1>r, <2>1, Zenon DEF Left, MountsInv, RootInv
<1> QED BY <1>1, <1>2, <1>r, <1>3, <1>5, <1>6, <1>9, <1>10, <1>11, <1>12, MountingKeeps, ZenonT(60)

\* doMount has mounted everything: node.Mounts is set.
LEMMA MountSetKeeps ==
  ASSUME MountsInv, NEW c \in MountCalls, MountSet(c) PROVE MountsInv'
<1>1. /\ call[c].pc = "mount" /\ Kinds \subseteq call[c].done
      /\ nm' = [k \in Kinds |-> call[c].n] /\ call' = [call EXCEPT ![c] = NoMount]
      /\ UNCHANGED <<st, once, stuck, outside, registered, openRoots, down, names, overlapped, nmounts>>
  BY Zenon DEF MountSet, AllUp, kernel, roots
<1>2. PICK m \in MountNos : call[c].n = m BY <1>1, Mounting, ZenonT(60)
<1>3. /\ call'[c] = NoMount /\ call'[c].pc = "idle" /\ call'[c].todo = <<>>
      /\ \A d \in MountCalls \ {c} : call'[d] = call[d]
  BY <1>1, ZenonT(60) DEF MountsInv, MountsTypeOK, NoMount
<1>4. \A k \in Kinds : nm'[k] = m BY <1>1, <1>2, Zenon
<1>5. MountsTypeOK'
  <2>1. NoMount \in [pc : MountPhases, n : 0..MaxMounts, done : SUBSET MountSteps, err : BOOLEAN,
                     todo : Seq(Items)]
    BY IdleTyped, Zenon
  <2>2. call' \in [MountCalls -> [pc : MountPhases, n : 0..MaxMounts, done : SUBSET MountSteps,
                                  err : BOOLEAN, todo : Seq(Items)]]
    BY <1>1, <2>1, Zenon DEF MountsInv, MountsTypeOK
  <2>3. m \in 0..MaxMounts BY MountsAssumption DEF MountNos
  <2> QED BY <1>1, <1>2, <2>2, <2>3, ZenonT(60) DEF MountsInv, MountsTypeOK
<1>6. BusyStep(c) BY <1>1, <1>3, Zenon DEF BusyStep
<1>7. Gone' = Gone BY <1>1, Zenon DEF Gone
<1>8. CallStep(c, m)
  <2>1. call[c].todo = <<>> /\ \A d \in MountCalls \ {c} : call[d].pc # "idle" => call[d].n # m
    BY <1>1, <1>2, Mounting, ZenonT(60)
  <2>2. nmounts <= nmounts' BY <1>1 DEF MountsInv, MountsTypeOK
  <2> QED BY <1>1, <1>2, <1>3, <1>4, <1>7, <2>1, <2>2, ZenonT(60) DEF CallStep
<1>9. AloneInv'
  <2>1. ASSUME ~overlapped, NEW n \in MountNos, NEW k \in Kinds, Left(n, k)' PROVE nm'[k] = n
    <3>1. Left(n, k) BY <1>1, <2>1, Zenon DEF Left
    <3>2. call[c].pc \in {"mount", "cleanup"} BY <1>1, Zenon
    <3>3. call[c].n = n BY <2>1, <3>1, <3>2, Zenon DEF MountsInv, AloneInv
    <3> QED BY <1>2, <1>4, <3>3, Zenon
  <2>2. call'[c].pc # "unmount" /\ call'[c].pc \notin {"mount", "cleanup"} /\ call'[c].pc # "cleanup" BY <1>3, Zenon
  <2> QED BY <1>6, <2>1, <2>2, BusyAlone, Zenon
<1>10. HandInv' BY <1>6, BusyHand, Zenon
<1>11. KernelInv'
  <2>1. m \in 1..nmounts BY <1>1, <1>2, Mounting, Zenon
  <2>2. m <= nmounts BY <2>1
  <2> QED BY <1>1, <1>4, <2>2, Zenon DEF MountsInv, KernelInv
<1>12. NumberOf(c)' BY <1>3, Zenon DEF NumberOf
<1>13. DoneOf(c)' /\ CleanOf(c)' BY <1>3, ZenonT(60) DEF DoneOf, CleanOf
<1>14. GoodList(call'[c].todo, Mine(c)', Gone', registered') BY <1>3, EmptyGood, Zenon
<1>15. m \in registered' \cup openRoots' => st'[<<m, "ipns">>] = "up" \/ <<m, "ipns">> \in outside'
  <2>1. DoneOf(c) /\ "ipns" \in Kinds BY MountsAssumption, Zenon DEF MountsInv, DoneInv
  <2>2. /\ m \in registered \cup openRoots => st[<<m, "ipns">>] # "none"
        /\ st[<<m, "ipns">>] = "down" => <<m, "ipns">> \in outside
    BY <1>1, <1>2, <2>1, Zenon DEF DoneOf
  <2>3. st[<<m, "ipns">>] \in {"none", "up", "down"} BY <2>1, Zenon DEF MountsInv, MountsTypeOK, Objs
  <2> QED BY <1>1, <2>2, <2>3, Zenon
<1>16. Left(m, "ipns")' => m \in registered' /\ m \in openRoots'
  BY <1>1, ZenonT(60) DEF Left, MountsInv, RootInv
<1>17. openRoots' = openRoots BY <1>1, ZenonT(60)
<1> QED BY <1>5, <1>8, <1>9, <1>10, <1>11, <1>12, <1>13, <1>14, <1>15, <1>16, <1>17, CallKeeps, Zenon

\* doMount has failed: what it mounted is unmounted.
LEMMA MountCleanUpKeeps ==
  ASSUME MountsInv, NEW c \in MountCalls, MountCleanUp(c) PROVE MountsInv'
<1>1. /\ call[c].pc = "mount" /\ Kinds \subseteq call[c].done
      /\ call' = [call EXCEPT ![c].pc = "cleanup", ![c].todo = ToCleanUp(call[c].n)]
      /\ UNCHANGED <<st, once, stuck, outside, nm, registered, openRoots, down, names, overlapped, nmounts>>
  BY Zenon DEF MountCleanUp, AllUp, kernel, roots
<1>2. PICK m \in MountNos : call[c].n = m BY <1>1, Mounting, Zenon
<1> DEFINE up == {k \in Kinds : st[<<m, k>>] # "none"}
           t == InOrder(m, up)
<1>3. t = ToCleanUp(m) BY Zenon DEF ToCleanUp
<1>4. /\ t \in Seq(Items) /\ \A x : Holds(t, x) <=> \E k \in up : x = <<k, m>>
  <2>1. m \in 0..MaxMounts /\ up \in SUBSET Kinds BY MountsAssumption DEF MountNos
  <2> QED BY <2>1, InOrderList, Zenon
<1> HIDE DEF t
<1>5. call'[c] = [call[c] EXCEPT !.pc = "cleanup", !.todo = t] /\ \A d \in MountCalls \ {c} : call'[d] = call[d]
  BY <1>1, <1>2, <1>3, Zenon DEF MountsInv, MountsTypeOK
<1>6. call'[c].pc = "cleanup" /\ call'[c].n = m /\ call'[c].todo = t
  BY <1>2, <1>5 DEF MountsInv, MountsTypeOK
<1>7. MountsTypeOK'
  <2>1. call' = [call EXCEPT ![c] = [call[c] EXCEPT !.pc = "cleanup", !.todo = t]]
    BY <1>1, <1>2, <1>3, ZenonT(60)
  <2>2. [call[c] EXCEPT !.pc = "cleanup", !.todo = t] \in
          [pc : MountPhases, n : 0..MaxMounts, done : SUBSET MountSteps, err : BOOLEAN, todo : Seq(Items)]
    BY <1>4, ZenonT(60) DEF MountsInv, MountsTypeOK, MountPhases
  <2>3. call' \in [MountCalls -> [pc : MountPhases, n : 0..MaxMounts, done : SUBSET MountSteps,
                                  err : BOOLEAN, todo : Seq(Items)]]
    BY <2>1, <2>2, Zenon DEF MountsInv, MountsTypeOK
  <2> QED BY <1>1, <2>3, Zenon DEF MountsInv, MountsTypeOK
<1>8. BusyStep(c) BY <1>1, <1>5, ZenonT(60) DEF BusyStep
<1>9. Gone' = Gone BY <1>1, Zenon DEF Gone
<1>10. CallStep(c, m) BY <1>1, <1>2, <1>5, <1>6, <1>9, Mounting DEF CallStep, MountsInv, MountsTypeOK
<1>11. AloneInv'
  <2>1. ASSUME ~overlapped, NEW n \in MountNos, NEW k \in Kinds, Left(n, k)'
        PROVE  call'[c].n = n /\ Holds(call'[c].todo, <<k, n>>)
    <3>1. Left(n, k) BY <1>1, <2>1, Zenon DEF Left
    <3>2. call[c].pc \in {"mount", "cleanup"} BY <1>1, Zenon
    <3>3. call[c].n = n BY <2>1, <3>1, <3>2, Zenon DEF MountsInv, AloneInv
    <3>4. n = m /\ k \in up BY <1>2, <3>1, <3>3, Zenon DEF Left
    <3> QED BY <1>4, <1>6, <3>4, Zenon
  <2>2. call'[c].pc # "unmount" /\ call'[c].pc # "idle" BY <1>6, Zenon
  <2> QED BY <1>8, <2>1, <2>2, BusyAlone, Zenon
<1>12. HandInv' BY <1>8, BusyHand, Zenon
<1>13. KernelInv' BY <1>1, Zenon DEF MountsInv, KernelInv
<1>14. NumberOf(c)'
  <2>1. /\ call'[c].n \in 1..nmounts' /\ \A k \in Kinds : nm'[k] # call'[c].n
    BY <1>1, <1>2, <1>6, Mounting, ZenonT(60)
  <2>0. \A d \in MountCalls \ {c} : call[d].pc # "idle" => call[d].n # m BY <1>1, <1>2, Mounting, Zenon
  <2>2. \A d \in MountCalls : d # c /\ call'[d].pc # "idle" => call'[d].n # call'[c].n
    BY <1>5, <1>6, <2>0, Zenon
  <2>3. call'[c].pc \notin {"idle", "mount"} /\ call'[c].pc # "unmount" BY <1>6, Zenon
  <2> QED BY <2>1, <2>2, <2>3, Zenon DEF NumberOf
<1>15. DoneOf(c)' BY <1>6, Zenon DEF DoneOf
<1>16. m \in registered \cup openRoots => "ipns" \in up
  <2>1. DoneOf(c) /\ "ipns" \in Kinds BY MountsAssumption, Zenon DEF MountsInv, DoneInv
  <2> QED BY <1>1, <1>2, <2>1, Zenon DEF DoneOf
<1>17. CleanOf(c)'
  <2>1. ASSUME NEW k \in Kinds, Holds(t, <<k, m>>) PROVE st'[<<m, k>>] # "none"
    <3>1. PICK j \in up : <<k, m>> = <<j, m>> BY <1>4, <2>1, Zenon
    <3> QED BY <1>1, <3>1, Zenon
  <2>2. m \in registered' \cup openRoots' => Holds(t, <<"ipns", m>>) BY <1>1, <1>4, <1>16, ZenonT(60)
  <2> QED BY <1>6, <2>1, <2>2, Zenon DEF CleanOf
<1>18. GoodList(call'[c].todo, Mine(c)', Gone', registered')
  <2>1. Mine(c)' = m BY <1>6, Zenon DEF Mine
  <2>2. ASSUME NEW i \in DOMAIN t PROVE t[i][1] \in Kinds /\ t[i][2] = m
    <3>1. Holds(t, t[i]) BY Zenon DEF Holds
    <3>2. PICK k \in up : t[i] = <<k, m>> BY <1>4, <3>1, Zenon
    <3> QED BY <3>2
  <2>3. \A i \in DOMAIN t : t[i][1] # "unregister" /\ t[i][1] # "close" BY <2>2, MountsAssumption, Zenon
  <2> QED BY <1>6, <2>1, <2>2, <2>3, Zenon DEF GoodList
<1>19. call'[c].pc # "idle" BY <1>6, Zenon
<1>20. Left(m, "ipns")' => m \in registered' /\ m \in openRoots'
  BY <1>1, Zenon DEF Left, MountsInv, RootInv
<1>21. openRoots' = openRoots BY <1>1, Zenon
<1> QED BY <1>7, <1>10, <1>11, <1>12, <1>13, <1>14, <1>15, <1>17, <1>18, <1>19, <1>20, <1>21, CallKeeps, Zenon

\* The clean-up is over.
LEMMA MountRefusedKeeps ==
  ASSUME MountsInv, NEW c \in MountCalls, MountRefused(c) PROVE MountsInv'
<1>1. /\ call[c].pc = "cleanup" /\ call[c].todo = <<>> /\ call' = [call EXCEPT ![c] = NoMount]
      /\ UNCHANGED <<st, once, stuck, outside, nm, registered, openRoots, down, names, overlapped, nmounts>>
  BY Zenon DEF MountRefused, kernel, roots
<1>2. PICK m \in MountNos : call[c].n = m BY <1>1, Mounting, Zenon
<1>3. /\ call'[c].pc = "idle" /\ call'[c].todo = <<>>
      /\ \A d \in MountCalls \ {c} : call'[d] = call[d]
  BY <1>1, Zenon DEF MountsInv, MountsTypeOK, NoMount
<1>5. MountsTypeOK'
  <2>1. NoMount \in [pc : MountPhases, n : 0..MaxMounts, done : SUBSET MountSteps, err : BOOLEAN,
                     todo : Seq(Items)]
    BY IdleTyped, Zenon
  <2>2. call' \in [MountCalls -> [pc : MountPhases, n : 0..MaxMounts, done : SUBSET MountSteps,
                                  err : BOOLEAN, todo : Seq(Items)]]
    BY <1>1, <2>1, Zenon DEF MountsInv, MountsTypeOK
  <2> QED BY <1>1, <2>2, ZenonT(60) DEF MountsInv, MountsTypeOK
<1>6. BusyStep(c) BY <1>1, <1>3, Zenon DEF BusyStep
<1>7. Gone' = Gone BY <1>1, Zenon DEF Gone
<1>8. CallStep(c, m)
  <2>1. /\ \A d \in MountCalls \ {c} : call[d].pc # "idle" => call[d].n # m
        /\ nmounts <= nmounts' /\ call[c].todo = <<>> /\ call[c].n = m
    <3>1. call[c].pc # "idle" /\ nmounts' = nmounts /\ call[c].todo = <<>> BY <1>1, Zenon
    <3>2. nmounts <= nmounts BY DEF MountsInv, MountsTypeOK
    <3>3. \A d \in MountCalls \ {c} : call[d].pc # "idle" => call[d].n # call[c].n
      BY <3>1, Mounting, Zenon
    <3> QED BY <1>2, <3>1, <3>2, <3>3, Zenon
  <2>2. /\ UNCHANGED <<once, stuck, outside>> /\ down' = down /\ nm' = nm /\ st' = st
        /\ registered' = registered /\ openRoots' = openRoots
    BY <1>1, Zenon
  <2> QED BY <1>3, <1>7, <2>1, <2>2, Zenon DEF CallStep
<1>9. AloneInv'
  <2>1. ASSUME ~overlapped, NEW n \in MountNos, NEW k \in Kinds, Left(n, k)' PROVE FALSE
    <3>1. Left(n, k) BY <1>1, <2>1, Zenon DEF Left
    <3>2. Holds(call[c].todo, <<k, n>>) BY <1>1, <2>1, <3>1, Zenon DEF MountsInv, AloneInv
    <3> QED BY <1>1, <3>2, HoldsNothing, Zenon
  <2>2. call'[c].pc # "unmount" BY <1>3, Zenon
  <2> QED BY <1>6, <2>1, <2>2, BusyAlone, Zenon
<1>10. HandInv' BY <1>6, BusyHand, Zenon
<1>11. KernelInv' BY <1>1, Zenon DEF MountsInv, KernelInv
<1>12. NumberOf(c)' BY <1>3, Zenon DEF NumberOf
<1>13. DoneOf(c)' /\ CleanOf(c)' BY <1>3, ZenonT(60) DEF DoneOf, CleanOf
<1>14. GoodList(call'[c].todo, Mine(c)', Gone', registered') BY <1>3, EmptyGood, Zenon
<1>15. m \notin registered \cup openRoots
  <2>1. CleanOf(c) BY Zenon DEF MountsInv, CleanInv
  <2> QED BY <1>1, <1>2, <2>1, HoldsNothing, Zenon DEF CleanOf
<1>16. m \notin registered' \cup openRoots' /\ openRoots' = openRoots BY <1>1, <1>15, Zenon
<1>17. Left(m, "ipns")' => m \in registered' /\ m \in openRoots'
  BY <1>1, Zenon DEF Left, MountsInv, RootInv
<1> QED BY <1>5, <1>8, <1>9, <1>10, <1>11, <1>12, <1>13, <1>14, <1>16, <1>17, CallKeeps, Zenon

\* The list with which Unmount(node) begins.
LEMMA NodeList ==
  /\ NodeUnmounts \in Seq(Items)
  /\ \A k \in Kinds : Holds(NodeUnmounts, <<k, 0>>)
  /\ \A gone, reg : GoodList(NodeUnmounts, 0, gone, reg)
<1>1. 0 \in 0..MaxMounts /\ Kinds \in SUBSET Kinds BY MountsAssumption
<1>2. /\ NodeUnmounts \in Seq(Items)
      /\ \A x : Holds(NodeUnmounts, x) <=> \E k \in Kinds : x = <<k, 0>>
  BY <1>1, InOrderList, Zenon DEF NodeUnmounts
<1>3. ASSUME NEW i \in DOMAIN NodeUnmounts
      PROVE  NodeUnmounts[i][1] \in Kinds /\ NodeUnmounts[i][2] = 0
  <2>1. Holds(NodeUnmounts, NodeUnmounts[i]) BY Zenon DEF Holds
  <2>2. PICK k \in Kinds : NodeUnmounts[i] = <<k, 0>> BY <1>2, <2>1, Zenon
  <2> QED BY <2>2
<1>4. \A i \in DOMAIN NodeUnmounts : NodeUnmounts[i][1] # "unregister" /\ NodeUnmounts[i][1] # "close"
  BY <1>3, MountsAssumption, Zenon
<1>5. \A gone, reg : GoodList(NodeUnmounts, 0, gone, reg) BY <1>3, <1>4, Zenon DEF GoodList
<1>6. \A k \in Kinds : Holds(NodeUnmounts, <<k, 0>>) BY <1>2, Zenon
<1> QED BY <1>2, <1>5, <1>6, Zenon

\* A request begins: its number is new.
LEMMA MountBeginKeeps ==
  ASSUME MountsInv, NEW c \in MountCalls, MountBegin(c) PROVE MountsInv'
<1> DEFINE r == [NoMount EXCEPT !.pc = "unmount", !.n = nmounts + 1, !.todo = NodeUnmounts]
<1>1. /\ call[c].pc = "idle" /\ nmounts < MaxMounts /\ down.pc = "no" /\ nmounts' = nmounts + 1
      /\ call' = [call EXCEPT ![c] = r] /\ hand' = [hand EXCEPT !.raced = TRUE]
      /\ UNCHANGED <<st, once, stuck, outside, nm, registered, openRoots, down, old, raced, handLost>>
  BY Zenon DEF MountBegin, kernel, roots, Busy
<1>2. nmounts + 1 \in MountNos /\ nmounts \in Nat BY <1>1, MountsAssumption DEF MountsInv, MountsTypeOK, MountNos
<1>3. PICK m \in MountNos : m = nmounts + 1 BY <1>2, Zenon
<1>4. /\ r.pc = "unmount" /\ r.n = m /\ r.todo = NodeUnmounts /\ r.done = {}
      /\ r \in [pc : MountPhases, n : 0..MaxMounts, done : SUBSET MountSteps, err : BOOLEAN, todo : Seq(Items)]
  <2>1. m \in 0..MaxMounts BY MountsAssumption DEF MountNos
  <2>2. NodeUnmounts \in Seq(Items) BY NodeList, Zenon
  <2> QED BY <1>3, <2>1, <2>2, ZenonT(60) DEF NoMount, MountPhases
<1> HIDE DEF r
<1>5. call'[c] = r /\ \A d \in MountCalls \ {c} : call'[d] = call[d]
  BY <1>1, Zenon DEF MountsInv, MountsTypeOK
<1>6. /\ \A k \in Kinds : st[<<m, k>>] = "none" /\ nm[k] # m
      /\ m \notin registered \cup openRoots
      /\ \A d \in MountCalls : call[d].pc # "idle" => call[d].n # m
  <2>1. \A n \in 0..nmounts : n # m BY <1>2, <1>3
  <2>2. \A k \in Kinds : st[<<m, k>>] = "none" /\ nm[k] # m
    BY <1>2, <1>3 DEF MountsInv, MountsTypeOK, KernelInv
  <2>3. m \notin registered \cup openRoots BY <1>2, <1>3 DEF MountsInv, KernelInv
  <2>4. \A d \in MountCalls : call[d].pc # "idle" => call[d].n # m
    BY <1>2, <2>1 DEF MountsInv, NumberInv, NumberOf
  <2> QED BY <2>2, <2>3, <2>4, Zenon
<1>7. MountsTypeOK'
  <2>1. call' \in [MountCalls -> [pc : MountPhases, n : 0..MaxMounts, done : SUBSET MountSteps,
                                  err : BOOLEAN, todo : Seq(Items)]]
    BY <1>1, <1>4, Zenon DEF MountsInv, MountsTypeOK
  <2>2. nmounts' \in 0..MaxMounts BY <1>1, <1>2, MountsAssumption DEF MountNos
  <2> QED BY <1>1, <2>1, <2>2, Zenon DEF MountsInv, MountsTypeOK
<1>8. Gone' = Gone BY <1>1, Zenon DEF Gone
<1>9. CallStep(c, m)
  <2>1. call[c].todo = <<>> BY <1>1, Zenon DEF MountsInv, NumberInv, NumberOf
  <2> QED BY <1>1, <1>2, <1>4, <1>5, <1>6, <1>8, <2>1 DEF CallStep
<1>10. KernelInv' BY <1>1, <1>2 DEF MountsInv, KernelInv, MountsTypeOK, MountNos
<1>11. NumberOf(c)'
  <2>1. call'[c].n \in 1..nmounts' /\ \A k \in Kinds : nm'[k] # call'[c].n
    <3>1. call'[c].n = m /\ nm' = nm BY <1>1, <1>4, <1>5, Zenon
    <3>2. m \in 1..nmounts' BY <1>1, <1>2, <1>3
    <3> QED BY <1>6, <3>1, <3>2, ZenonT(60)
  <2>2. \A d \in MountCalls : d # c /\ call'[d].pc # "idle" => call'[d].n # call'[c].n
    BY <1>4, <1>5, <1>6, SMTT(60)
  <2>3. call'[c].pc \notin {"idle", "mount"} /\ call'[c].done = {} BY <1>4, <1>5, Zenon
  <2> QED BY <2>1, <2>2, <2>3, Zenon DEF NumberOf
<1>12. DoneOf(c)'
  <2>1. call'[c].n = m /\ call'[c].done = {} BY <1>4, <1>5, Zenon
  <2>2. /\ \A k \in Kinds : st'[<<m, k>>] = "none" /\ st'[<<m, k>>] # "down" /\ k \notin call'[c].done
        /\ m \notin openRoots' /\ m \notin registered'
        /\ "load" \notin call'[c].done /\ "register" \notin call'[c].done /\ "ipns" \notin call'[c].done
    BY <1>1, <1>6, <2>1, Zenon
  <2> QED BY <2>1, <2>2, Zenon DEF DoneOf
<1>13. CleanOf(c)' BY <1>4, <1>5, Zenon DEF CleanOf
<1>14. GoodList(call'[c].todo, Mine(c)', Gone', registered')
  <2>1. Mine(c)' = 0 /\ call'[c].todo = NodeUnmounts BY <1>4, <1>5, Zenon DEF Mine
  <2> QED BY <2>1, NodeList, Zenon
<1>15. AloneInv'
  <2> SUFFICES ASSUME ~overlapped' PROVE AloneInv' BY Zenon DEF AloneInv
  <2>1. ~overlapped /\ Busy = {} BY Zenon DEF MountBegin
  <2>2. \A d \in MountCalls : call[d].pc = "idle" BY <2>1, Zenon DEF Busy
  <2>3. \A d \in MountCalls \ {c} : call'[d].pc = "idle" BY <1>5, <2>2, Zenon
  <2>4. call'[c].pc = "unmount" /\ call'[c].todo = NodeUnmounts /\ down'.pc = "no" BY <1>1, <1>4, <1>5, Zenon
  <2>5. ASSUME NEW n \in MountNos, NEW k \in Kinds, Left(n, k)'
        PROVE  nm'[k] = n /\ Holds(call'[c].todo, <<k, 0>>)
    <3>1. Left(n, k) BY <1>1, <2>5, Zenon DEF Left
    <3>2. nm[k] = n BY <2>1, <2>2, <2>5, <3>1, Zenon DEF MountsInv, AloneInv
    <3>3. nm' = nm BY <1>1, Zenon
    <3> QED BY <2>4, <3>2, <3>3, NodeList, Zenon
  <2>6. call'[c].pc \notin {"mount", "cleanup", "idle"} /\ down'.pc # "closing" /\ down'.pc # "done" BY <2>4, Zenon
  <2>7. \A d \in MountCalls \ {c} : call'[d].pc \notin {"unmount", "mount", "cleanup"} BY <2>3, Zenon
  <2> QED BY <2>3, <2>4, <2>5, <2>6, <2>7, Zenon DEF AloneInv
<1>16. HandInv'
  <2>1. hand' \in [pc : {"idle", "allowed"}, raced : BOOLEAN] /\ hand'.raced = TRUE
    BY <1>1, ZenonT(60) DEF MountsInv, HandInv
  <2> QED BY <1>1, <2>1, Zenon DEF MountsInv, HandInv
<1>17. m \notin registered' \cup openRoots' BY <1>1, <1>6, Zenon
<1>18. Left(m, "ipns")' => m \in registered' /\ m \in openRoots'
  BY <1>1, <1>6, MountsAssumption, Zenon DEF Left
<1> QED BY <1>7, <1>9, <1>10, <1>11, <1>12, <1>13, <1>14, <1>15, <1>16, <1>17, <1>18, CallKeeps, Zenon

-----------------------------------------------------------------------------
(* The world and the shutdown *)

\* A mount is unmounted from outside.
LEMMA UnmountOutsideKeeps ==
  ASSUME MountsInv, NEW o \in Objs, UnmountOutside(o) PROVE MountsInv'
<1>0. PICK m \in MountNos, j \in Kinds : o = <<m, j>> BY DEF Objs
<1>1. /\ st[<<m, j>>] = "up" /\ st' = [st EXCEPT ![<<m, j>>] = "down"] /\ outside' = outside \cup {<<m, j>>}
      /\ UNCHANGED <<once, stuck, nm, registered, openRoots, call, down, names, overlapped, nmounts>>
  BY <1>0, Zenon DEF UnmountOutside, Up, roots
<1>2. /\ st' \in [Objs -> {"none", "up", "down"}] /\ st'[<<m, j>>] = "down"
      /\ \A n \in MountNos, k \in Kinds : n # m \/ k # j => st'[<<n, k>>] = st[<<n, k>>]
  BY <1>1, Zenon DEF MountsInv, MountsTypeOK, Objs
<1>3. \A n \in MountNos, k \in Kinds :
        /\ st'[<<n, k>>] = "none" <=> st[<<n, k>>] = "none"
        /\ st'[<<n, k>>] = "up" => st[<<n, k>>] = "up"
        /\ st'[<<n, k>>] = "down" => st[<<n, k>>] = "down" \/ <<n, k>> \in outside'
        /\ st[<<n, k>>] = "up" => st'[<<n, k>>] = "up" \/ <<n, k>> \in outside'
  BY <1>1, <1>2, ZenonT(60)
<1>4. "ipns" \in Kinds BY MountsAssumption, Zenon
<1>5. Gone \subseteq Gone'
  <2>1. ASSUME NEW n \in MountNos, st[<<n, "ipns">>] = "down" PROVE st'[<<n, "ipns">>] = "down"
    BY <1>1, <1>2, <1>4, <2>1, Zenon
  <2> QED BY <1>1, <2>1, Zenon DEF Gone
<1>6. \A n \in MountNos, k \in Kinds : Left(n, k)' => Left(n, k)
  BY <1>1, <1>3, Zenon DEF Left
<1>t. MountsTypeOK'
  BY <1>0, <1>1, <1>2, ZenonT(60) DEF MountsInv, MountsTypeOK
<1>l. ListInv'
  <2>0. call' = call /\ down' = down /\ registered' = registered BY <1>1, Zenon
  <2>1. ASSUME NEW d \in MountCalls PROVE GoodList(call'[d].todo, Mine(d)', Gone', registered')
    <3>1. GoodList(call[d].todo, Mine(d), Gone, registered) BY Zenon DEF MountsInv, ListInv
    <3>2. registered \cap Gone \subseteq registered BY Zenon
    <3>3. GoodList(call[d].todo, Mine(d), Gone', registered) BY <1>5, <3>1, <3>2, GoodStays, Zenon
    <3>4. Mine(d)' = Mine(d) BY <2>0, Zenon DEF Mine
    <3> QED BY <2>0, <3>3, <3>4, Zenon
  <2>2. GoodList(down'.todo, 0, Gone', registered')
    <3>1. GoodList(down.todo, 0, Gone, registered) BY Zenon DEF MountsInv, ListInv
    <3>2. registered \cap Gone \subseteq registered BY Zenon
    <3>3. GoodList(down.todo, 0, Gone', registered) BY <1>5, <3>1, <3>2, GoodStays, Zenon
    <3> QED BY <2>0, <3>3, Zenon
  <2>3. down'.pc # "closing" => down'.todo = <<>> BY <2>0, Zenon DEF MountsInv, ListInv
  <2> QED BY <2>1, <2>2, <2>3, Zenon DEF ListInv
<1>k. KernelInv'
  <2>1. ASSUME NEW n \in MountNos, NEW k \in Kinds
        PROVE  /\ <<n, k>> \in once' \cup stuck' \cup outside' => st'[<<n, k>>] # "none"
               /\ <<n, k>> \in once' /\ st'[<<n, k>>] = "up" => <<n, k>> \in stuck'
               /\ st'[<<n, k>>] # "none" => n <= nmounts'
    BY <1>1, <1>3, Zenon DEF MountsInv, KernelInv
  <2> QED BY <1>1, <2>1, Zenon DEF MountsInv, KernelInv
<1>n. NumberInv' BY <1>1, Zenon DEF MountsInv, NumberInv, NumberOf
<1>7. ASSUME NEW d \in MountCalls, call[d].pc # "idle" PROVE call[d].n \in MountNos
  BY <1>7, Mounting, Zenon
<1>d. DoneInv'
  <2>1. ASSUME NEW d \in MountCalls PROVE DoneOf(d)'
    <3> SUFFICES ASSUME call[d].pc \in {"unmount", "mount"} PROVE DoneOf(d)' BY <1>1, Zenon DEF DoneOf
    <3>1. call[d].n \in MountNos /\ DoneOf(d) BY <1>7, Zenon DEF MountsInv, DoneInv
    <3>2. ASSUME NEW k \in Kinds
          PROVE  /\ k \notin call[d].done => st'[<<call[d].n, k>>] = "none"
                 /\ st'[<<call[d].n, k>>] = "down" => <<call[d].n, k>> \in outside'
      BY <1>1, <1>3, <3>1, ZenonT(60) DEF DoneOf
    <3>3. ASSUME NEW k \in Kinds, ~call[d].err, k \in call[d].done PROVE st'[<<call[d].n, k>>] # "none"
      <4>1. st[<<call[d].n, k>>] # "none" BY <3>1, <3>3, Zenon DEF DoneOf
      <4> QED BY <1>3, <3>1, <4>1, ZenonT(60)
    <3>4. call' = call /\ registered' = registered /\ openRoots' = openRoots BY <1>1, ZenonT(60)
    <3>5. /\ "load" \notin call[d].done => call[d].n \notin openRoots' /\ "register" \notin call[d].done
          /\ "register" \notin call[d].done => call[d].n \notin registered' /\ "ipns" \notin call[d].done
          /\ "load" \in call[d].done /\ "ipns" \notin call[d].done => call[d].n \in openRoots'
          /\ "register" \in call[d].done /\ "ipns" \notin call[d].done => call[d].n \in registered'
          /\ "ipns" \in call[d].done /\ call[d].n \in registered' \cup openRoots' =>
               st'[<<call[d].n, "ipns">>] # "none"
      BY <1>3, <1>4, <3>1, <3>4, ZenonT(60) DEF DoneOf
    <3> QED BY <3>2, <3>3, <3>4, <3>5, Zenon DEF DoneOf
  <2> QED BY <2>1, Zenon DEF DoneInv
<1>c. CleanInv'
  <2>1. ASSUME NEW d \in MountCalls, call[d].pc = "cleanup", NEW k \in Kinds, Holds(call[d].todo, <<k, call[d].n>>)
        PROVE  st'[<<call[d].n, k>>] # "none"
    <3>1. st[<<call[d].n, k>>] # "none" BY <2>1, Zenon DEF MountsInv, CleanInv, CleanOf
    <3>2. call[d].n \in MountNos BY <1>7, <2>1, Zenon
    <3> QED BY <1>3, <3>1, <3>2, ZenonT(60)
  <2>2. call' = call /\ registered' = registered /\ openRoots' = openRoots BY <1>1, Zenon
  <2> QED BY <2>1, <2>2, Zenon DEF MountsInv, CleanInv, CleanOf
<1>r. RootInv'
  <2>0. /\ call' = call /\ down' = down /\ registered' = registered /\ openRoots' = openRoots /\ stuck' = stuck
        /\ outside \subseteq outside'
    BY <1>1, Zenon
  <2>1. ASSUME NEW n, Closes(n) PROVE Closes(n)' BY <2>0, <2>1, Zenon DEF Closes
  <2>2. ASSUME NEW n \in registered \cup openRoots
        PROVE  \/ st'[<<n, "ipns">>] = "up" \/ <<n, "ipns">> \in outside' \/ Closes(n)'
               \/ \E d \in MountCalls : call'[d].pc # "idle" /\ call'[d].n = n
    <3>1. n \in MountNos BY Zenon DEF MountsInv, MountsTypeOK
    <3>2. CASE st[<<n, "ipns">>] = "up" BY <1>3, <1>4, <3>1, <3>2, Zenon
    <3>3. CASE <<n, "ipns">> \in outside BY <2>0, <3>3, ZenonT(60)
    <3>4. CASE Closes(n) BY <2>1, <3>4, Zenon
    <3>5. CASE \E d \in MountCalls : call[d].pc # "idle" /\ call[d].n = n BY <2>0, <3>5, ZenonT(60)
    <3> QED BY <3>2, <3>3, <3>4, <3>5, Zenon DEF MountsInv, RootInv
  <2>3. ASSUME NEW n \in MountNos, st'[<<n, "ipns">>] = "up", <<n, "ipns">> \notin stuck
        PROVE  n \in registered /\ n \in openRoots
    BY <1>3, <1>4, <2>3, Zenon DEF MountsInv, RootInv
  <2>4. ASSUME NEW n \in openRoots, <<n, "ipns">> \in stuck PROVE Closes(n)'
    BY <2>1, <2>4, Zenon DEF MountsInv, RootInv
  <2> QED BY <2>0, <2>2, <2>3, <2>4, Zenon DEF RootInv
<1>a. AloneInv'
  <2>1. call' = call /\ down' = down /\ nm' = nm /\ overlapped' = overlapped BY <1>1, Zenon
  <2> SUFFICES ASSUME ~overlapped PROVE AloneInv' BY <2>1, Zenon DEF AloneInv
  <2>2. /\ \A c, d \in MountCalls : call[c].pc # "idle" /\ call[d].pc # "idle" => c = d
        /\ \A c \in MountCalls : call[c].pc # "idle" => down.pc = "no"
    BY Zenon DEF MountsInv, AloneInv
  <2>3. ASSUME NEW n \in MountNos, NEW k \in Kinds, Left(n, k)'
        PROVE  /\ \A c \in MountCalls :
                    /\ call[c].pc = "unmount" => nm[k] = n /\ Holds(call[c].todo, <<k, 0>>)
                    /\ call[c].pc \in {"mount", "cleanup"} => call[c].n = n
                    /\ call[c].pc = "cleanup" => Holds(call[c].todo, <<k, n>>)
               /\ (\A c \in MountCalls : call[c].pc = "idle") => nm[k] = n
               /\ down.pc = "closing" => Holds(down.todo, <<k, 0>>)
               /\ down.pc # "done"
    <3>1. Left(n, k) BY <1>6, <2>3, Zenon
    <3> QED BY <3>1, Zenon DEF MountsInv, AloneInv
  <2>4. /\ \A c, d \in MountCalls : call'[c].pc # "idle" /\ call'[d].pc # "idle" => c = d
        /\ \A c \in MountCalls : call'[c].pc # "idle" => down'.pc = "no"
    BY <2>1, <2>2, Zenon
  <2>5. ASSUME NEW n \in MountNos, NEW k \in Kinds, Left(n, k)'
        PROVE  /\ \A c \in MountCalls :
                    /\ call'[c].pc = "unmount" => nm'[k] = n /\ Holds(call'[c].todo, <<k, 0>>)
                    /\ call'[c].pc \in {"mount", "cleanup"} => call'[c].n = n
                    /\ call'[c].pc = "cleanup" => Holds(call'[c].todo, <<k, n>>)
               /\ (\A c \in MountCalls : call'[c].pc = "idle") => nm'[k] = n
               /\ down'.pc = "closing" => Holds(down'.todo, <<k, 0>>)
               /\ down'.pc # "done"
    BY <2>1, <2>3, <2>5, Zenon
  <2> QED BY <2>4, <2>5, Zenon DEF AloneInv
<1>h. HandInv'
  <2>1. UNCHANGED <<hand, old, raced, handLost, call, down, nm>> /\ outside \subseteq outside' BY <1>1, Zenon DEF names
  <2>2. Up(<<nm["ipns"], "ipns">>)' => Up(<<nm["ipns"], "ipns">>)
    <3>1. nm["ipns"] # 0 => nm["ipns"] \in MountNos
      BY <1>4, MountsAssumption DEF MountsInv, MountsTypeOK, MountNos
    <3> QED BY <1>3, <1>4, <2>1, <3>1, ZenonT(60) DEF Up
  <2>3. hand.pc = "allowed" /\ ~hand.raced => ~Up(<<nm["ipns"], "ipns">>)
    BY Zenon DEF MountsInv, HandInv
  <2>4. ~raced' => \A n \in old' : <<n, "ipns">> \in outside'
    BY <2>1, ZenonT(60) DEF MountsInv, HandInv
  <2>5. hand'.pc = "allowed" /\ ~hand'.raced =>
          /\ \A c \in MountCalls : call'[c].pc = "idle"
          /\ down'.pc # "closing" /\ ~Up(<<nm["ipns"], "ipns">>)'
    BY <2>1, <2>2, <2>3, Zenon DEF MountsInv, HandInv
  <2>6. ~handLost' /\ hand' \in [pc : {"idle", "allowed"}, raced : BOOLEAN] /\ old' \subseteq MountNos
    BY <2>1, Zenon DEF MountsInv, HandInv
  <2> QED BY <2>4, <2>5, <2>6, Zenon DEF HandInv
<1> QED BY <1>t, <1>l, <1>k, <1>n, <1>d, <1>c, <1>r, <1>a, <1>h, Zenon DEF MountsInv

\* The shutdown begins or ends.
LEMMA ShutKeeps ==
  ASSUME MountsInv, HandInv', AloneInv',
         UNCHANGED <<kernel, nm, registered, openRoots, call, nmounts>>,
         down' \in [pc : {"no", "closing", "done"}, todo : Seq(Items)],
         GoodList(down'.todo, 0, Gone, registered),
         down'.pc # "closing" => down'.todo = <<>>, down.todo = <<>>
  PROVE  MountsInv'
<1> USE DEF kernel
<1>1. MountsTypeOK' BY ZenonT(60) DEF MountsInv, MountsTypeOK
<1>2. ListInv'
  <2>1. Gone' = Gone /\ registered' = registered /\ call' = call BY Zenon DEF Gone
  <2>2. \A d \in MountCalls : Mine(d)' = Mine(d) BY <2>1, Zenon DEF Mine
  <2> QED BY <2>1, <2>2, Zenon DEF MountsInv, ListInv
<1>3. KernelInv' BY ZenonT(60) DEF MountsInv, KernelInv
<1>4. NumberInv' BY Zenon DEF MountsInv, NumberInv, NumberOf
<1>5. DoneInv' BY Zenon DEF MountsInv, DoneInv, DoneOf
<1>6. CleanInv' BY Zenon DEF MountsInv, CleanInv, CleanOf, Holds
<1>7. RootInv'
  <2>1. \A n : Closes(n) => Closes(n)' BY HoldsNothing, Zenon DEF Closes
  <2> QED BY <2>1, ZenonT(60) DEF MountsInv, RootInv
<1> QED BY <1>1, <1>2, <1>3, <1>4, <1>5, <1>6, <1>7, ZenonT(60) DEF MountsInv

LEMMA ShutBeginKeeps ==
  ASSUME MountsInv, ShutBegin PROVE MountsInv'
<1>1. /\ down.pc = "no" /\ down' = [pc |-> "closing", todo |-> NodeUnmounts]
      /\ hand' = [hand EXCEPT !.raced = TRUE]
      /\ UNCHANGED <<kernel, nm, registered, openRoots, call, old, raced, handLost, nmounts>>
  BY Zenon DEF ShutBegin, roots
<1>2. down.todo = <<>> BY <1>1, Zenon DEF MountsInv, ListInv
<1>3. down' \in [pc : {"no", "closing", "done"}, todo : Seq(Items)] /\ down'.pc = "closing" /\ down'.todo = NodeUnmounts
  BY <1>1, NodeList, Zenon
<1>4. GoodList(down'.todo, 0, Gone, registered) BY <1>3, NodeList, Zenon
<1>5. HandInv'
  <2>1. hand' \in [pc : {"idle", "allowed"}, raced : BOOLEAN] /\ hand'.raced = TRUE
    BY <1>1, ZenonT(60) DEF MountsInv, HandInv
  <2> QED BY <1>1, <2>1, Zenon DEF MountsInv, HandInv, kernel
<1>6. AloneInv'
  <2> SUFFICES ASSUME ~overlapped' PROVE AloneInv' BY Zenon DEF AloneInv
  <2>1. ~overlapped /\ Busy = {} BY Zenon DEF ShutBegin
  <2>2. \A d \in MountCalls : call[d].pc = "idle" BY <2>1, Zenon DEF Busy
  <2>3. \A d \in MountCalls : call'[d].pc = "idle" /\ call'[d].pc \notin {"unmount", "mount", "cleanup"}
    BY <1>1, <2>2, Zenon
  <2>5. ASSUME NEW n \in MountNos, NEW k \in Kinds, Left(n, k)'
        PROVE  nm'[k] = n /\ Holds(down'.todo, <<k, 0>>)
    <3>1. Left(n, k) BY <1>1, <2>5, Zenon DEF Left, kernel
    <3>2. nm[k] = n BY <2>1, <2>2, <2>5, <3>1, Zenon DEF MountsInv, AloneInv
    <3>3. nm' = nm BY <1>1, Zenon
    <3> QED BY <1>3, <3>2, <3>3, NodeList, Zenon
  <2>6. down'.pc # "done" BY <1>3, Zenon
  <2> QED BY <2>3, <2>5, <2>6, ZenonT(60) DEF AloneInv
<1>7. UNCHANGED <<kernel, nm, registered, openRoots, call, nmounts>> BY <1>1, Zenon
<1> QED BY <1>2, <1>3, <1>4, <1>5, <1>6, <1>7, ShutKeeps, Zenon

LEMMA ShutEndKeeps ==
  ASSUME MountsInv, ShutEnd PROVE MountsInv'
<1>1. /\ down.pc = "closing" /\ down.todo = <<>> /\ down' = [down EXCEPT !.pc = "done"]
      /\ UNCHANGED <<kernel, nm, registered, openRoots, call, names, overlapped, nmounts>>
  BY Zenon DEF ShutEnd, roots
<1>2. /\ down' \in [pc : {"no", "closing", "done"}, todo : Seq(Items)]
      /\ down'.pc = "done" /\ down'.todo = <<>>
  BY <1>1, ZenonT(60) DEF MountsInv, MountsTypeOK
<1>3. GoodList(down'.todo, 0, Gone, registered) BY <1>2, EmptyGood, Zenon
<1>4. HandInv'
  <2>1. ~(hand.pc = "allowed" /\ ~hand.raced) BY <1>1, Zenon DEF MountsInv, HandInv
  <2> QED BY <1>1, <2>1, Zenon DEF MountsInv, HandInv, kernel, names
<1>5. AloneInv'
  <2> SUFFICES ASSUME ~overlapped' PROVE AloneInv' BY Zenon DEF AloneInv
  <2>0. ~overlapped /\ down.pc # "no" BY <1>1, Zenon
  <2>1. \A d \in MountCalls : call[d].pc = "idle" BY <2>0, Zenon DEF MountsInv, AloneInv
  <2>2. ASSUME NEW n \in MountNos, NEW k \in Kinds, Left(n, k)' PROVE FALSE
    <3>1. Left(n, k) BY <1>1, <2>2, Zenon DEF Left, kernel
    <3>2. Holds(down.todo, <<k, 0>>) BY <1>1, <2>0, <2>2, <3>1, Zenon DEF MountsInv, AloneInv
    <3> QED BY <1>1, <3>2, HoldsNothing, Zenon
  <2>3. \A d \in MountCalls : call'[d].pc = "idle" BY <1>1, <2>1, Zenon
  <2> QED BY <2>2, <2>3, Zenon DEF AloneInv
<1>6. UNCHANGED <<kernel, nm, registered, openRoots, call, nmounts>> BY <1>1, Zenon
<1>7. down'.pc # "closing" => down'.todo = <<>> BY <1>2, Zenon
<1> QED BY <1>1, <1>2, <1>3, <1>4, <1>5, <1>6, <1>7, ShutKeeps, Zenon

-----------------------------------------------------------------------------
(* The theorem *)

LEMMA MountsInitially == ASSUME MountsInit PROVE MountsInv
<1> USE DEF MountsInit, NoMount
<1>1. MountsTypeOK
  <2>1. NoMount \in [pc : MountPhases, n : 0..MaxMounts, done : SUBSET MountSteps, err : BOOLEAN,
                     todo : Seq(Items)]
    <3>1. 0 \in 0..MaxMounts /\ <<>> \in Seq(Items) /\ "idle" \in MountPhases
      BY MountsAssumption DEF MountPhases
    <3> QED BY <3>1, ZenonT(60)
  <2> HIDE DEF NoMount
  <2>2. call \in [MountCalls -> [pc : MountPhases, n : 0..MaxMounts, done : SUBSET MountSteps,
                                 err : BOOLEAN, todo : Seq(Items)]]
    BY <2>1, Zenon
  <2> QED BY <2>2, MountsAssumption, SMTT(60) DEF MountsTypeOK
<1>2. \A c \in MountCalls : call[c].pc = "idle" /\ call[c].todo = <<>> BY Zenon
<1>3. down.todo = <<>> /\ down.pc = "no" BY ZenonT(60)
<1>4. \A n \in MountNos, k \in Kinds : st[<<n, k>>] = "none" BY Zenon DEF Objs
<1>5. ListInv BY <1>2, <1>3, EmptyGood, Zenon DEF ListInv
<1>6. KernelInv
  <2>1. \A k \in Kinds : nm[k] = 0 /\ nmounts = 0 BY Zenon
  <2>2. once \cup stuck \cup outside = {} /\ registered \cup openRoots = {} BY Zenon
  <2> QED BY <1>4, <2>1, <2>2, SMTT(60) DEF KernelInv
<1>7. NumberInv /\ DoneInv /\ CleanInv
  BY <1>2, ZenonT(60) DEF NumberInv, NumberOf, DoneInv, DoneOf, CleanInv, CleanOf
<1>8. RootInv
  <2>1. "ipns" \in Kinds BY MountsAssumption, Zenon
  <2> QED BY <1>4, <2>1, ZenonT(60) DEF RootInv
<1>9. AloneInv
  <2>1. \A n \in MountNos, k \in Kinds : ~Left(n, k) BY <1>4, ZenonT(60) DEF Left
  <2> QED BY <1>2, <2>1, Zenon DEF AloneInv
<1>10. HandInv BY <1>2, <1>3, MountsAssumption, Zenon DEF HandInv, Up
<1> QED BY <1>1, <1>5, <1>6, <1>7, <1>8, <1>9, <1>10, Zenon DEF MountsInv

LEMMA MountsInductive == MountsSpec => []MountsInv
<1>1. MountsInit => MountsInv BY MountsInitially, Zenon
<1>2. ASSUME MountsInv, MountsNext PROVE MountsInv'
  <2>1. ASSUME NEW c \in MountCalls,
               \/ MountBegin(c) \/ MountUnmounts(c) \/ MountStart(c)
               \/ MountLoad(c) \/ MountLoadFails(c) \/ MountRegister(c)
               \/ \E k \in Kinds : MountUp(c, k) \/ MountFails(c, k)
               \/ MountSet(c) \/ MountCleanUp(c) \/ MountRefused(c)
        PROVE  MountsInv'
    BY <1>2, <2>1, MountBeginKeeps, MountUnmountsKeeps, MountStartKeeps, MountLoadKeeps, MountLoadFailsKeeps,
       MountRegisterKeeps, MountUpKeeps, MountFailsKeeps, MountSetKeeps, MountCleanUpKeeps, MountRefusedKeeps, Zenon
  <2>2. ASSUME NEW o \in Objs, UnmountOutside(o) PROVE MountsInv' BY <1>2, <2>2, UnmountOutsideKeeps, Zenon
  <2>3. ASSUME NEW n \in MountNos, WriteUnder(n) \/ RootPublish(n) PROVE MountsInv'
    BY <1>2, <2>3, WriteUnderKeeps, RootPublishKeeps, Zenon
  <2>4. ASSUME HandCheck \/ HandPublish \/ ShutBegin \/ ShutUnmounts \/ ShutEnd PROVE MountsInv'
    BY <1>2, <2>4, HandCheckKeeps, HandPublishKeeps, ShutBeginKeeps, ShutUnmountsKeeps, ShutEndKeeps, Zenon
  <2> QED BY <1>2, <2>1, <2>2, <2>3, <2>4, Zenon DEF MountsNext
<1>3. ASSUME MountsInv, UNCHANGED mountVars PROVE MountsInv'
  <2>1. UNCHANGED <<kernel, nm, registered, openRoots, call, down, names, overlapped, nmounts>>
    BY <1>3, Zenon DEF mountVars, roots
  <2>2. HandInv' BY <1>3, <2>1, Zenon DEF MountsInv, HandInv, Up, kernel, names
  <2> QED BY <1>3, <2>1, <2>2, WorldKeeps, Zenon
<1> QED BY <1>1, <1>2, <1>3, PTL DEF MountsSpec

\* Mounting and unmounting, from `ipfs mount`, from the daemon and at its shutdown,
\* wherever they fail and however they interleave, keep every root that programs
\* write to open and known to the collector, release every other, leave no mount
\* behind that node.Mounts or a request does not name, and overwrite no name that
\* was published by hand while nothing was mounting: for every number of requests,
\* mounts and failures.
THEOREM MountsAreSafe == MountsSpec => []MountsSafe
<1>1. ASSUME MountsInv PROVE MountsSafe
  <2>0. "ipns" \in Kinds /\ \A n \in MountNos : n # 0 BY MountsAssumption DEF MountNos
  <2>1. RootsGuarded BY <1>1, Zenon DEF RootsGuarded, Up, MountsInv, RootInv
  <2>2. RootsReleased
    <3>1. ASSUME NEW n \in registered \cup openRoots
          PROVE  Up(<<n, "ipns">>) \/ InHand(n) \/ Closing(n) \/ <<n, "ipns">> \in outside
      <4>1. n # 0 BY <1>1, <2>0, Zenon DEF MountsInv, MountsTypeOK
      <4>2. CASE st[<<n, "ipns">>] = "up" BY <4>1, <4>2, Zenon DEF Up
      <4>3. CASE <<n, "ipns">> \in outside BY <4>3, Zenon
      <4>4. CASE Closes(n)
        <5>1. CASE Holds(down.todo, <<"close", n>>) BY <5>1, Zenon DEF Closing, Holds
        <5>2. ASSUME NEW c \in MountCalls, Holds(call[c].todo, <<"close", n>>) PROVE Closing(n)
          <6>1. call[c].todo # <<>> BY <5>2, HoldsNothing, Zenon
          <6>2. c \in Busy BY <1>1, <6>1, Zenon DEF MountsInv, NumberInv, NumberOf, Busy
          <6> QED BY <5>2, <6>2, Zenon DEF Closing, Holds
        <5> QED BY <4>4, <5>1, <5>2, Zenon DEF Closes
      <4>5. CASE \E c \in MountCalls : call[c].pc # "idle" /\ call[c].n = n
        BY <4>5, Zenon DEF InHand, Busy
      <4> QED BY <1>1, <4>2, <4>3, <4>4, <4>5, Zenon DEF MountsInv, RootInv
    <3> QED BY <3>1, Zenon DEF RootsReleased
  <2>3. NoOrphans
    <3>1. ASSUME ~overlapped, NEW n \in MountNos, NEW k \in Kinds, Up(<<n, k>>), <<n, k>> \notin stuck
          PROVE  nm[k] = n \/ InHand(n)
      <4>1. Left(n, k) BY <3>1, Zenon DEF Up, Left
      <4>2. CASE \A c \in MountCalls : call[c].pc = "idle"
        BY <1>1, <3>1, <4>1, <4>2, Zenon DEF MountsInv, AloneInv
      <4>3. ASSUME NEW c \in MountCalls, call[c].pc # "idle" PROVE nm[k] = n \/ InHand(n)
        <5>1. call[c].pc = "unmount" \/ call[c].pc \in {"mount", "cleanup"}
          BY <1>1, <4>3, Zenon DEF MountsInv, MountsTypeOK, MountPhases
        <5>2. call[c].pc = "unmount" => nm[k] = n
          BY <1>1, <3>1, <4>1, ZenonT(60) DEF MountsInv, AloneInv
        <5>3. call[c].pc \in {"mount", "cleanup"} => call[c].n = n
          BY <1>1, <3>1, <4>1, Zenon DEF MountsInv, AloneInv
        <5> QED BY <4>3, <5>1, <5>2, <5>3, Zenon DEF InHand, Busy
      <4> QED BY <4>2, <4>3, Zenon
    <3>2. ASSUME ~overlapped, NEW o \in Objs, Up(o) PROVE nm[o[2]] = o[1] \/ InHand(o[1]) \/ o \in stuck
      <4>1. PICK n \in MountNos, k \in Kinds : o = <<n, k>> BY DEF Objs
      <4>2. o[1] = n /\ o[2] = k BY <4>1, Zenon
      <4> QED BY <3>1, <3>2, <4>1, <4>2, Zenon
    <3> QED BY <3>2, Zenon DEF NoOrphans
  <2>4. HandKept BY <1>1, Zenon DEF HandKept, MountsInv, HandInv
  <2>5. ShutUnmounted
    <3>1. ASSUME down.pc = "done", ~overlapped, NEW o \in Objs, Up(o) PROVE o \in stuck
      <4>1. PICK n \in MountNos, k \in Kinds : o = <<n, k>> BY DEF Objs
      <4>2. ~Left(n, k) BY <1>1, <3>1, Zenon DEF MountsInv, AloneInv
      <4> QED BY <3>1, <4>1, <4>2, Zenon DEF Up, Left
    <3> QED BY <3>1, Zenon DEF ShutUnmounted
  <2> QED BY <2>1, <2>2, <2>3, <2>4, <2>5, Zenon DEF MountsSafe
<1> QED BY <1>1, MountsInductive, PTL
=============================================================================
