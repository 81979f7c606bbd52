--------------------------- MODULE BindingsProofs ---------------------------
(***************************************************************************)
(* The C bindings (Bindings), for any number of threads and any bounds on  *)
(* handles: every opened repo counts one reference for each node, watcher  *)
(* and run on it, and for each call that has opened it and not yet ended,  *)
(* until one of them closes twice.                                         *)
(***************************************************************************)
EXTENDS Bindings, FiniteSetTheorems, TLAPS

\* Everything that can hold a reference, and what holds one on the opened repo g.
Pool == ({"call"} \X Callers) \cup ({"node"} \X (1..MaxHandles))
          \cup ({"watch"} \X (1..MaxOthers)) \cup ({"run"} \X (1..MaxOthers))

Holds(u, g) ==
  \/ u[1] = "call" /\ fcall[u[2]].at = "opened" /\ fcall[u[2]].arg = g
  \/ u[1] = "node" /\ u[2] \in DOMAIN fnode /\ fnode[u[2]].gen = g /\ fnode[u[2]].closes = 0
  \/ u[1] = "watch" /\ u[2] \in DOMAIN fwatch /\ fwatch[u[2]].gen = g /\ fwatch[u[2]].at # "done"
  \/ u[1] = "run" /\ u[2] \in DOMAIN fruns /\ fruns[u[2]] = g

Users(g) == {u \in Pool : Holds(u, g)}

\* The count of an opened repo against the n users it has: exact until one of them
\* closes twice, and never more than there are.
GenFits(b, n) ==
  /\ b.open => 0 < b.refs /\ b.refs <= n
  /\ ~b.twice => b.refs = n /\ (b.open \/ n = 0)

Gens == [repo : FRepos, refs : 0..RefWrap-1, open : BOOLEAN, twice : BOOLEAN]
Nodes == [gen : Nat, closes : {0, 1}, cur : Nat, conf : BOOLEAN]
Watchers == [gen : Nat, at : {"loop", "cancelled", "done"}]
Listeners == [node : Nat, kind : {"api", "gateway"}, conf : BOOLEAN,
              at : {"listening", "serving", "idle", "closed"}, auth : BOOLEAN]

SeqsOK ==
  /\ fgen \in Seq(Gens)
  /\ fnode \in Seq(Nodes) /\ Len(fnode) <= MaxHandles
  /\ fwatch \in Seq(Watchers) /\ Len(fwatch) <= MaxOthers
  /\ fruns \in Seq(Nat) /\ Len(fruns) <= MaxOthers

\* What refers to an opened repo or to a node refers to one there is.
PointsOK ==
  /\ \A h \in 1..Len(fnode) : fnode[h].gen \in 1..Len(fgen)
  /\ \A w \in 1..Len(fwatch) : fwatch[w].gen \in 1..Len(fgen)
  /\ \A i \in 1..Len(fruns) : fruns[i] \in 1..Len(fgen)

CallsOK ==
  /\ DOMAIN fcall = Callers
  /\ \A c \in Callers :
       /\ DOMAIN fcall[c] = {"op", "arg", "at", "ok"}
       /\ fcall[c].op \in {"idle", "ended", "start", "watch", "stop", "set", "serve", "use", "unwatch"}
       /\ fcall[c].at = "opened" <=> fcall[c].op \in {"start", "watch"}
       /\ fcall[c].op \in {"start", "watch"} => fcall[c].arg \in 1..Len(fgen)
       /\ fcall[c].op \in {"stop", "set", "serve", "use"} => fcall[c].arg \in 1..Len(fnode)
       /\ fcall[c].op = "unwatch" => fcall[c].arg \in 1..Len(fwatch)

\* A handle is in the table, in the hands of one call that stops it, or stopped.
StopInv ==
  /\ fvalid \subseteq 1..Len(fnode)
  /\ \A h \in fvalid : fnode[h].closes = 0
  /\ \A c \in Callers : fcall[c].op = "stop" => fcall[c].arg \notin fvalid /\ fnode[fcall[c].arg].closes = 0
  /\ \A c, d \in Callers : fcall[c].op = "stop" /\ fcall[d].op = "stop" /\ fcall[c].arg = fcall[d].arg => c = d

WatchInv == \A w \in fwvalid : w \in 1..Len(fwatch) /\ fwatch[w].at = "loop"

GenInv ==
  /\ \A g \in 1..Len(fgen) : GenFits(fgen[g], Cardinality(Users(g)))
  /\ \A g, k \in 1..Len(fgen) : fgen[g].open /\ fgen[k].open /\ fgen[g].repo = fgen[k].repo => g = k

TabInv ==
  /\ DOMAIN ftab = Tables
  /\ \A k \in Tables :
       /\ DOMAIN ftab[k] = {"next", "live", "closes"}
       /\ ftab[k].next \in Nat \ {0} /\ ftab[k].closes \in Seq({0, 1}) /\ Len(ftab[k].closes) = ftab[k].next - 1
       /\ ftab[k].live \subseteq 1..Len(ftab[k].closes)
       /\ \A h \in ftab[k].live : ftab[k].closes[h] = 0

GateInv ==
  /\ flis \in Seq(Listeners)
  /\ \A l \in 1..Len(flis) :
       /\ flis[l].node \in 1..Len(fnode)
       /\ flis[l].conf => fnode[flis[l].node].conf
       /\ flis[l].kind = "gateway" /\ flis[l].at = "serving" /\ flis[l].conf => flis[l].auth

CrateInv == fcrate \in [Crates -> {"none", "good", "unknown"}]

BindInv == SeqsOK /\ PointsOK /\ CallsOK /\ StopInv /\ WatchInv /\ GenInv /\ TabInv /\ GateInv /\ CrateInv

-----------------------------------------------------------------------------
(* Sequences and sets *)

LEMMA RangeIn == ASSUME NEW n \in Nat, NEW m \in Nat, n <= m PROVE 1..n \subseteq 1..m
OBVIOUS

LEMMA RangeNat == ASSUME NEW n \in Nat PROVE 1..n \subseteq Nat
OBVIOUS

LEMMA RangeGrows == ASSUME NEW n \in Nat PROVE 1..(n + 1) = (1..n) \cup {n + 1}
OBVIOUS

LEMMA AppendIs ==
  ASSUME NEW S, NEW q \in Seq(S), NEW e \in S
  PROVE  /\ Append(q, e) \in Seq(S) /\ Len(Append(q, e)) = Len(q) + 1
         /\ \A k \in 1..Len(q) : Append(q, e)[k] = q[k]
         /\ Append(q, e)[Len(q) + 1] = e
OBVIOUS

LEMMA ExceptIs ==
  ASSUME NEW S, NEW q \in Seq(S), NEW i \in 1..Len(q), NEW e \in S
  PROVE  /\ [q EXCEPT ![i] = e] \in Seq(S) /\ Len([q EXCEPT ![i] = e]) = Len(q)
         /\ [q EXCEPT ![i] = e][i] = e
         /\ \A k \in 1..Len(q) : k # i => [q EXCEPT ![i] = e][k] = q[k]
OBVIOUS

LEMMA FunctionIs ==
  ASSUME NEW S, NEW n \in Nat, NEW f \in [1..n -> S]
  PROVE  f \in Seq(S) /\ Len(f) = n
OBVIOUS

LEMMA PoolFits == IsFiniteSet(Pool) /\ Cardinality(Pool) < RefWrap
<1>1. ASSUME NEW S, NEW t, IsFiniteSet(S)
      PROVE  IsFiniteSet({t} \X S) /\ Cardinality({t} \X S) = Cardinality(S)
  <2>1. IsFiniteSet({t}) /\ Cardinality({t}) = 1 BY FS_Singleton, ZenonT(60)
  <2>2. IsFiniteSet({t} \X S) /\ Cardinality({t} \X S) = Cardinality({t}) * Cardinality(S) BY <1>1, <2>1, FS_Product, Zenon
  <2>3. Cardinality(S) \in Nat BY <1>1, FS_CardinalityType, Zenon
  <2> QED BY <2>1, <2>2, <2>3
<1>2. ASSUME NEW S, NEW T, IsFiniteSet(S), IsFiniteSet(T)
      PROVE  IsFiniteSet(S \cup T) /\ Cardinality(S \cup T) <= Cardinality(S) + Cardinality(T)
  <2>1. IsFiniteSet(S \cup T) /\ Cardinality(S \cup T) = Cardinality(S) + Cardinality(T) - Cardinality(S \cap T)
    BY <1>2, FS_Union, Zenon
  <2>2. IsFiniteSet(S \cap T) BY <1>2, FS_Intersection, Zenon
  <2>3. Cardinality(S \cap T) \in Nat /\ Cardinality(S) \in Nat /\ Cardinality(T) \in Nat BY <1>2, <2>2, FS_CardinalityType, Zenon
  <2> QED BY <2>1, <2>3
<1>3. ASSUME NEW n \in Nat PROVE IsFiniteSet(1..n) /\ Cardinality(1..n) = n BY FS_Interval
<1> DEFINE A == {"call"} \X Callers
           B == {"node"} \X (1..MaxHandles)
           C == {"watch"} \X (1..MaxOthers)
           D == {"run"} \X (1..MaxOthers)
<1>4. IsFiniteSet(A) /\ Cardinality(A) = Cardinality(Callers) BY <1>1, BindingsAssumption, Zenon
<1>5. IsFiniteSet(B) /\ Cardinality(B) = MaxHandles BY <1>1, <1>3, BindingsAssumption, ZenonT(60)
<1>6. IsFiniteSet(C) /\ Cardinality(C) = MaxOthers BY <1>1, <1>3, BindingsAssumption, ZenonT(60)
<1>7. IsFiniteSet(D) /\ Cardinality(D) = MaxOthers BY <1>1, <1>3, BindingsAssumption, ZenonT(60)
<1>8. Pool = ((A \cup B) \cup C) \cup D BY Zenon DEF Pool
<1> HIDE DEF A, B, C, D
<1>9. IsFiniteSet(A \cup B) /\ Cardinality(A \cup B) <= Cardinality(A) + Cardinality(B) BY <1>2, <1>4, <1>5, Zenon
<1>10. /\ IsFiniteSet((A \cup B) \cup C)
       /\ Cardinality((A \cup B) \cup C) <= Cardinality(A \cup B) + Cardinality(C) BY <1>2, <1>6, <1>9, Zenon
<1>11. IsFiniteSet(Pool) /\ Cardinality(Pool) <= Cardinality((A \cup B) \cup C) + Cardinality(D)
  BY <1>2, <1>7, <1>8, <1>10, Zenon
<1>12. /\ Cardinality(A \cup B) \in Nat /\ Cardinality((A \cup B) \cup C) \in Nat /\ Cardinality(Pool) \in Nat
       /\ Cardinality(Callers) \in Nat
  BY <1>9, <1>10, <1>11, BindingsAssumption, FS_CardinalityType, Zenon
<1> QED BY <1>4, <1>5, <1>6, <1>7, <1>9, <1>10, <1>11, <1>12, BindingsAssumption

LEMMA SomeUsers ==
  ASSUME NEW S, S \subseteq Pool PROVE IsFiniteSet(S) /\ Cardinality(S) \in Nat /\ Cardinality(S) < RefWrap
<1>1. IsFiniteSet(S) /\ Cardinality(S) <= Cardinality(Pool) BY PoolFits, FS_Subset, Zenon
<1>2. Cardinality(S) \in Nat /\ Cardinality(Pool) \in Nat BY <1>1, PoolFits, FS_CardinalityType, Zenon
<1> QED BY <1>1, <1>2, PoolFits, BindingsAssumption

LEMMA UsersFinite ==
  ASSUME NEW g PROVE IsFiniteSet(Users(g)) /\ Cardinality(Users(g)) \in Nat /\ Cardinality(Users(g)) < RefWrap
BY SomeUsers, Zenon DEF Users

LEMMA CountGains ==
  ASSUME NEW S, NEW u, IsFiniteSet(S), u \notin S
  PROVE  Cardinality(S \cup {u}) = Cardinality(S) + 1
BY FS_AddElement, Zenon

LEMMA CountLoses ==
  ASSUME NEW S, NEW u, IsFiniteSet(S), u \in S
  PROVE  Cardinality(S \ {u}) = Cardinality(S) - 1 /\ Cardinality(S) > 0
<1>1. Cardinality(S \ {u}) = Cardinality(S) - 1 /\ IsFiniteSet(S \ {u}) BY FS_RemoveElement, Zenon
<1>2. Cardinality(S \ {u}) \in Nat /\ Cardinality(S) \in Nat BY <1>1, FS_CardinalityType, Zenon
<1> QED BY <1>1, <1>2

LEMMA ModType == ASSUME NEW N \in Nat \ {0}, NEW x \in Nat PROVE x % N \in 0..N-1
BY SMT
LEMMA ModSmall == ASSUME NEW N \in Nat \ {0}, NEW x \in 0..N-1 PROVE x % N = x
BY SMT
LEMMA ModDown ==
  ASSUME NEW N \in Nat \ {0}, NEW x \in 0..N-1
  PROVE  (x + N - 1) % N = IF x = 0 THEN N - 1 ELSE x - 1
BY SMT

LEMMA WrapType == RefWrap \in Nat \ {0}
<1>1. Cardinality(Callers) \in Nat BY BindingsAssumption, FS_CardinalityType, Zenon
<1> QED BY <1>1, BindingsAssumption

\* A close by one user, and a second one by the same.
LEMMA CloseFits ==
  ASSUME NEW b \in Gens, NEW n \in Nat, n > 0, n < RefWrap, GenFits(b, n),
         NEW d \in Gens, d.refs = (b.refs + RefWrap - 1) % RefWrap, d.open <=> b.open /\ d.refs > 0,
         d.twice <=> b.twice
  PROVE  GenFits(d, n - 1)
<1>1. b.refs \in 0..RefWrap-1 /\ b.open \in BOOLEAN /\ b.twice \in BOOLEAN BY Zenon DEF Gens
<1>2. d.refs = IF b.refs = 0 THEN RefWrap - 1 ELSE b.refs - 1 BY <1>1, ModDown, WrapType, Zenon
<1>3. d.open => 0 < d.refs /\ d.refs <= n - 1 BY <1>1, <1>2 DEF GenFits
<1>4. ~d.twice => d.refs = n - 1 /\ (d.open \/ n - 1 = 0) BY <1>1, <1>2 DEF GenFits
<1> QED BY <1>3, <1>4, Zenon DEF GenFits

LEMMA CloseTwiceFits ==
  ASSUME NEW b \in Gens, NEW n \in Nat, n > 0, n < RefWrap, GenFits(b, n),
         NEW k \in 0..RefWrap-1, k = (b.refs + RefWrap - 1) % RefWrap,
         NEW d \in Gens, d.refs = (k + RefWrap - 1) % RefWrap, d.open <=> (b.open /\ k > 0) /\ d.refs > 0,
         d.twice
  PROVE  GenFits(d, n - 1)
<1>1. b.refs \in 0..RefWrap-1 /\ b.open \in BOOLEAN BY Zenon DEF Gens
<1>2. k = IF b.refs = 0 THEN RefWrap - 1 ELSE b.refs - 1 BY <1>1, ModDown, WrapType, ZenonT(60)
<1>3. d.refs = IF k = 0 THEN RefWrap - 1 ELSE k - 1 BY ModDown, WrapType, Zenon
<1>4. d.open => 0 < d.refs /\ d.refs <= n - 1 BY <1>1, <1>2, <1>3 DEF GenFits
<1> QED BY <1>4, Zenon DEF GenFits

\* An open by one more user.
LEMMA OpenFits ==
  ASSUME NEW b \in Gens, NEW n \in Nat, n + 1 < RefWrap, GenFits(b, n), b.open,
         NEW d \in Gens, d.refs = (b.refs + 1) % RefWrap, d.open <=> b.open, d.twice <=> b.twice
  PROVE  GenFits(d, n + 1)
<1>1. b.refs \in 0..RefWrap-1 /\ b.refs <= n /\ 0 < b.refs BY Zenon DEF Gens, GenFits
<1>2. d.refs = b.refs + 1 BY <1>1, ModSmall, WrapType
<1> QED BY <1>1, <1>2 DEF GenFits

-----------------------------------------------------------------------------
LEMMA BindSafely == BindInv => BindingsSafe
<1> SUFFICES ASSUME BindInv PROVE BindingsSafe BY Zenon
<1>0. /\ fgen \in Seq(Gens) /\ fnode \in Seq(Nodes) /\ fwatch \in Seq(Watchers) /\ fruns \in Seq(Nat) /\ flis \in Seq(Listeners)
      /\ Len(fnode) <= MaxHandles /\ Len(fwatch) <= MaxOthers /\ Len(fruns) <= MaxOthers
  BY Zenon DEF BindInv, SeqsOK, GateInv
<1>d. /\ DOMAIN fgen = 1..Len(fgen) /\ DOMAIN fnode = 1..Len(fnode) /\ DOMAIN fwatch = 1..Len(fwatch)
      /\ DOMAIN fruns = 1..Len(fruns) /\ DOMAIN flis = 1..Len(flis)
  BY <1>0
<1>1. StoppedOnce
  <2>1. \A h \in DOMAIN fnode : fnode[h].closes <= 1
    <3>1. ASSUME NEW h \in DOMAIN fnode PROVE fnode[h] \in Nodes BY <1>0
    <3> QED BY <3>1 DEF Nodes
  <2>2. ASSUME NEW k \in Tables, NEW h \in DOMAIN ftab[k].closes PROVE ftab[k].closes[h] <= 1
    <3>1. PICK q : q = ftab[k].closes BY Zenon
    <3>2. q \in Seq({0, 1}) /\ h \in DOMAIN q BY <3>1, <2>2, Zenon DEF BindInv, TabInv
    <3>3. q[h] \in {0, 1} BY <3>2
    <3> QED BY <3>1, <3>3
  <2> QED BY <2>1, <2>2, Zenon DEF StoppedOnce
<1>2. RepoKept
  <2>1. SUFFICES ASSUME NEW h \in DOMAIN fnode, fnode[h].closes = 0, ~fgen[fnode[h].gen].twice
                 PROVE  fgen[fnode[h].gen].open
    BY Zenon DEF RepoKept
  <2>2. PICK g : g = fnode[h].gen BY Zenon
  <2>3. g \in 1..Len(fgen) /\ GenFits(fgen[g], Cardinality(Users(g))) BY <1>d, <2>2, Zenon DEF BindInv, PointsOK, GenInv
  <2>4. <<"node", h>> \in Users(g) BY <1>0, <1>d, <2>1, <2>2, BindingsAssumption DEF Users, Pool, Holds
  <2>5. Cardinality(Users(g)) > 0 BY <2>4, UsersFinite, CountLoses, ZenonT(60)
  <2> QED BY <2>1, <2>2, <2>3, <2>5 DEF GenFits
<1>3. RepoReleased
  <2>1. SUFFICES ASSUME NEW g \in DOMAIN fgen,
                        \A c \in Callers : fcall[c].op \in {"idle", "ended"},
                        \A h \in DOMAIN fnode : fnode[h].gen = g => fnode[h].closes > 0,
                        \A w \in DOMAIN fwatch : fwatch[w].gen = g => fwatch[w].at = "done",
                        \A i \in DOMAIN fruns : fruns[i] # g
                 PROVE  ~fgen[g].open
    BY Zenon DEF RepoReleased
  <2>2. \A c \in Callers : fcall[c].at # "opened" BY <2>1, Zenon DEF BindInv, CallsOK
  <2>3. Users(g) = {} BY <2>1, <2>2 DEF Users, Holds, Pool
  <2>4. Cardinality(Users(g)) = 0 BY <2>3, FS_EmptySet, Zenon
  <2>5. fgen[g] \in Gens /\ GenFits(fgen[g], Cardinality(Users(g))) BY <1>0, <1>d DEF BindInv, GenInv
  <2> QED BY <2>4, <2>5 DEF GenFits, Gens
<1>4. GatewayGuarded BY <1>d, Zenon DEF BindInv, GateInv, GatewayGuarded
<1>5. CrateVerified BY Zenon DEF BindInv, CrateInv, CrateVerified
<1> QED BY <1>1, <1>2, <1>3, <1>4, <1>5, Zenon DEF BindingsSafe

LEMMA BindInitially == BindingsInit => BindInv
<1> SUFFICES ASSUME BindingsInit PROVE BindInv BY Zenon
<1> USE DEF BindingsInit
<1>1. SeqsOK BY BindingsAssumption DEF SeqsOK
<1>2. PointsOK BY DEF PointsOK
<1>3. CallsOK BY Zenon DEF CallsOK, AtRest
<1>4. StopInv BY Zenon DEF StopInv, AtRest
<1>5. GenInv /\ WatchInv BY DEF GenInv, WatchInv
<1>6. TabInv
  <2>1. PICK r : r = [next |-> 1, live |-> {}, closes |-> <<>>] BY ZenonT(60)
  <2>2. /\ DOMAIN r = {"next", "live", "closes"} /\ r.next = 1 /\ r.live = {} /\ r.closes \in Seq({0, 1}) /\ Len(r.closes) = 0
    BY <2>1
  <2>3. DOMAIN ftab = Tables /\ \A k \in Tables : ftab[k] = r BY <2>1, Zenon
  <2> QED BY <2>2, <2>3 DEF TabInv
<1>7. GateInv BY DEF GateInv
<1>8. CrateInv BY Zenon DEF CrateInv
<1> QED BY <1>1, <1>2, <1>3, <1>4, <1>5, <1>6, <1>7, <1>8, Zenon DEF BindInv

-----------------------------------------------------------------------------
(* What a step does to the users of the opened repos *)

LEMMA SameUsers ==
  ASSUME \A u \in Pool, k \in Nat : Holds(u, k)' <=> Holds(u, k)
  PROVE  \A k \in Nat : Users(k)' = Users(k)
BY Zenon DEF Users

LEMMA UsersGain ==
  ASSUME NEW v \in Pool, NEW g \in Nat, \A k \in Nat : ~Holds(v, k),
         \A u \in Pool, k \in Nat : Holds(u, k)' <=> Holds(u, k) \/ (u = v /\ k = g)
  PROVE  /\ \A k \in Nat : k # g => Users(k)' = Users(k)
         /\ Users(g)' = Users(g) \cup {v} /\ v \notin Users(g)
BY Zenon DEF Users

LEMMA UsersLose ==
  ASSUME NEW v \in Pool, NEW g \in Nat, Holds(v, g),
         \A u \in Pool, k \in Nat : Holds(u, k)' <=> Holds(u, k) /\ ~(u = v /\ k = g)
  PROVE  /\ \A k \in Nat : k # g => Users(k)' = Users(k)
         /\ Users(g)' = Users(g) \ {v} /\ v \in Users(g)
BY Zenon DEF Users

LEMMA Domains ==
  ASSUME BindInv
  PROVE  /\ DOMAIN fgen = 1..Len(fgen) /\ Len(fgen) \in Nat /\ DOMAIN fnode = 1..Len(fnode) /\ Len(fnode) \in Nat
         /\ DOMAIN fwatch = 1..Len(fwatch) /\ Len(fwatch) \in Nat /\ DOMAIN fruns = 1..Len(fruns) /\ Len(fruns) \in Nat
BY DEF BindInv, SeqsOK

LEMMA GensStay ==
  ASSUME BindInv, fgen' = fgen, \A k \in Nat : Cardinality(Users(k))' = Cardinality(Users(k))
  PROVE  GenInv'
<1>1. \A g \in 1..Len(fgen) : Cardinality(Users(g)') = Cardinality(Users(g)) OBVIOUS
<1> QED BY <1>1, Zenon DEF BindInv, GenInv, GenFits

LEMMA GensOpen ==
  ASSUME BindInv, NEW r \in FRepos, NEW v, NEW g, g = OpenedGen(r), fgen' = Opened(r),
         \A k \in Nat : k # g => Users(k)' = Users(k),
         Users(g)' = Users(g) \cup {v}, v \notin Users(g)
  PROVE  /\ fgen' \in Seq(Gens) /\ Len(fgen') \in Nat /\ Len(fgen') >= Len(fgen) /\ g \in 1..Len(fgen')
         /\ GenInv'
<1>0. fgen \in Seq(Gens) /\ DOMAIN fgen = 1..Len(fgen) /\ Len(fgen) \in Nat BY DEF BindInv, SeqsOK
<1>c. Cardinality(Users(g)') = Cardinality(Users(g)) + 1 /\ Cardinality(Users(g)) \in Nat /\ Cardinality(Users(g)') < RefWrap
  <2>1. IsFiniteSet(Users(g)) /\ Cardinality(Users(g)) \in Nat BY UsersFinite, Zenon
  <2>2. Cardinality(Users(g) \cup {v}) = Cardinality(Users(g)) + 1 BY <2>1, CountGains, Zenon
  <2>3. Users(g)' \subseteq Pool BY Zenon DEF Users
  <2>4. Cardinality(Users(g)') < RefWrap BY <2>3, SomeUsers, Zenon
  <2> QED BY <2>1, <2>2, <2>4, Zenon
<1>1. CASE ActiveGen(r) # {}
  <2>1. g \in 1..Len(fgen) /\ fgen[g].repo = r /\ fgen[g].open BY <1>0, <1>1, Zenon DEF OpenedGen, ActiveGen
  <2>2. ActiveGen(r) = {g} BY <1>0, <2>1, Zenon DEF ActiveGen, BindInv, GenInv
  <2>3. PICK d : d = [fgen[g] EXCEPT !.refs = (fgen[g].refs + 1) % RefWrap] BY ZenonT(60)
  <2>4. fgen[g] \in Gens BY <1>0, <2>1
  <2>5. (fgen[g].refs + 1) % RefWrap \in 0..RefWrap-1
    <3>1. fgen[g].refs + 1 \in Nat BY <2>4, BindingsAssumption DEF Gens
    <3> QED BY <3>1, ModType, WrapType, Zenon
  <2>6. d \in Gens /\ d.refs = (fgen[g].refs + 1) % RefWrap /\ d.open = fgen[g].open /\ d.twice = fgen[g].twice /\ d.repo = r
    BY <2>1, <2>3, <2>4, <2>5, ZenonT(60) DEF Gens
  <2>7. fgen' = [k \in 1..Len(fgen) |-> IF k = g THEN d ELSE fgen[k]] BY <1>0, <1>1, <2>2, <2>3, Zenon DEF Opened
  <2>8. fgen' \in [1..Len(fgen) -> Gens] BY <1>0, <2>6, <2>7
  <2>9. fgen' \in Seq(Gens) /\ Len(fgen') = Len(fgen) BY <1>0, <2>8, FunctionIs, Zenon
  <2>10. fgen'[g] = d /\ \A k \in 1..Len(fgen) : k # g => fgen'[k] = fgen[k] BY <2>1, <2>7, Zenon
  <2>11. GenFits(d, Cardinality(Users(g)'))
    <3>1. GenFits(fgen[g], Cardinality(Users(g))) BY <2>1, Zenon DEF BindInv, GenInv
    <3> QED BY <1>c, <2>1, <2>4, <2>6, <3>1, OpenFits, ZenonT(60)
  <2>12. \A k \in 1..Len(fgen) : k # g => GenFits(fgen[k], Cardinality(Users(k)')) BY <1>0 DEF BindInv, GenInv
  <2>13. \A k \in 1..Len(fgen) : (fgen'[k].open <=> fgen[k].open) /\ fgen'[k].repo = fgen[k].repo BY <2>1, <2>6, <2>10, ZenonT(60)
  <2>14. GenInv'
    <3>1. \A k \in 1..Len(fgen) : GenFits(fgen'[k], Cardinality(Users(k)')) BY <2>10, <2>11, <2>12, ZenonT(60)
    <3>2. \A a, b \in 1..Len(fgen) : fgen'[a].open /\ fgen'[b].open /\ fgen'[a].repo = fgen'[b].repo => a = b
      BY <2>13, Zenon DEF BindInv, GenInv
    <3>3. \A k \in 1..Len(fgen) : GenFits(fgen[k], Cardinality(Users(k)))' BY <3>1, Zenon DEF GenFits
    <3> QED BY <2>9, <3>2, <3>3, Zenon DEF GenInv
  <2> QED BY <1>0, <2>1, <2>9, <2>14
<1>2. CASE ActiveGen(r) = {}
  <2>1. PICK d : d = [repo |-> r, refs |-> 1, open |-> TRUE, twice |-> FALSE] BY ZenonT(60)
  <2>2. g = Len(fgen) + 1 /\ fgen' = Append(fgen, d) BY <1>2, <2>1, Zenon DEF Opened, OpenedGen
  <2>3. Users(g) = {} /\ Cardinality(Users(g)) = 0
    <3>1. \A u \in Pool : ~Holds(u, g)
      <4>1. \A c \in Callers : fcall[c].at = "opened" => fcall[c].arg # g BY <1>0, <2>2 DEF BindInv, CallsOK
      <4>2. \A h \in DOMAIN fnode : fnode[h].gen # g BY <2>2, Domains, SMTT(60) DEF BindInv, PointsOK
      <4>3. \A h \in DOMAIN fwatch : fwatch[h].gen # g BY <2>2, Domains DEF BindInv, PointsOK
      <4>4. \A h \in DOMAIN fruns : fruns[h] # g BY <2>2, Domains DEF BindInv, PointsOK
      <4> QED BY <4>1, <4>2, <4>3, <4>4, Zenon DEF Holds, Pool
    <3>2. Users(g) = {} BY <3>1, Zenon DEF Users
    <3> QED BY <3>2, FS_EmptySet, Zenon
  <2>4. 1 \in 0..RefWrap-1 BY <1>c, <2>3, WrapType
  <2>5. d \in Gens /\ d.refs = 1 /\ d.open /\ ~d.twice /\ d.repo = r BY <2>1, <2>4, Zenon DEF Gens
  <2>6. /\ fgen' \in Seq(Gens) /\ Len(fgen') = Len(fgen) + 1 /\ fgen'[g] = d
        /\ \A k \in 1..Len(fgen) : fgen'[k] = fgen[k]
    BY <1>0, <2>2, <2>5, AppendIs
  <2>7. GenFits(d, Cardinality(Users(g)')) BY <1>c, <2>3, <2>5 DEF GenFits
  <2>8. \A k \in 1..Len(fgen) : GenFits(fgen[k], Cardinality(Users(k)')) BY <1>0, <2>2 DEF BindInv, GenInv
  <2>9. \A k \in 1..Len(fgen) : ~(fgen[k].open /\ fgen[k].repo = r) BY <1>0, <1>2, Zenon DEF ActiveGen
  <2>14. GenInv'
    <3>0. \A k \in 1..Len(fgen') : k \in 1..Len(fgen) \/ k = g BY <1>0, <2>2, <2>6
    <3>1. \A k \in 1..Len(fgen') : GenFits(fgen'[k], Cardinality(Users(k)')) BY <2>6, <2>7, <2>8, <3>0, ZenonT(60)
    <3>2. \A a, b \in 1..Len(fgen') : fgen'[a].open /\ fgen'[b].open /\ fgen'[a].repo = fgen'[b].repo => a = b
      BY <2>5, <2>6, <2>9, <3>0 DEF BindInv, GenInv
    <3>3. \A k \in 1..Len(fgen') : GenFits(fgen[k], Cardinality(Users(k)))' BY <3>1, Zenon DEF GenFits
    <3> QED BY <3>2, <3>3, Zenon DEF GenInv
  <2> QED BY <1>0, <2>2, <2>6, <2>14
<1> QED BY <1>1, <1>2, Zenon

LEMMA GensClose ==
  ASSUME BindInv, NEW g \in 1..Len(fgen), NEW v, fgen' = ClosedOnce(fgen, g) \/ fgen' = ClosedTwice(fgen, g),
         \A k \in Nat : k # g => Users(k)' = Users(k),
         Users(g)' = Users(g) \ {v}, v \in Users(g)
  PROVE  fgen' \in Seq(Gens) /\ Len(fgen') = Len(fgen) /\ GenInv'
<1>0. fgen \in Seq(Gens) /\ DOMAIN fgen = 1..Len(fgen) /\ Len(fgen) \in Nat BY DEF BindInv, SeqsOK
<1>c. /\ Cardinality(Users(g)') = Cardinality(Users(g)) - 1 /\ Cardinality(Users(g)) > 0
      /\ Cardinality(Users(g)) \in Nat /\ Cardinality(Users(g)) < RefWrap
  BY UsersFinite, CountLoses, Zenon
<1>b. fgen[g] \in Gens /\ GenFits(fgen[g], Cardinality(Users(g))) BY <1>0 DEF BindInv, GenInv
<1> DEFINE Dec(x) == (x + RefWrap - 1) % RefWrap
<1>m. ASSUME NEW x \in 0..RefWrap-1 PROVE Dec(x) \in 0..RefWrap-1
  <2>1. x + RefWrap - 1 \in Nat BY WrapType
  <2> QED BY <2>1, ModType, WrapType, ZenonT(60)
<1> HIDE DEF Dec
<1>1. \E d \in Gens : /\ fgen' = [fgen EXCEPT ![g] = d] /\ d.repo = fgen[g].repo
                      /\ GenFits(d, Cardinality(Users(g)')) /\ (d.open => fgen[g].open)
  <2>0. fgen[g].refs \in 0..RefWrap-1 /\ Dec(fgen[g].refs) \in 0..RefWrap-1 BY <1>b, <1>m, Zenon DEF Gens
  <2>d. PICK d : d = [fgen[g] EXCEPT !.refs = Dec(fgen[g].refs), !.open = @ /\ Dec(fgen[g].refs) > 0] BY Zenon
  <2>e. /\ d \in Gens /\ d.refs = Dec(fgen[g].refs) /\ (d.open <=> fgen[g].open /\ d.refs > 0)
        /\ d.twice = fgen[g].twice /\ d.repo = fgen[g].repo
    BY <1>b, <2>0, <2>d, ZenonT(60) DEF Gens
  <2>f. ClosedOnce(fgen, g) = [fgen EXCEPT ![g] = d] BY <1>0, <2>d, ZenonT(60) DEF ClosedOnce, Dec
  <2>1. CASE fgen' = ClosedOnce(fgen, g)
    <3>1. GenFits(d, Cardinality(Users(g)) - 1) BY <1>b, <1>c, <2>e, CloseFits, Zenon DEF Dec
    <3> QED BY <1>c, <2>1, <2>e, <2>f, <3>1, ZenonT(60)
  <2>2. CASE fgen' = ClosedTwice(fgen, g)
    <3>0. Dec(d.refs) \in 0..RefWrap-1 BY <1>m, <2>0, <2>e, Zenon
    <3>1. PICK q : q = [fgen EXCEPT ![g] = d] BY ZenonT(60)
    <3>2. q[g] = d /\ DOMAIN q = 1..Len(fgen) BY <1>0, <3>1, Zenon
    <3>3. PICK e : e = [d EXCEPT !.refs = Dec(d.refs), !.open = @ /\ Dec(d.refs) > 0] BY Zenon
    <3>4. ClosedOnce(q, g) = [q EXCEPT ![g] = e] BY <3>2, <3>3, ZenonT(60) DEF ClosedOnce, Dec
    <3>5. PICK f : f = [e EXCEPT !.twice = TRUE] BY ZenonT(60)
    <3>6. /\ f \in Gens /\ f.refs = Dec(d.refs) /\ (f.open <=> d.open /\ f.refs > 0) /\ f.twice /\ f.repo = fgen[g].repo
      BY <2>e, <3>0, <3>3, <3>5, ZenonT(60) DEF Gens
    <3>7. fgen' = [[q EXCEPT ![g] = e] EXCEPT ![g] = f] BY <2>2, <2>f, <3>1, <3>2, <3>4, <3>5, ZenonT(60) DEF ClosedTwice
    <3>8. fgen' = [fgen EXCEPT ![g] = f] BY <1>0, <3>1, <3>7, ZenonT(60)
    <3>9. GenFits(f, Cardinality(Users(g)) - 1)
      <4>1. PICK k : k = d.refs BY Zenon
      <4>2. k \in 0..RefWrap-1 /\ k = (fgen[g].refs + RefWrap - 1) % RefWrap BY <2>0, <2>e, <4>1, Zenon DEF Dec
      <4>3. f.refs = (k + RefWrap - 1) % RefWrap /\ (f.open <=> (fgen[g].open /\ k > 0) /\ f.refs > 0)
        BY <2>e, <3>6, <4>1, Zenon DEF Dec
      <4> QED BY <1>b, <1>c, <3>6, <4>2, <4>3, CloseTwiceFits, Zenon
    <3> QED BY <1>c, <2>e, <3>6, <3>8, <3>9, ZenonT(60)
  <2> QED BY <2>1, <2>2, ZenonT(60)
<1>2. PICK d \in Gens : /\ fgen' = [fgen EXCEPT ![g] = d] /\ d.repo = fgen[g].repo
                        /\ GenFits(d, Cardinality(Users(g)')) /\ (d.open => fgen[g].open)
  BY <1>1, ZenonT(60)
<1>3. /\ fgen' \in Seq(Gens) /\ Len(fgen') = Len(fgen) /\ fgen'[g] = d
      /\ \A k \in 1..Len(fgen) : k # g => fgen'[k] = fgen[k]
  BY <1>0, <1>2, ExceptIs
<1>4. GenInv'
  <2>1. \A k \in 1..Len(fgen) : k # g => GenFits(fgen[k], Cardinality(Users(k)')) BY <1>0 DEF BindInv, GenInv
  <2>2. \A k \in 1..Len(fgen) : GenFits(fgen'[k], Cardinality(Users(k)')) BY <1>2, <1>3, <2>1, ZenonT(60)
  <2>3. \A k \in 1..Len(fgen) : (fgen'[k].open => fgen[k].open) /\ fgen'[k].repo = fgen[k].repo BY <1>2, <1>3, Zenon
  <2>4. \A a, b \in 1..Len(fgen) : fgen'[a].open /\ fgen'[b].open /\ fgen'[a].repo = fgen'[b].repo => a = b
    BY <2>3, Zenon DEF BindInv, GenInv
  <2>5. \A k \in 1..Len(fgen) : GenFits(fgen[k], Cardinality(Users(k)))' BY <2>2, Zenon DEF GenFits
  <2> QED BY <1>3, <2>4, <2>5, Zenon DEF GenInv
<1> QED BY <1>3, <1>4, Zenon

-----------------------------------------------------------------------------
(* The calls *)

CallFields == {"op", "arg", "at", "ok"}
Quiet == {"idle", "ended", "set", "serve", "use", "unwatch"}

\* Call c goes on to r.
Goes(c, r) == fcall' = [fcall EXCEPT ![c] = r] /\ DOMAIN r = CallFields

\* A call that holds nothing goes on to where it holds nothing.
LEMMA QuietKeeps ==
  ASSUME BindInv, NEW c \in Callers, NEW r, Goes(c, r), fcall[c].op \in Quiet, r.op \in Quiet, r.at # "opened",
         r.op \in {"set", "serve", "use"} => r.arg \in 1..Len(fnode),
         r.op = "unwatch" => r.arg \in 1..Len(fwatch),
         UNCHANGED <<fgen, fruns, fvalid>>,
         fnode' \in Seq(Nodes), Len(fnode') = Len(fnode),
         \A h \in 1..Len(fnode) : fnode'[h].gen = fnode[h].gen /\ fnode'[h].closes = fnode[h].closes,
         fwatch' \in Seq(Watchers), Len(fwatch') = Len(fwatch),
         \A w \in 1..Len(fwatch) : fwatch'[w].gen = fwatch[w].gen /\ (fwatch'[w].at = "done" <=> fwatch[w].at = "done")
  PROVE  SeqsOK' /\ PointsOK' /\ CallsOK' /\ StopInv' /\ GenInv'
<1>1. DOMAIN fcall' = Callers /\ fcall'[c] = r /\ \A d \in Callers : d # c => fcall'[d] = fcall[d]
  BY Zenon DEF BindInv, CallsOK, Goes
<1>2. fcall[c].at # "opened" /\ fcall[c].op # "stop" BY Zenon DEF BindInv, CallsOK, Quiet
<1>3. SeqsOK' BY Zenon DEF BindInv, SeqsOK
<1>4. PointsOK' BY Zenon DEF BindInv, PointsOK
<1>5. CallsOK' BY <1>1, ZenonT(60) DEF BindInv, CallsOK, Quiet, Goes, CallFields
<1>6. StopInv'
  <2>1. \A d \in Callers : fcall'[d].op = "stop" => fcall[d].op = "stop" /\ fcall'[d].arg = fcall[d].arg
    BY <1>1, Zenon DEF Quiet
  <2>2. \A d \in Callers : fcall[d].op = "stop" => fcall[d].arg \in 1..Len(fnode) BY Zenon DEF BindInv, CallsOK
  <2>3. fvalid \subseteq 1..Len(fnode) BY Zenon DEF BindInv, StopInv
  <2> QED BY <2>1, <2>2, <2>3 DEF BindInv, StopInv
<1>7. GenInv'
  <2>0. DOMAIN fnode' = DOMAIN fnode /\ DOMAIN fwatch' = DOMAIN fwatch BY Domains
  <2>1. \A u \in Pool, k \in Nat : Holds(u, k)' <=> Holds(u, k) BY <1>1, <1>2, <2>0, Domains DEF Holds, Pool
  <2>2. \A k \in Nat : Users(k)' = Users(k) BY <2>1, SameUsers, Zenon
  <2> QED BY <2>2, GensStay, Zenon
<1> QED BY <1>3, <1>4, <1>5, <1>6, <1>7, Zenon

\* The end of a call.
LEMMA EndsIs ==
  ASSUME NEW c \in Callers, NEW ok, Ends(c, ok)
  PROVE  \E r : Goes(c, r) /\ r.op = "ended" /\ r.at = "none"
<1>1. PICK r : r = [op |-> "ended", arg |-> 0, at |-> "none", ok |-> ok] BY ZenonT(60)
<1>2. DOMAIN r = CallFields /\ r.op = "ended" /\ r.at = "none" BY <1>1, Zenon DEF CallFields
<1>3. fcall' = [fcall EXCEPT ![c] = r] BY <1>1, Zenon DEF Ends
<1> QED BY <1>2, <1>3, ZenonT(60) DEF Goes

LEMMA EntersIs ==
  ASSUME NEW c \in Callers, NEW op, NEW arg, NEW at, Enters(c, op, arg, at)
  PROVE  \E r : Goes(c, r) /\ r.op = op /\ r.arg = arg /\ r.at = at
<1>1. PICK r : r = [op |-> op, arg |-> arg, at |-> at, ok |-> TRUE] BY ZenonT(60)
<1>2. DOMAIN r = CallFields /\ r.op = op /\ r.arg = arg /\ r.at = at BY <1>1, Zenon DEF CallFields
<1>3. fcall' = [fcall EXCEPT ![c] = r] BY <1>1, Zenon DEF Enters
<1> QED BY <1>2, <1>3, ZenonT(60) DEF Goes

LEMMA WatchKeeps ==
  ASSUME BindInv, SeqsOK' /\ PointsOK' /\ CallsOK' /\ StopInv' /\ GenInv' /\ WatchInv', UNCHANGED <<ftab, flis, fcrate>>,
         Len(fnode') >= Len(fnode), Len(fnode') \in Nat, \A h \in 1..Len(fnode) : fnode[h].conf => fnode'[h].conf
  PROVE  BindInv'
<1>1. TabInv' BY Zenon DEF BindInv, TabInv
<1>2. GateInv'
  <2>1. 1..Len(fnode) \subseteq 1..Len(fnode') BY Domains
  <2> QED BY <2>1, Zenon DEF BindInv, GateInv
<1>3. CrateInv' BY Zenon DEF BindInv, CrateInv
<1> QED BY <1>1, <1>2, <1>3, Zenon DEF BindInv

LEMMA RestKeeps ==
  ASSUME BindInv, SeqsOK' /\ PointsOK' /\ CallsOK' /\ StopInv' /\ GenInv', UNCHANGED <<fwatch, fwvalid, ftab, flis, fcrate>>,
         Len(fnode') >= Len(fnode), Len(fnode') \in Nat, \A h \in 1..Len(fnode) : fnode[h].conf => fnode'[h].conf
  PROVE  BindInv'
<1>1. WatchInv' BY Zenon DEF BindInv, WatchInv
<1> QED BY <1>1, WatchKeeps, Zenon

\* A call that ends and had nothing.
LEMMA PlainEnds ==
  ASSUME BindInv, NEW c \in Callers, fcall[c].op \in Quiet, NEW r, Goes(c, r), r.op \in {"ended", "idle"}, r.at # "opened",
         UNCHANGED <<fgen, fnode, fvalid, fwatch, fruns>>
  PROVE  SeqsOK' /\ PointsOK' /\ CallsOK' /\ StopInv' /\ GenInv'
<1>1. fnode \in Seq(Nodes) /\ fwatch \in Seq(Watchers) BY Zenon DEF BindInv, SeqsOK
<1> QED BY <1>1, QuietKeeps, Zenon DEF Quiet

LEMMA PlainKeeps ==
  ASSUME BindInv, NEW c \in Callers, StartRefused(c) \/ Unwatched(c) \/ PlainCall(c) \/ ReadError(c) \/ Uses(c)
  PROVE  BindInv'
<1>1. UNCHANGED <<fgen, fnode, fvalid, fwatch, fwvalid, ftab, flis, fruns, fcrate>>
  BY ZenonT(60) DEF StartRefused, Unwatched, PlainCall, ReadError, Uses, NodeAsked, BytesAdded, BytesRead, BlockCall, RunsOnNode, Used
<1>2. fcall[c].op \in Quiet
  BY ZenonT(60) DEF StartRefused, Unwatched, PlainCall, ReadError, Uses, NodeAsked, BytesAdded, BytesRead, BlockCall, RunsOnNode, Used,
         Resting, In, Quiet
<1>3. \E r : Goes(c, r) /\ r.op \in {"ended", "idle"} /\ r.at = "none"
  <2>1. CASE \E ok \in BOOLEAN : Ends(c, ok) BY <2>1, EndsIs, Zenon
  <2>2. CASE fcall' = [fcall EXCEPT ![c] = [op |-> "ended", arg |-> 0, at |-> "none", ok |-> TRUE]]
    <3>1. PICK r : r = [op |-> "ended", arg |-> 0, at |-> "none", ok |-> TRUE] BY ZenonT(60)
    <3>2. DOMAIN r = CallFields /\ r.op = "ended" /\ r.at = "none" BY <3>1, Zenon DEF CallFields
    <3>3. fcall' = [fcall EXCEPT ![c] = r] BY <2>2, <3>1, Zenon
    <3> QED BY <3>2, <3>3, ZenonT(60) DEF Goes
  <2>3. CASE fcall' = [fcall EXCEPT ![c] = AtRest]
    <3>1. DOMAIN AtRest = CallFields /\ AtRest.op = "idle" /\ AtRest.at = "none" BY Zenon DEF CallFields, AtRest
    <3> QED BY <2>3, <3>1, ZenonT(60) DEF Goes
  <2> QED BY <2>1, <2>2, <2>3, ZenonT(60)
     DEF StartRefused, Unwatched, PlainCall, ReadError, Uses, NodeAsked, BytesAdded, BytesRead, BlockCall, RunsOnNode, Used
<1>4. SeqsOK' /\ PointsOK' /\ CallsOK' /\ StopInv' /\ GenInv' BY <1>1, <1>2, <1>3, PlainEnds, Zenon
<1> QED BY <1>1, <1>4, RestKeeps, Domains

LEMMA FoundKeeps ==
  ASSUME BindInv, NEW c \in Callers, NEW h \in DOMAIN fnode, NEW op \in {"set", "serve", "use"}, Found(c, op, h), UNCHANGED fvalid
  PROVE  BindInv'
<1>1. UNCHANGED <<fgen, fnode, fwatch, fwvalid, ftab, flis, fruns, fcrate>> /\ fcall[c].op \in Quiet
  BY Zenon DEF Found, Resting, Quiet
<1>2. fnode \in Seq(Nodes) /\ fwatch \in Seq(Watchers) /\ h \in 1..Len(fnode) BY Domains, Zenon DEF BindInv, SeqsOK
<1>3. \E r : Goes(c, r) /\ r.op \in Quiet /\ r.at # "opened" /\ r.op # "unwatch"
             /\ (r.op \in {"set", "serve", "use"} => r.arg \in 1..Len(fnode))
  <2>1. CASE Enters(c, op, h, "found") BY <1>2, <2>1, EntersIs DEF Quiet
  <2>2. CASE Ends(c, FALSE) BY <2>2, EndsIs, ZenonT(60) DEF Quiet
  <2> QED BY <2>1, <2>2, ZenonT(60) DEF Found
<1>4. SeqsOK' /\ PointsOK' /\ CallsOK' /\ StopInv' /\ GenInv' BY <1>1, <1>2, <1>3, QuietKeeps, Zenon
<1> QED BY <1>1, <1>4, RestKeeps, Domains

LEMMA ConfiguresKeeps == ASSUME BindInv, NEW c \in Callers, Configures(c) PROVE BindInv'
<1>1. UNCHANGED <<fgen, fvalid, fwatch, fwvalid, ftab, flis, fruns, fcrate>> /\ fcall[c].op = "set"
  BY Zenon DEF Configures, In
<1>2. PICK h : h = fcall[c].arg BY Zenon
<1>3. h \in 1..Len(fnode) /\ fnode \in Seq(Nodes) /\ fwatch \in Seq(Watchers) BY <1>1, <1>2, Zenon DEF BindInv, CallsOK, SeqsOK
<1>4. PICK n : n = [fnode[h] EXCEPT !.conf = TRUE] BY ZenonT(60)
<1>5. fnode[h] \in Nodes BY <1>3
<1>6. n \in Nodes /\ n.gen = fnode[h].gen /\ n.closes = fnode[h].closes /\ n.conf BY <1>4, <1>5, ZenonT(60) DEF Nodes
<1>7. fnode' = [fnode EXCEPT ![h] = n] BY <1>2, <1>4, Zenon DEF Configures
<1>8. /\ fnode' \in Seq(Nodes) /\ Len(fnode') = Len(fnode) /\ fnode'[h] = n
      /\ \A k \in 1..Len(fnode) : k # h => fnode'[k] = fnode[k]
  BY <1>3, <1>6, <1>7, ExceptIs
<1>9. \E r : Goes(c, r) /\ r.op = "ended" /\ r.at = "none" BY EndsIs, ZenonT(60) DEF Configures
<1>10. SeqsOK' /\ PointsOK' /\ CallsOK' /\ StopInv' /\ GenInv' BY <1>1, <1>3, <1>6, <1>8, <1>9, QuietKeeps, Zenon DEF Quiet
<1> QED BY <1>1, <1>6, <1>8, <1>10, RestKeeps, Domains

\* A listener keeps what it was started with.
LEMMA ListensKeeps ==
  ASSUME BindInv, NEW k \in {"api", "gateway"}, NEW h \in 1..Len(fnode), NEW r,
         r = [node |-> h, kind |-> k, conf |-> fnode[h].conf, at |-> "listening", auth |-> FALSE],
         flis' = Append(flis, r), Len(fnode') = Len(fnode), \A x \in 1..Len(fnode) : fnode'[x].conf = fnode[x].conf
  PROVE  GateInv'
<1>0. flis \in Seq(Listeners) /\ fnode[h] \in Nodes BY DEF BindInv, GateInv, SeqsOK
<1>1. /\ r \in Listeners /\ r.node = h /\ r.conf = fnode[h].conf /\ r.at = "listening"
  BY <1>0, Domains DEF Listeners, Nodes
<1>2. /\ flis' \in Seq(Listeners) /\ Len(flis') = Len(flis) + 1 /\ flis'[Len(flis) + 1] = r
      /\ \A l \in 1..Len(flis) : flis'[l] = flis[l]
  BY <1>0, <1>1, AppendIs
<1>3. \A l \in 1..Len(flis') : l \in 1..Len(flis) \/ l = Len(flis) + 1 BY <1>0, <1>2
<1> QED BY <1>1, <1>2, <1>3 DEF BindInv, GateInv

LEMMA ServesKeeps == ASSUME BindInv, NEW c \in Callers, Serves(c) PROVE BindInv'
<1>1. UNCHANGED <<fgen, fvalid, fwatch, fwvalid, ftab, fruns, fcrate>> /\ fcall[c].op = "serve"
  BY Zenon DEF Serves, In
<1>2. PICK h : h = fcall[c].arg BY Zenon
<1>3. h \in 1..Len(fnode) /\ fnode \in Seq(Nodes) /\ fwatch \in Seq(Watchers) /\ flis \in Seq(Listeners)
  BY <1>1, <1>2, Zenon DEF BindInv, CallsOK, SeqsOK, GateInv
<1>4. CASE Ends(c, FALSE) /\ UNCHANGED <<flis, fnode>>
  <2>1. \E r : Goes(c, r) /\ r.op = "ended" /\ r.at = "none" BY <1>4, EndsIs, ZenonT(60)
  <2>2. SeqsOK' /\ PointsOK' /\ CallsOK' /\ StopInv' /\ GenInv' BY <1>1, <1>4, <2>1, PlainEnds, Zenon DEF Quiet
  <2> QED BY <1>1, <1>4, <2>2, RestKeeps, Domains
<1>5. CASE ~(Ends(c, FALSE) /\ UNCHANGED <<flis, fnode>>)
  <2>1. PICK k \in {"api", "gateway"} :
             flis' = Append(flis, [node |-> h, kind |-> k, conf |-> fnode[h].conf, at |-> "listening", auth |-> FALSE])
    BY <1>2, <1>5, ZenonT(60) DEF Serves
  <2>2. fnode' = [fnode EXCEPT ![h].cur = Len(flis) + 1] /\ Ends(c, TRUE) BY <1>2, <1>5, ZenonT(60) DEF Serves
  <2>3. PICK n : n = [fnode[h] EXCEPT !.cur = Len(flis) + 1] BY ZenonT(60)
  <2>4. fnode[h] \in Nodes /\ Len(flis) + 1 \in Nat BY <1>3
  <2>5. n \in Nodes /\ n.gen = fnode[h].gen /\ n.closes = fnode[h].closes /\ n.conf = fnode[h].conf
    BY <2>3, <2>4, Zenon DEF Nodes
  <2>6. fnode' = [fnode EXCEPT ![h] = n] BY <2>2, <2>3, Zenon
  <2>7. /\ fnode' \in Seq(Nodes) /\ Len(fnode') = Len(fnode) /\ fnode'[h] = n
        /\ \A x \in 1..Len(fnode) : x # h => fnode'[x] = fnode[x]
    BY <1>3, <2>5, <2>6, ExceptIs
  <2>8. \E r : Goes(c, r) /\ r.op = "ended" /\ r.at = "none" BY <2>2, EndsIs, ZenonT(60)
  <2>9. SeqsOK' /\ PointsOK' /\ CallsOK' /\ StopInv' /\ GenInv' BY <1>1, <1>3, <2>5, <2>7, <2>8, QuietKeeps, ZenonT(60) DEF Quiet
  <2>10. GateInv' BY <1>3, <2>1, <2>5, <2>7, ListensKeeps, ZenonT(60)
  <2>11. TabInv' /\ CrateInv' /\ WatchInv' BY <1>1, Zenon DEF BindInv, TabInv, CrateInv, WatchInv
  <2> QED BY <2>9, <2>10, <2>11, Zenon DEF BindInv
<1> QED BY <1>4, <1>5, ZenonT(60)

LEMMA UnwatchKeeps == ASSUME BindInv, NEW c \in Callers, NEW w \in DOMAIN fwatch, Unwatch(c, w) PROVE BindInv'
<1>1. UNCHANGED <<fgen, fnode, fvalid, ftab, flis, fruns, fcrate>> /\ fcall[c].op \in Quiet
  BY Zenon DEF Unwatch, Resting, Quiet
<1>2. fnode \in Seq(Nodes) /\ fwatch \in Seq(Watchers) /\ w \in 1..Len(fwatch) BY Domains, Zenon DEF BindInv, SeqsOK
<1>3. CASE Ends(c, FALSE) /\ UNCHANGED <<fwvalid, fwatch>>
  <2>1. \E r : Goes(c, r) /\ r.op = "ended" /\ r.at = "none" BY <1>3, EndsIs, ZenonT(60)
  <2>2. SeqsOK' /\ PointsOK' /\ CallsOK' /\ StopInv' /\ GenInv' BY <1>1, <1>3, <2>1, PlainEnds, Zenon
  <2> QED BY <1>1, <1>3, <2>2, RestKeeps, Domains
<1>4. CASE w \in fwvalid
  <2>1. Enters(c, "unwatch", w, "found") /\ fwatch' = [fwatch EXCEPT ![w].at = "cancelled"] /\ fwatch[w].at # "done"
    BY <1>4, Zenon DEF Unwatch, BindInv, WatchInv
  <2>2. PICK n : n = [fwatch[w] EXCEPT !.at = "cancelled"] BY ZenonT(60)
  <2>3. fwatch[w] \in Watchers BY <1>2
  <2>4. n \in Watchers /\ n.gen = fwatch[w].gen /\ n.at = "cancelled" BY <2>2, <2>3, Zenon DEF Watchers
  <2>5. fwatch' = [fwatch EXCEPT ![w] = n] BY <2>1, <2>2, Zenon
  <2>6. /\ fwatch' \in Seq(Watchers) /\ Len(fwatch') = Len(fwatch) /\ fwatch'[w] = n
        /\ \A x \in 1..Len(fwatch) : x # w => fwatch'[x] = fwatch[x]
    BY <1>2, <2>4, <2>5, ExceptIs
  <2>7. \E r : Goes(c, r) /\ r.op = "unwatch" /\ r.arg = w /\ r.at = "found" BY <2>1, EntersIs
  <2>8. SeqsOK' /\ PointsOK' /\ CallsOK' /\ StopInv' /\ GenInv' BY <1>1, <1>2, <2>1, <2>4, <2>6, <2>7, QuietKeeps, ZenonT(60) DEF Quiet
  <2>9. WatchInv' BY <1>4, <2>6, Zenon DEF Unwatch, BindInv, WatchInv
  <2> QED BY <1>1, <2>8, <2>9, WatchKeeps, Domains
<1> QED BY <1>3, <1>4, ZenonT(60) DEF Unwatch

\* Steps of goroutines that have no part in the counts.
LEMMA ServerKeeps ==
  ASSUME BindInv, (\E l \in DOMAIN flis : HandlerMade(l)) \/ (\E w \in DOMAIN fwatch : WatchAdds(w))
                  \/ (\E x \in Crates, e \in IndexEntries, matches \in BOOLEAN : CrateAsked(x, e, matches))
                  \/ UNCHANGED fvars
  PROVE  BindInv'
<1>1. UNCHANGED <<fgen, fnode, fvalid, fwatch, fwvalid, ftab, fcall, fruns>>
  BY ZenonT(60) DEF HandlerMade, WatchAdds, CrateAsked, fvars
<1>2. SeqsOK' /\ PointsOK' BY <1>1, Zenon DEF BindInv, SeqsOK, PointsOK
<1>3. CallsOK' BY <1>1, Zenon DEF BindInv, CallsOK
<1>4. StopInv' BY <1>1, Zenon DEF BindInv, StopInv
<1>5. WatchInv' /\ TabInv' BY <1>1, ZenonT(60) DEF BindInv, WatchInv, TabInv
<1>6. GenInv'
  <2>1. \A u \in Pool, k \in Nat : Holds(u, k)' <=> Holds(u, k) BY <1>1 DEF Holds
  <2>2. \A k \in Nat : Users(k)' = Users(k) BY <2>1, SameUsers, Zenon
  <2> QED BY <1>1, <2>2, GensStay, Zenon
<1>7. GateInv'
  <2>1. CASE UNCHANGED flis BY <1>1, <2>1, ZenonT(60) DEF BindInv, GateInv
  <2>2. CASE \E l \in DOMAIN flis : HandlerMade(l)
    <3>0. flis \in Seq(Listeners) BY Zenon DEF BindInv, GateInv
    <3>1. PICK l \in DOMAIN flis : HandlerMade(l) BY <2>2, Zenon
    <3>2. l \in 1..Len(flis) /\ flis[l] \in Listeners BY <3>0, <3>1
    <3>3. \E r \in Listeners : /\ flis' = [flis EXCEPT ![l] = r] /\ r.node = flis[l].node /\ r.kind = flis[l].kind
                               /\ r.conf = flis[l].conf /\ (r.at = "serving" => r.auth = Guarded(l))
      <4>1. CASE flis' = [flis EXCEPT ![l].at = "idle"]
        <5>1. PICK r : r = [flis[l] EXCEPT !.at = "idle"] BY ZenonT(60)
        <5>2. /\ r \in Listeners /\ r.node = flis[l].node /\ r.kind = flis[l].kind /\ r.conf = flis[l].conf /\ r.at = "idle"
          BY <3>2, <5>1, Zenon DEF Listeners
        <5>3. flis' = [flis EXCEPT ![l] = r] BY <4>1, <5>1, Zenon
        <5> QED BY <5>2, <5>3, ZenonT(60)
      <4>2. CASE flis' = [flis EXCEPT ![l].at = "serving", ![l].auth = Guarded(l)]
        <5>0. Guarded(l) \in BOOLEAN BY Zenon DEF Guarded
        <5>1. PICK r : r = [flis[l] EXCEPT !.at = "serving", !.auth = Guarded(l)] BY Zenon
        <5>2. /\ r \in Listeners /\ r.node = flis[l].node /\ r.kind = flis[l].kind /\ r.conf = flis[l].conf /\ r.auth = Guarded(l)
          BY <3>2, <5>0, <5>1, ZenonT(60) DEF Listeners
        <5>3. flis' = [flis EXCEPT ![l] = r] BY <3>2, <4>2, <5>1, ZenonT(60)
        <5> QED BY <5>2, <5>3, ZenonT(60)
      <4> QED BY <3>1, <4>1, <4>2, ZenonT(60) DEF HandlerMade
    <3>4. PICK r \in Listeners : /\ flis' = [flis EXCEPT ![l] = r] /\ r.node = flis[l].node /\ r.kind = flis[l].kind
                                 /\ r.conf = flis[l].conf /\ (r.at = "serving" => r.auth = Guarded(l))
      BY <3>3, ZenonT(60)
    <3>5. /\ flis' \in Seq(Listeners) /\ Len(flis') = Len(flis) /\ flis'[l] = r
          /\ \A x \in 1..Len(flis) : x # l => flis'[x] = flis[x]
      BY <3>0, <3>2, <3>4, ExceptIs
    <3>6. /\ r.node \in 1..Len(fnode) /\ (r.conf => fnode[r.node].conf)
          /\ (r.kind = "gateway" /\ r.at = "serving" /\ r.conf => r.auth)
      BY <3>2, <3>4, ZenonT(60) DEF Guarded, BindInv, GateInv
    <3> QED BY <1>1, <3>5, <3>6, Zenon DEF BindInv, GateInv
  <2> QED BY <2>1, <2>2, ZenonT(60) DEF HandlerMade, WatchAdds, CrateAsked, fvars
<1>8. CrateInv'
  <2>1. CASE UNCHANGED fcrate BY <2>1, Zenon DEF BindInv, CrateInv
  <2>2. CASE \E x \in Crates, e \in IndexEntries, matches \in BOOLEAN : CrateAsked(x, e, matches)
    <3>1. PICK x \in Crates, e \in IndexEntries, matches \in BOOLEAN : CrateAsked(x, e, matches) BY <2>2, Zenon
    <3>2. (~matches => ~e.cksum) /\ e.cksum \in BOOLEAN BY <3>1, Zenon DEF CrateAsked, Keeps, IndexEntries
    <3>3. PICK v : v = IF matches THEN "good" ELSE IF e.cksum THEN "bad" ELSE "unknown" BY Zenon
    <3>4. v \in {"good", "unknown"} BY <3>2, <3>3, Zenon
    <3>5. fcrate' = [fcrate EXCEPT ![x] = v] BY <3>1, <3>3, Zenon DEF CrateAsked
    <3> QED BY <3>4, <3>5, Zenon DEF BindInv, CrateInv
  <2> QED BY <2>1, <2>2, ZenonT(60) DEF HandlerMade, WatchAdds, fvars
<1> QED BY <1>2, <1>3, <1>4, <1>5, <1>6, <1>7, <1>8, Zenon DEF BindInv

\* The plain tables.
LEMMA TablesKeep ==
  ASSUME BindInv, NEW c \in Callers, NEW k \in Tables,
         TableNew(c, k) \/ (\E h \in 1..MaxOthers : TableUse(c, k, h) \/ TableClose(c, k, h))
  PROVE  BindInv'
<1>1. UNCHANGED <<fgen, fnode, fvalid, fwatch, fwvalid, flis, fruns, fcrate>> /\ fcall[c].op \in Quiet
  BY ZenonT(60) DEF TableNew, TableUse, TableClose, Resting, Quiet
<1>2. \E r : Goes(c, r) /\ r.op = "ended" /\ r.at = "none" BY EndsIs, ZenonT(60) DEF TableNew, TableUse, TableClose
<1>3. SeqsOK' /\ PointsOK' /\ CallsOK' /\ StopInv' /\ GenInv' BY <1>1, <1>2, PlainEnds, Zenon
<1>4. TabInv'
  <2>0. PICK q : q = ftab[k].closes BY Zenon
  <2>n. /\ q \in Seq({0, 1}) /\ ftab[k].next \in Nat \ {0} /\ Len(q) = ftab[k].next - 1 /\ ftab[k].live \subseteq 1..Len(q)
        /\ DOMAIN ftab = Tables /\ (\A h \in ftab[k].live : q[h] = 0) /\ DOMAIN ftab[k] = {"next", "live", "closes"}
    BY <2>0, Zenon DEF BindInv, TabInv
  <2>t. ASSUME NEW r, ftab' = [ftab EXCEPT ![k] = r], DOMAIN r = {"next", "live", "closes"}, r.next \in Nat \ {0},
               r.closes \in Seq({0, 1}), Len(r.closes) = r.next - 1, r.live \subseteq 1..Len(r.closes),
               \A h \in r.live : r.closes[h] = 0
        PROVE  TabInv'
    <3>1. DOMAIN ftab' = Tables /\ ftab'[k] = r /\ \A x \in Tables : x # k => ftab'[x] = ftab[x] BY <2>n, <2>t, Zenon
    <3> QED BY <2>t, <3>1, ZenonT(60) DEF BindInv, TabInv
  <2>1. CASE UNCHANGED ftab BY <2>1, Zenon DEF BindInv, TabInv
  <2>2. CASE TableNew(c, k) /\ ~UNCHANGED ftab
    <3>1. PICK r : r = [next |-> ftab[k].next + 1, live |-> ftab[k].live \cup {ftab[k].next}, closes |-> Append(q, 0)]
      BY ZenonT(60)
    <3>2. ftab' = [ftab EXCEPT ![k] = r] BY <2>0, <2>2, <3>1, ZenonT(60) DEF TableNew
    <3>3. PICK a : a = Append(q, 0) BY ZenonT(60)
    <3>4. a \in Seq({0, 1}) /\ Len(a) = Len(q) + 1 /\ a[Len(q) + 1] = 0 /\ \A h \in 1..Len(q) : a[h] = q[h]
      BY <2>n, <3>3, AppendIs
    <3>5. /\ DOMAIN r = {"next", "live", "closes"} /\ r.next = ftab[k].next + 1 /\ r.closes = a
          /\ r.live = ftab[k].live \cup {ftab[k].next}
      BY <3>1, <3>3, Zenon
    <3>7. PICK m : m = Len(q) BY ZenonT(60)
    <3>8. m \in Nat /\ ftab[k].next = m + 1 /\ Len(a) = m + 1 /\ r.next \in Nat \ {0} BY <2>n, <3>4, <3>5, <3>7
    <3>9. \A h \in r.live : h \in 1..(m + 1) /\ a[h] = 0
      <4>1. \A h \in ftab[k].live : h \in 1..m /\ a[h] = 0 BY <2>n, <3>4, <3>7, Zenon
      <4>2. a[m + 1] = 0 BY <3>4, <3>7, Zenon
      <4> QED BY <3>5, <3>8, <4>1, <4>2
    <3>6. r.live \subseteq 1..Len(r.closes) /\ \A h \in r.live : r.closes[h] = 0 BY <3>5, <3>8, <3>9, Zenon
    <3>10. Len(r.closes) = r.next - 1 /\ r.closes \in Seq({0, 1}) BY <3>4, <3>5, <3>8
    <3> QED BY <2>t, <3>2, <3>5, <3>6, <3>8, <3>10, ZenonT(60)
  <2>3. CASE \E h \in 1..MaxOthers : TableClose(c, k, h) /\ ~UNCHANGED ftab
    <3>0. PICK h \in 1..MaxOthers : TableClose(c, k, h) /\ ~UNCHANGED ftab BY <2>3, Zenon
    <3>1. /\ h \in ftab[k].live /\ ftab' = [ftab EXCEPT ![k].live = @ \ {h}, ![k].closes[h] = @ + 1]
      BY <3>0, ZenonT(60) DEF TableClose
    <3>2. PICK a : a = [q EXCEPT ![h] = 1] BY ZenonT(60)
    <3>3. a \in Seq({0, 1}) /\ Len(a) = Len(q) /\ a[h] = 1 /\ \A x \in 1..Len(q) : x # h => a[x] = q[x]
      BY <2>n, <3>1, <3>2, ExceptIs
    <3>4. PICK r : r = [ftab[k] EXCEPT !.live = @ \ {h}, !.closes = a] BY Zenon
    <3>5. /\ DOMAIN r = {"next", "live", "closes"} /\ r.next = ftab[k].next /\ r.closes = a /\ r.live = ftab[k].live \ {h}
      BY <2>n, <3>4, Zenon
    <3>6. q[h] + 1 = 1 BY <2>n, <3>1
    <3>7. ftab' = [ftab EXCEPT ![k] = r] BY <2>0, <2>n, <3>1, <3>2, <3>4, <3>6, Zenon
    <3>8. r.live \subseteq 1..Len(r.closes) /\ \A x \in r.live : r.closes[x] = 0 BY <2>n, <3>3, <3>5, Zenon
    <3>9. Len(r.closes) = r.next - 1 /\ r.closes \in Seq({0, 1}) /\ r.next \in Nat \ {0} BY <2>n, <3>3, <3>5, Zenon
    <3> QED BY <2>t, <3>5, <3>7, <3>8, <3>9, ZenonT(60)
  <2> QED BY <2>1, <2>2, <2>3, ZenonT(60) DEF TableUse
<1>5. WatchInv' /\ GateInv' /\ CrateInv' BY <1>1, Zenon DEF BindInv, WatchInv, GateInv, CrateInv
<1> QED BY <1>3, <1>4, <1>5, Zenon DEF BindInv

LEMMA TableCallsKeep == ASSUME BindInv, NEW c \in Callers, TableCalls(c) PROVE BindInv'
<1>1. CASE InitRepo(c) \/ NostrCall(c) \/ GitByPath(c) BY <1>1, PlainKeeps, Zenon DEF InitRepo, NostrCall, GitByPath
<1>2. CASE \E k \in Tables : TableNew(c, k) \/ (\E h \in 1..MaxOthers : TableUse(c, k, h) \/ TableClose(c, k, h))
  BY <1>2, TablesKeep, Zenon
<1> QED BY <1>1, <1>2, Zenon
   DEF TableCalls, Tables, HostNew, HostCall, HostClose, GitOpen, GitCall, GitFree, RelayConnect, RelayPublish, RelayClose,
       RelaySubscribe, RelayDrain, RelayUnsubscribe

LEMMA TakeKeeps == ASSUME BindInv, NEW c \in Callers, NEW h \in DOMAIN fnode, Take(c, h) PROVE BindInv'
<1>1. /\ UNCHANGED <<fgen, fnode, fwatch, fwvalid, ftab, flis, fruns, fcrate>> /\ fcall[c].op = "idle"
      /\ fvalid' = fvalid \ {h}
  BY Zenon DEF Take, Found, Resting
<1>2. h \in 1..Len(fnode) BY Domains, Zenon
<1>3. CASE Ends(c, FALSE) /\ h \notin fvalid
  <2>1. \E r : Goes(c, r) /\ r.op = "ended" /\ r.at = "none" BY <1>3, EndsIs, ZenonT(60)
  <2>2. fvalid' = fvalid BY <1>1, <1>3, Zenon
  <2>3. SeqsOK' /\ PointsOK' /\ CallsOK' /\ StopInv' /\ GenInv' BY <1>1, <2>1, <2>2, PlainEnds, Zenon DEF Quiet
  <2> QED BY <1>1, <2>3, RestKeeps, Domains, SMTT(60)
<1>4. CASE Enters(c, "stop", h, "found") /\ h \in fvalid
  <2>1. PICK r : Goes(c, r) /\ r.op = "stop" /\ r.arg = h /\ r.at = "found" BY <1>4, EntersIs
  <2>2. DOMAIN fcall' = Callers /\ fcall'[c] = r /\ \A d \in Callers : d # c => fcall'[d] = fcall[d]
    BY <2>1, Zenon DEF BindInv, CallsOK, Goes
  <2>3. SeqsOK' /\ PointsOK' BY <1>1, ZenonT(60) DEF BindInv, SeqsOK, PointsOK
  <2>4. CallsOK' BY <1>1, <1>2, <2>1, <2>2, Zenon DEF BindInv, CallsOK, Goes, CallFields
  <2>5. StopInv' BY <1>1, <1>4, <2>1, <2>2 DEF BindInv, StopInv
  <2>6. GenInv'
    <3>0. fcall[c].at # "opened" BY <1>1, Zenon DEF BindInv, CallsOK
    <3>1. \A u \in Pool, k \in Nat : Holds(u, k)' <=> Holds(u, k) BY <1>1, <2>1, <2>2, <3>0, SMTT(60) DEF Holds, Pool
    <3>2. \A k \in Nat : Users(k)' = Users(k) BY <3>1, SameUsers, Zenon
    <3> QED BY <1>1, <3>2, GensStay, Zenon
  <2> QED BY <1>1, <2>3, <2>4, <2>5, <2>6, RestKeeps, Domains
<1> QED BY <1>3, <1>4, ZenonT(60) DEF Take, Found

LEMMA StopsKeeps == ASSUME BindInv, NEW c \in Callers, Stops(c) PROVE BindInv'
<1>1. UNCHANGED <<fwatch, fwvalid, ftab, fruns, fcrate>> /\ fcall[c].op = "stop" BY Zenon DEF Stops, In
<1>2. PICK h, g : h = fcall[c].arg /\ g = fnode[h].gen BY Zenon
<1>3. /\ h \in 1..Len(fnode) /\ fnode \in Seq(Nodes) /\ h \notin fvalid /\ fnode[h].closes = 0 /\ g \in 1..Len(fgen)
      /\ flis \in Seq(Listeners) /\ Len(fnode) <= MaxHandles
  BY <1>1, <1>2, ZenonT(60) DEF BindInv, CallsOK, SeqsOK, StopInv, PointsOK, GateInv
<1>4. fvalid' = fvalid BY <1>2, <1>3, Zenon DEF Stops
<1>5. PICK n : n = [fnode[h] EXCEPT !.closes = 1] BY ZenonT(60)
<1>6. fnode[h] \in Nodes /\ fnode[h].closes + 1 = 1 BY <1>3
<1>7. n \in Nodes /\ n.gen = fnode[h].gen /\ n.closes = 1 /\ n.conf = fnode[h].conf BY <1>3, <1>5, <1>6, ZenonT(60) DEF Nodes
<1>8. fnode' = [fnode EXCEPT ![h] = n]
  <2>1. fnode' = [fnode EXCEPT ![h] = [fnode[h] EXCEPT !.closes = fnode[h].closes + 1]] BY <1>2, Zenon DEF Stops
  <2> QED BY <1>5, <1>6, <2>1, ZenonT(60)
<1>9. /\ fnode' \in Seq(Nodes) /\ Len(fnode') = Len(fnode) /\ fnode'[h] = n
      /\ \A k \in 1..Len(fnode) : k # h => fnode'[k] = fnode[k]
  BY <1>3, <1>7, <1>8, ExceptIs
<1>10. fgen' = ClosedOnce(fgen, g) BY <1>2, <1>3, Zenon DEF Stops
<1>11. PICK r : Goes(c, r) /\ r.op = "ended" /\ r.at = "none" BY EndsIs, Zenon DEF Stops
<1>12. DOMAIN fcall' = Callers /\ fcall'[c] = r /\ \A d \in Callers : d # c => fcall'[d] = fcall[d]
  BY <1>11, Zenon DEF BindInv, CallsOK, Goes
<1>13. fgen' \in Seq(Gens) /\ Len(fgen') = Len(fgen) /\ GenInv'
  <2>0. PICK v : v = <<"node", h>> BY ZenonT(60)
  <2>v. v[1] = "node" /\ v[2] = h /\ \A u \in Pool : u[1] = "node" /\ u[2] = h => u = v
    <3>1. ASSUME NEW u \in Pool, u[1] = "node", u[2] = h PROVE u = v
      <4>1. u = <<u[1], u[2]>> BY DEF Pool
      <4> QED BY <2>0, <3>1, <4>1, Zenon
    <3> QED BY <2>0, <3>1, Zenon
  <2>1. v \in Pool /\ Holds(v, g) /\ g \in Nat
    <3>1. h \in 1..MaxHandles /\ h \in DOMAIN fnode BY <1>3, Domains, RangeIn, BindingsAssumption, Zenon
    <3>2. g \in Nat BY <1>3, Domains, RangeNat, Zenon
    <3>3. v \in Pool BY <2>0, <3>1, Zenon DEF Pool
    <3> QED BY <1>2, <1>3, <2>v, <3>1, <3>2, <3>3, Zenon DEF Holds
  <2>2. fcall[c].at # "opened" BY <1>1, Zenon DEF BindInv, CallsOK
  <2>3. DOMAIN fnode' = DOMAIN fnode BY <1>9, Domains
  <2>4. \A u \in Pool, k \in Nat : Holds(u, k)' <=> Holds(u, k) /\ ~(u = v /\ k = g)
    <3>1. ASSUME NEW u \in Pool, NEW k \in Nat PROVE Holds(u, k)' <=> Holds(u, k) /\ ~(u = v /\ k = g)
      <4>1. CASE u[1] = "call" /\ u[2] \in Callers BY <1>11, <1>12, <2>2, <2>v, <4>1, Zenon DEF Holds
      <4>2. CASE u[1] = "node" /\ u[2] # h
        <5>1. u[2] \in DOMAIN fnode => fnode'[u[2]] = fnode[u[2]] BY <1>9, <4>2, Domains, Zenon
        <5> QED BY <2>3, <2>v, <4>2, <5>1, Zenon DEF Holds
      <4>3. CASE u[1] = "node" /\ u[2] = h
        <5>1. u = v /\ (Holds(u, k) <=> k = g) BY <1>2, <1>3, <2>v, <4>3, Domains, Zenon DEF Holds
        <5>2. ~Holds(u, k)'
          <6>1. fnode'[u[2]].closes # 0 BY <1>7, <1>9, <4>3
          <6> QED BY <4>3, <6>1, Zenon DEF Holds
        <5> QED BY <2>v, <4>3, <5>1, <5>2, Zenon
      <4>4. CASE u[1] \in {"watch", "run"} BY <1>1, <2>v, <4>4, ZenonT(60) DEF Holds
      <4> QED BY <4>1, <4>2, <4>3, <4>4, Zenon DEF Pool
    <3> QED BY <3>1, Zenon
  <2>5. (\A k \in Nat : k # g => Users(k)' = Users(k)) /\ Users(g)' = Users(g) \ {v} /\ v \in Users(g)
    BY <2>1, <2>4, UsersLose, Zenon
  <2> QED BY <1>3, <1>10, <2>5, GensClose, Zenon
<1>14. SeqsOK' BY <1>1, <1>3, <1>9, <1>13, Zenon DEF BindInv, SeqsOK
<1>15. PointsOK' BY <1>1, <1>7, <1>9, <1>13, Zenon DEF BindInv, PointsOK
<1>16. CallsOK' BY <1>1, <1>9, <1>11, <1>12, <1>13, Zenon DEF BindInv, CallsOK, Goes, CallFields
<1>17. StopInv'
  <2>1. \A d \in Callers : d # c /\ fcall[d].op = "stop" => fcall[d].arg # h BY <1>1, <1>2, Zenon DEF BindInv, StopInv
  <2>2. \A d \in Callers : fcall[d].op = "stop" => fcall[d].arg \in 1..Len(fnode) BY Zenon DEF BindInv, CallsOK
  <2>3. \A d \in Callers : fcall'[d].op = "stop" => d # c /\ fcall[d].op = "stop" /\ fcall'[d].arg = fcall[d].arg
    BY <1>11, <1>12, Zenon
  <2>4. fvalid \subseteq 1..Len(fnode) /\ \A x \in fvalid : x # h /\ fnode[x].closes = 0 BY <1>3, Zenon DEF BindInv, StopInv
  <2>5. \A d \in Callers : fcall'[d].op = "stop" => fcall'[d].arg \notin fvalid /\ fnode'[fcall'[d].arg].closes = 0
    BY <1>9, <2>1, <2>2, <2>3 DEF BindInv, StopInv
  <2>6. \A d, e \in Callers : fcall'[d].op = "stop" /\ fcall'[e].op = "stop" /\ fcall'[d].arg = fcall'[e].arg => d = e
    BY <2>3, Zenon DEF BindInv, StopInv
  <2>7. \A x \in fvalid : fnode'[x].closes = 0 BY <1>9, <2>4, Zenon
  <2> QED BY <1>4, <1>9, <2>4, <2>5, <2>6, <2>7, ZenonT(60) DEF StopInv
<1>18. GateInv'
  <2>1. flis' = [l \in DOMAIN flis |-> IF l = fnode[h].cur THEN [flis[l] EXCEPT !.at = "closed"] ELSE flis[l]]
    BY <1>2, Zenon DEF Stops
  <2>2. DOMAIN flis = 1..Len(flis) /\ Len(flis) \in Nat /\ \A l \in 1..Len(flis) : flis[l] \in Listeners BY <1>3
  <2>3. ASSUME NEW l \in 1..Len(flis)
        PROVE  /\ flis'[l] \in Listeners /\ flis'[l].node = flis[l].node /\ flis'[l].kind = flis[l].kind
               /\ flis'[l].conf = flis[l].conf /\ flis'[l].auth = flis[l].auth /\ (flis'[l].at = "serving" => flis[l].at = "serving")
    <3>1. PICK e : e = [flis[l] EXCEPT !.at = "closed"] BY ZenonT(60)
    <3>2. /\ e \in Listeners /\ e.node = flis[l].node /\ e.kind = flis[l].kind /\ e.conf = flis[l].conf
          /\ e.auth = flis[l].auth /\ e.at = "closed"
      BY <2>2, <3>1, Zenon DEF Listeners
    <3>3. flis'[l] = e \/ flis'[l] = flis[l]
      <4>1. l \in DOMAIN flis BY <2>2, Zenon
      <4>2. flis'[l] = IF l = fnode[h].cur THEN [flis[l] EXCEPT !.at = "closed"] ELSE flis[l] BY <2>1, <4>1, Zenon
      <4> QED BY <3>1, <4>2, Zenon
    <3> QED BY <2>2, <3>2, <3>3, Zenon
  <2>4. DOMAIN flis' = 1..Len(flis) BY <2>1, <2>2, Zenon
  <2>5. flis' \in [1..Len(flis) -> Listeners]
    <3>1. flis' = [l \in 1..Len(flis) |-> flis'[l]] BY <2>1, <2>2, Zenon
    <3> QED BY <2>3, <3>1, Zenon
  <2>6. flis' \in Seq(Listeners) /\ Len(flis') = Len(flis) BY <2>2, <2>5, FunctionIs, Zenon
  <2>7. \A k \in 1..Len(fnode) : fnode'[k].conf = fnode[k].conf BY <1>7, <1>9, Zenon
  <2> QED BY <1>9, <2>3, <2>6, <2>7, Zenon DEF BindInv, GateInv
<1>19. WatchInv' /\ TabInv' /\ CrateInv' BY <1>1, Zenon DEF BindInv, WatchInv, TabInv, CrateInv
<1> QED BY <1>13, <1>14, <1>15, <1>16, <1>17, <1>18, <1>19, Zenon DEF BindInv

\* A call that opens a repo and holds it.
LEMMA OpensKeeps ==
  ASSUME BindInv, NEW c \in Callers, NEW r \in FRepos, StartOpens(c, r) \/ WatchOpens(c, r)
  PROVE  BindInv'
<1>1. UNCHANGED <<fnode, fvalid, fwatch, fwvalid, ftab, flis, fruns, fcrate>> /\ fgen' = Opened(r) /\ fcall[c].op = "idle"
  BY Zenon DEF StartOpens, WatchOpens, Resting
<1>2. PICK g : g = OpenedGen(r) BY Zenon
<1>3. PICK op \in {"start", "watch"} : Enters(c, op, g, "opened") BY <1>2, Zenon DEF StartOpens, WatchOpens
<1>4. PICK e : Goes(c, e) /\ e.op = op /\ e.arg = g /\ e.at = "opened" BY <1>3, EntersIs
<1>5. DOMAIN fcall' = Callers /\ fcall'[c] = e /\ \A d \in Callers : d # c => fcall'[d] = fcall[d]
  BY <1>4, Zenon DEF BindInv, CallsOK, Goes
<1>6. fcall[c].at # "opened" BY <1>1, Zenon DEF BindInv, CallsOK
<1>g. g \in Nat BY <1>2, Domains DEF OpenedGen, ActiveGen
<1>7. /\ fgen' \in Seq(Gens) /\ Len(fgen') \in Nat /\ Len(fgen') >= Len(fgen) /\ g \in 1..Len(fgen') /\ GenInv'
  <2>0. PICK v : v = <<"call", c>> BY ZenonT(60)
  <2>1. v \in Pool /\ v[1] = "call" /\ v[2] = c /\ \A u \in Pool : u[1] = "call" /\ u[2] = c => u = v BY <2>0, SMTT(60) DEF Pool
  <2>2. \A k \in Nat : ~Holds(v, k) BY <1>6, <2>1, Zenon DEF Holds
  <2>3. \A u \in Pool, k \in Nat : Holds(u, k)' <=> Holds(u, k) \/ (u = v /\ k = g)
    BY <1>1, <1>4, <1>5, <1>6, <2>1, SMTT(60) DEF Holds, Pool
  <2>4. (\A k \in Nat : k # g => Users(k)' = Users(k)) /\ Users(g)' = Users(g) \cup {v} /\ v \notin Users(g)
    BY <1>g, <2>1, <2>2, <2>3, UsersGain, Zenon
  <2> QED BY <1>1, <1>2, <2>4, GensOpen, ZenonT(60)
<1>8. 1..Len(fgen) \subseteq 1..Len(fgen') BY <1>7, Domains
<1>9. SeqsOK' BY <1>1, <1>7, Zenon DEF BindInv, SeqsOK
<1>10. PointsOK' BY <1>1, <1>8, ZenonT(60) DEF BindInv, PointsOK
<1>11. CallsOK' BY <1>1, <1>3, <1>4, <1>5, <1>7, <1>8, ZenonT(60) DEF BindInv, CallsOK, Goes, CallFields
<1>12. StopInv' BY <1>1, <1>3, <1>4, <1>5, ZenonT(60) DEF BindInv, StopInv
<1> QED BY <1>1, <1>7, <1>9, <1>10, <1>11, <1>12, RestKeeps, Domains

LEMMA RunsKeeps == ASSUME BindInv, NEW c \in Callers, NEW r \in FRepos, Runs(c, r) PROVE BindInv'
<1>1. /\ UNCHANGED <<fnode, fvalid, fwatch, fwvalid, ftab, flis, fcrate>> /\ fgen' = Opened(r) /\ fcall[c].op = "idle"
      /\ Len(fruns) < MaxOthers
  BY ZenonT(60) DEF Runs, Resting
<1>2. PICK g : g = OpenedGen(r) BY Zenon
<1>g. g \in Nat BY <1>2, Domains DEF OpenedGen, ActiveGen
<1>3. PICK e : Goes(c, e) /\ e.op = "ended" /\ e.at = "none" BY EndsIs, Zenon DEF Runs
<1>4. DOMAIN fcall' = Callers /\ fcall'[c] = e /\ \A d \in Callers : d # c => fcall'[d] = fcall[d]
  BY <1>3, Zenon DEF BindInv, CallsOK, Goes
<1>5. fcall[c].at # "opened" BY <1>1, Zenon DEF BindInv, CallsOK
<1>6. fruns \in Seq(Nat) /\ fruns' = Append(fruns, g) BY <1>2, Zenon DEF Runs, BindInv, SeqsOK
<1>7. PICK i : i = Len(fruns) + 1 BY Zenon
<1>8. /\ fruns' \in Seq(Nat) /\ Len(fruns') = i /\ fruns'[i] = g /\ i \in 1..MaxOthers
      /\ \A k \in 1..Len(fruns) : fruns'[k] = fruns[k]
  BY <1>1, <1>6, <1>7, <1>g, AppendIs, Domains, BindingsAssumption, SMTT(60)
<1>d. DOMAIN fruns' = (DOMAIN fruns) \cup {i} /\ i \notin DOMAIN fruns BY <1>6, <1>7, <1>8, Domains, SMTT(60)
<1>9. /\ fgen' \in Seq(Gens) /\ Len(fgen') \in Nat /\ Len(fgen') >= Len(fgen) /\ g \in 1..Len(fgen') /\ GenInv'
  <2>0. PICK v : v = <<"run", i>> BY ZenonT(60)
  <2>1. v \in Pool /\ v[1] = "run" /\ v[2] = i BY <1>8, <2>0, Zenon DEF Pool
  <2>u. ASSUME NEW u \in Pool, u[1] = "run", u[2] = i PROVE u = v
    <3>1. u = <<u[1], u[2]>> BY DEF Pool
    <3> QED BY <2>0, <2>u, <3>1, Zenon
  <2>2. \A k \in Nat : ~Holds(v, k) BY <1>d, <2>1, Zenon DEF Holds
  <2>3. ASSUME NEW u \in Pool, NEW k \in Nat PROVE Holds(u, k)' <=> Holds(u, k) \/ (u = v /\ k = g)
    <3>1. CASE u[1] = "call" /\ u[2] \in Callers BY <1>3, <1>4, <1>5, <2>1, <3>1, Zenon DEF Holds
    <3>2. CASE u[1] \in {"node", "watch"} BY <1>1, <2>1, <3>2, Zenon DEF Holds
    <3>3. CASE u[1] = "run" /\ u[2] # i
      <4>1. u[2] \in DOMAIN fruns => fruns'[u[2]] = fruns[u[2]] BY <1>8, Domains, Zenon
      <4> QED BY <1>d, <2>1, <3>3, <4>1, ZenonT(60) DEF Holds
    <3>4. CASE u[1] = "run" /\ u[2] = i BY <1>8, <1>d, <2>1, <2>u, <3>4, Zenon DEF Holds
    <3> QED BY <3>1, <3>2, <3>3, <3>4, Zenon DEF Pool
  <2>4. (\A k \in Nat : k # g => Users(k)' = Users(k)) /\ Users(g)' = Users(g) \cup {v} /\ v \notin Users(g)
    BY <1>g, <2>1, <2>2, <2>3, UsersGain, Zenon
  <2> QED BY <1>1, <1>2, <2>4, GensOpen, Zenon
<1>10. 1..Len(fgen) \subseteq 1..Len(fgen') BY <1>9, Domains
<1>11. SeqsOK' BY <1>1, <1>8, <1>9 DEF BindInv, SeqsOK
<1>12. PointsOK'
  <2>1. \A k \in 1..Len(fruns') : k \in 1..Len(fruns) \/ k = i BY <1>7, <1>8, Domains
  <2>2. \A k \in 1..Len(fruns') : fruns'[k] \in 1..Len(fgen') BY <1>8, <1>9, <1>10, <2>1, ZenonT(60) DEF BindInv, PointsOK
  <2> QED BY <1>1, <1>10, <2>2, Zenon DEF BindInv, PointsOK
<1>13. CallsOK' BY <1>1, <1>3, <1>4, <1>10, Zenon DEF BindInv, CallsOK, Goes, CallFields
<1>14. StopInv' BY <1>1, <1>3, <1>4, ZenonT(60) DEF BindInv, StopInv
<1> QED BY <1>1, <1>9, <1>11, <1>12, <1>13, <1>14, RestKeeps, Domains, SMTT(60)

\* A call that gives up what it opened.
LEMMA FailsKeeps ==
  ASSUME BindInv, NEW c \in Callers, StartFails(c) \/ StartFailsLate(c) \/ WatchFails(c)
  PROVE  BindInv'
<1>1. UNCHANGED <<fnode, fvalid, fwatch, fwvalid, ftab, flis, fruns, fcrate>> /\ fcall[c].at = "opened" /\ Ends(c, FALSE)
  BY ZenonT(60) DEF StartFails, StartFailsLate, WatchFails, In
<1>2. PICK g : g = fcall[c].arg BY Zenon
<1>3. g \in 1..Len(fgen) /\ g \in Nat /\ fcall[c].op \in {"start", "watch"} BY <1>1, <1>2, Domains, SMTT(60) DEF BindInv, CallsOK
<1>4. fgen' = ClosedOnce(fgen, g) \/ fgen' = ClosedTwice(fgen, g) BY <1>2, ZenonT(60) DEF StartFails, StartFailsLate, WatchFails
<1>5. PICK e : Goes(c, e) /\ e.op = "ended" /\ e.at = "none" BY <1>1, EndsIs, ZenonT(60)
<1>6. DOMAIN fcall' = Callers /\ fcall'[c] = e /\ \A d \in Callers : d # c => fcall'[d] = fcall[d]
  BY <1>5, Zenon DEF BindInv, CallsOK, Goes
<1>7. fgen' \in Seq(Gens) /\ Len(fgen') = Len(fgen) /\ GenInv'
  <2>0. PICK v : v = <<"call", c>> BY ZenonT(60)
  <2>1. v \in Pool /\ v[1] = "call" /\ v[2] = c BY <2>0, Zenon DEF Pool
  <2>u. ASSUME NEW u \in Pool, u[1] = "call", u[2] = c PROVE u = v
    <3>1. u = <<u[1], u[2]>> BY DEF Pool
    <3> QED BY <2>0, <2>u, <3>1, Zenon
  <2>2. Holds(v, g) BY <1>1, <1>2, <2>1, Zenon DEF Holds
  <2>3. ASSUME NEW u \in Pool, NEW k \in Nat PROVE Holds(u, k)' <=> Holds(u, k) /\ ~(u = v /\ k = g)
    <3>1. CASE u[1] = "call" /\ u[2] \in Callers /\ u[2] # c BY <1>6, <2>1, <3>1, Zenon DEF Holds
    <3>2. CASE u[1] = "call" /\ u[2] = c BY <1>2, <1>5, <1>6, <2>1, <2>u, <3>2, ZenonT(60) DEF Holds
    <3>3. CASE u[1] \in {"node", "watch", "run"} BY <1>1, <2>1, <3>3, ZenonT(60) DEF Holds
    <3> QED BY <3>1, <3>2, <3>3, Zenon DEF Pool
  <2>4. (\A k \in Nat : k # g => Users(k)' = Users(k)) /\ Users(g)' = Users(g) \ {v} /\ v \in Users(g)
    BY <1>3, <2>1, <2>2, <2>3, UsersLose, Zenon
  <2> QED BY <1>3, <1>4, <2>4, GensClose, ZenonT(60)
<1>8. SeqsOK' BY <1>1, <1>7, Zenon DEF BindInv, SeqsOK
<1>9. PointsOK' BY <1>1, <1>7, Zenon DEF BindInv, PointsOK
<1>10. CallsOK' BY <1>1, <1>5, <1>6, <1>7, Zenon DEF BindInv, CallsOK, Goes, CallFields
<1>11. StopInv' BY <1>1, <1>5, <1>6, ZenonT(60) DEF BindInv, StopInv
<1> QED BY <1>1, <1>7, <1>8, <1>9, <1>10, <1>11, RestKeeps, Domains, SMTT(60)

LEMMA WatchEndsKeeps == ASSUME BindInv, NEW w \in DOMAIN fwatch, WatchEnds(w) PROVE BindInv'
<1>1. UNCHANGED <<fnode, fvalid, fwvalid, ftab, flis, fcall, fruns, fcrate>> /\ fwatch[w].at = "cancelled" BY Zenon DEF WatchEnds
<1>2. PICK g : g = fwatch[w].gen BY Zenon
<1>3. /\ w \in 1..Len(fwatch) /\ fwatch \in Seq(Watchers) /\ g \in 1..Len(fgen) /\ g \in Nat /\ Len(fwatch) <= MaxOthers
  BY <1>2, Domains DEF BindInv, SeqsOK, PointsOK
<1>4. PICK n : n = [fwatch[w] EXCEPT !.at = "done"] BY ZenonT(60)
<1>5. fwatch[w] \in Watchers BY <1>3
<1>6. n \in Watchers /\ n.gen = g /\ n.at = "done" BY <1>2, <1>4, <1>5, Zenon DEF Watchers
<1>7. fwatch' = [fwatch EXCEPT ![w] = n] BY <1>4, Zenon DEF WatchEnds
<1>8. /\ fwatch' \in Seq(Watchers) /\ Len(fwatch') = Len(fwatch) /\ fwatch'[w] = n
      /\ \A x \in 1..Len(fwatch) : x # w => fwatch'[x] = fwatch[x]
  BY <1>3, <1>6, <1>7, ExceptIs
<1>d. DOMAIN fwatch' = DOMAIN fwatch BY <1>8, Domains
<1>9. fgen' \in Seq(Gens) /\ Len(fgen') = Len(fgen) /\ GenInv'
  <2>0. PICK v : v = <<"watch", w>> BY ZenonT(60)
  <2>1. v \in Pool /\ v[1] = "watch" /\ v[2] = w BY <1>3, <2>0, Domains, BindingsAssumption DEF Pool
  <2>u. ASSUME NEW u \in Pool, u[1] = "watch", u[2] = w PROVE u = v
    <3>1. u = <<u[1], u[2]>> BY DEF Pool
    <3> QED BY <2>0, <2>u, <3>1, Zenon
  <2>2. Holds(v, g) BY <1>1, <1>2, <2>1, Zenon DEF Holds
  <2>3. ASSUME NEW u \in Pool, NEW k \in Nat PROVE Holds(u, k)' <=> Holds(u, k) /\ ~(u = v /\ k = g)
    <3>1. CASE u[1] = "watch" /\ u[2] # w
      <4>1. u[2] \in DOMAIN fwatch => fwatch'[u[2]] = fwatch[u[2]] BY <1>8, <3>1, Domains, Zenon
      <4> QED BY <1>d, <2>1, <3>1, <4>1, Zenon DEF Holds
    <3>2. CASE u[1] = "watch" /\ u[2] = w BY <1>1, <1>2, <1>6, <1>8, <2>u, <3>2, ZenonT(60) DEF Holds
    <3>3. CASE u[1] \in {"node", "call", "run"} BY <1>1, <2>1, <3>3, ZenonT(60) DEF Holds
    <3> QED BY <3>1, <3>2, <3>3, Zenon DEF Pool
  <2>4. (\A k \in Nat : k # g => Users(k)' = Users(k)) /\ Users(g)' = Users(g) \ {v} /\ v \in Users(g)
    BY <1>3, <2>1, <2>2, <2>3, UsersLose, ZenonT(60)
  <2>5. fgen' = ClosedTwice(fgen, g) BY <1>2, Zenon DEF WatchEnds
  <2> QED BY <1>3, <2>4, <2>5, GensClose, Zenon
<1>10. SeqsOK' BY <1>1, <1>3, <1>8, <1>9, Zenon DEF BindInv, SeqsOK
<1>11. PointsOK' BY <1>1, <1>3, <1>6, <1>8, <1>9, Zenon DEF BindInv, PointsOK
<1>12. CallsOK' BY <1>1, <1>8, <1>9, Zenon DEF BindInv, CallsOK
<1>13. StopInv' BY <1>1, ZenonT(60) DEF BindInv, StopInv
<1>14. WatchInv' BY <1>1, <1>8, Zenon DEF BindInv, WatchInv
<1> QED BY <1>1, <1>9, <1>10, <1>11, <1>12, <1>13, <1>14, WatchKeeps, Domains, SMTT(60)

\* One user takes the place of another.
LEMMA UsersSwap ==
  ASSUME NEW v \in Pool, NEW u \in Pool, NEW g \in Nat, Holds(v, g), u # v, \A k \in Nat : ~Holds(u, k),
         \A x \in Pool, k \in Nat : Holds(x, k)' <=> (Holds(x, k) /\ ~(x = v /\ k = g)) \/ (x = u /\ k = g)
  PROVE  \A k \in Nat : Cardinality(Users(k))' = Cardinality(Users(k))
<1>1. \A k \in Nat : k # g => Users(k)' = Users(k) BY Zenon DEF Users
<1>2. Users(g)' = (Users(g) \ {v}) \cup {u} /\ v \in Users(g) /\ u \notin Users(g) BY Zenon DEF Users
<1>3. IsFiniteSet(Users(g)) /\ Cardinality(Users(g)) \in Nat BY UsersFinite, Zenon
<1>4. IsFiniteSet(Users(g) \ {v}) /\ Cardinality(Users(g) \ {v}) = Cardinality(Users(g)) - 1 BY <1>2, <1>3, FS_RemoveElement, Zenon
<1>5. u \notin Users(g) \ {v} BY <1>2, Zenon
<1>6. Cardinality((Users(g) \ {v}) \cup {u}) = Cardinality(Users(g) \ {v}) + 1 BY <1>4, <1>5, CountGains, Zenon
<1>7. Cardinality(Users(g)') = Cardinality(Users(g)) BY <1>2, <1>3, <1>4, <1>6
<1> QED BY <1>1, <1>7, Zenon

LEMMA StartedKeeps == ASSUME BindInv, NEW c \in Callers, Started(c) PROVE BindInv'
<1>1. /\ UNCHANGED <<fgen, fwatch, fwvalid, ftab, flis, fruns, fcrate>> /\ fcall[c].at = "opened" /\ Ends(c, TRUE)
      /\ Len(fnode) < MaxHandles
  BY ZenonT(60) DEF Started, In
<1>2. PICK g : g = fcall[c].arg BY Zenon
<1>3. g \in 1..Len(fgen) /\ g \in Nat /\ fnode \in Seq(Nodes) /\ fvalid \subseteq 1..Len(fnode)
  <2>1. g \in 1..Len(fgen) BY <1>1, <1>2, Zenon DEF BindInv, CallsOK
  <2>2. g \in Nat BY <2>1, Domains, RangeNat, Zenon
  <2> QED BY <2>1, <2>2, Zenon DEF BindInv, SeqsOK, StopInv
<1>4. PICK n : n = [gen |-> g, closes |-> 0, cur |-> 0, conf |-> FALSE] BY ZenonT(60)
<1>5. n \in Nodes /\ n.gen = g /\ n.closes = 0 BY <1>3, <1>4, Zenon DEF Nodes
<1>6. PICK h : h = Len(fnode) + 1 BY Zenon
<1>7. fnode' = Append(fnode, n) /\ fvalid' = fvalid \cup {h} BY <1>2, <1>4, <1>6, Zenon DEF Started
<1>8. /\ fnode' \in Seq(Nodes) /\ Len(fnode') = h /\ fnode'[h] = n /\ h \in 1..MaxHandles
      /\ \A k \in 1..Len(fnode) : fnode'[k] = fnode[k]
  BY <1>1, <1>3, <1>5, <1>6, <1>7, AppendIs, Domains, BindingsAssumption
<1>d. DOMAIN fnode' = (DOMAIN fnode) \cup {h} /\ h \notin DOMAIN fnode /\ 1..Len(fnode) \subseteq 1..Len(fnode')
  BY <1>3, <1>6, <1>8, Domains
<1>9. PICK e : Goes(c, e) /\ e.op = "ended" /\ e.at = "none" BY <1>1, EndsIs, ZenonT(60)
<1>10. DOMAIN fcall' = Callers /\ fcall'[c] = e /\ \A d \in Callers : d # c => fcall'[d] = fcall[d]
  BY <1>9, Zenon DEF BindInv, CallsOK, Goes
<1>11. GenInv'
  <2>0. PICK v, u : v = <<"call", c>> /\ u = <<"node", h>> BY ZenonT(60)
  <2>1. v \in Pool /\ v[1] = "call" /\ v[2] = c /\ u \in Pool /\ u[1] = "node" /\ u[2] = h /\ u # v BY <1>8, <2>0, Zenon DEF Pool
  <2>u. ASSUME NEW x \in Pool PROVE (x[1] = "call" /\ x[2] = c => x = v) /\ (x[1] = "node" /\ x[2] = h => x = u)
    <3>1. x = <<x[1], x[2]>> BY DEF Pool
    <3> QED BY <2>0, <3>1, Zenon
  <2>2. Holds(v, g) /\ \A k \in Nat : ~Holds(u, k) BY <1>1, <1>2, <1>d, <2>1, Zenon DEF Holds
  <2>3. ASSUME NEW x \in Pool, NEW k \in Nat
        PROVE  Holds(x, k)' <=> (Holds(x, k) /\ ~(x = v /\ k = g)) \/ (x = u /\ k = g)
    <3>1. CASE x[1] = "call" /\ x[2] \in Callers /\ x[2] # c BY <1>10, <2>1, <3>1, Zenon DEF Holds
    <3>2. CASE x[1] = "call" /\ x[2] = c BY <1>2, <1>9, <1>10, <2>1, <2>u, <3>2, ZenonT(60) DEF Holds
    <3>3. CASE x[1] = "node" /\ x[2] # h
      <4>1. x[2] \in DOMAIN fnode => fnode'[x[2]] = fnode[x[2]] BY <1>8, Domains, ZenonT(60)
      <4> QED BY <1>d, <2>1, <3>3, <4>1, ZenonT(60) DEF Holds
    <3>4. CASE x[1] = "node" /\ x[2] = h BY <1>5, <1>8, <1>d, <2>1, <2>u, <3>4, ZenonT(60) DEF Holds
    <3>5. CASE x[1] \in {"watch", "run"} BY <1>1, <2>1, <3>5, ZenonT(60) DEF Holds
    <3> QED BY <3>1, <3>2, <3>3, <3>4, <3>5, ZenonT(60) DEF Pool
  <2>4. \A k \in Nat : Cardinality(Users(k))' = Cardinality(Users(k)) BY <1>3, <2>1, <2>2, <2>3, UsersSwap
  <2> QED BY <1>1, <2>4, GensStay, Zenon
<1>12. SeqsOK' BY <1>1, <1>8, Domains, BindingsAssumption, SMTT(60) DEF BindInv, SeqsOK
<1>13. PointsOK'
  <2>1. \A k \in 1..Len(fnode') : k \in 1..Len(fnode) \/ k = h BY <1>6, <1>8, Domains
  <2> QED BY <1>1, <1>3, <1>5, <1>8, <2>1, Zenon DEF BindInv, PointsOK
<1>14. CallsOK' BY <1>1, <1>9, <1>10, <1>d, ZenonT(60) DEF BindInv, CallsOK, Goes, CallFields
<1>15. StopInv'
  <2>1. \A d \in Callers : fcall'[d].op = "stop" => d # c /\ fcall[d].op = "stop" /\ fcall'[d].arg = fcall[d].arg
    BY <1>9, <1>10, Zenon
  <2>2. \A d \in Callers : fcall[d].op = "stop" => fcall[d].arg \in 1..Len(fnode) /\ fcall[d].arg # h
    BY <1>d, Domains, Zenon DEF BindInv, CallsOK
  <2>3. fvalid' \subseteq 1..Len(fnode') BY <1>3, <1>6, <1>7, <1>8, <1>d, Domains, RangeGrows, ZenonT(60)
  <2>4. \A x \in fvalid' : fnode'[x].closes = 0 BY <1>3, <1>5, <1>7, <1>8, ZenonT(60) DEF BindInv, StopInv
  <2>5. \A d \in Callers : fcall'[d].op = "stop" => fcall'[d].arg \notin fvalid' /\ fnode'[fcall'[d].arg].closes = 0
    BY <1>7, <1>8, <2>1, <2>2 DEF BindInv, StopInv
  <2>6. \A a, b \in Callers : fcall'[a].op = "stop" /\ fcall'[b].op = "stop" /\ fcall'[a].arg = fcall'[b].arg => a = b
    BY <2>1, ZenonT(60) DEF BindInv, StopInv
  <2> QED BY <2>3, <2>4, <2>5, <2>6, Zenon DEF StopInv
<1>16. Len(fnode') >= Len(fnode) /\ Len(fnode') \in Nat BY <1>6, <1>8, Domains
<1> QED BY <1>1, <1>8, <1>11, <1>12, <1>13, <1>14, <1>15, <1>16, RestKeeps, Zenon

LEMMA WatchesKeeps == ASSUME BindInv, NEW c \in Callers, Watches(c) PROVE BindInv'
<1>1. /\ UNCHANGED <<fgen, fnode, fvalid, ftab, flis, fruns, fcrate>> /\ fcall[c].at = "opened" /\ Ends(c, TRUE)
      /\ Len(fwatch) < MaxOthers
  BY ZenonT(60) DEF Watches, In
<1>2. PICK g : g = fcall[c].arg BY Zenon
<1>3. g \in 1..Len(fgen) /\ g \in Nat /\ fwatch \in Seq(Watchers)
  BY <1>1, <1>2, Domains, SMTT(60) DEF BindInv, CallsOK, SeqsOK
<1>4. PICK n : n = [gen |-> g, at |-> "loop"] BY ZenonT(60)
<1>5. n \in Watchers /\ n.gen = g /\ n.at = "loop" BY <1>3, <1>4, Zenon DEF Watchers
<1>6. PICK h : h = Len(fwatch) + 1 BY Zenon
<1>7. fwatch' = Append(fwatch, n) /\ fwvalid' = fwvalid \cup {h} BY <1>2, <1>4, <1>6, Zenon DEF Watches
<1>8. /\ fwatch' \in Seq(Watchers) /\ Len(fwatch') = h /\ fwatch'[h] = n /\ h \in 1..MaxOthers
      /\ \A k \in 1..Len(fwatch) : fwatch'[k] = fwatch[k]
  BY <1>1, <1>3, <1>5, <1>6, <1>7, AppendIs, Domains, BindingsAssumption
<1>d. DOMAIN fwatch' = (DOMAIN fwatch) \cup {h} /\ h \notin DOMAIN fwatch /\ 1..Len(fwatch) \subseteq 1..Len(fwatch')
  BY <1>3, <1>6, <1>8, Domains
<1>9. PICK e : Goes(c, e) /\ e.op = "ended" /\ e.at = "none" BY <1>1, EndsIs, ZenonT(60)
<1>10. DOMAIN fcall' = Callers /\ fcall'[c] = e /\ \A d \in Callers : d # c => fcall'[d] = fcall[d]
  BY <1>9, Zenon DEF BindInv, CallsOK, Goes
<1>11. GenInv'
  <2>0. PICK v, u : v = <<"call", c>> /\ u = <<"watch", h>> BY ZenonT(60)
  <2>1. v \in Pool /\ v[1] = "call" /\ v[2] = c /\ u \in Pool /\ u[1] = "watch" /\ u[2] = h /\ u # v BY <1>8, <2>0, Zenon DEF Pool
  <2>u. ASSUME NEW x \in Pool PROVE (x[1] = "call" /\ x[2] = c => x = v) /\ (x[1] = "watch" /\ x[2] = h => x = u)
    <3>1. x = <<x[1], x[2]>> BY DEF Pool
    <3> QED BY <2>0, <3>1, Zenon
  <2>2. Holds(v, g) /\ \A k \in Nat : ~Holds(u, k) BY <1>1, <1>2, <1>d, <2>1, Zenon DEF Holds
  <2>3. ASSUME NEW x \in Pool, NEW k \in Nat
        PROVE  Holds(x, k)' <=> (Holds(x, k) /\ ~(x = v /\ k = g)) \/ (x = u /\ k = g)
    <3>1. CASE x[1] = "call" /\ x[2] \in Callers /\ x[2] # c BY <1>10, <2>1, <3>1, Zenon DEF Holds
    <3>2. CASE x[1] = "call" /\ x[2] = c BY <1>2, <1>9, <1>10, <2>1, <2>u, <3>2, ZenonT(60) DEF Holds
    <3>3. CASE x[1] = "watch" /\ x[2] # h
      <4>1. x[2] \in DOMAIN fwatch => fwatch'[x[2]] = fwatch[x[2]] BY <1>8, Domains, ZenonT(60)
      <4> QED BY <1>d, <2>1, <3>3, <4>1, ZenonT(60) DEF Holds
    <3>4. CASE x[1] = "watch" /\ x[2] = h BY <1>5, <1>8, <1>d, <2>1, <2>u, <3>4, ZenonT(60) DEF Holds
    <3>5. CASE x[1] \in {"node", "run"} BY <1>1, <2>1, <3>5, ZenonT(60) DEF Holds
    <3> QED BY <3>1, <3>2, <3>3, <3>4, <3>5, ZenonT(60) DEF Pool
  <2>4. \A k \in Nat : Cardinality(Users(k))' = Cardinality(Users(k)) BY <1>3, <2>1, <2>2, <2>3, UsersSwap
  <2> QED BY <1>1, <2>4, GensStay, Zenon
<1>12. SeqsOK' BY <1>1, <1>8, Domains, BindingsAssumption, SMTT(60) DEF BindInv, SeqsOK
<1>13. PointsOK'
  <2>1. \A k \in 1..Len(fwatch') : k \in 1..Len(fwatch) \/ k = h BY <1>6, <1>8, Domains
  <2> QED BY <1>1, <1>3, <1>5, <1>8, <2>1, Zenon DEF BindInv, PointsOK
<1>14. CallsOK' BY <1>1, <1>9, <1>10, <1>d, ZenonT(60) DEF BindInv, CallsOK, Goes, CallFields
<1>15. StopInv' BY <1>1, <1>9, <1>10, ZenonT(60) DEF BindInv, StopInv
<1>16. WatchInv' BY <1>5, <1>7, <1>8, <1>d, Domains, SMTT(60) DEF BindInv, WatchInv
<1> QED BY <1>1, <1>11, <1>12, <1>13, <1>14, <1>15, <1>16, WatchKeeps, Domains, SMTT(60)

LEMMA BindInductive == BindInv /\ [BindingsNext]_fvars => BindInv'
<1> SUFFICES ASSUME BindInv, [BindingsNext]_fvars PROVE BindInv' BY Zenon
<1>1. ASSUME NEW c \in Callers,
             \/ \E r \in FRepos : StartOpens(c, r) \/ WatchOpens(c, r) \/ Runs(c, r)
             \/ StartRefused(c) \/ StartFails(c) \/ StartFailsLate(c) \/ Started(c) \/ Stops(c)
             \/ \E h \in DOMAIN fnode : Take(c, h) \/ \E op \in {"set", "serve", "use"} : Found(c, op, h) /\ UNCHANGED fvalid
             \/ Configures(c) \/ Serves(c) \/ Uses(c) \/ WatchFails(c) \/ Watches(c) \/ Unwatched(c)
             \/ \E w \in DOMAIN fwatch : Unwatch(c, w)
             \/ TableCalls(c)
             \/ ReadError(c)
      PROVE  BindInv'
  BY <1>1, OpensKeeps, RunsKeeps, PlainKeeps, FailsKeeps, StartedKeeps, StopsKeeps, TakeKeeps, FoundKeeps,
     ConfiguresKeeps, ServesKeeps, WatchesKeeps, UnwatchKeeps, TableCallsKeep, Zenon
<1>2. ASSUME NEW w \in DOMAIN fwatch, WatchEnds(w) PROVE BindInv' BY <1>2, WatchEndsKeeps, Zenon
<1> QED BY <1>1, <1>2, ServerKeeps, Zenon DEF BindingsNext

\* What the C bindings (ffi/) and the repo they share (repo/onlyone.go) promise, for any
\* number of threads, nodes, watchers and command runs in any order: a handle is closed
\* once however many threads stop it; the repo of a running node is open as long as none
\* of its users closed its reference twice, and is closed once nothing runs on it; a
\* gateway started after a token was set asks for one; and a crate file that does not
\* match the index is never kept. The sequences of handles are bounded by the constants
\* and the reference count wraps at RefWrap, more than the references there can be.
THEOREM BindingsAreSafe == BindingsSpec => []BindingsSafe
<1>1. BindingsSpec => []BindInv BY BindInitially, BindInductive, PTL DEF BindingsSpec
<1> QED BY <1>1, BindSafely, PTL
=============================================================================
