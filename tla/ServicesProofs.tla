--------------------------- MODULE ServicesProofs ---------------------------
(***************************************************************************)
(* What the daemon keeps for its user, for any number of names, calls,     *)
(* keys, collectors and restarts: the keystore (Keys) and the identifier   *)
(* that telemetry reports under (Telemetry).                               *)
(***************************************************************************)
EXTENDS Keys, Telemetry, FiniteSetTheorems, WellFoundedInduction, TLAPS

-----------------------------------------------------------------------------
(* The keystore: no key is lost                                             *)

\* The names a key is under, and the renames that are about to take it from one.
Under(k, st) == {n \in KNames : st[n] = k}
Leaving(k, calls) ==
  {c \in KCallers : calls[c].op = "rename" /\ calls[c].at = "delete" /\ calls[c].key = k}

\* More names have the key than renames will take it from.
Held(k, st, calls) == Cardinality(Leaving(k, calls)) < Cardinality(Under(k, st))
HeldNow(k) == Held(k, kst, kcall)
HeldNext(k) == Held(k, kst', kcall')

\* At most one rotate runs, and it has the repo's lock.
RotateInv ==
  /\ \A c \in KCallers : kcall[c].op = "rotate" => kmode = "rotate"
  /\ \A c, d \in KCallers : kcall[c].op = "rotate" /\ kcall[d].op = "rotate" => c = d

\* Unless it was deleted on request, a key is held while a rename works with it,
\* once a rotate has backed it up, and once it is no longer the identity.
HeldInv ==
  /\ \A c \in KCallers : kcall[c].op = "rename" => kcall[c].key \in klost \/ HeldNow(kcall[c].key)
  /\ \A c \in KCallers : KAt(c, "rotate", "save") => kident \in klost \/ HeldNow(kident)
  /\ \A k \in khad \ (klost \cup {kident}) : HeldNow(k)

\* An exported file is flushed before it gets its name.
ExportInv == xp.file # "empty" /\ (xp.file = "whole" => xp.synced)

KeysInv == KeysTypeOK /\ RotateInv /\ HeldInv /\ ExportInv /\ TtlWithin

-----------------------------------------------------------------------------
(* Counting names and renames.                                                *)

LEMMA Counts ==
    ASSUME NEW U \in SUBSET KNames, NEW L \in SUBSET KCallers
    PROVE  /\ IsFiniteSet(U) /\ Cardinality(U) \in Nat
           /\ IsFiniteSet(L) /\ Cardinality(L) \in Nat
<1>1. IsFiniteSet(U) /\ IsFiniteSet(L)
  BY FS_Subset, KeysAssumption, Zenon
<1> QED BY <1>1, FS_CardinalityType, Zenon

\* More names, or fewer renames.
LEMMA StillMore ==
    ASSUME NEW U \in SUBSET KNames, NEW V \in SUBSET KNames, U \subseteq V,
           NEW L \in SUBSET KCallers, NEW M \in SUBSET KCallers, M \subseteq L,
           Cardinality(L) < Cardinality(U)
    PROVE  Cardinality(M) < Cardinality(V)
<1>1. Cardinality(U) <= Cardinality(V)
  BY Counts, FS_Subset, Zenon
<1>2. Cardinality(M) <= Cardinality(L)
  BY Counts, FS_Subset, Zenon
<1>3. /\ Cardinality(U) \in Nat /\ Cardinality(V) \in Nat
      /\ Cardinality(L) \in Nat /\ Cardinality(M) \in Nat
  BY Counts, Zenon
<1> QED BY <1>1, <1>2, <1>3

\* A rename that puts the key under one more name.
LEMMA OneMore ==
    ASSUME NEW U \in SUBSET KNames, NEW n \in KNames \ U,
           NEW L \in SUBSET KCallers, NEW c \in KCallers,
           Cardinality(L) < Cardinality(U)
    PROVE  Cardinality(L \cup {c}) < Cardinality(U \cup {n})
<1>1. IsFiniteSet(U) /\ IsFiniteSet(L) /\ Cardinality(U) \in Nat /\ Cardinality(L) \in Nat
  BY Counts, Zenon
<1>2. Cardinality(U \cup {n}) = Cardinality(U) + 1
  BY <1>1, FS_AddElement, ZenonT(60)
<1>3. Cardinality(L \cup {c}) = IF c \in L THEN Cardinality(L) ELSE Cardinality(L) + 1
  BY <1>1, FS_AddElement, ZenonT(60)
<1> QED BY <1>1, <1>2, <1>3

\* A rename that takes the key from one name.
LEMMA OneLess ==
    ASSUME NEW U \in SUBSET KNames, NEW n \in U,
           NEW L \in SUBSET KCallers, NEW c \in L,
           Cardinality(L) < Cardinality(U)
    PROVE  Cardinality(L \ {c}) < Cardinality(U \ {n})
<1>1. IsFiniteSet(U) /\ IsFiniteSet(L) /\ Cardinality(U) \in Nat /\ Cardinality(L) \in Nat
  BY Counts, Zenon
<1>2. Cardinality(U \ {n}) = Cardinality(U) - 1
  BY <1>1, FS_RemoveElement, ZenonT(60)
<1>3. Cardinality(L \ {c}) = Cardinality(L) - 1
  BY <1>1, FS_RemoveElement, ZenonT(60)
<1> QED BY <1>1, <1>2, <1>3

LEMMA OneName ==
    ASSUME NEW U \in SUBSET KNames, U # {}
    PROVE  0 < Cardinality(U) /\ Cardinality({}) = 0
<1>1. Cardinality(U) \in Nat /\ IsFiniteSet(U)
  BY Counts, Zenon
<1>2. Cardinality(U) # 0
  BY <1>1, FS_EmptySet, Zenon
<1> QED BY <1>1, <1>2, FS_EmptySet

-----------------------------------------------------------------------------
(* Types.                                                                     *)

LEMMA CallTypes ==
    /\ KIdle \in KCalls
    /\ \A r \in KCalls :
         /\ r.op \in {"put", "rename", "rotate"} => r.to \in KNames /\ r.key \in 1 .. MaxKeys
         /\ r.op \in {"rename", "rm"} => r.from \in KNames
         /\ r.ttl \in Nat /\ r.life \in Nat
<1>1. KIdle \in KCalls
  BY KeysAssumption DEF KCalls, KIdle, NoKey
<1>2. ASSUME NEW r \in KCalls
      PROVE  /\ r.op \in {"put", "rename", "rotate"} => r.to \in KNames /\ r.key \in 1 .. MaxKeys
             /\ r.op \in {"rename", "rm"} => r.from \in KNames
             /\ r.ttl \in Nat /\ r.life \in Nat
  BY KeysAssumption DEF KCalls, NoKey
<1> QED BY <1>1, <1>2, Zenon

\* What KGoes makes of a call.
LEMMA CallGoes ==
    ASSUME NEW at \in {"put", "overwrite", "delete", "save"},
           NEW c \in KCallers, kcall \in [KCallers -> KCalls], KGoes(c, at)
    PROVE  /\ kcall' \in [KCallers -> KCalls]
           /\ kcall'[c].op = kcall[c].op /\ kcall'[c].from = kcall[c].from
           /\ kcall'[c].to = kcall[c].to /\ kcall'[c].key = kcall[c].key
           /\ kcall'[c].at = at
           /\ kcall'[c].ttl = kcall[c].ttl /\ kcall'[c].life = kcall[c].life
           /\ \A d \in KCallers \ {c} : kcall'[d] = kcall[d]
<1> DEFINE s == kcall[c]
           r == [s EXCEPT !.at = at]
<1>1. s \in KCalls
  BY Zenon
<1>2. /\ r \in KCalls
      /\ r.op = s.op /\ r.from = s.from /\ r.to = s.to /\ r.key = s.key /\ r.at = at
      /\ r.ttl = s.ttl /\ r.life = s.life
  <2> HIDE DEF s
  <2> QED BY <1>1, Zenon DEF KCalls
<1>3. kcall' = [kcall EXCEPT ![c] = r]
  BY Zenon DEF KGoes
<1> HIDE DEF r
<1> QED BY <1>2, <1>3, Zenon

LEMMA CallEnds ==
    ASSUME NEW c \in KCallers, kcall \in [KCallers -> KCalls], KDone(c)
    PROVE  /\ kcall' \in [KCallers -> KCalls] /\ kcall'[c] = KIdle
           /\ \A d \in KCallers \ {c} : kcall'[d] = kcall[d]
BY CallTypes, Zenon DEF KDone

LEMMA PublishEnters ==
    ASSUME KeysTypeOK, NEW c \in KCallers, NEW byId, NEW given \in BOOLEAN, NEW n, NEW k,
           NEW ttl \in 0 .. 2, NEW life \in 1 .. 2, PublishLooks(c, byId, n, k, given, ttl, life)
    PROVE  /\ kcall' \in [KCallers -> KCalls] /\ kcall'[c].op = "publish"
           /\ kcall'[c].ttl <= kcall'[c].life
           /\ \A d \in KCallers \ {c} : kcall'[d] = kcall[d]
<1> DEFINE t == Ttl(given, ttl, life)
           r == [op |-> "publish", from |-> "none", to |-> "none", key |-> NoKey, at |-> "none",
                 ttl |-> t, life |-> life]
<1>1. t \in Nat /\ t <= life /\ life \in Nat
  BY KeysAssumption DEF PublishLooks, Ttl
<1>2. kcall' = [kcall EXCEPT ![c] = r] /\ kcall \in [KCallers -> KCalls]
  BY Zenon DEF PublishLooks, KeysTypeOK
<1> HIDE DEF t
<1>3. r \in KCalls
  BY <1>1, KeysAssumption DEF KCalls, NoKey
<1>4. r.op = "publish" /\ r.ttl = t /\ r.life = life
  BY Zenon
<1> HIDE DEF r
<1> QED BY <1>1, <1>2, <1>3, <1>4, Zenon

\* The exports: they leave the keystore and the calls alone.
Exports ==
    \/ ExportReads \/ ExportStats \/ PathSwapped \/ ExportOpens
    \/ ExportResolves \/ ExportWrites \/ ExportRenames \/ ExportOver

LEMMA ExportStep ==
    ASSUME KeysTypeOK, ExportInv, Exports
    PROVE  KeysTypeOK' /\ ExportInv' /\ XKeep
<1> USE KeysAssumption DEF KeysTypeOK, ExportInv, XIdle, XPaths, XKeep
<1>1. CASE ExportReads
  <2>1. PICK t \in XTargets : xp' = [t EXCEPT !.at = "stat"]
    BY <1>1, Zenon DEF ExportReads
  <2>2. t \in [at : {"idle"}, path : XPaths, hops : Nat, file : {"none", "prev"}, synced : BOOLEAN]
    <3>1. CASE t = XIdle
      BY <3>1, Zenon
    <3>2. ASSUME NEW w \in {"pipe", "other"}, t = [XIdle EXCEPT !.path = w]
          PROVE  t \in [at : {"idle"}, path : XPaths, hops : Nat, file : {"none", "prev"}, synced : BOOLEAN]
      BY <3>2, ZenonT(60)
    <3>3. ASSUME NEW h \in {MaxHops - 1, MaxHops},
                 t = [XIdle EXCEPT !.path = "file", !.file = "prev", !.synced = TRUE, !.hops = h]
          PROVE  t \in [at : {"idle"}, path : XPaths, hops : Nat, file : {"none", "prev"}, synced : BOOLEAN]
      <4>1. h \in Nat
        OBVIOUS
      <4> HIDE KeysAssumption
      <4> QED BY <3>3, <4>1, ZenonT(60)
    <3> QED BY <3>1, <3>2, <3>3, Zenon DEF XTargets
  <2>3. XKeep
    BY <1>1, Zenon DEF ExportReads
  <2> QED BY <2>1, <2>2, <2>3, Zenon
<1>2. CASE ExportStats
  BY <1>2, Zenon DEF ExportStats
<1>3. CASE PathSwapped
  BY <1>3, ZenonT(60) DEF PathSwapped
<1>4. CASE ExportOpens \/ ExportResolves
  BY <1>4, ZenonT(60) DEF ExportOpens, ExportResolves
<1>5. CASE ExportWrites
  BY <1>5, Zenon DEF ExportWrites
<1>6. CASE ExportRenames
  BY <1>6, ZenonT(60) DEF ExportRenames
<1>7. CASE ExportOver
  BY <1>7, Zenon DEF ExportOver
<1> QED BY <1>1, <1>2, <1>3, <1>4, <1>5, <1>6, <1>7, Zenon DEF Exports

\* A crash ends every call, and cuts what was written and not flushed.
LEMMA CrashStep ==
    ASSUME KeysTypeOK, ExportInv, KeysCrash
    PROVE  KeysTypeOK' /\ ExportInv' /\ \A c \in KCallers : kcall'[c] = KIdle
<1>1. kcall' = [c \in KCallers |-> KIdle] /\ UNCHANGED <<kst, kident, knext, khad, klost>>
      /\ kmode' = "none"
  BY Zenon DEF KeysCrash
<1>2. /\ xp' \in [at : {"idle", "stat", "open", "resolve", "temp", "sync", "done"}, path : XPaths,
                  hops : Nat, file : {"none", "prev", "whole", "empty"}, synced : BOOLEAN]
      /\ ExportInv'
  BY ZenonT(60) DEF KeysCrash, KeysTypeOK, ExportInv
<1> QED BY <1>1, <1>2, CallTypes, Zenon DEF KeysTypeOK

-----------------------------------------------------------------------------
(* Keys are held.                                                             *)

LEMMA HeldTypes ==
    ASSUME NEW k, NEW st, NEW calls
    PROVE  Under(k, st) \in SUBSET KNames /\ Leaving(k, calls) \in SUBSET KCallers
BY Zenon DEF Under, Leaving

\* A key that is under some name is held, unless it was deleted on request.
LEMMA UnderIsHeld ==
    ASSUME HeldInv, NEW n \in KNames, kst[n] \notin klost
    PROVE  HeldNow(kst[n])
<1> DEFINE k == kst[n]
<1>1. Under(k, kst) # {}
  BY Zenon DEF Under
<1>2. CASE Leaving(k, kcall) = {}
  <2>1. 0 < Cardinality(Under(k, kst)) /\ Cardinality({}) = 0
    BY <1>1, HeldTypes, OneName, Zenon
  <2> QED BY <1>2, <2>1, Zenon DEF HeldNow, Held
<1>3. CASE Leaving(k, kcall) # {}
  <2>1. PICK c \in KCallers : kcall[c].op = "rename" /\ kcall[c].key = k
    BY <1>3, Zenon DEF Leaving
  <2> QED BY <2>1, Zenon DEF HeldInv
<1> QED BY <1>2, <1>3, Zenon

\* What is left to show of a step: that it keeps what is held, and that it
\* starts to work with a key only if that is held.
LEMMA HeldFrame ==
    ASSUME KeysTypeOK, HeldInv, klost \subseteq klost',
           \A k \in 1 .. MaxKeys : HeldNow(k) /\ k \notin klost' => HeldNext(k),
           \A c \in KCallers : kcall'[c].op = "rename" =>
              \/ kcall[c].op = "rename" /\ kcall'[c].key = kcall[c].key
              \/ kcall'[c].key \in klost' \/ HeldNext(kcall'[c].key),
           \A c \in KCallers : KAt(c, "rotate", "save")' =>
              \/ KAt(c, "rotate", "save") /\ kident' = kident
              \/ kident' \in klost' \/ HeldNext(kident'),
           \A k \in khad' \ (klost' \cup {kident'}) : k \in khad \ {kident} \/ HeldNext(k)
    PROVE  HeldInv'
<1>1. ASSUME NEW c \in KCallers, kcall'[c].op = "rename"
      PROVE  kcall'[c].key \in klost' \/ HeldNext(kcall'[c].key)
  <2>1. CASE kcall[c].op = "rename" /\ kcall'[c].key = kcall[c].key
    <3>1. kcall[c].key \in 1 .. MaxKeys
      BY <2>1, CallTypes, Zenon DEF KeysTypeOK
    <3>2. kcall[c].key \in klost \/ HeldNow(kcall[c].key)
      BY <2>1, Zenon DEF HeldInv
    <3> QED BY <2>1, <3>1, <3>2, Zenon
  <2> QED BY <1>1, <2>1, Zenon
<1>2. ASSUME NEW c \in KCallers, KAt(c, "rotate", "save")'
      PROVE  kident' \in klost' \/ HeldNext(kident')
  <2>1. CASE KAt(c, "rotate", "save") /\ kident' = kident
    BY <2>1, Zenon DEF HeldInv, KeysTypeOK
  <2> QED BY <1>2, <2>1, Zenon
<1>3. ASSUME NEW k \in khad' \ (klost' \cup {kident'}) PROVE HeldNext(k)
  <2>1. CASE k \in khad \ {kident}
    <3>1. k \in 1 .. MaxKeys /\ k \notin klost
      BY <1>3, <2>1, Zenon DEF KeysTypeOK
    <3>2. HeldNow(k)
      BY <2>1, <3>1, Zenon DEF HeldInv
    <3> QED BY <1>3, <3>1, <3>2, Zenon
  <2> QED BY <1>3, <2>1, Zenon
<1> QED BY <1>1, <1>2, <1>3, Zenon DEF HeldInv, HeldNow, HeldNext

\* A step that neither moves a key nor lets a rename come to its Delete.
LEMMA QuietStep ==
    ASSUME KeysTypeOK, HeldInv, UNCHANGED <<kst, kident, khad, klost>>,
           \A c \in KCallers :
              \/ kcall'[c] = kcall[c]
              \/ kcall'[c].op \notin {"rename", "rotate"}
              \/ /\ kcall'[c].op = "rename" /\ kcall'[c].at # "delete"
                 /\ \/ kcall[c].op = "rename" /\ kcall'[c].key = kcall[c].key
                    \/ \E n \in KNames : kst[n] = kcall'[c].key
              \/ kcall'[c].op = "rotate" /\ kcall'[c].at = "backup"
    PROVE  HeldInv'
<1>1. ASSUME NEW k, HeldNow(k) PROVE HeldNext(k)
  <2>1. Leaving(k, kcall') \subseteq Leaving(k, kcall) /\ Under(k, kst') = Under(k, kst)
    BY Zenon DEF Leaving, Under
  <2> QED BY <1>1, <2>1, HeldTypes, StillMore, Zenon DEF HeldNow, HeldNext, Held
<1>2. ASSUME NEW c \in KCallers, kcall'[c].op = "rename"
      PROVE  \/ kcall[c].op = "rename" /\ kcall'[c].key = kcall[c].key
             \/ kcall'[c].key \in klost' \/ HeldNext(kcall'[c].key)
  <2>1. ASSUME NEW n \in KNames, kst[n] = kcall'[c].key, kst[n] \notin klost
        PROVE  HeldNext(kcall'[c].key)
    BY <1>1, <2>1, UnderIsHeld, Zenon
  <2> QED BY <1>2, <2>1, Zenon
<1>3. ASSUME NEW c \in KCallers, KAt(c, "rotate", "save")'
      PROVE  KAt(c, "rotate", "save") /\ kident' = kident
  BY <1>3, Zenon DEF KAt
<1> QED BY <1>1, <1>2, <1>3, HeldFrame, Zenon

\* Put under a free name, by a call c that is a rename, or not.
LEMMA PutStep ==
    ASSUME KeysTypeOK, HeldInv, NEW c \in KCallers, NEW n \in KNames, NEW k \in 1 .. MaxKeys,
           KPut(n, k), UNCHANGED <<kident, klost>>,
           \A d \in KCallers \ {c} : kcall'[d] = kcall[d],
           \/ kcall'[c].op # "rename" /\ (KAt(c, "rotate", "save")' => k = kident)
           \/ kcall[c].op = "rename" /\ kcall'[c].op = "rename" /\ kcall[c].key = k /\ kcall'[c].key = k
    PROVE  HeldInv'
<1>1. /\ Under(k, kst') = Under(k, kst) \cup {n} /\ n \notin Under(k, kst)
      /\ \A i : Under(i, kst) \subseteq Under(i, kst') \/ i = NoKey
  BY DEF KPut, Under, KeysTypeOK, NoKey
<1>2. /\ \A i : i # k => Leaving(i, kcall') \subseteq Leaving(i, kcall)
      /\ Leaving(k, kcall') \subseteq Leaving(k, kcall) \cup {c}
      /\ kcall'[c].op # "rename" => Leaving(k, kcall') \subseteq Leaving(k, kcall)
  BY Zenon DEF Leaving
<1>3. ASSUME NEW i \in 1 .. MaxKeys, HeldNow(i) PROVE HeldNext(i)
  <2>1. CASE i # k
    <3>1. Under(i, kst) \subseteq Under(i, kst')
      BY <1>1 DEF NoKey
    <3> QED BY <1>2, <1>3, <2>1, <3>1, HeldTypes, StillMore, Zenon DEF HeldNow, HeldNext, Held
  <2>2. CASE i = k
    <3>1. Cardinality(Leaving(k, kcall) \cup {c}) < Cardinality(Under(k, kst) \cup {n})
      BY <1>1, <1>3, <2>2, HeldTypes, OneMore, Zenon DEF HeldNow, Held
    <3>2. Leaving(k, kcall) \cup {c} \in SUBSET KCallers
      BY HeldTypes, ZenonT(60)
    <3>3. Cardinality(Leaving(k, kcall')) < Cardinality(Under(k, kst'))
      BY <1>1, <1>2, <3>1, <3>2, HeldTypes, StillMore
    <3> QED BY <2>2, <3>3, Zenon DEF HeldNext, Held
  <2> QED BY <2>1, <2>2, Zenon
<1>4. k \in klost \/ HeldNext(k)
  <2>1. CASE HeldNow(k)
    BY <1>3, <2>1, Zenon
  <2>2. CASE ~HeldNow(k) /\ k \notin klost
    <3>1. Leaving(k, kcall) = {} /\ kcall'[c].op # "rename"
      BY <2>2, Zenon DEF HeldInv, Leaving
    <3>2. Leaving(k, kcall') = {} /\ Under(k, kst') # {}
      BY <1>1, <1>2, <3>1, Zenon
    <3>3. 0 < Cardinality(Under(k, kst')) /\ Cardinality({}) = 0
      BY <3>2, HeldTypes, OneName, Zenon
    <3> QED BY <3>2, <3>3, Zenon DEF HeldNext, Held
  <2> QED BY <2>1, <2>2, Zenon
<1>5. ASSUME NEW d \in KCallers, kcall'[d].op = "rename"
      PROVE  \/ kcall[d].op = "rename" /\ kcall'[d].key = kcall[d].key
             \/ kcall'[d].key \in klost' \/ HeldNext(kcall'[d].key)
  BY <1>5, Zenon
<1>6. ASSUME NEW d \in KCallers, KAt(d, "rotate", "save")'
      PROVE  \/ KAt(d, "rotate", "save") /\ kident' = kident
             \/ kident' \in klost' \/ HeldNext(kident')
  <2>1. CASE d = c
    BY <1>4, <1>6, <2>1, Zenon DEF KAt
  <2>2. CASE d # c
    BY <1>6, <2>2, Zenon DEF KAt
  <2> QED BY <2>1, <2>2, Zenon
<1>7. ASSUME NEW i \in khad' \ (klost' \cup {kident'}) PROVE i \in khad \ {kident} \/ HeldNext(i)
  BY <1>4, <1>7, Zenon DEF KPut
<1> QED BY <1>3, <1>5, <1>6, <1>7, HeldFrame, Zenon

\* Delete of a name: on request, or at the end of a rename of that key.
LEMMA DeleteStep ==
    ASSUME KeysTypeOK, HeldInv, NEW c \in KCallers, NEW n \in KNames,
           KDelete(n), UNCHANGED <<kident, khad>>, klost \subseteq klost',
           \A d \in KCallers \ {c} : kcall'[d] = kcall[d],
           \/ kcall'[c].op \notin {"rename", "rotate"}
           \/ /\ kcall[c].op = "rename" /\ kcall'[c].op = "rename" /\ kcall'[c].at # "delete"
              /\ kcall'[c].key = kcall[c].key,
           kst[n] \in klost' \/ c \in Leaving(kst[n], kcall)
    PROVE  HeldInv'
<1>1. /\ \A i : i # kst[n] => Under(i, kst) \subseteq Under(i, kst')
      /\ Under(kst[n], kst') = Under(kst[n], kst) \ {n} /\ n \in Under(kst[n], kst)
  BY Zenon DEF KDelete, Under, KeysTypeOK, NoKey
<1>2. \A i : Leaving(i, kcall') \subseteq Leaving(i, kcall) \ {c}
  BY Zenon DEF Leaving
<1>3. ASSUME NEW i \in 1 .. MaxKeys, HeldNow(i), i \notin klost' PROVE HeldNext(i)
  <2>1. CASE i # kst[n]
    <3>1. Leaving(i, kcall') \subseteq Leaving(i, kcall)
      BY <1>2, Zenon
    <3> QED BY <1>1, <1>3, <2>1, <3>1, HeldTypes, StillMore, Zenon DEF HeldNow, HeldNext, Held
  <2>2. CASE i = kst[n]
    <3>1. c \in Leaving(i, kcall)
      BY <1>3, <2>2, Zenon
    <3>2. Cardinality(Leaving(i, kcall) \ {c}) < Cardinality(Under(i, kst) \ {n})
      BY <1>1, <1>3, <2>2, <3>1, HeldTypes, OneLess, Zenon DEF HeldNow, Held
    <3>3. Leaving(i, kcall) \ {c} \in SUBSET KCallers
      BY HeldTypes, Zenon
    <3>4. Cardinality(Leaving(i, kcall')) < Cardinality(Under(i, kst'))
      BY <1>1, <1>2, <2>2, <3>2, <3>3, HeldTypes, StillMore, ZenonT(60)
    <3> QED BY <3>4, Zenon DEF HeldNext, Held
  <2> QED BY <2>1, <2>2, Zenon
<1>4. ASSUME NEW d \in KCallers, kcall'[d].op = "rename"
      PROVE  kcall[d].op = "rename" /\ kcall'[d].key = kcall[d].key
  BY <1>4, Zenon
<1>5. ASSUME NEW d \in KCallers, KAt(d, "rotate", "save")'
      PROVE  KAt(d, "rotate", "save") /\ kident' = kident
  BY <1>5, Zenon DEF KAt
<1> QED BY <1>3, <1>4, <1>5, HeldFrame, Zenon

-----------------------------------------------------------------------------
(* The calls, one by one.                                                     *)

LEMMA CallBegins ==
    ASSUME KeysInv, NEW c \in KCallers, NEW n \in KNames,
           \/ GenChecks(c, n) \/ RmGets(c, n) \/ RotateOpens(c, n)
           \/ \E k \in 1 .. MaxKeys : ImportChecks(c, n, k)
           \/ \E o \in KNames, force \in BOOLEAN : RenameGets(c, o, n, force)
    PROVE  KeysInv'
<1>0. /\ kcall \in [KCallers -> KCalls] /\ KeysTypeOK /\ HeldInv
      /\ UNCHANGED <<kst, kident, khad, klost, xp>>
      /\ kcall[c] = KIdle
  BY Zenon DEF KeysInv, KeysTypeOK, GenChecks, RmGets, RotateOpens, ImportChecks, RenameGets, KRest
<1>1. PICK op \in {"put", "rename", "rm", "rotate"}, from \in KNames \cup {"none"},
           to \in KNames \cup {"none"}, k \in 1 .. MaxKeys, at \in {"put", "has", "delete", "backup"} :
        /\ KEnter(c, op, from, to, k, at)
        /\ op \in {"put", "rename", "rotate"} => to \in KNames
        /\ op \in {"rename", "rm"} => from \in KNames
        /\ op = "rename" => at # "delete" /\ \E o \in KNames : kst[o] = k
        /\ op = "rotate" => at = "backup" /\ kmode = "none" /\ kmode' = "rotate"
        /\ op # "rotate" => UNCHANGED kmode
        /\ knext' = knext \/ (knext <= MaxKeys /\ knext' = knext + 1)
  <2> USE KeysAssumption DEF KeysInv, KeysTypeOK, NoKey
  <2>1. CASE GenChecks(c, n)
    <3>1. /\ KEnter(c, "put", "none", n, knext, "put") /\ knext \in 1 .. MaxKeys /\ UNCHANGED kmode
          /\ knext <= MaxKeys /\ knext' = knext + 1
      BY <2>1 DEF GenChecks
    <3> HIDE DEF KeysInv, KeysTypeOK
    <3> QED BY <3>1, Zenon
  <2>2. CASE RmGets(c, n)
    <3>1. KEnter(c, "rm", n, "none", kst[n], "delete") /\ kst[n] \in 1 .. MaxKeys /\ UNCHANGED <<kmode, knext>>
      BY <2>2 DEF RmGets
    <3> HIDE DEF KeysInv, KeysTypeOK
    <3> QED BY <3>1, Zenon
  <2>3. CASE RotateOpens(c, n)
    <3>1. /\ KEnter(c, "rotate", "none", n, knext, "backup") /\ knext \in 1 .. MaxKeys
          /\ kmode = "none" /\ kmode' = "rotate" /\ knext <= MaxKeys /\ knext' = knext + 1
      BY <2>3 DEF RotateOpens
    <3> HIDE DEF KeysInv, KeysTypeOK
    <3> QED BY <3>1, Zenon
  <2>4. ASSUME NEW k \in 1 .. MaxKeys, ImportChecks(c, n, k)
        PROVE  KEnter(c, "put", "none", n, k, "put") /\ UNCHANGED <<kmode, knext>>
    BY <2>4, Zenon DEF ImportChecks
  <2>5. ASSUME NEW o \in KNames, NEW force \in BOOLEAN, RenameGets(c, o, n, force)
        PROVE  /\ KEnter(c, "rename", o, n, kst[o], IF force THEN "has" ELSE "put")
               /\ kst[o] \in 1 .. MaxKeys /\ UNCHANGED <<kmode, knext>>
    BY <2>5 DEF RenameGets
  <2> HIDE KeysAssumption DEF KeysInv, KeysTypeOK, NoKey
  <2>6. CASE \E k \in 1 .. MaxKeys : ImportChecks(c, n, k)
    BY <2>4, <2>6, Zenon
  <2>7. CASE \E o \in KNames, force \in BOOLEAN : RenameGets(c, o, n, force)
    <3>1. PICK o \in KNames, force \in BOOLEAN : RenameGets(c, o, n, force)
      BY <2>7, Zenon
    <3>2. CASE force
      BY <2>5, <3>1, <3>2, ZenonT(60)
    <3>3. CASE ~force
      BY <2>5, <3>1, <3>3, Zenon
    <3> QED BY <3>2, <3>3, Zenon
  <2> QED BY <2>1, <2>2, <2>3, <2>6, <2>7, Zenon
<1>2. /\ kcall' \in [KCallers -> KCalls]
      /\ kcall'[c].op = op /\ kcall'[c].key = k /\ kcall'[c].at = at
      /\ kcall'[c].ttl = 0 /\ kcall'[c].life = 0
      /\ \A d \in KCallers \ {c} : kcall'[d] = kcall[d]
  <2>1. /\ KEnter(c, op, from, to, k, at)
        /\ op \in {"put", "rename", "rotate"} => to \in KNames
        /\ op \in {"rename", "rm"} => from \in KNames
    BY <1>1, Zenon
  <2>2. kcall \in [KCallers -> KCalls] BY <1>0, Zenon
  <2> DEFINE r == [op |-> op, from |-> from, to |-> to, key |-> k, at |-> at, ttl |-> 0, life |-> 0]
  <2>3. r \in KCalls BY <2>1, KeysAssumption DEF KCalls, NoKey
  <2>4. kcall' = [kcall EXCEPT ![c] = r] BY <2>1, Zenon DEF KEnter
  <2>5. r.op = op /\ r.key = k /\ r.at = at /\ r.ttl = 0 /\ r.life = 0 BY Zenon
  <2> HIDE DEF r
  <2> QED BY <2>2, <2>3, <2>4, <2>5, Zenon
<1>3. KeysTypeOK'
  BY <1>0, <1>1, <1>2, KeysAssumption DEF KeysTypeOK
<1>4. HeldInv'
  <2>1. \A d \in KCallers :
           \/ kcall'[d] = kcall[d]
           \/ kcall'[d].op \notin {"rename", "rotate"}
           \/ /\ kcall'[d].op = "rename" /\ kcall'[d].at # "delete"
              /\ \/ kcall[d].op = "rename" /\ kcall'[d].key = kcall[d].key
                 \/ \E o \in KNames : kst[o] = kcall'[d].key
           \/ kcall'[d].op = "rotate" /\ kcall'[d].at = "backup"
    BY <1>1, <1>2, Zenon
  <2> QED BY <1>0, <2>1, QuietStep, Zenon
<1>5. RotateInv'
  <2>1. \A d \in KCallers : kcall[d].op = "rotate" => kmode = "rotate"
    BY Zenon DEF KeysInv, RotateInv
  <2>2. CASE op = "rotate"
    BY <1>1, <1>2, <2>1, <2>2, ZenonT(60) DEF RotateInv
  <2>3. CASE op # "rotate"
    BY <1>1, <1>2, <2>3, Zenon DEF KeysInv, RotateInv
  <2> QED BY <2>2, <2>3, Zenon
<1>6. ExportInv' /\ TtlWithin'
  BY <1>0, <1>2 DEF KeysInv, ExportInv, TtlWithin
<1> QED BY <1>3, <1>4, <1>5, <1>6, Zenon DEF KeysInv

\* A call that goes on or ends.
LEMMA CallOn ==
    ASSUME KeysInv, NEW c \in KCallers, NEW at \in {"put", "overwrite", "delete", "save"},
           KGoes(c, at) \/ KDone(c), UNCHANGED xp,
           kmode' = kmode \/ (kmode' = "none" /\ kcall[c].op = "rotate" /\ KDone(c))
    PROVE  /\ kcall' \in [KCallers -> KCalls] /\ RotateInv' /\ ExportInv' /\ TtlWithin'
           /\ \A d \in KCallers \ {c} : kcall'[d] = kcall[d]
           /\ KDone(c) => kcall'[c].op = "idle"
           /\ ~KDone(c) => /\ kcall'[c].op = kcall[c].op
                            /\ kcall'[c].key = kcall[c].key /\ kcall'[c].at = at
<1>0. kcall \in [KCallers -> KCalls] /\ KIdle.op = "idle" /\ KIdle.ttl = 0 /\ KIdle.life = 0
  BY Zenon DEF KeysInv, KeysTypeOK, KIdle
<1>1. CASE KDone(c)
  <2>1. /\ kcall' \in [KCallers -> KCalls] /\ kcall'[c] = KIdle
        /\ \A d \in KCallers \ {c} : kcall'[d] = kcall[d]
    BY <1>0, <1>1, CallEnds, Zenon
  <2>2. kcall'[c].op = "idle" /\ kcall'[c].ttl = 0 /\ kcall'[c].life = 0
    BY <1>0, <2>1, Zenon
  <2>3. RotateInv'
    BY <2>1, <2>2, Zenon DEF KeysInv, RotateInv
  <2>4. ExportInv' /\ TtlWithin'
    BY <2>1, <2>2 DEF KeysInv, ExportInv, TtlWithin
  <2> QED BY <1>1, <2>1, <2>2, <2>3, <2>4, Zenon
<1>2. CASE KGoes(c, at) /\ ~KDone(c)
  <2>1. /\ kcall' \in [KCallers -> KCalls]
        /\ kcall'[c].op = kcall[c].op /\ kcall'[c].key = kcall[c].key /\ kcall'[c].at = at
        /\ kcall'[c].ttl = kcall[c].ttl /\ kcall'[c].life = kcall[c].life
        /\ \A d \in KCallers \ {c} : kcall'[d] = kcall[d]
    BY <1>0, <1>2, CallGoes
  <2>2. RotateInv' /\ ExportInv' /\ TtlWithin'
    BY <1>2, <2>1 DEF KeysInv, RotateInv, ExportInv, TtlWithin
  <2> QED BY <1>2, <2>1, <2>2, Zenon
<1> QED BY <1>1, <1>2, Zenon

\* The same for a call that touches nothing else.
LEMMA CallAlone ==
    ASSUME KeysInv, NEW c \in KCallers, NEW at \in {"put", "overwrite"},
           KDone(c) \/ (kcall[c].op = "rename" /\ KGoes(c, at)),
           UNCHANGED <<kst, kident, knext, khad, klost, xp>>,
           kmode' = kmode \/ (kmode' = "none" /\ kcall[c].op = "rotate" /\ KDone(c))
    PROVE  KeysInv'
<1>0. KeysTypeOK /\ HeldInv
  BY Zenon DEF KeysInv
<1>1. /\ kcall' \in [KCallers -> KCalls] /\ RotateInv' /\ ExportInv' /\ TtlWithin'
      /\ \A d \in KCallers \ {c} : kcall'[d] = kcall[d]
      /\ KDone(c) => kcall'[c].op = "idle"
      /\ ~KDone(c) => /\ kcall'[c].op = kcall[c].op
                       /\ kcall'[c].key = kcall[c].key /\ kcall'[c].at = at
  BY CallOn, Zenon
<1>2. \A d \in KCallers :
         \/ kcall'[d] = kcall[d]
         \/ kcall'[d].op \notin {"rename", "rotate"}
         \/ /\ kcall'[d].op = "rename" /\ kcall'[d].at # "delete"
            /\ \/ kcall[d].op = "rename" /\ kcall'[d].key = kcall[d].key
               \/ \E o \in KNames : kst[o] = kcall'[d].key
         \/ kcall'[d].op = "rotate" /\ kcall'[d].at = "backup"
  BY <1>1, Zenon
<1>3. HeldInv'
  BY <1>0, <1>2, QuietStep, Zenon
<1>4. KeysTypeOK'
  BY <1>0, <1>1, Zenon DEF KeysTypeOK
<1> QED BY <1>1, <1>3, <1>4, Zenon DEF KeysInv

LEMMA CallPuts ==
    ASSUME KeysInv, NEW c \in KCallers, PutsKey(c) \/ RenamePuts(c) \/ RotateBacksUp(c)
    PROVE  KeysInv'
<1>0. KeysTypeOK /\ HeldInv
  BY Zenon DEF KeysInv
<1>1. CASE KDone(c) /\ UNCHANGED <<kst, khad>>
  <2>1. /\ UNCHANGED <<kst, kident, knext, khad, klost, xp>>
        /\ kmode' = kmode \/ (kmode' = "none" /\ kcall[c].op = "rotate" /\ KDone(c))
    BY <1>1, Zenon DEF PutsKey, RenamePuts, RotateBacksUp, KAt
  <2> QED BY <1>1, <2>1, CallAlone, Zenon
<1>2. ASSUME NEW n \in KNames, NEW k \in 1 .. MaxKeys, NEW at \in {"delete", "save"},
             KPut(n, k), UNCHANGED <<kident, klost, knext, kmode, xp>>,
             \/ KDone(c)
             \/ kcall[c].op = "rename" /\ kcall[c].key = k /\ KGoes(c, at)
             \/ kcall[c].op = "rotate" /\ k = kident /\ KGoes(c, at)
      PROVE  KeysInv'
  <2>1. /\ kcall' \in [KCallers -> KCalls] /\ RotateInv' /\ ExportInv' /\ TtlWithin'
        /\ \A d \in KCallers \ {c} : kcall'[d] = kcall[d]
        /\ KDone(c) => kcall'[c].op = "idle"
        /\ ~KDone(c) => /\ kcall'[c].op = kcall[c].op
                         /\ kcall'[c].key = kcall[c].key /\ kcall'[c].at = at
    BY <1>2, CallOn, Zenon
  <2>2. \/ kcall'[c].op # "rename" /\ (KAt(c, "rotate", "save")' => k = kident)
        \/ kcall[c].op = "rename" /\ kcall'[c].op = "rename" /\ kcall[c].key = k /\ kcall'[c].key = k
    BY <1>2, <2>1, Zenon DEF KAt
  <2>3. HeldInv'
    BY <1>0, <1>2, <2>1, <2>2, PutStep, Zenon
  <2>4. KeysTypeOK'
    BY <1>0, <1>2, <2>1 DEF KeysTypeOK, KPut
  <2> QED BY <2>1, <2>3, <2>4, Zenon DEF KeysInv
<1>3. kcall[c].op \in {"put", "rename"} => kcall[c].to \in KNames /\ kcall[c].key \in 1 .. MaxKeys
  BY <1>0, CallTypes, Zenon DEF KeysTypeOK
<1>4. kcall[c].op = "rotate" => kcall[c].to \in KNames /\ kident \in 1 .. MaxKeys
  BY <1>0, CallTypes, Zenon DEF KeysTypeOK
<1>5. CASE PutsKey(c)
  BY <1>1, <1>2, <1>3, <1>5, Zenon DEF PutsKey, KAt
<1>6. CASE RenamePuts(c)
  BY <1>1, <1>2, <1>3, <1>6, Zenon DEF RenamePuts, KAt
<1>7. CASE RotateBacksUp(c)
  BY <1>1, <1>2, <1>4, <1>7, Zenon DEF RotateBacksUp, KAt
<1> QED BY <1>5, <1>6, <1>7, Zenon

LEMMA CallDeletes ==
    ASSUME KeysInv, NEW c \in KCallers, RenameOverwrites(c) \/ RenameDeletes(c) \/ RmDeletes(c)
    PROVE  KeysInv'
<1>0. KeysTypeOK /\ HeldInv
  BY Zenon DEF KeysInv
<1>1. CASE KDone(c) /\ UNCHANGED <<kst, klost>>
  <2>1. UNCHANGED <<kst, kident, knext, khad, klost, xp, kmode>>
    BY <1>1, Zenon DEF RenameOverwrites, RenameDeletes, RmDeletes
  <2> QED BY <1>1, <2>1, CallAlone, Zenon
<1>2. ASSUME NEW n \in KNames, KDelete(n), UNCHANGED <<kident, khad, knext, kmode, xp>>,
             klost' = klost \cup {kst[n]} \/ klost' = klost \cup ({kst[n]} \ {kcall[c].key}),
             KDone(c) \/ (kcall[c].op = "rename" /\ KGoes(c, "put")),
             kst[n] \in klost' \/ c \in Leaving(kst[n], kcall)
      PROVE  KeysInv'
  <2>1. /\ kcall' \in [KCallers -> KCalls] /\ RotateInv' /\ ExportInv' /\ TtlWithin'
        /\ \A d \in KCallers \ {c} : kcall'[d] = kcall[d]
        /\ KDone(c) => kcall'[c].op = "idle"
        /\ ~KDone(c) => /\ kcall'[c].op = kcall[c].op
                        /\ kcall'[c].key = kcall[c].key /\ kcall'[c].at = "put"
    BY <1>2, CallOn, Zenon
  <2>2. \/ kcall'[c].op \notin {"rename", "rotate"}
        \/ /\ kcall[c].op = "rename" /\ kcall'[c].op = "rename" /\ kcall'[c].at # "delete"
           /\ kcall'[c].key = kcall[c].key
    BY <1>2, <2>1, Zenon
  <2>3. klost \subseteq klost'
    BY <1>2, Zenon
  <2>4. HeldInv'
    BY <1>0, <1>2, <2>1, <2>2, <2>3, DeleteStep, Zenon
  <2>5. kst[n] \in 1 .. MaxKeys
    BY <1>0, <1>2, KeysAssumption DEF KeysTypeOK, KDelete, NoKey
  <2>6. KeysTypeOK'
    <3>1. klost' \subseteq 1 .. MaxKeys
      BY <1>0, <1>2, <2>5, ZenonT(60) DEF KeysTypeOK
    <3>2. kst' \in [KNames -> 0 .. MaxKeys]
      BY <1>0, <1>2, KeysAssumption DEF KeysTypeOK, KDelete, NoKey
    <3> QED BY <1>0, <1>2, <2>1, <3>1, <3>2, Zenon DEF KeysTypeOK
  <2> QED BY <2>1, <2>4, <2>6, Zenon DEF KeysInv
<1>3. /\ kcall[c].op = "rename" => kcall[c].to \in KNames /\ kcall[c].from \in KNames
      /\ kcall[c].op = "rm" => kcall[c].from \in KNames
  BY <1>0, CallTypes, Zenon DEF KeysTypeOK
<1>4. CASE RenameOverwrites(c)
  BY <1>1, <1>2, <1>3, <1>4, Zenon DEF RenameOverwrites, KAt
<1>5. CASE RenameDeletes(c)
  <2>1. kcall[c].key = kst[kcall[c].from] => c \in Leaving(kst[kcall[c].from], kcall)
    BY <1>5, Zenon DEF RenameDeletes, KAt, Leaving
  <2> QED BY <1>1, <1>2, <1>3, <1>5, <2>1, Zenon DEF RenameDeletes, KAt
<1>6. CASE RmDeletes(c)
  BY <1>1, <1>2, <1>3, <1>6, Zenon DEF RmDeletes, KAt
<1> QED BY <1>4, <1>5, <1>6, Zenon

\* The config is saved with the new identity; the old one has its backup.
LEMMA RotateSaved ==
    ASSUME KeysInv, NEW c \in KCallers, RotateSaves(c)
    PROVE  KeysInv'
<1>0. KeysTypeOK /\ HeldInv /\ KAt(c, "rotate", "save") /\ KDone(c) /\ kcall[c].op = "rotate"
  BY Zenon DEF KeysInv, RotateSaves, KAt
<1>1. CASE UNCHANGED <<kident, khad>>
  <2>1. UNCHANGED <<kst, kident, knext, khad, klost, xp>> /\ kmode' = "none"
    BY <1>1, Zenon DEF RotateSaves
  <2> QED BY <1>0, <2>1, CallAlone, Zenon
<1>2. CASE kident' = kcall[c].key /\ khad' = khad \cup {kcall[c].key}
  <2>0. UNCHANGED <<kst, knext, klost, xp>> /\ kmode' = "none"
    BY Zenon DEF RotateSaves
  <2>1. /\ kcall' \in [KCallers -> KCalls] /\ RotateInv' /\ ExportInv' /\ TtlWithin'
        /\ \A d \in KCallers \ {c} : kcall'[d] = kcall[d]
        /\ kcall'[c].op = "idle"
    BY <1>0, <2>0, CallOn, Zenon
  <2>2. kcall[c].key \in 1 .. MaxKeys
    BY <1>0, CallTypes, Zenon DEF KeysTypeOK
  <2>3. KeysTypeOK'
    BY <1>0, <1>2, <2>0, <2>1, <2>2, ZenonT(60) DEF KeysTypeOK
  <2>4. ASSUME NEW k, HeldNow(k) PROVE HeldNext(k)
    <3>1. Leaving(k, kcall') \subseteq Leaving(k, kcall) /\ Under(k, kst') = Under(k, kst)
      BY <2>0, <2>1, Zenon DEF Leaving, Under
    <3> QED BY <2>4, <3>1, HeldTypes, StillMore, Zenon DEF HeldNow, HeldNext, Held
  <2>5. ASSUME NEW d \in KCallers PROVE ~KAt(d, "rotate", "save")'
    BY <1>0, <2>1, Zenon DEF KAt, KeysInv, RotateInv
  <2>6. ASSUME NEW d \in KCallers, kcall'[d].op = "rename"
        PROVE  kcall[d].op = "rename" /\ kcall'[d].key = kcall[d].key
    BY <2>1, <2>6, Zenon
  <2>7. ASSUME NEW k \in khad' \ (klost' \cup {kident'}) PROVE k \in khad \ {kident} \/ HeldNext(k)
    <3>1. CASE k = kident
      <4>1. HeldNow(k)
        BY <1>0, <2>0, <2>7, <3>1, Zenon DEF HeldInv
      <4> QED BY <2>4, <4>1, Zenon
    <3> QED BY <1>2, <2>7, <3>1, Zenon
  <2>8. HeldInv'
    BY <1>0, <2>0, <2>4, <2>5, <2>6, <2>7, HeldFrame, Zenon
  <2> QED BY <2>1, <2>3, <2>8, Zenon DEF KeysInv
<1> QED BY <1>1, <1>2, Zenon DEF RotateSaves

LEMMA KeysInvInductive == (KeysInit => KeysInv) /\ (KeysInv /\ [KeysNext]_kvars => KeysInv')
<1>1. ASSUME KeysInit PROVE KeysInv
  <2>1. \A c \in KCallers : kcall[c] = KIdle
    BY <1>1, Zenon DEF KeysInit
  <2>2. KIdle.op = "idle" /\ KIdle.ttl <= KIdle.life
    BY DEF KIdle
  <2>3. \A c \in KCallers : kcall[c].op = "idle" /\ kcall[c].ttl <= kcall[c].life
    BY <2>1, <2>2, Zenon
  <2>4. KeysTypeOK
    BY <1>1, CallTypes, KeysAssumption DEF KeysInit, KeysTypeOK, XIdle, XPaths, NoKey
  <2>5. RotateInv /\ ExportInv /\ TtlWithin
    BY <1>1, <2>3, Zenon DEF KeysInit, RotateInv, ExportInv, TtlWithin, XIdle
  <2>6. HeldInv
    BY <1>1, <2>3, Zenon DEF KeysInit, HeldInv, KAt
  <2> QED BY <2>4, <2>5, <2>6, Zenon DEF KeysInv
<1>2. ASSUME KeysInv, [KeysNext]_kvars PROVE KeysInv'
  <2>0. KeysTypeOK /\ HeldInv /\ ExportInv
    BY <1>2, Zenon DEF KeysInv
  <2>1. ASSUME XKeep, KeysTypeOK', ExportInv' PROVE KeysInv'
    <3>1. HeldInv'
      BY <2>0, <2>1, QuietStep, Zenon DEF XKeep
    <3>2. RotateInv' /\ TtlWithin'
      BY <1>2, <2>1, Zenon DEF XKeep, KeysInv, RotateInv, TtlWithin
    <3> QED BY <2>1, <3>1, <3>2, Zenon DEF KeysInv
  <2>2. CASE Exports
    BY <2>0, <2>1, <2>2, ExportStep, Zenon
  <2>3. CASE UNCHANGED kvars
    BY <2>0, <2>1, <2>3, Zenon DEF kvars, XKeep, KeysTypeOK, ExportInv
  <2>4. CASE DaemonTakes \/ DaemonLeaves
    <3>1. UNCHANGED <<kst, kident, kcall, knext, khad, klost, xp>> /\ kmode # "rotate"
             /\ kmode' \in {"none", "daemon"}
      BY <2>4, Zenon DEF DaemonTakes, DaemonLeaves
    <3>2. HeldInv'
      BY <2>0, <3>1, QuietStep, Zenon
    <3>3. KeysTypeOK' /\ RotateInv' /\ ExportInv' /\ TtlWithin'
      BY <1>2, <3>1, Zenon DEF KeysInv, KeysTypeOK, RotateInv, ExportInv, TtlWithin
    <3> QED BY <3>2, <3>3, Zenon DEF KeysInv
  <2>5. CASE KeysCrash
    <3>1. /\ KeysTypeOK' /\ ExportInv' /\ UNCHANGED <<kst, kident, khad, klost>>
          /\ \A c \in KCallers : kcall'[c] = KIdle
      BY <2>0, <2>5, CrashStep, Zenon DEF KeysCrash
    <3>2. KIdle.op = "idle" /\ KIdle.ttl <= KIdle.life
      BY DEF KIdle
    <3>3. \A c \in KCallers : kcall'[c].op = "idle" /\ kcall'[c].ttl <= kcall'[c].life
      BY <3>1, <3>2, Zenon
    <3>4. HeldInv'
      BY <2>0, <3>1, <3>3, QuietStep, Zenon
    <3>5. RotateInv' /\ TtlWithin'
      BY <3>3, Zenon DEF RotateInv, TtlWithin
    <3> QED BY <3>1, <3>4, <3>5, Zenon DEF KeysInv
  <2>6. ASSUME NEW c \in KCallers, NEW byId \in BOOLEAN, NEW given \in BOOLEAN, NEW n \in KNames,
               NEW k \in 1 .. MaxKeys, NEW ttl \in 0 .. 2, NEW life \in 1 .. 2,
               PublishLooks(c, byId, n, k, given, ttl, life)
        PROVE  KeysInv'
    <3>1. /\ kcall' \in [KCallers -> KCalls] /\ kcall'[c].op = "publish"
          /\ kcall'[c].ttl <= kcall'[c].life
          /\ \A d \in KCallers \ {c} : kcall'[d] = kcall[d]
          /\ UNCHANGED <<kst, kident, knext, khad, klost, kmode, xp>>
      <4>1. UNCHANGED <<kst, kident, knext, khad, klost, kmode, xp>>
        BY <2>6, Zenon DEF PublishLooks
      <4> QED BY <2>0, <2>6, <4>1, PublishEnters, Zenon
    <3>2. HeldInv'
      BY <2>0, <3>1, QuietStep, Zenon
    <3>3. KeysTypeOK'
      BY <2>0, <3>1, Zenon DEF KeysTypeOK
    <3>4. RotateInv' /\ ExportInv' /\ TtlWithin'
      BY <1>2, <3>1, Zenon DEF KeysInv, RotateInv, ExportInv, TtlWithin
    <3> QED BY <3>2, <3>3, <3>4, Zenon DEF KeysInv
  <2>7. ASSUME NEW c \in KCallers, PublishSends(c) \/ RenameHas(c) PROVE KeysInv'
    <3>1. /\ UNCHANGED <<kst, kident, knext, khad, klost, kmode, xp>>
          /\ \E at \in {"put", "overwrite"} : KDone(c) \/ (kcall[c].op = "rename" /\ KGoes(c, at))
      BY <2>7, Zenon DEF PublishSends, RenameHas, KAt
    <3> QED BY <1>2, <3>1, CallAlone, Zenon
  <2> QED
    BY <1>2, <2>2, <2>3, <2>4, <2>5, <2>6, <2>7, CallBegins, CallPuts, CallDeletes, RotateSaved, Zenon
    DEF KeysNext, Exports
<1> QED BY <1>1, <1>2, Zenon

\* The key commands keep their variables in their types.
THEOREM KeysTypeCorrect == KeysSpec => []KeysTypeOK
<1>1. KeysInv => KeysTypeOK
  BY Zenon DEF KeysInv
<1> QED BY <1>1, KeysInvInductive, PTL DEF KeysSpec

\* key gen, import, rename, rm, rotate and export, and name publish: however
\* many calls interleave on however many names, and wherever the machine stops,
\* a key that nobody asked to delete stays in the keystore or in the config, an
\* exported file is whole and a record's TTL is within its lifetime.
THEOREM KeysAreSafe == KeysSpec => []KeysSafe
<1>1. KeysInv => KeysSafe
  <2>1. ASSUME KeysInv, NEW k \in khad \ (klost \cup {kident})
        PROVE  \E n \in KNames : kst[n] = k
    <3>1. HeldNow(k)
      BY <2>1, Zenon DEF KeysInv, HeldInv
    <3>2. Cardinality(Leaving(k, kcall)) \in Nat /\ Cardinality(Under(k, kst)) \in Nat
      BY HeldTypes, Counts, ZenonT(60)
    <3>3. Under(k, kst) # {}
      BY <3>1, <3>2, FS_EmptySet DEF HeldNow, Held
    <3> QED BY <3>3, Zenon DEF Under
  <2>2. ASSUME KeysInv PROVE ExportWhole /\ TtlWithin
    BY <2>2, Zenon DEF KeysInv, KeysTypeOK, ExportInv, ExportWhole
  <2> QED BY <2>1, <2>2, Zenon DEF KeysSafe, KeyKept
<1> QED BY <1>1, KeysInvInductive, PTL DEF KeysSpec

-----------------------------------------------------------------------------
(* Telemetry                                                                *)

\* The records have their fields; identifiers are numbers.
TelTypeOK ==
  /\ DOMAIN tel = {"pc", "mode", "endpoint", "uuid", "cache", "last"}
  /\ DOMAIN tdisk = {"uuid", "marker"}
  /\ DOMAIN tpast = {"out", "gen", "shown", "cut", "gone", "ever", "forgot", "twice", "again", "boxes"}
  /\ tpast.gen \in Nat /\ tdisk.uuid \in Int
  /\ tel.pc \in {"down", "init", "off", "notice", "timer", "retire", "remove"}

\* A run that reports, or is about to.
Reporting == tel.pc \in {"notice", "timer", "retire", "remove"} \/ (tel.pc = "init" /\ tel.mode # "off")

\* Such a run was not opted out of, and its collector is not the retired one.
AskedInv ==
  /\ Reporting => ~tpast.out /\ tel.endpoint # Unset
  /\ Reporting /\ tel.pc # "remove" => tpast.gone # tel.endpoint
  /\ tel.last.to # Unset => ~tpast.out /\ tel.last.to = tel.endpoint
  /\ tel.pc \in {"down", "init"} => tel.last = Reported
  /\ tdisk.marker = tpast.gone /\ ~tpast.twice

\* The identifier on the disk is one of those generated, was not dropped before,
\* and has had its notice unless that is being printed; the run uses no other.
UuidInv ==
  /\ tdisk.uuid \in {0, -1} \cup 1..tpast.gen
  /\ \A u \in tpast.forgot : u \in {0, -1} \cup 1..tpast.gen
  /\ tdisk.uuid > 0 => /\ tdisk.uuid \notin tpast.forgot
                       /\ tdisk.uuid \in tpast.shown \cup tpast.cut \/ tel.pc = "notice"
  /\ tel.pc \in {"notice", "timer", "retire", "remove"} => tel.uuid = tdisk.uuid /\ tel.uuid > 0
  /\ tel.last.to # Unset => /\ tel.last.uuid > 0 /\ tel.last.uuid \in tpast.shown \cup tpast.cut
                            /\ tel.pc \in {"timer", "retire"} => tel.last.uuid = tel.uuid
  /\ tel.last.to = Unset => tel.last.uuid = 0
  /\ tel.last.to # Unset => tel.pc # "notice"

TelInv == TelTypeOK /\ AskedInv /\ UuidInv

LEMMA TelInitially == TelInit => TelInv
<1> SUFFICES ASSUME TelInit PROVE TelInv BY Zenon
<1> USE DEF TelInit, TelDown, Reported, Unset
<1>1. TelTypeOK BY SMTT(60) DEF TelTypeOK
<1>2. AskedInv BY DEF AskedInv, Reporting
<1>3. UuidInv BY DEF UuidInv
<1> QED BY <1>1, <1>2, <1>3, Zenon DEF TelInv

LEMMA BootKeeps == ASSUME TelInv, TelBoots PROVE TelInv'
<1>1. PICK env \in {Unset, "off", "auto", "on", "other"}, cfg \in {Unset, "off", "auto", "on", "other"},
           dnt \in BOOLEAN, ep \in Collectors \cup {Unset}, fails \in BOOLEAN :
        /\ Boots(ModeString(env, dnt, cfg), ep, fails)
        /\ tpast' = [tpast EXCEPT !.out = OptedOut(env, dnt, cfg, ep),
                       !.forgot = IF OptedOut(env, dnt, cfg, ep) /\ ~fails THEN @ \cup {tdisk.uuid} ELSE @]
  BY Zenon DEF TelBoots
<1> DEFINE v == ModeString(env, dnt, cfg)
           out == OptedOut(env, dnt, cfg, ep)
<1>2. out <=> v = "off" \/ ep = Unset
  BY Zenon DEF ModeString, OptedOut, Unset
<1>3. tel.pc = "down" BY Zenon DEF TelBoots
<1> HIDE DEF v, out
<1>4. CASE v = "off" \/ ep = Unset
  <2>1. out BY <1>2, <1>4, Zenon
  <2>2. tel' = [TelDown EXCEPT !.pc = "init", !.endpoint = ep] /\ RemovesUuid(fails)
    BY <1>1, <1>4, Zenon DEF Boots, v
  <2>3. tpast' = [tpast EXCEPT !.out = out, !.forgot = IF ~fails THEN @ \cup {tdisk.uuid} ELSE @]
    BY <1>1, <2>1, Zenon DEF out
  <2>4. CASE fails = TRUE
    BY <1>3, <2>2, <2>3, <2>4, Zenon DEF TelInv, TelTypeOK, AskedInv, UuidInv, RemovesUuid, TelDown, Reported, Reporting
  <2>5. CASE fails = FALSE
    BY <1>3, <2>2, <2>3, <2>5 DEF TelInv, TelTypeOK, AskedInv, UuidInv, RemovesUuid, TelDown, Reported, Reporting
  <2> QED BY <2>4, <2>5, ZenonT(60)
<1>5. CASE ~(v = "off" \/ ep = Unset)
  <2>1. ~out BY <1>2, <1>5, Zenon
  <2>2. /\ tel' = [TelDown EXCEPT !.pc = "init", !.endpoint = ep,
                    !.mode = IF EndpointRetired(ep) THEN "off"
                             ELSE IF v = "auto" THEN "auto" ELSE "on"]
        /\ UNCHANGED tdisk
    BY <1>1, <1>5, Zenon DEF Boots, v
  <2>3. tpast' = [tpast EXCEPT !.out = out, !.forgot = @]
    BY <1>1, <2>1, Zenon DEF out
  <2>6. PICK m : /\ tel' = [TelDown EXCEPT !.pc = "init", !.endpoint = ep, !.mode = m]
                 /\ EndpointRetired(ep) => m = "off"
    <3>1. CASE EndpointRetired(ep) BY <2>2, <3>1, Zenon
    <3>2. CASE ~EndpointRetired(ep) BY <2>2, <3>2, Zenon
    <3> QED BY <3>1, <3>2, ZenonT(60)
  <2>4. /\ tel'.pc = "init" /\ tel'.endpoint = ep /\ tel'.last = Reported /\ DOMAIN tel' = DOMAIN TelDown
        /\ tel'.mode # "off" => tdisk.marker # ep
    BY <2>6, Zenon DEF TelDown, EndpointRetired
  <2>5. /\ ~tpast'.out /\ DOMAIN tpast' = DOMAIN tpast
        /\ UNCHANGED <<tpast.gen, tpast.forgot, tpast.gone, tpast.twice, tpast.shown, tpast.cut>>
    BY <2>1, <2>3, Zenon DEF TelInv, TelTypeOK
  <2> QED BY <1>3, <1>5, <2>2, <2>4, <2>5, Zenon DEF TelInv, TelTypeOK, AskedInv, UuidInv, TelDown, Reported, Reporting
<1> QED BY <1>4, <1>5, Zenon

LEMMA TelStepKeeps ==
  ASSUME TelInv, StartSkips \/ LoadsUuid \/ ShowsInfo \/ TelEnds \/ MarkerDeleted
  PROVE  TelInv'
<1> USE DEF TelInv, TelTypeOK, AskedInv, UuidInv, Reporting
<1>1. CASE StartSkips BY <1>1, Zenon DEF StartSkips
<1>2. CASE LoadsUuid
  <2>1. CASE tdisk.uuid < 0 BY <1>2, <2>1, Zenon DEF LoadsUuid
  <2>2. CASE ~(tdisk.uuid < 0)
    <3>1. tel'.pc \in {"notice", "timer"} BY <1>2, <2>2, Zenon DEF LoadsUuid
    <3>2. tdisk.uuid > 0 BY <1>2, <2>2 DEF LoadsUuid
    <3> QED BY <1>2, <2>2, <3>1, <3>2 DEF LoadsUuid, Reported
  <2> QED BY <2>1, <2>2, Zenon
<1>3. CASE ShowsInfo BY <1>3, Zenon DEF ShowsInfo
<1>4. CASE TelEnds
  <2>1. CASE tel.pc = "notice" BY <1>4, <2>1, Zenon DEF TelEnds, TelDown, Reported
  <2>2. CASE tel.pc # "notice" BY <1>4, <2>2, Zenon DEF TelEnds, TelDown, Reported
  <2> QED BY <2>1, <2>2, Zenon
<1>5. CASE MarkerDeleted BY <1>5, Zenon DEF MarkerDeleted, Reported
<1> QED BY <1>1, <1>2, <1>3, <1>4, <1>5, ZenonT(60)

LEMMA GenerateKeeps == ASSUME TelInv, GeneratesUuid PROVE TelInv'
<1> USE DEF TelInv, TelTypeOK, AskedInv, UuidInv, Reporting
<1>1. CASE tel' = [tel EXCEPT !.uuid = tpast.gen + 1, !.mode = "auto", !.pc = "notice"]
           /\ tdisk' = [tdisk EXCEPT !.uuid = tpast.gen + 1]
  BY <1>1 DEF GeneratesUuid, Reported
<1>2. CASE tel' = [tel EXCEPT !.mode = "off", !.pc = "off"]
           /\ \E left \in {0, -1}: tdisk' = [tdisk EXCEPT !.uuid = left]
  BY <1>2 DEF GeneratesUuid, Reported
<1> QED BY <1>1, <1>2, Zenon DEF GeneratesUuid

LEMMA SendKeeps == ASSUME TelInv, Sends PROVE TelInv'
<1>1. PICK box, answer :
        /\ tel' = [tel EXCEPT !.cache = {box},
                     !.last = [uuid |-> tel.uuid, to |-> tel.endpoint, box |-> box],
                     !.pc = IF answer = "gone" THEN "retire" ELSE "timer"]
        /\ tpast' = [tpast EXCEPT !.twice = @ \/ tpast.gone = tel.endpoint,
                                  !.again = @ \/ tel.endpoint \in tpast.ever,
                                  !.boxes = @ \cup {box}]
  BY Zenon DEF Sends
<1>2. tel.pc = "timer" /\ UNCHANGED tdisk BY Zenon DEF Sends
<1>3. /\ tel'.pc \in {"retire", "timer"} /\ tel'.last.uuid = tel.uuid /\ tel'.last.to = tel.endpoint
      /\ tel'.uuid = tel.uuid /\ tel'.endpoint = tel.endpoint /\ DOMAIN tel' = DOMAIN tel
  BY <1>1, Zenon DEF TelInv, TelTypeOK
<1>4. /\ DOMAIN tpast' = DOMAIN tpast /\ ~tpast'.twice
      /\ tpast'.out = tpast.out /\ tpast'.gen = tpast.gen /\ tpast'.forgot = tpast.forgot
      /\ tpast'.gone = tpast.gone /\ tpast'.shown = tpast.shown /\ tpast'.cut = tpast.cut
  BY <1>1, <1>2, ZenonT(60) DEF TelInv, TelTypeOK, AskedInv, Reporting
<1> QED BY <1>2, <1>3, <1>4, Zenon DEF TelInv, TelTypeOK, AskedInv, UuidInv, Reporting

LEMMA RetireKeeps == ASSUME TelInv, Retires \/ RetireRemoves PROVE TelInv'
<1> USE DEF TelInv, TelTypeOK, AskedInv, UuidInv, Reporting
<1>1. CASE Retires
  <2>1. CASE UNCHANGED <<tdisk, tpast>> BY <1>1, <2>1, Zenon DEF Retires
  <2>2. CASE /\ tdisk' = [tdisk EXCEPT !.marker = tel.endpoint]
             /\ tpast' = [tpast EXCEPT !.gone = tel.endpoint, !.ever = @ \cup {tel.endpoint}]
    BY <1>1, <2>2, Zenon DEF Retires
  <2> QED BY <1>1, <2>1, <2>2, Zenon DEF Retires
<1>2. CASE RetireRemoves
  <2>1. PICK fails \in BOOLEAN :
          /\ RemovesUuid(fails)
          /\ tpast' = [tpast EXCEPT !.forgot = IF fails THEN @ ELSE @ \cup {tdisk.uuid}]
    BY <1>2, Zenon DEF RetireRemoves
  <2>2. CASE fails = TRUE BY <1>2, <2>1, <2>2, Zenon DEF RetireRemoves, RemovesUuid
  <2>3. CASE fails = FALSE BY <1>2, <2>1, <2>3 DEF RetireRemoves, RemovesUuid
  <2> QED BY <2>2, <2>3, ZenonT(60)
<1> QED BY <1>1, <1>2, Zenon

LEMMA TelInductive == TelInv /\ [TelNext]_telvars => TelInv'
<1> SUFFICES ASSUME TelInv, [TelNext]_telvars PROVE TelInv' BY Zenon
<1>1. CASE UNCHANGED telvars
  BY <1>1, ZenonT(60) DEF telvars, TelInv, TelTypeOK, AskedInv, UuidInv, Reporting
<1> QED BY <1>1, BootKeeps, TelStepKeeps, GenerateKeeps, SendKeeps, RetireKeeps, Zenon DEF TelNext

LEMMA TelSafely == TelInv => SentAsked /\ ForgottenStays /\ NoticeFirst /\ RetiredHeld
BY Zenon DEF TelInv, TelTypeOK, AskedInv, UuidInv, SentAsked, ForgottenStays, NoticeFirst, RetiredHeld

\* Buckets in increasing order: the value fits the one it is put into, and none
\* below it, unless it exceeds them all.
LEMMA BucketIsTight ==
  ASSUME NEW n \in Nat \ {0}, NEW buckets \in [1..n -> Int], Len(buckets) = n, NEW x \in Int,
         \A i, j \in 1..n : i <= j => buckets[i] <= buckets[j]
  PROVE  LET in == BucketOf(buckets, x)
         IN  /\ in = buckets[n] \/ x <= in
             /\ \A i \in 1..n : buckets[i] < in => buckets[i] < x
<1> DEFINE fits == {i \in DOMAIN buckets : x <= buckets[i]}
           first == CHOOSE i \in fits : \A j \in fits : i <= j
<1>1. CASE fits = {} BY <1>1 DEF BucketOf
<1>2. CASE fits # {}
  <2> DEFINE R == {ss \in Nat \X Nat : ss[1] < ss[2]}
  <2>b. \A i, j \in Nat : <<j, i>> \notin R => i <= j
    <3>1. \A i, j \in Nat : j < i => <<j, i>> \in R BY Zenon
    <3> HIDE DEF R
    <3> QED BY <3>1
  <2>0. IsWellFoundedOn(R, Nat) BY NatLessThanWellFounded, Zenon DEF OpToRel
  <2>a. fits \subseteq Nat OBVIOUS
  <2> HIDE DEF R, fits
  <2>1. \E i \in fits : \A j \in fits : ~(<<j, i>> \in R)
    BY <1>2, <2>0, <2>a, WFMin, Zenon
  <2>2. \E i \in fits : \A j \in fits : i <= j BY <2>1, <2>a, <2>b, Zenon
  <2> USE DEF fits
  <2>3. first \in fits /\ \A j \in fits : first <= j BY <2>2, Zenon
  <2>4. BucketOf(buckets, x) = buckets[first] BY <1>2, Zenon DEF BucketOf
  <2> HIDE DEF first
  <2> QED BY <2>3, <2>4
<1> QED BY <1>1, <1>2, Zenon

LEMMA AskKeeps == ASSUME AsksTelemetry PROVE BucketFits'
<1>1. ASSUME NEW x \in Edges(RepoSizeBuckets),
             task' = [topic |-> "size", x |-> x, in |-> BucketOf(RepoSizeBuckets, x)]
      PROVE  BucketFits'
  <2>1. /\ RepoSizeBuckets \in [1..8 -> Int] /\ Len(RepoSizeBuckets) = 8 /\ DOMAIN RepoSizeBuckets = 1..8
        /\ \A i, j \in 1..8 : i <= j => RepoSizeBuckets[i] <= RepoSizeBuckets[j]
    <3>1. Len(RepoSizeBuckets) = 8 /\ DOMAIN RepoSizeBuckets = 1..8 BY DEF RepoSizeBuckets
    <3>2. /\ RepoSizeBuckets[1] = 1 /\ RepoSizeBuckets[2] = 5 /\ RepoSizeBuckets[3] = 10 /\ RepoSizeBuckets[4] = 100
          /\ RepoSizeBuckets[5] = 500 /\ RepoSizeBuckets[6] = 1024 /\ RepoSizeBuckets[7] = 10240 /\ RepoSizeBuckets[8] = 11264
      BY DEF RepoSizeBuckets
    <3>3. \A i \in 1..8 : i = 1 \/ i = 2 \/ i = 3 \/ i = 4 \/ i = 5 \/ i = 6 \/ i = 7 \/ i = 8 OBVIOUS
    <3>4. \A i \in 1..8 : RepoSizeBuckets[i] \in Int BY <3>2, <3>3
    <3>5. \A i, j \in 1..8 : i <= j => RepoSizeBuckets[i] <= RepoSizeBuckets[j] BY <3>2, <3>3
    <3>6. RepoSizeBuckets \in [1..8 -> Int]
      <4>1. RepoSizeBuckets = [i \in DOMAIN RepoSizeBuckets |-> RepoSizeBuckets[i]] BY DEF RepoSizeBuckets
      <4> QED BY <3>1, <3>4, <4>1, ZenonT(60)
    <3> QED BY <3>1, <3>5, <3>6, ZenonT(60)
  <2>2. x \in Int BY <2>1 DEF Edges
  <2>3. LET in == BucketOf(RepoSizeBuckets, x)
        IN  /\ in = RepoSizeBuckets[8] \/ x <= in
            /\ \A i \in 1..8 : RepoSizeBuckets[i] < in => RepoSizeBuckets[i] < x
    <3>1. 8 \in Nat \ {0} OBVIOUS
    <3> QED BY <2>1, <2>2, <3>1, BucketIsTight, Zenon
  <2> QED BY <1>1, <2>1, <2>3, ZenonT(60) DEF BucketFits
<1>2. ASSUME NEW x \in Edges(UptimeBuckets),
             task' = [topic |-> "uptime", x |-> x, in |-> BucketOf(UptimeBuckets, x)]
      PROVE  BucketFits'
  <2>1. /\ UptimeBuckets \in [1..7 -> Int] /\ Len(UptimeBuckets) = 7 /\ DOMAIN UptimeBuckets = 1..7
        /\ \A i, j \in 1..7 : i <= j => UptimeBuckets[i] <= UptimeBuckets[j]
    <3>1. Len(UptimeBuckets) = 7 /\ DOMAIN UptimeBuckets = 1..7 BY DEF UptimeBuckets
    <3>2. /\ UptimeBuckets[1] = 1 /\ UptimeBuckets[2] = 2 /\ UptimeBuckets[3] = 3 /\ UptimeBuckets[4] = 7
          /\ UptimeBuckets[5] = 14 /\ UptimeBuckets[6] = 30 /\ UptimeBuckets[7] = 31
      BY Zenon DEF UptimeBuckets
    <3>3. \A i \in 1..7 : i = 1 \/ i = 2 \/ i = 3 \/ i = 4 \/ i = 5 \/ i = 6 \/ i = 7 OBVIOUS
    <3>4. \A i \in 1..7 : UptimeBuckets[i] \in Int BY <3>2, <3>3
    <3>5. \A i, j \in 1..7 : i <= j => UptimeBuckets[i] <= UptimeBuckets[j] BY <3>2, <3>3
    <3>6. UptimeBuckets \in [1..7 -> Int]
      <4>1. UptimeBuckets = [i \in DOMAIN UptimeBuckets |-> UptimeBuckets[i]] BY DEF UptimeBuckets
      <4> QED BY <3>1, <3>4, <4>1, Zenon
    <3> QED BY <3>1, <3>5, <3>6, Zenon
  <2>2. x \in Int BY <2>1 DEF Edges
  <2>3. LET in == BucketOf(UptimeBuckets, x)
        IN  /\ in = UptimeBuckets[7] \/ x <= in
            /\ \A i \in 1..7 : UptimeBuckets[i] < in => UptimeBuckets[i] < x
    <3>1. 7 \in Nat \ {0} OBVIOUS
    <3> QED BY <2>1, <2>2, <3>1, BucketIsTight, Zenon
  <2> QED BY <1>2, <2>1, <2>3, ZenonT(60) DEF BucketFits
<1>3. ASSUME task'.topic = "swarm" PROVE BucketFits' BY <1>3, Zenon DEF BucketFits
<1> QED BY <1>1, <1>2, <1>3 DEF AsksTelemetry

\* The telemetry plugin (TelemetrySafe): a run that the operator opted out of, or
\* that has no collector, sends nothing; an identifier that was dropped is never
\* sent again, and one that is sent had its notice; a collector that retired is
\* left alone; values go into the bucket that holds them. For any set of
\* collectors, through any number of runs, faults and crashes.
THEOREM TelemetryIsSafe == TelSpec => []TelemetrySafe
<1>1. TelInit => TelInv /\ BucketFits
  <2>1. TelInit => task.topic = "none" BY DEF TelInit
  <2>2. task.topic = "none" => BucketFits BY Zenon DEF BucketFits
  <2> QED BY <2>1, <2>2, TelInitially, Zenon
<1>2. ASSUME TelInv, BucketFits,
             [\/ TelNext /\ UNCHANGED task
              \/ AsksTelemetry /\ UNCHANGED telvars]_<<telvars, task>>
      PROVE  TelInv' /\ BucketFits'
  <2>1. TelInv' BY <1>2, TelInductive, Zenon
  <2>2. CASE UNCHANGED task BY <1>2, <2>1, <2>2, Zenon DEF BucketFits
  <2>3. CASE AsksTelemetry BY <2>1, <2>3, AskKeeps, Zenon
  <2> QED BY <1>2, <2>2, <2>3, Zenon
<1>3. TelInv /\ BucketFits => TelemetrySafe BY TelSafely, Zenon DEF TelemetrySafe
<1> QED BY <1>1, <1>2, <1>3, PTL DEF TelSpec
=============================================================================
