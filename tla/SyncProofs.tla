------------------------------- MODULE SyncProofs -------------------------------
(***************************************************************************)
(* What the sync script guarantees for any stores, arrays, adapters and    *)
(* number of changes: types with any number of runs side by side, and what *)
(* a run leaves behind when runs do not overlap.                           *)
(***************************************************************************)
EXTENDS SyncClients, FiniteSetTheorems, WellFoundedInduction, TLAPS

USE DatabaseAssumption, ConfigStoreAssumption, ArrayAssumption, NetworkSyncAssumption,
    SyncClientsAssumption

--------------------------------------------------------------------------------
\* Every set of naturals that has an element has a least one.
LEMMA LeastNatural ==
    ASSUME NEW S \in SUBSET Nat, S # {}
    PROVE  \E n \in S : \A m \in S : n <= m
  <1> DEFINE Less == OpToRel(<, Nat)
  <1>1. PICK n \in S : \A m \in S : <<m, n>> \notin Less
    BY NatLessThanWellFounded, WFMin
  <1>2. \A m \in Nat : m < n => <<m, n>> \in Less
    BY DEF OpToRel
  <1> HIDE DEF Less
  <1>3. ASSUME NEW m \in S PROVE n <= m
    <2>1. m \in Nat /\ n \in Nat /\ ~(m < n)
      BY <1>1, <1>2
    <2>2. QED
      BY <2>1
  <1>4. QED
    BY <1>3

LEMMA PlacesFinite ==
    ASSUME NEW N \in Nat, NEW places \in SUBSET (1..N)
    PROVE  IsFiniteSet(places) /\ Cardinality(places) \in Nat
  <1>1. IsFiniteSet(1..N)
    BY FS_Interval
  <1>2. IsFiniteSet(places)
    BY <1>1, FS_Subset
  <1>3. QED
    BY <1>2, FS_CardinalityType

\* Counting up the places reaches each number up to how many there are.
LEMMA NthIs ==
    ASSUME NEW N \in Nat, NEW places \in SUBSET (1..N), NEW n \in 1..Cardinality(places)
    PROVE  Nth(places, n) \in places
  <1> DEFINE upTo(i) == {m \in places : m <= i}
             total == Cardinality(places)
             gaps == {k \in 1..total : \A i \in places : Cardinality(upTo(i)) # k}
  <1>1. IsFiniteSet(places) /\ total \in Nat
    BY PlacesFinite
  <1>2. \A i \in places : IsFiniteSet(upTo(i)) /\ Cardinality(upTo(i)) \in Nat
    <2>1. ASSUME NEW i \in places PROVE IsFiniteSet(upTo(i)) /\ Cardinality(upTo(i)) \in Nat
      <3>1. upTo(i) \in SUBSET places
        OBVIOUS
      <3>2. QED
        BY <1>1, <3>1, FS_Subset, FS_CardinalityType
    <2>2. QED
      BY <2>1
  \* After fewer than all of them there is a next place, and it makes one more.
  <1>3. ASSUME NEW low \in SUBSET places, IsFiniteSet(low), Cardinality(low) < total,
               \A a \in low, b \in places \ low : a < b
        PROVE  \E i \in places : Cardinality(upTo(i)) = Cardinality(low) + 1
    <2>1. places \ low # {}
      <3>1. ASSUME places \ low = {} PROVE low = places
        BY <3>1
      <3>2. low # places
        BY <1>1, <1>3
      <3>3. QED
        BY <3>1, <3>2
    <2>2. places \ low \in SUBSET Nat
      OBVIOUS
    <2>3. PICK i \in places \ low : \A m \in places \ low : i <= m
      BY <2>1, <2>2, LeastNatural
    <2>4. upTo(i) = low \cup {i}
      <3>1. \A m \in places : m \in Nat
        OBVIOUS
      <3>2. ASSUME NEW m \in places PROVE m <= i <=> m \in low \/ m = i
        BY <1>3, <2>3, <3>1
      <3>3. QED
        BY <2>3, <3>2
    <2>5. Cardinality(low \cup {i}) = Cardinality(low) + 1
      BY <1>3, <2>3, FS_AddElement
    <2>6. QED
      BY <2>3, <2>4, <2>5
  <1>4. gaps = {}
    <2> SUFFICES ASSUME gaps # {} PROVE FALSE
      OBVIOUS
    <2>1. gaps \in SUBSET Nat
      BY <1>1
    <2>2. PICK k \in gaps : \A m \in gaps : k <= m
      BY <2>1, LeastNatural
    <2>3. k \in 1..total /\ \A i \in places : Cardinality(upTo(i)) # k
      BY <2>2
    <2>4. CASE k = 1
      <3>1. IsFiniteSet({}) /\ Cardinality({}) = 0
        BY FS_EmptySet
      <3>2. \E i \in places : Cardinality(upTo(i)) = 0 + 1
        BY <1>1, <1>3, <2>3, <2>4, <3>1
      <3>3. QED
        BY <2>3, <2>4, <3>2
    <2>5. CASE k # 1
      <3>1. k - 1 \in 1..total /\ k - 1 \notin gaps
        BY <1>1, <2>1, <2>2, <2>3, <2>5
      <3>2. PICK i \in places : Cardinality(upTo(i)) = k - 1
        BY <3>1
      <3>3. \A a \in upTo(i), b \in places \ upTo(i) : a < b
        OBVIOUS
      <3>4. upTo(i) \in SUBSET places /\ k - 1 < total /\ (k - 1) + 1 = k
        BY <1>1, <2>3
      <3>5. IsFiniteSet(upTo(i))
        BY <1>2
      <3> HIDE DEF gaps
      <3>6. \E o \in places : Cardinality(upTo(o)) = k
        BY <1>3, <3>2, <3>3, <3>4, <3>5
      <3>7. QED
        BY <2>3, <3>6
    <2>6. QED
      BY <2>4, <2>5
  <1>5. n \notin gaps
    BY <1>4
  <1>6. PICK i \in places : Cardinality(upTo(i)) = n
    BY <1>5
  <1>7. QED
    BY <1>6 DEF Nth
--------------------------------------------------------------------------------
LEMMA StanzaTyped ==
    ASSUME NEW d \in Devices, NEW a \in Ips, NEW m \in Netmasks \cup {Empty}
    PROVE  [dev |-> d, addr |-> Address(a, m)] \in Stanzas
  BY DEF Address, Stanzas, Addresses

\* An array becomes the stanzas of its elements that have an adapter and an address.
LEMMA FromJsonTyped ==
    ASSUME NEW json \in Seq(Items)
    PROVE  FromJson(json) \in Seq(Stanzas)
  <1> DEFINE used == {i \in 1..Len(json) : Usable(json[i])}
             stanza(n) == [dev |-> json[Nth(used, n)].interface,
                           addr |-> Address(json[Nth(used, n)].ip, json[Nth(used, n)].netmask)]
  <1>1. Len(json) \in Nat /\ used \in SUBSET (1..Len(json))
    OBVIOUS
  <1>2. Cardinality(used) \in Nat
    BY <1>1, PlacesFinite
  <1>3. ASSUME NEW n \in 1..Cardinality(used) PROVE stanza(n) \in Stanzas
    <2>1. Nth(used, n) \in used
      BY <1>1, <1>3, NthIs
    <2>2. json[Nth(used, n)] \in Items /\ Usable(json[Nth(used, n)])
      BY <2>1
    <2>3. /\ json[Nth(used, n)].interface \in Devices /\ json[Nth(used, n)].ip \in Ips
          /\ json[Nth(used, n)].netmask \in Netmasks \cup {Empty}
      BY <2>2 DEF Items, Usable
    <2>4. QED
      BY <2>3, StanzaTyped
  <1>4. FromJson(json) = [n \in 1..Cardinality(used) |-> stanza(n)]
    BY DEF FromJson
  <1> HIDE DEF used, stanza
  <1>5. QED
    BY <1>2, <1>3, <1>4

\* The keys become the stanzas of the roles that have an address; the gateway is
\* not looked at.
RoleTexts(recs) == \A r \in Roles, f \in Fields : recs[r][f] \in FieldTexts[f] \cup {Empty}
LEMMA FromKeysTyped ==
    ASSUME NEW recs, RoleTexts(recs)
    PROVE  FromKeys(recs) \in Seq(Stanzas)
  <1> DEFINE used == {i \in 1..3 : HasIp(recs[RoleSeq[i]])}
             r(n) == RoleSeq[Nth(used, n)]
             stanza(n) == [dev |-> IF recs[r(n)]["interface"] = Empty THEN LegacyDevice[r(n)]
                                                                 ELSE recs[r(n)]["interface"],
                           addr |-> Address(recs[r(n)]["ip"], recs[r(n)]["netmask"])]
  <1>1. used \in SUBSET (1..3)
    OBVIOUS
  <1>2. Cardinality(used) \in Nat
    BY <1>1, PlacesFinite
  <1>3. ASSUME NEW n \in 1..Cardinality(used) PROVE stanza(n) \in Stanzas
    <2>1. Nth(used, n) \in used
      BY <1>1, <1>3, NthIs
    <2>2. r(n) \in Roles /\ HasIp(recs[r(n)])
      <3>1. Nth(used, n) \in 1..3 /\ HasIp(recs[RoleSeq[Nth(used, n)]])
        BY <2>1
      <3>2. \A i \in 1..3 : RoleSeq[i] \in Roles
        BY DEF RoleSeq, Roles
      <3>3. QED
        BY <3>1, <3>2
    <2> HIDE DEF r
    <2>3. /\ recs[r(n)]["interface"] \in Devices \cup {Empty}
          /\ recs[r(n)]["ip"] \in Ips /\ recs[r(n)]["netmask"] \in Netmasks \cup {Empty}
      BY <2>2 DEF RoleTexts, Fields, FieldTexts, HasIp
    <2>4. LegacyDevice[r(n)] \in Devices
      BY <2>2
    <2>5. QED
      BY <2>3, <2>4, StanzaTyped
  <1>4. FromKeys(recs) = [n \in 1..Cardinality(used) |-> stanza(n)]
    BY DEF FromKeys
  <1> HIDE DEF used, stanza
  <1>5. QED
    BY <1>2, <1>3, <1>4

LEMMA FromKeysSame ==
    ASSUME NEW recs, NEW others,
           \A r \in Roles, f \in {"interface", "ip", "netmask"} : recs[r][f] = others[r][f]
    PROVE  FromKeys(recs) = FromKeys(others)
  <1> DEFINE used(q) == {i \in 1..3 : HasIp(q[RoleSeq[i]])}
             stanza(q, i) == [dev |-> IF q[RoleSeq[i]]["interface"] = Empty THEN LegacyDevice[RoleSeq[i]]
                                                              ELSE q[RoleSeq[i]]["interface"],
                              addr |-> Address(q[RoleSeq[i]]["ip"], q[RoleSeq[i]]["netmask"])]
  <1>1. \A i \in 1..3 : RoleSeq[i] \in Roles
    BY DEF RoleSeq, Roles
  <1>2. used(recs) = used(others)
    BY <1>1 DEF HasIp
  <1>3. \A i \in 1..3 : stanza(recs, i) = stanza(others, i)
    BY <1>1
  <1>4. \A n \in 1..Cardinality(used(recs)) : Nth(used(recs), n) \in 1..3
    BY NthIs
  <1>5. /\ FromKeys(recs) = [n \in 1..Cardinality(used(recs)) |-> stanza(recs, Nth(used(recs), n))]
        /\ FromKeys(others) = [n \in 1..Cardinality(used(others)) |-> stanza(others, Nth(used(others), n))]
    BY DEF FromKeys
  <1> HIDE DEF used, stanza
  <1>6. QED
    BY <1>2, <1>3, <1>4, <1>5

LEMMA Numbered ==
    /\ \A n \in 1..3 : RoleSeq[n] \in Roles
    /\ \A m \in 1..4 : FieldSeq[m] \in Fields
    /\ \A r \in Roles : \E n \in 1..3 : RoleSeq[n] = r
    /\ \A m, n \in 1..3 : RoleSeq[m] = RoleSeq[n] => m = n
    /\ \A m, n \in 1..4 : FieldSeq[m] = FieldSeq[n] => m = n
    /\ \A r \in Roles : LastField(r) \in 3..4
  BY DEF RoleSeq, Roles, FieldSeq, Fields, LastField

\* The script's locals: the cursor points at a key, and a stanza is being written
\* while there is one.
Places(j) ==
    /\ job[j] = "keys" => cursor[j][2] <= LastField(RoleSeq[cursor[j][1]])
    /\ job[j] \in {"head", "body", "flush", "assign"} => at[j] <= Len(stanzas[j])
Shapes ==
    /\ DOMAIN vals = Jobs
    /\ \A j \in Jobs : DOMAIN vals[j] = Roles /\ \A r \in Roles : DOMAIN vals[j][r] = Fields
    /\ \A j \in Jobs : Places(j)
Typed == StoreTypeOK /\ SyncTypeOK /\ Shapes

LEMMA LegacyTyped ==
    ASSUME StoreTypeOK
    PROVE  RoleTexts(LegacyOf(SysFile))
  <1>1. ASSUME NEW r \in Roles, NEW f \in Fields
        PROVE  ValueOr(db[SysFile][<<r, f>>], Empty) \in FieldTexts[f] \cup {Empty}
    BY DEF StoreTypeOK, ValueOr
  <1>2. QED
    BY <1>1 DEF RoleTexts, LegacyOf

LEMMA WantedTyped ==
    ASSUME StoreTypeOK
    PROVE  Wanted \in Seq(Stanzas)
  <1>1. db[SysFile][JsonKey] \in Seq(Items) \cup {Empty, Missing}
    BY DEF StoreTypeOK
  <1>2. QED
    BY <1>1, FromJsonTyped, FromKeysTyped, LegacyTyped DEF Wanted, NoConfig

\* What GET_VAL may yield.
LEMMA ReadTyped ==
    ASSUME StoreTypeOK
    PROVE  /\ \A v \in GetConfig(SysFile, JsonKey) : ~NoConfig(v) => FromJson(v) \in Seq(Stanzas)
           /\ \A r \in Roles, f \in Fields : \A v \in GetConfig(SysFile, <<r, f>>) :
                 ValueOr(v, Empty) \in FieldTexts[f] \cup {Empty}
  <1>1. \A v \in GetConfig(SysFile, JsonKey) : v \in Seq(Items) \cup {Empty, Missing}
    BY DEF StoreTypeOK, GetConfig
  <1>2. \A r \in Roles, f \in Fields : \A v \in GetConfig(SysFile, <<r, f>>) :
           v \in FieldTexts[f] \cup {Empty, Missing}
    BY DEF StoreTypeOK, GetConfig
  <1>3. QED
    BY <1>1, <1>2, FromJsonTyped DEF NoConfig, ValueOr
--------------------------------------------------------------------------------
LEMMA TypedInit == Init => Typed
  <1> SUFFICES ASSUME Init PROVE Typed
    OBVIOUS
  <1> USE DEF Init
  <1>1. StoreTypeOK
    <2>1. \A name \in Files, key \in Keys : db[name][key] = Missing
      BY DEF StoreInit, FreshStore
    <2>2. DOMAIN db = Files /\ \A name \in Files : DOMAIN db[name] = Keys
      BY DEF StoreInit, FreshStore
    <2>3. JsonKey \in Keys /\ \A r \in Roles, f \in Fields : <<r, f>> \in Keys
      BY DEF Keys, LegacyKeys
    <2>4. QED
      BY <2>1, <2>2, <2>3 DEF StoreTypeOK
  <1>2. \A j \in Jobs : vals[j] = NoVals /\ job[j] = "idle"
    BY DEF SyncInit
  <1>3. /\ DOMAIN vals = Jobs
        /\ \A j \in Jobs : DOMAIN vals[j] = Roles /\ \A r \in Roles : DOMAIN vals[j][r] = Fields
        /\ \A j \in Jobs, r \in Roles, f \in Fields : vals[j][r][f] \in FieldTexts[f] \cup {Empty}
    BY <1>2 DEF SyncInit, NoVals, NoAddress
  <1>4. SyncTypeOK
    BY <1>3 DEF SyncInit, SyncTypeOK, JobStates
  <1>5. QED
    BY <1>1, <1>2, <1>3, <1>4 DEF Typed, Shapes, Places

\* What is left to show of a step of one run that does not read a key.
LEMMA JobsKept ==
    ASSUME Typed, NEW j \in Jobs, db' = db, vals' = vals,
           job' \in [Jobs -> JobStates], stanzas' \in [Jobs -> Seq(Stanzas)],
           at' \in [Jobs -> Nat \ {0}], cursor' = cursor,
           file' \in Seq(Lines), kernel' \in [SystemDevices -> SUBSET Addresses],
           \A i \in Jobs \ {j} : job'[i] = job[i] /\ stanzas'[i] = stanzas[i] /\ at'[i] = at[i],
           Places(j)'
    PROVE  Typed'
  <1>1. \A i \in Jobs : Places(i)'
    BY DEF Typed, Shapes, Places
  <1>2. StoreTypeOK'
    BY DEF Typed, StoreTypeOK
  <1>3. SyncTypeOK'
    BY DEF Typed, SyncTypeOK
  <1>4. QED
    BY <1>1, <1>2, <1>3 DEF Typed, Shapes

\* The next stanza, or the end of them.
LEMMA ToStanzaOK ==
    ASSUME Typed, NEW j \in Jobs, NEW n \in Nat \ {0}, ToStanza(j, n),
           UNCHANGED <<db, vals, stanzas, cursor>>,
           file' \in Seq(Lines), kernel' \in [SystemDevices -> SUBSET Addresses]
    PROVE  Typed'
  <1>1. /\ job \in [Jobs -> JobStates] /\ stanzas \in [Jobs -> Seq(Stanzas)]
        /\ at \in [Jobs -> Nat \ {0}]
    BY DEF Typed, SyncTypeOK
  <1>2. /\ at' = [at EXCEPT ![j] = n]
        /\ job' = [job EXCEPT ![j] = IF n > Len(stanzas[j]) THEN "restart" ELSE "head"]
    BY DEF ToStanza, Goto
  <1>3. at' \in [Jobs -> Nat \ {0}] /\ job' \in [Jobs -> JobStates]
    BY <1>1, <1>2 DEF JobStates
  <1>4. Places(j)'
    <2>1. Len(stanzas[j]) \in Nat
      BY <1>1
    <2>2. at'[j] = n /\ job'[j] = IF n > Len(stanzas[j]) THEN "restart" ELSE "head"
      BY <1>1, <1>2
    <2>3. QED
      BY <2>1, <2>2 DEF Places
  <1>5. QED
    BY <1>1, <1>2, <1>3, <1>4, JobsKept

LEMMA ReadKeyTyped ==
    ASSUME Typed, NEW j \in Jobs, ReadKey(j)
    PROVE  Typed'
  <1> DEFINE n == cursor[j][1]
             m == cursor[j][2]
             r == RoleSeq[n]
             f == FieldSeq[m]
  <1>1. /\ job \in [Jobs -> JobStates] /\ stanzas \in [Jobs -> Seq(Stanzas)]
        /\ cursor \in [Jobs -> (1..3) \X (1..4)]
    BY DEF Typed, SyncTypeOK
  <1>2. /\ n \in 1..3 /\ m \in 1..4 /\ m <= LastField(r) /\ r \in Roles /\ f \in Fields
        /\ job[j] = "keys" /\ LastField(r) \in 3..4
    BY <1>1, Numbered DEF ReadKey, Typed, Shapes, Places
  <1>3. PICK v \in GetConfig(SysFile, <<r, f>>) :
           LET now == [vals[j] EXCEPT ![r][f] = ValueOr(v, Empty)]
           IN  /\ vals' = [vals EXCEPT ![j] = now]
               /\ IF m < LastField(r) \/ n < 3
                  THEN /\ cursor' = [cursor EXCEPT ![j] =
                                       IF m < LastField(r) THEN <<n, m + 1>> ELSE <<n + 1, 1>>]
                       /\ UNCHANGED <<job, stanzas>>
                  ELSE /\ stanzas' = [stanzas EXCEPT ![j] = FromKeys(now)]
                       /\ Goto(j, "truncate") /\ UNCHANGED cursor
    BY DEF ReadKey
  <1> DEFINE now == [vals[j] EXCEPT ![r][f] = ValueOr(v, Empty)]
  <1>4. ValueOr(v, Empty) \in FieldTexts[f] \cup {Empty}
    BY <1>2, ReadTyped DEF Typed
  <1>5. /\ DOMAIN now = Roles /\ \A q \in Roles : DOMAIN now[q] = Fields
        /\ RoleTexts(now)
    <2>1. /\ DOMAIN vals[j] = Roles /\ \A q \in Roles : DOMAIN vals[j][q] = Fields
          /\ \A q \in Roles, g \in Fields : vals[j][q][g] \in FieldTexts[g] \cup {Empty}
      BY DEF Typed, Shapes, SyncTypeOK
    <2> HIDE DEF r, f
    <2>2. \A q \in Roles, g \in Fields :
             now[q][g] = IF q = r /\ g = f THEN ValueOr(v, Empty) ELSE vals[j][q][g]
      BY <1>2, <2>1
    <2>3. DOMAIN now = Roles /\ \A q \in Roles : DOMAIN now[q] = Fields
      BY <1>2, <2>1
    <2> HIDE DEF now
    <2>4. RoleTexts(now)
      BY <1>4, <2>1, <2>2 DEF RoleTexts
    <2>5. QED
      BY <2>3, <2>4
  <1> HIDE DEF now, f
  <1>6. /\ vals' = [vals EXCEPT ![j] = now] /\ DOMAIN vals = Jobs
        /\ UNCHANGED <<db, at, file, kernel>>
    BY <1>3 DEF ReadKey, now, f, Typed, Shapes
  <1>7. /\ DOMAIN vals' = Jobs
        /\ \A i \in Jobs : DOMAIN vals'[i] = Roles /\ \A q \in Roles : DOMAIN vals'[i][q] = Fields
        /\ \A i \in Jobs, q \in Roles, g \in Fields : vals'[i][q][g] \in FieldTexts[g] \cup {Empty}
    BY <1>5, <1>6 DEF Typed, Shapes, SyncTypeOK, RoleTexts
  <1>8. /\ job' \in [Jobs -> JobStates] /\ stanzas' \in [Jobs -> Seq(Stanzas)]
        /\ cursor' \in [Jobs -> (1..3) \X (1..4)]
        /\ \A i \in Jobs : Places(i)'
    <2>1. CASE m < LastField(r) \/ n < 3
      <3> DEFINE next == IF m < LastField(r) THEN <<n, m + 1>> ELSE <<n + 1, 1>>
      <3>1. cursor' = [cursor EXCEPT ![j] = next] /\ UNCHANGED <<job, stanzas>>
        BY <1>3, <2>1
      <3>2. next \in (1..3) \X (1..4) /\ next[2] <= LastField(RoleSeq[next[1]])
        <4>1. CASE m < LastField(r)
          BY <1>2, <4>1
        <4>2. CASE ~(m < LastField(r))
          <5>1. n + 1 \in 1..3 /\ RoleSeq[n + 1] \in Roles
            BY <1>2, <2>1, <4>2, Numbered
          <5>2. LastField(RoleSeq[n + 1]) \in 3..4
            BY <5>1, Numbered
          <5>3. QED
            BY <4>2, <5>1, <5>2
        <4>3. QED
          BY <4>1, <4>2
      <3> HIDE DEF next, n, m, r
      <3>3. cursor' \in [Jobs -> (1..3) \X (1..4)]
        BY <1>1, <3>1, <3>2
      <3>4. cursor'[j] = next /\ \A i \in Jobs \ {j} : cursor'[i] = cursor[i]
        BY <1>1, <3>1
      <3>5. \A i \in Jobs : Places(i)'
        BY <1>6, <3>1, <3>2, <3>4 DEF Typed, Shapes, Places
      <3>6. QED
        BY <1>1, <3>1, <3>3, <3>5
    <2>2. CASE ~(m < LastField(r) \/ n < 3)
      <3>1. /\ stanzas' = [stanzas EXCEPT ![j] = FromKeys(now)] /\ cursor' = cursor
            /\ job' = [job EXCEPT ![j] = "truncate"]
        BY <1>3, <2>2 DEF Goto, now, f
      <3>2. FromKeys(now) \in Seq(Stanzas)
        BY <1>5, FromKeysTyped
      <3>3. \A i \in Jobs : Places(i)'
        BY <1>1, <1>6, <3>1 DEF Typed, Shapes, Places
      <3>4. QED
        BY <1>1, <3>1, <3>2, <3>3 DEF JobStates
    <2>3. QED
      BY <2>1, <2>2
  <1>9. QED
    BY <1>6, <1>7, <1>8 DEF Typed, StoreTypeOK, SyncTypeOK, Shapes

LEMMA ReadJsonTyped ==
    ASSUME Typed, NEW j \in Jobs, ReadJson(j)
    PROVE  Typed'
  <1>1. /\ job \in [Jobs -> JobStates] /\ stanzas \in [Jobs -> Seq(Stanzas)]
        /\ cursor \in [Jobs -> (1..3) \X (1..4)]
    BY DEF Typed, SyncTypeOK
  <1>2. /\ UNCHANGED <<db, at, file, kernel>>
        /\ cursor' = [cursor EXCEPT ![j] = <<1, 1>>] /\ vals' = [vals EXCEPT ![j] = NoVals]
        /\ \/ job' = [job EXCEPT ![j] = "keys"] /\ stanzas' = stanzas
           \/ /\ job' = [job EXCEPT ![j] = "truncate"]
              /\ \E s \in Seq(Stanzas) : stanzas' = [stanzas EXCEPT ![j] = s]
    BY ReadTyped DEF ReadJson, Goto, Typed
  <1>3. /\ DOMAIN vals' = Jobs
        /\ \A i \in Jobs : vals'[i] = vals[i] \/ vals'[i] = NoVals
    BY <1>2 DEF Typed, Shapes
  <1>4. /\ \A i \in Jobs : DOMAIN vals'[i] = Roles /\ \A q \in Roles : DOMAIN vals'[i][q] = Fields
        /\ \A i \in Jobs, q \in Roles, g \in Fields : vals'[i][q][g] \in FieldTexts[g] \cup {Empty}
    <2>1. ASSUME NEW i \in Jobs
          PROVE  /\ DOMAIN vals'[i] = Roles /\ \A q \in Roles : DOMAIN vals'[i][q] = Fields
                 /\ \A q \in Roles, g \in Fields : vals'[i][q][g] \in FieldTexts[g] \cup {Empty}
      <3>1. CASE vals'[i] = vals[i]
        BY <3>1 DEF Typed, Shapes, SyncTypeOK
      <3>2. CASE vals'[i] = NoVals
        BY <3>2 DEF NoVals, NoAddress
      <3>3. QED
        BY <1>3, <3>1, <3>2
    <2>2. QED
      BY <2>1
  <1>5. job' \in [Jobs -> JobStates] /\ stanzas' \in [Jobs -> Seq(Stanzas)]
    <2>1. \A s \in JobStates : [job EXCEPT ![j] = s] \in [Jobs -> JobStates]
      BY <1>1
    <2>2. "keys" \in JobStates /\ "truncate" \in JobStates
      BY DEF JobStates
    <2>3. stanzas' \in [Jobs -> Seq(Stanzas)]
      BY <1>1, <1>2
    <2>4. QED
      BY <1>2, <2>1, <2>2, <2>3
  <1>6. cursor' \in [Jobs -> (1..3) \X (1..4)]
    BY <1>1, <1>2
  <1>7. \A i \in Jobs : Places(i)'
    <2>1. \A i \in Jobs \ {j} : job'[i] = job[i] /\ stanzas'[i] = stanzas[i] /\ cursor'[i] = cursor[i]
      BY <1>1, <1>2
    <2>2. cursor'[j] = <<1, 1>> /\ job'[j] \in {"keys", "truncate"}
      BY <1>1, <1>2
    <2>3. 1 <= LastField(RoleSeq[1])
      BY Numbered
    <2>4. QED
      BY <1>2, <2>1, <2>2, <2>3 DEF Typed, Shapes, Places
  <1>8. QED
    BY <1>2, <1>3, <1>4, <1>5, <1>6, <1>7 DEF Typed, StoreTypeOK, SyncTypeOK, Shapes

\* A line added to the file.
LEMMA AppendOK ==
    ASSUME NEW lines \in Seq(Lines), NEW line \in Lines
    PROVE  /\ Append(lines, line) \in Seq(Lines)
           /\ Len(Append(lines, line)) = Len(lines) + 1
           /\ Append(lines, line)[Len(lines) + 1] = line
           /\ \A n \in 1..Len(lines) : Append(lines, line)[n] = lines[n]
  OBVIOUS

\* ifupdown gives out addresses that stand in the file.
LEMMA FileAddressesTyped ==
    ASSUME file \in Seq(Lines), NEW d
    PROVE  FileAddresses(d) \subseteq Addresses
  <1>1. \A n \in AddressLines : file[n] \in Lines /\ "address" \in DOMAIN file[n]
    BY DEF AddressLines
  <1>2. \A line \in Lines : "address" \in DOMAIN line => line.address \in Addresses
    BY DEF Lines
  <1>3. QED
    BY <1>1, <1>2 DEF FileAddresses

LEMMA RunTyped ==
    ASSUME Typed, NEW j \in Jobs, RunStep(j)
    PROVE  Typed'
  <1>1. /\ job \in [Jobs -> JobStates] /\ stanzas \in [Jobs -> Seq(Stanzas)]
        /\ at \in [Jobs -> Nat \ {0}] /\ cursor \in [Jobs -> (1..3) \X (1..4)]
        /\ file \in Seq(Lines) /\ kernel \in [SystemDevices -> SUBSET Addresses]
    BY DEF Typed, SyncTypeOK
  <1>2. \A s \in JobStates : [job EXCEPT ![j] = s] \in [Jobs -> JobStates]
    BY <1>1
  <1>3. /\ "body" \in JobStates /\ "flush" \in JobStates /\ "assign" \in JobStates
        /\ "ended" \in JobStates /\ "idle" \in JobStates
    BY DEF JobStates
  <1>4. job[j] \in {"head", "body", "flush", "assign"} =>
           /\ at[j] \in 1..Len(stanzas[j]) /\ stanzas[j][at[j]] \in Stanzas
           /\ stanzas[j][at[j]].dev \in Devices /\ stanzas[j][at[j]].addr \in Addresses
    <2>1. ASSUME job[j] \in {"head", "body", "flush", "assign"}
          PROVE  at[j] \in 1..Len(stanzas[j]) /\ stanzas[j][at[j]] \in Stanzas
      <3>1. at[j] <= Len(stanzas[j]) /\ Len(stanzas[j]) \in Nat /\ at[j] \in Nat \ {0}
        BY <1>1, <2>1 DEF Typed, Shapes, Places
      <3>2. stanzas[j] \in Seq(Stanzas) /\ at[j] \in 1..Len(stanzas[j])
        BY <1>1, <3>1
      <3>3. QED
        BY <3>2
    <2>2. QED
      BY <2>1 DEF Stanzas
  <1>5. CASE ReadJson(j)
    BY <1>5, ReadJsonTyped
  <1>6. CASE ReadKey(j)
    BY <1>6, ReadKeyTyped
  <1>7. CASE Truncate(j)
    <2>1. ToStanza(j, 1) /\ UNCHANGED <<db, vals, stanzas, cursor, kernel>> /\ file' = <<>>
      BY <1>7 DEF Truncate
    <2>2. QED
      BY <1>1, <2>1, ToStanzaOK
  <1>8. CASE AppendHead(j)
    <2>1. /\ job' = [job EXCEPT ![j] = "body"] /\ job[j] = "head"
          /\ file' = Append(file, [iface |-> stanzas[j][at[j]].dev])
          /\ UNCHANGED <<db, stanzas, at, cursor, vals, kernel>>
      BY <1>8 DEF AppendHead, Goto
    <2>2. [iface |-> stanzas[j][at[j]].dev] \in Lines
      BY <1>4, <2>1 DEF Lines
    <2>3. file' \in Seq(Lines)
      BY <1>1, <2>1, <2>2, AppendOK
    <2>4. job'[j] = "body" /\ \A i \in Jobs \ {j} : job'[i] = job[i]
      BY <1>1, <2>1
    <2>5. Places(j)'
      BY <2>1, <2>4 DEF Typed, Shapes, Places
    <2>6. QED
      BY <1>1, <1>2, <1>3, <2>1, <2>3, <2>4, <2>5, JobsKept
  <1>9. CASE AppendBody(j)
    <2>1. /\ job' = [job EXCEPT ![j] = "flush"] /\ job[j] = "body"
          /\ file' = Append(file, [address |-> stanzas[j][at[j]].addr])
          /\ UNCHANGED <<db, stanzas, at, cursor, vals, kernel>>
      BY <1>9 DEF AppendBody, Goto
    <2>2. [address |-> stanzas[j][at[j]].addr] \in Lines
      BY <1>4, <2>1 DEF Lines
    <2>3. file' \in Seq(Lines)
      BY <1>1, <2>1, <2>2, AppendOK
    <2>4. job'[j] = "flush" /\ \A i \in Jobs \ {j} : job'[i] = job[i]
      BY <1>1, <2>1
    <2>5. Places(j)'
      BY <2>1, <2>4 DEF Typed, Shapes, Places
    <2>6. QED
      BY <1>1, <1>2, <1>3, <2>1, <2>3, <2>4, <2>5, JobsKept
  <1>10. CASE Flush(j)
    <2>1. /\ job' = [job EXCEPT ![j] = "assign"] /\ job[j] = "flush"
          /\ UNCHANGED <<db, stanzas, at, cursor, vals, file>>
      BY <1>10 DEF Flush, Goto
    <2>2. kernel' \in [SystemDevices -> SUBSET Addresses]
      BY <1>1, <1>10 DEF Flush
    <2>3. job'[j] = "assign" /\ \A i \in Jobs \ {j} : job'[i] = job[i]
      BY <1>1, <2>1
    <2>4. Places(j)'
      BY <2>1, <2>3 DEF Typed, Shapes, Places
    <2>5. QED
      BY <1>1, <1>2, <1>3, <2>1, <2>2, <2>3, <2>4, JobsKept
  <1>11. CASE Assign(j)
    <2>1. /\ job[j] = "assign" /\ ToStanza(j, at[j] + 1)
          /\ UNCHANGED <<db, stanzas, cursor, vals, file>>
      BY <1>11 DEF Assign
    <2>2. kernel' \in [SystemDevices -> SUBSET Addresses]
      BY <1>1, <1>4, <1>11, <2>1 DEF Assign
    <2>3. at[j] + 1 \in Nat \ {0}
      BY <1>1
    <2>4. QED
      BY <1>1, <2>1, <2>2, <2>3, ToStanzaOK
  <1>12. CASE RestartNetworking(j)
    <2>1. /\ stanzas' = [stanzas EXCEPT ![j] = <<>>] /\ at' = [at EXCEPT ![j] = 1]
          /\ cursor' = [cursor EXCEPT ![j] = <<1, 1>>] /\ vals' = [vals EXCEPT ![j] = NoVals]
          /\ UNCHANGED <<db, file>>
          /\ job' = [job EXCEPT ![j] = IF j \in Waited THEN "ended" ELSE "idle"]
      BY <1>12 DEF RestartNetworking, Goto
    <2>2. kernel' \in [SystemDevices -> SUBSET Addresses]
      BY <1>1, <1>12, FileAddressesTyped DEF RestartNetworking
    <2>3. /\ job' \in [Jobs -> JobStates] /\ stanzas' \in [Jobs -> Seq(Stanzas)]
          /\ at' \in [Jobs -> Nat \ {0}] /\ cursor' \in [Jobs -> (1..3) \X (1..4)]
      BY <1>1, <1>2, <1>3, <2>1
    <2>4. DOMAIN vals' = Jobs /\ \A i \in Jobs : vals'[i] = vals[i] \/ vals'[i] = NoVals
      BY <2>1 DEF Typed, Shapes
    <2>5. /\ \A i \in Jobs : DOMAIN vals'[i] = Roles /\ \A q \in Roles : DOMAIN vals'[i][q] = Fields
          /\ \A i \in Jobs, q \in Roles, g \in Fields : vals'[i][q][g] \in FieldTexts[g] \cup {Empty}
      <3>1. ASSUME NEW i \in Jobs
            PROVE  /\ DOMAIN vals'[i] = Roles /\ \A q \in Roles : DOMAIN vals'[i][q] = Fields
                   /\ \A q \in Roles, g \in Fields : vals'[i][q][g] \in FieldTexts[g] \cup {Empty}
        <4>1. CASE vals'[i] = vals[i]
          BY <4>1 DEF Typed, Shapes, SyncTypeOK
        <4>2. CASE vals'[i] = NoVals
          BY <4>2 DEF NoVals, NoAddress
        <4>3. QED
          BY <2>4, <4>1, <4>2
      <3>2. QED
        BY <3>1
    <2>6. \A i \in Jobs : Places(i)'
      <3>1. job'[j] \in {"ended", "idle"}
        BY <1>1, <2>1
      <3>2. \A i \in Jobs \ {j} : /\ job'[i] = job[i] /\ stanzas'[i] = stanzas[i]
                                  /\ at'[i] = at[i] /\ cursor'[i] = cursor[i]
        BY <1>1, <2>1
      <3>3. QED
        BY <3>1, <3>2 DEF Typed, Shapes, Places
    <2>7. QED
      BY <1>1, <2>1, <2>2, <2>3, <2>4, <2>5, <2>6 DEF Typed, StoreTypeOK, SyncTypeOK, Shapes
  <1>13. QED
    BY <1>5, <1>6, <1>7, <1>8, <1>9, <1>10, <1>11, <1>12 DEF RunStep

LEMMA TypedNext == Typed /\ [Next]_vars => Typed'
  <1> SUFFICES ASSUME Typed, [Next]_vars PROVE Typed'
    OBVIOUS
  <1>1. job \in [Jobs -> JobStates] /\ stanzas \in [Jobs -> Seq(Stanzas)]
    BY DEF Typed, SyncTypeOK
  <1>2. ASSUME NEW j \in Jobs, NEW s \in {"started", "idle"}, job' = [job EXCEPT ![j] = s],
               UNCHANGED <<db, stanzas, at, cursor, vals, file, kernel>>
        PROVE  Typed'
    <2>1. s \in JobStates
      BY DEF JobStates
    <2>2. job' \in [Jobs -> JobStates] /\ job'[j] = s /\ \A i \in Jobs \ {j} : job'[i] = job[i]
      BY <1>1, <1>2, <2>1
    <2>3. Places(j)'
      BY <2>2 DEF Places
    <2>4. QED
      BY <1>2, <2>2, <2>3, JobsKept DEF Typed, SyncTypeOK
  <1>3. CASE Change
    <2>1. PICK content \in Stores : db' = [db EXCEPT ![SysFile] = content]
      BY <1>3 DEF Change
    <2>2. DOMAIN db' = Files /\ \A name \in Files : db'[name] = db[name] \/ db'[name] = content
      BY <2>1 DEF Typed, StoreTypeOK
    <2>3. StoreTypeOK'
      <3>1. ASSUME NEW name \in Files
            PROVE  /\ DOMAIN db'[name] = Keys
                   /\ \A r \in Roles, f \in Fields :
                         db'[name][<<r, f>>] \in FieldTexts[f] \cup {Empty, Missing}
                   /\ db'[name][JsonKey] \in Seq(Items) \cup {Empty, Missing}
        <4>1. CASE db'[name] = db[name]
          BY <4>1 DEF Typed, StoreTypeOK
        <4>2. CASE db'[name] = content
          BY <4>2
        <4>3. QED
          BY <2>2, <4>1, <4>2
      <3>2. QED
        BY <2>2, <3>1 DEF StoreTypeOK
    <2>4. UNCHANGED <<jobVars, file, kernel>>
      BY <1>3 DEF Change
    <2>5. QED
      BY <2>3, <2>4 DEF jobVars, Typed, SyncTypeOK, Shapes, Places
  <1>4. ASSUME NEW j \in Jobs, Launch(j) \/ Collect(j) PROVE Typed'
    BY <1>2, <1>4 DEF Launch, Collect
  <1>5. ASSUME NEW j \in Jobs, RunStep(j) PROVE Typed'
    BY <1>5, RunTyped
  <1>6. CASE UNCHANGED vars
    BY <1>6 DEF vars, jobVars, Typed, StoreTypeOK, SyncTypeOK, Shapes, Places
  <1>7. QED
    BY <1>3, <1>4, <1>5, <1>6 DEF Next

\* Whatever clients store and however many runs overlap, with reads that fail too, the
\* runs' locals, the lines of the interfaces file and the addresses on the adapters
\* keep their types.
THEOREM TypeCorrect == Spec => [](StoreTypeOK /\ SyncTypeOK)
  <1>1. Typed => StoreTypeOK /\ SyncTypeOK
    BY DEF Typed
  <1>2. QED
    BY <1>1, TypedInit, TypedNext, PTL DEF Spec
--------------------------------------------------------------------------------
\* How far the only run has got with a configuration that is not going to change
\* before it ends: no launch is owed, so nobody has changed the store since it began.
OneSlot == \E j : Jobs = {j}

\* The legacy keys before the cursor have been read as they are.  (The gateways,
\* fourth of a role's keys, are read and not used.)
ReadSoFar(j) ==
    \A n, m \in 1..3 :
        n < cursor[j][1] \/ (n = cursor[j][1] /\ m < cursor[j][2]) =>
            vals[j][RoleSeq[n]][FieldSeq[m]] = LegacyOf(SysFile)[RoleSeq[n]][FieldSeq[m]]

\* The first k stanzas stand in the file.
Copied(k) ==
    \A n \in 1..k :
        file[2 * n - 1] = [iface |-> Wanted[n].dev] /\ file[2 * n] = [address |-> Wanted[n].addr]

Progress(j) ==
    /\ job[j] = "keys" => NoConfig(db[SysFile][JsonKey]) /\ ReadSoFar(j)
    /\ job[j] \in {"truncate", "head", "body", "flush", "assign", "restart"} =>
          stanzas[j] = Wanted
    /\ job[j] = "head" => Len(file) = 2 * (at[j] - 1) /\ Copied(at[j] - 1)
    /\ job[j] = "body" => /\ Len(file) = 2 * at[j] - 1 /\ Copied(at[j] - 1)
                          /\ file[2 * at[j] - 1] = [iface |-> Wanted[at[j]].dev]
    /\ job[j] \in {"flush", "assign"} => Len(file) = 2 * at[j] /\ Copied(at[j])
    /\ job[j] = "restart" => FileFollows
    /\ job[j] \in {"idle", "ended"} => FileFollows /\ KernelFollows
SyncInv == due \in Nat /\ (due = 0 => \A j \in Jobs : Progress(j))

\* ifupdown reads a file of whole stanzas: each address belongs to the line before it,
\* and an adapter comes up with the addresses of all its stanzas.
LEMMA WholeFile ==
    ASSUME StoreTypeOK, file \in Seq(Lines), FileFollows
    PROVE  /\ ~Refused
           /\ \A d : FileAddresses(d) =
                        {Wanted[m].addr : m \in {o \in DOMAIN Wanted : Wanted[o].dev = d}}
  <1> DEFINE L == Len(Wanted)
             dev(n) == Wanted[n].dev
             addr(n) == Wanted[n].addr
  <1>1. L \in Nat /\ DOMAIN Wanted = 1..L /\ DOMAIN file = 1..(2 * L)
    BY WantedTyped DEF FileFollows
  <1>2. \A n \in 1..L : file[2 * n - 1] = [iface |-> dev(n)] /\ file[2 * n] = [address |-> addr(n)]
    BY <1>1 DEF FileFollows
  <1> HIDE DEF L, dev, addr
  <1>3. \A n \in 1..L : /\ "iface" \in DOMAIN file[2 * n - 1] /\ "address" \notin DOMAIN file[2 * n - 1]
                        /\ "iface" \notin DOMAIN file[2 * n] /\ "address" \in DOMAIN file[2 * n]
                        /\ file[2 * n - 1].iface = dev(n) /\ file[2 * n].address = addr(n)
    <2>1. \A x : /\ DOMAIN [iface |-> x] = {"iface"} /\ [iface |-> x].iface = x
                 /\ DOMAIN [address |-> x] = {"address"} /\ [address |-> x].address = x
      OBVIOUS
    <2>2. "iface" # "address"
      OBVIOUS
    <2>3. QED
      BY <1>2, <2>1, <2>2, Zenon
  <1>4. \A x \in 1..(2 * L) : \E n \in 1..L : x = 2 * n - 1 \/ x = 2 * n
    <2>1. ASSUME NEW x \in 1..(2 * L) PROVE \E n \in 1..L : x = 2 * n - 1 \/ x = 2 * n
      <3>1. (x + 1) \div 2 \in 1..L
        BY <1>1, <2>1
      <3>2. x = 2 * ((x + 1) \div 2) - 1 \/ x = 2 * ((x + 1) \div 2)
        BY <1>1, <2>1
      <3>3. QED
        BY <3>1, <3>2
    <2>2. QED
      BY <2>1
  <1>5. \A n \in 1..L : 2 * n \in AddressLines /\ 2 * n - 1 \in 1..(2 * n)
    <2>1. \A n \in 1..L : 2 * n \in 1..(2 * L) /\ 2 * n - 1 \in 1..(2 * n)
      BY <1>1
    <2>2. QED
      BY <1>1, <1>3, <2>1 DEF AddressLines
  <1>6. \A x \in AddressLines : \E n \in 1..L : x = 2 * n
    BY <1>1, <1>3, <1>4 DEF AddressLines
  <1>7. ASSUME NEW n \in 1..L PROVE StanzaOf(2 * n) = 2 * n - 1
    <2> DEFINE opens(m) == /\ "iface" \in DOMAIN file[m]
                           /\ \A o \in (m + 1)..(2 * n) : "iface" \notin DOMAIN file[o]
    <2>1. 2 * n - 1 \in 1..(2 * n) /\ opens(2 * n - 1)
      <3>1. 2 * n - 1 \in 1..(2 * n) /\ \A o \in ((2 * n - 1) + 1)..(2 * n) : o = 2 * n
        BY <1>1
      <3>2. "iface" \in DOMAIN file[2 * n - 1] /\ "iface" \notin DOMAIN file[2 * n]
        BY <1>3
      <3>3. QED
        BY <3>1, <3>2, Zenon
    <2>2. ASSUME NEW m \in 1..(2 * n), opens(m) PROVE m = 2 * n - 1
      <3>1. m \in 1..(2 * L)
        BY <1>1
      <3>2. PICK o \in 1..L : m = 2 * o - 1
        BY <1>3, <1>4, <2>2, <3>1
      <3>3. CASE o < n
        <4>1. 2 * n - 1 \in (m + 1)..(2 * n)
          BY <1>1, <3>2, <3>3
        <4>2. QED
          BY <1>3, <2>2, <4>1
      <3>4. CASE o >= n
        BY <1>1, <3>2, <3>4
      <3>5. QED
        BY <1>1, <3>3, <3>4
    <2>3. StanzaOf(2 * n) = CHOOSE m \in 1..(2 * n) : opens(m)
      BY DEF StanzaOf
    <2> HIDE DEF opens
    <2>4. QED
      BY <2>1, <2>2, <2>3
  <1>8. ~Orphan
    <2>1. ASSUME NEW x \in AddressLines PROVE \E m \in 1..x : "iface" \in DOMAIN file[m]
      BY <1>3, <1>5, <1>6
    <2>2. QED
      BY <2>1 DEF Orphan
  <1>9. ~Refused
    <2>1. ASSUME NEW x \in AddressLines, NEW y \in AddressLines, StanzaOf(x) = StanzaOf(y)
          PROVE  x = y
      <3>1. PICK n \in 1..L : x = 2 * n
        BY <1>6
      <3>2. PICK o \in 1..L : y = 2 * o
        BY <1>6
      <3>3. 2 * n - 1 = 2 * o - 1
        BY <1>7, <2>1, <3>1, <3>2
      <3>4. QED
        BY <1>1, <3>1, <3>2, <3>3
    <2>2. QED
      BY <1>8, <2>1 DEF Refused
  <1>10. ASSUME NEW d
         PROVE  FileAddresses(d) =
                   {Wanted[m].addr : m \in {o \in DOMAIN Wanted : Wanted[o].dev = d}}
    <2> DEFINE mine == {x \in AddressLines : file[StanzaOf(x)].iface = d}
               ours == {o \in 1..L : dev(o) = d}
    <2>1. \A n \in 1..L : 2 * n \in mine <=> n \in ours
      BY <1>3, <1>5, <1>7
    <2>2. \A x \in mine : \E n \in ours : x = 2 * n
      BY <1>6, <2>1
    <2>3. FileAddresses(d) = {file[x].address : x \in mine}
      BY DEF FileAddresses
    <2>4. {Wanted[m].addr : m \in {o \in DOMAIN Wanted : Wanted[o].dev = d}} = {addr(n) : n \in ours}
      BY <1>1 DEF addr, dev
    <2>5. \A n \in ours : file[2 * n].address = addr(n) /\ 2 * n \in mine
      BY <1>3, <2>1
    <2> HIDE DEF mine, ours
    <2>6. {file[x].address : x \in mine} = {addr(n) : n \in ours}
      <3>1. ASSUME NEW a \in {file[x].address : x \in mine} PROVE a \in {addr(n) : n \in ours}
        <4>1. PICK x \in mine : a = file[x].address
          OBVIOUS
        <4>2. QED
          BY <2>2, <2>5, <4>1
      <3>2. ASSUME NEW a \in {addr(n) : n \in ours} PROVE a \in {file[x].address : x \in mine}
        <4>1. PICK n \in ours : a = addr(n)
          OBVIOUS
        <4>2. QED
          BY <2>5, <4>1
      <3>3. QED
        BY <3>1, <3>2
    <2>7. QED
      BY <2>3, <2>4, <2>6
  <1>11. QED
    BY <1>9, <1>10

LEMMA RestartFollows ==
    ASSUME Typed, FileFollows, NEW j \in Jobs, RestartNetworking(j)
    PROVE  FileFollows' /\ KernelFollows'
  <1>1. UNCHANGED <<db, file>> /\ file \in Seq(Lines) /\ StoreTypeOK
    BY DEF RestartNetworking, Typed, SyncTypeOK
  <1>2. Wanted' = Wanted
    BY <1>1 DEF Wanted, LegacyOf
  <1>3. /\ ~Refused
        /\ \A d : FileAddresses(d) =
                     {Wanted[m].addr : m \in {o \in DOMAIN Wanted : Wanted[o].dev = d}}
    BY <1>1, WholeFile
  <1>4. kernel' = [d \in SystemDevices |->
                      IF FileAddresses(d) # {} THEN FileAddresses(d) ELSE kernel[d]]
    BY <1>3 DEF RestartNetworking
  <1>5. ASSUME NEW n \in DOMAIN Wanted, Wanted[n].dev \in SystemDevices
        PROVE  kernel'[Wanted[n].dev] = {Wanted[m].addr : m \in {o \in DOMAIN Wanted :
                                                          Wanted[o].dev = Wanted[n].dev}}
    <2> DEFINE d == Wanted[n].dev
    <2>1. Wanted[n].addr \in FileAddresses(d)
      BY <1>3
    <2>2. kernel'[d] = FileAddresses(d)
      BY <1>4, <1>5, <2>1
    <2>3. QED
      BY <1>3, <2>2
  <1>6. KernelFollows'
    BY <1>2, <1>5 DEF KernelFollows
  <1>7. FileFollows'
    BY <1>1, <1>2 DEF FileFollows
  <1>8. QED
    BY <1>6, <1>7

--------------------------------------------------------------------------------
\* Where there is no address there is no stanza.
LEMMA NothingUsed ==
    /\ \A recs : (\A r \in Roles : recs[r]["ip"] = Empty) => FromKeys(recs) = <<>>
    /\ \A json : (\A i \in 1..Len(json) : json[i].ip = Empty) => FromJson(json) = <<>>
  <1>1. Cardinality({}) = 0 /\ 1..0 = {}
    BY FS_EmptySet
  <1>2. ASSUME NEW recs, \A r \in Roles : recs[r]["ip"] = Empty PROVE FromKeys(recs) = <<>>
    <2> DEFINE used == {i \in 1..3 : HasIp(recs[RoleSeq[i]])}
               stanza(n) ==
                 LET r == RoleSeq[Nth(used, n)]
                 IN  [dev |-> IF recs[r]["interface"] = Empty THEN LegacyDevice[r]
                                                              ELSE recs[r]["interface"],
                      addr |-> Address(recs[r]["ip"], recs[r]["netmask"])]
    <2>1. FromKeys(recs) = [n \in 1..Cardinality(used) |-> stanza(n)]
      BY DEF FromKeys
    <2>2. used = {}
      BY <1>2, Numbered DEF HasIp
    <2> HIDE DEF used, stanza
    <2>3. QED
      BY <1>1, <2>1, <2>2
  <1>3. ASSUME NEW json, \A i \in 1..Len(json) : json[i].ip = Empty PROVE FromJson(json) = <<>>
    <2> DEFINE used == {i \in 1..Len(json) : Usable(json[i])}
               stanza(n) ==
                 LET item == json[Nth(used, n)]
                 IN  [dev |-> item.interface, addr |-> Address(item.ip, item.netmask)]
    <2>1. FromJson(json) = [n \in 1..Cardinality(used) |-> stanza(n)]
      BY DEF FromJson
    <2>2. used = {}
      BY <1>3 DEF Usable
    <2> HIDE DEF used, stanza
    <2>3. QED
      BY <1>1, <2>1, <2>2
  <1>4. QED
    BY <1>2, <1>3

LEMMA SyncInitInv == Init => SyncInv
  <1> SUFFICES ASSUME Init PROVE SyncInv
    OBVIOUS
  <1>1. \A key \in Keys : db[SysFile][key] = Missing
    BY DEF Init, StoreInit, FreshStore
  <1>2. JsonKey \in Keys /\ \A r \in Roles, f \in Fields : <<r, f>> \in Keys
    BY DEF Keys, LegacyKeys
  <1>3. Wanted = FromKeys(LegacyOf(SysFile))
    BY <1>1, <1>2 DEF Wanted, NoConfig
  <1>4. \A r \in Roles : LegacyOf(SysFile)[r]["ip"] = Empty
    BY <1>1, <1>2 DEF LegacyOf, ValueOr, Fields
  <1>5. Wanted = <<>>
    BY <1>3, <1>4, NothingUsed
  <1>6. FileFollows /\ KernelFollows
    BY <1>5 DEF Init, SyncInit, FileFollows, KernelFollows
  <1>7. QED
    BY <1>6 DEF Init, SyncInit, SyncInv, Progress

\* One key further, and at the last key all stanzas that are wanted.
LEMMA KeyRead ==
    ASSUME Typed, "read" \notin StoreFaults, NEW j \in Jobs, ReadKey(j), Progress(j)
    PROVE  /\ job'[j] = "keys" => ReadSoFar(j)'
           /\ job'[j] # "keys" => job'[j] = "truncate" /\ stanzas'[j] = Wanted
  <1> DEFINE n == cursor[j][1]
             m == cursor[j][2]
             r == RoleSeq[n]
             f == FieldSeq[m]
             now == [vals[j] EXCEPT ![r][f] = ValueOr(db[SysFile][<<r, f>>], Empty)]
  <1>1. /\ job \in [Jobs -> JobStates] /\ cursor \in [Jobs -> (1..3) \X (1..4)]
        /\ stanzas \in [Jobs -> Seq(Stanzas)] /\ DOMAIN vals = Jobs
    BY DEF Typed, SyncTypeOK, Shapes
  <1>2. /\ n \in 1..3 /\ m \in 1..4 /\ m <= LastField(r) /\ r \in Roles /\ f \in Fields
        /\ job[j] = "keys" /\ LastField(r) \in 3..4
    BY <1>1, Numbered DEF ReadKey, Typed, Shapes, Places
  <1>3. /\ vals' = [vals EXCEPT ![j] = now] /\ db' = db
        /\ IF m < LastField(r) \/ n < 3
           THEN /\ cursor' = [cursor EXCEPT ![j] =
                                IF m < LastField(r) THEN <<n, m + 1>> ELSE <<n + 1, 1>>]
                /\ UNCHANGED <<job, stanzas>>
           ELSE /\ stanzas' = [stanzas EXCEPT ![j] = FromKeys(now)]
                /\ job' = [job EXCEPT ![j] = "truncate"]
    BY DEF ReadKey, GetConfig, Goto
  <1>4. \A q \in Roles, g \in Fields :
           now[q][g] = IF q = r /\ g = f THEN LegacyOf(SysFile)[q][g] ELSE vals[j][q][g]
    <2>1. DOMAIN vals[j] = Roles /\ \A q \in Roles : DOMAIN vals[j][q] = Fields
      BY DEF Typed, Shapes
    <2> HIDE DEF r, f
    <2>2. \A q \in Roles, g \in Fields :
             now[q][g] = IF q = r /\ g = f THEN ValueOr(db[SysFile][<<r, f>>], Empty)
                                           ELSE vals[j][q][g]
      BY <1>2, <2>1
    <2>3. LegacyOf(SysFile)[r][f] = ValueOr(db[SysFile][<<r, f>>], Empty)
      BY <1>2 DEF LegacyOf
    <2> HIDE DEF now
    <2>4. QED
      BY <2>2, <2>3
  <1>5. \A a, b \in 1..3 : a < n \/ (a = n /\ b <= m) =>
           now[RoleSeq[a]][FieldSeq[b]] = LegacyOf(SysFile)[RoleSeq[a]][FieldSeq[b]]
    <2>1. ASSUME NEW a \in 1..3, NEW b \in 1..3, a < n \/ (a = n /\ b <= m)
          PROVE  now[RoleSeq[a]][FieldSeq[b]] = LegacyOf(SysFile)[RoleSeq[a]][FieldSeq[b]]
      <3>1. RoleSeq[a] \in Roles /\ FieldSeq[b] \in Fields
        BY Numbered
      <3>2. CASE a = n /\ b = m
        BY <1>4, <3>1, <3>2
      <3>3. CASE ~(a = n /\ b = m)
        <4>1. a < n \/ (a = n /\ b < m)
          BY <1>2, <2>1, <3>3
        <4>2. RoleSeq[a] # r \/ FieldSeq[b] # f
          BY <1>2, <3>3, Numbered
        <4>3. vals[j][RoleSeq[a]][FieldSeq[b]] = LegacyOf(SysFile)[RoleSeq[a]][FieldSeq[b]]
          BY <1>2, <4>1 DEF Progress, ReadSoFar
        <4> HIDE DEF now
        <4>4. QED
          BY <1>4, <3>1, <4>2, <4>3
      <3>4. QED
        BY <3>2, <3>3
    <2>2. QED
      BY <2>1
  <1>6. LegacyOf(SysFile)' = LegacyOf(SysFile)
    BY <1>3 DEF LegacyOf
  <1> HIDE DEF now
  <1>7. vals'[j] = now
    BY <1>1, <1>3
  <1>8. CASE m < LastField(r) \/ n < 3
    <2>1. job'[j] = "keys"
      BY <1>2, <1>3, <1>8
    <2>2. \/ cursor'[j] = <<n, m + 1>>
          \/ cursor'[j] = <<n + 1, 1>> /\ m >= 3
      BY <1>1, <1>2, <1>3, <1>8
    <2>3. ASSUME NEW a \in 1..3, NEW b \in 1..3,
                 a < cursor'[j][1] \/ (a = cursor'[j][1] /\ b < cursor'[j][2])
          PROVE  vals'[j][RoleSeq[a]][FieldSeq[b]] = LegacyOf(SysFile)[RoleSeq[a]][FieldSeq[b]]
      <3>1. a < n \/ (a = n /\ b <= m)
        <4>1. CASE cursor'[j] = <<n, m + 1>>
          BY <1>2, <2>3, <4>1
        <4>2. CASE cursor'[j] = <<n + 1, 1>> /\ m >= 3
          BY <1>2, <2>3, <4>2
        <4>3. QED
          BY <2>2, <4>1, <4>2
      <3>2. QED
        BY <1>5, <1>7, <3>1
    <2>4. ReadSoFar(j)'
      BY <1>6, <2>3 DEF ReadSoFar
    <2>5. QED
      BY <2>1, <2>4
  <1>9. CASE ~(m < LastField(r) \/ n < 3)
    <2>1. job'[j] = "truncate" /\ stanzas'[j] = FromKeys(now)
      BY <1>1, <1>3, <1>9
    <2>2. n = 3 /\ m >= 3
      BY <1>2, <1>9
    <2>3. \A a, b \in 1..3 :
             now[RoleSeq[a]][FieldSeq[b]] = LegacyOf(SysFile)[RoleSeq[a]][FieldSeq[b]]
      BY <1>2, <1>5, <2>2
    <2>4. \A g \in {"interface", "ip", "netmask"} : \E b \in 1..3 : FieldSeq[b] = g
      BY DEF FieldSeq
    <2>5. \A q \in Roles, g \in {"interface", "ip", "netmask"} :
             now[q][g] = LegacyOf(SysFile)[q][g]
      BY <2>3, <2>4, Numbered
    <2>6. FromKeys(now) = FromKeys(LegacyOf(SysFile))
      BY <2>5, FromKeysSame
    <2>7. Wanted = FromKeys(LegacyOf(SysFile))
      BY <1>2 DEF Progress, Wanted
    <2>8. QED
      BY <2>1, <2>6, <2>7
  <1>10. QED
    BY <1>8, <1>9

LEMMA RunFollows ==
    ASSUME Typed, "read" \notin StoreFaults, NEW j \in Jobs, RunStep(j), Progress(j)
    PROVE  Progress(j)'
  <1> DEFINE L == Len(Wanted)
  <1>1. /\ job \in [Jobs -> JobStates] /\ stanzas \in [Jobs -> Seq(Stanzas)]
        /\ at \in [Jobs -> Nat \ {0}] /\ cursor \in [Jobs -> (1..3) \X (1..4)]
        /\ file \in Seq(Lines) /\ Len(file) \in Nat /\ at[j] \in Nat \ {0}
    BY DEF Typed, SyncTypeOK
  <1>2. L \in Nat /\ DOMAIN Wanted = 1..L /\ Wanted \in Seq(Stanzas)
    BY WantedTyped DEF Typed
  <1>3. db' = db
    BY DEF RunStep, ReadJson, ReadKey, Truncate, AppendHead, AppendBody, Flush, Assign,
           RestartNetworking
  <1>4. Wanted' = Wanted /\ (NoConfig(db[SysFile][JsonKey]) <=> NoConfig(db'[SysFile][JsonKey]))
    BY <1>3 DEF Wanted, LegacyOf
  <1>5. job[j] \in {"head", "body", "flush", "assign"} =>
           /\ stanzas[j] = Wanted /\ at[j] \in 1..L /\ Wanted[at[j]] \in Stanzas
    BY <1>1, <1>2 DEF Progress, Typed, Shapes, Places
  <1> HIDE DEF L
  <1>6. CASE ReadJson(j)
    <2> DEFINE v == db[SysFile][JsonKey]
    <2>1. \/ NoConfig(v) /\ job' = [job EXCEPT ![j] = "keys"]
          \/ /\ ~NoConfig(v) /\ job' = [job EXCEPT ![j] = "truncate"]
             /\ stanzas' = [stanzas EXCEPT ![j] = FromJson(v)]
      BY <1>6 DEF ReadJson, Goto, GetConfig
    <2>2. cursor'[j] = <<1, 1>>
      BY <1>1, <1>6 DEF ReadJson
    <2>3. ReadSoFar(j)'
      BY <2>2 DEF ReadSoFar
    <2>4. \/ NoConfig(v) /\ job'[j] = "keys"
          \/ job'[j] = "truncate" /\ stanzas'[j] = Wanted
      BY <1>1, <2>1 DEF Wanted
    <2> HIDE DEF v
    <2>5. QED
      BY <1>4, <2>3, <2>4 DEF Progress, v
  <1>7. CASE ReadKey(j)
    <2>1. /\ job'[j] = "keys" => ReadSoFar(j)'
          /\ job'[j] # "keys" => job'[j] = "truncate" /\ stanzas'[j] = Wanted
      BY <1>7, KeyRead
    <2>2. NoConfig(db[SysFile][JsonKey])
      BY <1>7 DEF ReadKey, Progress
    <2>3. QED
      BY <1>4, <2>1, <2>2 DEF Progress
  <1>8. CASE Truncate(j)
    <2>1. /\ file' = <<>> /\ stanzas' = stanzas /\ stanzas[j] = Wanted /\ at'[j] = 1
          /\ job'[j] = IF 1 > L THEN "restart" ELSE "head"
      BY <1>1, <1>8 DEF Truncate, ToStanza, Goto, Progress, L
    <2>2. CASE 1 > L
      <3>1. FileFollows'
        BY <1>2, <1>4, <2>1, <2>2 DEF FileFollows, L
      <3>2. QED
        BY <1>4, <2>1, <2>2, <3>1 DEF Progress
    <2>3. CASE ~(1 > L)
      <3>1. (Len(file) = 2 * (at[j] - 1) /\ Copied(at[j] - 1))'
        BY <2>1 DEF Copied
      <3>2. QED
        BY <1>4, <2>1, <2>3, <3>1 DEF Progress
    <2>4. QED
      BY <2>2, <2>3
  <1>9. CASE AppendHead(j)
    <2> DEFINE k == at[j]
               line == [iface |-> Wanted[k].dev]
    <2>1. /\ job[j] = "head" /\ job'[j] = "body" /\ UNCHANGED <<stanzas, at>>
          /\ k \in 1..L /\ file' = Append(file, line)
          /\ Len(file) = 2 * (k - 1) /\ Copied(k - 1)
      BY <1>1, <1>5, <1>9 DEF AppendHead, Goto, Progress
    <2>2. line \in Lines
      BY <1>5, <2>1 DEF Lines, Stanzas
    <2> HIDE DEF line
    <2>3. /\ Len(file') = 2 * k - 1 /\ file'[2 * k - 1] = line
          /\ \A i \in 1..(2 * (k - 1)) : file'[i] = file[i]
      <3>1. Len(file) + 1 = 2 * k - 1
        BY <1>1, <2>1
      <3>2. QED
        BY <1>1, <2>1, <2>2, <3>1, AppendOK
    <2>4. Copied(k - 1)'
      <3>1. \A i \in 1..(k - 1) : 2 * i - 1 \in 1..(2 * (k - 1)) /\ 2 * i \in 1..(2 * (k - 1))
        BY <1>1
      <3>2. QED
        BY <1>4, <2>1, <2>3, <3>1 DEF Copied
    <2>5. QED
      BY <1>4, <1>5, <2>1, <2>3, <2>4 DEF Progress, line
  <1>10. CASE AppendBody(j)
    <2> DEFINE k == at[j]
               line == [address |-> Wanted[k].addr]
    <2>1. /\ job[j] = "body" /\ job'[j] = "flush" /\ UNCHANGED <<stanzas, at>>
          /\ k \in 1..L /\ file' = Append(file, line)
          /\ Len(file) = 2 * k - 1 /\ Copied(k - 1)
          /\ file[2 * k - 1] = [iface |-> Wanted[k].dev]
      BY <1>1, <1>5, <1>10 DEF AppendBody, Goto, Progress
    <2>2. line \in Lines
      BY <1>5, <2>1 DEF Lines, Stanzas
    <2> HIDE DEF line
    <2>3. /\ Len(file') = 2 * k /\ file'[2 * k] = line
          /\ \A i \in 1..(2 * k - 1) : file'[i] = file[i]
      <3>1. Len(file) + 1 = 2 * k
        BY <1>1, <2>1
      <3>2. QED
        BY <1>1, <2>1, <2>2, <3>1, AppendOK
    <2>4. Copied(k)'
      <3>1. \A i \in 1..(k - 1) : 2 * i - 1 \in 1..(2 * k - 1) /\ 2 * i \in 1..(2 * k - 1)
        BY <1>1
      <3>2. 2 * k - 1 \in 1..(2 * k - 1)
        BY <1>1
      <3>3. ASSUME NEW i \in 1..k
            PROVE  /\ file'[2 * i - 1] = [iface |-> Wanted[i].dev]
                   /\ file'[2 * i] = [address |-> Wanted[i].addr]
        <4>1. CASE i = k
          BY <2>1, <2>3, <3>2, <4>1 DEF line
        <4>2. CASE i # k
          <5>1. i \in 1..(k - 1)
            BY <1>1, <4>2
          <5>2. QED
            BY <2>1, <2>3, <3>1, <5>1 DEF Copied
        <4>3. QED
          BY <4>1, <4>2
      <3>4. QED
        BY <1>4, <2>1, <3>3 DEF Copied
    <2>5. QED
      BY <1>4, <1>5, <2>1, <2>3, <2>4 DEF Progress
  <1>11. CASE Flush(j)
    <2>1. job[j] = "flush" /\ job'[j] = "assign" /\ UNCHANGED <<stanzas, at, file>>
      BY <1>1, <1>11 DEF Flush, Goto
    <2>2. (Len(file) = 2 * at[j] /\ Copied(at[j]))'
      BY <1>4, <2>1 DEF Progress, Copied
    <2>3. QED
      BY <1>4, <2>1, <2>2 DEF Progress
  <1>12. CASE Assign(j)
    <2> DEFINE k == at[j]
    <2>1. /\ job[j] = "assign" /\ UNCHANGED <<stanzas, file>> /\ stanzas[j] = Wanted
          /\ at'[j] = k + 1 /\ job'[j] = IF k + 1 > L THEN "restart" ELSE "head"
          /\ k \in 1..L /\ Len(file) = 2 * k /\ Copied(k)
      BY <1>1, <1>5, <1>12 DEF Assign, ToStanza, Goto, Progress, L
    <2>2. CASE k + 1 > L
      <3>1. k = L
        BY <1>2, <2>1, <2>2
      <3>2. FileFollows'
        BY <1>2, <1>4, <2>1, <3>1 DEF FileFollows, Copied, L
      <3>3. QED
        BY <1>4, <2>1, <2>2, <3>2 DEF Progress
    <2>3. CASE ~(k + 1 > L)
      <3>1. at'[j] - 1 = k
        BY <1>1, <2>1
      <3>2. (Len(file) = 2 * (at[j] - 1) /\ Copied(at[j] - 1))'
        BY <1>4, <2>1, <3>1 DEF Copied
      <3>3. QED
        BY <1>4, <2>1, <2>3, <3>2 DEF Progress
    <2>4. QED
      BY <2>2, <2>3
  <1>13. CASE RestartNetworking(j)
    <2>1. FileFollows' /\ KernelFollows'
      BY <1>13, RestartFollows DEF RestartNetworking, Progress
    <2>2. job'[j] \in {"idle", "ended"}
      BY <1>1, <1>13 DEF RestartNetworking, Goto
    <2>3. QED
      BY <2>1, <2>2 DEF Progress
  <1>14. QED
    BY <1>6, <1>7, <1>8, <1>9, <1>10, <1>11, <1>12, <1>13 DEF RunStep

LEMMA SameMachine ==
    ASSUME UNCHANGED <<db, file, kernel>>
    PROVE  /\ Wanted' = Wanted /\ LegacyOf(SysFile)' = LegacyOf(SysFile)
           /\ FileFollows' <=> FileFollows
           /\ KernelFollows' <=> KernelFollows
  <1>1. Wanted' = Wanted /\ LegacyOf(SysFile)' = LegacyOf(SysFile)
    BY DEF Wanted, LegacyOf
  <1>2. FileFollows' <=> FileFollows
    BY <1>1 DEF FileFollows
  <1>3. KernelFollows' <=> KernelFollows
    BY <1>1 DEF KernelFollows
  <1>4. QED
    BY <1>1, <1>2, <1>3

LEMMA SyncNextInv ==
    ASSUME OneSlot, "read" \notin StoreFaults, Typed, SyncInv, [Next]_vars
    PROVE  SyncInv'
  <1>1. job \in [Jobs -> JobStates] /\ due \in Nat
    BY DEF Typed, SyncTypeOK, SyncInv
  <1>2. CASE Change
    BY <1>1, <1>2 DEF Change, SyncInv
  <1>3. ASSUME NEW j \in Jobs, Launch(j) PROVE SyncInv'
    <2>1. due' \in Nat /\ job'[j] = "started"
      BY <1>1, <1>3 DEF Launch
    <2>2. \A i \in Jobs : i = j
      BY DEF OneSlot
    <2>3. QED
      BY <2>1, <2>2 DEF SyncInv, Progress
  <1>4. ASSUME NEW j \in Jobs, Collect(j) PROVE SyncInv'
    <2>1. /\ due' = due /\ job[j] = "ended" /\ job'[j] = "idle" /\ UNCHANGED <<db, file, kernel>>
      BY <1>1, <1>4 DEF Collect, clientVars
    <2>2. \A i \in Jobs : i = j
      BY DEF OneSlot
    <2>3. ASSUME due = 0 PROVE Progress(j)'
      <3>1. FileFollows /\ KernelFollows
        BY <2>1, <2>3 DEF SyncInv, Progress
      <3>2. FileFollows' /\ KernelFollows'
        BY <2>1, <3>1, SameMachine
      <3>3. QED
        BY <2>1, <3>2 DEF Progress
    <2>4. QED
      BY <1>1, <2>1, <2>2, <2>3 DEF SyncInv
  <1>5. ASSUME NEW j \in Jobs, RunStep(j), UNCHANGED clientVars PROVE SyncInv'
    <2>1. due' = due /\ \A i \in Jobs : i = j
      BY <1>5 DEF clientVars, OneSlot
    <2>2. ASSUME due = 0 PROVE Progress(j)'
      BY <1>5, <2>2, RunFollows DEF SyncInv
    <2>3. QED
      BY <1>1, <2>1, <2>2 DEF SyncInv
  <1>6. CASE UNCHANGED vars
    <2>1. UNCHANGED <<db, job, stanzas, at, cursor, vals, file, kernel, due>>
      BY <1>6 DEF vars, jobVars, clientVars
    <2>2. ASSUME NEW j \in Jobs, Progress(j) PROVE Progress(j)'
      <3>1. ReadSoFar(j)' <=> ReadSoFar(j)
        BY <2>1, SameMachine DEF ReadSoFar
      <3>2. (Copied(at[j] - 1)' <=> Copied(at[j] - 1)) /\ (Copied(at[j])' <=> Copied(at[j]))
        BY <2>1, SameMachine DEF Copied
      <3>3. QED
        BY <2>1, <2>2, <3>1, <3>2, SameMachine DEF Progress
    <2>3. QED
      BY <2>1, <2>2 DEF SyncInv
  <1>7. QED
    BY <1>2, <1>3, <1>4, <1>5, <1>6 DEF Next

\* When runs do not overlap and reads do not fail, then after any changes, with the
\* launches that follow them carried out, the interfaces file is the store's
\* configuration line by line, and each adapter it names that the machine has carries
\* exactly its addresses.
THEOREM RunsSynchronize ==
    ASSUME OneSlot, "read" \notin StoreFaults
    PROVE  Spec => []Synchronized
  <1>1. Init => Typed /\ SyncInv
    BY TypedInit, SyncInitInv
  <1>2. Typed /\ SyncInv /\ [Next]_vars => (Typed /\ SyncInv)'
    BY OneSlot, "read" \notin StoreFaults, TypedNext, SyncNextInv
  <1>3. SyncInv => Synchronized
    BY OneSlot DEF OneSlot, SyncInv, Progress, Synchronized, Idle
  <1>4. QED
    BY <1>1, <1>2, <1>3, PTL DEF Spec
================================================================================
