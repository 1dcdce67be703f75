--------------------------- MODULE ProvisioningProofs ---------------------------
(***************************************************************************)
(* What the console guarantees, for every set of adapters and addresses,   *)
(* every number of operations and every place a kill can fall.             *)
(***************************************************************************)
EXTENDS Provisioning, TLAPS

USE DatabaseAssumption, ConfigStoreAssumption, ProvisioningAssumption

--------------------------------------------------------------------------------
\* The cursor of the walks always points at a role and a field.
LEMMA CursorOK ==
    ASSUME scan \in 1..3, k \in 1..4
    PROVE  RoleSeq[scan] \in Roles /\ FieldSeq[k] \in Fields
  BY DEF RoleSeq, Roles, FieldSeq, Fields

\* The array's key is none of the legacy keys, and the legacy keys of two
\* fields or roles differ.
LEMMA KeysDiffer ==
    /\ JsonKey \notin LegacyKeys
    /\ \A r, s \in Roles, f, g \in Fields : <<r, f>> = <<s, g>> => r = s /\ f = g
    /\ \A r \in Roles, f \in Fields : <<r, f>> \in LegacyKeys
  BY DEF JsonKey, LegacyKeys, Roles, Fields

\* set_config on a legacy key: that key may change, to the text given; nothing
\* else in the console's file, nor any other file, does.
LEMMA SetLegacy ==
    ASSUME StoreTypeOK, NEW r \in Roles, NEW f \in Fields,
           NEW text \in FieldTexts[f] \cup {Empty, Missing},
           SetConfig(CliFile, <<r, f>>, text)
    PROVE  /\ StoreTypeOK'
           /\ db'[CliFile][JsonKey] = db[CliFile][JsonKey]
           /\ \A s \in Roles, g \in Fields :
                 <<s, g>> # <<r, f>> => db'[CliFile][<<s, g>>] = db[CliFile][<<s, g>>]
           /\ \/ db'[CliFile][<<r, f>>] = text
              \/ "write" \in StoreFaults /\ db' = db
  <1>1. CASE db' = [db EXCEPT ![CliFile][<<r, f>>] = text]
    <2>1. \A file \in Files, key \in Keys :
             db'[file][key] = IF file = CliFile /\ key = <<r, f>> THEN text ELSE db[file][key]
      BY <1>1, KeysDiffer DEF StoreTypeOK, Keys
    <2>2. DOMAIN db' = Files /\ \A file \in Files : DOMAIN db'[file] = Keys
      BY <1>1 DEF StoreTypeOK
    <2>3. \A file \in Files : db'[file][JsonKey] = db[file][JsonKey]
      BY <2>1, KeysDiffer DEF Keys
    <2>4. \A file \in Files, s \in Roles, g \in Fields :
             db'[file][<<s, g>>] = IF file = CliFile /\ s = r /\ g = f THEN text
                                                                      ELSE db[file][<<s, g>>]
      BY <2>1, KeysDiffer DEF Keys
    <2>5. StoreTypeOK'
      BY <2>2, <2>3, <2>4 DEF StoreTypeOK
    <2>6. QED
      BY <2>3, <2>4, <2>5
  <1>2. CASE "write" \in StoreFaults /\ UNCHANGED db
    BY <1>2 DEF StoreTypeOK
  <1>3. QED
    BY <1>1, <1>2 DEF SetConfig

\* set_config on the array's key, likewise.
LEMMA SetJson ==
    ASSUME StoreTypeOK, NEW text \in Seq(Items) \cup {Empty, Missing},
           SetConfig(CliFile, JsonKey, text)
    PROVE  /\ StoreTypeOK'
           /\ \A s \in Roles, g \in Fields :
                 db'[CliFile][<<s, g>>] = db[CliFile][<<s, g>>]
           /\ \/ db'[CliFile][JsonKey] = text
              \/ "write" \in StoreFaults /\ db' = db
  <1>1. CASE db' = [db EXCEPT ![CliFile][JsonKey] = text]
    <2>1. \A file \in Files, key \in Keys :
             db'[file][key] = IF file = CliFile /\ key = JsonKey THEN text ELSE db[file][key]
      BY <1>1 DEF StoreTypeOK, Keys
    <2>2. DOMAIN db' = Files /\ \A file \in Files : DOMAIN db'[file] = Keys
      BY <1>1 DEF StoreTypeOK
    <2>3. \A file \in Files : db'[file][JsonKey] \in {db[file][JsonKey], text}
      BY <2>1 DEF Keys
    <2>4. \A file \in Files, s \in Roles, g \in Fields :
             db'[file][<<s, g>>] = db[file][<<s, g>>]
      BY <2>1, KeysDiffer DEF Keys
    <2>5. StoreTypeOK'
      BY <2>2, <2>3, <2>4 DEF StoreTypeOK
    <2>6. db'[CliFile][JsonKey] = text
      BY <2>1 DEF Keys
    <2>7. QED
      BY <2>4, <2>5, <2>6
  <1>2. CASE "write" \in StoreFaults /\ UNCHANGED db
    BY <1>2 DEF StoreTypeOK
  <1>3. QED
    BY <1>1, <1>2 DEF SetConfig

--------------------------------------------------------------------------------
\* Between the last prompt and the last live command the operator's input is
\* complete: that is what makes every write, and the live address, well typed.
Entered == pc \in {"clear", "erase", "store", "gather", "publish", "flush", "assign"}
InputOK ==
    Entered => /\ sel["interface"] \in Devices
               /\ sel["ip"] \in Ips
               /\ sel["netmask"] \in Netmasks
Typed == TypeOK /\ InputOK

LEMMA TypedInit == Init => Typed
  <1> SUFFICES ASSUME Init PROVE Typed
    OBVIOUS
  <1>1. StoreTypeOK
    BY DEF Init, StoreInit, FreshStore, StoreTypeOK, Keys, LegacyKeys
  <1>2. DOMAIN sel = Fields /\ \A f \in Fields : sel[f] \in FieldTexts[f] \cup {Empty}
    BY DEF Init, NoAddress
  <1>3. /\ DOMAIN snap = Roles /\ \A r \in Roles : DOMAIN snap[r] = Fields
        /\ \A r \in Roles, f \in Fields : snap[r][f] \in FieldTexts[f] \cup {Empty}
    BY DEF Init, NoSnap, NoAddress
  <1>4. InputOK
    BY DEF Init, InputOK, Entered
  <1>5. torn \in BOOLEAN
    BY Zenon DEF Init
  <1>6. ops \in 0..MaxOps /\ kills \in 0..MaxKills
    BY DEF Init
  <1>7. /\ pc \in PCs /\ role \in Roles /\ scan \in 1..3 /\ k \in 1..4
        /\ kernel \in [SystemDevices -> SUBSET Addresses]
        /\ job \in [Jobs -> {"idle", "started", "ended"}]
    BY DEF Init, PCs, Roles
  <1>8. QED
    BY <1>1, <1>2, <1>3, <1>4, <1>5, <1>6, <1>7 DEF Typed, TypeOK

\* The array written from typed locals is a typed array.
LEMMA ToJsonType ==
    ASSUME DOMAIN snap = Roles, \A r \in Roles : DOMAIN snap[r] = Fields,
           \A r \in Roles, f \in Fields : snap[r][f] \in FieldTexts[f] \cup {Empty}
    PROVE  ToJson(snap) \in Seq(Items)
  <1>1. \A r \in Roles : Item(r, snap[r]) \in Items
    BY DEF Item, Items, FieldTexts, Fields
  <1>2. QED
    BY <1>1 DEF ToJson, Roles

LEMMA TypedNext == Typed /\ [Next]_vars => Typed'
  <1> SUFFICES ASSUME Typed, [Next]_vars PROVE Typed'
    OBVIOUS
  <1> USE DEF Typed, TypeOK
  <1>0. RoleSeq[scan] \in Roles /\ FieldSeq[k] \in Fields
    BY CursorOK
  <1>1. CASE ConfigureInterface
    <2> PICK r \in Roles, d \in Devices, ip \in Ips, nm \in Netmasks,
            gw \in Gateways \cup {Empty} :
          /\ role' = r
          /\ sel' = [interface |-> d, ip |-> ip, netmask |-> nm, gateway |-> gw]
      BY <1>1 DEF ConfigureInterface
    <2>1. /\ DOMAIN sel' = Fields
          /\ \A f \in Fields : sel'[f] \in FieldTexts[f] \cup {Empty}
      BY DEF Fields, FieldTexts
    <2>2. InputOK'
      BY DEF InputOK
    <2>3. StoreTypeOK'
      BY <1>1 DEF ConfigureInterface, StoreTypeOK
    <2>4. QED
      BY <1>1, <2>1, <2>2, <2>3 DEF ConfigureInterface, PCs
  <1>2. CASE ClearCheck
    <2>1. StoreTypeOK'
      BY <1>2 DEF ClearCheck, StoreTypeOK
    <2>2. InputOK'
      BY <1>2 DEF ClearCheck, InputOK, Entered
    <2>3. QED
      BY <1>2, <2>1, <2>2 DEF ClearCheck, PCs
  <1>3. CASE ClearErase
    <2>1. StoreTypeOK'
      BY <1>0, <1>3, SetLegacy DEF ClearErase, Here
    <2>2. InputOK'
      BY <1>3 DEF ClearErase, InputOK, Entered
    <2>3. k' \in 1..4 /\ scan' \in 1..3 /\ pc' \in PCs
      BY <1>3 DEF ClearErase, MoreOfRole, LastField, PCs
    <2>4. QED
      BY <1>3, <2>1, <2>2, <2>3 DEF ClearErase
  <1>4. CASE StoreField
    <2>1. StoreTypeOK'
      BY <1>0, <1>4, SetLegacy DEF StoreField
    <2>2. InputOK'
      BY <1>4 DEF StoreField, InputOK, Entered
    <2>3. k' \in 1..4 /\ pc' \in PCs
      BY <1>4 DEF StoreField, LastField, PCs
    <2>4. QED
      BY <1>4, <2>1, <2>2, <2>3 DEF StoreField
  <1>5. CASE GatherField
    <2>1. StoreTypeOK'
      BY <1>5 DEF GatherField, StoreTypeOK
    <2>2. InputOK'
      BY <1>5 DEF GatherField, Advance, InputOK, Entered
    <2>3. k' \in 1..4 /\ scan' \in 1..3 /\ pc' \in PCs
      BY <1>5 DEF GatherField, Advance, MoreOfRole, LastField, PCs
    <2>4. PICK v \in GetConfig(CliFile, Here) :
             snap' = [snap EXCEPT ![RoleSeq[scan]][FieldSeq[k]] = ValueOr(v, Empty)]
      BY <1>5 DEF GatherField
    <2>5. ValueOr(v, Empty) \in FieldTexts[FieldSeq[k]] \cup {Empty}
      BY <1>0, <2>4 DEF GetConfig, Here, ValueOr, StoreTypeOK
    <2>6. /\ DOMAIN snap' = Roles /\ \A r \in Roles : DOMAIN snap'[r] = Fields
          /\ \A r \in Roles, f \in Fields : snap'[r][f] \in FieldTexts[f] \cup {Empty}
      BY <1>0, <2>4, <2>5
    <2>7. QED
      BY <1>5, <2>1, <2>2, <2>3, <2>6 DEF GatherField
  <1>6. CASE PublishJson
    <2>1. StoreTypeOK'
      BY <1>6, SetJson, ToJsonType DEF PublishJson
    <2>2. QED
      BY <1>6, <2>1 DEF PublishJson, InputOK, Entered, PCs
  <1>7. CASE FlushLive
    <2>1. StoreTypeOK'
      BY <1>7 DEF FlushLive, StoreTypeOK
    <2>2. QED
      BY <1>7, <2>1 DEF FlushLive, InputOK, Entered, PCs
  <1>8. CASE AssignLive
    <2>1. StoreTypeOK'
      BY <1>8 DEF AssignLive, StoreTypeOK
    <2>2. <<sel["ip"], sel["netmask"]>> \in Addresses
      BY <1>8 DEF AssignLive, InputOK, Entered, Addresses
    <2>3. kernel' \in [SystemDevices -> SUBSET Addresses]
      BY <1>8, <2>2 DEF AssignLive
    <2>4. QED
      BY <1>8, <2>1, <2>3 DEF AssignLive, InputOK, Entered, PCs
  <1>9. CASE WipeField
    <2>1. StoreTypeOK'
      BY <1>0, <1>9, SetLegacy DEF WipeField, Here
    <2>2. k' \in 1..4 /\ scan' \in 1..3 /\ pc' \in PCs
      BY <1>9 DEF WipeField, Advance, MoreOfRole, LastField, PCs
    <2>3. InputOK'
      BY <1>9 DEF WipeField, Advance, InputOK, Entered
    <2>4. QED
      BY <1>9, <2>1, <2>2, <2>3 DEF WipeField
  <1>10. CASE WipeJson
    <2>1. StoreTypeOK'
      BY <1>10, SetJson DEF WipeJson
    <2>2. QED
      BY <1>10, <2>1 DEF WipeJson, InputOK, Entered, PCs
  <1>11. CASE FactoryReset \/ LaunchSync \/ Exit \/ Restart \/ SyncEnds
    <2>1. StoreTypeOK'
      BY <1>11 DEF FactoryReset, LaunchSync, Exit, Restart, SyncEnds, StoreTypeOK
    <2>2. QED
      BY <1>11, <2>1
      DEF FactoryReset, LaunchSync, Exit, Restart, SyncEnds, InputOK, Entered, PCs
  <1>12. CASE SyncReturns \/ Kill
    <2>1. StoreTypeOK'
      BY <1>12 DEF SyncReturns, Kill, StoreTypeOK
    <2>2. sel' = NoAddress /\ snap' = NoSnap
      BY <1>12 DEF SyncReturns, Kill
    <2>3. /\ DOMAIN sel' = Fields /\ \A f \in Fields : sel'[f] \in FieldTexts[f] \cup {Empty}
          /\ DOMAIN snap' = Roles /\ \A r \in Roles : DOMAIN snap'[r] = Fields
          /\ \A r \in Roles, f \in Fields : snap'[r][f] \in FieldTexts[f] \cup {Empty}
      BY <2>2 DEF NoAddress, NoSnap
    <2>4. torn' \in BOOLEAN
      BY <1>12, Zenon DEF SyncReturns, Kill
    <2>5. ops' \in 0..MaxOps /\ kills' \in 0..MaxKills
      BY <1>12 DEF SyncReturns, Kill
    <2>6. /\ pc' \in PCs /\ role' \in Roles /\ scan' \in 1..3 /\ k' \in 1..4
          /\ kernel' \in [SystemDevices -> SUBSET Addresses]
          /\ job' \in [Jobs -> {"idle", "started", "ended"}]
          /\ InputOK'
      BY <1>12 DEF SyncReturns, Kill, InputOK, Entered, PCs, Roles
    <2>7. QED
      BY <2>1, <2>3, <2>4, <2>5, <2>6
  <1>13. CASE UNCHANGED vars
    BY <1>13 DEF vars, StoreTypeOK, InputOK, Entered
  <1>14. QED
    BY <1>1, <1>2, <1>3, <1>4, <1>5, <1>6, <1>7, <1>8, <1>9, <1>10, <1>11, <1>12, <1>13
    DEF Next, Console, Operator

\* Every variable keeps its type, store failures and kills included.
THEOREM TypeCorrect == Spec => []TypeOK
  <1>1. Spec => []Typed
    BY TypedInit, TypedNext, PTL DEF Spec
  <1>2. Typed => TypeOK
    BY DEF Typed
  <1>3. QED
    BY <1>1, <1>2, PTL

--------------------------------------------------------------------------------
\* The adapter a role holds, and how one step may change who holds what: not at
\* all, by taking a role's adapter away, or by giving the role being configured
\* the adapter the operator chose.
Held(r) == db[CliFile][<<r, "interface">>]

SameHeld     == \A r \in Roles : Held(r)' = Held(r)
Released(q)  == Held(q)' = Empty /\ \A r \in Roles \ {q} : Held(r)' = Held(r)
Given(q, d)  == Held(q)' = d /\ \A r \in Roles \ {q} : Held(r)' = Held(r)

LEMMA EraseHeld ==
    ASSUME StoreFaults = {}, Typed, ClearErase
    PROVE  IF k = 1 THEN \E q \in Roles : q = RoleSeq[scan] /\ Released(q) ELSE SameHeld
  <1>1. RoleSeq[scan] \in Roles /\ FieldSeq[k] \in Fields
    BY CursorOK DEF Typed, TypeOK
  <1>2. FieldSeq[k] = "interface" <=> k = 1
    BY DEF FieldSeq, Typed, TypeOK
  <1>3. /\ db'[CliFile][<<RoleSeq[scan], FieldSeq[k]>>] = Empty
        /\ \A s \in Roles, g \in Fields :
              <<s, g>> # <<RoleSeq[scan], FieldSeq[k]>> => db'[CliFile][<<s, g>>] = db[CliFile][<<s, g>>]
    BY <1>1, SetLegacy DEF ClearErase, Here, Typed, TypeOK
  <1>4. CASE k = 1
    <2> DEFINE q == RoleSeq[scan]
    <2>1. \A s \in Roles : <<s, "interface">> = <<q, FieldSeq[k]>> <=> s = q
      BY <1>1, <1>2, <1>4
    <2>2. PICK p \in Roles : p = q
      BY <1>1
    <2>3. Released(p)
      BY <1>2, <1>3, <1>4, <2>1, <2>2 DEF Released, Held, Fields
    <2>4. QED
      BY <1>4, <2>2, <2>3
  <1>5. CASE k # 1
    <2>1. \A s \in Roles : <<s, "interface">> # <<RoleSeq[scan], FieldSeq[k]>>
      BY <1>1, <1>2, <1>5
    <2>2. QED
      BY <1>3, <1>5, <2>1 DEF SameHeld, Held, Fields
  <1>6. QED
    BY <1>4, <1>5

LEMMA WipeHeld ==
    ASSUME StoreFaults = {}, Typed, WipeField
    PROVE  IF k = 1 THEN \E q \in Roles : q = RoleSeq[scan] /\ Released(q) ELSE SameHeld
  <1>1. RoleSeq[scan] \in Roles /\ FieldSeq[k] \in Fields
    BY CursorOK DEF Typed, TypeOK
  <1>2. FieldSeq[k] = "interface" <=> k = 1
    BY DEF FieldSeq, Typed, TypeOK
  <1>3. /\ db'[CliFile][<<RoleSeq[scan], FieldSeq[k]>>] = Empty
        /\ \A s \in Roles, g \in Fields :
              <<s, g>> # <<RoleSeq[scan], FieldSeq[k]>> => db'[CliFile][<<s, g>>] = db[CliFile][<<s, g>>]
    BY <1>1, SetLegacy DEF WipeField, Here, Typed, TypeOK
  <1>4. CASE k = 1
    <2> DEFINE q == RoleSeq[scan]
    <2>1. \A s \in Roles : <<s, "interface">> = <<q, FieldSeq[k]>> <=> s = q
      BY <1>1, <1>2, <1>4
    <2>2. PICK p \in Roles : p = q
      BY <1>1
    <2>3. Released(p)
      BY <1>2, <1>3, <1>4, <2>1, <2>2 DEF Released, Held, Fields
    <2>4. QED
      BY <1>4, <2>2, <2>3
  <1>5. CASE k # 1
    <2>1. \A s \in Roles : <<s, "interface">> # <<RoleSeq[scan], FieldSeq[k]>>
      BY <1>1, <1>2, <1>5
    <2>2. QED
      BY <1>3, <1>5, <2>1 DEF SameHeld, Held, Fields
  <1>6. QED
    BY <1>4, <1>5

LEMMA StoreHeld ==
    ASSUME StoreFaults = {}, Typed, StoreField
    PROVE  IF k = 1 THEN \E q \in Roles : q = role /\ Given(q, sel["interface"]) ELSE SameHeld
  <1>1. role \in Roles /\ FieldSeq[k] \in Fields /\ sel[FieldSeq[k]] \in FieldTexts[FieldSeq[k]] \cup {Empty}
    BY CursorOK DEF Typed, TypeOK
  <1>2. FieldSeq[k] = "interface" <=> k = 1
    BY DEF FieldSeq, Typed, TypeOK
  <1>3. /\ db'[CliFile][<<role, FieldSeq[k]>>] = sel[FieldSeq[k]]
        /\ \A s \in Roles, g \in Fields :
              <<s, g>> # <<role, FieldSeq[k]>> => db'[CliFile][<<s, g>>] = db[CliFile][<<s, g>>]
    BY <1>1, SetLegacy DEF StoreField, Typed, TypeOK
  <1>4. CASE k = 1
    <2> DEFINE q == role
    <2>1. \A s \in Roles : <<s, "interface">> = <<q, FieldSeq[k]>> <=> s = q
      BY <1>1, <1>2, <1>4
    <2>2. PICK p \in Roles : p = q
      BY <1>1
    <2>3. Given(p, sel["interface"])
      BY <1>2, <1>3, <1>4, <2>1, <2>2 DEF Given, Held, Fields
    <2>4. QED
      BY <1>4, <2>2, <2>3
  <1>5. CASE k # 1
    <2>1. \A s \in Roles : <<s, "interface">> # <<role, FieldSeq[k]>>
      BY <1>1, <1>2, <1>5
    <2>2. QED
      BY <1>3, <1>5, <2>1 DEF SameHeld, Held, Fields
  <1>6. QED
    BY <1>4, <1>5

LEMMA OtherHeld ==
    ASSUME Typed, [Next]_vars, ~ClearErase, ~WipeField, ~StoreField
    PROVE  SameHeld
  <1>1. CASE PublishJson
    BY <1>1, SetJson, ToJsonType DEF PublishJson, Typed, TypeOK, SameHeld, Held, Fields
  <1>2. CASE WipeJson
    BY <1>2, SetJson DEF WipeJson, Typed, TypeOK, SameHeld, Held, Fields
  <1>3. CASE UNCHANGED db
    BY <1>3 DEF SameHeld, Held
  <1>4. QED
    BY <1>1, <1>2, <1>3
    DEF Next, Console, Operator, vars, ConfigureInterface, ClearCheck, GatherField,
        FlushLive, AssignLive, FactoryReset, LaunchSync, SyncReturns, Exit, Kill,
        Restart, SyncEnds

\* The inductive invariant behind DevicesDistinct.  Erasing goes role by role, so
\* the roles already passed do not hold the chosen adapter; by the time the
\* role's own keys are stored none of the others does.
DistinctInv ==
    /\ DevicesDistinct
    /\ pc = "clear" => k = 1
    /\ pc \in {"clear", "erase"} =>
          \A n \in 1..(scan - 1) : RoleSeq[n] # role => Held(RoleSeq[n]) # sel["interface"]
    /\ pc = "erase" =>
          RoleSeq[scan] # role /\ (k > 1 => Held(RoleSeq[scan]) # sel["interface"])
    /\ pc = "store" => \A r \in Roles \ {role} : Held(r) # sel["interface"]

LEMMA DistinctInit == Init => DistinctInv
  BY DEF Init, StoreInit, FreshStore, DistinctInv, DevicesDistinct, LegacyDistinct,
         Keys, LegacyKeys, Roles, Fields

\* The invariant in terms of Held, in this state and in the next.
LEMMA DistinctHeld ==
    /\ DevicesDistinct <=>
         \A r, s \in Roles : r # s /\ Held(r) \in Devices => Held(r) # Held(s)
    /\ DevicesDistinct' <=>
         \A r, s \in Roles : r # s /\ Held(r)' \in Devices => Held(r)' # Held(s)'
  BY DEF DevicesDistinct, LegacyDistinct, Held

\* Taking adapters away, or changing nothing, keeps them distinct.
LEMMA ReleaseKeepsDistinct ==
    ASSUME DevicesDistinct, SameHeld \/ \E q \in Roles : Released(q)
    PROVE  DevicesDistinct'
  BY DEF DevicesDistinct, LegacyDistinct, SameHeld, Released, Held

LEMMA DistinctNext ==
    ASSUME StoreFaults = {}, Typed, DistinctInv, [Next]_vars
    PROVE  DistinctInv'
  <1> USE DEF Typed, TypeOK
  <1>0. /\ RoleSeq[scan] \in Roles
        /\ \A r \in Roles : \E n \in 1..3 : RoleSeq[n] = r
    BY CursorOK DEF RoleSeq, Roles
  <1>1. CASE ConfigureInterface
    <2>1. SameHeld /\ DevicesDistinct'
      BY <1>1, ReleaseKeepsDistinct DEF ConfigureInterface, DistinctInv, SameHeld, Held
    <2>2. QED
      BY <1>1, <2>1 DEF ConfigureInterface, DistinctInv
  <1>2. CASE ClearCheck
    <2>1. SameHeld /\ DevicesDistinct'
      BY <1>2, ReleaseKeepsDistinct DEF ClearCheck, DistinctInv, SameHeld, Held
    <2>2. GetConfig(CliFile, <<RoleSeq[scan], "interface">>) = {Held(RoleSeq[scan])}
      BY DEF GetConfig, Held
    <2>3. CASE RoleSeq[scan] # role /\ Held(RoleSeq[scan]) = sel["interface"]
      <3>1. pc' = "erase" /\ UNCHANGED <<scan, k, role, sel>> /\ k = 1
        BY <1>2, <2>2, <2>3 DEF ClearCheck, DistinctInv
      <3>2. \A n \in 1..(scan - 1) : RoleSeq[n] # role => Held(RoleSeq[n])' # sel["interface"]
        BY <1>2, <2>1 DEF ClearCheck, DistinctInv, SameHeld, RoleSeq, Roles
      <3>3. QED
        BY <2>1, <2>3, <3>1, <3>2 DEF DistinctInv
    <2>4. CASE ~(RoleSeq[scan] # role /\ Held(RoleSeq[scan]) = sel["interface"])
      <3>1. \A n \in 1..scan : RoleSeq[n] # role => Held(RoleSeq[n])' # sel'["interface"]
        BY <1>2, <2>1, <2>4, <1>0 DEF ClearCheck, DistinctInv, SameHeld, RoleSeq, Roles
      <3>2. CASE scan < 3
        BY <1>2, <2>1, <2>2, <2>4, <3>1, <3>2 DEF ClearCheck, DistinctInv
      <3>3. CASE scan = 3
        <4>1. \A r \in Roles \ {role} : Held(r)' # sel'["interface"]
          BY <1>0, <3>1, <3>3
        <4>2. QED
          BY <1>2, <2>1, <2>2, <2>4, <3>3, <4>1 DEF ClearCheck, DistinctInv
      <3>4. QED
        BY <3>2, <3>3
    <2>5. QED
      BY <2>3, <2>4
  <1>3. CASE ClearErase
    <2>1. DevicesDistinct'
      BY <1>0, <1>3, EraseHeld, ReleaseKeepsDistinct DEF DistinctInv
    <2>2. sel["interface"] \in Devices /\ sel' = sel /\ role' = role
      BY <1>3 DEF ClearErase, InputOK, Entered
    <2>3. \A n \in 1..scan : RoleSeq[n] # role => Held(RoleSeq[n])' # sel["interface"]
      <3>1. \A r \in Roles : Held(r)' \in {Held(r), Empty}
        BY <1>3, EraseHeld DEF Released, SameHeld
      <3>2. PICK q \in Roles : q = RoleSeq[scan]
        BY <1>0
      <3>3. Held(q)' # sel["interface"]
        <4>1. CASE k = 1
          BY <1>3, <2>2, <3>2, <4>1, EraseHeld DEF Released
        <4>2. CASE k > 1
          BY <1>3, <3>1, <3>2, <4>2, <2>2 DEF ClearErase, DistinctInv
        <4>3. QED
          BY <4>1, <4>2
      <3>4. \A n \in 1..3 : RoleSeq[n] \in Roles
        BY DEF RoleSeq, Roles
      <3>5. ASSUME NEW n \in 1..(scan - 1), RoleSeq[n] # role
            PROVE  Held(RoleSeq[n])' # sel["interface"]
        BY <1>3, <2>2, <3>1, <3>4, <3>5 DEF ClearErase, DistinctInv
      <3>6. ASSUME NEW n \in 1..scan, RoleSeq[n] # role
            PROVE  Held(RoleSeq[n])' # sel["interface"]
        <4>1. n = scan \/ n \in 1..(scan - 1)
          OBVIOUS
        <4>2. CASE n = scan
          BY <3>2, <3>3, <4>2 DEF Held
        <4>3. QED
          BY <3>5, <3>6, <4>1, <4>2
      <3>7. QED
        BY <3>6
    <2>4. CASE MoreOfRole
      BY <1>3, <2>1, <2>2, <2>3, <2>4 DEF ClearErase, DistinctInv
    <2>5. CASE ~MoreOfRole /\ scan < 3
      BY <1>3, <2>1, <2>2, <2>3, <2>5 DEF ClearErase, DistinctInv
    <2>6. CASE ~MoreOfRole /\ scan = 3
      <3>1. \A r \in Roles \ {role} : Held(r)' # sel["interface"]
        BY <1>0, <2>3, <2>6
      <3>2. QED
        BY <1>3, <2>1, <2>2, <2>6, <3>1 DEF ClearErase, DistinctInv
    <2>7. QED
      BY <2>4, <2>5, <2>6
  <1>4. CASE StoreField
    <2>1. \A r \in Roles \ {role} : Held(r)' # sel["interface"] /\ Held(r)' = Held(r)
      BY <1>4, StoreHeld DEF StoreField, DistinctInv, Given, SameHeld
    <2>2. DevicesDistinct'
      <3>1. CASE k = 1
        <4>1. PICK q \in Roles : q = role /\ Given(q, sel["interface"])
          BY <1>4, <3>1, StoreHeld
        <4>2. Held(q)' = sel["interface"]
          BY <4>1 DEF Given
        <4>3. QED
          BY <2>1, <4>1, <4>2, DistinctHeld DEF DistinctInv
      <3>2. CASE k # 1
        BY <1>4, <3>2, StoreHeld, ReleaseKeepsDistinct DEF DistinctInv
      <3>3. QED
        BY <3>1, <3>2
    <2>3. QED
      BY <1>4, <2>1, <2>2 DEF StoreField, DistinctInv
  <1>5. CASE WipeField
    <2>1. DevicesDistinct'
      BY <1>0, <1>5, WipeHeld, ReleaseKeepsDistinct DEF DistinctInv
    <2>2. QED
      BY <1>5, <2>1 DEF WipeField, Advance, DistinctInv
  <1>6. CASE ~ConfigureInterface /\ ~ClearCheck /\ ~ClearErase /\ ~StoreField /\ ~WipeField
    <2>1. SameHeld /\ DevicesDistinct'
      BY <1>6, OtherHeld, ReleaseKeepsDistinct DEF DistinctInv
    <2>2. CASE UNCHANGED vars
      BY <2>1, <2>2 DEF vars, DistinctInv, SameHeld, RoleSeq, Roles
    <2>3. CASE ~UNCHANGED vars
      <3>1. pc' \notin {"clear", "erase", "store"} \/ SyncEnds
        BY <1>6, <2>3
        DEF Next, Console, Operator, GatherField, Advance, PublishJson, FlushLive,
            AssignLive, FactoryReset, WipeJson, LaunchSync, SyncReturns, Exit, Kill, Restart
      <3>2. CASE SyncEnds
        BY <2>1, <3>2 DEF SyncEnds, DistinctInv, SameHeld, RoleSeq, Roles
      <3>3. QED
        BY <2>1, <3>1, <3>2 DEF DistinctInv
    <2>4. QED
      BY <2>2, <2>3
  <1>7. QED
    BY <1>1, <1>2, <1>3, <1>4, <1>5, <1>6

\* Wherever the console is killed and however many operations are cut short, no
\* adapter ever belongs to two roles, provided that no store access fails.
THEOREM NoAdapterTwice ==
    ASSUME StoreFaults = {}
    PROVE  Spec => []DevicesDistinct
  <1>1. Spec => [](Typed /\ DistinctInv)
    <2>1. Typed /\ DistinctInv /\ [Next]_vars => (Typed /\ DistinctInv)'
      BY TypedNext, DistinctNext
    <2>2. QED
      BY TypedInit, DistinctInit, <2>1, PTL DEF Spec
  <1>2. DistinctInv => DevicesDistinct
    BY DEF DistinctInv
  <1>3. QED
    BY <1>1, <1>2, PTL

--------------------------------------------------------------------------------
\* The locals of sync_legacy_to_json hold the adapters the keys hold, for the
\* roles read so far: nothing else writes the keys while it reads.
Agreed(r) == snap[r]["interface"] = ValueOr(Held(r), Empty)
PublishInv ==
    /\ PublishedDistinct
    /\ pc = "gather" =>
          \A n \in 1..3 : n < scan \/ (n = scan /\ k > 1) => Agreed(RoleSeq[n])
    /\ pc = "publish" => \A r \in Roles : Agreed(r)

LEMMA PublishInit == Init => PublishInv
  <1>1. Init => db[CliFile][JsonKey] = Missing
    BY DEF Init, StoreInit, FreshStore, Keys
  <1>2. QED
    BY <1>1 DEF Init, PublishInv, PublishedDistinct, JsonDistinct

\* An array built from locals that agree with distinct keys is distinct.
LEMMA ToJsonDistinct ==
    ASSUME Typed, DevicesDistinct, \A r \in Roles : Agreed(r)
    PROVE  JsonDistinct(ToJson(snap))
  <1>1. \A r, s \in Roles : r # s /\ snap[r]["interface"] \in Devices
                              => snap[r]["interface"] # snap[s]["interface"]
    <2> SUFFICES ASSUME NEW r \in Roles, NEW s \in Roles, r # s,
                        snap[r]["interface"] \in Devices,
                        snap[r]["interface"] = snap[s]["interface"]
                 PROVE  FALSE
      OBVIOUS
    <2>1. Held(r) \in Devices /\ Held(r) = snap[r]["interface"]
      BY DEF Agreed, ValueOr
    <2>2. Held(s) = snap[s]["interface"]
      BY DEF Agreed, ValueOr
    <2>3. QED
      BY <2>1, <2>2, DistinctHeld
  <1>2. DOMAIN ToJson(snap) = 1..3
    BY DEF ToJson
  <1>3. \A n \in 1..3 : /\ ToJson(snap)[n].interface = snap[RoleSeq[n]]["interface"]
                        /\ RoleSeq[n] \in Roles
    BY DEF ToJson, Item, RoleSeq, Roles
  <1>4. \A m, n \in 1..3 : m # n => RoleSeq[m] # RoleSeq[n]
    BY DEF RoleSeq
  <1>5. QED
    BY <1>1, <1>2, <1>3, <1>4 DEF JsonDistinct

\* Steps that leave the array alone.
LEMMA ArrayKept ==
    ASSUME Typed, [Next]_vars, ~PublishJson, ~WipeJson
    PROVE  db'[CliFile][JsonKey] = db[CliFile][JsonKey]
  <1>0. RoleSeq[scan] \in Roles /\ FieldSeq[k] \in Fields
    BY CursorOK DEF Typed, TypeOK
  <1>1. CASE ClearErase
    BY <1>0, <1>1, SetLegacy DEF ClearErase, Here, Typed, TypeOK
  <1>2. CASE WipeField
    BY <1>0, <1>2, SetLegacy DEF WipeField, Here, Typed, TypeOK
  <1>3. CASE StoreField
    BY <1>0, <1>3, SetLegacy DEF StoreField, Typed, TypeOK
  <1>4. CASE UNCHANGED db
    BY <1>4
  <1>5. QED
    BY <1>1, <1>2, <1>3, <1>4
    DEF Next, Console, Operator, vars, ConfigureInterface, ClearCheck, GatherField,
        FlushLive, AssignLive, FactoryReset, LaunchSync, SyncReturns, Exit, Kill,
        Restart, SyncEnds

LEMMA PublishNext ==
    ASSUME StoreFaults = {}, Typed, DistinctInv, PublishInv, [Next]_vars
    PROVE  PublishInv'
  <1> USE DEF Typed, TypeOK
  <1>0. RoleSeq[scan] \in Roles /\ FieldSeq[k] \in Fields
    BY CursorOK
  <1>1. CASE PublishJson
    <2>1. PublishedDistinct'
      <3>1. JsonDistinct(ToJson(snap))
        BY <1>1, ToJsonDistinct DEF PublishJson, PublishInv, DistinctInv
      <3>2. db'[CliFile][JsonKey] = ToJson(snap)
        BY <1>1, SetJson, ToJsonType DEF PublishJson
      <3>3. QED
        BY <3>1, <3>2 DEF PublishedDistinct, JsonDistinct
    <2>2. QED
      BY <1>1, <2>1 DEF PublishJson, PublishInv
  <1>2. CASE WipeJson
    <2>1. db'[CliFile][JsonKey] = Empty
      BY <1>2, SetJson DEF WipeJson
    <2>2. QED
      BY <1>2, <2>1 DEF WipeJson, PublishInv, PublishedDistinct, JsonDistinct
  <1>3. CASE GatherField
    <2>1. PublishedDistinct' /\ SameHeld
      BY <1>3 DEF GatherField, PublishInv, PublishedDistinct, JsonDistinct, SameHeld, Held
    <2>2. \A r \in Roles : r # RoleSeq[scan] => snap'[r] = snap[r]
      BY <1>3, <1>0 DEF GatherField
    <2>3. k # 1 => snap'[RoleSeq[scan]]["interface"] = snap[RoleSeq[scan]]["interface"]
      <3>1. k # 1 => FieldSeq[k] # "interface"
        BY DEF FieldSeq
      <3>2. QED
        BY <1>0, <1>3, <3>1 DEF GatherField, Fields
    <2>4. k = 1 => snap'[RoleSeq[scan]]["interface"] = ValueOr(Held(RoleSeq[scan]), Empty)
      <3>1. k = 1 => FieldSeq[k] = "interface" /\ GetConfig(CliFile, Here) = {Held(RoleSeq[scan])}
        BY DEF FieldSeq, GetConfig, Here, Held
      <3>2. QED
        BY <1>0, <1>3, <3>1 DEF GatherField, Fields
    <2>5. \A n \in 1..3 : n <= scan =>
             snap'[RoleSeq[n]]["interface"] = ValueOr(Held(RoleSeq[n]), Empty)
      <3>1. \A n \in 1..3 : RoleSeq[n] \in Roles /\ (n # scan => RoleSeq[n] # RoleSeq[scan])
        BY DEF RoleSeq, Roles
      <3>2. ASSUME NEW n \in 1..3, n < scan
            PROVE  snap'[RoleSeq[n]]["interface"] = ValueOr(Held(RoleSeq[n]), Empty)
        BY <1>3, <2>2, <3>1, <3>2 DEF GatherField, PublishInv, Agreed
      <3>3. snap'[RoleSeq[scan]]["interface"] = ValueOr(Held(RoleSeq[scan]), Empty)
        BY <1>3, <2>3, <2>4 DEF GatherField, PublishInv, Agreed
      <3>4. QED
        BY <3>2, <3>3
    <2>6. \A n \in 1..3 : n <= scan => Agreed(RoleSeq[n])'
      BY <1>3, <2>5 DEF GatherField, Agreed, Held
    <2>7. CASE MoreOfRole
      BY <1>3, <2>1, <2>6, <2>7 DEF GatherField, Advance, PublishInv
    <2>8. CASE ~MoreOfRole /\ scan < 3
      BY <1>3, <2>1, <2>6, <2>8 DEF GatherField, Advance, PublishInv
    <2>9. CASE ~MoreOfRole /\ scan = 3
      <3>1. \A r \in Roles : \E n \in 1..3 : RoleSeq[n] = r
        BY DEF RoleSeq, Roles
      <3>2. \A r \in Roles : Agreed(r)'
        BY <2>6, <2>9, <3>1
      <3>3. QED
        BY <1>3, <2>1, <2>9, <3>2 DEF GatherField, Advance, PublishInv
    <2>10. QED
      BY <2>7, <2>8, <2>9
  <1>4. CASE StoreField
    <2>1. PublishedDistinct'
      BY <1>4, ArrayKept DEF StoreField, PublishInv, PublishedDistinct, JsonDistinct,
         PublishJson, WipeJson
    <2>2. pc' = "gather" => scan' = 1 /\ k' = 1
      BY <1>4 DEF StoreField
    <2>3. QED
      BY <1>4, <2>1, <2>2 DEF StoreField, PublishInv
  <1>5. CASE ~PublishJson /\ ~WipeJson /\ ~GatherField /\ ~StoreField
    <2>1. PublishedDistinct'
      BY <1>5, ArrayKept DEF PublishInv, PublishedDistinct, JsonDistinct
    <2>2. CASE UNCHANGED vars \/ SyncEnds
      BY <2>1, <2>2 DEF vars, SyncEnds, PublishInv, Agreed, Held
    <2>3. CASE ~(UNCHANGED vars \/ SyncEnds)
      <3>1. pc' \notin {"gather", "publish"}
        BY <1>5, <2>3
        DEF Next, Console, Operator, ConfigureInterface, ClearCheck, ClearErase, WipeField,
            Advance, FlushLive, AssignLive, FactoryReset, LaunchSync, SyncReturns, Exit,
            Kill, Restart
      <3>2. QED
        BY <2>1, <3>1 DEF PublishInv
    <2>4. QED
      BY <2>2, <2>3
  <1>6. QED
    BY <1>1, <1>2, <1>3, <1>4, <1>5

\* The array the console hands to the daemon and the sync script never gives an
\* adapter to two interfaces, provided that no store access fails.
THEOREM NoAdapterPublishedTwice ==
    ASSUME StoreFaults = {}
    PROVE  Spec => []PublishedDistinct
  <1>1. Spec => [](Typed /\ DistinctInv /\ PublishInv)
    <2>1. Typed /\ DistinctInv /\ PublishInv /\ [Next]_vars
          => (Typed /\ DistinctInv /\ PublishInv)'
      BY TypedNext, DistinctNext, PublishNext
    <2>2. QED
      BY TypedInit, DistinctInit, PublishInit, <2>1, PTL DEF Spec
  <1>2. PublishInv => PublishedDistinct
    BY DEF PublishInv
  <1>3. QED
    BY <1>1, <1>2, PTL

--------------------------------------------------------------------------------
\* Holder in terms of Held.
LEMMA HolderIs ==
    /\ Holder = [r \in Roles |-> IF Held(r) \in Devices THEN Held(r) ELSE Empty]
    /\ Holder' = [r \in Roles |-> IF Held(r)' \in Devices THEN Held(r)' ELSE Empty]
  BY DEF Holder, Held

LEMMA AssignmentInit == Init => Assignment!Init
  BY DEF Init, StoreInit, FreshStore, Assignment!Init, Holder, Keys, LegacyKeys, Fields

LEMMA AssignmentNext ==
    ASSUME StoreFaults = {}, Typed, DistinctInv, [Next]_vars
    PROVE  [Assignment!Next]_Holder
  <1>1. CASE SameHeld
    <2>1. UNCHANGED Holder
      BY <1>1, HolderIs DEF SameHeld
    <2>2. QED
      BY <2>1
  <1>2. ASSUME NEW q \in Roles, Released(q)
        PROVE  Assignment!Next
    <2>1. Holder' = [Holder EXCEPT ![q] = Empty]
      BY <1>2, HolderIs DEF Released
    <2>2. QED
      BY <2>1 DEF Assignment!Next, Assignment!Release
  <1>3. ASSUME NEW q \in Roles, q = role, StoreField, Given(q, sel["interface"])
        PROVE  Assignment!Next
    <2>1. sel["interface"] \in Devices
      BY <1>3 DEF StoreField, Typed, InputOK, Entered
    <2>2. \A s \in Roles \ {q} : Held(s) # sel["interface"]
      BY <1>3 DEF StoreField, DistinctInv
    <2>3. Holder' = [Holder EXCEPT ![q] = sel["interface"]]
      BY <1>3, <2>1, HolderIs DEF Given
    <2>4. \A s \in Roles \ {q} : Holder[s] # sel["interface"]
      BY <2>1, <2>2, HolderIs
    <2>5. QED
      BY <2>1, <2>3, <2>4 DEF Assignment!Next, Assignment!Assign
  <1>4. CASE ClearErase
    BY <1>1, <1>2, <1>4, EraseHeld
  <1>5. CASE WipeField
    BY <1>1, <1>2, <1>5, WipeHeld
  <1>6. CASE StoreField
    BY <1>1, <1>3, <1>6, StoreHeld
  <1>7. QED
    BY <1>1, <1>4, <1>5, <1>6, OtherHeld

\* The console implements RoleAssignment: every adapter is released by the role
\* that has it before another role gets it, across kills and restarts.
THEOREM ConsoleImplementsAssignment ==
    ASSUME StoreFaults = {}
    PROVE  Spec => ImplementsAssignment
  <1>1. Spec => [](Typed /\ DistinctInv)
    <2>1. Typed /\ DistinctInv /\ [Next]_vars => (Typed /\ DistinctInv)'
      BY TypedNext, DistinctNext
    <2>2. QED
      BY TypedInit, DistinctInit, <2>1, PTL DEF Spec
  <1>2. Typed /\ DistinctInv /\ [Next]_vars => [Assignment!Next]_Holder
    BY AssignmentNext
  <1>3. QED
    BY <1>1, <1>2, AssignmentInit, PTL DEF Spec, ImplementsAssignment, Assignment!Spec

\* The discipline of RoleAssignment is enough: an adapter that is only given to a
\* role while no other role holds it is never in two roles.
LEMMA OneRoleNext ==
    ASSUME Assignment!OneRoleEach, [Assignment!Next]_Holder
    PROVE  Assignment!OneRoleEach'
  <1> USE DEF Assignment!OneRoleEach
  <1>1. DOMAIN Holder = Roles
    BY HolderIs
  <1>2. ASSUME NEW q \in Roles, Assignment!Release(q)
        PROVE  Assignment!OneRoleEach'
    BY <1>1, <1>2 DEF Assignment!Release
  <1>3. ASSUME NEW q \in Roles, NEW d \in Devices, Assignment!Assign(q, d)
        PROVE  Assignment!OneRoleEach'
    <2>1. \A s \in Roles : Holder'[s] = IF s = q THEN d ELSE Holder[s]
      BY <1>1, <1>3 DEF Assignment!Assign
    <2>2. \A s \in Roles \ {q} : Holder[s] # d
      BY <1>3 DEF Assignment!Assign
    <2>3. QED
      BY <2>1, <2>2
  <1>4. QED
    BY <1>2, <1>3 DEF Assignment!Next

\* The promise the console's interface keys are held to, whatever implements it.
THEOREM OneRole == Assignment!Spec => []Assignment!OneRoleEach
  <1>1. Assignment!Init => Assignment!OneRoleEach
    BY DEF Assignment!Init, Assignment!OneRoleEach
  <1>2. QED
    BY <1>1, OneRoleNext, PTL DEF Assignment!Spec

--------------------------------------------------------------------------------
\* The two forms in which the console keeps the network configuration stay in step:
\* what sync_legacy_to_json writes is a copy of the legacy keys, for any adapters
\* and addresses and wherever the console is killed.

\* What a reader of one legacy key gets.
Text(r, f) == ValueOr(db[CliFile][<<r, f>>], Empty)

\* The key with number m of the role with number n, if there is one, and the keys
\* a walk has behind it.
Own(n, m)    == n \in 1..3 /\ m \in 1..4 /\ m <= LastField(RoleSeq[n])
Behind(n, m) == n < scan \/ (n = scan /\ m < k)

LEMMA LegacyIsText ==
    /\ LegacyOf(CliFile) = [r \in Roles |-> [f \in Fields |-> Text(r, f)]]
    /\ LegacyOf(CliFile)' = [r \in Roles |-> [f \in Fields |-> Text(r, f)']]
  BY DEF LegacyOf, Text

\* Different numbers, different keys; every field of a role has a number.
LEMMA Numbers ==
    /\ \A n \in 1..3, m \in 1..4 : RoleSeq[n] \in Roles /\ FieldSeq[m] \in Fields
    /\ \A n, i \in 1..3 : RoleSeq[n] = RoleSeq[i] => n = i
    /\ \A m, j \in 1..4 : FieldSeq[m] = FieldSeq[j] => m = j
    /\ \A r \in Roles : \E n \in 1..3 : RoleSeq[n] = r
    /\ \A f \in Fields : \E m \in 1..4 : FieldSeq[m] = f
    /\ \A r \in Roles : LastField(r) \in 3..4
  BY DEF RoleSeq, FieldSeq, Roles, Fields, LastField

\* The only field without a key of its own is the gateway of LAN.
LEMMA OwnKeys ==
    ASSUME NEW n \in 1..3, NEW m \in 1..4
    PROVE  Own(n, m) \/ (RoleSeq[n] = "LAN" /\ FieldSeq[m] = "gateway")
  BY DEF Own, RoleSeq, FieldSeq, LastField

\* ... and it is not written by whoever writes an own key.
LEMMA OwnIsNotLanGateway ==
    ASSUME NEW n \in 1..3, NEW m \in 1..4, Own(n, m)
    PROVE  <<RoleSeq[n], FieldSeq[m]>> # <<"LAN", "gateway">>
  BY DEF Own, RoleSeq, FieldSeq, LastField

\* One step of a walk over all keys: the key it was at comes to lie behind, no
\* other does, and the walk ends when all of them do.
LEMMA WalkStep ==
    ASSUME Own(scan, k), NEW next, Advance(next)
    PROVE  /\ \/ /\ pc' = pc /\ Own(scan', k')
                 /\ \A n, m \in Nat : Own(n, m) /\ Behind(n, m)' =>
                                         Behind(n, m) \/ (n = scan /\ m = k)
              \/ /\ pc' = next
                 /\ \A n, m \in Nat : Own(n, m) => Behind(n, m) \/ (n = scan /\ m = k)
  <1> USE DEF Own, Behind
  <1>0. scan \in 1..3 /\ k \in 1..4 /\ LastField(RoleSeq[scan]) \in 3..4
    BY Numbers
  <1>1. CASE MoreOfRole
    BY <1>0, <1>1 DEF Advance, MoreOfRole
  <1>2. CASE ~MoreOfRole /\ scan < 3
    <2>1. k = LastField(RoleSeq[scan]) /\ scan' = scan + 1 /\ k' = 1 /\ pc' = pc
      BY <1>0, <1>2 DEF Advance, MoreOfRole
    <2>2. Own(scan', k')
      BY <1>0, <1>2, <2>1, Numbers
    <2>3. QED
      BY <1>0, <2>1, <2>2
  <1>3. CASE ~MoreOfRole /\ scan = 3
    <2>1. k = LastField(RoleSeq[scan]) /\ pc' = next
      BY <1>0, <1>3 DEF Advance, MoreOfRole
    <2>2. QED
      BY <1>0, <1>3, <2>1
  <1>4. QED
    BY <1>0, <1>1, <1>2, <1>3

--------------------------------------------------------------------------------
\* The inductive invariant behind MirrorWhenWhole and PublishRepairs: the locals
\* of sync_legacy_to_json are copies of the keys read so far, the keys a reset
\* has passed are empty, and the key LAN does not have stays out of both.
Copied(r, f) == snap[r][f] = Text(r, f)
WalkInv ==
    /\ Text("LAN", "gateway") = Empty /\ snap["LAN"]["gateway"] = Empty
    /\ pc = "clear" => k = 1
    /\ pc \in {"erase", "gather", "wipe"} => Own(scan, k)
    /\ pc = "store" => k <= LastField(role)
    /\ pc = "gather" =>
          \A n, m \in Nat : Own(n, m) /\ Behind(n, m) => Copied(RoleSeq[n], FieldSeq[m])
    /\ pc = "publish" => \A r \in Roles, f \in Fields : Copied(r, f)
    /\ pc = "wipe" =>
          \A n, m \in Nat : Own(n, m) /\ Behind(n, m) => Text(RoleSeq[n], FieldSeq[m]) = Empty
    /\ pc = "wipeJson" => \A r \in Roles, f \in Fields : Text(r, f) = Empty
MirrorInv == WalkInv /\ MirrorWhenWhole

LEMMA MirrorInit == Init => MirrorInv
  <1> SUFFICES ASSUME Init PROVE MirrorInv
    OBVIOUS
  <1>1. \A key \in Keys : db[CliFile][key] = Missing
    BY DEF Init, StoreInit, FreshStore
  <1>2. \A r \in Roles, f \in Fields : Text(r, f) = Empty
    BY <1>1 DEF Text, ValueOr, Keys, LegacyKeys
  <1>3. LegacyOf(CliFile) = NoSnap
    BY <1>2, LegacyIsText DEF NoSnap, NoAddress
  <1>4. Mirrored
    BY <1>1, <1>3 DEF Mirrored, NoConfig, Keys
  <1>5. snap["LAN"]["gateway"] = Empty
    BY DEF Init, NoSnap, NoAddress, Roles, Fields
  <1>6. QED
    BY <1>2, <1>4, <1>5 DEF Init, MirrorInv, WalkInv, MirrorWhenWhole, Roles, Fields

\* set_config on an own key changes what is read from that key only.
LEMMA WriteOwn ==
    ASSUME StoreFaults = {}, StoreTypeOK, NEW n \in 1..3, NEW m \in 1..4, Own(n, m),
           NEW text \in FieldTexts[FieldSeq[m]] \cup {Empty},
           SetConfig(CliFile, <<RoleSeq[n], FieldSeq[m]>>, text)
    PROVE  /\ Text(RoleSeq[n], FieldSeq[m])' = text
           /\ \A r \in Roles, f \in Fields :
                 <<r, f>> # <<RoleSeq[n], FieldSeq[m]>> => Text(r, f)' = Text(r, f)
           /\ Text("LAN", "gateway")' = Text("LAN", "gateway")
  <1>1. RoleSeq[n] \in Roles /\ FieldSeq[m] \in Fields
    BY Numbers
  <1>2. text # Missing
    BY <1>1 DEF FieldTexts, Fields
  <1>3. /\ db'[CliFile][<<RoleSeq[n], FieldSeq[m]>>] = text
        /\ \A r \in Roles, f \in Fields :
              <<r, f>> # <<RoleSeq[n], FieldSeq[m]>> => db'[CliFile][<<r, f>>] = db[CliFile][<<r, f>>]
    BY <1>1, SetLegacy
  <1>4. /\ Text(RoleSeq[n], FieldSeq[m])' = text
        /\ \A r \in Roles, f \in Fields :
              <<r, f>> # <<RoleSeq[n], FieldSeq[m]>> => Text(r, f)' = Text(r, f)
    BY <1>2, <1>3 DEF Text, ValueOr
  <1>5. "LAN" \in Roles /\ "gateway" \in Fields
    BY DEF Roles, Fields
  <1>6. QED
    BY <1>4, <1>5, OwnIsNotLanGateway

\* The array and what it is built from.
LEMMA ToJsonOf ==
    ASSUME \A r \in Roles, f \in Fields : Copied(r, f)
    PROVE  ToJson(snap) = ToJson(LegacyOf(CliFile))
  BY LegacyIsText DEF Copied, ToJson, Item, Roles, Fields

\* What the two steps that write the array write.
LEMMA ArrayWritten ==
    ASSUME StoreFaults = {}, Typed, WalkInv, PublishJson \/ WipeJson
    PROVE  /\ \/ db'[CliFile][JsonKey] = ToJson(LegacyOf(CliFile)')
              \/ db'[CliFile][JsonKey] = Empty /\ LegacyOf(CliFile)' = NoSnap
           /\ \A r \in Roles, f \in Fields : Text(r, f)' = Text(r, f)
  <1> USE DEF Typed, TypeOK
  <1>1. CASE PublishJson
    <2>1. /\ db'[CliFile][JsonKey] = ToJson(snap)
          /\ \A r \in Roles, f \in Fields : Text(r, f)' = Text(r, f)
      BY <1>1, SetJson, ToJsonType DEF PublishJson, Text
    <2>2. LegacyOf(CliFile)' = LegacyOf(CliFile)
      BY <2>1, LegacyIsText
    <2>3. QED
      BY <1>1, <2>1, <2>2, ToJsonOf DEF PublishJson, WalkInv
  <1>2. CASE WipeJson
    <2>1. /\ db'[CliFile][JsonKey] = Empty
          /\ \A r \in Roles, f \in Fields : Text(r, f)' = Text(r, f)
      BY <1>2, SetJson DEF WipeJson, Text
    <2>2. LegacyOf(CliFile)' = NoSnap
      BY <1>2, <2>1, LegacyIsText DEF WipeJson, WalkInv, NoSnap, NoAddress
    <2>3. QED
      BY <2>1, <2>2
  <1>3. QED
    BY <1>1, <1>2

--------------------------------------------------------------------------------
LEMMA EraseWalk ==
    ASSUME StoreFaults = {}, Typed, WalkInv, ClearErase
    PROVE  WalkInv'
  <1> USE DEF Typed, TypeOK
  <1>1. Own(scan, k) /\ snap' = snap
    BY DEF ClearErase, WalkInv
  <1>2. Text("LAN", "gateway")' = Empty
    BY <1>1, WriteOwn DEF ClearErase, Here, WalkInv
  <1>3. /\ pc' \in {"erase", "clear", "store"}
        /\ pc' = "erase" => scan' = scan /\ k' = k + 1 /\ k < LastField(RoleSeq[scan])
        /\ pc' \in {"clear", "store"} => k' = 1
    BY DEF ClearErase, MoreOfRole
  <1>4. pc' = "erase" => Own(scan', k')
    BY <1>1, <1>3, Numbers DEF Own
  <1>5. pc' = "store" => k' <= LastField(role')
    BY <1>3, Numbers DEF ClearErase
  <1>6. QED
    BY <1>1, <1>2, <1>3, <1>4, <1>5 DEF WalkInv

LEMMA StoreWalk ==
    ASSUME StoreFaults = {}, Typed, WalkInv, StoreField
    PROVE  WalkInv'
  <1> USE DEF Typed, TypeOK
  <1>1. PICK n \in 1..3 : RoleSeq[n] = role
    BY Numbers
  <1>2. Own(n, k) /\ snap' = snap /\ role' = role
    BY <1>1 DEF StoreField, WalkInv, Own
  <1>3. sel[FieldSeq[k]] \in FieldTexts[FieldSeq[k]] \cup {Empty}
    BY Numbers
  <1>4. Text("LAN", "gateway")' = Empty
    BY <1>1, <1>2, <1>3, WriteOwn DEF StoreField, WalkInv
  <1>5. /\ pc' \in {"store", "gather"}
        /\ pc' = "store" => k' = k + 1 /\ k < LastField(role)
        /\ pc' = "gather" => scan' = 1 /\ k' = 1
    BY DEF StoreField
  <1>6. pc' = "store" => k' <= LastField(role')
    BY <1>2, <1>5, Numbers
  <1>7. pc' = "gather" => Own(scan', k') /\ \A i, m \in Nat : Own(i, m) => ~Behind(i, m)'
    BY <1>5, Numbers DEF Own, Behind
  <1>8. QED
    BY <1>2, <1>4, <1>5, <1>6, <1>7 DEF WalkInv

LEMMA GatherWalk ==
    ASSUME StoreFaults = {}, Typed, WalkInv, GatherField
    PROVE  WalkInv'
  <1> USE DEF Typed, TypeOK
  <1>0. PICK i \in 1..3, j \in 1..4 : i = scan /\ j = k
    OBVIOUS
  <1>1. Own(i, j) /\ RoleSeq[i] \in Roles /\ FieldSeq[j] \in Fields
    BY <1>0, CursorOK DEF GatherField, WalkInv
  <1>2. snap' = [snap EXCEPT ![RoleSeq[i]][FieldSeq[j]] = Text(RoleSeq[i], FieldSeq[j])]
    BY <1>0 DEF GatherField, GetConfig, Here, Text
  <1>3. \A r \in Roles, f \in Fields : Text(r, f)' = Text(r, f)
    BY DEF GatherField, Text
  <1>4. /\ Copied(RoleSeq[i], FieldSeq[j])'
        /\ \A r \in Roles, f \in Fields :
              <<r, f>> # <<RoleSeq[i], FieldSeq[j]>> /\ Copied(r, f) => Copied(r, f)'
    <2>1. /\ snap'[RoleSeq[i]][FieldSeq[j]] = Text(RoleSeq[i], FieldSeq[j])
          /\ \A r \in Roles, f \in Fields :
                <<r, f>> # <<RoleSeq[i], FieldSeq[j]>> => snap'[r][f] = snap[r][f]
      BY <1>1, <1>2
    <2>2. QED
      BY <1>1, <1>3, <2>1 DEF Copied
  <1>5. snap'["LAN"]["gateway"] = Empty /\ Text("LAN", "gateway")' = Empty
    BY <1>1, <1>2, <1>3, OwnIsNotLanGateway DEF WalkInv, Roles, Fields
  <1>6. \A n, m \in Nat : Own(n, m) /\ (Behind(n, m) \/ (n = scan /\ m = k))
                             => Copied(RoleSeq[n], FieldSeq[m])'
    <2>1. SUFFICES ASSUME NEW n \in Nat, NEW m \in Nat, Own(n, m),
                          Behind(n, m) \/ (n = scan /\ m = k)
                   PROVE  Copied(RoleSeq[n], FieldSeq[m])'
      OBVIOUS
    <2>2. CASE n = i /\ m = j
      BY <1>4, <2>2
    <2>3. CASE Behind(n, m) /\ ~(n = i /\ m = j)
      <3>1. <<RoleSeq[n], FieldSeq[m]>> # <<RoleSeq[i], FieldSeq[j]>>
        BY <2>1, <2>3, Numbers DEF Own
      <3>2. Copied(RoleSeq[n], FieldSeq[m])
        BY <2>1, <2>3 DEF GatherField, WalkInv
      <3>3. QED
        BY <1>4, <2>1, <3>1, <3>2, Numbers DEF Own
    <2>4. QED
      BY <1>0, <2>1, <2>2, <2>3
  <1>7. CASE /\ pc' = "gather" /\ Own(scan', k')
             /\ \A n, m \in Nat : Own(n, m) /\ Behind(n, m)' => Behind(n, m) \/ (n = scan /\ m = k)
    BY <1>5, <1>6, <1>7 DEF WalkInv
  <1>8. CASE /\ pc' = "publish"
             /\ \A n, m \in Nat : Own(n, m) => Behind(n, m) \/ (n = scan /\ m = k)
    <2>1. \A n \in 1..3, m \in 1..4 : Copied(RoleSeq[n], FieldSeq[m])'
      BY <1>5, <1>6, <1>8, OwnKeys DEF Copied
    <2>2. \A r \in Roles, f \in Fields : Copied(r, f)'
      BY <2>1, Numbers
    <2>3. QED
      BY <1>5, <1>8, <2>2 DEF WalkInv
  <1>9. QED
    BY <1>0, <1>1, <1>7, <1>8, WalkStep DEF GatherField

LEMMA WipeWalk ==
    ASSUME StoreFaults = {}, Typed, WalkInv, WipeField
    PROVE  WalkInv'
  <1> USE DEF Typed, TypeOK
  <1>0. PICK i \in 1..3, j \in 1..4 : i = scan /\ j = k
    OBVIOUS
  <1>1. Own(i, j) /\ snap' = snap
    BY <1>0 DEF WipeField, WalkInv
  <1>2. /\ Text(RoleSeq[i], FieldSeq[j])' = Empty
        /\ \A r \in Roles, f \in Fields :
              <<r, f>> # <<RoleSeq[i], FieldSeq[j]>> => Text(r, f)' = Text(r, f)
        /\ Text("LAN", "gateway")' = Empty
    BY <1>0, <1>1, WriteOwn DEF WipeField, Here, WalkInv
  <1>3. \A n, m \in Nat : Own(n, m) /\ (Behind(n, m) \/ (n = scan /\ m = k))
                             => Text(RoleSeq[n], FieldSeq[m])' = Empty
    <2>1. SUFFICES ASSUME NEW n \in Nat, NEW m \in Nat, Own(n, m),
                          Behind(n, m) \/ (n = scan /\ m = k)
                   PROVE  Text(RoleSeq[n], FieldSeq[m])' = Empty
      OBVIOUS
    <2>2. CASE n = i /\ m = j
      BY <1>2, <2>2
    <2>3. CASE Behind(n, m) /\ ~(n = i /\ m = j)
      <3>1. <<RoleSeq[n], FieldSeq[m]>> # <<RoleSeq[i], FieldSeq[j]>>
        BY <2>1, <2>3, Numbers DEF Own
      <3>2. Text(RoleSeq[n], FieldSeq[m]) = Empty
        BY <2>1, <2>3 DEF WipeField, WalkInv
      <3>3. QED
        BY <1>2, <2>1, <3>1, <3>2, Numbers DEF Own
    <2>4. QED
      BY <1>0, <2>1, <2>2, <2>3
  <1>4. CASE /\ pc' = "wipe" /\ Own(scan', k')
             /\ \A n, m \in Nat : Own(n, m) /\ Behind(n, m)' => Behind(n, m) \/ (n = scan /\ m = k)
    BY <1>1, <1>2, <1>3, <1>4 DEF WalkInv
  <1>5. CASE /\ pc' = "wipeJson"
             /\ \A n, m \in Nat : Own(n, m) => Behind(n, m) \/ (n = scan /\ m = k)
    <2>1. \A n \in 1..3, m \in 1..4 : Text(RoleSeq[n], FieldSeq[m])' = Empty
      BY <1>2, <1>3, <1>5, OwnKeys
    <2>2. \A r \in Roles, f \in Fields : Text(r, f)' = Empty
      BY <2>1, Numbers
    <2>3. QED
      BY <1>1, <1>2, <1>5, <2>2 DEF WalkInv
  <1>6. QED
    BY <1>0, <1>1, <1>4, <1>5, WalkStep DEF WipeField

LEMMA ArrayWalk ==
    ASSUME StoreFaults = {}, Typed, WalkInv, PublishJson \/ WipeJson
    PROVE  WalkInv'
  <1>1. pc' \in {"flush", "launch"} /\ snap' = snap
    BY DEF PublishJson, WipeJson
  <1>2. Text("LAN", "gateway")' = Empty
    BY ArrayWritten DEF WalkInv, Roles, Fields
  <1>3. QED
    BY <1>1, <1>2 DEF WalkInv

\* A step that writes no key leaves what is read from the keys, and the array's
\* relation to it, as they were.
LEMMA SameStore ==
    ASSUME db' = db
    PROVE  /\ \A r \in Roles, f \in Fields : Text(r, f)' = Text(r, f)
           /\ Text("LAN", "gateway")' = Text("LAN", "gateway")
           /\ Mirrored' <=> Mirrored
  BY DEF Text, Mirrored, LegacyOf

LEMMA WalkNext ==
    ASSUME StoreFaults = {}, Typed, WalkInv, [Next]_vars
    PROVE  WalkInv'
  <1> USE DEF Typed, TypeOK
  <1>1. CASE ClearCheck
    <2>1. k = 1 /\ snap' = snap /\ k' = k /\ role' = role /\ pc' \in {"clear", "erase", "store"}
      BY <1>1 DEF ClearCheck, WalkInv
    <2>2. pc' = "erase" => Own(scan', k')
      BY <1>1, <2>1, Numbers DEF ClearCheck, Own
    <2>3. pc' = "store" => k' <= LastField(role')
      BY <2>1, Numbers
    <2>4. QED
      BY <1>1, <2>1, <2>2, <2>3, SameStore DEF ClearCheck, WalkInv
  <1>2. CASE ConfigureInterface
    BY <1>2, SameStore DEF ConfigureInterface, WalkInv
  <1>3. CASE FactoryReset
    <2>1. Own(scan', k') /\ \A n, m \in Nat : Own(n, m) => ~Behind(n, m)'
      BY <1>3, Numbers DEF FactoryReset, Own, Behind
    <2>2. QED
      BY <1>3, <2>1, SameStore DEF FactoryReset, WalkInv
  <1>4. CASE FlushLive \/ AssignLive \/ LaunchSync \/ Exit \/ Restart
    BY <1>4, SameStore DEF FlushLive, AssignLive, LaunchSync, Exit, Restart, WalkInv
  <1>5. CASE SyncReturns \/ Kill
    <2>1. snap'["LAN"]["gateway"] = Empty /\ db' = db /\ pc' \in {"menu", "stopped"}
      BY <1>5 DEF SyncReturns, Kill, NoSnap, NoAddress, Roles, Fields
    <2>2. QED
      BY <2>1, SameStore DEF WalkInv
  <1>6. CASE SyncEnds \/ UNCHANGED vars
    <2>1. UNCHANGED <<db, pc, role, scan, k, snap>>
      BY <1>6 DEF SyncEnds, vars
    <2>2. \A r \in Roles, f \in Fields : Copied(r, f)' <=> Copied(r, f)
      BY <2>1, SameStore DEF Copied
    <2>3. \A n, m \in Nat : /\ Behind(n, m)' <=> Behind(n, m)
                            /\ Own(n, m) => RoleSeq[n] \in Roles /\ FieldSeq[m] \in Fields
      BY <2>1, Numbers DEF Behind, Own
    <2>4. (Own(scan, k))' <=> Own(scan, k)
      BY <2>1 DEF Own
    <2>5. pc' = "gather" =>
            \A n, m \in Nat : Own(n, m) /\ Behind(n, m)' => Copied(RoleSeq[n], FieldSeq[m])'
      BY <2>1, <2>2, <2>3 DEF WalkInv
    <2>6. pc' = "wipe" =>
            \A n, m \in Nat : Own(n, m) /\ Behind(n, m)' => Text(RoleSeq[n], FieldSeq[m])' = Empty
      BY <2>1, <2>3, SameStore DEF WalkInv
    <2>7. QED
      BY <2>1, <2>2, <2>4, <2>5, <2>6, SameStore DEF WalkInv
  <1>7. QED
    BY <1>1, <1>2, <1>3, <1>4, <1>5, <1>6, EraseWalk, StoreWalk, GatherWalk,
       WipeWalk, ArrayWalk
    DEF Next, Console, Operator

LEMMA MirrorNext ==
    ASSUME StoreFaults = {}, Typed, MirrorInv, [Next]_vars
    PROVE  MirrorInv'
  <1>1. WalkInv'
    BY WalkNext DEF MirrorInv
  <1>2. CASE PublishJson \/ WipeJson
    <2>1. Mirrored'
      BY <1>2, ArrayWritten DEF Mirrored, NoConfig, MirrorInv
    <2>2. QED
      BY <1>1, <2>1 DEF MirrorInv, MirrorWhenWhole
  <1>3. CASE ClearCheck \/ ClearErase \/ StoreField \/ GatherField \/ WipeField
    <2>1. ~AtRest'
      BY <1>3 DEF ClearCheck, ClearErase, StoreField, GatherField, WipeField, Advance, AtRest
    <2>2. QED
      BY <1>1, <2>1 DEF MirrorInv, MirrorWhenWhole
  <1>4. CASE ~PublishJson /\ ~WipeJson
             /\ ~(ClearCheck \/ ClearErase \/ StoreField \/ GatherField \/ WipeField)
    <2>1. db' = db
      BY <1>4 DEF Next, Console, Operator, ConfigureInterface, FactoryReset, FlushLive,
                  AssignLive, LaunchSync, SyncReturns, Exit, Kill, Restart, SyncEnds, vars
    <2>2. AtRest' /\ ~torn' => AtRest /\ ~torn
      BY <1>4 DEF Typed, TypeOK, Next, Console, Operator, ConfigureInterface, FactoryReset,
                  FlushLive, AssignLive, LaunchSync, SyncReturns, Exit, Kill, Restart, SyncEnds,
                  vars, AtRest, PCs
    <2>3. QED
      BY <1>1, <2>1, <2>2, SameStore DEF MirrorInv, MirrorWhenWhole
  <1>5. QED
    BY <1>2, <1>3, <1>4

LEMMA MirrorAlways ==
    ASSUME StoreFaults = {}
    PROVE  Spec => [](Typed /\ DistinctInv /\ MirrorInv)
  <1>1. Typed /\ DistinctInv /\ MirrorInv /\ [Next]_vars
        => (Typed /\ DistinctInv /\ MirrorInv)'
    BY TypedNext, DistinctNext, MirrorNext
  <1>2. QED
    BY TypedInit, DistinctInit, MirrorInit, <1>1, PTL DEF Spec

\* Once an operation has run to its end the array says what the keys say, until
\* one is cut short, provided that no store access fails.
THEOREM ArrayMirrorsKeys ==
    ASSUME StoreFaults = {}
    PROVE  Spec => []MirrorWhenWhole
  <1>1. MirrorInv => MirrorWhenWhole
    BY DEF MirrorInv
  <1>2. QED
    BY <1>1, MirrorAlways, PTL

\* Whatever the operations that were cut short left in the keys, the next array
\* written is a copy of the keys, provided that no store access fails.
THEOREM LaterArrayRepairs ==
    ASSUME StoreFaults = {}
    PROVE  Spec => PublishRepairs
  <1>1. ASSUME Typed, MirrorInv, [Next]_vars
        PROVE  [db'[CliFile][JsonKey] # db[CliFile][JsonKey] =>
                  \/ db'[CliFile][JsonKey] = ToJson(LegacyOf(CliFile)')
                  \/ db'[CliFile][JsonKey] = Empty /\ LegacyOf(CliFile)' = NoSnap]_vars
    BY <1>1, ArrayKept, ArrayWritten DEF MirrorInv
  <1>2. QED
    BY <1>1, MirrorAlways, PTL DEF Spec, PublishRepairs
================================================================================
