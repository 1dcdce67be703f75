---------------------------- MODULE ApiConfigProofs -----------------------------
(***************************************************************************)
(* What the daemon's configuration handlers guarantee for any bodies,      *)
(* adapters and number of requests, and where they do not interleave or    *)
(* need not seed, for any number of threads.                               *)
(***************************************************************************)
EXTENDS ApiConfig, WellFoundedInduction, TLAPS

USE DatabaseAssumption, ConfigStoreAssumption, ArrayAssumption, ApiConfigAssumption

--------------------------------------------------------------------------------
\* Every set of naturals that has an element has a least one.
LEMMA LeastNatural ==
    ASSUME NEW S \in SUBSET Nat, S # {}
    PROVE  \E n \in S : \A m \in S : n <= m
  <1> DEFINE Less == OpToRel(<, Nat)
  <1>1. PICK n \in S : \A m \in S : <<m, n>> \notin Less
    BY NatLessThanWellFounded, WFMin
  <1>2. \A m \in Nat : m < n => <<m, n>> \in Less
    BY DEF OpToRel
  <1> HIDE DEF Less
  <1>3. ASSUME NEW m \in S PROVE n <= m
    <2>1. m \in Nat /\ n \in Nat /\ ~(m < n)
      BY <1>1, <1>2
    <2>2. QED
      BY <2>1
  <1>4. QED
    BY <1>3

LEMMA ArrayIs ==
    ASSUME NEW body, IsArray(body)
    PROVE  /\ Len(body) \in Nat /\ DOMAIN body = 1..Len(body)
           /\ body = [i \in 1..Len(body) |-> body[i]]
           /\ \A i \in 1..Len(body) :
                 /\ body[i].id \in Roles \cup CustomIds
                 /\ body[i] = [id |-> body[i].id, interface |-> body[i].interface,
                               ip |-> body[i].ip, netmask |-> body[i].netmask,
                               gateway |-> body[i].gateway]
  BY DEF IsArray, Item

\* The walk over the elements finds the next one that stands for a role.
LEMMA NextRoleIs ==
    ASSUME NEW body, IsArray(body), NEW i \in 1..(Len(body) + 1)
    PROVE  /\ NextRole(body, i) \in i..(Len(body) + 1)
           /\ NextRole(body, i) <= Len(body) => body[NextRole(body, i)].id \in Roles
           /\ \A m \in i..(NextRole(body, i) - 1) : body[m].id \notin Roles
  <1> DEFINE rest == {n \in i..Len(body) : body[n].id \in Roles}
  <1>1. Len(body) \in Nat
    BY ArrayIs
  <1>2. CASE rest = {}
    BY <1>1, <1>2 DEF NextRole
  <1>3. CASE rest # {}
    <2>1. rest \in SUBSET Nat
      BY <1>1
    <2>2. \E n \in rest : \A m \in rest : n <= m
      BY <1>3, <2>1, LeastNatural
    <2>3. NextRole(body, i) = CHOOSE n \in rest : \A m \in rest : n <= m
      BY <1>3 DEF NextRole
    <2>4. NextRole(body, i) \in rest /\ \A m \in rest : NextRole(body, i) <= m
      BY <2>2, <2>3
    <2>5. QED
      BY <1>1, <2>4
  <1>4. QED
    BY <1>2, <1>3

LEMMA TypedItem ==
    ASSUME NEW id \in Roles \cup CustomIds, NEW d \in Devices \cup {Empty},
           NEW a \in Ips \cup {Empty}, NEW m \in Netmasks \cup {Empty},
           NEW g \in Gateways \cup {Empty}
    PROVE  [id |-> id, interface |-> d, ip |-> a, netmask |-> m, gateway |-> g] \in Items
  BY DEF Items

\* A body that passes validation may be stored, and gives no adapter twice.
LEMMA ValidBody ==
    ASSUME NEW body, IsArray(body), Valid(body)
    PROVE  body \in Seq(Items) /\ JsonDistinct(body)
  <1>1. \A i \in 1..Len(body) : body[i] \in Items
    <2>1. ASSUME NEW i \in 1..Len(body) PROVE body[i] \in Items
      <3>1. Adapters \subseteq Devices
        BY DEF Adapters
      <3>2. /\ body[i].id \in Roles \cup CustomIds
            /\ body[i].interface \in Devices \cup {Empty} /\ body[i].ip \in Ips \cup {Empty}
            /\ body[i].netmask \in Netmasks \cup {Empty}
            /\ body[i].gateway \in Gateways \cup {Empty}
        BY <3>1, ArrayIs DEF Valid
      <3>3. body[i] = [id |-> body[i].id, interface |-> body[i].interface, ip |-> body[i].ip,
                       netmask |-> body[i].netmask, gateway |-> body[i].gateway]
        BY ArrayIs
      <3>4. [id |-> body[i].id, interface |-> body[i].interface, ip |-> body[i].ip,
             netmask |-> body[i].netmask, gateway |-> body[i].gateway] \in Items
        BY <3>2, TypedItem
      <3>5. QED
        BY <3>3, <3>4, Zenon
    <2>2. QED
      BY <2>1
  <1>2. body \in Seq(Items)
    BY <1>1, ArrayIs
  <1>3. ASSUME NEW i \in DOMAIN body, NEW j \in DOMAIN body, i # j,
               body[i].interface \in Devices
        PROVE  body[i].interface # body[j].interface
    <2>1. i \in Nat /\ j \in Nat /\ i \in 1..Len(body) /\ j \in 1..Len(body)
      BY ArrayIs
    <2>2. CASE j < i
      BY <1>3, <2>1, <2>2 DEF Valid
    <2>3. CASE i < j
      BY <1>3, <2>1, <2>3 DEF Valid
    <2>4. QED
      BY <1>3, <2>1, <2>2, <2>3
  <1>4. QED
    BY <1>2, <1>3 DEF JsonDistinct

--------------------------------------------------------------------------------
LEMMA KeysDiffer ==
    /\ JsonKey \notin LegacyKeys
    /\ \A r, s \in Roles, f, g \in Fields : <<r, f>> = <<s, g>> => r = s /\ f = g
    /\ \A r \in Roles, f \in Fields : <<r, f>> \in LegacyKeys
  BY DEF JsonKey, LegacyKeys, Roles, Fields

LEMMA Numbered ==
    /\ \A n \in 1..3 : RoleSeq[n] \in Roles
    /\ \A m \in 1..4 : FieldSeq[m] \in Fields
    /\ \A m, n \in 1..4 : FieldSeq[m] = FieldSeq[n] => m = n
    /\ \A r \in Roles : LastField(r) \in 3..4
  BY DEF RoleSeq, Roles, FieldSeq, Fields, LastField

\* The shape of the database, without what its texts are.
Placed == DOMAIN db = Files /\ \A file \in Files : DOMAIN db[file] = Keys

\* set_config: the key may change, to the text given; nothing else does.
LEMMA SetOne ==
    ASSUME Placed, NEW key \in Keys, NEW text, SetConfig(ApiFile, key, text)
    PROVE  /\ Placed'
           /\ \A file \in Files, q \in Keys :
                 file # ApiFile \/ q # key => db'[file][q] = db[file][q]
           /\ \/ db'[ApiFile][key] = text
              \/ "write" \in StoreFaults /\ db'[ApiFile][key] = db[ApiFile][key]
  BY DEF Placed, SetConfig

LEMMA StoreTyped ==
    ASSUME StoreTypeOK, NEW key \in Keys, NEW text, SetConfig(ApiFile, key, text),
           key = JsonKey => text \in Seq(Items),
           \A r \in Roles, f \in Fields : key = <<r, f>> => text \in FieldTexts[f] \cup {Empty}
    PROVE  StoreTypeOK'
  <1>1. Placed /\ Placed'
    BY SetOne DEF Placed, StoreTypeOK
  <1>2. \A file \in Files, q \in Keys :
           db'[file][q] = db[file][q] \/ (q = key /\ db'[file][q] = text)
    BY <1>1, SetOne
  <1>3. \A file \in Files, r \in Roles, f \in Fields :
           db'[file][<<r, f>>] \in FieldTexts[f] \cup {Empty, Missing}
    <2>1. ASSUME NEW file \in Files, NEW r \in Roles, NEW f \in Fields
          PROVE  db'[file][<<r, f>>] \in FieldTexts[f] \cup {Empty, Missing}
      <3>1. <<r, f>> \in Keys
        BY KeysDiffer DEF Keys
      <3>2. db[file][<<r, f>>] \in FieldTexts[f] \cup {Empty, Missing}
        BY DEF StoreTypeOK
      <3>3. CASE db'[file][<<r, f>>] = db[file][<<r, f>>]
        BY <3>2, <3>3
      <3>4. CASE key = <<r, f>> /\ db'[file][<<r, f>>] = text
        BY <3>4
      <3>5. QED
        BY <1>2, <3>1, <3>3, <3>4
    <2>2. QED
      BY <2>1
  <1>4. \A file \in Files : db'[file][JsonKey] \in Seq(Items) \cup {Empty, Missing}
    BY <1>2 DEF StoreTypeOK, Keys
  <1>5. QED
    BY <1>1, <1>3, <1>4 DEF StoreTypeOK, Placed

--------------------------------------------------------------------------------
\* Where a handler stands: its indices point at a role and a field, and what is
\* being stored has passed validation.
Storing(w) == wpc[w] \in {"save", "legacy", "launch"}
Bounds(w) ==
    /\ wpc[w] = "get" => wi[w] = 1 /\ wk[w] = 1
    /\ wpc[w] = "seed" => wi[w] \in 1..3 /\ wk[w] \in 1..LastField(RoleSeq[wi[w]])
    /\ Storing(w) => IsArray(req[w]) /\ Valid(req[w])
    /\ wpc[w] = "legacy" => /\ wi[w] \in 1..Len(req[w]) /\ req[w][wi[w]].id \in Roles
                            /\ wk[w] \in 1..LastField(req[w][wi[w]].id)
Locals ==
    /\ HandlersTypeOK
    /\ DOMAIN seed = Workers
    /\ \A w \in Workers : DOMAIN seed[w] = Roles /\ \A r \in Roles : DOMAIN seed[w][r] = Fields
    /\ \A w \in Workers : Bounds(w)
Typed == StoreTypeOK /\ Locals

\* Threads do not see each other's locals.
Untouched(v) ==
    wpc'[v] = wpc[v] /\ req'[v] = req[v] /\ wi'[v] = wi[v] /\ wk'[v] = wk[v]
LEMMA BoundsKept ==
    ASSUME NEW v \in Workers, Bounds(v), Untouched(v)
    PROVE  Bounds(v)'
  BY DEF Bounds, Storing, Untouched

\* What is left to show of a handler's step that does not touch the seed.
LEMMA LocalsKept ==
    ASSUME Locals, NEW w \in Workers,
           \A v \in Workers \ {w} : Untouched(v),
           wpc' \in [Workers -> WPCs], req' \in [Workers -> Bodies \cup {NoArray}],
           wi' \in [Workers -> Nat], wk' \in [Workers -> 1..4],
           reply' \in [Workers -> {"none", "returned", "rejected", "success"}],
           requests' \in 0..MaxRequests, seed' = seed,
           Bounds(w)'
    PROVE  Locals'
  <1>1. \A v \in Workers : Bounds(v)'
    BY BoundsKept DEF Locals
  <1>2. HandlersTypeOK'
    BY DEF Locals, HandlersTypeOK
  <1>3. QED
    BY <1>1, <1>2 DEF Locals

LEMMA TypedInit == Init => Typed
  <1> SUFFICES ASSUME Init PROVE Typed
    OBVIOUS
  <1>1. StoreTypeOK
    <2>1. PICK keys \in StoredKeys :
             db = [file \in Files |-> [key \in Keys |->
                     IF file # ApiFile THEN Missing
                     ELSE IF key = JsonKey THEN StoredJson ELSE keys[key]]]
      BY DEF Init
    <2>2. /\ DOMAIN db = Files /\ \A file \in Files : DOMAIN db[file] = Keys
          /\ \A file \in Files : db[file][JsonKey] \in {StoredJson, Missing}
      BY <2>1 DEF Keys
    <2>3. ASSUME NEW file \in Files, NEW r \in Roles, NEW f \in Fields
          PROVE  db[file][<<r, f>>] \in FieldTexts[f] \cup {Empty, Missing}
      <3>1. <<r, f>> \in LegacyKeys /\ <<r, f>> \in Keys /\ <<r, f>> # JsonKey
        BY KeysDiffer DEF LegacyKeys, Keys
      <3>2. db[file][<<r, f>>] \in {Missing, keys[<<r, f>>]}
        BY <2>1, <3>1
      <3>3. QED
        BY <3>2, ApiConfigAssumption
    <2>4. QED
      BY <2>2, <2>3 DEF StoreTypeOK
  <1>2. \A w \in Workers : seed[w] = NoSeed
    BY DEF Init
  <1>3. /\ DOMAIN seed = Workers
        /\ \A w \in Workers : DOMAIN seed[w] = Roles /\ \A r \in Roles : DOMAIN seed[w][r] = Fields
        /\ \A w \in Workers, r \in Roles, f \in Fields : seed[w][r][f] \in ElementTexts(f)
    BY <1>2 DEF Init, NoSeed, NoAddress, ElementTexts
  <1>4. \A w \in Workers : Bounds(w)
    BY DEF Init, Bounds, Storing
  <1>5. HandlersTypeOK
    BY <1>3 DEF Init, HandlersTypeOK, WPCs
  <1>6. QED
    BY <1>1, <1>3, <1>4, <1>5 DEF Typed, Locals

\* The next element that is saved, or the end.
LEMMA ToElementOK ==
    ASSUME Locals, NEW w \in Workers, Storing(w), NEW i \in 1..(Len(req[w]) + 1),
           ToElement(w, NextRole(req[w], i)), req' = req, seed' = seed, requests' = requests
    PROVE  Locals'
  <1>1. /\ IsArray(req[w]) /\ Valid(req[w]) /\ Len(req[w]) \in Nat
        /\ DOMAIN req[w] = 1..Len(req[w])
    BY ArrayIs DEF Locals, Bounds
  <1> DEFINE n == NextRole(req[w], i)
  <1>2. n \in i..(Len(req[w]) + 1) /\ (n <= Len(req[w]) => req[w][n].id \in Roles)
    BY <1>1, NextRoleIs
  <1> HIDE DEF n
  <1>3. /\ wi' = [wi EXCEPT ![w] = n] /\ wk' = [wk EXCEPT ![w] = 1] /\ reply' = reply
        /\ wpc' = [wpc EXCEPT ![w] = IF n > Len(req[w]) THEN "launch" ELSE "legacy"]
    BY DEF ToElement, Goto, n
  <1>4. n \in Nat
    BY <1>1, <1>2
  <1>5. Bounds(w)'
    <2>1. /\ wi'[w] = n /\ wk'[w] = 1 /\ req'[w] = req[w]
          /\ wpc'[w] = IF n > Len(req[w]) THEN "launch" ELSE "legacy"
      BY <1>3 DEF Locals, HandlersTypeOK
    <2>2. n <= Len(req[w]) => n \in 1..Len(req[w]) /\ 1 \in 1..LastField(req[w][n].id)
      BY <1>1, <1>2, <1>4, Numbered
    <2>3. QED
      BY <1>1, <1>2, <1>4, <2>1, <2>2 DEF Bounds, Storing
  <1>6. \A v \in Workers \ {w} : Untouched(v)
    BY <1>3 DEF Untouched, Locals, HandlersTypeOK
  <1>7. /\ wpc' \in [Workers -> WPCs] /\ wi' \in [Workers -> Nat] /\ wk' \in [Workers -> 1..4]
    BY <1>3, <1>4 DEF Locals, HandlersTypeOK, WPCs
  <1>8. QED
    BY <1>3, <1>5, <1>6, <1>7, LocalsKept DEF Locals, HandlersTypeOK

\* GET reads one legacy key into its locals.
LEMMA ReadLegacyTyped ==
    ASSUME Typed, NEW w \in Workers, ReadLegacy(w)
    PROVE  Typed'
  <1> DEFINE r == RoleSeq[wi[w]]
             f == FieldSeq[wk[w]]
  <1>1. /\ wpc[w] = "seed" /\ wi[w] \in 1..3 /\ wk[w] \in 1..LastField(r)
        /\ r \in Roles /\ wk[w] \in 1..4 /\ f \in Fields
    BY Numbered DEF ReadLegacy, Typed, Locals, Bounds, HandlersTypeOK
  <1>2. PICK v \in GetConfig(ApiFile, <<r, f>>) :
              seed' = [seed EXCEPT ![w][r][f] = ValueOr(v, Default(f))]
    BY DEF ReadLegacy
  <1>3. ValueOr(v, Default(f)) \in ElementTexts(f)
    <2>1. v \in FieldTexts[f] \cup {Empty, Missing}
      BY <1>1 DEF GetConfig, Typed, StoreTypeOK
    <2>2. Default(f) \in ElementTexts(f)
      BY <1>1 DEF Default, ElementTexts, FieldTexts, Fields
    <2>3. QED
      BY <2>1, <2>2 DEF ValueOr, ElementTexts
  <1> HIDE DEF r, f
  <1>4. /\ DOMAIN seed' = Workers
        /\ \A v1 \in Workers : DOMAIN seed'[v1] = Roles /\ \A r1 \in Roles : DOMAIN seed'[v1][r1] = Fields
        /\ \A v1 \in Workers, r1 \in Roles, f1 \in Fields : seed'[v1][r1][f1] \in ElementTexts(f1)
    <2>1. \A v1 \in Workers, r1 \in Roles, f1 \in Fields :
             seed'[v1][r1][f1] = IF v1 = w /\ r1 = r /\ f1 = f THEN ValueOr(v, Default(f))
                                                               ELSE seed[v1][r1][f1]
      BY <1>1, <1>2 DEF Typed, Locals
    <2>2. \A v1 \in Workers, r1 \in Roles, f1 \in Fields : seed[v1][r1][f1] \in ElementTexts(f1)
      BY DEF Typed, Locals, HandlersTypeOK
    <2>3. \A v1 \in Workers, r1 \in Roles, f1 \in Fields : seed'[v1][r1][f1] \in ElementTexts(f1)
      BY <1>3, <2>1, <2>2
    <2>4. QED
      BY <1>1, <1>2, <2>3 DEF Typed, Locals
  <1>5. /\ wpc' \in [Workers -> WPCs] /\ wi' \in [Workers -> Nat] /\ wk' \in [Workers -> 1..4]
        /\ req' = req /\ reply' = reply /\ requests' = requests /\ db' = db
        /\ \A v1 \in Workers \ {w} : Untouched(v1)
    <2>1. wk[w] < LastField(r) => wk[w] + 1 \in 1..4
      BY <1>1, Numbered
    <2>2. \/ wk' = [wk EXCEPT ![w] = @ + 1] /\ wk[w] < LastField(r) /\ UNCHANGED <<wi, wpc>>
          \/ /\ wk' = [wk EXCEPT ![w] = 1]
             /\ wi' = [wi EXCEPT ![w] = @ + 1] \/ wi' = [wi EXCEPT ![w] = 1]
             /\ wpc' = wpc \/ wpc' = [wpc EXCEPT ![w] = "seedSave"]
      BY DEF ReadLegacy, r
    <2>3. wpc \in [Workers -> WPCs] /\ wi \in [Workers -> Nat] /\ wk \in [Workers -> 1..4]
      BY DEF Typed, Locals, HandlersTypeOK
    <2>4. wpc' \in [Workers -> WPCs] /\ wi' \in [Workers -> Nat] /\ wk' \in [Workers -> 1..4]
      <3>1. wpc' \in [Workers -> WPCs]
        BY <2>2, <2>3 DEF WPCs
      <3>2. \A n \in Nat : [wi EXCEPT ![w] = n] \in [Workers -> Nat]
        BY <2>3
      <3>3. \A n \in 1..4 : [wk EXCEPT ![w] = n] \in [Workers -> 1..4]
        BY <2>3
      <3>4. wi' = wi \/ \E n \in Nat : wi' = [wi EXCEPT ![w] = n]
        BY <1>1, <2>2
      <3>5. \E n \in 1..4 : wk' = [wk EXCEPT ![w] = n]
        BY <2>1, <2>2
      <3>6. QED
        BY <2>3, <3>1, <3>2, <3>3, <3>4, <3>5
    <2>5. req' = req /\ reply' = reply /\ requests' = requests /\ db' = db
      BY DEF ReadLegacy
    <2>6. QED
      BY <2>2, <2>3, <2>4, <2>5 DEF Untouched
  <1>6. Bounds(w)'
    <2>1. /\ req'[w] = req[w]
          /\ \/ wpc'[w] = "seed" /\ wi'[w] = wi[w] /\ wk'[w] = wk[w] + 1 /\ wk[w] < LastField(r)
             \/ wpc'[w] = "seed" /\ wi'[w] = wi[w] + 1 /\ wk'[w] = 1 /\ wi[w] < 3
             \/ wpc'[w] = "seedSave"
      BY <1>1 DEF ReadLegacy, Typed, Locals, HandlersTypeOK, r, f
    <2>2. \A n \in 1..3 : 1 \in 1..LastField(RoleSeq[n]) /\ LastField(RoleSeq[n]) \in 3..4
      BY Numbered
    <2>3. QED
      BY <1>1, <2>1, <2>2 DEF Bounds, Storing, r
  <1>7. \A v1 \in Workers : Bounds(v1)'
    BY <1>5, <1>6, BoundsKept DEF Typed, Locals
  <1>8. HandlersTypeOK'
    BY <1>4, <1>5 DEF HandlersTypeOK, Typed, Locals
  <1>9. QED
    BY <1>4, <1>5, <1>7, <1>8 DEF Typed, Locals, StoreTypeOK

\* The seed a GET stores is an array of three typed elements.
LEMMA SeedTyped ==
    ASSUME Locals, NEW w \in Workers
    PROVE  /\ ToJson(Detected(seed[w])) \in Seq(Items)
           /\ \A r \in Roles, n \in 1..3 : RoleSeq[n] = r =>
                 Detected(seed[w])[r]["interface"] =
                    IF seed[w][r]["interface"] = Empty /\ Len(SysIfaces) >= n
                    THEN SysIfaces[n] ELSE seed[w][r]["interface"]
  <1> DEFINE Num(r) == CHOOSE i \in 1..3 : RoleSeq[i] = r
             rec(r) == IF seed[w][r]["interface"] = Empty /\ Len(SysIfaces) >= Num(r)
                       THEN [seed[w][r] EXCEPT !["interface"] = SysIfaces[Num(r)]] ELSE seed[w][r]
  <1>1. \A r \in Roles, n \in 1..3 : RoleSeq[n] = r => Num(r) = n
    BY DEF RoleSeq, Roles
  <1>2. \A r \in Roles : Num(r) \in 1..3
    BY DEF RoleSeq, Roles
  <1>3. Detected(seed[w]) = [r \in Roles |-> rec(r)]
    BY DEF Detected
  <1> HIDE DEF Num
  <1>4. \A r \in Roles : Len(SysIfaces) >= Num(r) => SysIfaces[Num(r)] \in Devices
    BY <1>2
  <1>5. \A r \in Roles, f \in Fields : seed[w][r][f] \in ElementTexts(f)
    BY DEF Locals, HandlersTypeOK
  <1>6. \A r \in Roles :
           /\ rec(r)["interface"] = IF seed[w][r]["interface"] = Empty /\ Len(SysIfaces) >= Num(r)
                                    THEN SysIfaces[Num(r)] ELSE seed[w][r]["interface"]
           /\ rec(r)["ip"] = seed[w][r]["ip"] /\ rec(r)["netmask"] = seed[w][r]["netmask"]
           /\ rec(r)["gateway"] = seed[w][r]["gateway"]
    BY DEF Locals, Fields
  <1>7. \A r \in Roles : Item(r, rec(r)) \in Items
    <2>1. ASSUME NEW r \in Roles
          PROVE  /\ rec(r)["interface"] \in Devices \cup {Empty} /\ rec(r)["ip"] \in Ips \cup {Empty}
                 /\ rec(r)["netmask"] \in Netmasks \cup {Empty}
                 /\ rec(r)["gateway"] \in Gateways \cup {Empty}
      BY <1>4, <1>5, <1>6 DEF ElementTexts, FieldTexts, Fields
    <2>2. QED
      BY <2>1, TypedItem DEF Item
  <1> HIDE DEF rec
  <1>8. ToJson(Detected(seed[w])) = <<Item("WAN", rec("WAN")), Item("LAN", rec("LAN")), Item("MGMT", rec("MGMT"))>>
    BY <1>3 DEF ToJson, Roles
  <1>9. ToJson(Detected(seed[w])) \in Seq(Items)
    BY <1>7, <1>8 DEF Roles
  <1>10. QED
    BY <1>1, <1>3, <1>6, <1>9

\* set_config on a legacy key of the element that is being saved.
LEMMA SaveLegacyKey ==
    ASSUME Typed, NEW w \in Workers, SaveLegacy(w)
    PROVE  LET item == req[w][wi[w]]  f == FieldSeq[wk[w]]
           IN  /\ item.id \in Roles /\ f \in Fields /\ <<item.id, f>> \in Keys /\ Storing(w)
               /\ wk[w] \in 1..LastField(item.id) /\ wi[w] \in 1..Len(req[w])
               /\ item[f] \in FieldTexts[f] \cup {Empty}
               /\ SetConfig(ApiFile, <<item.id, f>>, item[f])
  <1>1. /\ IsArray(req[w]) /\ Valid(req[w]) /\ wi[w] \in 1..Len(req[w]) /\ Storing(w)
        /\ req[w][wi[w]].id \in Roles /\ wk[w] \in 1..LastField(req[w][wi[w]].id) /\ wk[w] \in 1..4
    BY DEF SaveLegacy, Typed, Locals, Bounds, Storing, HandlersTypeOK
  <1>2. FieldSeq[wk[w]] \in Fields
    BY <1>1, Numbered
  <1>3. req[w][wi[w]] \in Items
    BY <1>1, ValidBody, ArrayIs
  <1>4. \A item \in Items, f \in Fields : item[f] \in FieldTexts[f] \cup {Empty}
    BY DEF Items, Fields, FieldTexts
  <1>5. QED
    BY <1>1, <1>2, <1>3, <1>4, KeysDiffer DEF SaveLegacy, Keys

LEMMA TypedNext == Typed /\ [Next]_vars => Typed'
  <1> SUFFICES ASSUME Typed, [Next]_vars PROVE Typed'
    OBVIOUS
  <1> USE DEF Typed
  <1>1. /\ wpc \in [Workers -> WPCs] /\ wi \in [Workers -> Nat] /\ wk \in [Workers -> 1..4]
        /\ req \in [Workers -> Bodies \cup {NoArray}] /\ requests \in 0..MaxRequests
        /\ reply \in [Workers -> {"none", "returned", "rejected", "success"}]
    BY DEF Locals, HandlersTypeOK
  <1>2. UNCHANGED db => StoreTypeOK'
    BY DEF StoreTypeOK
  <1>3. ASSUME NEW w \in Workers, GetConfigRequest(w) PROVE Typed'
    <2>1. /\ wpc' \in [Workers -> WPCs] /\ wi' \in [Workers -> Nat] /\ wk' \in [Workers -> 1..4]
          /\ req' = req /\ requests' \in 0..MaxRequests /\ UNCHANGED db
          /\ reply' \in [Workers -> {"none", "returned", "rejected", "success"}]
      BY <1>1, <1>3 DEF GetConfigRequest, WPCs
    <2>2. \A v \in Workers : Bounds(v)'
      <3>1. \A v \in Workers \ {w} : Untouched(v)
        BY <1>1, <1>3 DEF GetConfigRequest, Untouched
      <3>2. wpc'[w] = "get" /\ wi'[w] = 1 /\ wk'[w] = 1
        BY <1>1, <1>3 DEF GetConfigRequest
      <3>3. Bounds(w)'
        BY <3>2 DEF Bounds, Storing
      <3>4. QED
        BY <3>1, <3>3, BoundsKept DEF Locals
    <2>3. /\ DOMAIN seed' = Workers
          /\ \A v \in Workers : seed'[v] \in {seed[v], NoSeed}
      BY <1>3 DEF GetConfigRequest, Locals
    <2>4. /\ \A v \in Workers : DOMAIN seed'[v] = Roles /\ \A r \in Roles : DOMAIN seed'[v][r] = Fields
          /\ \A v \in Workers, r \in Roles, f \in Fields : seed'[v][r][f] \in ElementTexts(f)
      <3>1. ASSUME NEW v \in Workers
            PROVE  /\ DOMAIN seed'[v] = Roles /\ \A r \in Roles : DOMAIN seed'[v][r] = Fields
                   /\ \A r \in Roles, f \in Fields : seed'[v][r][f] \in ElementTexts(f)
        <4>1. CASE seed'[v] = seed[v]
          BY <4>1 DEF Locals, HandlersTypeOK
        <4>2. CASE seed'[v] = NoSeed
          BY <4>2 DEF NoSeed, NoAddress, ElementTexts
        <4>3. QED
          BY <2>3, <4>1, <4>2
      <3>2. QED
        BY <3>1
    <2>5. QED
      BY <1>2, <2>1, <2>2, <2>3, <2>4 DEF Locals, HandlersTypeOK
  <1>4. ASSUME NEW w \in Workers, PostConfigRequest(w) PROVE Typed'
    <2>1. /\ wpc' \in [Workers -> WPCs] /\ wi' \in [Workers -> Nat] /\ wk' \in [Workers -> 1..4]
          /\ req' \in [Workers -> Bodies \cup {NoArray}] /\ requests' \in 0..MaxRequests
          /\ UNCHANGED <<db, seed>>
          /\ reply' \in [Workers -> {"none", "returned", "rejected", "success"}]
      BY <1>1, <1>4 DEF PostConfigRequest, WPCs
    <2>2. \A v \in Workers \ {w} : Untouched(v)
      BY <1>1, <1>4 DEF PostConfigRequest, Untouched
    <2>3. wpc'[w] = "post"
      BY <1>1, <1>4 DEF PostConfigRequest
    <2>4. Bounds(w)'
      BY <2>3 DEF Bounds, Storing
    <2>5. QED
      BY <1>2, <2>1, <2>2, <2>4, LocalsKept
  <1>5. ASSUME NEW w \in Workers, ReadStored(w) PROVE Typed'
    <2>1. /\ wpc[w] = "get" /\ UNCHANGED <<db, req, wi, wk, seed, requests>>
          /\ \/ wpc' = [wpc EXCEPT ![w] = "seed"] /\ reply' = reply
             \/ wpc' = [wpc EXCEPT ![w] = "idle"] /\ reply' = [reply EXCEPT ![w] = "returned"]
      BY <1>5 DEF ReadStored, Goto, Answer
    <2>2. Bounds(w)'
      <3>1. wi[w] = 1 /\ wk[w] = 1
        BY <2>1 DEF Locals, Bounds
      <3>2. 1 \in 1..3 /\ 1 \in 1..LastField(RoleSeq[1])
        BY Numbered
      <3>3. wpc'[w] \in {"seed", "idle"} /\ wi'[w] = 1 /\ wk'[w] = 1
        BY <1>1, <2>1, <3>1
      <3>4. QED
        BY <3>2, <3>3 DEF Bounds, Storing
    <2>3. \A v \in Workers \ {w} : Untouched(v)
      BY <1>1, <2>1 DEF Untouched
    <2>4. /\ wpc' \in [Workers -> WPCs]
          /\ reply' \in [Workers -> {"none", "returned", "rejected", "success"}]
      BY <1>1, <2>1 DEF WPCs
    <2>5. QED
      BY <1>1, <1>2, <2>1, <2>2, <2>3, <2>4, LocalsKept
  <1>6. ASSUME NEW w \in Workers, ReadLegacy(w) PROVE Typed'
    BY <1>6, ReadLegacyTyped
  <1>7. ASSUME NEW w \in Workers, SaveSeed(w) PROVE Typed'
    <2>1. StoreTypeOK'
      BY <1>7, StoreTyped, SeedTyped, KeysDiffer DEF SaveSeed, Keys
    <2>2. /\ UNCHANGED <<req, wi, wk, seed, requests>>
          /\ wpc' = [wpc EXCEPT ![w] = "idle"] /\ reply' = [reply EXCEPT ![w] = "returned"]
      BY <1>7 DEF SaveSeed, Answer
    <2>3. Bounds(w)' /\ \A v \in Workers \ {w} : Untouched(v)
      BY <1>1, <2>2 DEF Untouched, Bounds, Storing
    <2>4. QED
      BY <1>1, <2>1, <2>2, <2>3, LocalsKept DEF WPCs
  <1>8. ASSUME NEW w \in Workers, Validate(w) PROVE Typed'
    <2>1. /\ UNCHANGED <<db, req, wi, wk, seed, requests>>
          /\ \/ /\ req[w] # NoArray /\ Valid(req[w])
                /\ wpc' = [wpc EXCEPT ![w] = "save"] /\ reply' = reply
             \/ /\ wpc' = [wpc EXCEPT ![w] = "idle"]
                /\ reply' \in {[reply EXCEPT ![w] = "success"], [reply EXCEPT ![w] = "rejected"]}
      BY <1>8 DEF Validate, Goto, Answer
    <2>2. req[w] # NoArray => IsArray(req[w])
      BY <1>1
    <2>3. \/ wpc'[w] = "save" /\ req'[w] = req[w] /\ Valid(req[w]) /\ IsArray(req[w])
          \/ wpc'[w] = "idle"
      BY <1>1, <2>1, <2>2
    <2>4. Bounds(w)'
      BY <2>3 DEF Bounds, Storing
    <2>5. \A v \in Workers \ {w} : Untouched(v)
      BY <1>1, <2>1 DEF Untouched
    <2>6. /\ wpc' \in [Workers -> WPCs]
          /\ reply' \in [Workers -> {"none", "returned", "rejected", "success"}]
      BY <1>1, <2>1 DEF WPCs
    <2>7. StoreTypeOK' /\ UNCHANGED <<req, wi, wk, seed, requests>>
      BY <1>2, <2>1
    <2>8. Locals'
      BY <1>1, <2>4, <2>5, <2>6, <2>7, LocalsKept
    <2>9. QED
      BY <2>7, <2>8
  <1>9. ASSUME NEW w \in Workers, SaveJson(w) PROVE Typed'
    <2>1. Storing(w) /\ IsArray(req[w]) /\ Valid(req[w])
      BY <1>9 DEF SaveJson, Storing, Locals, Bounds
    <2>2. StoreTypeOK'
      BY <1>9, <2>1, ValidBody, StoreTyped, KeysDiffer DEF SaveJson, Keys
    <2>3. 1 \in 1..(Len(req[w]) + 1)
      BY <2>1, ArrayIs
    <2>4. QED
      BY <1>9, <2>1, <2>2, <2>3, ToElementOK DEF SaveJson
  <1>10. ASSUME NEW w \in Workers, SaveLegacy(w) PROVE Typed'
    <2>1. Storing(w) /\ wi[w] \in 1..Len(req[w]) /\ wk[w] \in 1..LastField(req[w][wi[w]].id)
      BY <1>10, SaveLegacyKey
    <2>2. StoreTypeOK'
      <3> DEFINE id == req[w][wi[w]].id
                 f == FieldSeq[wk[w]]
                 text == req[w][wi[w]][f]
      <3>1. /\ id \in Roles /\ f \in Fields /\ <<id, f>> \in Keys /\ <<id, f>> # JsonKey
            /\ text \in FieldTexts[f] \cup {Empty} /\ SetConfig(ApiFile, <<id, f>>, text)
        BY <1>10, SaveLegacyKey, KeysDiffer
      <3> HIDE DEF id, f, text
      <3>2. \A q \in Roles, g \in Fields : <<id, f>> = <<q, g>> => text \in FieldTexts[g] \cup {Empty}
        BY <3>1
      <3>3. QED
        BY <3>1, <3>2, StoreTyped
    <2>3. CASE wk[w] < LastField(req[w][wi[w]].id)
      <3>1. wk' = [wk EXCEPT ![w] = @ + 1] /\ UNCHANGED <<wi, wpc, reply, req, seed, requests>>
        BY <1>10, <2>3 DEF SaveLegacy
      <3>2. wk[w] + 1 \in 1..LastField(req[w][wi[w]].id) /\ wk[w] + 1 \in 1..4
        <4>1. LastField(req[w][wi[w]].id) \in 3..4
          BY <1>10, Numbered, SaveLegacyKey
        <4>2. QED
          BY <2>1, <2>3, <4>1
      <3>3. wk' \in [Workers -> 1..4] /\ wk'[w] = wk[w] + 1
        BY <1>1, <3>1, <3>2
      <3>4. Bounds(w)'
        BY <3>1, <3>2, <3>3, <2>1 DEF Bounds, Storing, Locals
      <3>5. \A v \in Workers \ {w} : Untouched(v)
        BY <1>1, <3>1 DEF Untouched
      <3>6. QED
        BY <1>1, <2>2, <3>1, <3>3, <3>4, <3>5, LocalsKept
    <2>4. CASE ~(wk[w] < LastField(req[w][wi[w]].id))
      <3>1. ToElement(w, NextRole(req[w], wi[w] + 1)) /\ UNCHANGED <<req, seed, requests>>
        BY <1>10, <2>4 DEF SaveLegacy
      <3>2. wi[w] + 1 \in 1..(Len(req[w]) + 1)
        BY <2>1, ArrayIs DEF Locals, Bounds
      <3>3. QED
        BY <2>1, <2>2, <3>1, <3>2, ToElementOK
    <2>5. QED
      BY <2>3, <2>4
  <1>11. ASSUME NEW w \in Workers, LaunchSync(w) PROVE Typed'
    <2>1. /\ UNCHANGED <<db, req, wi, wk, seed, requests>>
          /\ wpc' = [wpc EXCEPT ![w] = "idle"] /\ reply' = [reply EXCEPT ![w] = "success"]
      BY <1>11 DEF LaunchSync, Answer
    <2>2. Bounds(w)' /\ \A v \in Workers \ {w} : Untouched(v)
      BY <1>1, <2>1 DEF Untouched, Bounds, Storing
    <2>3. QED
      BY <1>1, <1>2, <2>1, <2>2, LocalsKept DEF WPCs
  <1>12. ASSUME UNCHANGED <<db, wpc, req, wi, wk, seed, reply, requests>> PROVE Typed'
    BY <1>12 DEF StoreTypeOK, Locals, HandlersTypeOK, Bounds, Storing
  <1>13. QED
    BY <1>3, <1>4, <1>5, <1>6, <1>7, <1>8, <1>9, <1>10, <1>11, <1>12
    DEF Next, Request, Handle, SyncEnds, vars

\* The texts in the store and the locals of every handler keep their types, for any
\* number of threads, with store accesses that fail.
THEOREM TypeCorrect == Spec => [](StoreTypeOK /\ HandlersTypeOK)
  <1>1. Typed => StoreTypeOK /\ HandlersTypeOK
    BY DEF Typed, Locals
  <1>2. QED
    BY <1>1, TypedInit, TypedNext, PTL DEF Spec
--------------------------------------------------------------------------------
\* GET fills the array in only once: there is an array on disk when the daemon
\* starts, or one thread alone finds none and the store does what it is told.  (With
\* two threads the run seed_race shows GET overwriting a POST; a write that fails
\* leaves keys without an array.)
OneThread == \A v, w \in Workers : v = w
SeedSafe ==
    /\ "read" \notin StoreFaults
    /\ ~NoConfig(StoredJson) \/ (StoreFaults = {} /\ OneThread)

\* While there is no array one thread is alone with the store, and a handler that is
\* rebuilding the array has seen that there is none.
Alone == NoConfig(Stored) => StoreFaults = {} /\ OneThread
Rebuilds(w) ==
    /\ wpc[w] \in {"seed", "seedSave"} => NoConfig(Stored)
    /\ wpc[w] \in {"legacy", "launch"} => ~NoConfig(Stored)
SeedInv == Alone /\ \A w \in Workers : Rebuilds(w)

LEMMA RebuildsKept ==
    ASSUME NEW v \in Workers, Rebuilds(v), wpc'[v] = wpc[v], NoConfig(Stored)' <=> NoConfig(Stored)
    PROVE  Rebuilds(v)'
  BY DEF Rebuilds

\* What a step does to the stored array: only three steps of a handler write the
\* database, and only two of them the array.
LEMMA StoredSteps ==
    ASSUME Typed
    PROVE  /\ \A w \in Workers : SaveJson(w) =>
                 /\ Stored' = req[w] \/ ("write" \in StoreFaults /\ Stored' = Stored)
                 /\ \A key \in LegacyKeys : db'[ApiFile][key] = db[ApiFile][key]
           /\ \A w \in Workers : SaveSeed(w) =>
                 \/ Stored' = ToJson(Detected(seed[w]))
                 \/ "write" \in StoreFaults /\ Stored' = Stored
           /\ \A w \in Workers : SaveLegacy(w) => Stored' = Stored
  <1>1. Placed /\ ApiFile \in Files /\ JsonKey \in Keys /\ LegacyKeys \subseteq Keys
    BY DEF Typed, StoreTypeOK, Placed, Keys
  <1>2. ASSUME NEW w \in Workers, SaveJson(w)
        PROVE  /\ Stored' = req[w] \/ ("write" \in StoreFaults /\ Stored' = Stored)
               /\ \A key \in LegacyKeys : db'[ApiFile][key] = db[ApiFile][key]
    <2>1. SetConfig(ApiFile, JsonKey, req[w])
      BY <1>2 DEF SaveJson
    <2>2. QED
      BY <1>1, <2>1, SetOne, KeysDiffer DEF Stored
  <1>3. ASSUME NEW w \in Workers, SaveSeed(w)
        PROVE  \/ Stored' = ToJson(Detected(seed[w]))
               \/ "write" \in StoreFaults /\ Stored' = Stored
    <2>1. SetConfig(ApiFile, JsonKey, ToJson(Detected(seed[w])))
      BY <1>3 DEF SaveSeed
    <2>2. QED
      BY <1>1, <2>1, SetOne DEF Stored
  <1>4. ASSUME NEW w \in Workers, SaveLegacy(w)
        PROVE  Stored' = Stored
    <2> DEFINE key == <<req[w][wi[w]].id, FieldSeq[wk[w]]>>
               text == req[w][wi[w]][FieldSeq[wk[w]]]
    <2>1. key \in Keys /\ key # JsonKey /\ SetConfig(ApiFile, key, text)
      BY <1>4, SaveLegacyKey, KeysDiffer
    <2> HIDE DEF key, text
    <2>2. QED
      BY <1>1, <2>1, SetOne DEF Stored
  <1>5. QED
    BY <1>2, <1>3, <1>4

\* An array is there after SaveJson, if no write fails while there is none.
LEMMA SavedIsArray ==
    ASSUME Typed, SeedInv, NEW w \in Workers, SaveJson(w)
    PROVE  /\ ~NoConfig(Stored')
           /\ JsonDistinct(Stored) => JsonDistinct(Stored')
  <1>1. req[w] \in Seq(Items) /\ JsonDistinct(req[w])
    BY ValidBody DEF SaveJson, Storing, Typed, Locals, Bounds
  <1>2. Stored' = req[w] \/ ("write" \in StoreFaults /\ Stored' = Stored)
    BY StoredSteps
  <1>3. ~NoConfig(req[w])
    BY <1>1 DEF NoConfig
  <1>4. NoConfig(Stored) => StoreFaults = {}
    BY DEF SeedInv, Alone
  <1>5. QED
    BY <1>1, <1>2, <1>3, <1>4

LEMMA StoredInit == Init => Stored = StoredJson
  BY DEF Init, Stored, Keys

LEMMA SeedInit == SeedSafe /\ Init => SeedInv
  BY StoredInit DEF Init, SeedInv, Alone, SeedSafe, Rebuilds

LEMMA SeedNext == SeedSafe /\ Typed /\ SeedInv /\ [Next]_vars => SeedInv'
  <1> SUFFICES ASSUME SeedSafe, Typed, SeedInv, [Next]_vars PROVE SeedInv'
    OBVIOUS
  <1>1. /\ wpc \in [Workers -> WPCs]
        /\ Stored \in Seq(Items) \cup {Empty, Missing}
    BY DEF Typed, Locals, HandlersTypeOK, StoreTypeOK, Stored
  <1>2. \A w \in Workers : Rebuilds(w)
    BY DEF SeedInv
  <1>3. ASSUME UNCHANGED db, \A w \in Workers : Rebuilds(w)' PROVE SeedInv'
    BY <1>3 DEF SeedInv, Stored, Alone
  <1>4. ASSUME NEW w \in Workers, UNCHANGED db, Rebuilds(w)',
               \A v \in Workers \ {w} : wpc'[v] = wpc[v]
        PROVE  SeedInv'
    <2>1. \A v \in Workers \ {w} : Rebuilds(v)'
      BY <1>2, <1>4, RebuildsKept DEF Stored
    <2>2. QED
      BY <1>3, <1>4, <2>1
  <1>5. ASSUME NEW w \in Workers,
               \/ GetConfigRequest(w) \/ PostConfigRequest(w) \/ Validate(w) \/ LaunchSync(w)
        PROVE  SeedInv'
    <2>1. /\ UNCHANGED db /\ \A v \in Workers \ {w} : wpc'[v] = wpc[v]
          /\ wpc'[w] \in {"get", "post", "save", "idle"}
      BY <1>1, <1>5
      DEF GetConfigRequest, PostConfigRequest, Validate, LaunchSync, Goto, Answer
    <2>2. QED
      BY <1>4, <2>1 DEF Rebuilds
  <1>6. ASSUME NEW w \in Workers, ReadStored(w) PROVE SeedInv'
    <2>1. /\ wpc[w] = "get" /\ UNCHANGED db
          /\ \/ wpc' = [wpc EXCEPT ![w] = "seed"] /\ NoConfig(Stored)
             \/ wpc' = [wpc EXCEPT ![w] = "idle"]
      BY <1>6 DEF ReadStored, Goto, Answer, GetConfig, SeedSafe, Stored
    <2>2. wpc'[w] = "idle" \/ (wpc'[w] = "seed" /\ NoConfig(Stored))
      BY <1>1, <2>1
    <2>3. Rebuilds(w)'
      BY <2>1, <2>2 DEF Rebuilds, Stored
    <2>4. QED
      BY <1>1, <1>4, <2>1, <2>3
  <1>7. ASSUME NEW w \in Workers, ReadLegacy(w) PROVE SeedInv'
    <2>1. /\ wpc[w] = "seed" /\ NoConfig(Stored) /\ UNCHANGED db
          /\ wpc' = wpc \/ wpc' = [wpc EXCEPT ![w] = "seedSave"]
      BY <1>2, <1>7 DEF ReadLegacy, Rebuilds
    <2>2. Rebuilds(w)' /\ \A v \in Workers \ {w} : wpc'[v] = wpc[v]
      BY <1>1, <2>1 DEF Rebuilds, Stored
    <2>3. QED
      BY <1>4, <2>1, <2>2
  <1>8. ASSUME NEW w \in Workers, SaveSeed(w) PROVE SeedInv'
    <2>1. /\ wpc[w] = "seedSave" /\ wpc' = [wpc EXCEPT ![w] = "idle"]
          /\ NoConfig(Stored) /\ StoreFaults = {} /\ OneThread
      BY <1>2, <1>8 DEF SaveSeed, Answer, Rebuilds, SeedInv, Alone
    <2>2. \A v \in Workers : wpc'[v] = "idle"
      BY <1>1, <2>1 DEF OneThread
    <2>3. QED
      BY <2>1, <2>2 DEF SeedInv, Alone, Rebuilds
  <1>9. ASSUME NEW w \in Workers, SaveJson(w) PROVE SeedInv'
    <2>1. ~NoConfig(Stored')
      BY <1>9, SavedIsArray
    <2>2. /\ wpc'[w] \in {"launch", "legacy"}
          /\ \A v \in Workers \ {w} : wpc'[v] = wpc[v]
      BY <1>1, <1>9 DEF SaveJson, ToElement, Goto
    <2>3. ASSUME NEW v \in Workers PROVE Rebuilds(v)'
      <3>1. CASE v = w
        BY <2>1, <2>2, <3>1 DEF Rebuilds
      <3>2. CASE v # w
        <4>1. ~NoConfig(Stored)
          BY <3>2 DEF SeedInv, Alone, OneThread
        <4>2. QED
          BY <1>2, <2>1, <2>2, <3>2, <4>1, RebuildsKept
      <3>3. QED
        BY <3>1, <3>2
    <2>4. QED
      BY <2>1, <2>3 DEF SeedInv, Alone
  <1>10. ASSUME NEW w \in Workers, SaveLegacy(w) PROVE SeedInv'
    <2>1. Stored' = Stored /\ wpc[w] = "legacy" /\ ~NoConfig(Stored)
      BY <1>2, <1>10, StoredSteps DEF SaveLegacy, Rebuilds
    <2>2. /\ wpc'[w] \in {"launch", "legacy"}
          /\ \A v \in Workers \ {w} : wpc'[v] = wpc[v]
      BY <1>1, <1>10 DEF SaveLegacy, ToElement, Goto
    <2>3. \A v \in Workers : Rebuilds(v)'
      BY <1>2, <2>1, <2>2 DEF Rebuilds
    <2>4. QED
      BY <2>1, <2>3 DEF SeedInv, Alone
  <1>11. ASSUME UNCHANGED <<db, wpc>> PROVE SeedInv'
    BY <1>2, <1>3, <1>11, RebuildsKept DEF Stored
  <1>12. QED
    BY <1>5, <1>6, <1>7, <1>8, <1>9, <1>10, <1>11
    DEF Next, Request, Handle, SyncEnds, vars

\* What GET reads of keys in which nobody is in the way, it makes into an array that
\* gives no adapter twice.
LEMMA SeedDistinct ==
    ASSUME Locals, NEW w \in Workers, Apart([r \in Roles |-> seed[w][r]["interface"]])
    PROVE  JsonDistinct(ToJson(Detected(seed[w])))
  <1> DEFINE recs == Detected(seed[w])
             held(n) == seed[w][RoleSeq[n]]["interface"]
             dealt(n) == IF held(n) = Empty /\ Len(SysIfaces) >= n THEN SysIfaces[n] ELSE held(n)
  <1>1. \A n \in 1..3 : recs[RoleSeq[n]]["interface"] = dealt(n)
    BY SeedTyped, Numbered
  <1>2. \A m, n \in 1..3 : m # n => RoleSeq[m] # RoleSeq[n]
    BY DEF RoleSeq
  <1>3. /\ \A m, n \in 1..3 : m # n /\ held(m) # Empty => held(m) # held(n)
        /\ \A m, n \in 1..3 : held(n) = Empty /\ n <= Len(SysIfaces) => held(m) # SysIfaces[n]
    BY <1>2, Numbered DEF Apart
  <1> HIDE DEF recs, held
  <1>4. ASSUME NEW m \in 1..3, NEW n \in 1..3, m # n, dealt(m) \in Devices
        PROVE  dealt(m) # dealt(n)
    <2>1. Empty \notin Devices /\ Len(SysIfaces) \in Nat
      OBVIOUS
    <2>2. CASE held(m) # Empty
      BY <1>3, <1>4, <2>1, <2>2
    <2>3. CASE held(m) = Empty /\ held(n) # Empty
      BY <1>3, <1>4, <2>1, <2>3
    <2>4. CASE held(m) = Empty /\ held(n) = Empty
      BY <1>4, <2>1, <2>4
    <2>5. QED
      BY <2>2, <2>3, <2>4
  <1> DEFINE json == ToJson(recs)
  <1>5. DOMAIN json = 1..3 /\ \A n \in 1..3 : json[n].interface = dealt(n)
    BY <1>1 DEF ToJson, Item, RoleSeq
  <1> HIDE DEF json, dealt
  <1>6. JsonDistinct(json)
    BY <1>4, <1>5 DEF JsonDistinct
  <1>7. QED
    BY <1>6 DEF json, recs

\* The roles whose adapter a rebuilding handler has read, and that it has it as it
\* stands in the keys.
Read(w, n) ==
    wpc[w] = "seedSave" \/ (wpc[w] = "seed" /\ (n < wi[w] \/ (n = wi[w] /\ wk[w] > 1)))
Gathered(w) ==
    \A n \in 1..3 : Read(w, n) =>
        seed[w][RoleSeq[n]]["interface"] = LegacyOf(ApiFile)[RoleSeq[n]]["interface"]
DistinctInv ==
    /\ JsonDistinct(Stored)
    /\ NoConfig(Stored) => Unclaimed /\ \A w \in Workers : Gathered(w)

LEMMA AdapterIs ==
    \A r \in Roles : LegacyOf(ApiFile)[r]["interface"] = ValueOr(db[ApiFile][<<r, "interface">>], Empty)
  BY DEF LegacyOf, Fields

LEMMA GatheredKept ==
    ASSUME NEW v \in Workers, Gathered(v), UNCHANGED db, wpc'[v] = wpc[v], wi'[v] = wi[v],
           wk'[v] = wk[v], seed'[v] = seed[v]
    PROVE  Gathered(v)'
  <1>1. \A n \in 1..3 : Read(v, n)' <=> Read(v, n)
    BY DEF Read
  <1>2. LegacyOf(ApiFile)' = LegacyOf(ApiFile)
    BY DEF LegacyOf
  <1>3. QED
    BY <1>1, <1>2 DEF Gathered

\* One more key read: if it was an adapter, it is that role's.
LEMMA ReadGathers ==
    ASSUME Typed, "read" \notin StoreFaults, NEW w \in Workers, ReadLegacy(w), Gathered(w)
    PROVE  Gathered(w)'
  <1> DEFINE r == RoleSeq[wi[w]]
             f == FieldSeq[wk[w]]
  <1>1. /\ wpc[w] = "seed" /\ wi[w] \in 1..3 /\ wk[w] \in 1..LastField(r) /\ wk[w] \in 1..4
        /\ r \in Roles /\ f \in Fields /\ LastField(r) \in 3..4
        /\ UNCHANGED db
    BY Numbered DEF ReadLegacy, Typed, Locals, Bounds, HandlersTypeOK
  <1>2. seed' = [seed EXCEPT ![w][r][f] = ValueOr(db[ApiFile][<<r, f>>], Default(f))]
    BY DEF ReadLegacy, GetConfig
  <1>3. \/ wpc'[w] = "seed" /\ wi'[w] = wi[w] /\ wk'[w] = wk[w] + 1 /\ wk[w] < LastField(r)
        \/ wpc'[w] = "seed" /\ wi'[w] = wi[w] + 1 /\ wk'[w] = 1 /\ wk[w] > 1
        \/ wpc'[w] = "seedSave" /\ wi[w] = 3 /\ wk[w] > 1
    BY <1>1 DEF ReadLegacy, Typed, Locals, HandlersTypeOK
  <1>4. f = "interface" <=> wk[w] = 1
    BY <1>1 DEF FieldSeq
  <1> DEFINE held(n) == seed[w][RoleSeq[n]]["interface"]
             new(n) == seed'[w][RoleSeq[n]]["interface"]
             key(n) == LegacyOf(ApiFile)[RoleSeq[n]]["interface"]
  <1>5. \A n \in 1..3 : RoleSeq[n] = r => n = wi[w]
    BY <1>1 DEF RoleSeq
  <1>6. \A n \in 1..3 : Read(w, n) => held(n) = key(n)
    BY DEF Gathered
  <1>7. key(wi[w]) = ValueOr(db[ApiFile][<<r, "interface">>], Empty)
    BY <1>1, AdapterIs
  <1> HIDE DEF r, f
  <1>8. \A n \in 1..3 : new(n) = IF RoleSeq[n] = r /\ f = "interface"
                                   THEN ValueOr(db[ApiFile][<<r, f>>], Default(f)) ELSE held(n)
    BY <1>1, <1>2, Numbered DEF Typed, Locals, Fields
  <1>9. LegacyOf(ApiFile)' = LegacyOf(ApiFile)
    BY <1>1 DEF LegacyOf
  <1>10. wk[w] = 1 => new(wi[w]) = key(wi[w])
    BY <1>1, <1>4, <1>7, <1>8 DEF Default, r
  <1>11. wk[w] # 1 => \A n \in 1..3 : new(n) = held(n)
    BY <1>4, <1>8
  <1>12. \A n \in 1..3 : n # wi[w] => new(n) = held(n)
    BY <1>5, <1>8
  <1> HIDE DEF held, new, key
  <1>13. ASSUME NEW n \in 1..3, Read(w, n)' PROVE new(n) = key(n)
    <2>1. Read(w, n) \/ (n = wi[w] /\ wk[w] = 1)
      BY <1>1, <1>3, <1>13 DEF Read
    <2>2. CASE n = wi[w] /\ wk[w] = 1
      BY <1>10, <2>2
    <2>3. CASE Read(w, n) /\ ~(n = wi[w] /\ wk[w] = 1)
      BY <1>6, <1>11, <1>12, <2>3
    <2>4. QED
      BY <2>1, <2>2, <2>3
  <1>14. QED
    BY <1>9, <1>13 DEF Gathered, new, key

LEMMA DistinctInit == Init /\ Unclaimed => DistinctInv
  BY StoredInit DEF Init, DistinctInv, Gathered, Read

LEMMA DistinctNext ==
    SeedSafe /\ Typed /\ SeedInv /\ DistinctInv /\ [Next]_vars => DistinctInv'
  <1> SUFFICES ASSUME SeedSafe, Typed, SeedInv, DistinctInv, [Next]_vars PROVE DistinctInv'
    OBVIOUS
  <1>1. /\ wpc \in [Workers -> WPCs] /\ wi \in [Workers -> Nat] /\ wk \in [Workers -> 1..4]
        /\ DOMAIN seed = Workers
    BY DEF Typed, Locals, HandlersTypeOK
  <1>2. ASSUME UNCHANGED db, NoConfig(Stored) => \A w \in Workers : Gathered(w)'
        PROVE  DistinctInv'
    BY <1>2 DEF DistinctInv, Stored, Unclaimed, LegacyOf
  <1>3. ASSUME NEW w \in Workers, UNCHANGED db, NoConfig(Stored) => Gathered(w)',
               \A v \in Workers \ {w} : wpc'[v] = wpc[v] /\ wi'[v] = wi[v] /\ wk'[v] = wk[v]
                                        /\ seed'[v] = seed[v]
        PROVE  DistinctInv'
    <2>1. NoConfig(Stored) => \A v \in Workers \ {w} : Gathered(v)'
      BY <1>3, GatheredKept DEF DistinctInv
    <2>2. QED
      BY <1>2, <1>3, <2>1
  <1>4. ASSUME NEW w \in Workers,
               GetConfigRequest(w) \/ PostConfigRequest(w) \/ Validate(w) \/ LaunchSync(w)
        PROVE  DistinctInv'
    <2>1. /\ UNCHANGED db /\ wpc'[w] \in {"get", "post", "save", "idle"}
          /\ \A v \in Workers \ {w} : wpc'[v] = wpc[v] /\ wi'[v] = wi[v] /\ wk'[v] = wk[v]
                                      /\ seed'[v] = seed[v]
      BY <1>1, <1>4
      DEF GetConfigRequest, PostConfigRequest, Validate, LaunchSync, Goto, Answer
    <2>2. Gathered(w)'
      BY <2>1 DEF Gathered, Read
    <2>3. QED
      BY <1>3, <2>1, <2>2
  <1>5. ASSUME NEW w \in Workers, ReadStored(w) PROVE DistinctInv'
    <2>1. /\ wpc[w] = "get" /\ UNCHANGED <<db, wi, wk, seed>>
          /\ \/ wpc' = [wpc EXCEPT ![w] = "seed"] \/ wpc' = [wpc EXCEPT ![w] = "idle"]
      BY <1>5 DEF ReadStored, Goto, Answer
    <2>2. wi[w] = 1 /\ wk[w] = 1 /\ wpc'[w] \in {"seed", "idle"}
      BY <1>1, <2>1 DEF Typed, Locals, Bounds
    <2>3. Gathered(w)'
      BY <2>1, <2>2 DEF Gathered, Read
    <2>4. QED
      BY <1>1, <1>3, <2>1, <2>3
  <1>6. ASSUME NEW w \in Workers, ReadLegacy(w) PROVE DistinctInv'
    <2>1. /\ UNCHANGED db
          /\ \A v \in Workers \ {w} : wpc'[v] = wpc[v] /\ wi'[v] = wi[v] /\ wk'[v] = wk[v]
                                      /\ seed'[v] = seed[v]
      BY <1>1, <1>6 DEF ReadLegacy
    <2>2. NoConfig(Stored) => Gathered(w)'
      BY <1>6, ReadGathers DEF SeedSafe, DistinctInv
    <2>3. QED
      BY <1>3, <2>1, <2>2
  <1>7. ASSUME NEW w \in Workers, SaveSeed(w) PROVE DistinctInv'
    <2>1. wpc[w] = "seedSave" /\ NoConfig(Stored) /\ StoreFaults = {}
      BY <1>7 DEF SaveSeed, SeedInv, Rebuilds, Alone
    <2>2. Stored' = ToJson(Detected(seed[w]))
      BY <1>7, <2>1, StoredSteps
    <2>3. Unclaimed /\ Gathered(w)
      BY <2>1 DEF DistinctInv
    <2>4. \A r \in Roles : seed[w][r]["interface"] = LegacyOf(ApiFile)[r]["interface"]
      BY <2>1, <2>3 DEF Gathered, Read, RoleSeq, Roles
    <2>5. Apart([r \in Roles |-> seed[w][r]["interface"]])
      BY <2>3, <2>4 DEF Unclaimed
    <2>6. JsonDistinct(Stored') /\ Stored' \in Seq(Items)
      BY <2>2, <2>5, SeedDistinct, SeedTyped DEF Typed
    <2>7. QED
      BY <2>6 DEF DistinctInv, NoConfig
  <1>8. ASSUME NEW w \in Workers, SaveJson(w) PROVE DistinctInv'
    BY <1>8, SavedIsArray DEF DistinctInv
  <1>9. ASSUME NEW w \in Workers, SaveLegacy(w) PROVE DistinctInv'
    BY <1>9, StoredSteps DEF DistinctInv, SaveLegacy, SeedInv, Rebuilds
  <1>10. ASSUME UNCHANGED <<db, wpc, wi, wk, seed>> PROVE DistinctInv'
    BY <1>2, <1>10, GatheredKept DEF DistinctInv
  <1>11. QED
    BY <1>4, <1>5, <1>6, <1>7, <1>8, <1>9, <1>10
    DEF Next, Request, Handle, SyncEnds, vars

\* If no role's adapter is in the way of a seed when the daemon starts, the stored array
\* never gives an adapter to two interfaces: POST refuses such a body, and the GET that
\* fills the array in copies the adapters that stand in the keys and deals out others.
\* With an array there from the start that is so on any number of threads, and whatever
\* writes fail.
THEOREM StoredIsDistinct ==
    ASSUME SeedSafe
    PROVE  Spec => SavedDistinct
  <1> DEFINE Inv == Typed /\ SeedInv /\ DistinctInv
  <1>1. Init /\ Unclaimed => Inv
    BY SeedSafe, TypedInit, SeedInit, DistinctInit
  <1>2. Inv /\ [Next]_vars => Inv'
    BY SeedSafe, TypedNext, SeedNext, DistinctNext
  <1>3. Inv => JsonDistinct(Stored)
    BY DEF DistinctInv
  <1> HIDE DEF Inv
  <1>4. QED
    BY <1>1, <1>2, <1>3, PTL DEF Spec, SavedDistinct

\* The array a POST has stored is replaced by nothing but another POST's body, and by
\* all of it: GET does not write over it, and neither do the legacy keys' writes.
THEOREM PostAloneReplaces ==
    ASSUME SeedSafe
    PROVE  Spec => OnlyPostReplaces
  <1> DEFINE Replaced == ~NoConfig(Stored) /\ Stored' # Stored =>
                            \E w \in Workers : wpc[w] = "save" /\ Stored' = req[w]
  <1>1. Init => Typed /\ SeedInv
    BY SeedSafe, TypedInit, SeedInit
  <1>2. Typed /\ SeedInv /\ [Next]_vars => (Typed /\ SeedInv)'
    BY SeedSafe, TypedNext, SeedNext
  <1>3. Typed /\ SeedInv /\ [Next]_vars => [Replaced]_vars
    <2> SUFFICES ASSUME Typed, SeedInv, [Next]_vars, ~NoConfig(Stored), Stored' # Stored
                 PROVE  \E w \in Workers : wpc[w] = "save" /\ Stored' = req[w]
      OBVIOUS
    <2>1. db' # db
      BY DEF Stored
    <2>2. PICK w \in Workers : SaveSeed(w) \/ SaveJson(w) \/ SaveLegacy(w)
      BY <2>1 DEF Next, Request, Handle, GetConfigRequest, PostConfigRequest, ReadStored,
                  ReadLegacy, Validate, LaunchSync, SyncEnds, vars
    <2>3. SaveJson(w)
      BY <2>2, StoredSteps DEF SaveSeed, SeedInv, Rebuilds
    <2>4. QED
      BY <2>3, StoredSteps DEF SaveJson
  <1>4. QED
    BY <1>1, <1>2, <1>3, PTL DEF Spec, OnlyPostReplaces

--------------------------------------------------------------------------------
\* How far the legacy keys have followed a body that is being saved by the only
\* thread: elements before the current one that no later one up to it replaces, and
\* the fields of the current one before the next.
Last(w, i, k) == \A j \in (i + 1)..k : req[w][j].id # req[w][i].id
FollowedTo(w, k) ==
    \A i \in 1..(k - 1) : req[w][i].id \in Roles /\ Last(w, i, k) => Agrees(req[w][i])
FieldsDone(w, k, m) ==
    \A n \in 1..m : db[ApiFile][<<req[w][k].id, FieldSeq[n]>>] = req[w][k][FieldSeq[n]]
Following(w) ==
    /\ wpc[w] = "legacy" => /\ Stored = req[w]
                            /\ FollowedTo(w, wi[w]) /\ FieldsDone(w, wi[w], wk[w] - 1)
    /\ wpc[w] # "idle" => reply[w] = "none"
    /\ wpc[w] \in {"post", "save", "legacy", "launch"} => req[w] \in Bodies
    /\ wpc[w] \in {"save", "legacy", "launch"} => req[w] # NoArray
FollowInv == LegacyFollows /\ \A w \in Workers : Following(w)

\* What LegacyFollows says of a thread whose POST has been carried out.
AllFollow(w) ==
    /\ Stored = req[w]
    /\ \A i \in DOMAIN req[w] :
          req[w][i].id \in Roles /\ Last(w, i, Len(req[w])) => Agrees(req[w][i])

LEMMA FollowsIs == LegacyFollows <=> \A w \in Workers : Posted(w) => AllFollow(w)
  BY DEF LegacyFollows, AllFollow, Last

LEMMA FollowInit == Init => FollowInv
  BY DEF Init, FollowInv, LegacyFollows, Posted, Following

\* Writing one field of the current element leaves every element that it does not
\* replace as it was.
LEMMA FieldFollows ==
    ASSUME Typed, "write" \notin StoreFaults, NEW w \in Workers, SaveLegacy(w), Following(w)
    PROVE  /\ \A i \in 1..(wi[w] - 1) :
                 req[w][i].id \in Roles /\ Last(w, i, wi[w]) => Agrees(req[w][i])'
           /\ \A n \in 1..wk[w] : db'[ApiFile][<<req[w][wi[w]].id, FieldSeq[n]>>]
                                    = req[w][wi[w]][FieldSeq[n]]
           /\ Stored' = req[w]
  <1> DEFINE k == wi[w]
             id == req[w][k].id
             f == FieldSeq[wk[w]]
  <1>1. /\ id \in Roles /\ f \in Fields /\ <<id, f>> \in Keys /\ k \in 1..Len(req[w])
        /\ wk[w] \in 1..LastField(id) /\ wk[w] \in 1..4
        /\ SetConfig(ApiFile, <<id, f>>, req[w][k][f])
    BY SaveLegacyKey DEF Typed, Locals, HandlersTypeOK
  <1>2. Len(req[w]) \in Nat
    BY ArrayIs, SaveLegacyKey DEF Typed, Locals, Bounds
  <1>3. wpc[w] = "legacy" /\ req' = req /\ Stored' = Stored
    BY StoredSteps DEF SaveLegacy
  <1>4. /\ db'[ApiFile][<<id, f>>] = req[w][k][f]
        /\ \A q \in Roles, g \in Fields : q # id \/ g # f =>
              db'[ApiFile][<<q, g>>] = db[ApiFile][<<q, g>>]
    <2>1. Placed /\ ApiFile \in Files
      BY DEF Typed, StoreTypeOK, Placed
    <2>2. db'[ApiFile][<<id, f>>] = req[w][k][f]
      BY <1>1, <2>1, SetOne
    <2>3. ASSUME NEW q \in Roles, NEW g \in Fields, q # id \/ g # f
          PROVE  db'[ApiFile][<<q, g>>] = db[ApiFile][<<q, g>>]
      <3>1. <<q, g>> \in Keys /\ <<q, g>> # <<id, f>>
        BY <1>1, <2>3, KeysDiffer DEF Keys
      <3>2. QED
        BY <1>1, <2>1, <3>1, SetOne
    <2>4. QED
      BY <2>2, <2>3
  <1>5. /\ Stored = req[w] /\ FollowedTo(w, k) /\ FieldsDone(w, k, wk[w] - 1)
    BY <1>3 DEF Following
  <1>6. ASSUME NEW i \in 1..(k - 1), req[w][i].id \in Roles, Last(w, i, k)
        PROVE  Agrees(req[w][i])'
    <2>1. Agrees(req[w][i]) /\ req[w][i].id # id
      <3>1. k \in Nat /\ k \in (i + 1)..k
        BY <1>1, <1>2
      <3>2. req[w][k].id # req[w][i].id
        BY <1>6, <3>1 DEF Last
      <3>3. QED
        BY <1>5, <1>6, <3>2 DEF FollowedTo
    <2>2. \A n \in 1..LastField(req[w][i].id) : FieldSeq[n] \in Fields
      BY <1>6, Numbered
    <2> HIDE DEF id, f, k
    <2>3. QED
      BY <1>3, <1>4, <1>6, <2>1, <2>2 DEF Agrees
  <1>7. \A n \in 1..wk[w] : db'[ApiFile][<<id, FieldSeq[n]>>] = req[w][k][FieldSeq[n]]
    <2>1. ASSUME NEW n \in 1..wk[w]
          PROVE  db'[ApiFile][<<id, FieldSeq[n]>>] = req[w][k][FieldSeq[n]]
      <3>1. CASE n = wk[w]
        BY <1>4, <3>1
      <3>2. CASE n # wk[w]
        <4>1. n \in 1..(wk[w] - 1) /\ n \in 1..4 /\ FieldSeq[n] \in Fields /\ FieldSeq[n] # f
          BY <1>1, <3>2, Numbered
        <4>2. db[ApiFile][<<id, FieldSeq[n]>>] = req[w][k][FieldSeq[n]]
          BY <1>5, <4>1 DEF FieldsDone
        <4>3. QED
          BY <1>1, <1>4, <4>1, <4>2
      <3>3. QED
        BY <3>1, <3>2
    <2>2. QED
      BY <2>1
  <1>8. QED
    BY <1>3, <1>5, <1>6, <1>7

\* The step to element n, when all those before it have followed.
LEMMA ElementsFollow ==
    ASSUME NEW w \in Workers, IsArray(req[w]), NEW n \in 1..(Len(req[w]) + 1),
           \A i \in 1..(n - 1) :
              req[w][i].id \in Roles /\ Last(w, i, n - 1) => Agrees(req[w][i])',
           wpc \in [Workers -> WPCs], wi \in [Workers -> Nat], wk \in [Workers -> 1..4],
           ToElement(w, n), req' = req, Stored' = req[w], Following(w), Storing(w)
    PROVE  Following(w)' /\ (Posted(w) => AllFollow(w))'
  <1>1. /\ Len(req[w]) \in Nat /\ DOMAIN req[w] = 1..Len(req[w]) /\ n \in Nat
        /\ reply' = reply /\ wi'[w] = n /\ wk'[w] = 1
        /\ wpc'[w] = IF n > Len(req[w]) THEN "launch" ELSE "legacy"
    BY ArrayIs DEF ToElement, Goto
  <1>2. reply[w] = "none" /\ req[w] \in Bodies /\ req[w] # NoArray
    BY DEF Following, Storing
  <1>3. CASE n > Len(req[w])
    <2>1. n - 1 = Len(req[w]) /\ wpc'[w] = "launch"
      BY <1>1, <1>3
    <2>2. \A i \in DOMAIN req[w] : req[w][i].id \in Roles /\ Last(w, i, Len(req[w]))
                                       => Agrees(req[w][i])'
      BY <1>1, <2>1
    <2>3. \A i : Last(w, i, Len(req[w]))' <=> Last(w, i, Len(req[w]))
      BY DEF Last
    <2>4. AllFollow(w)'
      BY <2>2, <2>3 DEF AllFollow
    <2>5. QED
      BY <1>1, <1>2, <2>1, <2>4 DEF Following
  <1>4. CASE ~(n > Len(req[w]))
    <2>1. wpc'[w] = "legacy"
      BY <1>1, <1>4
    <2>2. \A i \in 1..(n - 1) : Last(w, i, n)' => Last(w, i, n - 1)
      BY <1>1 DEF Last
    <2>3. \A i \in 1..(n - 1) : req[w][i].id \in Roles /\ Last(w, i, n)' => Agrees(req[w][i])'
      BY <2>2
    <2>4. FollowedTo(w, wi[w])'
      BY <1>1, <2>3 DEF FollowedTo, Last
    <2>5. FieldsDone(w, wi[w], wk[w] - 1)'
      BY <1>1 DEF FieldsDone
    <2>6. QED
      BY <1>1, <1>2, <2>1, <2>4, <2>5 DEF Following, Posted
  <1>5. QED
    BY <1>3, <1>4

\* A request taken, and a handler's step, on a thread that is alone at work.
LEMMA HandleFollows ==
    ASSUME "write" \notin StoreFaults, Typed, NEW w \in Workers, Request(w) \/ Handle(w),
           Following(w), wpc[w] = "launch" => AllFollow(w)
    PROVE  Following(w)' /\ (Posted(w) => AllFollow(w))'
  <1>1. /\ wpc \in [Workers -> WPCs] /\ req \in [Workers -> Bodies \cup {NoArray}]
        /\ wi \in [Workers -> Nat] /\ wk \in [Workers -> 1..4]
        /\ reply \in [Workers -> {"none", "returned", "rejected", "success"}]
    BY DEF Typed, Locals, HandlersTypeOK
  <1>2. Following(w) /\ (wpc[w] = "launch" => AllFollow(w))
    OBVIOUS
  <1>3. (wpc'[w] \in {"get", "seed", "seedSave"} /\ reply'[w] = "none")
           => Following(w)' /\ (Posted(w) => AllFollow(w))'
    BY DEF Following, Posted
  <1>4. (wpc'[w] = "idle" /\ reply'[w] # "success")
           => Following(w)' /\ (Posted(w) => AllFollow(w))'
    BY DEF Following, Posted
  <1>5. CASE GetConfigRequest(w)
    BY <1>1, <1>3, <1>5 DEF GetConfigRequest
  <1>6. CASE PostConfigRequest(w)
    <2>1. wpc'[w] = "post" /\ reply'[w] = "none" /\ req'[w] \in Bodies
      BY <1>1, <1>6 DEF PostConfigRequest
    <2>2. QED
      BY <2>1 DEF Following, Posted
  <1>7. CASE ReadStored(w)
    <2>1. /\ wpc[w] = "get"
          /\ \/ wpc' = [wpc EXCEPT ![w] = "seed"] /\ reply' = reply
             \/ wpc' = [wpc EXCEPT ![w] = "idle"] /\ reply' = [reply EXCEPT ![w] = "returned"]
      BY <1>7 DEF ReadStored, Goto, Answer
    <2>2. \/ wpc'[w] = "seed" /\ reply'[w] = "none"
          \/ wpc'[w] = "idle" /\ reply'[w] = "returned"
      BY <1>1, <1>2, <2>1 DEF Following
    <2>3. QED
      BY <1>3, <1>4, <2>2
  <1>8. CASE ReadLegacy(w)
    <2>1. /\ wpc[w] = "seed" /\ reply' = reply
          /\ wpc' = wpc \/ wpc' = [wpc EXCEPT ![w] = "seedSave"]
      BY <1>8 DEF ReadLegacy
    <2>2. wpc'[w] \in {"seed", "seedSave"} /\ reply'[w] = "none"
      BY <1>1, <1>2, <2>1 DEF Following
    <2>3. QED
      BY <1>3, <2>2
  <1>9. CASE SaveSeed(w)
    BY <1>1, <1>4, <1>9 DEF SaveSeed, Answer
  <1>10. CASE Validate(w)
    <2>1. /\ wpc[w] = "post" /\ req' = req
          /\ \/ /\ req[w] = NoArray
                /\ wpc' = [wpc EXCEPT ![w] = "idle"]
             \/ /\ req[w] # NoArray
                /\ wpc' = [wpc EXCEPT ![w] = "save"] /\ reply' = reply
             \/ /\ wpc' = [wpc EXCEPT ![w] = "idle"]
                /\ reply' = [reply EXCEPT ![w] = "rejected"]
      BY <1>10 DEF Validate, Goto, Answer
    <2>2. \/ wpc'[w] = "idle" /\ req'[w] = NoArray
          \/ wpc'[w] = "save" /\ req'[w] # NoArray /\ req'[w] \in Bodies /\ reply'[w] = "none"
          \/ wpc'[w] = "idle" /\ reply'[w] = "rejected"
      BY <1>1, <1>2, <2>1 DEF Following
    <2>3. QED
      BY <2>2 DEF Following, Posted
  <1>11. CASE SaveJson(w)
    <2> DEFINE n == NextRole(req[w], 1)
    <2>1. /\ Storing(w) /\ IsArray(req[w]) /\ Len(req[w]) \in Nat /\ Stored' = req[w]
          /\ ToElement(w, n) /\ req' = req
      BY <1>11, ArrayIs, StoredSteps DEF SaveJson, Storing, Typed, Locals, Bounds
    <2>2. n \in 1..(Len(req[w]) + 1) /\ \A i \in 1..(n - 1) : req[w][i].id \notin Roles
      BY <2>1, NextRoleIs
    <2> HIDE DEF n
    <2>3. QED
      BY <1>1, <1>2, <2>1, <2>2, ElementsFollow
  <1>12. CASE SaveLegacy(w)
    <2> DEFINE k == wi[w]
               id == req[w][k].id
    <2>1. /\ Storing(w) /\ IsArray(req[w]) /\ Len(req[w]) \in Nat /\ k \in 1..Len(req[w])
          /\ id \in Roles /\ wk[w] \in 1..LastField(id) /\ wpc[w] = "legacy" /\ req' = req
      BY <1>12, ArrayIs, SaveLegacyKey DEF SaveLegacy, Typed, Locals, Bounds
    <2>2. /\ \A i \in 1..(k - 1) : req[w][i].id \in Roles /\ Last(w, i, k) => Agrees(req[w][i])'
          /\ \A m \in 1..wk[w] : db'[ApiFile][<<id, FieldSeq[m]>>] = req[w][k][FieldSeq[m]]
          /\ Stored' = req[w]
      BY <1>2, <1>12, FieldFollows
    <2>3. CASE wk[w] < LastField(id)
      <3>1. wk' = [wk EXCEPT ![w] = @ + 1] /\ UNCHANGED <<wi, wpc, reply>>
        BY <1>12, <2>3 DEF SaveLegacy
      <3>2. wk'[w] = wk[w] + 1 /\ wk'[w] - 1 = wk[w]
        BY <1>1, <2>1, <3>1
      <3>3. FieldsDone(w, wi[w], wk[w] - 1)'
        BY <2>1, <2>2, <3>1, <3>2 DEF FieldsDone
      <3>4. FollowedTo(w, wi[w])'
        BY <2>1, <2>2, <3>1 DEF FollowedTo, Last
      <3>5. QED
        BY <1>2, <2>1, <2>2, <3>1, <3>3, <3>4 DEF Following, Posted
    <2>4. CASE ~(wk[w] < LastField(id))
      <3> DEFINE n == NextRole(req[w], k + 1)
      <3>1. wk[w] = LastField(id) /\ ToElement(w, n)
        <4>1. LastField(id) \in 3..4
          BY <2>1, Numbered
        <4>2. QED
          BY <1>12, <2>1, <2>4, <4>1 DEF SaveLegacy
      <3>2. /\ n \in (k + 1)..(Len(req[w]) + 1)
            /\ \A m \in (k + 1)..(n - 1) : req[w][m].id \notin Roles
        <4>1. k + 1 \in 1..(Len(req[w]) + 1)
          BY <2>1
        <4>2. QED
          BY <2>1, <4>1, NextRoleIs
      <3> HIDE DEF n
      <3>3. \A i : i = k => Agrees(req[w][i])'
        BY <2>1, <2>2, <3>1 DEF Agrees
      <3> HIDE DEF id
      <3>4. ASSUME NEW i \in 1..(n - 1), req[w][i].id \in Roles, Last(w, i, n - 1)
            PROVE  Agrees(req[w][i])'
        <4>1. i <= k
          BY <2>1, <3>2, <3>4
        <4>2. CASE i = k
          BY <3>3, <4>2
        <4>3. CASE i < k
          <5>1. i \in 1..(k - 1) /\ Last(w, i, k)
            BY <2>1, <3>2, <3>4, <4>3 DEF Last
          <5>2. QED
            BY <2>2, <3>4, <5>1
        <4>4. QED
          BY <2>1, <4>1, <4>2, <4>3
      <3>5. n \in 1..(Len(req[w]) + 1)
        BY <2>1, <3>2
      <3>6. Following(w)' /\ (Posted(w) => AllFollow(w))'
        BY <1>1, <1>2, <2>1, <2>2, <3>1, <3>4, <3>5, ElementsFollow
      <3>7. QED
        BY <3>6
    <2>5. QED
      BY <2>3, <2>4
  <1>13. CASE LaunchSync(w)
    <2>1. wpc[w] = "launch" /\ wpc'[w] = "idle" /\ req' = req /\ db' = db
      BY <1>1, <1>13 DEF LaunchSync, Answer
    <2>2. AllFollow(w)
      BY <1>2, <2>1 DEF Posted, Following
    <2>3. AllFollow(w)'
      BY <2>1, <2>2 DEF AllFollow, Stored, Agrees, Last
    <2>4. QED
      BY <2>1, <2>3 DEF Following
  <1>14. QED
    BY <1>5, <1>6, <1>7, <1>8, <1>9, <1>10, <1>11, <1>12, <1>13 DEF Request, Handle

LEMMA FollowNext ==
    ASSUME OneThread, "write" \notin StoreFaults, Typed, FollowInv, [Next]_vars
    PROVE  FollowInv'
  <1>1. \A w \in Workers : Following(w) /\ (Posted(w) => AllFollow(w))
    BY FollowsIs DEF FollowInv
  <1>2. ASSUME NEW w \in Workers, Request(w) \/ Handle(w) PROVE FollowInv'
    <2>1. wpc[w] = "launch" => Posted(w)
      BY <1>1 DEF Posted, Following
    <2>2. Following(w)' /\ (Posted(w) => AllFollow(w))'
      BY <1>1, <1>2, <2>1, HandleFollows
    <2>3. \A v \in Workers : Following(v)' /\ (Posted(v)' => AllFollow(v)')
      BY <2>2 DEF OneThread
    <2>4. LegacyFollows'
      BY <2>3 DEF LegacyFollows, AllFollow, Last
    <2>5. QED
      BY <2>3, <2>4 DEF FollowInv
  <1>3. ASSUME UNCHANGED <<db, wpc, req, wi, wk, seed, reply, requests>> PROVE FollowInv'
    <2>1. \A w \in Workers : Following(w)'
      BY <1>1, <1>3 DEF Following, FollowedTo, FieldsDone, Stored, Agrees, Last
    <2>2. \A w \in Workers : Posted(w)' => AllFollow(w)'
      <3>1. \A w \in Workers : Posted(w)' <=> Posted(w)
        BY <1>3 DEF Posted
      <3>2. \A w \in Workers : AllFollow(w) => AllFollow(w)'
        BY <1>3 DEF AllFollow, Stored, Agrees, Last
      <3>3. QED
        BY <1>1, <3>1, <3>2
    <2>3. LegacyFollows'
      BY <2>2 DEF LegacyFollows, AllFollow, Last
    <2>4. QED
      BY <2>1, <2>3 DEF FollowInv
  <1>4. QED
    BY <1>2, <1>3 DEF Next, SyncEnds, vars

\* When one POST at a time is handled and writes do not fail, then from the launch of
\* the script until the thread's next request the array is the POST's body and the
\* legacy keys of every role in it say what the last element of the role says, however
\* often a role occurs.  Reads may fail.
THEOREM KeysFollowPost ==
    ASSUME OneThread, "write" \notin StoreFaults
    PROVE  Spec => []LegacyFollows
  <1>1. Init => Typed /\ FollowInv
    BY TypedInit, FollowInit
  <1>2. Typed /\ FollowInv /\ [Next]_vars => (Typed /\ FollowInv)'
    BY OneThread, "write" \notin StoreFaults, TypedNext, FollowNext
  <1>3. FollowInv => LegacyFollows
    BY DEF FollowInv
  <1>4. QED
    BY <1>1, <1>2, <1>3, PTL DEF Spec

\* ... and what a POST that is answered success has brought is the stored array: its own
\* array, or, if it brought none, the one that was stored before.
THEOREM SuccessMeansSaved ==
    ASSUME OneThread, "write" \notin StoreFaults
    PROVE  Spec => AckMeansSaved
  <1> DEFINE Acked == \A w \in Workers :
                wpc[w] \in {"post", "launch"} /\ reply'[w] = "success" =>
                    Stored' = IF req[w] = NoArray THEN Stored ELSE req[w]
  <1>1. Init => Typed /\ FollowInv
    BY TypedInit, FollowInit
  <1>2. Typed /\ FollowInv /\ [Next]_vars => (Typed /\ FollowInv)'
    BY OneThread, "write" \notin StoreFaults, TypedNext, FollowNext
  <1>3. Typed /\ FollowInv /\ [Next]_vars => [Acked]_vars
    <2> SUFFICES ASSUME Typed, FollowInv, Next, NEW w \in Workers,
                        wpc[w] \in {"post", "launch"}, reply'[w] = "success"
                 PROVE  Stored' = IF req[w] = NoArray THEN Stored ELSE req[w]
      OBVIOUS
    <2>1. /\ reply[w] = "none"
          /\ reply \in [Workers -> {"none", "returned", "rejected", "success"}]
          /\ wpc[w] = "launch" => req[w] # NoArray
      BY DEF FollowInv, Following, Typed, Locals, HandlersTypeOK
    <2>2. Request(w) \/ Handle(w)
      BY <2>1 DEF Next, OneThread, SyncEnds
    <2>3. Validate(w) \/ LaunchSync(w)
      BY <2>2 DEF Request, Handle, GetConfigRequest, PostConfigRequest, ReadStored, ReadLegacy,
                  SaveSeed, SaveJson, SaveLegacy
    <2>4. CASE Validate(w)
      <3>1. req[w] = NoArray /\ db' = db
        BY <2>1, <2>4 DEF Validate, Answer, Goto
      <3>2. QED
        BY <3>1 DEF Stored
    <2>5. CASE LaunchSync(w)
      <3>1. Posted(w) /\ req[w] # NoArray /\ db' = db
        BY <2>1, <2>5 DEF LaunchSync, Posted
      <3>2. QED
        BY <3>1 DEF FollowInv, LegacyFollows, Stored
    <2>6. QED
      BY <2>3, <2>4, <2>5
  <1>4. QED
    BY <1>1, <1>2, <1>3, PTL DEF Spec, AckMeansSaved
================================================================================
