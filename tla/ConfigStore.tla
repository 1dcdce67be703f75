------------------------------ MODULE ConfigStore ------------------------------
(***************************************************************************)
(* The network part of the database: eleven "legacy" keys, up to four for  *)
(* each of the three roles, and one key that holds all interfaces as a     *)
(* JSON array.  The console and the API daemon write both forms.           *)
(***************************************************************************)
EXTENDS Naturals, Sequences, Database

CONSTANTS
    Devices,          \* names of network adapters
    Ips, Netmasks, Gateways,  \* address texts that pass format validation
    CustomIds,        \* ids of dashboard ports that are none of the three roles
    DefaultNetmask    \* the text 255.255.255.0

ASSUME ConfigStoreAssumption ==
    /\ {Empty, Missing} \cap (Devices \cup Ips \cup Netmasks \cup Gateways) = {}
    /\ CustomIds \cap {"WAN", "LAN", "MGMT"} = {}
    /\ DefaultNetmask \in Netmasks

Roles   == {"WAN", "LAN", "MGMT"}
RoleSeq == <<"WAN", "LAN", "MGMT">>
Fields  == {"interface", "ip", "netmask", "gateway"}

\* The order in which every writer and reader walks the fields of a role;
\* LAN has no gateway key, so its walk stops one field earlier.
FieldSeq     == <<"interface", "ip", "netmask", "gateway">>
LastField(r) == IF r = "LAN" THEN 3 ELSE 4

FieldTexts == [interface |-> Devices, ip |-> Ips,
               netmask |-> Netmasks, gateway |-> Gateways]

LegacyKeys == Roles \X Fields                    \* network_<role>_<field>
JsonKey    == <<"network_interfaces", "json">>   \* network_interfaces_json
Keys       == LegacyKeys \cup {JsonKey}

\* One element of the JSON array.  The id is normalised to the role it names.
Items == [id        : Roles \cup CustomIds,
          interface : Devices \cup {Empty},
          ip        : Ips \cup {Empty},
          netmask   : Netmasks \cup {Empty},
          gateway   : Gateways \cup {Empty}]

\* The text of an array is neither empty nor absent.
ASSUME ArrayAssumption == Empty \notin Seq(Items) /\ Missing \notin Seq(Items)

StoreTypeOK ==
    /\ DOMAIN db = Files
    /\ \A file \in Files :
          /\ DOMAIN db[file] = Keys
          /\ \A r \in Roles, f \in Fields :
                db[file][<<r, f>>] \in FieldTexts[f] \cup {Empty, Missing}
          /\ db[file][JsonKey] \in Seq(Items) \cup {Empty, Missing}

FreshStore == [key \in Keys |-> Missing]
StoreInit  == db = [file \in Files |-> FreshStore]

--------------------------------------------------------------------------------
NoAddress == [f \in Fields |-> Empty]

\* The role records a reader of the legacy keys of a file ends up with when
\* nothing changes while it reads.
LegacyOf(file) ==
    [r \in Roles |-> [f \in Fields |-> ValueOr(db[file][<<r, f>>], Empty)]]

\* The three-element array both writers of the JSON build from role records.
Item(id, rec) ==
    [id |-> id, interface |-> rec["interface"], ip |-> rec["ip"],
     netmask |-> rec["netmask"], gateway |-> rec["gateway"]]

ToJson(recs) ==
    <<Item("WAN", recs["WAN"]), Item("LAN", recs["LAN"]), Item("MGMT", recs["MGMT"])>>

\* No adapter is given to two roles of the legacy keys of a file.
LegacyDistinct(file) ==
    \A r, s \in Roles :
        /\ r # s
        /\ db[file][<<r, "interface">>] \in Devices
        => db[file][<<r, "interface">>] # db[file][<<s, "interface">>]

\* No adapter appears in two elements of a JSON text.
JsonDistinct(json) ==
    json \in {Empty, Missing} \/
    \A i, j \in DOMAIN json :
        i # j /\ json[i].interface \in Devices => json[i].interface # json[j].interface
================================================================================
