------------------------------ MODULE MCApiConfig ------------------------------
(* Small instances of ApiConfig for TLC: a machine with two adapters, and the  *)
(* bodies a dashboard or another client posts to it.                           *)
EXTENDS ApiConfig

CONSTANTS e0, e1, e9, i1, i2, bad, m24, g1, p1

E(id, device, ip, gateway) ==
    [id |-> id, interface |-> device, ip |-> ip, netmask |-> m24, gateway |-> gateway]

TwoAdapters == <<e0, e1>>

Plain   == <<E("WAN", e0, i1, g1), E("LAN", e1, i2, Empty), E("MGMT", Empty, Empty, Empty)>>
Swapped == <<E("WAN", e1, i1, Empty), E("LAN", e0, i2, Empty), E("MGMT", Empty, Empty, Empty)>>
Custom  == <<E(p1, e1, i2, Empty), E("WAN", e0, i1, g1)>>
Twice   == <<E("WAN", e0, i1, g1), E("WAN", e1, i2, Empty)>>
SameIp  == <<E("WAN", e0, i1, g1), E("LAN", e1, i1, Empty)>>
SameDev == <<E("WAN", e0, i1, g1), E(p1, e0, i2, Empty)>>
Unknown == <<E("WAN", e9, i1, g1)>>
BadText == <<E("WAN", e0, bad, g1)>>

AllBodies  == {Plain, Swapped, Custom, Twice, SameIp, SameDev, Unknown, BadText, NoArray}
RoleBodies == {Plain, Swapped}

\* Legacy keys without an array: none; adapters where detection would put them, or
\* swapped; one for MGMT alone; and the second adapter with WAN, while detection
\* gives it to LAN.
Held(wan, lan, mgmt) ==
    [key \in LegacyKeys |->
       CASE key = <<"WAN", "interface">>  -> wan
         [] key = <<"LAN", "interface">>  -> lan
         [] key = <<"MGMT", "interface">> -> mgmt
         [] OTHER -> Missing]
NoKeys   == {Held(Missing, Missing, Missing)}
LeftKeys == NoKeys \cup {Held(e0, e1, Empty), Held(e1, e0, Missing), Held(Missing, Empty, e9),
                        Held(e1, Missing, Missing)}
================================================================================
