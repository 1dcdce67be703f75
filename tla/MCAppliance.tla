------------------------------ MODULE MCAppliance ------------------------------
(* Small instances of Appliance: two adapters, one or two server threads.      *)
EXTENDS Appliance

CONSTANTS e0, e1, e2, i1, i2, m24, g1, p1

Eth == [r \in Roles |-> CASE r = "WAN" -> e0 [] r = "LAN" -> e1 [] r = "MGMT" -> e2]
TwoAdapters == <<e0, e1>>

E(id, device, ip, gateway) ==
    [id |-> id, interface |-> device, ip |-> ip, netmask |-> m24, gateway |-> gateway]

Plain   == <<E("WAN", e0, i1, g1), E("LAN", e1, i2, Empty), E("MGMT", Empty, Empty, Empty)>>
Swapped == <<E("WAN", e1, i1, Empty), E("LAN", e0, i2, Empty), E("MGMT", Empty, Empty, Empty)>>
Port    == <<E("WAN", e0, i1, g1), E("LAN", Empty, Empty, Empty), E("MGMT", Empty, Empty, Empty),
             E(p1, e1, i2, Empty)>>
OnlyWan == <<E("WAN", e1, i1, g1)>>
OnlyLan == <<E("LAN", e1, i2, Empty)>>

FullBodies    == {Plain, Swapped}
PortBodies    == {Port}
PartialBodies == {OnlyWan, OnlyLan}
================================================================================
