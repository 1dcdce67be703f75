--------------------------------- MODULE MCSync ---------------------------------
(* Small instances of SyncClients: three adapters eth0-eth2, of which the       *)
(* machine has two, and four contents of the store.  Netmask is there for its    *)
(* assumption, which TLC evaluates.                                             *)
EXTENDS SyncClients, Netmask

CONSTANTS e0, e1, e2, i1, i2, m24, m16, g1

Eth == [r \in Roles |-> CASE r = "WAN" -> e0 [] r = "LAN" -> e1 [] r = "MGMT" -> e2]

E(id, device, ip, netmask) ==
    [id |-> id, interface |-> device, ip |-> ip, netmask |-> netmask, gateway |-> Empty]

Array(json) == [FreshStore EXCEPT ![JsonKey] = json]

TwoPorts == Array(<<E("WAN", e0, i1, m24), E("LAN", e1, i2, m16), E("MGMT", Empty, Empty, Empty)>>)
Moved    == Array(<<E("WAN", e1, i1, Empty), E("LAN", Empty, i2, m16), E("MGMT", e2, i2, m24)>>)
\* Legacy keys only, as a version without the array left them, or a console
\* that was stopped before it wrote the array.
OldKeys  == [FreshStore EXCEPT ![<<"WAN", "ip">>] = i2, ![<<"LAN", "interface">>] = e1,
                               ![<<"LAN", "ip">>] = i1, ![<<"LAN", "netmask">>] = m16]
\* What factory_reset leaves.
Reset    == [key \in Keys |-> Empty]

AllStores == {TwoPorts, Moved, OldKeys, Reset}
================================================================================
