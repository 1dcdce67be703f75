------------------------------ MODULE NetworkSync ------------------------------
(***************************************************************************)
(* packaging/sync_network.sh: copies the stored configuration to the file  *)
(* /etc/network/interfaces.d/beout_os_interfaces and to the live adapters. *)
(* The script takes no lock and writes the file in place, a line at a time,*)
(* so runs launched by the console and by the daemon can overlap.  Each    *)
(* slot of Jobs is one run at a time.                                      *)
(***************************************************************************)
EXTENDS ConfigStore, FiniteSets

CONSTANTS
    SysFile,          \* DB_PATH
    SystemDevices,    \* adapters for which `ip link show' succeeds
    LegacyDevice,     \* [Roles -> Devices]: eth0, eth1, eth2
    Jobs,             \* runs that can exist at the same time
    Waited            \* those whose launcher waits for the exit status

ASSUME NetworkSyncAssumption ==
    /\ SysFile \in Files
    /\ SystemDevices \subseteq Devices
    /\ LegacyDevice \in [Roles -> Devices]
    /\ Waited \subseteq Jobs

VARIABLES
    job,        \* [Jobs -> where the run in this slot is]
    stanzas,    \* [Jobs -> the interfaces this run writes]
    at,         \* [Jobs -> index of the current one]
    cursor,     \* [Jobs -> <<role, field>> indices of the next legacy read]
    vals,       \* [Jobs -> WAN_DEV ... MGMT_GW]
    file,       \* the interfaces file, a sequence of lines
    kernel      \* [SystemDevices -> addresses on the live adapter]

jobVars == <<job, stanzas, at, cursor, vals>>

Addresses == Ips \X Netmasks
Stanzas   == [dev : Devices, addr : Addresses]
Lines     == [iface : Devices] \cup [address : Addresses]
JobStates == {"idle", "started", "keys", "truncate", "head", "body", "flush",
              "assign", "restart", "ended"}

NoVals == [r \in Roles |-> NoAddress]

SyncInit ==
    /\ job = [j \in Jobs |-> "idle"]
    /\ stanzas = [j \in Jobs |-> <<>>] /\ at = [j \in Jobs |-> 1]
    /\ cursor = [j \in Jobs |-> <<1, 1>>] /\ vals = [j \in Jobs |-> NoVals]
    /\ file = <<>>
    /\ kernel = [d \in SystemDevices |-> {}]

Goto(j, where) == job' = [job EXCEPT ![j] = where]

--------------------------------------------------------------------------------
\* The address `ip addr add' and the stanza carry; no netmask means /24.  (The
\* stanza then has no netmask line and ifupdown takes the address's class: the
\* same for addresses of 192.0.0.0-223.255.255.255, which Ips stands for.)
Address(ip, netmask) == <<ip, IF netmask = Empty THEN DefaultNetmask ELSE netmask>>

\* The n-th of a set of places: as many of them come up to it.
Nth(places, n) == CHOOSE i \in places : Cardinality({m \in places : m <= i}) = n

\* The elements of the array that have an adapter and an address, in order.
Usable(item) == item.interface # Empty /\ item.ip # Empty
FromJson(json) ==
    LET used == {i \in 1..Len(json) : Usable(json[i])}
    IN  [n \in 1..Cardinality(used) |->
           LET item == json[Nth(used, n)]
           IN  [dev |-> item.interface, addr |-> Address(item.ip, item.netmask)]]

\* The roles that have an address, with the adapters' fallback names.
HasIp(rec) == rec["ip"] # Empty
FromKeys(recs) ==
    LET used == {i \in 1..3 : HasIp(recs[RoleSeq[i]])}
    IN  [n \in 1..Cardinality(used) |->
           LET r == RoleSeq[Nth(used, n)]
           IN  [dev |-> IF recs[r]["interface"] = Empty THEN LegacyDevice[r]
                                                         ELSE recs[r]["interface"],
                addr |-> Address(recs[r]["ip"], recs[r]["netmask"])]]

\* Variant of ReadJson with a mistake: no fallback to the legacy keys.
ReadJsonOnly(j) ==
    /\ job[j] = "started" /\ Goto(j, "truncate")
    /\ stanzas' = [stanzas EXCEPT ![j] =
                     IF NoConfig(db[SysFile][JsonKey]) THEN <<>> ELSE FromJson(db[SysFile][JsonKey])]
    /\ UNCHANGED <<db, at, cursor, vals, file, kernel>>

\* SELECT value ... network_interfaces_json: an array is used as it is, anything
\* else sends the run to the legacy keys.
ReadJson(j) ==
    /\ job[j] = "started"
    /\ \E v \in GetConfig(SysFile, JsonKey) :
          IF NoConfig(v)
          THEN Goto(j, "keys") /\ UNCHANGED stanzas
          ELSE Goto(j, "truncate") /\ stanzas' = [stanzas EXCEPT ![j] = FromJson(v)]
    /\ cursor' = [cursor EXCEPT ![j] = <<1, 1>>] /\ vals' = [vals EXCEPT ![j] = NoVals]
    /\ UNCHANGED <<db, at, file, kernel>>

\* GET_VAL: one sqlite3 process per key.
ReadKey(j) ==
    /\ job[j] = "keys"
    /\ LET n == cursor[j][1]  m == cursor[j][2]  r == RoleSeq[n]
       IN  \E v \in GetConfig(SysFile, <<r, FieldSeq[m]>>) :
             LET now == [vals[j] EXCEPT ![r][FieldSeq[m]] = ValueOr(v, Empty)]
             IN  /\ vals' = [vals EXCEPT ![j] = now]
                 /\ IF m < LastField(r) \/ n < 3
                    THEN /\ cursor' = [cursor EXCEPT ![j] =
                                         IF m < LastField(r) THEN <<n, m + 1>> ELSE <<n + 1, 1>>]
                         /\ UNCHANGED <<job, stanzas>>
                    ELSE /\ stanzas' = [stanzas EXCEPT ![j] = FromKeys(now)]
                         /\ Goto(j, "truncate") /\ UNCHANGED cursor
    /\ UNCHANGED <<db, at, file, kernel>>

\* echo "# Generated ..." > "$INTERFACES_FILE"
ToStanza(j, n) ==
    /\ at' = [at EXCEPT ![j] = n]
    /\ Goto(j, IF n > Len(stanzas[j]) THEN "restart" ELSE "head")

\* Variant of Truncate with a mistake: >> where > is meant.
TruncateNot(j) ==
    /\ job[j] = "truncate" /\ ToStanza(j, 1)
    /\ UNCHANGED <<db, stanzas, cursor, vals, file, kernel>>

Truncate(j) ==
    /\ job[j] = "truncate"
    /\ file' = <<>>
    /\ ToStanza(j, 1)
    /\ UNCHANGED <<db, stanzas, cursor, vals, kernel>>

\* echo "auto ..." and echo "iface ...", then the lines of the stanza's body.
AppendHead(j) ==
    /\ job[j] = "head"
    /\ file' = Append(file, [iface |-> stanzas[j][at[j]].dev])
    /\ Goto(j, "body")
    /\ UNCHANGED <<db, stanzas, at, cursor, vals, kernel>>

\* Variant of AppendBody with a mistake: the first stanza's address every time.
AppendFirstBody(j) ==
    /\ job[j] = "body"
    /\ file' = Append(file, [address |-> stanzas[j][1].addr])
    /\ Goto(j, "flush")
    /\ UNCHANGED <<db, stanzas, at, cursor, vals, kernel>>

AppendBody(j) ==
    /\ job[j] = "body"
    /\ file' = Append(file, [address |-> stanzas[j][at[j]].addr])
    /\ Goto(j, "flush")
    /\ UNCHANGED <<db, stanzas, at, cursor, vals, kernel>>

\* apply_interface_live: nothing for an adapter the machine does not have.
Flush(j) ==
    /\ job[j] = "flush"
    /\ kernel' = [d \in SystemDevices |-> IF d = stanzas[j][at[j]].dev THEN {} ELSE kernel[d]]
    /\ Goto(j, "assign")
    /\ UNCHANGED <<db, stanzas, at, cursor, vals, file>>

Assign(j) ==
    /\ job[j] = "assign"
    /\ kernel' = [d \in SystemDevices |->
                    IF d = stanzas[j][at[j]].dev
                    THEN kernel[d] \cup {stanzas[j][at[j]].addr} ELSE kernel[d]]
    /\ ToStanza(j, at[j] + 1)
    /\ UNCHANGED <<db, stanzas, cursor, vals, file>>

\* systemctl restart networking (ifupdown, external): adapters that have stanzas
\* in the file are taken down and come up with those stanzas' addresses; the
\* others are left alone; a stanza with two addresses is a syntax error and the
\* whole file is refused.
StanzaOf(n) ==   \* the number of the line that opens the stanza of line n
    CHOOSE m \in 1..n : "iface" \in DOMAIN file[m] /\
                        \A o \in (m + 1)..n : "iface" \notin DOMAIN file[o]
AddressLines == {n \in DOMAIN file : "address" \in DOMAIN file[n]}
Orphan == \E n \in AddressLines : \A m \in 1..n : "iface" \notin DOMAIN file[m]
Refused ==
    Orphan \/ \E n, m \in AddressLines : n # m /\ StanzaOf(n) = StanzaOf(m)
FileAddresses(d) ==
    {file[n].address : n \in {m \in AddressLines : file[StanzaOf(m)].iface = d}}

RestartNetworking(j) ==
    /\ job[j] = "restart"
    /\ kernel' = IF Refused THEN kernel
                 ELSE [d \in SystemDevices |->
                         IF FileAddresses(d) # {} THEN FileAddresses(d) ELSE kernel[d]]
    /\ Goto(j, IF j \in Waited THEN "ended" ELSE "idle")
    /\ stanzas' = [stanzas EXCEPT ![j] = <<>>] /\ at' = [at EXCEPT ![j] = 1]
    /\ cursor' = [cursor EXCEPT ![j] = <<1, 1>>] /\ vals' = [vals EXCEPT ![j] = NoVals]
    /\ UNCHANGED <<db, file>>

RunStep(j) ==
    \/ ReadJson(j) \/ ReadKey(j) \/ Truncate(j) \/ AppendHead(j) \/ AppendBody(j)
    \/ Flush(j) \/ Assign(j) \/ RestartNetworking(j)

--------------------------------------------------------------------------------
SyncTypeOK ==
    /\ job \in [Jobs -> JobStates]
    /\ stanzas \in [Jobs -> Seq(Stanzas)] /\ at \in [Jobs -> Nat \ {0}]
    /\ cursor \in [Jobs -> (1..3) \X (1..4)]
    /\ \A j \in Jobs, r \in Roles, f \in Fields : vals[j][r][f] \in FieldTexts[f] \cup {Empty}
    /\ file \in Seq(Lines)
    /\ kernel \in [SystemDevices -> SUBSET Addresses]

\* What the file, and the adapters it names, should say of the store.
Wanted ==
    IF NoConfig(db[SysFile][JsonKey]) THEN FromKeys(LegacyOf(SysFile))
                                      ELSE FromJson(db[SysFile][JsonKey])
FileFollows ==
    /\ Len(file) = 2 * Len(Wanted)
    /\ \A n \in DOMAIN Wanted :
          file[2 * n - 1] = [iface |-> Wanted[n].dev] /\ file[2 * n] = [address |-> Wanted[n].addr]
KernelFollows ==
    \A n \in DOMAIN Wanted :
        Wanted[n].dev \in SystemDevices =>
            kernel[Wanted[n].dev] = {Wanted[m].addr : m \in {o \in DOMAIN Wanted :
                                                          Wanted[o].dev = Wanted[n].dev}}
================================================================================
