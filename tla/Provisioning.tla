------------------------------ MODULE Provisioning ------------------------------
(***************************************************************************)
(* The console on tty1 (provisioning/cli_engine.cpp): one process, a menu, *)
(* and two operations that change state, configure_interface and           *)
(* factory_reset.  Each is a walk over single store keys followed by live  *)
(* commands and the sync script, and the process can be killed between any *)
(* two of those steps (power loss, or the package's preinst stopping the   *)
(* unit); systemd starts it again at the menu.                             *)
(***************************************************************************)
EXTENDS ConfigStore

CONSTANTS
    CliFile,          \* the database file the console opened
    SystemDevices,    \* the adapters present in /sys/class/net
    Jobs, CliJob,     \* sync script slots; the one the console waits for
    MaxOps,           \* bound: operations the operator performs
    MaxKills          \* bound: times the process is killed

ASSUME ProvisioningAssumption ==
    /\ CliFile \in Files
    /\ SystemDevices \subseteq Devices
    /\ CliJob \in Jobs
    /\ MaxOps \in Nat /\ MaxKills \in Nat

VARIABLES
    pc,       \* where the console is
    role,     \* configure_interface's parameter `iface'
    sel,      \* what the operator entered: selected_iface, ip, netmask, gateway
    scan,     \* index into RoleSeq of the role being walked
    k,        \* index into FieldSeq of the next key of that role
    snap,     \* the locals wan_dev ... mgmt_gateway of sync_legacy_to_json
    torn,     \* history: killed since the last operation that reached its end
    ops, kills,
    kernel,   \* [SystemDevices -> addresses on the live adapter]
    job       \* [Jobs -> state of the sync script in that slot]

local == <<role, sel, scan, k, snap>>
vars  == <<db, pc, role, sel, scan, k, snap, torn, ops, kills, kernel, job>>

Addresses == Ips \X Netmasks
PCs == {"menu", "clear", "erase", "store", "gather", "publish", "flush", "assign",
        "launch", "wait", "wipe", "wipeJson", "stopped"}

\* get_config(key).value_or("") on the role key under the cursor.
Here       == <<RoleSeq[scan], FieldSeq[k]>>
MoreOfRole == k < LastField(RoleSeq[scan])

\* Variant of Advance with a mistake: the walk ends after the second role.
AdvanceTwoRoles(next) ==
    IF MoreOfRole
    THEN k' = k + 1 /\ UNCHANGED <<scan, pc>>
    ELSE /\ k' = 1
         /\ IF scan < 2 THEN scan' = scan + 1 /\ UNCHANGED pc
                        ELSE scan' = 1 /\ pc' = next

\* Move the cursor to the next key of a walk over all three roles, or leave
\* the walk for pc `next' after its last key.
Advance(next) ==
    IF MoreOfRole
    THEN k' = k + 1 /\ UNCHANGED <<scan, pc>>
    ELSE /\ k' = 1
         /\ IF scan < 3 THEN scan' = scan + 1 /\ UNCHANGED pc
                        ELSE scan' = 1 /\ pc' = next

NoSnap == [r \in Roles |-> NoAddress]

Init ==
    /\ StoreInit
    /\ pc = "menu" /\ role = "WAN" /\ sel = NoAddress /\ scan = 1 /\ k = 1
    /\ snap = NoSnap /\ torn = FALSE /\ ops = 0 /\ kills = 0
    /\ kernel = [d \in SystemDevices |-> {}]
    /\ job = [j \in Jobs |-> "idle"]

--------------------------------------------------------------------------------
\* Variant of ConfigureInterface with a mistake: no other role is looked at.
ConfigureUnchecked ==
    /\ pc = "menu" /\ ops < MaxOps
    /\ \E r \in Roles, d \in Devices, ip \in Ips, nm \in Netmasks :
          /\ role' = r
          /\ sel' = [interface |-> d, ip |-> ip, netmask |-> nm, gateway |-> Empty]
    /\ pc' = "store" /\ scan' = 1 /\ k' = 1 /\ ops' = ops + 1
    /\ UNCHANGED <<db, snap, torn, kills, kernel, job>>

\* Menu items 1-3 up to the point where all input has been accepted.  Input that
\* fails validation returns to the menu with nothing changed and is no action.
\* The adapter is a menu choice or a name typed by hand, so any device name.
ConfigureInterface ==
    /\ pc = "menu" /\ ops < MaxOps
    /\ \E r \in Roles, d \in Devices, ip \in Ips, nm \in Netmasks,
          gw \in Gateways \cup {Empty} :
          /\ r = "LAN" => gw = Empty
          /\ role' = r
          /\ sel' = [interface |-> d, ip |-> ip, netmask |-> nm, gateway |-> gw]
    /\ pc' = "clear" /\ scan' = 1 /\ k' = 1 /\ ops' = ops + 1
    /\ UNCHANGED <<db, snap, torn, kills, kernel, job>>

\* Variant of ClearCheck with a mistake: the last role is not looked at.
ClearCheckShort ==
    /\ pc = "clear"
    /\ LET r == RoleSeq[scan]
       IN  \E v \in GetConfig(CliFile, <<r, "interface">>) :
             IF r # role /\ v = sel["interface"]
             THEN pc' = "erase" /\ UNCHANGED scan
             ELSE IF scan < 2 THEN scan' = scan + 1 /\ UNCHANGED pc
                              ELSE scan' = 1 /\ pc' = "store"
    /\ UNCHANGED <<db, role, sel, k, snap, torn, ops, kills, kernel, job>>

\* The loop that takes the adapter away from the other roles: look at one role.
ClearCheck ==
    /\ pc = "clear"
    /\ LET r == RoleSeq[scan]
       IN  \E v \in GetConfig(CliFile, <<r, "interface">>) :
             IF r # role /\ v = sel["interface"]
             THEN pc' = "erase" /\ UNCHANGED scan
             ELSE IF scan < 3 THEN scan' = scan + 1 /\ UNCHANGED pc
                              ELSE scan' = 1 /\ pc' = "store"
    /\ UNCHANGED <<db, role, sel, k, snap, torn, ops, kills, kernel, job>>

\* ... and one set_config(..., "") of its body.
ClearErase ==
    /\ pc = "erase"
    /\ SetConfig(CliFile, Here, Empty)
    /\ IF MoreOfRole
       THEN k' = k + 1 /\ UNCHANGED <<scan, pc>>
       ELSE /\ k' = 1
            /\ IF scan < 3 THEN scan' = scan + 1 /\ pc' = "clear"
                           ELSE scan' = 1 /\ pc' = "store"
    /\ UNCHANGED <<role, sel, snap, torn, ops, kills, kernel, job>>

\* The role's own keys, one set_config each.
StoreField ==
    /\ pc = "store"
    /\ SetConfig(CliFile, <<role, FieldSeq[k]>>, sel[FieldSeq[k]])
    /\ IF k < LastField(role)
       THEN k' = k + 1 /\ UNCHANGED pc
       ELSE k' = 1 /\ pc' = "gather"
    /\ scan' = 1
    /\ UNCHANGED <<role, sel, snap, torn, ops, kills, kernel, job>>

\* Variant of GatherField with a mistake: value_or("") is forgotten.
GatherRaw ==
    /\ pc = "gather"
    /\ \E v \in GetConfig(CliFile, Here) :
          snap' = [snap EXCEPT ![RoleSeq[scan]][FieldSeq[k]] = v]
    /\ Advance("publish")
    /\ UNCHANGED <<db, role, sel, torn, ops, kills, kernel, job>>

\* sync_legacy_to_json: eleven separate reads into locals ...
GatherField ==
    /\ pc = "gather"
    /\ \E v \in GetConfig(CliFile, Here) :
          snap' = [snap EXCEPT ![RoleSeq[scan]][FieldSeq[k]] = ValueOr(v, Empty)]
    /\ Advance("publish")
    /\ UNCHANGED <<db, role, sel, torn, ops, kills, kernel, job>>

\* ... and one write of the array built from them.  It always has exactly the
\* three roles.
PublishJson ==
    /\ pc = "publish"
    /\ SetConfig(CliFile, JsonKey, ToJson(snap))
    /\ pc' = "flush" /\ torn' = FALSE
    /\ UNCHANGED <<role, sel, scan, k, snap, ops, kills, kernel, job>>

\* ip addr flush dev ... (every ip command's failure is ignored, so a name typed
\* by hand that is no adapter of the machine changes nothing)
FlushLive ==
    /\ pc = "flush" /\ pc' = "assign"
    /\ kernel' = [d \in SystemDevices |-> IF d = sel["interface"] THEN {} ELSE kernel[d]]
    /\ UNCHANGED <<db, role, sel, scan, k, snap, torn, ops, kills, job>>

\* ip addr add ...
AssignLive ==
    /\ pc = "assign" /\ pc' = "launch"
    /\ kernel' = [d \in SystemDevices |->
                    IF d = sel["interface"]
                    THEN kernel[d] \cup {<<sel["ip"], sel["netmask"]>>} ELSE kernel[d]]
    /\ UNCHANGED <<db, role, sel, scan, k, snap, torn, ops, kills, job>>

--------------------------------------------------------------------------------
\* Menu item 5, confirmed: eleven keys set to "", the JSON last.
FactoryReset ==
    /\ pc = "menu" /\ ops < MaxOps
    /\ pc' = "wipe" /\ scan' = 1 /\ k' = 1 /\ ops' = ops + 1
    /\ UNCHANGED <<db, role, sel, snap, torn, kills, kernel, job>>

WipeField ==
    /\ pc = "wipe"
    /\ SetConfig(CliFile, Here, Empty)
    /\ Advance("wipeJson")
    /\ UNCHANGED <<role, sel, snap, torn, ops, kills, kernel, job>>

\* Variant of WipeJson with a mistake: the array survives a factory reset.
WipeJsonForgotten ==
    /\ pc = "wipeJson" /\ pc' = "launch" /\ torn' = FALSE
    /\ UNCHANGED <<db, role, sel, scan, k, snap, ops, kills, kernel, job>>

WipeJson ==
    /\ pc = "wipeJson"
    /\ SetConfig(CliFile, JsonKey, Empty)
    /\ pc' = "launch" /\ torn' = FALSE
    /\ UNCHANGED <<role, sel, scan, k, snap, ops, kills, kernel, job>>

--------------------------------------------------------------------------------
\* Both operations end with std::system("/opt/beout_os/bin/sync_network.sh"),
\* which returns when the script has ended, and go back to the menu with every
\* local out of scope.
LaunchSync ==
    /\ pc = "launch" /\ job[CliJob] = "idle"
    /\ job' = [job EXCEPT ![CliJob] = "started"]
    /\ pc' = "wait"
    /\ UNCHANGED <<db, role, sel, scan, k, snap, torn, ops, kills, kernel>>

SyncReturns ==
    /\ pc = "wait" /\ job[CliJob] = "ended"
    /\ job' = [job EXCEPT ![CliJob] = "idle"]
    /\ pc' = "menu"
    /\ role' = "WAN" /\ sel' = NoAddress /\ scan' = 1 /\ k' = 1 /\ snap' = NoSnap
    /\ UNCHANGED <<db, torn, ops, kills, kernel>>

\* Menu items 6, 7 and 8: the loop in run() ends and the process exits.
Exit ==
    /\ pc = "menu" /\ ops < MaxOps
    /\ pc' = "stopped" /\ ops' = ops + 1
    /\ UNCHANGED <<db, role, sel, scan, k, snap, torn, kills, kernel, job>>

\* The unit is stopped or the machine loses power: the process and the script it
\* waits for are gone, the store keeps what was committed.
Kill ==
    /\ pc # "stopped" /\ kills < MaxKills
    /\ pc' = "stopped" /\ kills' = kills + 1
    /\ torn' = (torn \/ pc \in {"clear", "erase", "store", "gather", "publish", "wipe", "wipeJson"})
    /\ job' = [job EXCEPT ![CliJob] = "idle"]
    /\ role' = "WAN" /\ sel' = NoAddress /\ scan' = 1 /\ k' = 1 /\ snap' = NoSnap
    /\ UNCHANGED <<db, ops, kernel>>

\* Restart=always
Restart ==
    /\ pc = "stopped" /\ pc' = "menu"
    /\ UNCHANGED <<db, role, sel, scan, k, snap, torn, ops, kills, kernel, job>>

Console ==
    \/ ClearCheck \/ ClearErase \/ StoreField \/ GatherField \/ PublishJson
    \/ FlushLive \/ AssignLive \/ WipeField \/ WipeJson \/ LaunchSync \/ SyncReturns
    \/ Restart

Operator == ConfigureInterface \/ FactoryReset \/ Exit

\* The script the console launched, seen from here: it ends some time later.
SyncEnds ==
    /\ job[CliJob] = "started"
    /\ job' = [job EXCEPT ![CliJob] = "ended"]
    /\ UNCHANGED <<db, pc, role, sel, scan, k, snap, torn, ops, kills, kernel>>

Next == Console \/ Operator \/ Kill \/ SyncEnds

Spec == Init /\ [][Next]_vars

\* Once the operator has answered the last prompt no step waits for anything but
\* the script, and systemd restarts the process: both keep taking steps.
Fairness == WF_vars(Console) /\ WF_vars(SyncEnds)
FairSpec == Spec /\ Fairness

--------------------------------------------------------------------------------
TypeOK ==
    /\ StoreTypeOK
    /\ pc \in PCs
    /\ role \in Roles
    /\ DOMAIN sel = Fields /\ \A f \in Fields : sel[f] \in FieldTexts[f] \cup {Empty}
    /\ scan \in 1..3 /\ k \in 1..4
    /\ DOMAIN snap = Roles /\ \A r \in Roles : DOMAIN snap[r] = Fields
    /\ \A r \in Roles, f \in Fields : snap[r][f] \in FieldTexts[f] \cup {Empty}
    /\ torn \in BOOLEAN /\ ops \in 0..MaxOps /\ kills \in 0..MaxKills
    /\ kernel \in [SystemDevices -> SUBSET Addresses]
    /\ job \in [Jobs -> {"idle", "started", "ended"}]

\* "Prevent duplicate device assignments across different roles"
\* (cli_engine.cpp:109): at every instant, a kill between any two writes of
\* configure_interface or factory_reset included, no adapter belongs to two roles.
DevicesDistinct == LegacyDistinct(CliFile)

\* The same of the array handed to the API and the sync script, whatever the
\* operator did before and wherever earlier operations were cut short.
PublishedDistinct == JsonDistinct(db[CliFile][JsonKey])

\* sync_legacy_to_json keeps the array a copy of the legacy keys: once an
\* operation has run to its end, and as long as none has been cut short since,
\* the array is what the keys say, or nothing where there is no configuration.
AtRest == pc \in {"menu", "stopped", "flush", "assign", "launch", "wait"}
Mirrored ==
    \/ db[CliFile][JsonKey] = ToJson(LegacyOf(CliFile))
    \/ NoConfig(db[CliFile][JsonKey]) /\ LegacyOf(CliFile) = NoSnap
MirrorWhenWhole == AtRest /\ ~torn => Mirrored

\* An operation that is cut short does not poison later ones: whatever a kill
\* left in the keys, the next array written is again a copy of the keys.
PublishRepairs ==
    [][db'[CliFile][JsonKey] # db[CliFile][JsonKey] =>
         \/ db'[CliFile][JsonKey] = ToJson(LegacyOf(CliFile)')
         \/ db'[CliFile][JsonKey] = Empty /\ LegacyOf(CliFile)' = NoSnap]_vars

\* The interface keys implement RoleAssignment: through all the single-key writes,
\* kills and restarts, an adapter passes from one role to another only by being
\* released first.
Holder == [r \in Roles |->
             IF db[CliFile][<<r, "interface">>] \in Devices
             THEN db[CliFile][<<r, "interface">>] ELSE Empty]
Assignment == INSTANCE RoleAssignment
                  WITH Role <- Roles, Adapter <- Devices, None <- Empty, holds <- Holder
ImplementsAssignment == Assignment!Spec
================================================================================
