------------------------------- MODULE Appliance -------------------------------
(***************************************************************************)
(* The console, the daemon's configuration handlers and the sync script    *)
(* over one machine.  ApiFile and CliFile = SysFile say which database     *)
(* each opened: one file in the architecture the documents draw, two in    *)
(* the packaged one (api/main.cpp opens "./config.db" in the unit's        *)
(* working directory, provisioning/main.cpp and sync_network.sh open       *)
(* /var/lib/beout_os/config.db).                                           *)
(***************************************************************************)
EXTENDS ConfigStore

CONSTANTS
    CliFile, ApiFile, SysFile,
    SystemDevices, SysIfaces, LegacyDevice,
    Workers, Bodies, NoArray,
    Jobs, ApiJobs, CliJob,
    MaxOps, MaxRequests,
    Serial            \* TRUE: nobody starts anything before all is quiet

VARIABLES
    pc, role, sel, scan, k, snap, torn, ops, kills,      \* console
    wpc, req, wi, wk, seed, reply, requests,             \* daemon
    job, stanzas, at, cursor, vals, file, kernel         \* script and machine

consoleVars == <<pc, role, sel, scan, k, snap, torn, ops, kills>>
daemonVars  == <<wpc, req, wi, wk, seed, reply, requests>>
scriptVars  == <<stanzas, at, cursor, vals, file>>
vars == <<db, consoleVars, daemonVars, scriptVars, job, kernel>>

Cli  == INSTANCE Provisioning WITH MaxKills <- 0
NoKeys == [key \in LegacyKeys |-> Missing]
Api  == INSTANCE ApiConfig WITH StoredJson <- Missing, StoredKeys <- {NoKeys}
Sync == INSTANCE NetworkSync WITH Waited <- {CliJob}

\* The script's file as it would be if it read the daemon's database.
ApiView == INSTANCE NetworkSync WITH Waited <- {CliJob}, SysFile <- ApiFile

ASSUME ApplianceAssumption ==
    /\ {CliFile, ApiFile, SysFile} \subseteq Files
    /\ SystemDevices \subseteq Devices
    /\ LegacyDevice \in [Roles -> Devices]
    /\ SysIfaces \in Seq(Devices)
    /\ \A i, j \in DOMAIN SysIfaces : i # j => SysIfaces[i] # SysIfaces[j]
    /\ \A body \in Bodies \ {NoArray} : Api!IsArray(body)
    /\ CliJob \in Jobs /\ ApiJobs \subseteq Jobs
    /\ MaxOps \in Nat /\ MaxRequests \in Nat

Quiet ==
    /\ pc = "menu"
    /\ \A w \in Workers : wpc[w] = "idle"
    /\ \A j \in Jobs : job[j] = "idle"

Init == Cli!Init /\ Api!Init /\ Sync!SyncInit

\* The operator chooses a menu item.  (Kills are module Provisioning's.)
OperatorActs ==
    /\ Serial => Quiet
    /\ Cli!Operator
    /\ UNCHANGED <<daemonVars, scriptVars>>

ConsoleSteps == Cli!Console /\ UNCHANGED <<daemonVars, scriptVars>>

RequestArrives(w) ==
    /\ Serial => Quiet
    /\ Api!Request(w)
    /\ UNCHANGED <<consoleVars, scriptVars, kernel>>

HandlerSteps(w) ==
    /\ Api!Handle(w)
    /\ UNCHANGED <<consoleVars, scriptVars, kernel>>

ScriptSteps(j) == Sync!RunStep(j) /\ UNCHANGED <<consoleVars, daemonVars>>

Next ==
    \/ OperatorActs \/ ConsoleSteps
    \/ \E w \in Workers : RequestArrives(w) \/ HandlerSteps(w)
    \/ \E j \in Jobs : ScriptSteps(j)

Spec == Init /\ [][Next]_vars

\* Every process that has something to do is scheduled.
Fairness ==
    /\ WF_vars(ConsoleSteps)
    /\ \A w \in Workers : WF_vars(HandlerSteps(w))
    /\ \A j \in Jobs : WF_vars(ScriptSteps(j))
FairSpec == Spec /\ Fairness

--------------------------------------------------------------------------------
TypeOK ==
    /\ StoreTypeOK
    /\ Sync!SyncTypeOK
    /\ pc \in Cli!PCs
    /\ Api!HandlersTypeOK

\* "stored successfully and synchronized with OS kernel networking stack"
\* (dashboard/src/App.tsx:908): with nothing in progress, the interfaces file
\* holds what the daemon stores and shows ("single source of truth",
\* docs/ARCHITECTURE.md:41), whoever changed it last.
FileFollowsApi == Quiet => ApiView!FileFollows

\* ... and so do the adapters that configuration names.
KernelFollowsApi == Quiet => ApiView!KernelFollows

\* The console's keys and the daemon's array describe the same ports whenever
\* nothing is in progress ("Sync back to legacy configurations for compatibility
\* with CLI client", api_server.cpp:588; "for API/dashboard compatibility",
\* cli_engine.cpp:132): a role with an address in one has the same record in the
\* other.
ApiArray == IF NoConfig(db[ApiFile][JsonKey]) THEN <<>> ELSE db[ApiFile][JsonKey]
ViewsAgree ==
    Quiet =>
        /\ \A i \in DOMAIN ApiArray :
              ApiArray[i].id \in Roles /\ ApiArray[i].ip # Empty =>
                  Item(ApiArray[i].id, LegacyOf(CliFile)[ApiArray[i].id]) = ApiArray[i]
        /\ \A r \in Roles :
              LegacyOf(CliFile)[r]["ip"] # Empty =>
                  \E i \in DOMAIN ApiArray : ApiArray[i].id = r /\ ApiArray[i].ip # Empty

\* A port added on the dashboard stays until a POST or a factory reset removes
\* it: the console's synchronisation is "for API/dashboard compatibility"
\* (cli_engine.cpp:132).
CustomPorts == {ApiArray[i] : i \in {n \in DOMAIN ApiArray : ApiArray[n].id \in CustomIds}}
CustomPortsKept ==
    [][CustomPorts \subseteq CustomPorts' \/ pc = "wipeJson"
        \/ \E w \in Workers : wpc[w] = "save"]_vars

\* "Prevent duplicate device assignments across different roles"
\* (cli_engine.cpp:109), "Duplicate adapter device across interfaces"
\* (api_server.cpp:578): each of the two programs compares adapters in one form of the
\* configuration only, the console in the keys and a POST in its array, and both
\* write the two forms.  With nothing in progress neither form has an adapter twice,
\* whichever of them wrote last.  That is a claim about operations that follow one
\* another (Serial) and about bodies that name each role once: a console operation
\* beside a POST, or a body without a role, breaks it.
AdaptersDistinct ==
    Quiet => LegacyDistinct(CliFile) /\ JsonDistinct(db[CliFile][JsonKey])

\* Everything started comes to an end.
Settles == []<>Quiet
================================================================================
