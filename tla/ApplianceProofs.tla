---------------------------- MODULE ApplianceProofs ----------------------------
(***************************************************************************)
(* What console, daemon and script guarantee together.  The theorems rest  *)
(* on those of the three components, taken over by INSTANCE: a step of the *)
(* machine is a step of one of them, whose lemmas say what it does to its  *)
(* own invariant, and here it is shown what that leaves of the others'.    *)
(***************************************************************************)
EXTENDS Appliance, TLAPS

\* The script as the console sees it: it has been started, and it ends.
CliView == [j \in Jobs |-> IF job[j] \in {"idle", "ended"} THEN job[j] ELSE "started"]

CliP  == INSTANCE ProvisioningProofs WITH MaxKills <- 0, job <- CliView
ApiP  == INSTANCE ApiConfigProofs WITH StoredJson <- Missing, StoredKeys <- {NoKeys}
SyncP == INSTANCE SyncProofs WITH Waited <- {CliJob}, Stores <- {}, MaxChanges <- 0,
                                  due <- 0, changes <- 0

--------------------------------------------------------------------------------
\* The components' assumptions on their constants follow from the machine's.
LEMMA Constants ==
    /\ CliP!DatabaseAssumption /\ CliP!ConfigStoreAssumption /\ CliP!ArrayAssumption
    /\ CliP!ProvisioningAssumption
    /\ ApiP!DatabaseAssumption /\ ApiP!ConfigStoreAssumption /\ ApiP!ArrayAssumption
    /\ ApiP!ApiConfigAssumption
    /\ SyncP!DatabaseAssumption /\ SyncP!ConfigStoreAssumption /\ SyncP!ArrayAssumption
    /\ SyncP!NetworkSyncAssumption /\ SyncP!SyncClientsAssumption
  <1> USE DatabaseAssumption, ConfigStoreAssumption, ArrayAssumption, ApplianceAssumption
  <1>1. /\ CliP!DatabaseAssumption /\ CliP!ConfigStoreAssumption
        /\ ApiP!DatabaseAssumption /\ ApiP!ConfigStoreAssumption
        /\ SyncP!DatabaseAssumption /\ SyncP!ConfigStoreAssumption
    OBVIOUS
  <1>2. CliP!ArrayAssumption /\ ApiP!ArrayAssumption /\ SyncP!ArrayAssumption
    BY DEF CliP!Items, CliP!Roles, ApiP!Items, ApiP!Roles, SyncP!Items, SyncP!Roles, Items, Roles
  <1>3. CliP!ProvisioningAssumption
    OBVIOUS
  <1>4. ApiP!ApiConfigAssumption
    <2>1. \A body \in Bodies \ {NoArray} : ApiP!IsArray(body)
      BY DEF Api!IsArray, Api!Item, Api!Roles, ApiP!IsArray, ApiP!Item, ApiP!Roles
    <2>2. ApiP!JsonDistinct(Missing)
      BY DEF ApiP!JsonDistinct
    <2>3. \A r \in ApiP!Roles, f \in ApiP!Fields : NoKeys[<<r, f>>] = Missing
      BY DEF NoKeys, LegacyKeys, Roles, Fields, ApiP!Roles, ApiP!Fields
    <2>4. QED
      BY <2>1, <2>2, <2>3
  <1>5. SyncP!NetworkSyncAssumption /\ SyncP!SyncClientsAssumption
    BY DEF SyncP!Roles, Roles
  <1>6. QED
    BY <1>1, <1>2, <1>3, <1>4, <1>5

\* The invariant behind TypeOK: the components' own ones.
Typed == CliP!Typed /\ ApiP!Typed /\ SyncP!Typed

\* The components speak of the same store.
LEMMA SameStoreTypes ==
    /\ CliP!StoreTypeOK <=> StoreTypeOK
    /\ ApiP!StoreTypeOK <=> StoreTypeOK
    /\ SyncP!StoreTypeOK <=> StoreTypeOK
    /\ CliP!StoreTypeOK' <=> StoreTypeOK'
    /\ ApiP!StoreTypeOK' <=> StoreTypeOK'
    /\ SyncP!StoreTypeOK' <=> StoreTypeOK'
  BY DEF StoreTypeOK, Keys, LegacyKeys, JsonKey, Roles, Fields, FieldTexts, Items,
     CliP!StoreTypeOK, CliP!Keys, CliP!LegacyKeys, CliP!JsonKey, CliP!Roles, CliP!Fields,
     CliP!FieldTexts, CliP!Items,
     ApiP!StoreTypeOK, ApiP!Keys, ApiP!LegacyKeys, ApiP!JsonKey, ApiP!Roles, ApiP!Fields,
     ApiP!FieldTexts, ApiP!Items,
     SyncP!StoreTypeOK, SyncP!Keys, SyncP!LegacyKeys, SyncP!JsonKey, SyncP!Roles, SyncP!Fields,
     SyncP!FieldTexts, SyncP!Items

LEMMA TypedIsTypeOK == Typed => TypeOK
  <1> SUFFICES ASSUME Typed PROVE TypeOK
    OBVIOUS
  <1>1. StoreTypeOK
    BY SameStoreTypes DEF Typed, SyncP!Typed
  <1>2. Sync!SyncTypeOK
    BY DEF Typed, SyncP!Typed, SyncP!SyncTypeOK, SyncP!JobStates, SyncP!Stanzas, SyncP!Lines,
       SyncP!Addresses, SyncP!Roles, SyncP!Fields, SyncP!FieldTexts,
       Sync!SyncTypeOK, Sync!JobStates, Sync!Stanzas, Sync!Lines, Sync!Addresses, Sync!Roles,
       Sync!Fields, Sync!FieldTexts
  <1>3. pc \in Cli!PCs
    BY DEF Typed, CliP!Typed, CliP!TypeOK, CliP!PCs, Cli!PCs
  <1>4. Api!HandlersTypeOK
    BY DEF Typed, ApiP!Typed, ApiP!Locals, ApiP!HandlersTypeOK, ApiP!WPCs, ApiP!Roles,
       ApiP!Fields, ApiP!ElementTexts, ApiP!FieldTexts, Api!HandlersTypeOK, Api!WPCs,
       Api!Roles, Api!Fields, Api!ElementTexts, Api!FieldTexts
  <1>5. QED
    BY <1>1, <1>2, <1>3, <1>4 DEF TypeOK

--------------------------------------------------------------------------------
\* The machine's initial state is the components'.
LEMMA InitIs == Init => CliP!Init /\ ApiP!Init /\ SyncP!Init
  <1> SUFFICES ASSUME Init PROVE CliP!Init /\ ApiP!Init /\ SyncP!Init
    OBVIOUS
  <1>1. CliP!Init
    <2>1. CliView = [j \in Jobs |-> "idle"]
      BY DEF Init, Cli!Init, CliView
    <2>2. QED
      BY <2>1 DEF Init, Cli!Init, Cli!StoreInit, Cli!FreshStore, Cli!Keys, Cli!LegacyKeys,
         Cli!JsonKey, Cli!Roles, Cli!Fields, Cli!NoSnap, Cli!NoAddress,
         CliP!Init, CliP!StoreInit, CliP!FreshStore, CliP!Keys, CliP!LegacyKeys, CliP!JsonKey,
         CliP!Roles, CliP!Fields, CliP!NoSnap, CliP!NoAddress
  <1>2. ApiP!Init
    BY DEF Init, Api!Init, Api!Keys, Api!LegacyKeys,
       Api!JsonKey, Api!Roles, Api!Fields, Api!NoSeed, Api!NoAddress,
       ApiP!Init, ApiP!Keys, ApiP!LegacyKeys, ApiP!JsonKey,
       ApiP!Roles, ApiP!Fields, ApiP!NoSeed, ApiP!NoAddress
  <1>3. SyncP!Init
    BY DEF Init, Cli!Init, Cli!StoreInit, Cli!FreshStore, Cli!Keys, Cli!LegacyKeys, Cli!JsonKey,
       Cli!Roles, Cli!Fields, Sync!SyncInit, Sync!NoVals, Sync!NoAddress, Sync!Roles, Sync!Fields,
       SyncP!Init, SyncP!StoreInit, SyncP!FreshStore, SyncP!Keys, SyncP!LegacyKeys, SyncP!JsonKey,
       SyncP!Roles, SyncP!Fields, SyncP!SyncInit, SyncP!NoVals, SyncP!NoAddress
  <1>4. QED
    BY <1>1, <1>2, <1>3

LEMMA TypedInit == Init => Typed
  BY InitIs, CliP!TypedInit, ApiP!TypedInit, SyncP!TypedInit, Constants DEF Typed

\* The console's steps on the machine are steps of the console.
LEMMA ConsoleIs ==
    ASSUME Typed, Cli!Operator \/ Cli!Console
    PROVE  CliP!Next
  <1> USE DEF Cli!GetConfig, CliP!GetConfig, Cli!SetConfig, CliP!SetConfig, Cli!Here, CliP!Here,
      Cli!ValueOr, CliP!ValueOr, Cli!RoleSeq, CliP!RoleSeq, Cli!FieldSeq, CliP!FieldSeq,
      Cli!LastField, CliP!LastField, Cli!MoreOfRole, CliP!MoreOfRole, Cli!Advance, CliP!Advance,
      Cli!Roles, CliP!Roles, Cli!JsonKey, CliP!JsonKey
  <1>1. job' = job => CliView' = CliView
    BY DEF CliView
  <1>2. CASE Cli!ConfigureInterface
    BY <1>1, <1>2 DEF Cli!ConfigureInterface, CliP!ConfigureInterface, CliP!Next, CliP!Operator
  <1>3. CASE Cli!FactoryReset
    BY <1>1, <1>3 DEF Cli!FactoryReset, CliP!FactoryReset, CliP!Next, CliP!Operator
  <1>4. CASE Cli!Exit
    BY <1>1, <1>4 DEF Cli!Exit, CliP!Exit, CliP!Next, CliP!Operator
  <1>5. CASE Cli!ClearCheck
    BY <1>1, <1>5 DEF Cli!ClearCheck, CliP!ClearCheck, CliP!Next, CliP!Console
  <1>6. CASE Cli!ClearErase
    BY <1>1, <1>6 DEF Cli!ClearErase, CliP!ClearErase, CliP!Next, CliP!Console
  <1>7. CASE Cli!StoreField
    BY <1>1, <1>7 DEF Cli!StoreField, CliP!StoreField, CliP!Next, CliP!Console
  <1>8. CASE Cli!GatherField
    BY <1>1, <1>8 DEF Cli!GatherField, CliP!GatherField, CliP!Next, CliP!Console
  <1>9. CASE Cli!PublishJson
    BY <1>1, <1>9
    DEF Cli!PublishJson, CliP!PublishJson, Cli!ToJson, CliP!ToJson, Cli!Item, CliP!Item,
        CliP!Next, CliP!Console
  <1>10. CASE Cli!FlushLive
    BY <1>1, <1>10 DEF Cli!FlushLive, CliP!FlushLive, CliP!Next, CliP!Console
  <1>11. CASE Cli!AssignLive
    BY <1>1, <1>11 DEF Cli!AssignLive, CliP!AssignLive, CliP!Next, CliP!Console
  <1>12. CASE Cli!WipeField
    BY <1>1, <1>12 DEF Cli!WipeField, CliP!WipeField, CliP!Next, CliP!Console
  <1>13. CASE Cli!WipeJson
    BY <1>1, <1>13 DEF Cli!WipeJson, CliP!WipeJson, CliP!Next, CliP!Console
  <1>14. CASE Cli!LaunchSync
    <2>1. CliView[CliJob] = "idle" /\ CliView' = [CliView EXCEPT ![CliJob] = "started"]
      BY <1>14, ApplianceAssumption DEF Cli!LaunchSync, CliView, Typed, SyncP!Typed, SyncP!SyncTypeOK
    <2>2. QED
      BY <1>14, <2>1 DEF Cli!LaunchSync, CliP!LaunchSync, CliP!Next, CliP!Console
  <1>15. CASE Cli!SyncReturns
    <2>1. CliView[CliJob] = "ended" /\ CliView' = [CliView EXCEPT ![CliJob] = "idle"]
      BY <1>15, ApplianceAssumption DEF Cli!SyncReturns, CliView, Typed, SyncP!Typed, SyncP!SyncTypeOK
    <2>2. QED
      BY <1>15, <2>1
      DEF Cli!SyncReturns, CliP!SyncReturns, Cli!NoSnap, CliP!NoSnap, Cli!NoAddress,
          CliP!NoAddress, Cli!Fields, CliP!Fields, CliP!Next, CliP!Console
  <1>16. CASE Cli!Restart
    BY <1>1, <1>16 DEF Cli!Restart, CliP!Restart, CliP!Next, CliP!Console
  <1>17. QED
    BY <1>2, <1>3, <1>4, <1>5, <1>6, <1>7, <1>8, <1>9, <1>10, <1>11, <1>12, <1>13, <1>14, <1>15,
       <1>16
    DEF Cli!Operator, Cli!Console

\* ... the daemon's are steps of the daemon ...
LEMMA HandlerIs ==
    ASSUME NEW w \in Workers, Api!Request(w) \/ Api!Handle(w)
    PROVE  ApiP!Request(w) \/ ApiP!Handle(w)
  <1> USE DEF Api!GetConfig, ApiP!GetConfig, Api!SetConfig, ApiP!SetConfig, Api!NoConfig,
      ApiP!NoConfig, Api!ValueOr, ApiP!ValueOr, Api!RoleSeq, ApiP!RoleSeq, Api!FieldSeq,
      ApiP!FieldSeq, Api!LastField, ApiP!LastField, Api!JsonKey, ApiP!JsonKey,
      Api!Roles, ApiP!Roles, Api!Fields, ApiP!Fields, Api!Goto, ApiP!Goto,
      Api!Answer, ApiP!Answer, Api!NextRole, ApiP!NextRole, Api!ToElement, ApiP!ToElement
  <1>1. CASE Api!Request(w)
    BY <1>1
    DEF Api!Request, ApiP!Request, Api!GetConfigRequest, ApiP!GetConfigRequest,
        Api!PostConfigRequest, ApiP!PostConfigRequest, Api!NoSeed, ApiP!NoSeed, Api!NoAddress,
        ApiP!NoAddress
  <1>2. CASE Api!ReadStored(w)
    BY <1>2 DEF Api!ReadStored, ApiP!ReadStored, ApiP!Handle
  <1>3. CASE Api!ReadLegacy(w)
    BY <1>3 DEF Api!ReadLegacy, ApiP!ReadLegacy, Api!Default, ApiP!Default, ApiP!Handle
  <1>4. CASE Api!SaveSeed(w)
    BY <1>4 DEF Api!SaveSeed, ApiP!SaveSeed, Api!Detected, ApiP!Detected, Api!ToJson, ApiP!ToJson,
                Api!Item, ApiP!Item, ApiP!Handle
  <1>5. CASE Api!Validate(w)
    BY <1>5 DEF Api!Validate, ApiP!Validate, Api!Valid, ApiP!Valid, Api!Adapters, ApiP!Adapters,
                ApiP!Handle
  <1>6. CASE Api!SaveJson(w)
    BY <1>6 DEF Api!SaveJson, ApiP!SaveJson, ApiP!Handle
  <1>7. CASE Api!SaveLegacy(w)
    BY <1>7 DEF Api!SaveLegacy, ApiP!SaveLegacy, ApiP!Handle
  <1>8. CASE Api!LaunchSync(w)
    BY <1>8 DEF Api!LaunchSync, ApiP!LaunchSync, ApiP!Handle
  <1>9. QED
    BY <1>1, <1>2, <1>3, <1>4, <1>5, <1>6, <1>7, <1>8 DEF Api!Handle

LEMMA SameStanzas ==
    /\ \A json : Sync!FromJson(json) = SyncP!FromJson(json)
    /\ \A recs : Sync!FromKeys(recs) = SyncP!FromKeys(recs)
  <1> USE DEF Sync!Address, SyncP!Address, Sync!Nth, SyncP!Nth, Sync!Cardinality, SyncP!Cardinality
  <1>1. ASSUME NEW json PROVE Sync!FromJson(json) = SyncP!FromJson(json)
    BY DEF Sync!FromJson, SyncP!FromJson, Sync!Usable, SyncP!Usable
  <1>2. ASSUME NEW recs PROVE Sync!FromKeys(recs) = SyncP!FromKeys(recs)
    BY DEF Sync!FromKeys, SyncP!FromKeys, Sync!HasIp, SyncP!HasIp, Sync!RoleSeq, SyncP!RoleSeq
  <1>3. QED
    BY <1>1, <1>2

\* ... and the script's are steps of a run.
LEMMA RunIs ==
    ASSUME NEW j \in Jobs, Sync!RunStep(j)
    PROVE  SyncP!RunStep(j)
  <1> USE DEF Sync!Goto, SyncP!Goto, Sync!ToStanza, SyncP!ToStanza, SyncP!RunStep,
      Sync!GetConfig, SyncP!GetConfig, Sync!NoConfig, SyncP!NoConfig, Sync!ValueOr, SyncP!ValueOr,
      Sync!JsonKey, SyncP!JsonKey, Sync!RoleSeq, SyncP!RoleSeq, Sync!FieldSeq, SyncP!FieldSeq,
      Sync!LastField, SyncP!LastField, Sync!NoVals, SyncP!NoVals, Sync!NoAddress, SyncP!NoAddress,
      Sync!Roles, SyncP!Roles, Sync!Fields, SyncP!Fields
  <1>1. CASE Sync!ReadJson(j)
    BY <1>1, SameStanzas DEF Sync!ReadJson, SyncP!ReadJson
  <1>2. CASE Sync!ReadKey(j)
    BY <1>2, SameStanzas DEF Sync!ReadKey, SyncP!ReadKey
  <1>3. CASE Sync!Truncate(j)
    BY <1>3 DEF Sync!Truncate, SyncP!Truncate
  <1>4. CASE Sync!AppendHead(j)
    BY <1>4 DEF Sync!AppendHead, SyncP!AppendHead
  <1>5. CASE Sync!AppendBody(j)
    BY <1>5 DEF Sync!AppendBody, SyncP!AppendBody
  <1>6. CASE Sync!Flush(j)
    BY <1>6 DEF Sync!Flush, SyncP!Flush
  <1>7. CASE Sync!Assign(j)
    BY <1>7 DEF Sync!Assign, SyncP!Assign
  <1>8. CASE Sync!RestartNetworking(j)
    BY <1>8
    DEF Sync!RestartNetworking, SyncP!RestartNetworking, Sync!Refused, SyncP!Refused,
        Sync!Orphan, SyncP!Orphan, Sync!AddressLines, SyncP!AddressLines, Sync!StanzaOf,
        SyncP!StanzaOf, Sync!FileAddresses, SyncP!FileAddresses
  <1>9. QED
    BY <1>1, <1>2, <1>3, <1>4, <1>5, <1>6, <1>7, <1>8 DEF Sync!RunStep

--------------------------------------------------------------------------------
\* What a component's step leaves of the others' types.
LEMMA ConsoleKept ==
    ASSUME CliP!Typed, StoreTypeOK', UNCHANGED consoleVars,
           kernel' \in [SystemDevices -> SUBSET (Ips \X Netmasks)]
    PROVE  CliP!Typed'
  <1>1. CliP!StoreTypeOK'
    BY SameStoreTypes
  <1>2. CliView' \in [Jobs -> {"idle", "started", "ended"}]
    BY DEF CliView
  <1>3. CliP!InputOK'
    BY DEF consoleVars, CliP!Typed, CliP!InputOK, CliP!Entered
  <1>4. QED
    BY <1>1, <1>2, <1>3 DEF consoleVars, CliP!Typed, CliP!TypeOK, CliP!Addresses

LEMMA HandlersKept ==
    ASSUME ApiP!Typed, StoreTypeOK', UNCHANGED daemonVars
    PROVE  ApiP!Typed'
  <1>1. ApiP!StoreTypeOK'
    BY SameStoreTypes
  <1>2. \A w \in Workers : ApiP!Untouched(w)
    BY DEF daemonVars, ApiP!Untouched
  <1>3. \A w \in Workers : ApiP!Bounds(w)'
    BY <1>2, ApiP!BoundsKept, Constants DEF ApiP!Typed, ApiP!Locals
  <1>4. ApiP!HandlersTypeOK'
    BY DEF daemonVars, ApiP!Typed, ApiP!Locals, ApiP!HandlersTypeOK
  <1>5. QED
    BY <1>1, <1>3, <1>4 DEF daemonVars, ApiP!Typed, ApiP!Locals

LEMMA RunsKept ==
    ASSUME SyncP!Typed, StoreTypeOK', UNCHANGED scriptVars,
           kernel' \in [SystemDevices -> SUBSET (Ips \X Netmasks)],
           job' \in [Jobs -> SyncP!JobStates],
           \A j \in Jobs : job'[j] = job[j] \/ job'[j] \in {"idle", "started"}
    PROVE  SyncP!Typed'
  <1>1. SyncP!StoreTypeOK'
    BY SameStoreTypes
  <1>2. SyncP!SyncTypeOK'
    BY DEF scriptVars, SyncP!Typed, SyncP!SyncTypeOK, SyncP!Addresses
  <1>3. SyncP!Shapes'
    BY DEF scriptVars, SyncP!Typed, SyncP!Shapes, SyncP!Places
  <1>4. QED
    BY <1>1, <1>2, <1>3 DEF SyncP!Typed

\* The other way round, what each component's types say of the machine's variables.
LEMMA MachineTyped ==
    /\ CliP!Typed => StoreTypeOK /\ kernel \in [SystemDevices -> SUBSET (Ips \X Netmasks)]
    /\ CliP!Typed' => StoreTypeOK' /\ kernel' \in [SystemDevices -> SUBSET (Ips \X Netmasks)]
    /\ ApiP!Typed => StoreTypeOK
    /\ ApiP!Typed' => StoreTypeOK'
    /\ SyncP!Typed => /\ StoreTypeOK /\ kernel \in [SystemDevices -> SUBSET (Ips \X Netmasks)]
                      /\ job \in [Jobs -> SyncP!JobStates]
    /\ SyncP!Typed' => /\ StoreTypeOK' /\ kernel' \in [SystemDevices -> SUBSET (Ips \X Netmasks)]
                       /\ job' \in [Jobs -> SyncP!JobStates]
  BY SameStoreTypes
  DEF CliP!Typed, CliP!TypeOK, CliP!Addresses, ApiP!Typed, SyncP!Typed, SyncP!SyncTypeOK,
      SyncP!Addresses

\* What the three components do to the script's slots.
LEMMA ConsoleJobs ==
    ASSUME Typed, Cli!Operator \/ Cli!Console
    PROVE  /\ job' \in [Jobs -> SyncP!JobStates]
           /\ \A j \in Jobs : job'[j] = job[j] \/ job'[j] \in {"idle", "started"}
  <1>1. job \in [Jobs -> SyncP!JobStates] /\ CliJob \in Jobs
    BY MachineTyped, ApplianceAssumption DEF Typed
  <1>2. \/ job' = job \/ job' = [job EXCEPT ![CliJob] = "started"]
        \/ job' = [job EXCEPT ![CliJob] = "idle"]
    BY DEF Cli!Operator, Cli!Console, Cli!ConfigureInterface, Cli!FactoryReset, Cli!Exit,
       Cli!ClearCheck, Cli!ClearErase, Cli!StoreField, Cli!GatherField, Cli!PublishJson,
       Cli!FlushLive, Cli!AssignLive, Cli!WipeField, Cli!WipeJson, Cli!LaunchSync,
       Cli!SyncReturns, Cli!Restart
  <1>3. QED
    BY <1>1, <1>2 DEF SyncP!JobStates

LEMMA HandlerJobs ==
    ASSUME Typed, NEW w \in Workers, ApiP!Request(w) \/ ApiP!Handle(w)
    PROVE  /\ job' \in [Jobs -> SyncP!JobStates]
           /\ \A j \in Jobs : job'[j] = job[j] \/ job'[j] \in {"idle", "started"}
  <1>1. job \in [Jobs -> SyncP!JobStates] /\ ApiJobs \subseteq Jobs
    BY MachineTyped, ApplianceAssumption DEF Typed
  <1>2. job' = job \/ \E j \in ApiJobs : job' = [job EXCEPT ![j] = "started"]
    BY DEF ApiP!Request, ApiP!Handle, ApiP!GetConfigRequest, ApiP!PostConfigRequest,
       ApiP!ReadStored, ApiP!ReadLegacy, ApiP!SaveSeed, ApiP!Validate, ApiP!SaveJson,
       ApiP!SaveLegacy, ApiP!LaunchSync
  <1>3. QED
    BY <1>1, <1>2 DEF SyncP!JobStates

LEMMA TypedNext == Typed /\ [Next]_vars => Typed'
  <1> SUFFICES ASSUME Typed, [Next]_vars PROVE Typed'
    OBVIOUS
  <1> USE DEF Typed
  <1>1. CASE (Cli!Operator \/ Cli!Console) /\ UNCHANGED <<daemonVars, scriptVars>>
    <2>1. CliP!Typed'
      BY <1>1, ConsoleIs, CliP!TypedNext, Constants
    <2>2. QED
      BY <1>1, <2>1, ConsoleJobs, MachineTyped, HandlersKept, RunsKept
  <1>2. ASSUME NEW w \in Workers, Api!Request(w) \/ Api!Handle(w),
               UNCHANGED <<consoleVars, scriptVars, kernel>>
        PROVE  Typed'
    <2>1. ApiP!Request(w) \/ ApiP!Handle(w)
      BY <1>2, HandlerIs
    <2>2. ApiP!Typed'
      BY <2>1, ApiP!TypedNext, Constants DEF ApiP!Next
    <2>3. QED
      BY <1>2, <2>1, <2>2, HandlerJobs, MachineTyped, ConsoleKept, RunsKept
  <1>3. ASSUME NEW j \in Jobs, ScriptSteps(j) PROVE Typed'
    <2>1. SyncP!Typed'
      BY <1>3, RunIs, SyncP!RunTyped, Constants DEF ScriptSteps
    <2>2. QED
      BY <1>3, <2>1, MachineTyped, ConsoleKept, HandlersKept DEF ScriptSteps
  <1>4. CASE UNCHANGED vars
    <2>1. UNCHANGED <<consoleVars, daemonVars, scriptVars, job, kernel>> /\ StoreTypeOK'
      BY <1>4, MachineTyped DEF vars, StoreTypeOK
    <2>2. QED
      BY <2>1, MachineTyped, ConsoleKept, HandlersKept, RunsKept
  <1>5. QED
    BY <1>1, <1>2, <1>3, <1>4
    DEF Next, OperatorActs, ConsoleSteps, RequestArrives, HandlerSteps

\* With console, daemon and script at work at once on whatever files they open, and with
\* any failures of the store, every variable keeps its type.
THEOREM TypeCorrect == Spec => []TypeOK
  <1>1. Spec => []Typed
    BY TypedInit, TypedNext, PTL DEF Spec
  <1>2. QED
    BY <1>1, TypedIsTypeOK, PTL
--------------------------------------------------------------------------------
\* What the documents' architecture promises when one thing is done at a time: the
\* three programs open one file, nobody starts anything before all is quiet, and no
\* store access fails.  (With two files the run split_file refutes FileFollowsApi.)
OneAtATime ==
    Serial /\ StoreFaults = {} /\ CliFile = SysFile /\ ApiFile = SysFile

\* Nobody is at work while somebody else is: one handler, or the console, or the one
\* run of the script that either of them has launched.
Alone ==
    /\ \A v, w \in Workers : wpc[v] # "idle" /\ wpc[w] # "idle" => v = w
    /\ \A i, j \in Jobs : job[i] # "idle" /\ job[j] # "idle" => i = j
    /\ \A w \in Workers : wpc[w] # "idle" => pc = "menu" /\ \A j \in Jobs : job[j] = "idle"
    /\ pc \notin {"menu", "wait"} => \A j \in Jobs : job[j] = "idle"

\* Outside the console's walks a store without an array has nothing in the keys.
WholePCs == {"menu", "stopped", "flush", "assign", "launch", "wait"}
Fresh ==
    pc \in WholePCs /\ NoConfig(db[SysFile][JsonKey]) => LegacyOf(SysFile) = Cli!NoSnap

\* A handler that is saving has got as far as its cursor, and one that is rebuilding
\* the array has found no adapter and no address.
Seeding(w) ==
    /\ wpc[w] \in {"get", "seed", "seedSave"} =>
          \A r \in Roles : seed[w][r]["interface"] = Empty /\ seed[w][r]["ip"] = Empty
    /\ wpc[w] \in {"seed", "seedSave"} => NoConfig(db[SysFile][JsonKey])
Serving(w) ==
    /\ ApiP!Following(w) /\ (wpc[w] = "launch" => ApiP!AllFollow(w))
    /\ Seeding(w)

\* A run has got as far as its cursor; with no run owed or under way, the machine
\* follows the store.
Resting ==
    /\ pc \in {"menu", "stopped"} /\ \A j \in Jobs : job[j] = "idle"
    /\ \A w \in Workers : wpc[w] \notin {"legacy", "launch"}
Machine ==
    /\ \A j \in Jobs : job[j] # "idle" => SyncP!Progress(j)
    /\ Resting => SyncP!FileFollows /\ SyncP!KernelFollows

SerialInv ==
    /\ Alone /\ CliP!WalkInv /\ Fresh
    /\ \A w \in Workers : Serving(w)
    /\ Machine

--------------------------------------------------------------------------------
\* The components' words for the store, in this state and in the next.
LEMMA SameWords ==
    /\ CliP!JsonKey = JsonKey /\ ApiP!JsonKey = JsonKey /\ SyncP!JsonKey = JsonKey
    /\ CliP!Roles = Roles /\ ApiP!Roles = Roles /\ SyncP!Roles = Roles
    /\ CliP!Fields = Fields /\ ApiP!Fields = Fields /\ SyncP!Fields = Fields
    /\ CliP!NoSnap = Cli!NoSnap
    /\ \A text : /\ ApiP!NoConfig(text) <=> NoConfig(text)
                 /\ SyncP!NoConfig(text) <=> NoConfig(text)
  BY DEF JsonKey, Roles, Fields, CliP!JsonKey, CliP!Roles, CliP!Fields, ApiP!JsonKey,
     ApiP!Roles, ApiP!Fields, SyncP!JsonKey, SyncP!Roles, SyncP!Fields, CliP!NoSnap,
     Cli!NoSnap, CliP!NoAddress, Cli!NoAddress, Cli!Roles, Cli!Fields,
     NoConfig, ApiP!NoConfig, SyncP!NoConfig

LEMMA SameLegacy ==
    /\ CliP!LegacyOf(SysFile) = LegacyOf(SysFile)
    /\ SyncP!LegacyOf(SysFile) = LegacyOf(SysFile)
    /\ CliP!LegacyOf(SysFile)' = LegacyOf(SysFile)'
    /\ SyncP!LegacyOf(SysFile)' = LegacyOf(SysFile)'
  BY DEF LegacyOf, CliP!LegacyOf, SyncP!LegacyOf, Roles, Fields, CliP!Roles, CliP!Fields,
     SyncP!Roles, SyncP!Fields, ValueOr, CliP!ValueOr, SyncP!ValueOr

\* What is read from the keys.
LEMMA LegacyIs ==
    /\ LegacyOf(SysFile) = [r \in Roles |-> [f \in Fields |-> ValueOr(db[SysFile][<<r, f>>], Empty)]]
    /\ LegacyOf(SysFile)' = [r \in Roles |-> [f \in Fields |-> ValueOr(db'[SysFile][<<r, f>>], Empty)]]
  BY DEF LegacyOf

LEMMA SerialInit == OneAtATime /\ Init => SerialInv
  <1> SUFFICES ASSUME OneAtATime, Init PROVE SerialInv
    OBVIOUS
  <1>1. CliP!Init /\ ApiP!Init /\ SyncP!Init
    BY InitIs
  <1>2. CliP!WalkInv
    BY <1>1, CliP!MirrorInit, Constants DEF CliP!MirrorInv
  <1>3. pc = "menu" /\ (\A w \in Workers : wpc[w] = "idle") /\ (\A j \in Jobs : job[j] = "idle")
    BY DEF Init, Cli!Init, Api!Init, Sync!SyncInit
  <1>4. Fresh
    <2>1. \A key \in Keys : db[SysFile][key] = Missing
      BY ApplianceAssumption
      DEF Init, Cli!Init, Cli!StoreInit, Cli!FreshStore, Cli!Keys, Cli!LegacyKeys, Cli!JsonKey,
          Cli!Roles, Cli!Fields, Keys, LegacyKeys, JsonKey, Roles, Fields
    <2>2. QED
      BY <2>1 DEF Fresh, LegacyOf, ValueOr, Keys, LegacyKeys, Cli!NoSnap, Cli!NoAddress,
                  Cli!Roles, Cli!Fields, Roles, Fields
  <1>5. ASSUME NEW w \in Workers PROVE Serving(w)
    BY <1>3, <1>5 DEF Serving, ApiP!Following, Seeding
  <1>6. SyncP!FileFollows /\ SyncP!KernelFollows
    BY <1>1, <1>3, SyncP!SyncInitInv, Constants, ApplianceAssumption
    DEF SyncP!SyncInv, SyncP!Progress, SyncP!Init
  <1>7. QED
    BY <1>2, <1>3, <1>4, <1>5, <1>6 DEF SerialInv, Alone, Machine

--------------------------------------------------------------------------------
\* While nobody but the machine's other parts has moved, what is said of a part stays.
LEMMA WalkKept == CliP!WalkInv /\ UNCHANGED <<db, consoleVars>> => CliP!WalkInv'
  BY DEF consoleVars, CliP!WalkInv, CliP!Text, CliP!Own, CliP!Behind, CliP!Copied

LEMMA FreshKept == Fresh /\ UNCHANGED db /\ (pc' \in WholePCs => pc \in WholePCs) => Fresh'
  BY DEF Fresh, LegacyOf

LEMMA ServingIdle == ASSUME NEW w \in Workers, wpc'[w] = "idle" PROVE Serving(w)'
  BY DEF Serving, ApiP!Following, Seeding

\* The script's steps.
LEMMA ScriptSerial ==
    ASSUME OneAtATime, Typed, SerialInv, NEW j \in Jobs, ScriptSteps(j)
    PROVE  SerialInv'
  <1>1. SyncP!RunStep(j) /\ UNCHANGED <<db, consoleVars, daemonVars>> /\ wpc' = wpc /\ pc' = pc
    BY RunIs DEF ScriptSteps, Sync!RunStep, Sync!ReadJson, Sync!ReadKey, Sync!Truncate,
       Sync!AppendHead, Sync!AppendBody, Sync!Flush, Sync!Assign, Sync!RestartNetworking,
       consoleVars, daemonVars
  <1>2. job[j] # "idle"
    BY <1>1 DEF SyncP!RunStep, SyncP!ReadJson, SyncP!ReadKey, SyncP!Truncate,
       SyncP!AppendHead, SyncP!AppendBody, SyncP!Flush, SyncP!Assign, SyncP!RestartNetworking
  <1>3. \A i \in Jobs \ {j} : job[i] = "idle" /\ job'[i] = "idle"
    <2>1. \A i \in Jobs \ {j} : job[i] = "idle"
      BY <1>2 DEF SerialInv, Alone
    <2>2. job \in [Jobs -> SyncP!JobStates] /\ \E s : job' = [job EXCEPT ![j] = s] \/ job' = job
      <3>1. job \in [Jobs -> SyncP!JobStates]
        BY MachineTyped DEF Typed
      <3>2. QED
        BY <1>1, <3>1 DEF SyncP!RunStep, SyncP!ReadJson, SyncP!ReadKey, SyncP!Truncate,
           SyncP!AppendHead, SyncP!AppendBody, SyncP!Flush, SyncP!Assign,
           SyncP!RestartNetworking, SyncP!Goto, SyncP!ToStanza
    <2>3. QED
      BY <2>1, <2>2
  <1>4. (\A w \in Workers : wpc[w] = "idle") /\ pc \in {"menu", "wait"}
    BY <1>2 DEF SerialInv, Alone
  <1>5. Alone'
    BY <1>1, <1>3, <1>4 DEF Alone
  <1>6. CliP!WalkInv' /\ Fresh'
    BY <1>1, WalkKept, FreshKept DEF SerialInv
  <1>7. \A w \in Workers : Serving(w)'
    BY <1>1, <1>4, ServingIdle
  <1>8. SyncP!Progress(j)'
    BY <1>1, <1>2, SyncP!RunFollows, Constants DEF Typed, SerialInv, Machine, OneAtATime
  <1>9. Machine'
    BY <1>3, <1>8 DEF Machine, Resting, SyncP!Progress
  <1>10. QED
    BY <1>5, <1>6, <1>7, <1>9 DEF SerialInv

--------------------------------------------------------------------------------
\* What there is of the machine while the console takes a step.
LEMMA ConsoleAlone ==
    ASSUME OneAtATime, Typed, SerialInv, OperatorActs \/ ConsoleSteps
    PROVE  /\ \A w \in Workers : wpc[w] = "idle" /\ wpc'[w] = "idle"
           /\ ~Cli!SyncReturns => \A j \in Jobs : job[j] = "idle"
           /\ Cli!SyncReturns => \A j \in Jobs \ {CliJob} : job[j] = "idle"
  <1>1. wpc' = wpc
    BY DEF OperatorActs, ConsoleSteps, daemonVars
  <1>2. CASE OperatorActs
    <2>1. Quiet
      BY <1>2 DEF OperatorActs, OneAtATime
    <2>2. QED
      BY <1>1, <2>1 DEF Quiet
  <1>3. CASE ConsoleSteps /\ pc \notin {"menu", "wait"}
    BY <1>1, <1>3 DEF SerialInv, Alone, ConsoleSteps, Cli!Console, Cli!SyncReturns
  <1>4. CASE ConsoleSteps /\ pc \in {"menu", "wait"}
    <2>1. Cli!SyncReturns
      BY <1>4 DEF ConsoleSteps, Cli!Console, Cli!ClearCheck, Cli!ClearErase, Cli!StoreField,
         Cli!GatherField, Cli!PublishJson, Cli!FlushLive, Cli!AssignLive, Cli!WipeField,
         Cli!WipeJson, Cli!LaunchSync, Cli!SyncReturns, Cli!Restart
    <2>2. job[CliJob] # "idle" /\ pc = "wait" /\ CliJob \in Jobs
      BY <2>1, ApplianceAssumption DEF Cli!SyncReturns
    <2>3. QED
      BY <1>1, <2>1, <2>2 DEF SerialInv, Alone
  <1>5. QED
    BY <1>2, <1>3, <1>4

\* The array a walk over the keys writes is one.
LEMMA PublishedIsArray ==
    ASSUME OneAtATime, Typed, SerialInv, CliP!PublishJson
    PROVE  ~NoConfig(db[SysFile][JsonKey])'
  <1>1. CliP!ToJson(snap) \in CliP!Seq(CliP!Items)
    BY CliP!ToJsonType, Constants DEF Typed, CliP!Typed, CliP!TypeOK
  <1>2. db'[SysFile][JsonKey] = CliP!ToJson(snap)
    <2>1. CliP!StoreTypeOK
      BY DEF Typed, CliP!Typed, CliP!TypeOK
    <2>2. QED
      BY <1>1, <2>1, CliP!SetJson, Constants, SameWords DEF CliP!PublishJson, OneAtATime
  <1>3. QED
    BY <1>1, <1>2, Constants DEF CliP!ArrayAssumption, NoConfig

\* The two steps of the console that write the array.
LEMMA ArraySteps ==
    /\ Cli!PublishJson => CliP!PublishJson
    /\ Cli!WipeJson => CliP!WipeJson
  BY DEF Cli!PublishJson, CliP!PublishJson, Cli!ToJson, CliP!ToJson, Cli!Item, CliP!Item,
     Cli!WipeJson, CliP!WipeJson, Cli!SetConfig, CliP!SetConfig, Cli!JsonKey, CliP!JsonKey,
     CliView

\* A factory reset leaves nothing in the keys.
LEMMA WipedIsEmpty ==
    ASSUME OneAtATime, Typed, SerialInv, CliP!WipeJson
    PROVE  LegacyOf(SysFile)' = Cli!NoSnap
  <1>1. CliP!WalkInv /\ pc = "wipeJson" /\ CliFile = SysFile /\ CliP!Typed
    BY DEF SerialInv, CliP!WipeJson, OneAtATime, Typed
  <1>2. \A r \in CliP!Roles, f \in CliP!Fields : CliP!Text(r, f)' = Empty
    BY <1>1, CliP!ArrayWritten, Constants DEF OneAtATime, CliP!WalkInv
  <1>3. CliP!LegacyOf(CliFile)' = [r \in CliP!Roles |-> [f \in CliP!Fields |-> CliP!Text(r, f)']]
    BY CliP!LegacyIsText, Constants
  <1>4. CliP!LegacyOf(SysFile)' = CliP!NoSnap
    BY <1>1, <1>2, <1>3 DEF CliP!NoSnap, CliP!NoAddress
  <1>5. QED
    BY <1>4, SameLegacy, SameWords

\* The console's steps.
LEMMA ConsoleSerial ==
    ASSUME OneAtATime, Typed, SerialInv, OperatorActs \/ ConsoleSteps
    PROVE  SerialInv'
  <1>1. /\ \A w \in Workers : wpc[w] = "idle" /\ wpc'[w] = "idle"
        /\ ~Cli!SyncReturns => \A j \in Jobs : job[j] = "idle"
        /\ Cli!SyncReturns => \A j \in Jobs \ {CliJob} : job[j] = "idle"
    BY ConsoleAlone
  <1>2. /\ Cli!Operator \/ Cli!Console
        /\ CliP!Next
        /\ file' = file /\ UNCHANGED <<stanzas, at, cursor, vals>>
        /\ job \in [Jobs -> SyncP!JobStates] /\ CliJob \in Jobs
    BY ConsoleIs, MachineTyped, ApplianceAssumption
    DEF Typed, OperatorActs, ConsoleSteps, scriptVars
  <1>3. CliP!WalkInv'
    BY <1>2, CliP!WalkNext, Constants DEF SerialInv, Typed, OneAtATime
  <1>4. \A w \in Workers : Serving(w)'
    BY <1>1, ServingIdle
  <1>5. CASE Cli!LaunchSync
    <2>1. /\ pc = "launch" /\ pc' = "wait" /\ db' = db
          /\ job'[CliJob] = "started" /\ \A j \in Jobs \ {CliJob} : job'[j] = "idle"
      BY <1>1, <1>2, <1>5 DEF Cli!LaunchSync, Cli!SyncReturns
    <2>2. Alone' /\ Fresh'
      BY <1>1, <2>1, FreshKept DEF Alone, SerialInv, WholePCs
    <2>3. Machine'
      BY <2>1 DEF Machine, Resting, SyncP!Progress
    <2>4. QED
      BY <1>3, <1>4, <2>2, <2>3 DEF SerialInv
  <1>6. CASE Cli!SyncReturns
    <2>1. /\ pc = "wait" /\ pc' = "menu" /\ UNCHANGED <<db, file, kernel>>
          /\ job[CliJob] = "ended" /\ \A j \in Jobs : job'[j] = "idle"
      BY <1>1, <1>2, <1>6 DEF Cli!SyncReturns
    <2>2. Alone' /\ Fresh'
      BY <1>1, <2>1, FreshKept DEF Alone, SerialInv, WholePCs
    <2>3. SyncP!FileFollows /\ SyncP!KernelFollows
      BY <1>2, <2>1 DEF SerialInv, Machine, SyncP!Progress
    <2>4. Machine'
      BY <2>1, <2>3, SyncP!SameMachine, Constants DEF Machine
    <2>5. QED
      BY <1>3, <1>4, <2>2, <2>4 DEF SerialInv
  <1>7. CASE Cli!Exit \/ Cli!Restart
    <2>1. /\ pc \in {"menu", "stopped"} /\ pc' \in {"menu", "stopped"}
          /\ UNCHANGED <<db, file, kernel, job>> /\ \A j \in Jobs : job[j] = "idle"
      BY <1>1, <1>2, <1>7 DEF Cli!Exit, Cli!Restart, Cli!SyncReturns
    <2>2. Alone' /\ Fresh'
      BY <1>1, <2>1, FreshKept DEF Alone, SerialInv, WholePCs
    <2>3. SyncP!FileFollows /\ SyncP!KernelFollows
      BY <1>1, <2>1 DEF SerialInv, Machine, Resting
    <2>4. Machine'
      BY <2>1, <2>3, SyncP!SameMachine, Constants DEF Machine
    <2>5. QED
      BY <1>3, <1>4, <2>2, <2>4 DEF SerialInv
  <1>8. ASSUME UNCHANGED job, pc' \notin {"menu", "stopped"}, Fresh', ~Cli!SyncReturns
        PROVE  SerialInv'
    <2>1. Alone' /\ Machine'
      BY <1>1, <1>8 DEF Alone, Machine, Resting
    <2>2. QED
      BY <1>3, <1>4, <1>8, <2>1 DEF SerialInv
  <1>9. CASE Cli!PublishJson
    <2>1. CliP!PublishJson
      BY <1>9, ArraySteps
    <2>2. Fresh'
      BY <2>1, PublishedIsArray DEF Fresh
    <2>3. QED
      BY <1>8, <1>9, <2>2 DEF Cli!PublishJson, Cli!SyncReturns
  <1>10. CASE Cli!WipeJson
    <2>1. CliP!WipeJson
      BY <1>10, ArraySteps
    <2>2. Fresh'
      BY <2>1, WipedIsEmpty DEF Fresh
    <2>3. QED
      BY <1>8, <1>10, <2>2 DEF Cli!WipeJson, Cli!SyncReturns
  <1>11. CASE Cli!FlushLive \/ Cli!AssignLive
    <2>1. Fresh'
      BY <1>11, FreshKept DEF SerialInv, Cli!FlushLive, Cli!AssignLive, WholePCs
    <2>2. QED
      BY <1>8, <1>11, <2>1 DEF Cli!FlushLive, Cli!AssignLive, Cli!SyncReturns
  <1>12. CASE \/ Cli!ConfigureInterface \/ Cli!FactoryReset \/ Cli!ClearCheck \/ Cli!ClearErase
              \/ Cli!StoreField \/ Cli!GatherField \/ Cli!WipeField
    <2>1. /\ pc' \notin WholePCs /\ UNCHANGED job /\ ~Cli!SyncReturns
      BY <1>12 DEF Cli!ConfigureInterface, Cli!FactoryReset, Cli!ClearCheck, Cli!ClearErase,
         Cli!StoreField, Cli!GatherField, Cli!WipeField, Cli!Advance, WholePCs, Cli!SyncReturns
    <2>2. QED
      BY <1>8, <2>1 DEF Fresh, WholePCs
  <1>13. QED
    BY <1>2, <1>5, <1>6, <1>7, <1>9, <1>10, <1>11, <1>12 DEF Cli!Operator, Cli!Console

--------------------------------------------------------------------------------
\* What there is of the machine while a handler takes a step.
LEMMA HandlerAlone ==
    ASSUME OneAtATime, Typed, SerialInv, NEW w \in Workers, RequestArrives(w) \/ HandlerSteps(w)
    PROVE  /\ ApiP!Request(w) \/ ApiP!Handle(w)
           /\ pc = "menu" /\ \A j \in Jobs : job[j] = "idle"
           /\ UNCHANGED <<consoleVars, pc, file, kernel>>
           /\ \A v \in Workers \ {w} : wpc[v] = "idle" /\ wpc'[v] = "idle"
  <1>1. ApiP!Request(w) \/ ApiP!Handle(w)
    BY HandlerIs DEF RequestArrives, HandlerSteps
  <1>2. UNCHANGED <<consoleVars, pc, file, kernel>>
    BY DEF RequestArrives, HandlerSteps, consoleVars, scriptVars
  <1>3. pc = "menu" /\ (\A j \in Jobs : job[j] = "idle") /\ \A v \in Workers \ {w} : wpc[v] = "idle"
    <2>1. CASE RequestArrives(w)
      BY <2>1 DEF RequestArrives, OneAtATime, Quiet
    <2>2. CASE HandlerSteps(w)
      <3>1. wpc[w] # "idle"
        BY <2>2 DEF HandlerSteps, Api!Handle, Api!ReadStored, Api!ReadLegacy, Api!SaveSeed,
           Api!Validate, Api!SaveJson, Api!SaveLegacy, Api!LaunchSync
      <3>2. QED
        BY <3>1 DEF SerialInv, Alone
    <2>3. QED
      BY <2>1, <2>2
  <1>4. \A v \in Workers \ {w} : wpc'[v] = wpc[v]
    <2>1. wpc \in [Workers -> ApiP!WPCs]
      BY DEF Typed, ApiP!Typed, ApiP!Locals, ApiP!HandlersTypeOK
    <2>2. \/ wpc' = wpc \/ \E s : wpc' = [wpc EXCEPT ![w] = s]
      BY <1>1 DEF ApiP!Request, ApiP!Handle, ApiP!GetConfigRequest, ApiP!PostConfigRequest,
         ApiP!ReadStored, ApiP!ReadLegacy, ApiP!SaveSeed, ApiP!Validate, ApiP!SaveJson,
         ApiP!SaveLegacy, ApiP!LaunchSync, ApiP!Goto, ApiP!Answer, ApiP!ToElement
    <2>3. QED
      BY <2>1, <2>2
  <1>5. QED
    BY <1>1, <1>2, <1>3, <1>4

\* What a handler's step does to the store: three of them write, and none of them the
\* gateway of LAN.
LEMMA HandlerWrites ==
    ASSUME OneAtATime, Typed, SerialInv, NEW w \in Workers, ApiP!Request(w) \/ ApiP!Handle(w)
    PROVE  /\ \/ db' = db
              \/ /\ ApiP!SaveSeed(w) \/ ApiP!SaveJson(w)
                 /\ LegacyOf(SysFile)' = LegacyOf(SysFile)
              \/ ApiP!SaveLegacy(w) /\ db'[SysFile][JsonKey] = db[SysFile][JsonKey]
           /\ ApiP!SaveSeed(w) =>
                 db'[SysFile][JsonKey] = ApiP!ToJson(ApiP!Detected(seed[w]))
           /\ ApiP!SaveJson(w) => db'[SysFile][JsonKey] = req[w]
           /\ db'[SysFile][<<"LAN", "gateway">>] = db[SysFile][<<"LAN", "gateway">>]
  <1>1. /\ ApiP!Placed /\ ApiFile = SysFile /\ ApiFile \in Files /\ StoreFaults = {}
        /\ ApiP!JsonKey \in ApiP!Keys /\ ApiP!LegacyKeys \subseteq ApiP!Keys
        /\ \A r \in Roles, f \in Fields : <<r, f>> \in ApiP!LegacyKeys /\ <<r, f>> # JsonKey
        /\ "LAN" \in Roles /\ "gateway" \in Fields
    BY SameWords, ApplianceAssumption, ApiP!KeysDiffer, Constants
    DEF OneAtATime, Typed, ApiP!Typed, ApiP!StoreTypeOK, ApiP!Placed, ApiP!Keys, ApiP!LegacyKeys,
        Roles, Fields
  <1>2. ASSUME NEW text, ApiP!SetConfig(ApiFile, ApiP!JsonKey, text)
        PROVE  /\ db'[SysFile][JsonKey] = text
               /\ \A r \in Roles, f \in Fields : db'[SysFile][<<r, f>>] = db[SysFile][<<r, f>>]
    BY <1>1, <1>2, ApiP!SetOne, Constants, SameWords
  <1>3. CASE ApiP!SaveSeed(w)
    BY <1>1, <1>2, <1>3, LegacyIs DEF ApiP!SaveSeed, ApiP!SaveJson
  <1>4. CASE ApiP!SaveJson(w)
    BY <1>1, <1>2, <1>4, LegacyIs DEF ApiP!SaveSeed, ApiP!SaveJson
  <1>5. CASE ApiP!SaveLegacy(w)
    <2> DEFINE item == req[w][wi[w]]
               f == ApiP!FieldSeq[wk[w]]
    <2>1. /\ item.id \in ApiP!Roles /\ f \in ApiP!Fields /\ wk[w] \in 1..ApiP!LastField(item.id)
          /\ ApiP!SetConfig(ApiFile, <<item.id, f>>, item[f])
          /\ <<item.id, f>> \in ApiP!Keys
      BY <1>5, ApiP!SaveLegacyKey, Constants DEF Typed
    <2>2. <<item.id, f>> # <<"LAN", "gateway">>
      BY <2>1 DEF ApiP!LastField, ApiP!FieldSeq
    <2>3. <<item.id, f>> # JsonKey
      BY <1>1, <2>1, SameWords
    <2> HIDE DEF item, f
    <2>4. /\ db'[SysFile][JsonKey] = db[SysFile][JsonKey]
          /\ db'[SysFile][<<"LAN", "gateway">>] = db[SysFile][<<"LAN", "gateway">>]
      BY <1>1, <2>1, <2>2, <2>3, ApiP!SetOne, Constants, SameWords
    <2>5. ~ApiP!SaveSeed(w) /\ ~ApiP!SaveJson(w)
      BY <1>5 DEF ApiP!SaveLegacy, ApiP!SaveSeed, ApiP!SaveJson
    <2>6. QED
      BY <1>5, <2>4, <2>5
  <1>6. CASE ~ApiP!SaveSeed(w) /\ ~ApiP!SaveJson(w) /\ ~ApiP!SaveLegacy(w)
    BY <1>6 DEF ApiP!Request, ApiP!Handle, ApiP!GetConfigRequest, ApiP!PostConfigRequest,
       ApiP!ReadStored, ApiP!ReadLegacy, ApiP!Validate, ApiP!LaunchSync
  <1>7. QED
    BY <1>3, <1>4, <1>5, <1>6

\* The handler at work keeps to its place.
LEMMA HandlerServing ==
    ASSUME OneAtATime, Typed, SerialInv, NEW w \in Workers, RequestArrives(w) \/ HandlerSteps(w)
    PROVE  Serving(w)'
  <1>1. /\ ApiP!Request(w) \/ ApiP!Handle(w)
        /\ pc = "menu" /\ StoreFaults = {} /\ ApiFile = SysFile
        /\ ApiP!Typed /\ Serving(w) /\ Fresh
    BY HandlerAlone DEF OneAtATime, Typed, SerialInv
  <1>2. ApiP!Following(w)' /\ (ApiP!Posted(w) => ApiP!AllFollow(w))'
    BY <1>1, ApiP!HandleFollows, Constants DEF Serving
  <1>3. wpc'[w] = "launch" => ApiP!AllFollow(w)'
    BY <1>2 DEF ApiP!Following, ApiP!Posted
  <1>4. Seeding(w)'
    <2>1. /\ wpc \in [Workers -> ApiP!WPCs] /\ DOMAIN seed = Workers /\ wk \in [Workers -> 1..4]
          /\ DOMAIN seed[w] = Roles /\ \A r \in Roles : DOMAIN seed[w][r] = Fields
          /\ wpc[w] = "seed" => wi[w] \in 1..3
      BY <1>1, SameWords DEF ApiP!Typed, ApiP!Locals, ApiP!HandlersTypeOK, ApiP!Bounds
    <2>2. CASE ApiP!GetConfigRequest(w)
      <3>1. seed'[w] = ApiP!NoSeed /\ wpc'[w] = "get"
        BY <2>1, <2>2 DEF ApiP!GetConfigRequest
      <3>2. QED
        BY <3>1 DEF Seeding, ApiP!NoSeed, ApiP!NoAddress, ApiP!Roles, ApiP!Fields, Roles
    <2>3. CASE ApiP!ReadStored(w)
      <3>1. /\ wpc[w] = "get" /\ seed' = seed /\ db' = db
            /\ wpc'[w] \in {"idle", "seed"}
            /\ wpc'[w] = "seed" => NoConfig(db[SysFile][JsonKey])
        BY <1>1, <2>1, <2>3, SameWords
        DEF ApiP!ReadStored, ApiP!GetConfig, ApiP!Goto, ApiP!Answer
      <3>2. QED
        BY <1>1, <3>1 DEF Serving, Seeding
    <2>4. CASE ApiP!ReadLegacy(w)
      <3> DEFINE r == ApiP!RoleSeq[wi[w]]
                 f == ApiP!FieldSeq[wk[w]]
                 t == ApiP!ValueOr(db[SysFile][<<r, f>>], ApiP!Default(f))
      <3>1. /\ wpc[w] = "seed" /\ db' = db /\ wpc'[w] \in {"seed", "seedSave"}
            /\ seed' = [seed EXCEPT ![w][r][f] = t]
        BY <1>1, <2>1, <2>4 DEF ApiP!ReadLegacy, ApiP!GetConfig
      <3>2. r \in Roles /\ f \in Fields
        BY <2>1, <3>1, ApiP!Numbered, Constants, SameWords
      <3>3. NoConfig(db[SysFile][JsonKey]) /\ LegacyOf(SysFile) = Cli!NoSnap
        BY <1>1, <3>1 DEF Serving, Seeding, Fresh, WholePCs
      <3>4. f \in {"interface", "ip"} => t = Empty
        <4>1. ValueOr(db[SysFile][<<r, f>>], Empty) = Empty
          BY <3>2, <3>3, LegacyIs DEF Cli!NoSnap, Cli!NoAddress, Cli!Roles, Cli!Fields, Roles, Fields
        <4>2. QED
          BY <4>1 DEF ValueOr, ApiP!ValueOr, ApiP!Default
      <3> HIDE DEF r, f, t
      <3>5. \A q \in Roles, g \in {"interface", "ip"} :
               seed'[w][q][g] = IF q = r /\ g = f THEN t ELSE seed[w][q][g]
        BY <2>1, <3>1, <3>2 DEF Fields
      <3>6. \A q \in Roles, g \in {"interface", "ip"} : seed[w][q][g] = Empty
        BY <1>1, <3>1 DEF Serving, Seeding
      <3>7. \A q \in Roles, g \in {"interface", "ip"} : seed'[w][q][g] = Empty
        BY <3>4, <3>5, <3>6
      <3>8. QED
        BY <3>1, <3>3, <3>7 DEF Seeding
    <2>5. ASSUME wpc'[w] \notin {"get", "seed", "seedSave"} PROVE Seeding(w)'
      BY <2>5 DEF Seeding
    <2>6. CASE \/ ApiP!PostConfigRequest(w) \/ ApiP!SaveSeed(w) \/ ApiP!Validate(w)
               \/ ApiP!SaveJson(w) \/ ApiP!SaveLegacy(w) \/ ApiP!LaunchSync(w)
      <3>1. wpc'[w] \notin {"get", "seed", "seedSave"}
        BY <2>1, <2>6
        DEF ApiP!PostConfigRequest, ApiP!SaveSeed, ApiP!Validate, ApiP!SaveJson,
            ApiP!SaveLegacy, ApiP!LaunchSync, ApiP!Goto, ApiP!Answer, ApiP!ToElement
      <3>2. QED
        BY <2>5, <3>1
    <2>7. QED
      BY <1>1, <2>2, <2>3, <2>4, <2>6 DEF ApiP!Request, ApiP!Handle
  <1>5. QED
    BY <1>2, <1>3, <1>4 DEF Serving

\* What the daemon stores is an array.
LEMMA StoredIsArray ==
    ASSUME Typed, NEW w \in Workers
    PROVE  /\ ~NoConfig(ApiP!ToJson(ApiP!Detected(seed[w])))
           /\ wpc[w] \in {"save", "legacy", "launch"} => ~NoConfig(req[w])
  <1>1. /\ ApiP!ToJson(ApiP!Detected(seed[w])) \in ApiP!Seq(ApiP!Items)
        /\ wpc[w] \in {"save", "legacy", "launch"} => req[w] \in ApiP!Seq(ApiP!Items)
    BY ApiP!SeedTyped, ApiP!ValidBody, Constants
    DEF Typed, ApiP!Typed, ApiP!Locals, ApiP!Bounds, ApiP!Storing
  <1>2. QED
    BY <1>1, Constants DEF ApiP!ArrayAssumption, NoConfig

LEMMA HandlerFresh ==
    ASSUME OneAtATime, Typed, SerialInv, NEW w \in Workers, RequestArrives(w) \/ HandlerSteps(w)
    PROVE  Fresh'
  <1>1. /\ ApiP!Request(w) \/ ApiP!Handle(w)
        /\ pc = "menu" /\ pc' = pc /\ Serving(w) /\ Fresh /\ ApiFile = SysFile
    BY HandlerAlone DEF SerialInv, OneAtATime
  <1>2. CASE db' = db
    BY <1>1, <1>2, FreshKept
  <1>3. CASE ApiP!SaveSeed(w) \/ ApiP!SaveJson(w)
    <2>1. ~NoConfig(db'[SysFile][JsonKey])
      BY <1>1, <1>3, HandlerWrites, StoredIsArray DEF ApiP!SaveJson
    <2>2. QED
      BY <2>1 DEF Fresh
  <1>4. CASE ApiP!SaveLegacy(w) /\ db'[SysFile][JsonKey] = db[SysFile][JsonKey]
    <2>1. db[SysFile][JsonKey] = req[w] /\ wpc[w] = "legacy"
      BY <1>1, <1>4, SameWords DEF Serving, ApiP!Following, ApiP!SaveLegacy, ApiP!Stored
    <2>2. QED
      BY <1>4, <2>1, StoredIsArray DEF Fresh
  <1>5. QED
    BY <1>1, <1>2, <1>3, <1>4, HandlerWrites

\* Filling in the array from a store without addresses asks nothing of the machine.
LEMMA SeedWantsNothing ==
    ASSUME OneAtATime, Typed, SerialInv, NEW w \in Workers, HandlerSteps(w), ApiP!SaveSeed(w)
    PROVE  SyncP!Wanted = <<>> /\ SyncP!Wanted' = <<>>
  <1>1. /\ pc = "menu" /\ Serving(w) /\ Fresh /\ wpc[w] = "seedSave"
        /\ ApiP!Request(w) \/ ApiP!Handle(w)
    BY HandlerAlone DEF SerialInv, ApiP!SaveSeed
  <1>2. NoConfig(db[SysFile][JsonKey]) /\ \A r \in Roles : seed[w][r]["ip"] = Empty
    BY <1>1 DEF Serving, Seeding
  <1>3. LegacyOf(SysFile) = Cli!NoSnap
    BY <1>1, <1>2 DEF Fresh, WholePCs
  <1>4. SyncP!Wanted = <<>>
    <2>1. SyncP!Wanted = SyncP!FromKeys(Cli!NoSnap)
      BY <1>2, <1>3, SameWords, SameLegacy DEF SyncP!Wanted
    <2>2. \A r \in SyncP!Roles : Cli!NoSnap[r]["ip"] = Empty
      BY SameWords DEF Cli!NoSnap, Cli!NoAddress, Cli!Roles, Cli!Fields, Roles
    <2>3. QED
      BY <2>1, <2>2, SyncP!NothingUsed, Constants
  <1>5. SyncP!Wanted' = <<>>
    <2> DEFINE json == ApiP!ToJson(ApiP!Detected(seed[w]))
    <2>1. Len(json) = 3 /\ \A i \in 1..3 : json[i].ip = Empty
      <3>1. DOMAIN seed[w] = Roles /\ \A r \in Roles : DOMAIN seed[w][r] = Fields
        BY SameWords DEF Typed, ApiP!Typed, ApiP!Locals
      <3>2. \A r \in Roles : ApiP!Detected(seed[w])[r]["ip"] = Empty
        BY <1>2, <3>1 DEF ApiP!Detected, ApiP!Roles, Roles, Fields
      <3>3. QED
        BY <3>2 DEF ApiP!ToJson, ApiP!Item, Roles
    <2>2. db'[SysFile][JsonKey] = json /\ ~NoConfig(json)
      BY <1>1, HandlerWrites, StoredIsArray
    <2>3. SyncP!Wanted' = SyncP!FromJson(json)
      BY <2>2, SameWords DEF SyncP!Wanted
    <2> HIDE DEF json
    <2>4. QED
      BY <2>1, <2>3, SyncP!NothingUsed, Constants
  <1>6. QED
    BY <1>4, <1>5

\* A handler's step either owes a run of the script, or starts one, or leaves the
\* machine following the store.
LEMMA HandlerMachine ==
    ASSUME OneAtATime, Typed, SerialInv, NEW w \in Workers, RequestArrives(w) \/ HandlerSteps(w)
    PROVE  Machine'
  <1>1. /\ ApiP!Request(w) \/ ApiP!Handle(w)
        /\ pc = "menu" /\ \A j \in Jobs : job[j] = "idle"
        /\ UNCHANGED <<pc, file, kernel>>
        /\ \A v \in Workers \ {w} : wpc[v] = "idle" /\ wpc'[v] = "idle"
        /\ Machine
    BY HandlerAlone DEF SerialInv
  <1>2. /\ job \in [Jobs -> SyncP!JobStates] /\ ApiJobs \subseteq Jobs
        /\ wpc \in [Workers -> ApiP!WPCs]
    BY MachineTyped, ApplianceAssumption
    DEF Typed, ApiP!Typed, ApiP!Locals, ApiP!HandlersTypeOK
  <1>3. CASE ApiP!LaunchSync(w)
    <2>1. PICK j \in ApiJobs : job' = [job EXCEPT ![j] = "started"]
      BY <1>3 DEF ApiP!LaunchSync
    <2>2. job'[j] = "started" /\ \A i \in Jobs \ {j} : job'[i] = "idle"
      BY <1>1, <1>2, <2>1
    <2>3. QED
      BY <1>2, <2>2 DEF Machine, Resting, SyncP!Progress
  <1>4. CASE wpc'[w] \in {"legacy", "launch"} /\ job' = job
    BY <1>1, <1>4 DEF Machine, Resting
  <1>5. CASE /\ wpc[w] \notin {"legacy", "launch"} /\ job' = job
             /\ (SyncP!FileFollows' <=> SyncP!FileFollows)
             /\ (SyncP!KernelFollows' <=> SyncP!KernelFollows)
    BY <1>1, <1>5 DEF Machine, Resting
  <1>6. CASE db' = db /\ ~ApiP!LaunchSync(w)
    <2>1. (wpc[w] \notin {"legacy", "launch"} /\ job' = job) \/ ApiP!SaveLegacy(w)
      BY <1>1, <1>6 DEF ApiP!Request, ApiP!Handle, ApiP!GetConfigRequest,
         ApiP!PostConfigRequest, ApiP!ReadStored, ApiP!ReadLegacy, ApiP!SaveSeed,
         ApiP!Validate, ApiP!SaveJson
    <2>2. ApiP!SaveLegacy(w) => wpc'[w] \in {"legacy", "launch"} /\ job' = job
      BY <1>2 DEF ApiP!SaveLegacy, ApiP!ToElement, ApiP!Goto
    <2>3. QED
      BY <1>1, <1>4, <1>5, <1>6, <2>1, <2>2, SyncP!SameMachine, Constants
  <1>7. CASE ApiP!SaveJson(w) \/ ApiP!SaveLegacy(w)
    BY <1>2, <1>4, <1>7 DEF ApiP!SaveJson, ApiP!SaveLegacy, ApiP!ToElement, ApiP!Goto
  <1>8. CASE ApiP!SaveSeed(w)
    <2>1. HandlerSteps(w) /\ wpc[w] = "seedSave" /\ job' = job
      BY <1>8 DEF ApiP!SaveSeed, RequestArrives, Api!Request, Api!GetConfigRequest,
         Api!PostConfigRequest
    <2>2. SyncP!Wanted = <<>> /\ SyncP!Wanted' = <<>>
      BY <1>8, <2>1, SeedWantsNothing
    <2>3. QED
      BY <1>1, <1>5, <2>1, <2>2 DEF SyncP!FileFollows, SyncP!KernelFollows
  <1>9. QED
    BY <1>1, <1>3, <1>6, <1>7, <1>8, HandlerWrites

LEMMA HandlerSerial ==
    ASSUME OneAtATime, Typed, SerialInv, NEW w \in Workers, RequestArrives(w) \/ HandlerSteps(w)
    PROVE  SerialInv'
  <1>1. /\ ApiP!Request(w) \/ ApiP!Handle(w)
        /\ pc = "menu" /\ \A j \in Jobs : job[j] = "idle"
        /\ UNCHANGED <<consoleVars, pc>>
        /\ \A v \in Workers \ {w} : wpc[v] = "idle" /\ wpc'[v] = "idle"
    BY HandlerAlone
  <1>2. Alone'
    <2>1. /\ job \in [Jobs -> SyncP!JobStates] /\ ApiJobs \subseteq Jobs
          /\ wpc \in [Workers -> ApiP!WPCs]
      BY MachineTyped, ApplianceAssumption
      DEF Typed, ApiP!Typed, ApiP!Locals, ApiP!HandlersTypeOK
    <2>2. CASE ApiP!LaunchSync(w)
      <3>1. PICK j \in ApiJobs : job' = [job EXCEPT ![j] = "started"]
        BY <2>2 DEF ApiP!LaunchSync
      <3>2. \A i \in Jobs \ {j} : job'[i] = "idle"
        BY <1>1, <2>1, <3>1
      <3>3. wpc'[w] = "idle"
        BY <2>1, <2>2 DEF ApiP!LaunchSync, ApiP!Answer
      <3>4. QED
        BY <1>1, <3>2, <3>3 DEF Alone
    <2>3. CASE ~ApiP!LaunchSync(w)
      <3>1. job' = job
        BY <1>1, <2>3 DEF ApiP!Request, ApiP!Handle, ApiP!GetConfigRequest,
           ApiP!PostConfigRequest, ApiP!ReadStored, ApiP!ReadLegacy, ApiP!SaveSeed,
           ApiP!Validate, ApiP!SaveJson, ApiP!SaveLegacy
      <3>2. QED
        BY <1>1, <3>1 DEF Alone
    <2>4. QED
      BY <2>2, <2>3
  <1>3. CliP!WalkInv'
    <2>1. CliP!WalkInv /\ CliFile = SysFile
      BY DEF SerialInv, OneAtATime
    <2>2. db'[SysFile][<<"LAN", "gateway">>] = db[SysFile][<<"LAN", "gateway">>]
      BY <1>1, HandlerWrites
    <2>3. CliP!Text("LAN", "gateway")' = CliP!Text("LAN", "gateway")
      BY <2>1, <2>2 DEF CliP!Text
    <2>4. QED
      BY <1>1, <2>1, <2>3 DEF CliP!WalkInv, consoleVars
  <1>4. ASSUME NEW v \in Workers PROVE Serving(v)'
    BY <1>1, ServingIdle, HandlerServing
  <1>5. QED
    BY <1>2, <1>3, <1>4, HandlerFresh, HandlerMachine DEF SerialInv

LEMMA SerialNext == OneAtATime /\ Typed /\ SerialInv /\ [Next]_vars => SerialInv'
  <1> SUFFICES ASSUME OneAtATime, Typed, SerialInv, [Next]_vars PROVE SerialInv'
    OBVIOUS
  <1>1. CASE UNCHANGED vars
    <2>1. UNCHANGED <<db, consoleVars, pc, wpc, req, wi, wk, seed, reply, job, file, kernel,
                      stanzas, at, cursor, vals>>
      BY <1>1 DEF vars, consoleVars, daemonVars, scriptVars
    <2>2. Alone' /\ CliP!WalkInv' /\ Fresh'
      BY <2>1, WalkKept, FreshKept DEF SerialInv, Alone
    <2>3. ASSUME NEW w \in Workers PROVE Serving(w)'
      <3>1. Serving(w)
        BY DEF SerialInv
      <3>2. QED
        BY <2>1, <3>1 DEF Serving, Seeding, ApiP!Following, ApiP!AllFollow, ApiP!FollowedTo,
           ApiP!FieldsDone, ApiP!Last, ApiP!Agrees, ApiP!Stored
    <2>4. Machine'
      <3>1. ASSUME NEW j \in Jobs, job[j] # "idle" PROVE SyncP!Progress(j)'
        <4>1. SyncP!Progress(j)
          BY <3>1 DEF SerialInv, Machine
        <4>2. /\ SyncP!Wanted' = SyncP!Wanted
              /\ SyncP!LegacyOf(SysFile)' = SyncP!LegacyOf(SysFile)
              /\ SyncP!FileFollows' <=> SyncP!FileFollows
              /\ SyncP!KernelFollows' <=> SyncP!KernelFollows
          BY <2>1, SyncP!SameMachine, Constants
        <4>3. /\ SyncP!ReadSoFar(j)' <=> SyncP!ReadSoFar(j)
              /\ SyncP!Copied(at[j] - 1)' <=> SyncP!Copied(at[j] - 1)
              /\ SyncP!Copied(at[j])' <=> SyncP!Copied(at[j])
          BY <2>1, <4>2 DEF SyncP!ReadSoFar, SyncP!Copied
        <4>4. QED
          BY <2>1, <4>1, <4>2, <4>3 DEF SyncP!Progress
      <3>2. QED
        BY <2>1, <3>1, SyncP!SameMachine, Constants DEF SerialInv, Machine, Resting
    <2>5. QED
      BY <2>2, <2>3, <2>4 DEF SerialInv
  <1>2. QED
    BY <1>1, ConsoleSerial, HandlerSerial, ScriptSerial DEF Next

LEMMA SerialAlways == OneAtATime => (Spec => [](Typed /\ SerialInv))
  <1> SUFFICES ASSUME OneAtATime PROVE Spec => [](Typed /\ SerialInv)
    OBVIOUS
  <1>1. Init => Typed /\ SerialInv
    BY TypedInit, SerialInit
  <1>2. Typed /\ SerialInv /\ [Next]_vars => (Typed /\ SerialInv)'
    BY TypedNext, SerialNext
  <1>3. QED
    BY <1>1, <1>2, PTL DEF Spec

--------------------------------------------------------------------------------
\* With one file it does not matter from which program's side the store is read.
LEMMA SameView ==
    ASSUME ApiFile = SysFile
    PROVE  /\ SyncP!FileFollows => ApiView!FileFollows
           /\ SyncP!KernelFollows => ApiView!KernelFollows
  <1>1. ApiView!Wanted = SyncP!Wanted
    <2> USE DEF ApiView!Address, SyncP!Address, ApiView!Nth, SyncP!Nth, ApiView!Cardinality,
        SyncP!Cardinality
    <2>1. ApiView!FromJson(db[SysFile][JsonKey]) = SyncP!FromJson(db[SysFile][JsonKey])
      BY DEF ApiView!FromJson, SyncP!FromJson, ApiView!Usable, SyncP!Usable
    <2>2. ApiView!FromKeys(LegacyOf(SysFile)) = SyncP!FromKeys(LegacyOf(SysFile))
      BY DEF ApiView!FromKeys, SyncP!FromKeys, ApiView!HasIp, SyncP!HasIp, ApiView!RoleSeq,
             SyncP!RoleSeq
    <2>3. ApiView!LegacyOf(SysFile) = LegacyOf(SysFile)
      BY DEF ApiView!LegacyOf, LegacyOf, ApiView!Roles, Roles, ApiView!Fields, Fields,
             ApiView!ValueOr, ValueOr
    <2>4. QED
      BY <2>1, <2>2, <2>3, SameWords, SameLegacy
      DEF ApiView!Wanted, SyncP!Wanted, ApiView!JsonKey, JsonKey, ApiView!NoConfig, NoConfig
  <1>2. QED
    BY <1>1 DEF ApiView!FileFollows, SyncP!FileFollows, ApiView!KernelFollows, SyncP!KernelFollows

LEMMA QuietFollows ==
    ASSUME OneAtATime, SerialInv
    PROVE  FileFollowsApi /\ KernelFollowsApi
  <1>1. Quiet => SyncP!FileFollows /\ SyncP!KernelFollows
    BY DEF SerialInv, Machine, Resting, Quiet
  <1>2. QED
    BY <1>1, SameView DEF OneAtATime, FileFollowsApi, KernelFollowsApi

\* When the three programs open one file, one thing is done at a time and the store
\* does what it is told, then with nothing in progress the interfaces file is the
\* configuration the daemon shows, line by line, whoever changed it last and whatever
\* was posted: bodies without some of the roles, with ports of their own or without any
\* interface included.
THEOREM FileIsWhatApiShows ==
    ASSUME OneAtATime
    PROVE  Spec => []FileFollowsApi
  <1>1. SerialInv => FileFollowsApi
    BY QuietFollows
  <1>2. QED
    BY <1>1, SerialAlways, PTL

\* ... and every adapter that configuration names, and the machine has, carries exactly
\* the addresses it gives it.
THEOREM AdaptersCarryWhatApiShows ==
    ASSUME OneAtATime
    PROVE  Spec => []KernelFollowsApi
  <1>1. SerialInv => KernelFollowsApi
    BY QuietFollows
  <1>2. QED
    BY <1>1, SerialAlways, PTL

--------------------------------------------------------------------------------
\* The two forms of the configuration.  They only say the same after a body that names
\* each role once, since the keys of a role it leaves out stay as they were, and gives
\* LAN no gateway, for which there is no key.
EveryRoleOnce ==
    \A body \in Bodies \ {NoArray} :
        /\ \A r \in Roles : \E i \in DOMAIN body : body[i].id = r
        /\ \A i, j \in DOMAIN body :
              body[i].id \in Roles /\ body[i].id = body[j].id => i = j
        /\ \A i \in DOMAIN body : body[i].id = "LAN" => body[i].gateway = Empty

\* ViewsAgree, without waiting for quiet.
Views ==
    /\ \A i \in DOMAIN ApiArray :
          ApiArray[i].id \in Roles /\ ApiArray[i].ip # Empty =>
              Item(ApiArray[i].id, LegacyOf(SysFile)[ApiArray[i].id]) = ApiArray[i]
    /\ \A r \in Roles :
          LegacyOf(SysFile)[r]["ip"] # Empty =>
              \E i \in DOMAIN ApiArray : ApiArray[i].id = r /\ ApiArray[i].ip # Empty

\* Nobody is half-way through the keys.
NoneSaving == \A w \in Workers : wpc[w] # "legacy"
NamesInv ==
    /\ NoneSaving => CliP!DistinctInv
    /\ CliP!PublishInv
    /\ pc \in WholePCs /\ NoneSaving => Views

LEMMA NamesInit == OneAtATime /\ Init => NamesInv
  <1> SUFFICES ASSUME OneAtATime, Init PROVE NamesInv
    OBVIOUS
  <1>1. CliP!DistinctInv /\ CliP!PublishInv
    BY InitIs, CliP!DistinctInit, CliP!PublishInit, Constants
  <1>2. Fresh /\ pc = "menu"
    BY SerialInit DEF SerialInv, Init, Cli!Init
  <1>3. NoConfig(db[SysFile][JsonKey])
    BY ApplianceAssumption
    DEF Init, Cli!Init, Cli!StoreInit, Cli!FreshStore, Cli!Keys, Cli!JsonKey, JsonKey, NoConfig
  <1>4. ApiArray = <<>> /\ LegacyOf(SysFile) = Cli!NoSnap
    BY <1>2, <1>3 DEF OneAtATime, ApiArray, Fresh, WholePCs
  <1>5. Views
    BY <1>4 DEF Views, Cli!NoSnap, Cli!NoAddress, Cli!Roles, Cli!Fields, Roles
  <1>6. QED
    BY <1>1, <1>5 DEF NamesInv

\* A handler that has saved every key of a complete body leaves the two forms saying
\* the same, and no adapter in two roles.
LEMMA SavedAgrees ==
    ASSUME OneAtATime, EveryRoleOnce, Typed, NEW w \in Workers, wpc[w] = "launch",
           req[w] \in Bodies \ {NoArray}, ApiP!AllFollow(w),
           db[SysFile][<<"LAN", "gateway">>] \in {Empty, Missing}
    PROVE  Views /\ LegacyDistinct(SysFile) /\ JsonDistinct(db[SysFile][JsonKey])
  <1> DEFINE body == req[w]
  <1>1. /\ ApiArray = body /\ db[SysFile][JsonKey] = body
        /\ body \in ApiP!Seq(ApiP!Items) /\ ApiP!JsonDistinct(body) /\ ApiP!IsArray(body)
        /\ Len(body) \in Nat /\ DOMAIN body = 1..Len(body)
    <2>1. db[SysFile][JsonKey] = body
      BY SameWords DEF ApiP!AllFollow, ApiP!Stored, OneAtATime
    <2>2. ~NoConfig(body)
      BY StoredIsArray
    <2>3. ApiP!IsArray(body) /\ ApiP!Valid(body)
      BY DEF Typed, ApiP!Typed, ApiP!Locals, ApiP!Bounds, ApiP!Storing
    <2>4. QED
      BY <2>1, <2>2, <2>3, ApiP!ValidBody, ApiP!ArrayIs, Constants DEF ApiArray, OneAtATime
  <1>2. /\ \A r \in Roles : \E i \in DOMAIN body : body[i].id = r
        /\ \A i, j \in DOMAIN body : body[i].id \in Roles /\ body[i].id = body[j].id => i = j
        /\ \A i \in DOMAIN body : body[i].id = "LAN" => body[i].gateway = Empty
    BY DEF EveryRoleOnce
  <1>3. ASSUME NEW i \in DOMAIN body, body[i].id \in Roles
        PROVE  /\ LegacyOf(SysFile)[body[i].id]["interface"] = body[i].interface
               /\ db[SysFile][<<body[i].id, "interface">>] = body[i].interface
               /\ LegacyOf(SysFile)[body[i].id]["ip"] = body[i].ip
               /\ LegacyOf(SysFile)[body[i].id]["netmask"] = body[i].netmask
               /\ LegacyOf(SysFile)[body[i].id]["gateway"] = body[i].gateway
    <2>1. ApiP!Last(w, i, Len(body))
      BY <1>1, <1>2, <1>3 DEF ApiP!Last
    <2>2. ApiP!Agrees(body[i])
      BY <1>3, <2>1, SameWords DEF ApiP!AllFollow
    <2>3. /\ db[SysFile][<<body[i].id, "interface">>] = body[i].interface
          /\ db[SysFile][<<body[i].id, "ip">>] = body[i].ip
          /\ db[SysFile][<<body[i].id, "netmask">>] = body[i].netmask
          /\ body[i].id # "LAN" => db[SysFile][<<body[i].id, "gateway">>] = body[i].gateway
      BY <1>3, <2>2 DEF ApiP!Agrees, ApiP!LastField, ApiP!FieldSeq, OneAtATime
    <2>4. body[i] \in ApiP!Items
      BY <1>1
    <2>5. /\ body[i].interface # Missing /\ body[i].ip # Missing /\ body[i].netmask # Missing
          /\ body[i].gateway # Missing
      BY <2>4, ConfigStoreAssumption, DatabaseAssumption DEF ApiP!Items
    <2>6. QED
      BY <1>2, <1>3, <2>3, <2>5, LegacyIs DEF Fields, Roles, ValueOr
  <1>4. Views
    <2>1. \A i \in DOMAIN body : body[i] = ApiP!Item(body[i].id, body[i])
      BY <1>1 DEF ApiP!IsArray
    <2>2. ASSUME NEW i \in DOMAIN body, body[i].id \in Roles
          PROVE  Item(body[i].id, LegacyOf(SysFile)[body[i].id]) = body[i]
      BY <1>3, <2>1, <2>2 DEF Item, ApiP!Item
    <2>3. ASSUME NEW r \in Roles, LegacyOf(SysFile)[r]["ip"] # Empty
          PROVE  \E i \in DOMAIN body : body[i].id = r /\ body[i].ip # Empty
      BY <1>2, <1>3, <2>3
    <2>4. QED
      BY <1>1, <2>2, <2>3 DEF Views
  <1>5. LegacyDistinct(SysFile)
    <2>1. ASSUME NEW r \in Roles, NEW s \in Roles, r # s,
                 db[SysFile][<<r, "interface">>] \in Devices
          PROVE  db[SysFile][<<r, "interface">>] # db[SysFile][<<s, "interface">>]
      <3>1. PICK i \in DOMAIN body : body[i].id = r
        BY <1>2
      <3>2. PICK j \in DOMAIN body : body[j].id = s
        BY <1>2
      <3>3. ~NoConfig(body)
        BY <1>1, StoredIsArray
      <3>4. i # j /\ body[i].interface \in Devices => body[i].interface # body[j].interface
        BY <1>1, <3>3 DEF ApiP!JsonDistinct, NoConfig
      <3>5. QED
        BY <1>3, <2>1, <3>1, <3>2, <3>4
    <2>2. QED
      BY <2>1 DEF LegacyDistinct
  <1>6. QED
    BY <1>1, <1>4, <1>5 DEF JsonDistinct, ApiP!JsonDistinct

\* The same of the next state.
SavedAgree ==
    \A w \in Workers :
        /\ wpc[w] = "launch" /\ req[w] \in Bodies \ {NoArray} /\ ApiP!AllFollow(w)
        /\ db[SysFile][<<"LAN", "gateway">>] \in {Empty, Missing}
        => Views /\ LegacyDistinct(SysFile) /\ JsonDistinct(db[SysFile][JsonKey])
LEMMA SavedAgreesNext ==
    ASSUME OneAtATime, EveryRoleOnce
    PROVE  Typed' => SavedAgree'
  <1>1. Typed => SavedAgree
    BY SavedAgrees DEF SavedAgree
  <1>2. QED
    BY <1>1, PTL

\* An array that is a copy of the keys, or no array and no keys.
Copy ==
    \/ db[SysFile][JsonKey] = ToJson(LegacyOf(SysFile)) /\ ~NoConfig(db[SysFile][JsonKey])
    \/ NoConfig(db[SysFile][JsonKey]) /\ LegacyOf(SysFile) = Cli!NoSnap
LEMMA CopyAgrees == ApiFile = SysFile /\ Copy => Views
  <1> SUFFICES ASSUME ApiFile = SysFile, Copy PROVE Views
    OBVIOUS
  <1>1. CASE db[SysFile][JsonKey] = ToJson(LegacyOf(SysFile)) /\ ~NoConfig(db[SysFile][JsonKey])
    <2>1. ApiArray = ToJson(LegacyOf(SysFile))
      BY <1>1 DEF ApiArray
    <2>2. /\ DOMAIN ToJson(LegacyOf(SysFile)) = 1..3
          /\ \A i \in 1..3 : ToJson(LegacyOf(SysFile))[i] = Item(RoleSeq[i], LegacyOf(SysFile)[RoleSeq[i]])
          /\ \A i \in 1..3 : RoleSeq[i] \in Roles
          /\ \A r \in Roles : \E i \in 1..3 : RoleSeq[i] = r
      BY DEF ToJson, RoleSeq, Roles
    <2>3. \A r : Item(r, LegacyOf(SysFile)[r]).id = r
                 /\ Item(r, LegacyOf(SysFile)[r]).ip = LegacyOf(SysFile)[r]["ip"]
      BY DEF Item
    <2>4. QED
      BY <2>1, <2>2, <2>3 DEF Views
  <1>2. CASE NoConfig(db[SysFile][JsonKey]) /\ LegacyOf(SysFile) = Cli!NoSnap
    <2>1. ApiArray = <<>>
      BY <1>2 DEF ApiArray
    <2>2. QED
      BY <1>2, <2>1 DEF Views, Cli!NoSnap, Cli!NoAddress, Cli!Roles, Cli!Fields, Roles
  <1>3. QED
    BY <1>1, <1>2 DEF Copy
LEMMA CopyAgreesNext == ASSUME ApiFile = SysFile PROVE Copy' => Views'
  <1>1. Copy => Views
    BY CopyAgrees
  <1>2. QED
    BY <1>1, PTL

LEMMA ViewsKept == Views /\ UNCHANGED db => Views'
  <1>1. UNCHANGED db => ApiArray' = ApiArray /\ LegacyOf(SysFile)' = LegacyOf(SysFile)
    BY DEF ApiArray, LegacyOf
  <1>2. QED
    BY <1>1 DEF Views

\* The console's steps.
LEMMA ConsoleNames ==
    ASSUME OneAtATime, Typed, SerialInv, NamesInv, OperatorActs \/ ConsoleSteps
    PROVE  NamesInv'
  <1>1. /\ \A w \in Workers : wpc[w] = "idle" /\ wpc'[w] = "idle"
        /\ CliP!Next /\ (Cli!Operator \/ Cli!Console)
        /\ StoreFaults = {} /\ CliFile = SysFile /\ ApiFile = SysFile
        /\ CliP!Typed /\ CliP!WalkInv
    BY ConsoleAlone, ConsoleIs DEF OperatorActs, ConsoleSteps, OneAtATime, Typed, SerialInv
  <1>2. CliP!DistinctInv /\ CliP!PublishInv
    BY <1>1 DEF NamesInv, NoneSaving
  <1>3. CliP!DistinctInv' /\ CliP!PublishInv'
    BY <1>1, <1>2, CliP!DistinctNext, CliP!PublishNext, Constants
  <1>4. CASE Cli!PublishJson
    <2>1. /\ CliP!ToJson(CliP!LegacyOf(CliFile)') = ToJson(LegacyOf(SysFile)')
          /\ Cli!NoSnap = CliP!NoSnap /\ CliP!JsonKey = JsonKey
          /\ CliP!LegacyOf(CliFile)' = LegacyOf(SysFile)'
      BY <1>1, SameLegacy, SameWords DEF CliP!ToJson, ToJson, CliP!Item, Item
    <2>2. /\ \/ db'[CliFile][CliP!JsonKey] = CliP!ToJson(CliP!LegacyOf(CliFile)')
             \/ db'[CliFile][CliP!JsonKey] = Empty /\ CliP!LegacyOf(CliFile)' = CliP!NoSnap
          /\ ~NoConfig(db[SysFile][JsonKey])'
      BY <1>1, <1>4, ArraySteps, CliP!ArrayWritten, PublishedIsArray, Constants
    <2>3. Copy'
      BY <1>1, <2>1, <2>2 DEF Copy, ToJson, Item, NoConfig
    <2>4. QED
      BY <1>1, <1>3, <2>3, CopyAgreesNext DEF NamesInv
  <1>5. CASE Cli!WipeJson
    <2>1. CliP!WipeJson /\ CliP!StoreTypeOK
      BY <1>1, <1>5, ArraySteps DEF CliP!Typed, CliP!TypeOK
    <2>2. db'[SysFile][JsonKey] = Empty
      BY <1>1, <2>1, CliP!SetJson, Constants, SameWords DEF CliP!WipeJson
    <2>3. Copy'
      BY <2>1, <2>2, WipedIsEmpty DEF Copy, NoConfig
    <2>4. QED
      BY <1>1, <1>3, <2>3, CopyAgreesNext DEF NamesInv
  <1>6. CASE ~Cli!PublishJson /\ ~Cli!WipeJson
    <2>1. pc' \in WholePCs => pc \in WholePCs /\ UNCHANGED db
      BY <1>1, <1>6
      DEF Cli!Operator, Cli!Console, Cli!ConfigureInterface, Cli!FactoryReset, Cli!Exit,
          Cli!ClearCheck, Cli!ClearErase, Cli!StoreField, Cli!GatherField, Cli!FlushLive,
          Cli!AssignLive, Cli!WipeField, Cli!LaunchSync, Cli!SyncReturns, Cli!Restart,
          Cli!Advance, WholePCs
    <2>2. QED
      BY <1>1, <1>3, <2>1, ViewsKept DEF NamesInv, NoneSaving
  <1>7. QED
    BY <1>4, <1>5, <1>6

\* At the menu the console's two invariants are about the store alone.
LEMMA AtMenu ==
    /\ CliFile = SysFile /\ pc = "menu" =>
          /\ CliP!DistinctInv <=> LegacyDistinct(SysFile)
          /\ CliP!PublishInv <=> JsonDistinct(db[SysFile][JsonKey])
    /\ CliFile = SysFile /\ pc' = "menu" =>
          /\ CliP!DistinctInv' <=> LegacyDistinct(SysFile)'
          /\ CliP!PublishInv' <=> JsonDistinct(db[SysFile][JsonKey])'
  BY SameWords
  DEF CliP!DistinctInv, CliP!DevicesDistinct, CliP!LegacyDistinct, LegacyDistinct,
      CliP!PublishInv, CliP!PublishedDistinct, CliP!JsonDistinct, JsonDistinct

\* The array filled in from empty keys says no more than they do.
LEMMA SeedNames ==
    ASSUME OneAtATime, Typed, SerialInv, NEW w \in Workers, HandlerSteps(w), ApiP!SaveSeed(w)
    PROVE  /\ Views' /\ LegacyDistinct(SysFile)' /\ JsonDistinct(db[SysFile][JsonKey])'
  <1> DEFINE json == ApiP!ToJson(ApiP!Detected(seed[w]))
  <1>1. /\ pc = "menu" /\ Serving(w) /\ Fresh /\ wpc[w] = "seedSave"
        /\ ApiP!Request(w) \/ ApiP!Handle(w)
        /\ ApiFile = SysFile
    BY HandlerAlone DEF SerialInv, ApiP!SaveSeed, OneAtATime
  <1>2. \A r \in Roles : seed[w][r]["ip"] = Empty /\ seed[w][r]["interface"] = Empty
    BY <1>1 DEF Serving, Seeding
  <1>3. LegacyOf(SysFile)' = Cli!NoSnap
    <2>1. LegacyOf(SysFile) = Cli!NoSnap
      BY <1>1 DEF Fresh, WholePCs, Serving, Seeding
    <2>2. db' # db \/ LegacyOf(SysFile)' = LegacyOf(SysFile)
      BY DEF LegacyOf
    <2>3. LegacyOf(SysFile)' = LegacyOf(SysFile)
      BY <1>1, <2>2, HandlerWrites DEF ApiP!SaveSeed, ApiP!SaveLegacy
    <2>4. QED
      BY <2>1, <2>3
  <1>4. db'[SysFile][JsonKey] = json /\ ~NoConfig(json) /\ ApiP!JsonDistinct(json)
    <2>1. \A n \in DOMAIN SysIfaces : SysIfaces[n] # Empty
      BY ApplianceAssumption, ConfigStoreAssumption
    <2>2. ApiP!Apart([r \in ApiP!Roles |-> seed[w][r]["interface"]]) /\ ApiP!Locals
      BY <1>2, <2>1, ApiP!Numbered, Constants, SameWords, ApplianceAssumption
      DEF ApiP!Apart, Typed, ApiP!Typed
    <2>3. QED
      BY <1>1, <2>2, HandlerWrites, StoredIsArray, ApiP!SeedDistinct, Constants
  <1>5. \A i \in DOMAIN json : json[i].ip = Empty
    <2>1. DOMAIN seed[w] = Roles /\ \A r \in Roles : DOMAIN seed[w][r] = Fields
      BY SameWords DEF Typed, ApiP!Typed, ApiP!Locals
    <2>2. \A r \in Roles : ApiP!Detected(seed[w])[r]["ip"] = Empty
      BY <1>2, <2>1 DEF ApiP!Detected, ApiP!Roles, Roles, Fields
    <2>3. QED
      BY <2>2 DEF ApiP!ToJson, ApiP!Item, Roles
  <1> HIDE DEF json
  <1>6. Views'
    <2>1. ApiArray' = json
      BY <1>1, <1>4 DEF ApiArray
    <2>2. \A r \in Roles : Cli!NoSnap[r]["ip"] = Empty
      BY DEF Cli!NoSnap, Cli!NoAddress, Cli!Roles, Cli!Fields, Roles
    <2>3. QED
      BY <1>3, <1>5, <2>1, <2>2 DEF Views
  <1>7. LegacyDistinct(SysFile)'
    <2>1. ASSUME NEW r \in Roles PROVE db'[SysFile][<<r, "interface">>] \notin Devices
      <3>1. ValueOr(db'[SysFile][<<r, "interface">>], Empty) = Empty
        BY <1>3, LegacyIs DEF Cli!NoSnap, Cli!NoAddress, Cli!Roles, Cli!Fields, Roles, Fields
      <3>2. QED
        BY <3>1, ConfigStoreAssumption DEF ValueOr
    <2>2. QED
      BY <2>1 DEF LegacyDistinct
  <1>8. JsonDistinct(db[SysFile][JsonKey])'
    BY <1>4 DEF JsonDistinct, ApiP!JsonDistinct
  <1>9. QED
    BY <1>6, <1>7, <1>8

\* The handlers' steps.
LEMMA HandlerNames ==
    ASSUME OneAtATime, EveryRoleOnce, Typed, Typed', SerialInv, SerialInv', NamesInv,
           NEW w \in Workers, RequestArrives(w) \/ HandlerSteps(w)
    PROVE  NamesInv'
  <1>1. /\ ApiP!Request(w) \/ ApiP!Handle(w)
        /\ pc = "menu" /\ pc' = "menu" /\ CliFile = SysFile
        /\ \A v \in Workers \ {w} : wpc[v] = "idle" /\ wpc'[v] = "idle"
        /\ wpc \in [Workers -> ApiP!WPCs]
    BY HandlerAlone DEF OneAtATime, Typed, ApiP!Typed, ApiP!Locals, ApiP!HandlersTypeOK
  <1>2. /\ NoneSaving => Views /\ LegacyDistinct(SysFile)
        /\ JsonDistinct(db[SysFile][JsonKey])
    BY <1>1, AtMenu DEF NamesInv, WholePCs
  <1>3. SUFFICES /\ NoneSaving' => Views' /\ LegacyDistinct(SysFile)'
                 /\ JsonDistinct(db[SysFile][JsonKey])'
    BY <1>1, AtMenu DEF NamesInv
  <1>4. ASSUME wpc'[w] = "launch"
        PROVE  Views' /\ LegacyDistinct(SysFile)' /\ JsonDistinct(db[SysFile][JsonKey])'
    <2>1. Serving(w)' /\ CliP!WalkInv'
      BY DEF SerialInv
    <2>2. ApiP!AllFollow(w)' /\ req'[w] \in Bodies \ {NoArray}
      BY <1>4, <2>1 DEF Serving, ApiP!Following
    <2>3. db'[SysFile][<<"LAN", "gateway">>] \in {Empty, Missing}
      BY <1>1, <2>1 DEF CliP!WalkInv, CliP!Text, CliP!ValueOr
    <2>4. SavedAgree'
      BY SavedAgreesNext
    <2>5. QED
      BY <1>4, <2>2, <2>3, <2>4 DEF SavedAgree
  <1>5. CASE ApiP!SaveLegacy(w)
    <2>1. wpc'[w] \in {"legacy", "launch"} /\ db'[SysFile][JsonKey] = db[SysFile][JsonKey]
      <3>1. wpc'[w] \in {"legacy", "launch"}
        BY <1>1, <1>5 DEF ApiP!SaveLegacy, ApiP!ToElement, ApiP!Goto
      <3>2. ~ApiP!SaveSeed(w) /\ ~ApiP!SaveJson(w)
        BY <1>5 DEF ApiP!SaveLegacy, ApiP!SaveSeed, ApiP!SaveJson
      <3>3. QED
        BY <1>1, <3>1, <3>2, HandlerWrites
    <2>2. JsonDistinct(db[SysFile][JsonKey])'
      BY <1>2, <2>1 DEF JsonDistinct
    <2>3. QED
      BY <1>4, <2>1, <2>2 DEF NoneSaving
  <1>6. CASE ApiP!SaveJson(w)
    <2>1. wpc'[w] \in {"legacy", "launch"} /\ db'[SysFile][JsonKey] = req[w]
      <3>1. wpc'[w] \in {"legacy", "launch"}
        BY <1>1, <1>6 DEF ApiP!SaveJson, ApiP!ToElement, ApiP!Goto
      <3>2. QED
        BY <1>1, <1>6, <3>1, HandlerWrites
    <2>2. JsonDistinct(db[SysFile][JsonKey])'
      <3>1. ApiP!IsArray(req[w]) /\ ApiP!Valid(req[w])
        BY <1>6 DEF Typed, ApiP!Typed, ApiP!Locals, ApiP!Bounds, ApiP!Storing, ApiP!SaveJson
      <3>2. ApiP!JsonDistinct(req[w])
        BY <3>1, ApiP!ValidBody, Constants
      <3>3. QED
        BY <2>1, <3>2 DEF JsonDistinct, ApiP!JsonDistinct
    <2>3. QED
      BY <1>4, <2>1, <2>2 DEF NoneSaving
  <1>7. CASE ApiP!SaveSeed(w)
    <2>1. HandlerSteps(w)
      BY <1>7 DEF ApiP!SaveSeed, RequestArrives, Api!Request, Api!GetConfigRequest,
         Api!PostConfigRequest
    <2>2. QED
      BY <1>7, <2>1, SeedNames
  <1>8. CASE ~ApiP!SaveLegacy(w) /\ ~ApiP!SaveJson(w) /\ ~ApiP!SaveSeed(w)
    <2>1. db' = db /\ NoneSaving
      <3>1. wpc[w] # "legacy"
        BY <1>1, <1>8
        DEF ApiP!Request, ApiP!Handle, ApiP!GetConfigRequest, ApiP!PostConfigRequest,
            ApiP!ReadStored, ApiP!ReadLegacy, ApiP!Validate, ApiP!LaunchSync
      <3>2. QED
        BY <1>1, <1>8, <3>1, HandlerWrites DEF NoneSaving
    <2>2. Views'
      BY <1>2, <2>1, ViewsKept
    <2>3. QED
      BY <1>2, <2>1, <2>2 DEF LegacyDistinct, JsonDistinct
  <1>9. QED
    BY <1>5, <1>6, <1>7, <1>8

\* The script changes neither form.
LEMMA NamesKept == NamesInv /\ UNCHANGED <<db, consoleVars, wpc>> => NamesInv'
  <1> SUFFICES ASSUME NamesInv, UNCHANGED <<db, consoleVars, wpc>> PROVE NamesInv'
    OBVIOUS
  <1>1. Views => Views'
    BY ViewsKept
  <1>2. (CliP!DistinctInv => CliP!DistinctInv') /\ (CliP!PublishInv => CliP!PublishInv')
    BY DEF consoleVars, CliP!DistinctInv, CliP!DevicesDistinct, CliP!LegacyDistinct, CliP!Held,
       CliP!PublishInv, CliP!PublishedDistinct, CliP!JsonDistinct, CliP!Agreed
  <1>3. QED
    BY <1>1, <1>2 DEF NamesInv, NoneSaving, consoleVars

LEMMA NamesNext ==
    ASSUME OneAtATime, EveryRoleOnce, Typed, Typed', SerialInv, SerialInv', NamesInv, [Next]_vars
    PROVE  NamesInv'
  <1>1. CASE UNCHANGED <<db, consoleVars, daemonVars>>
    BY <1>1, NamesKept DEF daemonVars
  <1>2. ASSUME NEW j \in Jobs, ScriptSteps(j) PROVE NamesInv'
    <2>1. UNCHANGED <<db, consoleVars, daemonVars>>
      BY <1>2 DEF ScriptSteps, Sync!RunStep, Sync!ReadJson, Sync!ReadKey, Sync!Truncate,
         Sync!AppendHead, Sync!AppendBody, Sync!Flush, Sync!Assign, Sync!RestartNetworking
    <2>2. QED
      BY <1>1, <2>1
  <1>3. QED
    BY <1>1, <1>2, ConsoleNames, HandlerNames DEF Next, vars

LEMMA NamesAlways == OneAtATime /\ EveryRoleOnce => (Spec => [](Typed /\ SerialInv /\ NamesInv))
  <1> SUFFICES ASSUME OneAtATime, EveryRoleOnce PROVE Spec => [](Typed /\ SerialInv /\ NamesInv)
    OBVIOUS
  <1>1. Init => Typed /\ SerialInv /\ NamesInv
    BY TypedInit, SerialInit, NamesInit
  <1>2. Typed /\ SerialInv /\ NamesInv /\ [Next]_vars => (Typed /\ SerialInv /\ NamesInv)'
    BY TypedNext, SerialNext, NamesNext
  <1>3. QED
    BY <1>1, <1>2, PTL DEF Spec

LEMMA QuietNames ==
    ASSUME OneAtATime, NamesInv
    PROVE  ViewsAgree /\ AdaptersDistinct
  <1>1. CliFile = SysFile
    BY DEF OneAtATime
  <1>2. Quiet => NoneSaving /\ pc = "menu" /\ pc \in WholePCs
    BY DEF Quiet, NoneSaving, WholePCs
  <1>3. Quiet => Views /\ LegacyDistinct(SysFile) /\ JsonDistinct(db[SysFile][JsonKey])
    BY <1>1, <1>2, AtMenu DEF NamesInv
  <1>4. QED
    BY <1>1, <1>3 DEF Views, ViewsAgree, AdaptersDistinct

\* When moreover every body posted names each role once, the console's keys and the
\* daemon's array describe the same ports whenever nothing is in progress: a role with
\* an address in one has the same record in the other.
THEOREM TwoFormsAgree ==
    ASSUME OneAtATime, EveryRoleOnce
    PROVE  Spec => []ViewsAgree
  <1>1. NamesInv => ViewsAgree
    BY QuietNames
  <1>2. QED
    BY <1>1, NamesAlways, PTL

\* ... and neither the keys nor the array give an adapter to two of the three roles, or to
\* two ports, whichever of console, POST and GET has written last.  Both conditions are
\* needed: a console operation beside a POST, or a body that leaves a role out, puts the
\* adapter of one role into the keys of another.
THEOREM OneInterfacePerAdapter ==
    ASSUME OneAtATime, EveryRoleOnce
    PROVE  Spec => []AdaptersDistinct
  <1>1. NamesInv => AdaptersDistinct
    BY QuietNames
  <1>2. QED
    BY <1>1, NamesAlways, PTL
================================================================================
