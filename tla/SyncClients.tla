------------------------------ MODULE SyncClients ------------------------------
(***************************************************************************)
(* The sync script with the least it needs around it: clients that change  *)
(* the store and then launch the script, as POST /api/config and the       *)
(* console's operations do.  A change is here one step, whatever writes it *)
(* took; the launch follows it, but other clients and running scripts may  *)
(* come in between.                                                        *)
(***************************************************************************)
EXTENDS NetworkSync

CONSTANTS
    Stores,      \* contents a client may leave in the store
    MaxChanges   \* bound: changes made

ASSUME SyncClientsAssumption ==
    /\ MaxChanges \in Nat
    /\ \A content \in Stores :
          /\ DOMAIN content = Keys
          /\ \A r \in Roles, f \in Fields :
                content[<<r, f>>] \in FieldTexts[f] \cup {Empty, Missing}
          /\ content[JsonKey] \in Seq(Items) \cup {Empty, Missing}

VARIABLES
    due,         \* launches still owed for changes already made
    changes

clientVars == <<due, changes>>
vars == <<db, jobVars, file, kernel, clientVars>>

Init == StoreInit /\ SyncInit /\ due = 0 /\ changes = 0

Change ==
    /\ changes < MaxChanges
    /\ \E content \in Stores : db' = [db EXCEPT ![SysFile] = content]
    /\ due' = due + 1 /\ changes' = changes + 1
    /\ UNCHANGED <<jobVars, file, kernel>>

Launch(j) ==
    /\ due > 0 /\ job[j] = "idle"
    /\ job' = [job EXCEPT ![j] = "started"] /\ due' = due - 1
    /\ UNCHANGED <<db, stanzas, at, cursor, vals, file, kernel, changes>>

Collect(j) ==
    /\ job[j] = "ended" /\ job' = [job EXCEPT ![j] = "idle"]
    /\ UNCHANGED <<db, stanzas, at, cursor, vals, file, kernel, clientVars>>

Next ==
    \/ Change
    \/ \E j \in Jobs : \/ Launch(j) \/ Collect(j)
                       \/ RunStep(j) /\ UNCHANGED clientVars

Spec == Init /\ [][Next]_vars

\* Launched processes are scheduled, and a client that has changed the store goes
\* on to launch the script.
Fairness ==
    \A j \in Jobs : /\ WF_vars(Launch(j)) /\ WF_vars(Collect(j))
                    /\ WF_vars(RunStep(j) /\ UNCHANGED clientVars)
FairSpec == Spec /\ Fairness

--------------------------------------------------------------------------------
\* "Synchronizes SQLite configuration to the Debian OS network interfaces"
\* (sync_network.sh:2): when every launched script has ended, the interfaces file
\* is the store's configuration, line by line, and every adapter it names carries
\* exactly the addresses configured for it ("synchronized with OS kernel
\* networking stack", dashboard/src/App.tsx:908).
Idle == due = 0 /\ \A j \in Jobs : job[j] \in {"idle", "ended"}
Synchronized == Idle => FileFollows /\ KernelFollows

\* ... and no address stays behind on an adapter it has been moved away from:
\* an address is live on one adapter at most, as POST demands of the
\* configuration ("Duplicate IP address across interfaces", api_server.cpp:560).
AddressesDistinct ==
    Idle => \A d, e \in SystemDevices : d # e => kernel[d] \cap kernel[e] = {}

\* Whatever happens while scripts run, once the store stops changing the file
\* and the adapters end up at the last configuration and stay there.
Converges == <>[](FileFollows /\ KernelFollows)
================================================================================
