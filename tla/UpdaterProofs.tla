----------------------------- MODULE UpdaterProofs -----------------------------
(***************************************************************************)
(* What the updater guarantees for any number of manual runs, versions,    *)
(* failures and outages, in whatever way the runs overlap.                 *)
(***************************************************************************)
EXTENDS Updater, TLAPS

USE UpdaterAssumption

--------------------------------------------------------------------------------
\* dpkg's lock: a run is inside dpkg exactly while it holds the lock, so that two
\* runs are never inside at once.
Inside == {"preinst", "unpack", "postinst"}
LockHeld == \A u \in Runs : upc[u] \in Inside <=> dpkg = u
Typed == TypeOK /\ LockHeld

LEMMA TypedInit == Init => Typed
  <1> SUFFICES ASSUME Init PROVE Typed
    OBVIOUS
  <1>1. 1 \in Versions /\ 0 \in 0..MaxFaults /\ 0 \in 0..MaxPublish /\ 0 \in 0..MaxPowerLoss
    BY DEF Versions
  <1>2. TypeOK
    BY <1>1 DEF Init, TypeOK, UPCs
  <1>3. LockHeld
    BY DEF Init, LockHeld, Inside, Runs
  <1>4. QED
    BY <1>2, <1>3 DEF Typed

\* A failure is counted within its bound.
LEMMA FaultCounted == ASSUME Typed, Fault PROVE faults' \in 0..MaxFaults
  BY DEF Fault, Typed, TypeOK

\* The steps of a run that leave the machine alone: the run moves between places
\* outside dpkg.
LEMMA QuietKeepsTyped ==
    ASSUME Typed, NEW u \in Runs, NEW where \in UPCs \ Inside, UGoto(u, where),
           upc[u] \notin Inside, current' \in [Runs -> Versions],
           target' \in [Runs -> Versions], intact' \in [Runs -> BOOLEAN],
           latest' = latest, withdrawn' = withdrawn, UNCHANGED host,
           publishes' = publishes, faults' \in 0..MaxFaults, outages' = outages
    PROVE  Typed'
  <1>1. upc' \in [Runs -> UPCs] /\ \A r \in Runs : upc'[r] = IF r = u THEN where ELSE upc[r]
    BY DEF Typed, TypeOK, UGoto
  <1>2. LockHeld'
    BY <1>1 DEF Typed, LockHeld, host
  <1>3. TypeOK'
    <2>1. dpkg' # Nothing => upc'[dpkg'] \in {"preinst", "unpack", "postinst"}
      BY <1>2 DEF LockHeld, Inside, host, Typed, TypeOK
    <2>2. QED
      BY <1>1, <2>1 DEF Typed, TypeOK, host
  <1>4. QED
    BY <1>2, <1>3 DEF Typed

\* Whatever else it does, a step after which the lock and the places agree is
\* well typed in them.
LEMMA LockTyped ==
    ASSUME LockHeld', dpkg' \in Runs \cup {Nothing}
    PROVE  dpkg' # Nothing => upc'[dpkg'] \in {"preinst", "unpack", "postinst"}
  BY DEF LockHeld, Inside

LEMMA TypedNext == Typed /\ [Next]_vars => Typed'
  <1> SUFFICES ASSUME Typed, [Next]_vars PROVE Typed'
    OBVIOUS
  <1> USE DEF Inside, UPCs
  <1>1. ASSUME NEW u \in Runs, Start(u) PROVE Typed'
    <2>1. current' \in [Runs -> Versions]
      BY <1>1 DEF Start, Typed, TypeOK
    <2>2. QED
      BY <1>1, <2>1, QuietKeepsTyped DEF Start, vendor, Typed, TypeOK
  <1>2. ASSUME NEW u \in Runs, Beat(u) \/ BeatFails(u) PROVE Typed'
    BY <1>2, QuietKeepsTyped DEF Beat, BeatFails, vendor, Typed, TypeOK
  <1>3. ASSUME NEW u \in Runs, Fetch(u) PROVE Typed'
    <2>1. target' \in [Runs -> Versions]
      BY <1>3 DEF Fetch, Typed, TypeOK
    <2>2. QED
      BY <1>3, <2>1, QuietKeepsTyped DEF Fetch, vendor, Typed, TypeOK
  <1>4. ASSUME NEW u \in Runs, Download(u) PROVE Typed'
    <2>1. intact' \in [Runs -> BOOLEAN]
      BY <1>4 DEF Download, Typed, TypeOK
    <2>2. faults' \in 0..MaxFaults
      BY <1>4, FaultCounted DEF Download, Typed, TypeOK
    <2>3. QED
      BY <1>4, <2>1, <2>2, QuietKeepsTyped DEF Download, vendor, Typed, TypeOK
  <1>5. ASSUME NEW u \in Runs, NetworkFails(u) PROVE Typed'
    BY <1>5, QuietKeepsTyped DEF NetworkFails, vendor, Typed, TypeOK
  <1>6. ASSUME NEW u \in Runs, CheckSum(u) PROVE Typed'
    BY <1>6, QuietKeepsTyped DEF CheckSum, vendor, Typed, TypeOK
  <1>7. ASSUME NEW u \in Runs, DpkgLock(u) PROVE Typed'
    <2>1. CASE dpkg = Nothing
      <3>1. upc' \in [Runs -> UPCs] /\ \A r \in Runs : upc'[r] = IF r = u THEN "preinst" ELSE upc[r]
        BY <1>7, <2>1 DEF DpkgLock, UGoto, Typed, TypeOK
      <3>2. LockHeld'
        BY <1>7, <2>1, <3>1 DEF DpkgLock, Typed, LockHeld, Runs
      <3>3. QED
        BY <1>7, <2>1, <3>1, <3>2, LockTyped DEF DpkgLock, Typed, TypeOK, vendor
    <2>2. CASE dpkg # Nothing
      BY <1>7, <2>2, QuietKeepsTyped DEF DpkgLock, vendor, host, Typed, TypeOK
    <2>3. QED
      BY <2>1, <2>2
  <1>8. ASSUME NEW u \in Runs, Preinst(u) PROVE Typed'
    <2>1. dpkg = u
      BY <1>8 DEF Preinst, Typed, LockHeld
    <2>2. upc' \in [Runs -> UPCs]
      BY <1>8 DEF Preinst, KillManual, Typed, TypeOK
    <2>3. LockHeld' /\ dpkg' \in Runs \cup {Nothing}
      <3>1. CASE u \in Manual
        BY <1>8, <2>1, <3>1 DEF Preinst, KillManual, Typed, LockHeld, Runs
      <3>2. CASE u \notin Manual
        BY <1>8, <2>1, <3>2 DEF Preinst, Typed, LockHeld, Runs
      <3>3. QED
        BY <3>1, <3>2
    <2>4. installed' \in [version : Versions, intact : BOOLEAN,
                          state : {"installed", "broken", "unpacked"}]
      BY <1>8 DEF Preinst, Typed, TypeOK
    <2>5. QED
      BY <1>8, <2>2, <2>3, <2>4, LockTyped DEF Preinst, Typed, TypeOK, vendor
  <1>9. ASSUME NEW u \in Runs, Unpack(u) PROVE Typed'
    <2>1. upc' \in [Runs -> UPCs] /\ \A r \in Runs : upc'[r] = IF r = u THEN "postinst" ELSE upc[r]
      BY <1>9 DEF Unpack, UGoto, Typed, TypeOK
    <2>2. LockHeld' /\ dpkg' \in Runs \cup {Nothing}
      BY <1>9, <2>1 DEF Unpack, Typed, LockHeld, TypeOK
    <2>3. installed' \in [version : Versions, intact : BOOLEAN,
                          state : {"installed", "broken", "unpacked"}]
      BY <1>9 DEF Unpack, Typed, TypeOK
    <2>4. QED
      BY <1>9, <2>1, <2>2, <2>3, LockTyped DEF Unpack, Typed, TypeOK, vendor
  <1>10. ASSUME NEW u \in Runs, Postinst(u) PROVE Typed'
    <2>1. upc' \in [Runs -> UPCs]
      BY <1>10 DEF Postinst, Typed, TypeOK
    <2>2. LockHeld'
      BY <1>10 DEF Postinst, Typed, LockHeld, Runs
    <2>3. installed' \in [version : Versions, intact : BOOLEAN,
                          state : {"installed", "broken", "unpacked"}]
      BY <1>10 DEF Postinst, Typed, TypeOK
    <2>4. QED
      BY <1>10, <2>1, <2>2, <2>3, LockTyped DEF Postinst, Typed, TypeOK, vendor
  <1>11. ASSUME NEW u \in Runs, DpkgFails(u) PROVE Typed'
    <2>1. upc' \in [Runs -> UPCs] /\ \A r \in Runs : upc'[r] = IF r = u THEN "idle" ELSE upc[r]
      BY <1>11 DEF DpkgFails, UGoto, Typed, TypeOK
    <2>2. LockHeld'
      BY <1>11, <2>1 DEF DpkgFails, Typed, LockHeld, Runs
    <2>3. QED
      BY <1>11, <2>1, <2>2, LockTyped, FaultCounted DEF DpkgFails, Typed, TypeOK, vendor
  <1>12. ASSUME NEW u \in Runs, WriteVersion(u) PROVE Typed'
    <2>1. upc' \in [Runs -> UPCs] /\ \A r \in Runs : upc'[r] = IF r = u THEN "idle" ELSE upc[r]
      BY <1>12 DEF WriteVersion, UGoto, Typed, TypeOK
    <2>2. LockHeld' /\ dpkg' \in Runs \cup {Nothing}
      BY <1>12, <2>1 DEF WriteVersion, Typed, LockHeld, TypeOK
    <2>3. QED
      BY <1>12, <2>1, <2>2, LockTyped DEF WriteVersion, Typed, TypeOK, vendor
  <1>13. CASE ApiCrash
    <2>1. upc' \in [Runs -> UPCs]
      BY <1>13 DEF ApiCrash, KillManual, Typed, TypeOK
    <2>2. LockHeld' /\ dpkg' \in Runs \cup {Nothing}
      BY <1>13 DEF ApiCrash, KillManual, Typed, LockHeld, Runs, TypeOK
    <2>3. QED
      BY <1>13, <2>1, <2>2, LockTyped, FaultCounted DEF ApiCrash, Typed, TypeOK, vendor
  <1>14. CASE PowerLoss
    <2>1. LockHeld'
      BY <1>14 DEF PowerLoss, LockHeld, Runs
    <2>2. QED
      BY <1>14, <2>1, LockTyped DEF PowerLoss, Typed, TypeOK, vendor
  <1>15. CASE Publish
    BY <1>15 DEF Publish, Typed, TypeOK, LockHeld, uvars, host
  <1>16. CASE Withdraw
    BY <1>16 DEF Withdraw, Typed, TypeOK, LockHeld, uvars, host
  <1>17. CASE UNCHANGED vars
    BY <1>17 DEF vars, uvars, Typed, TypeOK, LockHeld
  <1>18. QED
    BY <1>1, <1>2, <1>3, <1>4, <1>5, <1>6, <1>7, <1>8, <1>9, <1>10, <1>11, <1>12,
       <1>13, <1>14, <1>15, <1>16, <1>17 DEF Next, RunSteps

\* The state of runs and machine keeps its types, and dpkg's lock is held by a
\* run that is inside dpkg, however runs start, overlap, fail and are killed.
THEOREM TypeCorrect == Spec => []TypeOK
  <1>1. Spec => []Typed
    BY TypedInit, TypedNext, PTL DEF Spec
  <1>2. Typed => TypeOK
    BY DEF Typed
  <1>3. QED
    BY <1>1, <1>2, PTL

--------------------------------------------------------------------------------
\* The inductive invariant behind OnlyCheckedInstalled: the package a run takes
\* past the comparison is the published one, and stays so until it is unpacked.
CheckedInv ==
    /\ OnlyCheckedInstalled
    /\ \A u \in Runs : upc[u] \in {"dpkg", "preinst", "unpack"} => intact[u]

LEMMA CheckedNext ==
    ASSUME ChecksumGiven = TRUE, Typed, CheckedInv, [Next]_vars
    PROVE  CheckedInv'
  <1> USE DEF CheckedInv, OnlyCheckedInstalled
  <1>1. ASSUME NEW u \in Runs, Start(u) \/ Beat(u) \/ BeatFails(u) \/ Fetch(u) \/ NetworkFails(u)
        PROVE  CheckedInv'
    BY <1>1 DEF Start, Beat, BeatFails, Fetch, NetworkFails, UGoto, host, Typed, TypeOK
  <1>2. ASSUME NEW u \in Runs, Download(u) PROVE CheckedInv'
    BY <1>2 DEF Download, UGoto, host, Typed, TypeOK
  <1>3. ASSUME NEW u \in Runs, CheckSum(u) PROVE CheckedInv'
    BY <1>3 DEF CheckSum, UGoto, host, Typed, TypeOK
  <1>4. ASSUME NEW u \in Runs, DpkgLock(u) PROVE CheckedInv'
    BY <1>4 DEF DpkgLock, UGoto, Typed, TypeOK
  <1>5. ASSUME NEW u \in Runs, Preinst(u) PROVE CheckedInv'
    <2>1. installed'.intact = installed.intact
      BY <1>5 DEF Preinst, Typed, TypeOK
    <2>2. \A r \in Runs : upc'[r] \in {"idle", upc[r]} \/ (r = u /\ upc'[r] = "unpack")
      BY <1>5 DEF Preinst, KillManual
    <2>3. QED
      BY <1>5, <2>1, <2>2 DEF Preinst
  <1>6. ASSUME NEW u \in Runs, Unpack(u) PROVE CheckedInv'
    BY <1>6 DEF Unpack, UGoto, Typed, TypeOK
  <1>7. ASSUME NEW u \in Runs, Postinst(u) PROVE CheckedInv'
    <2>1. installed'.intact = installed.intact
      BY <1>7 DEF Postinst, Typed, TypeOK
    <2>2. \A r \in Runs : upc'[r] \in {"idle", "version", upc[r]}
      BY <1>7 DEF Postinst
    <2>3. QED
      BY <1>7, <2>1, <2>2 DEF Postinst
  <1>8. ASSUME NEW u \in Runs, DpkgFails(u) \/ WriteVersion(u) PROVE CheckedInv'
    BY <1>8 DEF DpkgFails, WriteVersion, UGoto, Typed, TypeOK
  <1>9. CASE ApiCrash \/ PowerLoss
    BY <1>9 DEF ApiCrash, PowerLoss, KillManual
  <1>10. CASE Publish \/ Withdraw \/ UNCHANGED vars
    BY <1>10 DEF Publish, Withdraw, vars, uvars, host
  <1>11. QED
    BY <1>1, <1>2, <1>3, <1>4, <1>5, <1>6, <1>7, <1>8, <1>9, <1>10 DEF Next, RunSteps

\* When the metadata names a checksum, what is installed is always what the
\* vendor published, whatever arrives, whichever runs overlap or die.
THEOREM CheckedInstalled ==
    ASSUME ChecksumGiven = TRUE
    PROVE  Spec => []OnlyCheckedInstalled
  <1>1. Init => CheckedInv
    BY DEF Init, CheckedInv, OnlyCheckedInstalled
  <1>2. Typed /\ CheckedInv /\ [Next]_vars => (Typed /\ CheckedInv)'
    BY TypedNext, CheckedNext
  <1>3. CheckedInv => OnlyCheckedInstalled
    BY DEF CheckedInv
  <1>4. QED
    BY TypedInit, <1>1, <1>2, <1>3, PTL DEF Spec

--------------------------------------------------------------------------------
\* The inductive invariant behind VersionFileTrue.  A manual run never gets past
\* preinst; the timer's run is the only one that unpacks, and until it has
\* written the file it knows the version it has unpacked.
RecordInv ==
    /\ \A u \in Manual : upc[u] \notin {"unpack", "postinst", "version"}
    /\ upc[Timer] \in {"unpack", "postinst"} => installed.state # "installed"
    /\ upc[Timer] \in {"postinst", "version"} => installed.version = target[Timer]
    /\ outages = 0 /\ installed.state = "installed" =>
          versionFile = installed.version \/ upc[Timer] = "version"

LEMMA RecordNext == ASSUME Typed, RecordInv, [Next]_vars PROVE RecordInv'
  <1> USE DEF RecordInv, Runs
  <1>1. ASSUME NEW u \in Runs, Start(u) \/ Beat(u) \/ BeatFails(u) \/ Fetch(u) \/ NetworkFails(u)
        PROVE  RecordInv'
    BY <1>1 DEF Start, Beat, BeatFails, Fetch, NetworkFails, UGoto, host, Typed, TypeOK
  <1>2. ASSUME NEW u \in Runs, Download(u) \/ CheckSum(u) PROVE RecordInv'
    BY <1>2 DEF Download, CheckSum, UGoto, host, Typed, TypeOK
  <1>3. ASSUME NEW u \in Runs, DpkgLock(u) PROVE RecordInv'
    BY <1>3 DEF DpkgLock, UGoto, Typed, TypeOK
  <1>4. ASSUME NEW u \in Runs, Preinst(u) PROVE RecordInv'
    <2>1. installed'.state = "broken" /\ installed'.version = installed.version
      BY <1>4 DEF Preinst, Typed, TypeOK
    <2>2. \A r \in Manual : upc'[r] = "idle"
      BY <1>4 DEF Preinst, KillManual
    <2>3. upc'[Timer] \in {upc[Timer], "unpack"}
      BY <1>4 DEF Preinst, KillManual
    <2>4. QED
      BY <1>4, <2>1, <2>2, <2>3 DEF Preinst
  <1>5. ASSUME NEW u \in Runs, Unpack(u) PROVE RecordInv'
    <2>1. u = Timer
      BY <1>5 DEF Unpack
    <2>2. /\ upc' = [upc EXCEPT ![Timer] = "postinst"] /\ target' = target
          /\ installed'.state = "unpacked" /\ installed'.version = target[Timer]
      BY <1>5, <2>1 DEF Unpack, UGoto
    <2>3. QED
      BY <2>2 DEF Typed, TypeOK
  <1>6. ASSUME NEW u \in Runs, Postinst(u) PROVE RecordInv'
    <2>1. u = Timer
      BY <1>6 DEF Postinst
    <2>2. installed'.version = installed.version
      BY <1>6 DEF Postinst, Typed, TypeOK
    <2>3. upc'[Timer] = "version" /\ \A r \in Manual : upc'[r] = "idle"
      BY <1>6, <2>1 DEF Postinst
    <2>4. QED
      BY <1>6, <2>1, <2>2, <2>3 DEF Postinst
  <1>7. ASSUME NEW u \in Runs, DpkgFails(u) PROVE RecordInv'
    <2>1. u = Timer
      BY <1>7 DEF DpkgFails
    <2>2. QED
      BY <1>7, <2>1 DEF DpkgFails, UGoto, Typed, TypeOK
  <1>8. ASSUME NEW u \in Runs, WriteVersion(u) PROVE RecordInv'
    <2>1. u = Timer
      BY <1>8 DEF WriteVersion
    <2>2. QED
      BY <1>8, <2>1 DEF WriteVersion, UGoto, Typed, TypeOK
  <1>9. CASE ApiCrash
    BY <1>9 DEF ApiCrash, KillManual
  <1>10. CASE PowerLoss
    BY <1>10 DEF PowerLoss, Typed, TypeOK
  <1>11. CASE Publish \/ Withdraw \/ UNCHANGED vars
    BY <1>11 DEF Publish, Withdraw, vars, uvars, host
  <1>12. QED
    BY <1>1, <1>2, <1>3, <1>4, <1>5, <1>6, <1>7, <1>8, <1>9, <1>10, <1>11 DEF Next, RunSteps

\* Until the first loss of power, /etc/beout_os_version names the installed
\* version whenever no run is under way, for any number of manual runs, any
\* versions in any order, and wherever runs fail or are killed.
THEOREM VersionRecorded == Spec => []VersionFileTrue
  <1>1. Init => RecordInv
    BY DEF Init, RecordInv, Runs
  <1>2. Typed /\ RecordInv /\ [Next]_vars => (Typed /\ RecordInv)'
    BY TypedNext, RecordNext
  <1>3. RecordInv => VersionFileTrue
    BY DEF RecordInv, VersionFileTrue, NoRun, Runs
  <1>4. QED
    BY TypedInit, <1>1, <1>2, <1>3, PTL DEF Spec
================================================================================
