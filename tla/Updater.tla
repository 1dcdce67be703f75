-------------------------------- MODULE Updater --------------------------------
(***************************************************************************)
(* The update section of packaging/check_updates.sh and the package's      *)
(* maintainer scripts (packaging/debian/DEBIAN).  systemd runs one         *)
(* instance from a timer in a unit of its own; POST /api/update/check of   *)
(* the daemon starts others, which live in the daemon's unit and die with  *)
(* it: the upgrade they install begins by stopping that unit.              *)
(***************************************************************************)
EXTENDS Naturals

CONSTANTS
    Timer, Manual,    \* the run of the timer's unit; those the daemon starts
    LastVersion,      \* versions are 1..LastVersion, published in any order
    Rollback,         \* TRUE: the vendor may publish an older version again
    ChecksumGiven,    \* the metadata names the package's checksum
    Nothing,          \* no update published; nobody
    MaxPublish, MaxFaults, MaxPowerLoss \* bounds: publications, failures, outages

ASSUME UpdaterAssumption ==
    /\ Timer \notin Manual /\ Nothing \notin Manual \cup {Timer} \cup (1..LastVersion)
    /\ LastVersion \in Nat \ {0} /\ Rollback \in BOOLEAN /\ ChecksumGiven \in BOOLEAN
    /\ MaxPublish \in Nat /\ MaxFaults \in Nat /\ MaxPowerLoss \in Nat

Runs     == Manual \cup {Timer}
Versions == 1..LastVersion

VARIABLES
    upc,          \* [Runs -> where this run of the script is]
    current,      \* [Runs -> CURRENT_VERSION as it read it]
    target,       \* [Runs -> LATEST_VERSION as it read it]
    intact,       \* [Runs -> the downloaded package is what was published]
    latest,       \* the version the vendor publishes, or Nothing
    withdrawn,    \* the vendor's heartbeat answers REVOKED
    versionFile,  \* /etc/beout_os_version
    installed,    \* the package's files: version, intact, and dpkg's state of it
    dpkg,         \* the run that holds dpkg's lock, or Nothing
    api,          \* the daemon's unit
    publishes, faults, outages

uvars == <<upc, current, target, intact>>
vars  == <<uvars, latest, withdrawn, versionFile, installed, dpkg, api,
           publishes, faults, outages>>
host  == <<versionFile, installed, dpkg, api>>
vendor == <<latest, withdrawn, publishes>>

UPCs == {"idle", "beat", "fetch", "download", "check", "dpkg", "preinst",
         "unpack", "postinst", "version"}

Init ==
    /\ upc = [u \in Runs |-> "idle"]
    /\ current = [u \in Runs |-> 1] /\ target = [u \in Runs |-> 1]
    /\ intact = [u \in Runs |-> TRUE]
    /\ latest = Nothing /\ withdrawn = FALSE
    /\ versionFile = 1
    /\ installed = [version |-> 1, intact |-> TRUE, state |-> "installed"]
    /\ dpkg = Nothing /\ api = "up"
    /\ publishes = 0 /\ faults = 0 /\ outages = 0

UGoto(u, where) == upc' = [upc EXCEPT ![u] = where]
\* systemd kills every process of the daemon's unit when it stops it.
KillManual == upc' = [u \in Runs |-> IF u \in Manual THEN "idle" ELSE upc[u]]
Fault == faults < MaxFaults /\ faults' = faults + 1

--------------------------------------------------------------------------------
\* The timer's unit is a oneshot, so it never overlaps itself.
Start(u) ==
    /\ upc[u] = "idle" /\ (u \in Manual => api = "up")
    /\ UGoto(u, "beat") /\ current' = [current EXCEPT ![u] = versionFile]
    /\ UNCHANGED <<target, intact, vendor, host, faults, outages>>

\* A heartbeat answered REVOKED ends the script; a lost one does not.
Beat(u) ==
    /\ upc[u] = "beat"
    /\ UGoto(u, IF withdrawn THEN "idle" ELSE "fetch")
    /\ UNCHANGED <<current, target, intact, vendor, host, faults, outages>>

BeatFails(u) ==
    /\ upc[u] = "beat" /\ UGoto(u, "fetch")
    /\ UNCHANGED <<current, target, intact, vendor, host, faults, outages>>

\* Variant of Fetch with a mistake: the comparison is the wrong way round.
FetchOlder(u) ==
    /\ upc[u] = "fetch"
    /\ IF latest = Nothing
       THEN UGoto(u, "idle") /\ UNCHANGED target
       ELSE /\ target' = [target EXCEPT ![u] = latest]
            /\ UGoto(u, IF latest >= current[u] THEN "idle" ELSE "download")
    /\ UNCHANGED <<current, intact, vendor, host, faults, outages>>

\* The metadata: 404 when there is none; any difference of version counts.
Fetch(u) ==
    /\ upc[u] = "fetch"
    /\ IF latest = Nothing
       THEN UGoto(u, "idle") /\ UNCHANGED target
       ELSE /\ target' = [target EXCEPT ![u] = latest]
            /\ UGoto(u, IF latest = current[u] THEN "idle" ELSE "download")
    /\ UNCHANGED <<current, intact, vendor, host, faults, outages>>

Download(u) ==
    /\ upc[u] = "download" /\ UGoto(u, "check")
    /\ \/ intact' = [intact EXCEPT ![u] = TRUE] /\ UNCHANGED faults
       \/ intact' = [intact EXCEPT ![u] = FALSE] /\ Fault
    /\ UNCHANGED <<current, target, vendor, host, outages>>

\* curl reports a failure: the script removes its file and exits.
NetworkFails(u) ==
    /\ upc[u] \in {"fetch", "download"} /\ UGoto(u, "idle")
    /\ UNCHANGED <<current, target, intact, vendor, host, faults, outages>>

\* Variant of CheckSum with a mistake: the sums are not compared.
CheckSumSkipped(u) ==
    /\ upc[u] = "check" /\ UGoto(u, "dpkg")
    /\ UNCHANGED <<current, target, intact, vendor, host, faults, outages>>

\* "Checksum validation if provided"
CheckSum(u) ==
    /\ upc[u] = "check"
    /\ UGoto(u, IF ChecksumGiven /\ ~intact[u] THEN "idle" ELSE "dpkg")
    /\ UNCHANGED <<current, target, intact, vendor, host, faults, outages>>

--------------------------------------------------------------------------------
\* dpkg --force-downgrade -i: a second dpkg fails at once on the lock.
DpkgLock(u) ==
    /\ upc[u] = "dpkg"
    /\ IF dpkg = Nothing THEN dpkg' = u /\ UGoto(u, "preinst")
       ELSE UGoto(u, "idle") /\ UNCHANGED dpkg
    /\ UNCHANGED <<current, target, intact, vendor, versionFile, installed, api, faults, outages>>

\* Variants of Preinst with a mistake: the runs of the daemon live on; the lock of
\* a run that is killed stays taken.
PreinstKillsNone(u) ==
    /\ upc[u] = "preinst" /\ api' = "stopped" /\ UGoto(u, "unpack")
    /\ installed' = [installed EXCEPT !.state = "broken"]
    /\ UNCHANGED <<current, target, intact, vendor, versionFile, dpkg, faults, outages>>
PreinstKeepsLock(u) ==
    /\ upc[u] = "preinst" /\ api' = "stopped"
    /\ installed' = [installed EXCEPT !.state = "broken"]
    /\ upc' = [r \in Runs |-> IF r = Timer /\ u = Timer THEN "unpack" ELSE
                              IF r \in Manual THEN "idle" ELSE upc[r]]
    /\ UNCHANGED <<current, target, intact, vendor, versionFile, dpkg, faults, outages>>

\* preinst: systemctl stop beout_os-api.  With it go all the runs the daemon
\* started, the one that is installing included, and their dpkg.
Preinst(u) ==
    /\ upc[u] = "preinst" /\ api' = "stopped"
    /\ installed' = [installed EXCEPT !.state = "broken"]
    /\ IF u \in Manual THEN KillManual /\ dpkg' = Nothing
       ELSE /\ upc' = [r \in Runs |-> IF r = u THEN "unpack" ELSE "idle"]
            /\ UNCHANGED dpkg
    /\ UNCHANGED <<current, target, intact, vendor, versionFile, faults, outages>>

Unpack(u) ==
    /\ upc[u] = "unpack" /\ UGoto(u, "postinst")
    /\ installed' = [version |-> target[u], intact |-> intact[u], state |-> "unpacked"]
    /\ UNCHANGED <<current, target, intact, vendor, versionFile, dpkg, api, faults, outages>>

\* postinst ends with systemctl restart beout_os-api.
Postinst(u) ==
    /\ upc[u] = "postinst"
    /\ upc' = [r \in Runs |-> IF r = u THEN "version" ELSE IF r \in Manual THEN "idle" ELSE upc[r]]
    /\ api' = "up" /\ dpkg' = Nothing
    /\ installed' = [installed EXCEPT !.state = "installed"]
    /\ UNCHANGED <<current, target, intact, vendor, versionFile, faults, outages>>

\* dpkg gives up (disk full, a command of postinst under set -e): the script
\* reports it and exits; nothing starts the daemon again.
DpkgFails(u) ==
    /\ upc[u] \in {"unpack", "postinst"} /\ Fault
    /\ UGoto(u, "idle") /\ dpkg' = Nothing
    /\ UNCHANGED <<current, target, intact, vendor, versionFile, installed, api, outages>>

WriteVersion(u) ==
    /\ upc[u] = "version" /\ versionFile' = target[u] /\ UGoto(u, "idle")
    /\ UNCHANGED <<current, target, intact, vendor, installed, dpkg, api, faults, outages>>

--------------------------------------------------------------------------------
\* The daemon crashes and Restart=always brings it back: its runs are killed.
ApiCrash ==
    /\ api = "up" /\ Fault /\ KillManual
    /\ dpkg' = IF dpkg \in Manual THEN Nothing ELSE dpkg
    /\ UNCHANGED <<current, target, intact, vendor, versionFile, installed, api, outages>>

\* The appliance loses power and boots: the enabled daemon is up again.
PowerLoss ==
    /\ outages < MaxPowerLoss /\ outages' = outages + 1
    /\ upc' = [u \in Runs |-> "idle"] /\ dpkg' = Nothing /\ api' = "up"
    /\ UNCHANGED <<current, target, intact, vendor, versionFile, installed, faults>>

Publish ==
    /\ publishes < MaxPublish /\ publishes' = publishes + 1
    /\ \E v \in Versions \ {latest} :
          /\ ~Rollback => v > versionFile /\ (latest # Nothing => v > latest)
          /\ latest' = v
    /\ UNCHANGED <<uvars, withdrawn, host, faults, outages>>

Withdraw ==
    /\ ~withdrawn /\ withdrawn' = TRUE
    /\ UNCHANGED <<uvars, latest, publishes, host, faults, outages>>

RunSteps(u) ==
    \/ Beat(u) \/ BeatFails(u) \/ Fetch(u) \/ Download(u) \/ NetworkFails(u) \/ CheckSum(u)
    \/ DpkgLock(u) \/ Preinst(u) \/ Unpack(u) \/ Postinst(u) \/ DpkgFails(u) \/ WriteVersion(u)

Next ==
    \/ \E u \in Runs : Start(u) \/ RunSteps(u)
    \/ ApiCrash \/ PowerLoss \/ Publish \/ Withdraw

Spec == Init /\ [][Next]_vars

\* A run goes on; the timer starts the next one; the network fails, but not
\* for ever; a step of dpkg that can succeed is not refused for ever.
Fairness ==
    /\ \A u \in Runs : WF_vars(RunSteps(u))
    /\ WF_vars(Start(Timer)) /\ SF_vars(Fetch(Timer)) /\ SF_vars(Download(Timer))
    /\ SF_vars(Unpack(Timer)) /\ SF_vars(Postinst(Timer))
FairSpec == Spec /\ Fairness

--------------------------------------------------------------------------------
TypeOK ==
    /\ upc \in [Runs -> UPCs] /\ (dpkg # Nothing => upc[dpkg] \in {"preinst", "unpack", "postinst"})
    /\ current \in [Runs -> Versions] /\ target \in [Runs -> Versions]
    /\ intact \in [Runs -> BOOLEAN]
    /\ latest \in Versions \cup {Nothing} /\ withdrawn \in BOOLEAN
    /\ versionFile \in Versions
    /\ installed \in [version : Versions, intact : BOOLEAN,
                      state : {"installed", "broken", "unpacked"}]
    /\ dpkg \in Runs \cup {Nothing} /\ api \in {"up", "stopped"}
    /\ publishes \in 0..MaxPublish /\ faults \in 0..MaxFaults /\ outages \in 0..MaxPowerLoss

NoRun == \A u \in Runs : upc[u] = "idle"

\* "Before calling the installer package manager, the script computes the
\* SHA256 sum of the local file and compares it" (security/README.md:85): what
\* is installed is always what the vendor published.
OnlyCheckedInstalled == installed.intact

\* /etc/beout_os_version is what the next run compares with (check_updates.sh:
\* 135): when no run is under way it names the version dpkg has installed,
\* whichever runs overlapped or were killed before.  (Only a loss of power between
\* postinst and the write leaves it behind; the next run installs again.)
VersionFileTrue ==
    NoRun /\ outages = 0 /\ installed.state = "installed" => versionFile = installed.version

\* "Downloads/applies package updates" (docs/ARCHITECTURE.md:43): once the
\* vendor publishes no other version and the licence stands, the published
\* version ends up on the disk and in the version file, whatever failed or was
\* killed on the way.
UpdateArrives ==
    <>[](latest # Nothing /\ ~withdrawn)
        => <>[](installed.version = latest /\ versionFile = latest)

\* "Restart=always" (beout_os-api.service:9): a daemon stopped for an upgrade
\* comes back, unless the licence was withdrawn.
ApiReturns == api = "stopped" ~> api = "up" \/ withdrawn
================================================================================
