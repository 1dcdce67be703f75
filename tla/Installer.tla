------------------------------- MODULE Installer -------------------------------
(***************************************************************************)
(* installer/beout_installer.sh: the phases that write the target disk.    *)
(* The script runs under `set -Eeuo pipefail' with two traps.  A command   *)
(* may fail in any phase; what follows depends on how the script wrote the *)
(* command: a plain one ends the script through the EXIT trap, one with    *)
(* `|| die' replaces the script by a shell, and one whose status nobody    *)
(* looks at changes nothing but the disk.                                  *)
(***************************************************************************)
EXTENDS Naturals

CONSTANTS
    KeyOnMedium,  \* the install medium carries license_public_key.pem
    MaxFaults     \* bound: commands that fail

ASSUME InstallerAssumption == KeyOnMedium \in BOOLEAN /\ MaxFaults \in Nat

VARIABLES
    phase,     \* the phase the script is about to run, or how it ended
    efi,       \* IS_EFI
    disk,      \* what this run has put on the target disk
    mounts,    \* mount points under TARGET_MNT that are in use
    faults

vars == <<phase, efi, disk, mounts, faults>>

Phases  == {"partition", "format", "mount", "copy", "configure", "install",
            "harden", "boot", "cleanup"}
Ends    == {"complete", "aborted", "shell"}
Parts   == {"partitions", "filesystem", "base", "purged", "settings", "package", "key",
            "hardening", "grub", "menu"}
Virtual == {"dev", "dev/pts", "proc", "sys"}
Points  == Virtual \cup {"root", "boot/efi"}

Init ==
    /\ phase = "partition" /\ efi \in BOOLEAN /\ disk = {} /\ mounts = {} /\ faults = 0

--------------------------------------------------------------------------------
NoFault == UNCHANGED faults
Fault   == faults < MaxFaults /\ faults' = faults + 1

\* Variant of Unmounted with a mistake: nothing is unmounted.
StillMounted == mounts

\* cleanup(): every umount is followed by `|| true', so one that is busy is
\* passed over; the EFI mount is only looked at on an EFI machine.
\* A mount that stays keeps the ones it lies on.
Unmounted == IF efi THEN {} ELSE mounts \cap {"boot/efi"}
Busy(set) == "root" \in set /\ ("dev/pts" \in set => "dev" \in set)
Leavings(reached) ==
    {Unmounted} \cup {Unmounted \cup busy : busy \in {b \in SUBSET (mounts \cup reached) : Busy(b)}}
Cleanup ==
    \/ mounts' = Unmounted /\ NoFault
    \/ Fault /\ mounts' \in Leavings({})

Done(parts, next) ==
    /\ disk' = disk \cup parts /\ phase' = next /\ UNCHANGED <<efi, mounts>> /\ NoFault

\* A plain command fails, with up to `reached' mounted by the phase it is in:
\* errexit, and the EXIT trap cleans up as far as it can.
AbortAt(reached) ==
    /\ Fault /\ phase' = "aborted" /\ mounts' \in Leavings(reached) /\ UNCHANGED <<efi, disk>>
Abort == AbortAt({})

\* `|| die': exec /bin/bash, which no EXIT trap survives.
Die == Fault /\ phase' = "shell" /\ UNCHANGED <<efi, disk, mounts>>

\* A command whose status is dropped fails: the phase goes on without it.
Masked(parts, lost, next) ==
    /\ Fault /\ disk' = disk \cup (parts \ lost) /\ phase' = next /\ UNCHANGED <<efi, mounts>>

--------------------------------------------------------------------------------
\* parted refuses a disk of which a partition is mounted.
PartitionDisk ==
    /\ phase = "partition"
    /\ IF "root" \in mounts
       THEN phase' = "aborted" /\ UNCHANGED <<efi, disk>> /\ Cleanup
       ELSE Done({"partitions"}, "format") \/ Abort

FormatPartitions ==
    /\ phase = "format"
    /\ Done({"filesystem"}, "mount") \/ Abort

\* Variant of MountTarget with a mistake: the ESP is mounted on every machine.
MountBoth ==
    /\ phase = "mount" /\ phase' = "copy" /\ NoFault /\ UNCHANGED <<efi, disk>>
    /\ mounts' = mounts \cup {"root", "boot/efi"}

\* The root file system first; on EFI machines the ESP inside it.
MountTarget ==
    /\ phase = "mount"
    /\ \/ /\ phase' = "copy" /\ NoFault /\ UNCHANGED <<efi, disk>>
          /\ mounts' = mounts \cup {"root"} \cup (IF efi THEN {"boot/efi"} ELSE {})
       \/ AbortAt({"root"})

\* Variant of InstallBaseSystem with a mistake: the copy's status is not looked at.
CopyUnchecked ==
    /\ phase = "copy"
    /\ Done({"base", "purged"}, "configure") \/ Masked({"base", "purged"}, {"base"}, "configure")

\* The copy is guarded by die, the purge of the live packages by nothing.
InstallBaseSystem ==
    /\ phase = "copy"
    /\ \/ Done({"base", "purged"}, "configure") \/ Masked({"base", "purged"}, {"purged"}, "configure")
       \/ Die \/ Abort

\* The bind mounts and files are plain commands; locale-gen is masked.
ConfigureSystem ==
    /\ phase = "configure"
    /\ \/ /\ phase' = "install" /\ disk' = disk \cup {"settings"} /\ NoFault
          /\ mounts' = mounts \cup Virtual /\ UNCHANGED efi
       \/ AbortAt(Virtual)

\* In the chroot, dpkg is followed by `|| true' and the status of the whole is
\* that of its last command, rm -f: die is reached only if the chroot itself
\* does not start.  The key is copied if the medium has one.
InstallBeoutOs ==
    LET parts == {"package"} \cup (IF KeyOnMedium THEN {"key"} ELSE {})
    IN  /\ phase = "install"
        /\ \/ Done(parts, "harden") \/ Masked(parts, {"package"}, "harden")
           \/ Die \/ Abort

ApplyHardening ==
    /\ phase = "harden"
    /\ Done({"hardening"}, "boot") \/ Masked({"hardening"}, {"hardening"}, "boot") \/ Abort

\* The chroot's status is that of update-grub: apt-get and grub-install before
\* it may fail unseen.
InstallBootloader ==
    /\ phase = "boot"
    /\ \/ Done({"grub", "menu"}, "cleanup") \/ Masked({"grub", "menu"}, {"grub"}, "cleanup")
       \/ Die

\* cleanup, then "Installation Complete!" and a reboot.
Complete ==
    /\ phase = "cleanup"
    /\ \/ phase' = "complete" /\ Cleanup /\ UNCHANGED <<efi, disk>>
       \/ Abort

\* From the shell, or on the next boot of the medium, the installer is run again.
RunAgain ==
    /\ phase \in {"aborted", "shell"}
    /\ phase' = "partition" /\ disk' = {} /\ UNCHANGED <<efi, mounts, faults>>

PhaseSteps ==
    \/ PartitionDisk \/ FormatPartitions \/ MountTarget \/ InstallBaseSystem
    \/ ConfigureSystem \/ InstallBeoutOs \/ ApplyHardening \/ InstallBootloader
    \/ Complete

Next == PhaseSteps \/ RunAgain

Spec == Init /\ [][Next]_vars

\* The script runs on, and the operator tries again when it has failed.
FairSpec == Spec /\ WF_vars(PhaseSteps) /\ WF_vars(RunAgain)

--------------------------------------------------------------------------------
TypeOK ==
    /\ phase \in Phases \cup Ends /\ efi \in BOOLEAN
    /\ disk \subseteq Parts /\ mounts \subseteq Points /\ faults \in 0..MaxFaults
    /\ "boot/efi" \in mounts => efi

\* The completion screen (beout_installer.sh:510) is never reached over a
\* failure of the phases that make the disk, in the run that shows it.
CompleteHasBase ==
    phase = "complete" => {"partitions", "filesystem", "base", "settings", "menu"} \subseteq disk

\* "Beout_OS has been successfully installed" (beout_installer.sh:514): the
\* screen is only shown when the package and the boot loader are on the disk.
CompleteIsInstalled == phase = "complete" => {"package", "grub"} \subseteq disk

\* "Trap errors: trap cleanup EXIT" (beout_installer.sh:546): a run that has
\* ended leaves nothing of the target mounted.
NothingLeftMounted == phase \in Ends => mounts = {}

\* A failed attempt does not spoil the next ones: the operator who tries again
\* gets to the completion screen once commands stop failing.
RetryCompletes == <>(phase = "complete")
================================================================================
