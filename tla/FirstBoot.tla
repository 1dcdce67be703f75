------------------------------- MODULE FirstBoot -------------------------------
(***************************************************************************)
(* A disk is installed, the machine is started from it, and daemon and     *)
(* script look for the machine's identity.  The installer copies the live  *)
(* system as it runs, /etc/machine-id with it, and installs the package,   *)
(* which does not bring an identity file: `etc' is what the live system    *)
(* had, and the search starts with NoFile.                                 *)
(***************************************************************************)
EXTENDS Installer, MachineIdentity

bootVars == <<vars, idVars>>

BootInit == Init /\ IdentityInit

Install == Next /\ UNCHANGED idVars

\* Bound: only installations without a failed command are followed further; what
\* the search finds depends on the copy alone, which no completed one lacks.
Run == phase = "complete" /\ faults = 0 /\ IdentityNext /\ UNCHANGED vars

BootNext == Install \/ Run
BootSpec == BootInit /\ [][BootNext]_bootVars /\ WF_vars(PhaseSteps) /\ WF_vars(RunAgain)

--------------------------------------------------------------------------------
BootTypeOK == TypeOK /\ IdentityTypeOK
================================================================================
