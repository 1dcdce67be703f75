---------------------------- MODULE InstallerProofs ----------------------------
(***************************************************************************)
(* What the installer guarantees however many commands fail, in whatever   *)
(* phases and attempts, and what becomes of the identity of the machine    *)
(* that is started from its disk.                                          *)
(***************************************************************************)
EXTENDS FirstBoot, TLAPS

USE InstallerAssumption

\* Every step of the whole is one of the installer or leaves its state alone, and
\* likewise for the search for the identity.
LEMMA StepsOfParts ==
    ASSUME [BootNext]_bootVars
    PROVE  [Next]_vars /\ [IdentityNext]_idVars
  BY DEF BootNext, bootVars, Install, Run

--------------------------------------------------------------------------------
\* A step's count of failures stays within the bound.
LEMMA Counted ==
    ASSUME TypeOK, NoFault \/ Fault
    PROVE  faults' \in 0..MaxFaults
  BY DEF TypeOK, NoFault, Fault

\* Cleaning up leaves nothing mounted that was not, and no EFI mount on a machine
\* without EFI.
LEMMA LeavingsMounted ==
    ASSUME TypeOK, NEW reached \in SUBSET (Points \ {"boot/efi"}),
           NEW left \in Leavings(reached)
    PROVE  left \subseteq Points /\ ("boot/efi" \in left => efi)
  BY DEF Leavings, Unmounted, TypeOK

LEMMA CleanupTyped ==
    ASSUME TypeOK, Cleanup
    PROVE  /\ mounts' \subseteq Points /\ ("boot/efi" \in mounts' => efi)
           /\ faults' \in 0..MaxFaults
  <1>1. CASE mounts' = Unmounted /\ NoFault
    BY <1>1, Counted DEF Unmounted, TypeOK
  <1>2. CASE Fault /\ mounts' \in Leavings({})
    BY <1>2, Counted, LeavingsMounted
  <1>3. QED
    BY <1>1, <1>2 DEF Cleanup

\* The four ways a phase can end.
LEMMA EndsTyped ==
    ASSUME TypeOK, NEW parts \in SUBSET Parts, NEW lost, NEW next \in Phases,
           NEW reached \in SUBSET (Points \ {"boot/efi"}),
           Done(parts, next) \/ Masked(parts, lost, next) \/ AbortAt(reached) \/ Die
    PROVE  TypeOK'
  <1>1. CASE Done(parts, next)
    BY <1>1, Counted DEF Done, TypeOK
  <1>2. CASE Masked(parts, lost, next)
    BY <1>2, Counted DEF Masked, TypeOK
  <1>3. CASE AbortAt(reached)
    BY <1>3, Counted, LeavingsMounted DEF AbortAt, TypeOK, Ends
  <1>4. CASE Die
    BY <1>4, Counted DEF Die, TypeOK, Ends
  <1>5. QED
    BY <1>1, <1>2, <1>3, <1>4

LEMMA TypedNext == TypeOK /\ [Next]_vars => TypeOK'
  <1> SUFFICES ASSUME TypeOK, [Next]_vars PROVE TypeOK'
    OBVIOUS
  <1> USE DEF Phases, Parts, Points, Virtual
  <1>1. CASE PartitionDisk
    <2>1. CASE "root" \in mounts
      BY <1>1, <2>1, CleanupTyped DEF PartitionDisk, TypeOK, Ends
    <2>2. CASE "root" \notin mounts
      BY <1>1, <2>2, EndsTyped DEF PartitionDisk, Abort
    <2>3. QED
      BY <2>1, <2>2
  <1>2. CASE FormatPartitions
    BY <1>2, EndsTyped DEF FormatPartitions, Abort
  <1>3. CASE MountTarget
    <2>1. CASE AbortAt({"root"})
      BY <2>1, EndsTyped
    <2>2. CASE ~AbortAt({"root"})
      BY <1>3, <2>2, Counted DEF MountTarget, TypeOK
    <2>3. QED
      BY <2>1, <2>2
  <1>4. CASE InstallBaseSystem
    BY <1>4, EndsTyped DEF InstallBaseSystem, Abort
  <1>5. CASE ConfigureSystem
    <2>1. CASE AbortAt(Virtual)
      BY <2>1, EndsTyped
    <2>2. CASE ~AbortAt(Virtual)
      BY <1>5, <2>2, Counted DEF ConfigureSystem, TypeOK
    <2>3. QED
      BY <2>1, <2>2
  <1>6. CASE InstallBeoutOs
    <2> DEFINE parts == {"package"} \cup (IF KeyOnMedium THEN {"key"} ELSE {})
    <2>1. parts \in SUBSET Parts
      OBVIOUS
    <2>2. Done(parts, "harden") \/ Masked(parts, {"package"}, "harden") \/ Die \/ AbortAt({})
      BY <1>6 DEF InstallBeoutOs, Abort
    <2> HIDE DEF parts
    <2>3. QED
      BY <2>1, <2>2, EndsTyped
  <1>7. CASE ApplyHardening
    BY <1>7, EndsTyped DEF ApplyHardening, Abort
  <1>8. CASE InstallBootloader
    BY <1>8, EndsTyped DEF InstallBootloader
  <1>9. CASE Complete
    <2>1. CASE Abort
      BY <2>1, EndsTyped DEF Abort
    <2>2. CASE ~Abort
      BY <1>9, <2>2, CleanupTyped DEF Complete, TypeOK, Ends
    <2>3. QED
      BY <2>1, <2>2
  <1>10. CASE RunAgain
    BY <1>10 DEF RunAgain, TypeOK
  <1>11. CASE UNCHANGED vars
    BY <1>11 DEF vars, TypeOK
  <1>12. QED
    BY <1>1, <1>2, <1>3, <1>4, <1>5, <1>6, <1>7, <1>8, <1>9, <1>10, <1>11 DEF Next, PhaseSteps

\* A bounded counter stays within its bound.
LEMMA CountsOn ==
    ASSUME NEW bound \in Nat, NEW n \in 0..bound, n < bound
    PROVE  n + 1 \in 0..bound
  OBVIOUS

\* A step of the search for the identity keeps the types.
LEMMA IdentityTypedNext == IdentityTypeOK /\ [IdentityNext]_idVars => IdentityTypeOK'
  <1> SUFFICES ASSUME IdentityTypeOK, [IdentityNext]_idVars PROVE IdentityTypeOK'
    OBVIOUS
  <1>1. ASSUME NEW p \in Procs, ReadEtc(p) PROVE IdentityTypeOK'
    <2>1. Standing \in Ids \cup {""}
      BY DEF Standing
    <2>2. calls' \in 0..MaxCalls
      <3>1. calls \in 0..MaxCalls /\ calls < MaxCalls /\ calls' = calls + 1
        BY <1>1, Zenon DEF ReadEtc, IdentityTypeOK
      <3>2. MaxCalls \in Nat
        BY IdentityAssumption, Zenon
      <3>3. QED
        BY <3>1, <3>2, CountsOn
    <2>3. since' \in [Procs -> Ids \cup {""}]
      BY <1>1, <2>1 DEF ReadEtc, IdentityTypeOK
    <2>4. pc' \in [Procs -> {"idle", "file", "open", "write"}]
      <3>1. \E where \in {"idle", "file"} : pc' = [pc EXCEPT ![p] = where]
        BY <1>1 DEF ReadEtc, Finds, Goto
      <3>2. QED
        BY <3>1 DEF IdentityTypeOK
    <2>5. got' \in [Procs -> Ids \cup {""}]
      BY <1>1, IdentityAssumption DEF ReadEtc, Finds, IdentityTypeOK
    <2>6. QED
      BY <1>1, <2>2, <2>3, <2>4, <2>5 DEF ReadEtc, IdentityTypeOK
  <1>2. ASSUME NEW p \in Procs, ReadFile(p) PROVE IdentityTypeOK'
    <2>1. CASE file.text # ""
      BY <1>2, <2>1 DEF ReadFile, Finds, Goto, IdentityTypeOK
    <2>2. CASE file.text = ""
      <3>1. PICK id \in Ids \ used :
               /\ used' = used \cup {id} /\ mine' = [mine EXCEPT ![p] = id]
               /\ pc' = [pc EXCEPT ![p] = "open"]
        BY <1>2, <2>2 DEF ReadFile, Generate, Goto
      <3>2. mine' \in [Procs -> Ids \cup {""}]
        BY <3>1 DEF IdentityTypeOK
      <3>3. pc' \in [Procs -> {"idle", "file", "open", "write"}]
        BY <3>1 DEF IdentityTypeOK
      <3>4. used' \subseteq Ids
        BY <3>1 DEF IdentityTypeOK
      <3>5. UNCHANGED <<etc, file, got, since, calls, stops>>
        BY <1>2, <2>2 DEF ReadFile
      <3>6. QED
        BY <3>2, <3>3, <3>4, <3>5 DEF IdentityTypeOK
    <2>3. QED
      BY <2>1, <2>2
  <1>3. ASSUME NEW p \in Procs, NoUuid(p) \/ OpenFails(p) \/ WriteFails(p)
        PROVE  IdentityTypeOK'
    BY <1>3 DEF NoUuid, OpenFails, WriteFails, Finds, Goto, IdentityTypeOK
  <1>4. ASSUME NEW p \in Procs, OpenFile(p) PROVE IdentityTypeOK'
    <2>1. file' \in [owner : {"nobody", "beout_api", "root"}, text : Ids \cup {""}]
      BY <1>4 DEF OpenFile, OwnerAfter, IdentityTypeOK
    <2>2. pc' \in [Procs -> {"idle", "file", "open", "write"}]
      BY <1>4 DEF OpenFile, Goto, IdentityTypeOK
    <2>3. QED
      BY <1>4, <2>1, <2>2 DEF OpenFile, IdentityTypeOK
  <1>5. ASSUME NEW p \in Procs, WriteFile(p) PROVE IdentityTypeOK'
    <2>1. file' \in [owner : {"nobody", "beout_api", "root"}, text : Ids \cup {""}]
      BY <1>5 DEF WriteFile, IdentityTypeOK
    <2>2. /\ pc' \in [Procs -> {"idle", "file", "open", "write"}]
          /\ got' \in [Procs -> Ids \cup {""}]
      BY <1>5 DEF WriteFile, Finds, Goto, IdentityTypeOK
    <2>3. QED
      BY <1>5, <2>1, <2>2 DEF WriteFile, IdentityTypeOK
  <1>6. ASSUME NEW ps \in SUBSET Procs, Stop(ps) PROVE IdentityTypeOK'
    <2>1. stops' \in 0..MaxStops
      <3>1. stops \in 0..MaxStops /\ stops < MaxStops /\ stops' = stops + 1
        BY <1>6, Zenon DEF Stop, IdentityTypeOK
      <3>2. MaxStops \in Nat
        BY IdentityAssumption, Zenon
      <3>3. QED
        BY <3>1, <3>2, CountsOn
    <2>2. pc' \in [Procs -> {"idle", "file", "open", "write"}]
      BY <1>6 DEF Stop, IdentityTypeOK
    <2>3. mine' \in [Procs -> Ids \cup {""}] /\ got' \in [Procs -> Ids \cup {""}]
      BY <1>6 DEF Stop, IdentityTypeOK
    <2>4. QED
      BY <1>6, <2>1, <2>2, <2>3 DEF Stop, IdentityTypeOK
  <1>7. CASE Chown
    BY <1>7 DEF Chown, IdentityTypeOK
  <1>8. CASE UNCHANGED idVars
    BY <1>8 DEF idVars, IdentityTypeOK
  <1>9. QED
    BY <1>1, <1>2, <1>3, <1>4, <1>5, <1>6, <1>7, <1>8 DEF IdentityNext, Procs

LEMMA IdentityTyped == BootSpec => []IdentityTypeOK
  <1>1. BootInit => IdentityTypeOK
    <2> SUFFICES ASSUME IdentityInit PROVE IdentityTypeOK
      BY DEF BootInit
    <2>1. etc \in EtcTexts /\ used \subseteq Ids
      BY IdentityAssumption DEF IdentityInit
    <2>2. calls \in 0..MaxCalls /\ stops \in 0..MaxStops
      <3>1. calls = 0 /\ stops = 0
        BY DEF IdentityInit
      <3>2. MaxCalls \in Nat /\ MaxStops \in Nat
        BY IdentityAssumption, Zenon
      <3>3. QED
        BY <3>1, <3>2
    <2>3. file \in [owner : {"nobody", "beout_api", "root"}, text : Ids \cup {""}]
      BY DEF IdentityInit, NoFile
    <2>4. QED
      BY <2>1, <2>2, <2>3 DEF IdentityInit, IdentityTypeOK
  <1>2. IdentityTypeOK /\ [BootNext]_bootVars => IdentityTypeOK'
    BY IdentityTypedNext, StepsOfParts
  <1>3. QED
    BY <1>1, <1>2, PTL DEF BootSpec

\* The phase, the disk, the mounts and the failures keep their types, and so does
\* the search for the identity; a machine without EFI never has an EFI partition
\* mounted.
THEOREM TypeCorrect == BootSpec => []BootTypeOK
  <1>1. BootInit => TypeOK
    BY DEF BootInit, Init, TypeOK, Phases
  <1>2. TypeOK /\ [BootNext]_bootVars => TypeOK'
    BY TypedNext, StepsOfParts
  <1>3. BootSpec => []TypeOK
    BY <1>1, <1>2, PTL DEF BootSpec
  <1>4. QED
    BY <1>3, IdentityTyped, PTL DEF BootTypeOK

--------------------------------------------------------------------------------
\* The inductive invariant behind CompleteHasBase: what each phase may rely on.
\* A phase is only left for the next one with its own part on the disk, whatever
\* else of it failed unseen.
After(part, phases) == phase \in phases => part \in disk
BaseInv ==
    /\ After("partitions", {"format", "mount", "copy", "configure", "install", "harden",
                            "boot", "cleanup", "complete"})
    /\ After("filesystem", {"mount", "copy", "configure", "install", "harden", "boot",
                            "cleanup", "complete"})
    /\ After("base", {"configure", "install", "harden", "boot", "cleanup", "complete"})
    /\ After("settings", {"install", "harden", "boot", "cleanup", "complete"})
    /\ After("menu", {"cleanup", "complete"})

LEMMA BaseNext == BaseInv /\ [Next]_vars => BaseInv'
  <1> SUFFICES ASSUME BaseInv, [Next]_vars PROVE BaseInv'
    OBVIOUS
  <1> USE DEF BaseInv, After
  <1>1. CASE PartitionDisk
    BY <1>1 DEF PartitionDisk, Done, Abort, AbortAt
  <1>2. CASE FormatPartitions
    BY <1>2 DEF FormatPartitions, Done, Abort, AbortAt
  <1>3. CASE MountTarget
    BY <1>3 DEF MountTarget, AbortAt
  <1>4. CASE InstallBaseSystem
    BY <1>4 DEF InstallBaseSystem, Done, Masked, Die, Abort, AbortAt
  <1>5. CASE ConfigureSystem
    BY <1>5 DEF ConfigureSystem, AbortAt
  <1>6. CASE InstallBeoutOs
    BY <1>6 DEF InstallBeoutOs, Done, Masked, Die, Abort, AbortAt
  <1>7. CASE ApplyHardening
    BY <1>7 DEF ApplyHardening, Done, Masked, Abort, AbortAt
  <1>8. CASE InstallBootloader
    BY <1>8 DEF InstallBootloader, Done, Masked, Die
  <1>9. CASE Complete
    BY <1>9 DEF Complete, Abort, AbortAt
  <1>10. CASE RunAgain \/ UNCHANGED vars
    BY <1>10 DEF RunAgain, vars
  <1>11. QED
    BY <1>1, <1>2, <1>3, <1>4, <1>5, <1>6, <1>7, <1>8, <1>9, <1>10 DEF Next, PhaseSteps

\* However many commands fail, the completion screen is only reached with a
\* partitioned, formatted, copied and configured disk that has a boot menu.
THEOREM BaseOnDisk == BootSpec => []CompleteHasBase
  <1>1. BootInit => BaseInv
    BY DEF BootInit, Init, BaseInv, After
  <1>2. BaseInv /\ [BootNext]_bootVars => BaseInv'
    BY BaseNext, StepsOfParts
  <1>3. BaseInv => CompleteHasBase
    BY DEF BaseInv, After, CompleteHasBase
  <1>4. QED
    BY <1>1, <1>2, <1>3, PTL DEF BootSpec

--------------------------------------------------------------------------------
\* An id that stands goes on standing: whoever is left to look finds the text.
LEMMA StandsOn ==
    ASSUME IdentityTypeOK, [IdentityNext]_idVars, NEW k \in Ids, Stands(k)
    PROVE  Stands(k)'
  <1> USE IdentityAssumption DEF Stands, IdentityTypeOK, Finds, Goto
  <1>1. ASSUME NEW p \in Procs, ReadEtc(p) PROVE Stands(k)'
    BY <1>1 DEF ReadEtc
  <1>2. ASSUME NEW p \in Procs, ReadFile(p) PROVE Stands(k)'
    BY <1>2 DEF ReadFile, Generate
  <1>3. ASSUME NEW p \in Procs, NoUuid(p) \/ OpenFails(p) \/ WriteFails(p)
        PROVE  Stands(k)'
    BY <1>3 DEF NoUuid, OpenFails, WriteFails
  <1>4. ASSUME NEW p \in Procs, OpenFile(p) \/ WriteFile(p) PROVE Stands(k)'
    BY <1>4 DEF OpenFile, WriteFile
  <1>5. ASSUME NEW ps \in SUBSET Procs, Stop(ps) PROVE Stands(k)'
    BY <1>5 DEF Stop
  <1>6. CASE Chown
    BY <1>6 DEF Chown
  <1>7. CASE UNCHANGED idVars
    BY <1>7 DEF idVars
  <1>8. QED
    BY <1>1, <1>2, <1>3, <1>4, <1>5, <1>6, <1>7 DEF IdentityNext, Procs

\* For any numbers of threads, scripts, searches and stops, an id that stands is
\* never replaced, by failing writes and by processes that run at once either.
THEOREM IdentityKept == BootSpec => IdentityStays
  <1>1. IdentityTypeOK /\ [BootNext]_bootVars
        => [\A k \in Ids : Stands(k) => Stands(k)']_idVars
    BY StepsOfParts, StandsOn
  <1>2. QED
    BY <1>1, IdentityTyped, PTL DEF BootSpec, IdentityStays

\* The inductive invariant behind AllFindIt: the id that stood when a search began
\* still stands, and with an id in /etc nobody gets past it.
FindInv ==
    /\ etc # "" => \A p \in Procs : pc[p] = "idle"
    /\ \A p \in Procs, k \in Ids : since[p] = k =>
          Stands(k) /\ (pc[p] = "idle" /\ got[p] # "" => got[p] = k)

\* The id that stands, if one does.
LEMMA StandingStands ==
    ASSUME NEW k \in Ids, Standing = k
    PROVE  Stands(k)
  BY IdentityAssumption DEF Standing

LEMMA FindNext ==
    IdentityTypeOK /\ FindInv /\ [IdentityNext]_idVars => FindInv'
  <1> SUFFICES ASSUME IdentityTypeOK, FindInv, [IdentityNext]_idVars PROVE FindInv'
    OBVIOUS
  <1> USE IdentityAssumption
  <1>1. ASSUME NEW q \in Procs, NEW k \in Ids, since[q] = k
        PROVE  Stands(k) /\ Stands(k)'
    <2>1. Stands(k)
      BY <1>1 DEF FindInv
    <2>2. QED
      BY <2>1, StandsOn
  <1>2. ASSUME NEW p \in Procs, ReadEtc(p) PROVE FindInv'
    <2>1. ASSUME NEW k \in Ids, since'[p] = k
          PROVE  Stands(k)' /\ (pc'[p] = "idle" /\ got'[p] # "" => got'[p] = k)
      <3>1. Standing = k
        BY <1>2, <2>1 DEF ReadEtc, IdentityTypeOK
      <3>2. Stands(k)
        BY <3>1, StandingStands
      <3>3. Stands(k)'
        BY <3>2, StandsOn
      <3>4. etc # "" => k = etc
        BY <3>2 DEF Stands
      <3>5. pc'[p] = "idle" /\ got'[p] # "" => got'[p] = k
        BY <1>2, <3>4 DEF ReadEtc, Finds, Goto, IdentityTypeOK
      <3>6. QED
        BY <3>3, <3>5
    <2>2. ASSUME NEW q \in Procs, q # p
          PROVE  since'[q] = since[q] /\ pc'[q] = pc[q] /\ got'[q] = got[q]
      BY <1>2, <2>2 DEF ReadEtc, Finds, Goto, IdentityTypeOK
    <2>3. etc' # "" => \A q \in Procs : pc'[q] = "idle"
      <3>1. etc' = etc /\ (etc # "" => pc'[p] = "idle")
        BY <1>2 DEF ReadEtc, Finds, Goto, IdentityTypeOK
      <3>2. QED
        BY <3>1, <2>2 DEF FindInv
    <2>4. ASSUME NEW q \in Procs, NEW k \in Ids, since'[q] = k, q # p
          PROVE  Stands(k)' /\ (pc'[q] = "idle" /\ got'[q] # "" => got'[q] = k)
      BY <1>1, <2>2, <2>4 DEF FindInv
    <2>5. QED
      BY <2>1, <2>3, <2>4 DEF FindInv
  <1>3. ASSUME UNCHANGED <<etc, since>>,
               NEW ps \in SUBSET Procs,
               \A q \in Procs \ ps : pc'[q] = pc[q] /\ got'[q] = got[q],
               \A q \in ps : etc # "" => pc'[q] = "idle",
               \A q \in ps, k \in Ids : Stands(k) /\ since[q] = k /\ pc'[q] = "idle" /\ got'[q] # ""
                                       => got'[q] = k
        PROVE  FindInv'
    <2>1. etc' # "" => \A q \in Procs : pc'[q] = "idle"
      BY <1>3 DEF FindInv
    <2>2. ASSUME NEW q \in Procs, NEW k \in Ids, since'[q] = k
          PROVE  Stands(k)' /\ (pc'[q] = "idle" /\ got'[q] # "" => got'[q] = k)
      <3>1. since[q] = k
        BY <1>3, <2>2
      <3>2. Stands(k) /\ Stands(k)'
        BY <1>1, <3>1
      <3>3. pc'[q] = "idle" /\ got'[q] # "" => got'[q] = k
        <4>1. CASE q \in ps
          BY <4>1, <1>3, <3>1, <3>2
        <4>2. CASE q \notin ps
          BY <4>2, <1>3, <3>1 DEF FindInv
        <4>3. QED
          BY <4>1, <4>2
      <3>4. QED
        BY <3>2, <3>3
    <2>3. QED
      BY <2>1, <2>2 DEF FindInv
  <1>4. ASSUME NEW p \in Procs, pc[p] # "idle" PROVE etc = ""
    BY <1>4 DEF FindInv
  <1>5. ASSUME NEW p \in Procs,
               ReadFile(p) \/ NoUuid(p) \/ OpenFile(p) \/ OpenFails(p) \/ WriteFile(p) \/ WriteFails(p)
        PROVE  FindInv'
    <2>1. UNCHANGED <<etc, since>> /\ pc[p] # "idle"
      BY <1>5 DEF ReadFile, NoUuid, OpenFile, OpenFails, WriteFile, WriteFails
    <2>2. \A q \in Procs \ {p} : pc'[q] = pc[q] /\ got'[q] = got[q]
      BY <1>5 DEF ReadFile, Generate, NoUuid, OpenFile, OpenFails, WriteFile, WriteFails,
                  IdentityTypeOK, Finds, Goto
    <2>3. etc = ""
      BY <2>1, <1>4
    <2>4. ASSUME NEW k \in Ids, Stands(k), pc'[p] = "idle", got'[p] # ""
          PROVE  got'[p] = k
      <3>1. file.text = k /\ pc[p] \notin {"open", "write"}
        BY <2>3, <2>4 DEF Stands
      <3>2. CASE ReadFile(p)
        BY <3>1, <3>2 DEF ReadFile, Generate, IdentityTypeOK, Finds, Goto
      <3>3. CASE NoUuid(p)
        BY <3>1, <3>3, IdentityAssumption DEF NoUuid
      <3>4. QED
        BY <1>5, <3>1, <3>2, <3>3 DEF OpenFile, OpenFails, WriteFile, WriteFails
    <2>5. QED
      <3>1. PICK ps \in SUBSET Procs : ps = {p}
        OBVIOUS
      <3>2. \A q \in Procs \ ps : pc'[q] = pc[q] /\ got'[q] = got[q]
        BY <2>2, <3>1
      <3>3. \A q \in ps : etc # "" => pc'[q] = "idle"
        BY <2>3
      <3>4. \A q \in ps, k \in Ids :
               Stands(k) /\ since[q] = k /\ pc'[q] = "idle" /\ got'[q] # "" => got'[q] = k
        BY <2>4, <3>1
      <3>5. QED
        BY <1>3, <2>1, <3>2, <3>3, <3>4
  <1>6. ASSUME NEW ps \in SUBSET Procs, Stop(ps) PROVE FindInv'
    <2>1. /\ \A q \in Procs \ ps : pc'[q] = pc[q] /\ got'[q] = got[q]
          /\ \A q \in ps : pc'[q] = "idle" /\ got'[q] = ""
      BY <1>6 DEF Stop
    <2>2. UNCHANGED <<etc, since>>
      BY <1>6 DEF Stop
    <2>3. QED
      BY <1>3, <2>1, <2>2
  <1>7. CASE Chown \/ UNCHANGED idVars
    <2>1. UNCHANGED <<etc, since, pc, got>>
      BY <1>7 DEF Chown, idVars
    <2>2. QED
      BY <1>3, <2>1
  <1>8. QED
    BY <1>2, <1>5, <1>6, <1>7 DEF IdentityNext, Procs

\* Whoever starts to look once an id stands finds that one, if it finds any.
THEOREM AllAgree == BootSpec => []AllFindIt
  <1>1. BootInit => FindInv
    BY IdentityAssumption DEF BootInit, IdentityInit, FindInv
  <1>2. IdentityTypeOK /\ FindInv /\ [BootNext]_bootVars => FindInv'
    BY FindNext, StepsOfParts
  <1>3. IdentityTypeOK /\ FindInv => AllFindIt
    BY DEF IdentityTypeOK, FindInv, AllFindIt
  <1>4. QED
    BY <1>1, <1>2, <1>3, IdentityTyped, PTL DEF BootSpec
================================================================================
