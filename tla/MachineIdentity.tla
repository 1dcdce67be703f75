----------------------------- MODULE MachineIdentity -----------------------------
(***************************************************************************)
(* The machine id that licences are signed for.  MachineId::get of the     *)
(* daemon (activation/machine_id.cpp) and the head of check_updates.sh     *)
(* look for it in /etc/machine-id, then in a file of their own, and where  *)
(* both are empty each generates one and writes that file.  Nothing is     *)
(* locked.  The daemon runs as beout_api, the script as root.              *)
(***************************************************************************)
EXTENDS Naturals

CONSTANTS
    Threads,           \* of the daemon's pool
    Scripts,           \* instances of check_updates.sh
    Ids, EtcTexts,     \* machine ids; what /etc/machine-id may hold, "" if nothing
    MaxCalls, MaxStops \* bounds: searches for the id, stops of daemon or script

ASSUME IdentityAssumption ==
    /\ Threads \cap Scripts = {} /\ "" \notin Ids /\ EtcTexts \subseteq Ids \cup {""}
    /\ MaxCalls \in Nat /\ MaxStops \in Nat

Procs == Threads \cup Scripts

VARIABLES
    etc,      \* the text of /etc/machine-id; nobody here changes it
    file,     \* /var/lib/beout_os/machine_id: its owner and its text
    pc,       \* [Procs -> where the search is]
    mine,     \* [Procs -> the id this process has generated]
    got,      \* [Procs -> what the last search found; "" when it found nothing]
    since,    \* [Procs -> the id that stood when the last search began]
    used,     \* ids generated so far: random UUIDs are never alike
    calls, stops

idVars == <<etc, file, pc, mine, got, since, used, calls, stops>>

NoFile == [owner |-> "nobody", text |-> ""]

IdentityInit ==
    /\ etc \in EtcTexts /\ file = NoFile /\ used = {etc} \ {""}
    /\ pc = [p \in Procs |-> "idle"] /\ mine = [p \in Procs |-> ""]
    /\ got = [p \in Procs |-> ""] /\ since = [p \in Procs |-> ""]
    /\ calls = 0 /\ stops = 0

\* An id stands when whoever looks for one now will find it: it is in a file, and
\* nobody has already found the files empty.
Stands(k) ==
    IF etc # "" THEN k = etc
    ELSE file.text = k /\ \A p \in Procs : pc[p] \notin {"open", "write"}
Standing == IF \E k \in Ids : Stands(k) THEN CHOOSE k \in Ids : Stands(k) ELSE ""

Goto(p, where) == pc' = [pc EXCEPT ![p] = where]
Finds(p, id) == Goto(p, "idle") /\ got' = [got EXCEPT ![p] = id]

--------------------------------------------------------------------------------
\* /etc/machine-id, systemd's, comes first.
ReadEtc(p) ==
    /\ pc[p] = "idle" /\ calls < MaxCalls /\ calls' = calls + 1
    /\ since' = [since EXCEPT ![p] = Standing]
    /\ IF etc # "" THEN Finds(p, etc)
       ELSE Goto(p, "file") /\ got' = [got EXCEPT ![p] = ""]
    /\ UNCHANGED <<etc, file, mine, used, stops>>

Generate(p) ==
    \E id \in Ids \ used :
        /\ used' = used \cup {id} /\ mine' = [mine EXCEPT ![p] = id] /\ Goto(p, "open")

\* Variants of ReadFile with a mistake: the script does not look at the file; an
\* id generated once is kept in memory.
ScriptNeverReads(p) ==
    /\ pc[p] = "file"
    /\ IF file.text # "" /\ p \in Threads
       THEN Finds(p, file.text) /\ UNCHANGED <<mine, used>>
       ELSE Generate(p) /\ UNCHANGED got
    /\ UNCHANGED <<etc, file, since, calls, stops>>
KeepsOwn(p) ==
    /\ pc[p] = "file"
    /\ \/ mine[p] # "" /\ Finds(p, mine[p]) /\ UNCHANGED <<mine, used>>
       \/ mine[p] = "" /\ file.text # "" /\ Finds(p, file.text) /\ UNCHANGED <<mine, used>>
       \/ mine[p] = "" /\ file.text = "" /\ Generate(p) /\ UNCHANGED got
    /\ UNCHANGED <<etc, file, since, calls, stops>>

\* Then the file; an empty one is as good as none.
ReadFile(p) ==
    /\ pc[p] = "file"
    /\ IF file.text # "" THEN Finds(p, file.text) /\ UNCHANGED <<mine, used>>
       ELSE Generate(p) /\ UNCHANGED got
    /\ UNCHANGED <<etc, file, since, calls, stops>>

\* Neither uuidgen nor the kernel gives the script a number: it goes on without.
NoUuid(p) ==
    /\ p \in Scripts /\ pc[p] = "file" /\ file.text = ""
    /\ Finds(p, "") /\ UNCHANGED <<etc, file, mine, since, used, calls, stops>>

--------------------------------------------------------------------------------
\* Opening the file for writing empties it.  A file of root's is closed to the
\* daemon.  One that cannot be opened leaves the daemon with an id that no file
\* has; the script ends there (set -e).
MayOpen(p) == p \in Scripts \/ file.owner # "root"
OwnerAfter(p) ==
    IF file.owner # "nobody" THEN file.owner ELSE IF p \in Scripts THEN "root" ELSE "beout_api"
OpenFile(p) ==
    /\ pc[p] = "open" /\ MayOpen(p)
    /\ file' = [owner |-> OwnerAfter(p), text |-> ""] /\ Goto(p, "write")
    /\ UNCHANGED <<etc, mine, got, since, used, calls, stops>>
OpenFails(p) ==
    /\ pc[p] = "open"
    /\ Finds(p, IF p \in Threads THEN mine[p] ELSE "")
    /\ UNCHANGED <<etc, file, mine, since, used, calls, stops>>

\* All ids are equally long: the last one written replaces the others.
WriteFile(p) ==
    /\ pc[p] = "write"
    /\ file' = [file EXCEPT !.text = mine[p]] /\ Finds(p, mine[p])
    /\ UNCHANGED <<etc, mine, since, used, calls, stops>>

\* A full disk: the daemon does not look, the script ends.
WriteFails(p) ==
    /\ pc[p] = "write"
    /\ Finds(p, IF p \in Threads THEN mine[p] ELSE "")
    /\ UNCHANGED <<etc, file, mine, since, used, calls, stops>>

--------------------------------------------------------------------------------
\* The daemon stops with all its threads, or a script is killed: an opened file
\* stays empty.
Stop(ps) ==
    /\ stops < MaxStops /\ stops' = stops + 1 /\ \E p \in ps : pc[p] # "idle"
    /\ pc' = [p \in Procs |-> IF p \in ps THEN "idle" ELSE pc[p]]
    /\ mine' = [p \in Procs |-> IF p \in ps THEN "" ELSE mine[p]]
    /\ got' = [p \in Procs |-> IF p \in ps THEN "" ELSE got[p]]
    /\ UNCHANGED <<etc, file, since, used, calls>>

\* postinst: chown -R beout_api /var/lib/beout_os.
Chown ==
    /\ file.owner = "root" /\ file' = [file EXCEPT !.owner = "beout_api"]
    /\ UNCHANGED <<etc, pc, mine, got, since, used, calls, stops>>

IdentityNext ==
    \/ \E p \in Procs :
          \/ ReadEtc(p) \/ ReadFile(p) \/ NoUuid(p)
          \/ OpenFile(p) \/ OpenFails(p) \/ WriteFile(p) \/ WriteFails(p)
    \/ Stop(Threads) \/ \E s \in Scripts : Stop({s})
    \/ Chown

--------------------------------------------------------------------------------
IdentityTypeOK ==
    /\ etc \in EtcTexts
    /\ file \in [owner : {"nobody", "beout_api", "root"}, text : Ids \cup {""}]
    /\ pc \in [Procs -> {"idle", "file", "open", "write"}]
    /\ mine \in [Procs -> Ids \cup {""}] /\ got \in [Procs -> Ids \cup {""}]
    /\ since \in [Procs -> Ids \cup {""}] /\ used \subseteq Ids
    /\ calls \in 0..MaxCalls /\ stops \in 0..MaxStops

\* "Generate a new unique machine ID and persist it" (machine_id.cpp:76): once the
\* file holds an id and nobody is past finding it empty, neither the daemon nor
\* the script, a stop, a failed write or an upgrade ever changes the identity.
IdentityStays == [][\A k \in Ids : Stands(k) => Stands(k)']_idVars

\* From then on all agree on it: the id the daemon activates and the one the
\* script's heartbeat reports are this one.
AllFindIt ==
    \A p \in Procs : pc[p] = "idle" /\ since[p] # "" /\ got[p] # "" => got[p] = since[p]
================================================================================
