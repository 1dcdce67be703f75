------------------------------ MODULE Activation -------------------------------
(***************************************************************************)
(* Licence activation and its heartbeat.  POST /api/license/activate of    *)
(* the daemon (api/api_server.cpp with activation/activation_manager.cpp)  *)
(* asks the vendor for a signature of this machine's id and records it;    *)
(* packaging/check_updates.sh, started by a timer and by the dashboard,    *)
(* asks the vendor whether the recorded key still stands and withdraws the *)
(* activation when it does not.  Both go through five keys of the          *)
(* database, one at a time and without any lock between them.              *)
(***************************************************************************)
EXTENDS Naturals, Database

CONSTANTS
    ApiFile, ScriptFile,  \* the database files the daemon and the script open
    Workers,              \* threads of the daemon's pool
    Runs, TimerRun,       \* instances of check_updates.sh; the one the timer starts
    LicenceKeys,          \* keys the vendor has issued
    Urls, ServerAt,       \* server addresses, and what stands behind each one
    Flags,                \* texts given for license_server_verify_ssl
    Absent,               \* the request does not mention the setting
    Submitted,            \* the requests clients send
    Genuine, Forged,      \* the vendor's signature of this machine; any other text
    CaInstalled,          \* the vendor's certificate is trusted by this machine
    KeyInstalled,         \* license_public_key.pem is on the appliance
    MaxRequests, MaxKills \* bounds: activation requests, daemon stops

ASSUME ActivationAssumption ==
    /\ ApiFile \in Files /\ ScriptFile \in Files /\ TimerRun \in Runs
    /\ ServerAt \in [Urls -> {"vendor", "other", "nobody", "invalid"}]
    /\ CaInstalled \in BOOLEAN /\ KeyInstalled \in BOOLEAN
    /\ MaxRequests \in Nat /\ MaxKills \in Nat
    /\ Genuine \notin {Forged, Empty, Missing} /\ Missing \notin {"ACTIVE", "INACTIVE"}
    /\ {Empty, Missing} \cap LicenceKeys = {}
    /\ Submitted \subseteq [key : LicenceKeys \cup {Empty}, url : Urls \cup {Empty, Absent},
                            verify : Flags \cup {Absent}]

LicenceItems == {"status", "token", "key", "url", "verify"}

VARIABLES
    apc,       \* [Workers -> where the activation handler on this thread is]
    areq,      \* [Workers -> the request: key, url, verify]
    aurl,      \* [Workers -> local server_url]
    atok,      \* [Workers -> local token]
    answer,    \* [Workers -> outcome of the thread's last request]
    spc,       \* [Runs -> where this run of check_updates.sh is]
    skey, surl, \* [Runs -> LICENSE_KEY, SERVER_URL]
    licence,   \* [LicenceKeys -> "VALID" or "REVOKED"]: the vendor's records
    requests, kills

avars == <<apc, areq, aurl, atok, answer, requests, kills>>
svars == <<spc, skey, surl>>
vars  == <<db, avars, svars, licence>>

NoRequest == [key |-> Empty, url |-> Absent, verify |-> Absent]

APCs == {"idle", "key", "url", "verify", "readUrl", "contact", "reply",
         "token", "status", "record"}
SPCs == {"idle", "key", "url", "beat", "inactive", "erase", "update"}

Init ==
    /\ db = [file \in Files |-> [item \in LicenceItems |-> Missing]]
    /\ apc = [w \in Workers |-> "idle"] /\ areq = [w \in Workers |-> NoRequest]
    /\ aurl = [w \in Workers |-> Empty] /\ atok = [w \in Workers |-> Empty]
    /\ answer = [w \in Workers |-> "none"]
    /\ spc = [s \in Runs |-> "idle"]
    /\ skey = [s \in Runs |-> Empty] /\ surl = [s \in Runs |-> Empty]
    /\ licence = [k \in LicenceKeys |-> "VALID"]
    /\ requests = 0 /\ kills = 0

AGoto(w, where) == apc' = [apc EXCEPT ![w] = where] /\ UNCHANGED answer
AnswerWith(w, status) ==
    /\ apc' = [apc EXCEPT ![w] = "idle"]
    /\ answer' = [answer EXCEPT ![w] = status]

HandlersIdle == \A w \in Workers : apc[w] = "idle"
ScriptsIdle  == \A s \in Runs : spc[s] = "idle"

--------------------------------------------------------------------------------
\* POST /api/license/activate.  The thread's locals start afresh.
ActivateRequest(w) ==
    /\ apc[w] = "idle" /\ requests < MaxRequests
    /\ requests' = requests + 1
    /\ \E r \in Submitted : areq' = [areq EXCEPT ![w] = r]
    /\ aurl' = [aurl EXCEPT ![w] = Empty] /\ atok' = [atok EXCEPT ![w] = Empty]
    /\ apc' = [apc EXCEPT ![w] = "key"] /\ answer' = [answer EXCEPT ![w] = "none"]
    /\ UNCHANGED <<db, svars, licence, kills>>

CheckKey(w) ==
    /\ apc[w] = "key"
    /\ IF areq[w].key = Empty THEN AnswerWith(w, "error") ELSE AGoto(w, "url")
    /\ UNCHANGED <<db, areq, aurl, atok, requests, kills, svars, licence>>

\* The two settings are stored before anything is known of the server.  The
\* test on the address is json::empty(), which no text satisfies: the empty
\* address a dashboard field holds is stored too.
SaveUrl(w) ==
    /\ apc[w] = "url"
    /\ IF areq[w].url = Absent THEN UNCHANGED db
       ELSE SetConfig(ApiFile, "url", areq[w].url)
    /\ AGoto(w, "verify")
    /\ UNCHANGED <<areq, aurl, atok, requests, kills, svars, licence>>

SaveVerify(w) ==
    /\ apc[w] = "verify"
    /\ IF areq[w].verify = Absent THEN UNCHANGED db
       ELSE SetConfig(ApiFile, "verify", areq[w].verify)
    /\ AGoto(w, "readUrl")
    /\ UNCHANGED <<areq, aurl, atok, requests, kills, svars, licence>>

\* An unset address and one parse_server_url refuses end the request.
ReadUrl(w) ==
    /\ apc[w] = "readUrl"
    /\ \E v \in GetConfig(ApiFile, "url") :
          IF NoConfig(v) \/ ServerAt[v] = "invalid"
          THEN AnswerWith(w, "error") /\ UNCHANGED aurl
          ELSE AGoto(w, "contact") /\ aurl' = [aurl EXCEPT ![w] = v]
    /\ UNCHANGED <<db, areq, atok, requests, kills, svars, licence>>

\* The flag is read and the request sent: only the text "1" makes the daemon
\* insist on a trusted certificate.  The vendor signs for a key that stands,
\* another server answers 200 with some text, and any exchange may be lost.
Contact(w) ==
    /\ apc[w] = "contact"
    /\ \/ /\ ServerAt[aurl[w]] = "vendor" /\ licence[areq[w].key] = "VALID"
          /\ \E v \in GetConfig(ApiFile, "verify") :
                CaInstalled \/ ValueOr(v, "1") # "1"
          /\ atok' = [atok EXCEPT ![w] = Genuine] /\ AGoto(w, "reply")
       \/ /\ ServerAt[aurl[w]] = "other"
          /\ atok' = [atok EXCEPT ![w] = Forged] /\ AGoto(w, "reply")
       \/ AnswerWith(w, "error") /\ UNCHANGED atok
    /\ UNCHANGED <<db, areq, aurl, requests, kills, svars, licence>>

\* verify_signature over this machine's id
Verified(token) == token = Genuine

\* Variants of CheckToken with a mistake: the signature is not verified; the token
\* is not stored before the status.
CheckNothing(w) ==
    /\ apc[w] = "reply" /\ AGoto(w, "token")
    /\ UNCHANGED <<db, areq, aurl, atok, requests, kills, svars, licence>>
CheckThenStatus(w) ==
    /\ apc[w] = "reply"
    /\ IF KeyInstalled /\ Verified(atok[w]) THEN AGoto(w, "status") ELSE AnswerWith(w, "error")
    /\ UNCHANGED <<db, areq, aurl, atok, requests, kills, svars, licence>>

CheckToken(w) ==
    /\ apc[w] = "reply"
    /\ IF KeyInstalled /\ Verified(atok[w]) THEN AGoto(w, "token") ELSE AnswerWith(w, "error")
    /\ UNCHANGED <<db, areq, aurl, atok, requests, kills, svars, licence>>

\* ActivationManager::apply_token, then the handler records the key.
WriteToken(w) ==
    /\ apc[w] = "token"
    /\ SetConfig(ApiFile, "token", atok[w]) /\ AGoto(w, "status")
    /\ UNCHANGED <<areq, aurl, atok, requests, kills, svars, licence>>

WriteActive(w) ==
    /\ apc[w] = "status"
    /\ SetConfig(ApiFile, "status", "ACTIVE") /\ AGoto(w, "record")
    /\ UNCHANGED <<areq, aurl, atok, requests, kills, svars, licence>>

WriteKey(w) ==
    /\ apc[w] = "record"
    /\ SetConfig(ApiFile, "key", areq[w].key) /\ AnswerWith(w, "success")
    /\ UNCHANGED <<areq, aurl, atok, requests, kills, svars, licence>>

\* The daemon stops (a package upgrade, a crash) and systemd starts it again:
\* every handler is gone, the database stays.
DaemonStops ==
    /\ kills < MaxKills /\ ~HandlersIdle /\ kills' = kills + 1
    /\ apc' = [w \in Workers |-> "idle"] /\ answer' = [w \in Workers |-> "none"]
    /\ UNCHANGED <<db, areq, aurl, atok, requests, svars, licence>>

--------------------------------------------------------------------------------
\* check_updates.sh, from its start to the end of the heartbeat section.
StartRun(s) ==
    /\ spc[s] = "idle"
    /\ spc' = [spc EXCEPT ![s] = "key"]
    /\ skey' = [skey EXCEPT ![s] = Empty] /\ surl' = [surl EXCEPT ![s] = Empty]
    /\ UNCHANGED <<db, avars, licence>>

\* Variant of ReadLicenceKey with a mistake: no row is not the empty key.
ReadLicenceRow(s) ==
    /\ spc[s] = "key"
    /\ skey' = [skey EXCEPT ![s] = db[ScriptFile]["key"]]
    /\ spc' = [spc EXCEPT ![s] = "url"]
    /\ UNCHANGED <<db, avars, surl, licence>>

ReadLicenceKey(s) ==
    /\ spc[s] = "key"
    /\ \E v \in GetConfig(ScriptFile, "key") : skey' = [skey EXCEPT ![s] = ValueOr(v, Empty)]
    /\ spc' = [spc EXCEPT ![s] = "url"]
    /\ UNCHANGED <<db, avars, surl, licence>>

\* Without an address the script exits; without a key it goes on to updates.
ReadServerUrl(s) ==
    /\ spc[s] = "url"
    /\ \E v \in GetConfig(ScriptFile, "url") :
          /\ surl' = [surl EXCEPT ![s] = ValueOr(v, Empty)]
          /\ spc' = [spc EXCEPT ![s] = IF NoConfig(v) THEN "idle"
                                       ELSE IF skey[s] = Empty THEN "update" ELSE "beat"]
    /\ UNCHANGED <<db, avars, skey, licence>>

\* Variants of BeatAnswered with a mistake: no answer counts, or every one does.
BeatIgnored(s) ==
    /\ spc[s] = "beat" /\ ServerAt[surl[s]] = "vendor"
    /\ spc' = [spc EXCEPT ![s] = "update"]
    /\ UNCHANGED <<db, avars, skey, surl, licence>>
BeatRevokes(s) ==
    /\ spc[s] = "beat" /\ ServerAt[surl[s]] = "vendor"
    /\ spc' = [spc EXCEPT ![s] = "inactive"]
    /\ UNCHANGED <<db, avars, skey, surl, licence>>

\* The vendor's answer to the heartbeat.  For the script every flag but "0"
\* means that the certificate must be trusted.
BeatAnswered(s) ==
    /\ spc[s] = "beat" /\ ServerAt[surl[s]] = "vendor"
    /\ \E v \in GetConfig(ScriptFile, "verify") : CaInstalled \/ v = "0"
    /\ spc' = [spc EXCEPT ![s] = IF licence[skey[s]] = "REVOKED" THEN "inactive" ELSE "update"]
    /\ UNCHANGED <<db, avars, skey, surl, licence>>

\* REVOKED or INACTIVE from whatever other server the stored address leads to: the
\* answer is not signed, and the script believes it.
OtherRevokes(s) ==
    /\ spc[s] = "beat" /\ ServerAt[surl[s]] = "other"
    /\ spc' = [spc EXCEPT ![s] = "inactive"]
    /\ UNCHANGED <<db, avars, skey, surl, licence>>

\* curl fails, or the answer, whosever it is, has neither of the two words.
BeatLost(s) ==
    /\ spc[s] = "beat" /\ spc' = [spc EXCEPT ![s] = "update"]
    /\ UNCHANGED <<db, avars, skey, surl, licence>>

WriteInactive(s) ==
    /\ spc[s] = "inactive"
    /\ SetConfig(ScriptFile, "status", "INACTIVE")
    /\ spc' = [spc EXCEPT ![s] = "erase"]
    /\ UNCHANGED <<avars, skey, surl, licence>>

EraseToken(s) ==
    /\ spc[s] = "erase"
    /\ SetConfig(ScriptFile, "token", Empty)
    /\ spc' = [spc EXCEPT ![s] = "idle"]
    /\ UNCHANGED <<avars, skey, surl, licence>>

\* The update section touches no licence key; module Updater has it.
UpdateSection(s) ==
    /\ spc[s] = "update" /\ spc' = [spc EXCEPT ![s] = "idle"]
    /\ UNCHANGED <<db, avars, skey, surl, licence>>

\* The vendor withdraws a key.
Revoke(k) ==
    /\ licence[k] = "VALID" /\ licence' = [licence EXCEPT ![k] = "REVOKED"]
    /\ UNCHANGED <<db, avars, svars>>

--------------------------------------------------------------------------------
Activate(w) ==
    \/ CheckKey(w) \/ SaveUrl(w) \/ SaveVerify(w) \/ ReadUrl(w) \/ Contact(w)
    \/ CheckToken(w) \/ WriteToken(w) \/ WriteActive(w) \/ WriteKey(w)

RunSteps(s) ==
    \/ ReadLicenceKey(s) \/ ReadServerUrl(s)
    \/ BeatAnswered(s) \/ OtherRevokes(s) \/ BeatLost(s)
    \/ WriteInactive(s) \/ EraseToken(s) \/ UpdateSection(s)

Next ==
    \/ \E w \in Workers : ActivateRequest(w) \/ Activate(w)
    \/ DaemonStops
    \/ \E s \in Runs : StartRun(s) \/ RunSteps(s)
    \/ \E k \in LicenceKeys : Revoke(k)

Spec == Init /\ [][Next]_vars

\* Handlers and scripts that have started run on; the timer starts the script
\* again and again; heartbeats are lost, but not every one the vendor gets.
Fairness ==
    /\ \A w \in Workers : WF_vars(Activate(w))
    /\ \A s \in Runs : WF_vars(RunSteps(s))
    /\ SF_vars(StartRun(TimerRun)) /\ SF_vars(BeatAnswered(TimerRun))
FairSpec == Spec /\ Fairness

--------------------------------------------------------------------------------
TypeOK ==
    /\ \A file \in Files :
          /\ db[file]["status"] \in {"ACTIVE", "INACTIVE", Missing}
          /\ db[file]["token"] \in {Genuine, Forged, Empty, Missing}
          /\ db[file]["key"] \in LicenceKeys \cup {Missing}
          /\ db[file]["url"] \in Urls \cup {Empty, Missing}
          /\ db[file]["verify"] \in Flags \cup {Missing}
    /\ apc \in [Workers -> APCs] /\ areq \in [Workers -> Submitted \cup {NoRequest}]
    /\ aurl \in [Workers -> Urls \cup {Empty}]
    /\ atok \in [Workers -> {Genuine, Forged, Empty}]
    /\ answer \in [Workers -> {"none", "error", "success"}]
    /\ spc \in [Runs -> SPCs]
    /\ skey \in [Runs -> LicenceKeys \cup {Empty}] /\ surl \in [Runs -> Urls \cup {Empty}]
    /\ licence \in [LicenceKeys -> {"VALID", "REVOKED"}]
    /\ requests \in 0..MaxRequests /\ kills \in 0..MaxKills

Quiet  == HandlersIdle /\ ScriptsIdle
Status == db[ApiFile]["status"]

\* ActivationManager::is_activated
IsActivated == Status = "ACTIVE" /\ Verified(db[ApiFile]["token"])

\* "On success, activation_status is marked ACTIVE" (docs/ARCHITECTURE.md:55):
\* whenever nothing is under way, also after a stop of the daemon in the middle
\* of a request, an appliance that shows ACTIVE holds a token that
\* is_activated() accepts.  This needs that the two writes of a run after a
\* revocation (check_updates.sh:81) never mix with those of an activation.
OneAtATime == HandlersIdle \/ ScriptsIdle
ActiveIsBacked == Quiet /\ Status = "ACTIVE" => IsActivated
ActiveIsBackedAlone == []OneAtATime => []ActiveIsBacked

\* The status only turns ACTIVE for a request whose key the vendor has signed
\* for: refused, lost and forged answers never activate (api_server.cpp:756).
OnlyVendorActivates ==
    [][Status # "ACTIVE" /\ Status' = "ACTIVE" =>
          \E w \in Workers : apc[w] = "status" /\ ServerAt[aurl[w]] = "vendor"]_vars

\* "If Main Server responds with REVOKED or INACTIVE" (docs/ARCHITECTURE.md:60):
\* nothing else ends an activation.  Whenever nothing is under way, an appliance
\* whose recorded key stands is ACTIVE, whatever requests, settings, lost or
\* unhelpful answers and stops went before.  The code only keeps this while requests
\* and runs do not overlap, and while every server that says REVOKED or INACTIVE is
\* the Main Server: check_updates.sh:79 believes whoever answers at the stored
\* address, and OnlyVendorRevokes says that no other server has said so.
StandingKeyIsActive ==
    Quiet /\ db[ApiFile]["key"] \in LicenceKeys /\ licence[db[ApiFile]["key"]] = "VALID"
        => Status = "ACTIVE"
OnlyVendorRevokes == \A s \in Runs : spc[s] = "inactive" => ServerAt[surl[s]] = "vendor"
StandingKeyIsActiveAlone == []OneAtATime /\ []OnlyVendorRevokes => []StandingKeyIsActive

\* "If Main Server responds with REVOKED ... local SQLite state is reset to
\* INACTIVE" (docs/ARCHITECTURE.md:60): once every key is withdrawn, the
\* appliance ends up not active for good.
RevocationReaches ==
    (\A k \in LicenceKeys : licence[k] = "REVOKED") ~> [](Status # "ACTIVE")
================================================================================
