------------------------------- MODULE ApiConfig -------------------------------
(***************************************************************************)
(* The network configuration handlers of the API daemon                    *)
(* (api/api_server.cpp: GET and POST /api/config).  cpp-httplib runs them  *)
(* on a pool of threads; the only lock is the one inside each single       *)
(* get_config and set_config, so handlers interleave between any two keys. *)
(* Only requests that passed check_auth are modelled: the others are       *)
(* answered 401 and touch nothing here.                                    *)
(***************************************************************************)
EXTENDS ConfigStore

CONSTANTS
    ApiFile,          \* the database file the daemon opened
    Workers,          \* threads of the server's pool
    SysIfaces,        \* sequence: adapters of the machine as `ls' prints them
    Bodies,           \* POST bodies: sequences of elements, or NoArray
    NoArray,          \* a JSON body without an "interfaces" array
    Jobs, ApiJobs,    \* sync script slots; those the daemon's launches may take
    MaxRequests,      \* bound: requests received
    StoredJson,       \* the array on disk when the daemon starts, or Missing
    StoredKeys        \* the legacy keys that may be there then: left by an older
                      \* version, or by a console that was killed before the array

\* What json::parse yields for an "interfaces" array: elements with these fields.
IsArray(body) ==
    /\ body \in Seq({body[i] : i \in DOMAIN body})
    /\ \A i \in DOMAIN body : /\ body[i] = Item(body[i].id, body[i])
                              /\ body[i].id \in Roles \cup CustomIds

ASSUME ApiConfigAssumption ==
    /\ ApiFile \in Files
    /\ SysIfaces \in Seq(Devices)
    /\ \A i, j \in DOMAIN SysIfaces : i # j => SysIfaces[i] # SysIfaces[j]
    /\ \A body \in Bodies \ {NoArray} : IsArray(body)
    /\ ApiJobs \subseteq Jobs
    /\ MaxRequests \in Nat
    /\ StoredJson \in Seq(Items) \cup {Missing} /\ JsonDistinct(StoredJson)
    /\ \A keys \in StoredKeys, r \in Roles, f \in Fields :
          keys[<<r, f>>] \in FieldTexts[f] \cup {Empty, Missing}

VARIABLES
    wpc,       \* [Workers -> where the handler on this thread is]
    req,       \* [Workers -> the body being handled]
    wi, wk,    \* [Workers -> index of the element or role, index of its key]
    seed,      \* [Workers -> the locals wan_dev ... of GET]
    reply,     \* [Workers -> outcome of the thread's last request]
    requests,
    job        \* [Jobs -> state of the sync script in that slot]

vars  == <<db, wpc, req, wi, wk, seed, reply, requests, job>>

NoSeed == [r \in Roles |-> NoAddress]
WPCs == {"idle", "get", "seed", "seedSave", "post", "save", "legacy", "launch"}

\* Elements as clients send them: any text may stand in any field.
ElementTexts(field) == FieldTexts[field] \cup {Empty}

Init ==
    /\ \E keys \in StoredKeys :
          db = [file \in Files |-> [key \in Keys |->
                  IF file # ApiFile THEN Missing
                  ELSE IF key = JsonKey THEN StoredJson ELSE keys[key]]]
    /\ wpc = [w \in Workers |-> "idle"] /\ req = [w \in Workers |-> NoArray]
    /\ wi = [w \in Workers |-> 1] /\ wk = [w \in Workers |-> 1]
    /\ seed = [w \in Workers |-> NoSeed] /\ reply = [w \in Workers |-> "none"]
    /\ requests = 0
    /\ job = [j \in Jobs |-> "idle"]

\* The thread answers and is free for the next request.
Answer(w, status) ==
    /\ wpc' = [wpc EXCEPT ![w] = "idle"]
    /\ reply' = [reply EXCEPT ![w] = status]

Goto(w, where) == wpc' = [wpc EXCEPT ![w] = where] /\ UNCHANGED reply

--------------------------------------------------------------------------------
\* GET /api/config.  A non-empty stored array is returned as it is.
GetConfigRequest(w) ==
    /\ wpc[w] = "idle" /\ requests < MaxRequests
    /\ requests' = requests + 1
    /\ wpc' = [wpc EXCEPT ![w] = "get"] /\ reply' = [reply EXCEPT ![w] = "none"]
    /\ wi' = [wi EXCEPT ![w] = 1] /\ wk' = [wk EXCEPT ![w] = 1]
    /\ seed' = [seed EXCEPT ![w] = NoSeed]
    /\ UNCHANGED <<db, req, job>>

\* Variant of ReadStored with a mistake: the array is rebuilt on every GET.
RebuildAlways(w) ==
    /\ wpc[w] = "get" /\ Goto(w, "seed")
    /\ UNCHANGED <<db, req, wi, wk, seed, requests, job>>

ReadStored(w) ==
    /\ wpc[w] = "get"
    /\ \E v \in GetConfig(ApiFile, JsonKey) :
          IF NoConfig(v) THEN Goto(w, "seed") ELSE Answer(w, "returned")
    /\ UNCHANGED <<db, req, wi, wk, seed, requests, job>>

\* An empty one is rebuilt from the legacy keys, one read each; only the
\* netmasks have a default, for a key that has no row.
Default(field) == IF field = "netmask" THEN DefaultNetmask ELSE Empty

ReadLegacy(w) ==
    /\ wpc[w] = "seed"
    /\ LET r == RoleSeq[wi[w]]  f == FieldSeq[wk[w]]
       IN  /\ \E v \in GetConfig(ApiFile, <<r, f>>) :
                 seed' = [seed EXCEPT ![w][r][f] = ValueOr(v, Default(f))]
           /\ IF wk[w] < LastField(r)
              THEN wk' = [wk EXCEPT ![w] = @ + 1] /\ UNCHANGED <<wi, wpc>>
              ELSE /\ wk' = [wk EXCEPT ![w] = 1]
                   /\ IF wi[w] < 3
                      THEN wi' = [wi EXCEPT ![w] = @ + 1] /\ UNCHANGED wpc
                      ELSE wi' = [wi EXCEPT ![w] = 1] /\ wpc' = [wpc EXCEPT ![w] = "seedSave"]
    /\ UNCHANGED <<db, req, reply, requests, job>>

\* Variant of Detected with a mistake: every role starts again at the first adapter.
DetectFirst(recs) ==
    [r \in Roles |->
       IF recs[r]["interface"] = Empty /\ SysIfaces # <<>>
       THEN [recs[r] EXCEPT !["interface"] = SysIfaces[1]] ELSE recs[r]]

\* A role without an adapter gets the machine's first, second, third one, whether or
\* not another role has it.
Detected(recs) ==
    [r \in Roles |->
       LET n == CHOOSE i \in 1..3 : RoleSeq[i] = r
       IN  IF recs[r]["interface"] = Empty /\ Len(SysIfaces) >= n
           THEN [recs[r] EXCEPT !["interface"] = SysIfaces[n]] ELSE recs[r]]

SaveSeed(w) ==
    /\ wpc[w] = "seedSave"
    /\ SetConfig(ApiFile, JsonKey, ToJson(Detected(seed[w])))
    /\ Answer(w, "returned")
    /\ UNCHANGED <<req, wi, wk, seed, requests, job>>

--------------------------------------------------------------------------------
\* POST /api/config
PostConfigRequest(w) ==
    /\ wpc[w] = "idle" /\ requests < MaxRequests
    /\ \E body \in Bodies : req' = [req EXCEPT ![w] = body]
    /\ requests' = requests + 1
    /\ wpc' = [wpc EXCEPT ![w] = "post"] /\ reply' = [reply EXCEPT ![w] = "none"]
    /\ wi' = [wi EXCEPT ![w] = 1] /\ wk' = [wk EXCEPT ![w] = 1]
    /\ UNCHANGED <<db, seed, job>>

\* The validation loop: address texts well formed, no address and no adapter
\* used twice, every adapter present on the machine.
Adapters == {SysIfaces[i] : i \in DOMAIN SysIfaces}
\* Variant of Valid with a mistake: adapters are not compared.
ValidAddresses(body) ==
    \A i \in DOMAIN body :
        /\ body[i].ip \in Ips \cup {Empty}
        /\ body[i].interface \in Adapters \cup {Empty}
        /\ \A j \in 1..(i - 1) : body[i].ip # Empty => body[i].ip # body[j].ip

Valid(body) ==
    \A i \in DOMAIN body :
        /\ body[i].ip \in Ips \cup {Empty}
        /\ body[i].netmask \in Netmasks \cup {Empty}
        /\ body[i].gateway \in Gateways \cup {Empty}
        /\ body[i].interface \in Adapters \cup {Empty}
        /\ \A j \in 1..(i - 1) :
              /\ body[i].ip # Empty => body[i].ip # body[j].ip
              /\ body[i].interface # Empty => body[i].interface # body[j].interface

\* Variant of Validate with a mistake: a refused body is acknowledged.
ValidateLenient(w) ==
    /\ wpc[w] = "post"
    /\ IF req[w] # NoArray /\ Valid(req[w]) THEN Goto(w, "save") ELSE Answer(w, "success")
    /\ UNCHANGED <<db, req, wi, wk, seed, requests, job>>

\* A body without the array is answered "success" and nothing is done.
Validate(w) ==
    /\ wpc[w] = "post"
    /\ IF req[w] = NoArray THEN Answer(w, "success")
       ELSE IF Valid(req[w]) THEN Goto(w, "save") ELSE Answer(w, "rejected")
    /\ UNCHANGED <<db, req, wi, wk, seed, requests, job>>

\* Variants of NextRole with a mistake: the loop ends at the first element that is
\* no role, or never gets past the element it is at.
NextRoleBreaks(body, i) ==
    IF i <= Len(body) /\ body[i].id \in Roles THEN i ELSE Len(body) + 1
NextRoleStays(body, i) ==
    CHOOSE n \in {m \in 1..Len(body) : m >= i - 1} : TRUE

\* From element i on, the next one that stands for a role: others have no
\* legacy keys and are passed over.
NextRole(body, i) ==
    LET rest == {n \in i..Len(body) : body[n].id \in Roles}
    IN  IF rest = {} THEN Len(body) + 1 ELSE CHOOSE n \in rest : \A m \in rest : n <= m

ToElement(w, i) ==
    /\ wi' = [wi EXCEPT ![w] = i] /\ wk' = [wk EXCEPT ![w] = 1]
    /\ Goto(w, IF i > Len(req[w]) THEN "launch" ELSE "legacy")

SaveJson(w) ==
    /\ wpc[w] = "save"
    /\ SetConfig(ApiFile, JsonKey, req[w])
    /\ ToElement(w, NextRole(req[w], 1))
    /\ UNCHANGED <<req, seed, requests, job>>

\* "Sync back to legacy configurations for compatibility with CLI client": one
\* set_config per key of every role among the elements.
SaveLegacy(w) ==
    /\ wpc[w] = "legacy"
    /\ LET item == req[w][wi[w]]  f == FieldSeq[wk[w]]
       IN  /\ SetConfig(ApiFile, <<item.id, f>>, item[f])
           /\ IF wk[w] < LastField(item.id)
              THEN wk' = [wk EXCEPT ![w] = @ + 1] /\ UNCHANGED <<wi, wpc, reply>>
              ELSE ToElement(w, NextRole(req[w], wi[w] + 1))
    /\ UNCHANGED <<req, seed, requests, job>>

\* Variant of LaunchSync with a mistake: the script is not started.
LaunchNothing(w) ==
    /\ wpc[w] = "launch" /\ Answer(w, "success")
    /\ UNCHANGED <<db, req, wi, wk, seed, requests, job>>

\* std::system("sudo /opt/beout_os/bin/sync_network.sh &") does not wait.
LaunchSync(w) ==
    /\ wpc[w] = "launch"
    /\ \E j \in ApiJobs : job[j] = "idle" /\ job' = [job EXCEPT ![j] = "started"]
    /\ Answer(w, "success")
    /\ UNCHANGED <<db, req, wi, wk, seed, requests>>

--------------------------------------------------------------------------------
Request(w) == GetConfigRequest(w) \/ PostConfigRequest(w)

Handle(w) ==
    \/ ReadStored(w) \/ ReadLegacy(w) \/ SaveSeed(w)
    \/ Validate(w) \/ SaveJson(w) \/ SaveLegacy(w) \/ LaunchSync(w)

\* A launched script, seen from here: it ends some time later.
SyncEnds(j) ==
    /\ job[j] = "started" /\ job' = [job EXCEPT ![j] = "idle"]
    /\ UNCHANGED <<db, wpc, req, wi, wk, seed, reply, requests>>

Next ==
    \/ \E w \in Workers : Request(w) \/ Handle(w)
    \/ \E j \in ApiJobs : SyncEnds(j)

Spec == Init /\ [][Next]_vars

--------------------------------------------------------------------------------
\* The handlers' locals; Appliance's TypeOK includes it.
HandlersTypeOK ==
    /\ wpc \in [Workers -> WPCs]
    /\ req \in [Workers -> Bodies \cup {NoArray}]
    /\ wi \in [Workers -> Nat] /\ wk \in [Workers -> 1..4]
    /\ \A w \in Workers, r \in Roles, f \in Fields : seed[w][r][f] \in ElementTexts(f)
    /\ reply \in [Workers -> {"none", "returned", "rejected", "success"}]
    /\ requests \in 0..MaxRequests

Stored == db[ApiFile][JsonKey]

\* Nobody is in the way of a seed: roles that have an adapter have different ones,
\* and none has the one that ReadLegacy and Detected give to a role without.
Apart(held) ==
    /\ \A r, s \in Roles : r # s /\ held[r] # Empty => held[r] # held[s]
    /\ \A n \in 1..3, r \in Roles :
          held[RoleSeq[n]] = Empty /\ n <= Len(SysIfaces) => held[r] # SysIfaces[n]
Unclaimed == Apart([r \in Roles |-> LegacyOf(ApiFile)[r]["interface"]])

\* "Duplicate adapter device across interfaces" (api_server.cpp:578) is refused by
\* POST.  GET checks nothing: handlers that run one after the other never store an
\* array with an adapter twice if the keys the daemon started with are Unclaimed.
\* If they are not, the first GET may: api_server.cpp:466 deals out an adapter that
\* another role has.
SavedDistinct == Unclaimed => []JsonDistinct(Stored)

\* GET "retrieves" (docs/API_CLI.md:61): an array that has been stored is only
\* ever replaced by the body of a POST, and by all of it.
OnlyPostReplaces ==
    [][~NoConfig(Stored) /\ Stored' # Stored =>
          \E w \in Workers : wpc[w] = "save" /\ Stored' = req[w]]_vars

\* POST "applies new network configuration parameters to the appliance config store"
\* (docs/API_CLI.md:76) and answers "success": the array that came with it is the
\* stored one when the answer is sent.  The body that document shows (lines 78-88)
\* has no array.  It is answered "success" just the same, and the array stays.
AckMeansSaved ==
    [][\A w \in Workers :
          wpc[w] \in {"post", "launch"} /\ reply'[w] = "success" =>
              Stored' = IF req[w] = NoArray THEN Stored ELSE req[w]]_vars

\* "Sync back to legacy configurations for compatibility with CLI client"
\* (api_server.cpp:588): from the moment the script is launched for a POST until
\* its thread takes another request, the array is its body, and the legacy keys of
\* every role in it say what the last element of that role says.
Posted(w) ==
    req[w] # NoArray /\ (wpc[w] = "launch" \/ (wpc[w] = "idle" /\ reply[w] = "success"))
Agrees(item) ==
    \A n \in 1..LastField(item.id) :
        db[ApiFile][<<item.id, FieldSeq[n]>>] = item[FieldSeq[n]]
LegacyFollows ==
    \A w \in Workers : Posted(w) =>
        /\ Stored = req[w]
        /\ \A i \in DOMAIN req[w] :
              /\ req[w][i].id \in Roles
              /\ \A j \in (i + 1)..Len(req[w]) : req[w][j].id # req[w][i].id
              => Agrees(req[w][i])
================================================================================
