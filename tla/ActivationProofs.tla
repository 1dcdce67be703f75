---------------------------- MODULE ActivationProofs ----------------------------
(***************************************************************************)
(* What activation guarantees for any number of threads, script runs,      *)
(* licence keys and servers, under every interleaving and with stops of    *)
(* the daemon anywhere.                                                    *)
(***************************************************************************)
EXTENDS Activation, TLAPS

USE DatabaseAssumption, ActivationAssumption

--------------------------------------------------------------------------------
\* The type invariant is inductive with two facts: the database has its rows, and
\* a handler past its first test has a key.
ATyped ==
    /\ TypeOK
    /\ DOMAIN db = Files /\ \A file \in Files : DOMAIN db[file] = LicenceItems
    /\ \A w \in Workers : /\ apc[w] # "idle" => areq[w] \in Submitted
                          /\ apc[w] \notin {"idle", "key"} => areq[w].key \in LicenceKeys

ItemTexts == [status |-> {"ACTIVE", "INACTIVE", Missing},
              token  |-> {Genuine, Forged, Empty, Missing},
              key    |-> LicenceKeys \cup {Missing},
              url    |-> Urls \cup {Empty, Missing},
              verify |-> Flags \cup {Missing}]
Rows ==
    /\ DOMAIN db = Files /\ \A file \in Files : DOMAIN db[file] = LicenceItems
    /\ \A file \in Files, item \in LicenceItems : db[file][item] \in ItemTexts[item]

\* What the database part of TypeOK says, item by item.
LEMMA RowsAre ==
    Rows <=> /\ DOMAIN db = Files /\ \A file \in Files : DOMAIN db[file] = LicenceItems
             /\ \A file \in Files :
                   /\ db[file]["status"] \in {"ACTIVE", "INACTIVE", Missing}
                   /\ db[file]["token"] \in {Genuine, Forged, Empty, Missing}
                   /\ db[file]["key"] \in LicenceKeys \cup {Missing}
                   /\ db[file]["url"] \in Urls \cup {Empty, Missing}
                   /\ db[file]["verify"] \in Flags \cup {Missing}
  BY DEF Rows, ItemTexts, LicenceItems

\* A write of a text that the item may have keeps the rows.
LEMMA RowWritten ==
    ASSUME Rows, NEW file \in Files, NEW item \in LicenceItems, NEW text \in ItemTexts[item],
           SetConfig(file, item, text)
    PROVE  Rows'
  BY DEF Rows, SetConfig

\* The part of ATyped that is not the database's.
Locals ==
    /\ apc \in [Workers -> APCs] /\ areq \in [Workers -> Submitted \cup {NoRequest}]
    /\ aurl \in [Workers -> Urls \cup {Empty}]
    /\ atok \in [Workers -> {Genuine, Forged, Empty}]
    /\ answer \in [Workers -> {"none", "error", "success"}]
    /\ spc \in [Runs -> SPCs]
    /\ skey \in [Runs -> LicenceKeys \cup {Empty}] /\ surl \in [Runs -> Urls \cup {Empty}]
    /\ licence \in [LicenceKeys -> {"VALID", "REVOKED"}]
    /\ requests \in 0..MaxRequests /\ kills \in 0..MaxKills
    /\ \A w \in Workers : /\ apc[w] # "idle" => areq[w] \in Submitted
                          /\ apc[w] \notin {"idle", "key"} => areq[w].key \in LicenceKeys

LEMMA ATypedParts == ATyped <=> Rows /\ Locals
  BY RowsAre DEF ATyped, TypeOK, Locals

LEMMA ATypedInit == Init => ATyped
  <1>1. Init => Rows
    BY DEF Init, Rows, ItemTexts, LicenceItems
  <1>2. Init => Locals
    BY DEF Init, Locals, APCs, SPCs
  <1>3. QED
    BY <1>1, <1>2, ATypedParts

LEMMA LocalsNext ==
    ASSUME Rows, Locals, [Next]_vars
    PROVE  Locals'
  <1> USE DEF Locals, APCs, SPCs, AGoto, AnswerWith
  <1>1. ASSUME NEW w \in Workers, ActivateRequest(w) PROVE Locals'
    BY <1>1 DEF ActivateRequest, svars
  <1>2. ASSUME NEW w \in Workers,
               CheckKey(w) \/ SaveUrl(w) \/ SaveVerify(w) \/ CheckToken(w)
                  \/ WriteToken(w) \/ WriteActive(w) \/ WriteKey(w)
        PROVE  Locals'
    BY <1>2 DEF CheckKey, SaveUrl, SaveVerify, CheckToken, WriteToken, WriteActive, WriteKey, svars
  <1>3. ASSUME NEW w \in Workers, ReadUrl(w) PROVE Locals'
    BY <1>3 DEF ReadUrl, svars, GetConfig, NoConfig, Rows, ItemTexts, LicenceItems
  <1>4. ASSUME NEW w \in Workers, Contact(w) PROVE Locals'
    BY <1>4 DEF Contact, svars
  <1>5. CASE DaemonStops
    BY <1>5 DEF DaemonStops, svars
  <1>6. ASSUME NEW s \in Runs, StartRun(s) PROVE Locals'
    BY <1>6 DEF StartRun, avars
  <1>7. ASSUME NEW s \in Runs, ReadLicenceKey(s) PROVE Locals'
    BY <1>7 DEF ReadLicenceKey, GetConfig, ValueOr, avars, Rows, ItemTexts, LicenceItems
  <1>8. ASSUME NEW s \in Runs, ReadServerUrl(s) PROVE Locals'
    BY <1>8 DEF ReadServerUrl, GetConfig, ValueOr, avars, Rows, ItemTexts, LicenceItems
  <1>9. ASSUME NEW s \in Runs,
               BeatAnswered(s) \/ OtherRevokes(s) \/ BeatLost(s) \/ WriteInactive(s)
                  \/ EraseToken(s) \/ UpdateSection(s)
        PROVE  Locals'
    BY <1>9 DEF BeatAnswered, OtherRevokes, BeatLost, WriteInactive, EraseToken, UpdateSection,
                avars
  <1>10. ASSUME NEW i \in LicenceKeys, Revoke(i) PROVE Locals'
    BY <1>10 DEF Revoke, avars, svars
  <1>11. CASE UNCHANGED vars
    BY <1>11 DEF vars, avars, svars
  <1>12. QED
    BY <1>1, <1>2, <1>3, <1>4, <1>5, <1>6, <1>7, <1>8, <1>9, <1>10, <1>11
    DEF Next, Activate, RunSteps

LEMMA RowsNext ==
    ASSUME Rows, Locals, [Next]_vars
    PROVE  Rows'
  <1>1. ASSUME NEW w \in Workers, SaveUrl(w) PROVE Rows'
    <2>1. apc[w] = "url" => areq[w].url \in Urls \cup {Empty, Absent}
      BY DEF Locals
    <2>2. QED
      BY <1>1, <2>1, RowWritten DEF SaveUrl, ItemTexts, LicenceItems, Rows
  <1>2. ASSUME NEW w \in Workers, SaveVerify(w) PROVE Rows'
    <2>1. apc[w] = "verify" => areq[w].verify \in Flags \cup {Absent}
      BY DEF Locals
    <2>2. QED
      BY <1>2, <2>1, RowWritten DEF SaveVerify, ItemTexts, LicenceItems, Rows
  <1>3. ASSUME NEW w \in Workers, WriteToken(w) PROVE Rows'
    BY <1>3, RowWritten DEF WriteToken, ItemTexts, LicenceItems, Locals
  <1>4. ASSUME NEW w \in Workers, WriteActive(w) PROVE Rows'
    BY <1>4, RowWritten DEF WriteActive, ItemTexts, LicenceItems
  <1>5. ASSUME NEW w \in Workers, WriteKey(w) PROVE Rows'
    BY <1>5, RowWritten DEF WriteKey, ItemTexts, LicenceItems, Locals
  <1>6. ASSUME NEW s \in Runs, WriteInactive(s) PROVE Rows'
    BY <1>6, RowWritten DEF WriteInactive, ItemTexts, LicenceItems
  <1>7. ASSUME NEW s \in Runs, EraseToken(s) PROVE Rows'
    BY <1>7, RowWritten DEF EraseToken, ItemTexts, LicenceItems
  <1>8. ASSUME UNCHANGED db PROVE Rows'
    BY <1>8 DEF Rows
  <1>9. QED
    BY <1>1, <1>2, <1>3, <1>4, <1>5, <1>6, <1>7, <1>8
    DEF Next, Activate, RunSteps, ActivateRequest, CheckKey, ReadUrl, Contact, CheckToken,
        DaemonStops, StartRun, ReadLicenceKey, ReadServerUrl, BeatAnswered, OtherRevokes, BeatLost,
        UpdateSection, Revoke, vars

LEMMA ATypedNext == ATyped /\ [Next]_vars => ATyped'
  <1>1. Rows' /\ Locals' => ATyped'
    BY ATypedParts, PTL
  <1>2. QED
    BY <1>1, ATypedParts, LocalsNext, RowsNext

\* Texts in the database and locals of handlers and runs are what TypeOK says, for
\* any requests, servers and texts, with store accesses that fail and stops.
THEOREM TypeCorrect == Spec => []TypeOK
  <1>1. ATyped => TypeOK
    BY DEF ATyped
  <1>2. QED
    BY <1>1, ATypedInit, ATypedNext, PTL DEF Spec

--------------------------------------------------------------------------------
\* The inductive invariant behind OnlyVendorActivates.  A handler that has passed
\* the check of the token holds the vendor's signature, and a handler that holds
\* it got it in this request from the vendor's server.
Placed ==
    /\ DOMAIN apc = Workers /\ DOMAIN aurl = Workers /\ DOMAIN atok = Workers
    /\ DOMAIN db = Files /\ \A file \in Files : DOMAIN db[file] = LicenceItems
SignedInv ==
    /\ Placed
    /\ \A w \in Workers : apc[w] \in {"token", "status"} => atok[w] = Genuine
    /\ \A w \in Workers : apc[w] \in {"reply", "token", "status"} /\ atok[w] = Genuine
                             => ServerAt[aurl[w]] = "vendor"

\* A write of any item but the status leaves every status alone.
LEMMA OtherItem ==
    ASSUME Placed, NEW file \in Files, NEW item \in LicenceItems \ {"status"}, NEW text,
           SetConfig(file, item, text)
    PROVE  /\ DOMAIN db' = Files /\ \A f \in Files : DOMAIN db'[f] = LicenceItems
           /\ Status' = Status
  BY DEF Placed, SetConfig, Status, LicenceItems

\* A write of the status keeps the shape of the database.
LEMMA StatusItem ==
    ASSUME Placed, NEW file \in Files, NEW text, SetConfig(file, "status", text)
    PROVE  /\ DOMAIN db' = Files /\ \A f \in Files : DOMAIN db'[f] = LicenceItems
           /\ Status' \in {Status, text}
  BY DEF Placed, SetConfig, Status, LicenceItems

LEMMA SignedNext ==
    ASSUME SignedInv, [Next]_vars
    PROVE  /\ SignedInv'
           /\ Status # "ACTIVE" /\ Status' = "ACTIVE" =>
                 \E w \in Workers : apc[w] = "status" /\ ServerAt[aurl[w]] = "vendor"
  <1> DEFINE Goal == /\ SignedInv'
                     /\ Status # "ACTIVE" /\ Status' = "ACTIVE" =>
                           \E w \in Workers : apc[w] = "status" /\ ServerAt[aurl[w]] = "vendor"
  <1> USE DEF SignedInv, Placed, AGoto, AnswerWith
  <1>1. ASSUME NEW w \in Workers, ActivateRequest(w) \/ CheckKey(w) PROVE Goal
    BY <1>1 DEF ActivateRequest, CheckKey, Status
  <1>2. ASSUME NEW w \in Workers, SaveUrl(w) PROVE Goal
    <2>1. SignedInv' /\ Status' = Status
      BY <1>2, OtherItem DEF SaveUrl, LicenceItems, Status
    <2>2. QED
      BY <2>1
  <1>3. ASSUME NEW w \in Workers, SaveVerify(w) PROVE Goal
    <2>1. SignedInv' /\ Status' = Status
      BY <1>3, OtherItem DEF SaveVerify, LicenceItems, Status
    <2>2. QED
      BY <2>1
  <1>4. ASSUME NEW w \in Workers, ReadUrl(w) PROVE Goal
    BY <1>4 DEF ReadUrl, Status
  <1>5. ASSUME NEW w \in Workers, Contact(w) PROVE Goal
    BY <1>5 DEF Contact, Status
  <1>6. ASSUME NEW w \in Workers, CheckToken(w) PROVE Goal
    BY <1>6 DEF CheckToken, Verified, Status
  <1>7. ASSUME NEW w \in Workers, WriteToken(w) PROVE Goal
    <2>1. SignedInv' /\ Status' = Status
      BY <1>7, OtherItem DEF WriteToken, LicenceItems
    <2>2. QED
      BY <2>1
  <1>8. ASSUME NEW w \in Workers, WriteActive(w) PROVE Goal
    <2>1. SignedInv'
      BY <1>8, StatusItem DEF WriteActive
    <2>2. apc[w] = "status" /\ ServerAt[aurl[w]] = "vendor"
      BY <1>8 DEF WriteActive
    <2>3. QED
      BY <2>1, <2>2
  <1>9. ASSUME NEW w \in Workers, WriteKey(w) PROVE Goal
    <2>1. SignedInv' /\ Status' = Status
      BY <1>9, OtherItem DEF WriteKey, LicenceItems
    <2>2. QED
      BY <2>1
  <1>10. CASE DaemonStops
    BY <1>10 DEF DaemonStops, Status
  <1>11. ASSUME NEW s \in Runs,
                StartRun(s) \/ ReadLicenceKey(s) \/ ReadServerUrl(s) \/ BeatAnswered(s)
                   \/ OtherRevokes(s) \/ BeatLost(s) \/ UpdateSection(s)
         PROVE  Goal
    BY <1>11 DEF StartRun, ReadLicenceKey, ReadServerUrl, BeatAnswered, OtherRevokes, BeatLost,
                 UpdateSection, avars, Status
  <1>12. ASSUME NEW s \in Runs, WriteInactive(s) PROVE Goal
    <2>1. SignedInv' /\ Status' \in {Status, "INACTIVE"}
      BY <1>12, StatusItem DEF WriteInactive, avars
    <2>2. QED
      BY <2>1
  <1>13. ASSUME NEW s \in Runs, EraseToken(s) PROVE Goal
    <2>1. SignedInv' /\ Status' = Status
      BY <1>13, OtherItem DEF EraseToken, LicenceItems, avars
    <2>2. QED
      BY <2>1
  <1>14. ASSUME NEW k \in LicenceKeys, Revoke(k) PROVE Goal
    BY <1>14 DEF Revoke, avars, Status
  <1>15. CASE UNCHANGED vars
    BY <1>15 DEF vars, avars, Status
  <1>16. QED
    BY <1>1, <1>2, <1>3, <1>4, <1>5, <1>6, <1>7, <1>8, <1>9, <1>10, <1>11, <1>12, <1>13,
       <1>14, <1>15 DEF Next, Activate, RunSteps

\* The status turns ACTIVE only for a request the vendor has signed for, under
\* every interleaving of handlers and heartbeats, with store accesses that fail
\* and stops of the daemon anywhere.
THEOREM VendorActivates == Spec => OnlyVendorActivates
  <1>1. Init => SignedInv
    BY DEF Init, SignedInv, Placed
  <1>2. SignedInv /\ [Next]_vars => SignedInv'
    BY SignedNext
  <1>3. SignedInv /\ [Next]_vars =>
           [Status # "ACTIVE" /\ Status' = "ACTIVE" =>
               \E w \in Workers : apc[w] = "status" /\ ServerAt[aurl[w]] = "vendor"]_vars
    BY SignedNext
  <1>4. QED
    BY <1>1, <1>2, <1>3, PTL DEF Spec, OnlyVendorActivates

--------------------------------------------------------------------------------
\* The inductive invariant behind the two properties of an appliance whose
\* handlers and runs never overlap.  ACTIVE is always backed; a run that is about
\* to withdraw the activation because of the vendor's answer does so for the recorded
\* key, because no handler can have recorded another one since the run read it.  That
\* a key that stands is active (kept) needs that no other server's answer was
\* believed; the rest does not.
Token == db[ApiFile]["token"]
Key   == db[ApiFile]["key"]
AloneInv(kept) ==
    /\ Status = "ACTIVE" => Token = Genuine
    /\ \A w \in Workers : /\ apc[w] = "status" => Token = Genuine
                          /\ apc[w] = "record" => Status = "ACTIVE"
    /\ kept => (Key \in LicenceKeys /\ licence[Key] = "VALID" => Status = "ACTIVE")
    /\ ScriptFile = ApiFile => \A s \in Runs :
          /\ spc[s] \in {"url", "beat"} => skey[s] \in {Key, Empty}
          /\ spc[s] \in {"beat", "inactive"} => skey[s] # Empty
          /\ spc[s] = "inactive" /\ ServerAt[surl[s]] = "vendor" =>
                skey[s] = Key /\ licence[Key] = "REVOKED"
          /\ spc[s] = "erase" => Status # "ACTIVE"

\* Where writes do not fail, a write sets its item and no other.
LEMMA Written ==
    ASSUME Rows, "write" \notin StoreFaults, NEW file \in Files, NEW item \in LicenceItems,
           NEW text, SetConfig(file, item, text)
    PROVE  \A f \in Files, i \in LicenceItems :
              db'[f][i] = IF f = file /\ i = item THEN text ELSE db[f][i]
  BY DEF Rows, SetConfig

LEMMA AloneNext ==
    ASSUME Rows, Locals, SignedInv, NEW kept \in BOOLEAN, AloneInv(kept),
           kept => OnlyVendorRevokes, "write" \notin StoreFaults, OneAtATime, [Next]_vars
    PROVE  AloneInv(kept)'
  <1> USE DEF AloneInv, Status, Token, Key
  <1>1. ASSUME NEW w \in Workers, apc[w] # "idle", UNCHANGED svars
        PROVE  /\ \A s \in Runs : spc'[s] = "idle"
               /\ \A v \in Workers : apc[v] \in APCs
    BY <1>1 DEF OneAtATime, HandlersIdle, ScriptsIdle, svars, Locals
  <1>2. ASSUME NEW s \in Runs, spc[s] # "idle", UNCHANGED avars
        PROVE  \A w \in Workers : apc'[w] = "idle"
    BY <1>2 DEF OneAtATime, HandlersIdle, ScriptsIdle, avars
  <1>3. ASSUME NEW w \in Workers, ActivateRequest(w) \/ CheckKey(w) \/ ReadUrl(w) \/ Contact(w)
        PROVE  AloneInv(kept)'
    BY <1>3 DEF ActivateRequest, CheckKey, ReadUrl, Contact, AGoto, AnswerWith, svars, Locals
  <1>4. ASSUME NEW w \in Workers, SaveUrl(w) \/ SaveVerify(w) PROVE AloneInv(kept)'
    <2>1. \A i \in {"status", "token", "key"} : db'[ApiFile][i] = db[ApiFile][i]
      BY <1>4, Written DEF SaveUrl, SaveVerify, LicenceItems
    <2>2. QED
      BY <1>4, <2>1 DEF SaveUrl, SaveVerify, AGoto, svars, Locals
  <1>5. ASSUME NEW w \in Workers, CheckToken(w) PROVE AloneInv(kept)'
    BY <1>5 DEF CheckToken, AGoto, AnswerWith, svars, Locals
  <1>6. ASSUME NEW w \in Workers, WriteToken(w) PROVE AloneInv(kept)'
    <2>1. Token' = Genuine /\ Status' = Status /\ Key' = Key
      BY <1>6, Written DEF WriteToken, SignedInv, LicenceItems
    <2>2. QED
      BY <1>1, <1>6, <2>1 DEF WriteToken, AGoto, svars, Locals
  <1>7. ASSUME NEW w \in Workers, WriteActive(w) PROVE AloneInv(kept)'
    <2>1. Token' = Genuine /\ Status' = "ACTIVE" /\ Key' = Key
      BY <1>7, Written DEF WriteActive, LicenceItems
    <2>2. QED
      BY <1>1, <1>7, <2>1 DEF WriteActive, AGoto, svars, Locals
  <1>8. ASSUME NEW w \in Workers, WriteKey(w) PROVE AloneInv(kept)'
    <2>1. Token' = Token /\ Status' = Status /\ Status = "ACTIVE"
      BY <1>8, Written DEF WriteKey, LicenceItems
    <2>2. QED
      BY <1>1, <1>8, <2>1 DEF WriteKey, AnswerWith, svars, Locals
  <1>9. CASE DaemonStops
    BY <1>9 DEF DaemonStops, svars
  <1>10. ASSUME NEW s \in Runs, StartRun(s) PROVE AloneInv(kept)'
    BY <1>10 DEF StartRun, avars, Locals
  <1>11. ASSUME NEW s \in Runs, ReadLicenceKey(s) PROVE AloneInv(kept)'
    <2>1. ScriptFile = ApiFile => skey'[s] \in {Key, Empty}
      BY <1>11 DEF ReadLicenceKey, GetConfig, ValueOr, Locals
    <2>2. QED
      BY <1>11, <2>1 DEF ReadLicenceKey, avars, Locals
  <1>12. ASSUME NEW s \in Runs, ReadServerUrl(s) PROVE AloneInv(kept)'
    BY <1>12 DEF ReadServerUrl, avars, Locals
  <1>13. ASSUME NEW s \in Runs,
                BeatAnswered(s) \/ OtherRevokes(s) \/ BeatLost(s) \/ UpdateSection(s)
         PROVE  AloneInv(kept)'
    BY <1>13 DEF BeatAnswered, OtherRevokes, BeatLost, UpdateSection, avars, Locals
  <1>14. ASSUME NEW s \in Runs, WriteInactive(s) PROVE AloneInv(kept)'
    <2>1. /\ Token' = Token /\ Key' = Key
          /\ Status' = IF ScriptFile = ApiFile THEN "INACTIVE" ELSE Status
      BY <1>14, Written DEF WriteInactive, LicenceItems
    <2>2. \A w \in Workers : apc'[w] = "idle"
      BY <1>2, <1>14 DEF WriteInactive
    <2>3. kept /\ ScriptFile = ApiFile /\ Key \in LicenceKeys => licence[Key] = "REVOKED"
      BY <1>14 DEF WriteInactive, OnlyVendorRevokes
    <2>4. QED
      BY <1>14, <2>1, <2>2, <2>3 DEF WriteInactive, avars, Locals
  <1>15. ASSUME NEW s \in Runs, EraseToken(s) PROVE AloneInv(kept)'
    <2>1. /\ Status' = Status /\ Key' = Key
          /\ ScriptFile # ApiFile => Token' = Token
      BY <1>15, Written DEF EraseToken, LicenceItems
    <2>2. \A w \in Workers : apc'[w] = "idle"
      BY <1>2, <1>15 DEF EraseToken
    <2>3. QED
      BY <1>15, <2>1, <2>2 DEF EraseToken, avars, Locals
  <1>16. ASSUME NEW i \in LicenceKeys, Revoke(i) PROVE AloneInv(kept)'
    BY <1>16 DEF Revoke, avars, svars, Locals
  <1>17. CASE UNCHANGED vars
    BY <1>17 DEF vars, avars, svars
  <1>18. QED
    BY <1>3, <1>4, <1>5, <1>6, <1>7, <1>8, <1>9, <1>10, <1>11, <1>12, <1>13, <1>14, <1>15,
       <1>16, <1>17 DEF Next, Activate, RunSteps

\* Whether a key that stands is kept or not.
LEMMA AloneInit == Init => ATyped /\ SignedInv /\ \A kept \in BOOLEAN : AloneInv(kept)
  <1>1. Init => SignedInv
    BY DEF Init, SignedInv, Placed
  <1>2. Init => \A kept \in BOOLEAN : AloneInv(kept)
    BY DEF Init, AloneInv, Status, Token, Key, LicenceItems
  <1>3. QED
    BY <1>1, <1>2, ATypedInit

\* As long as handlers and runs do not overlap, an appliance that shows ACTIVE with
\* nothing under way holds the token that is_activated() accepts: for any number
\* of threads, requests, servers and stops of the daemon, with reads that fail.
\* Writes must not: apply_token does not look whether the token was stored.
THEOREM ActiveIsBackedByToken ==
    ASSUME "write" \notin StoreFaults
    PROVE  Spec => ActiveIsBackedAlone
  <1> DEFINE Backed == AloneInv(FALSE)
  <1>1. Init => ATyped /\ SignedInv /\ Backed
    BY AloneInit
  <1>2. ATyped /\ SignedInv /\ Backed /\ OneAtATime /\ [Next]_vars => Backed'
    BY AloneNext, ATypedParts
  <1>3. ATyped /\ SignedInv /\ [Next]_vars => ATyped' /\ SignedInv'
    BY ATypedNext, SignedNext
  <1>4. Backed => ActiveIsBacked
    BY DEF AloneInv, ActiveIsBacked, IsActivated, Verified, Token
  <1> HIDE DEF Backed
  <1>5. QED
    BY <1>1, <1>2, <1>3, <1>4, PTL DEF Spec, ActiveIsBackedAlone

\* Under the same conditions only the vendor's word ends an activation: while no
\* other server's REVOKED or INACTIVE is believed, an appliance whose recorded key
\* stands is ACTIVE whenever nothing is under way.
THEOREM OnlyRevocationEnds ==
    ASSUME "write" \notin StoreFaults
    PROVE  Spec => StandingKeyIsActiveAlone
  <1> DEFINE Kept == AloneInv(TRUE)
  <1>1. Init => ATyped /\ SignedInv /\ Kept
    BY AloneInit
  <1>2. ATyped /\ SignedInv /\ Kept /\ OneAtATime /\ OnlyVendorRevokes /\ [Next]_vars => Kept'
    BY AloneNext, ATypedParts
  <1>3. ATyped /\ SignedInv /\ [Next]_vars => ATyped' /\ SignedInv'
    BY ATypedNext, SignedNext
  <1>4. Kept => StandingKeyIsActive
    BY DEF AloneInv, StandingKeyIsActive, Key
  <1> HIDE DEF Kept
  <1>5. QED
    BY <1>1, <1>2, <1>3, <1>4, PTL DEF Spec, StandingKeyIsActiveAlone
================================================================================
