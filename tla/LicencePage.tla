------------------------------- MODULE LicencePage -------------------------------
(***************************************************************************)
(* The licensing page (dashboard/src/App.tsx, License) and the daemon's    *)
(* licence record as the page sees it.  Module Activation has the steps of *)
(* an activation and the heartbeat; here a request is handled at once.     *)
(* The server's address stands for the two settings sent with a key.       *)
(***************************************************************************)
EXTENDS AppShell

CONSTANTS LicenceKeys, Urls    \* texts a user may type

ASSUME LicenceAssumption == "" \notin LicenceKeys \cup Urls

VARIABLE record    \* activation_status, activation_license_key, license_server_url

NoRecord == [status |-> "INACTIVE", key |-> "", url |-> ""]
LicenceInit == record = NoRecord

LicenceOpened ==
    [name |-> "licence", busy |-> "", message |-> "none", status |-> "none", key |-> "",
     keyInput |-> "", urlInput |-> "", posted |-> NoRecord, alone |-> TRUE]

\* const isActive = license?.status === 'ACTIVE'
IsActive == page.status = "ACTIVE"

--------------------------------------------------------------------------------
\* The user.  The inputs are disabled while a request is under way; the one for
\* the key is shown only while the appliance is not active.
TypeUrl(url) ==
    /\ Shows("licence") /\ page.busy = ""
    /\ Local([page EXCEPT !.urlInput = url])
    /\ UNCHANGED record
TypeKey(key) ==
    /\ Shows("licence") /\ page.busy = "" /\ ~IsActive
    /\ Local([page EXCEPT !.keyInput = key])
    /\ UNCHANGED record

\* handleActivate.  Both inputs are required, so a key is missing only when the
\* appliance is active without one; the handler lets that pass.
ActiveKey == IF IsActive THEN page.key ELSE page.keyInput
HandleActivate(i) ==
    /\ Shows("licence") /\ page.busy = "" /\ page.urlInput # ""
    /\ IsActive \/ page.keyInput # ""
    /\ LET asked == [status |-> "ACTIVE", key |-> ActiveKey, url |-> page.urlInput]
       IN  Sends(i, [page EXCEPT !.busy = "save", !.message = "none", !.posted = asked,
                                 !.alone = \A j \in Slots : sent[j].kind # "activate"],
                 Request("activate", NoToken, asked, "save"))
    /\ UNCHANGED record

\* handleCheckUpdates: its button is shown while the appliance is active.
HandleCheckUpdates(i) ==
    /\ Shows("licence") /\ IsActive
    /\ Sends(i, page, Request("updateCheck", Token, "none", ""))
    /\ UNCHANGED record

--------------------------------------------------------------------------------
\* The daemon.
HandleGetLicence(i) ==
    /\ Waiting(i, "getLicence") /\ Answers(i, "ok", record) /\ UNCHANGED record

\* Without a key nothing is stored.  With one the address is stored first; the
\* vendor's answer decides about the rest.  A daemon that stops between the
\* status and the key leaves an active appliance without its key.
HandlePostActivate(i) ==
    /\ Waiting(i, "activate")
    /\ \/ /\ sent[i].body.key = "" /\ UNCHANGED record /\ Answers(i, "error", "none")
       \/ /\ sent[i].body.key # "" /\ record' = sent[i].body /\ Answers(i, "ok", "none")
       \/ /\ sent[i].body.key # "" /\ record' = [record EXCEPT !.url = sent[i].body.url]
          /\ Answers(i, "error", "none")
       \/ /\ sent[i].body.key # ""
          /\ record' = [record EXCEPT !.status = "ACTIVE", !.url = sent[i].body.url]
          /\ Answers(i, "lost", "none")

\* POST /api/update/check starts the script, which Updater models.
HandleUpdateCheck(i) ==
    /\ Authorized(i, "updateCheck") /\ Answers(i, "ok", "none") /\ UNCHANGED record

\* The heartbeat withdraws the activation; the key stays recorded.
Withdraw ==
    /\ record.status = "ACTIVE" /\ record' = [record EXCEPT !.status = "INACTIVE"]
    /\ UNCHANGED <<vars, shellVars>>

--------------------------------------------------------------------------------
\* fetchLicenseStatus's answer fills the inputs, typed into or not.  No answer
\* makes the licence UNKNOWN.
GetLicenceAnswered(i) ==
    /\ Hears(i, "getLicence") /\ page.name = "licence"
    /\ LET data == sent[i].data
       IN  Settles(i, IF sent[i].answer # "ok"
                      THEN [page EXCEPT !.status = "UNKNOWN", !.key = ""]
                      ELSE [page EXCEPT !.status = data.status, !.key = data.key,
                               !.urlInput = IF data.url = "" THEN @ ELSE data.url])
    /\ UNCHANGED record

\* Variant of ActivateAnswered with a mistake: every answer is a success.
ActivateAlwaysGood(i) ==
    /\ Hears(i, "activate")
    /\ AsksAgain(i, [page EXCEPT !.message = "saved", !.busy = "", !.keyInput = ""], "getLicence")
    /\ UNCHANGED record

ActivateAnswered(i) ==
    /\ Hears(i, "activate")
    /\ IF sent[i].answer = "ok"
       THEN AsksAgain(i, [page EXCEPT !.message = "saved", !.busy = "", !.keyInput = ""],
                      "getLicence")
       ELSE Settles(i, [page EXCEPT !.message = "failed", !.busy = ""])
    /\ UNCHANGED record

\* Only an alert.
UpdateCheckAnswered(i) == Hears(i, "updateCheck") /\ Settles(i, page) /\ UNCHANGED record

--------------------------------------------------------------------------------
LicenceUser ==
    \/ \E u \in Urls : TypeUrl(u)
    \/ \E k \in LicenceKeys : TypeKey(k)
    \/ \E i \in Slots : HandleActivate(i) \/ HandleCheckUpdates(i)
LicenceDaemon(i)  == HandleGetLicence(i) \/ HandlePostActivate(i) \/ HandleUpdateCheck(i)
LicenceBrowser(i) == GetLicenceAnswered(i) \/ ActivateAnswered(i) \/ UpdateCheckAnswered(i)
================================================================================
