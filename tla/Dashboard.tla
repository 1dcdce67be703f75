-------------------------------- MODULE Dashboard --------------------------------
(***************************************************************************)
(* The dashboard of one tab: the session (Session), the shell around the   *)
(* pages (AppShell) and the five pages with what the daemon does for them. *)
(* Only one page is there at a time.  What other tabs and browsers do to   *)
(* the session is LoginElsewhere.                                          *)
(***************************************************************************)
EXTENDS InterfacesPage, StatusPage, TimePage, DebugPage

pageVars == <<array, record, timeVars>>
dashVars == <<vars, shellVars, pageVars>>

\* What a page starts with, and what its effect asks for at once.
Opened(name) ==
    CASE name = "status"  -> StatusOpened
      [] name = "network" -> NetworkOpened
      [] name = "licence" -> LicenceOpened
      [] name = "time"    -> TimeOpened
      [] name = "debug"   -> DebugOpened
FirstKind == [status |-> "getHealth", network |-> "getConfig", licence |-> "getLicence",
              time |-> "getTime", debug |-> "getResources"]

Mounts(i, name, token, who) ==
    /\ FreeSlot(i)
    /\ page' = Opened(name)
    /\ sent' = [HeardBy(who) EXCEPT ![i] = Request(FirstKind[name], token, "none", "")]
Unmounts(who) == page' = Closed /\ sent' = HeardBy(who)

DashInit ==
    /\ Init /\ activeTab = "status" /\ page = Closed /\ acts = 0
    /\ sent = [i \in Slots |-> Free]
    /\ NetworkInit /\ LicenceInit /\ TimeInit

--------------------------------------------------------------------------------
\* The sidebar.  A click on the page that is shown does nothing.
SetActiveTab(i, name) ==
    /\ Token # NoToken /\ name # activeTab /\ UserActs
    /\ activeTab' = name /\ Mounts(i, name, Token, "app")
    /\ UNCHANGED <<vars, pageVars>>

\* A login shows the page that was chosen last.
SignedIn(i) ==
    /\ LoginAnswered(PageTab)
    /\ Mounts(i, activeTab, login[PageTab].token, "app")
    /\ UNCHANGED <<activeTab, acts, pageVars>>

SignOut == Logout(PageTab) /\ Unmounts("app") /\ UNCHANGED <<activeTab, acts, pageVars>>

\* Reloading the tab forgets which page was chosen; nobody hears the answers to
\* the old page's requests.
ReloadTab(i) ==
    /\ Reload(PageTab) /\ UserActs /\ activeTab' = "status"
    /\ IF stored = NoToken THEN Unmounts("nobody") /\ i = 1
       ELSE Mounts(i, "status", stored, "nobody")
    /\ UNCHANGED pageVars

LoginForm ==
    /\ SubmitLogin(PageTab) \/ HandleLogin(PageTab) \/ RefuseLogin(PageTab)
    /\ UNCHANGED <<shellVars, pageVars>>

\* Somebody else logs in: in a tab of this browser, which shares its storage,
\* or anywhere else.
LoginElsewhere ==
    /\ issued < MaxLogins
    /\ issued' = issued + 1 /\ session' = issued + 1 /\ stored' \in {stored, issued + 1}
    /\ UNCHANGED <<tab, login, calls, restarts, shellVars, pageVars>>

Restart == DaemonRestart /\ UNCHANGED <<shellVars, pageVars>>

--------------------------------------------------------------------------------
User ==
    \/ NetworkUser /\ UNCHANGED <<record, timeVars>>
    \/ LicenceUser /\ UNCHANGED <<array, timeVars>>
    \/ TimeUser /\ UNCHANGED <<array, record>>
    \/ DebugUser /\ UNCHANGED pageVars
Daemon(i) ==
    \/ NetworkDaemon(i) /\ UNCHANGED <<record, timeVars>>
    \/ (LicenceDaemon(i) \/ HandleHealth(i)) /\ UNCHANGED <<array, timeVars>>
    \/ TimeDaemon(i) /\ UNCHANGED <<array, record>>
    \/ (HandleDiag(i) \/ Refuse(i) \/ ConnectionFails(i)) /\ UNCHANGED pageVars
Browser(i) ==
    \/ NetworkBrowser(i) /\ UNCHANGED <<record, timeVars>>
    \/ (LicenceBrowser(i) \/ StatusBrowser(i)) /\ UNCHANGED <<array, timeVars>>
    \/ TimeBrowser(i) /\ UNCHANGED <<array, record>>
    \/ (DebugBrowser(i) \/ LoggedOut(i) \/ Unheard(i)) /\ UNCHANGED pageVars
\* A request goes on: it is handled or its connection fails, and the browser runs
\* the code that waits for it.
GoesOn(i) == Daemon(i) \/ Browser(i)

DashNext ==
    \/ User \/ LoginForm \/ SignOut \/ LoginElsewhere \/ Restart
    \/ Withdraw /\ UNCHANGED <<array, timeVars>>
    \/ \E i \in Slots :
          \/ GoesOn(i) \/ SignedIn(i) \/ ReloadTab(i)
          \/ LoadResources(i) /\ UNCHANGED pageVars
          \/ \E name \in PageNames : SetActiveTab(i, name)

DashSpec == DashInit /\ [][DashNext]_dashVars

\* Requests go on.
DashFairness == \A i \in Slots : WF_dashVars(GoesOn(i))
FairDashSpec == DashSpec /\ DashFairness

--------------------------------------------------------------------------------
NetworkPages ==
    [name : {"network"}, busy : {"", "save"}, message : {"none", "local", "saved", "failed"},
     list : Lists, form : [id : Ids, device : Devices] \cup {NoForm},
     posted : Lists, alone : BOOLEAN, loaded : BOOLEAN]
Records == [status : {"ACTIVE", "INACTIVE"}, key : LicenceKeys \cup {""}, url : Urls \cup {""}]
LicencePages ==
    [name : {"licence"}, busy : {"", "save"}, message : {"none", "saved", "failed"},
     status : {"none", "UNKNOWN", "ACTIVE", "INACTIVE"}, key : LicenceKeys \cup {""},
     keyInput : LicenceKeys \cup {""}, urlInput : Urls \cup {""}, posted : Records,
     alone : BOOLEAN]
Times == [zone : Zones, ntp : Servers]
TimePages ==
    [name : {"time"}, busy : {"", "save"}, message : {"none", "saved", "failed"},
     zone : Zones, ntp : Servers, posted : Times, alone : BOOLEAN]
DebugPages ==
    [name : {"debug"}, busy : {""} \cup Tools \cup Tables \cup Tests, message : {"none"},
     resources : BOOLEAN, output : [Boxes -> {"", "text", "failed"}], test : Tests]
StatusPages ==
    [name : {"status"}, busy : {""}, message : {"none"}, health : BOOLEAN,
     status : {"none", "ACTIVE", "INACTIVE"}]
Pages ==
    NetworkPages \cup LicencePages \cup TimePages \cup DebugPages \cup StatusPages \cup {Closed}

\* The types of the shell, of the pages and of what the daemon keeps for them.
PagesTypeOK ==
    /\ TypeOK
    /\ activeTab \in PageNames /\ acts \in 0..MaxActs
    /\ page \in Pages
    /\ array \in Lists \cup {Unset} /\ record \in Records
    /\ zone \in Zones /\ ntp \in Servers /\ zoneFile \in Zones

\* A button that is disabled while something is under way is so because of a
\* request that this page still waits for ("setSaving(false)", App.tsx:916,
\* 1200, 1370, 1502), however pages, logins and answers follow each other.
BusyIsWaiting ==
    page.busy # "" =>
        \E i \in Slots : sent[i].kind # "free" /\ sent[i].heard = "page"
                         /\ sent[i].button = page.busy

\* The settings form edits a row of the list (App.tsx:878): deleting, adding,
\* and answers that replace the list never leave it with another port's id.
\* Only an empty array leaves the selection where it was.
FormEditsRow ==
    page.name = "network" /\ PanelShown =>
        page.form.id \in DOMAIN page.list \/ page.list = NoRows

\* "Network config stored successfully" and its like (App.tsx:908, 1186, 1361)
\* stand for the page's last request: the daemon holds what that one said,
\* unless an older one, of a page left while saving, was still under way.
SuccessIsStored ==
    "alone" \in DOMAIN page /\ page.message = "saved" /\ page.alone =>
        CASE page.name = "network" -> array = page.posted
          [] page.name = "licence" -> record.key = page.posted.key /\ record.url = page.posted.url
          [] page.name = "time"    -> [zone |-> zone, ntp |-> ntp] = page.posted

\* "System critical default interfaces (WAN/LAN/MGMT) cannot be deleted."
\* (App.tsx:855): the dashboard takes none of them out of the stored array.
HasSystem(a) == a # Unset /\ SystemIds \subseteq DOMAIN a
SystemInterfacesStay == [][HasSystem(array) => HasSystem(array')]_array

\* What is true of that: only a page that had not yet received them does.
SystemInterfacesKept ==
    [][HasSystem(array) /\ ~HasSystem(array') =>
          \E i \in Slots : sent[i].kind = "postConfig" /\ sent[i].body.blind]_array

\* "saving" and "loading" end ("finally", App.tsx:915, 1199, 1369): whatever
\* becomes of the request, the page can save again, or is gone.
SavingEnds == page.busy = "save" ~> page.busy # "save"
================================================================================
