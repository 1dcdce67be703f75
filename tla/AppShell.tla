-------------------------------- MODULE AppShell --------------------------------
(***************************************************************************)
(* The App component of one tab (dashboard/src/App.tsx).  It shows the     *)
(* login form or exactly one page; a page that is left loses its state,    *)
(* while its requests go on.  Here are the page shown, the requests under  *)
(* way and what all pages do alike; the pages have modules of their own.   *)
(***************************************************************************)
EXTENDS Session

CONSTANTS
    PageTab,            \* the tab whose pages are modelled
    MaxSent, MaxActs    \* bounds: its requests under way, the user's actions

ASSUME ShellAssumption == PageTab \in Tabs /\ MaxSent \in Nat /\ MaxActs \in Nat

VARIABLES
    activeTab,  \* the page chosen in the sidebar: it survives a logout
    page,       \* the state of the page shown; Closed on the login form
    sent,       \* [Slots -> the requests of this tab under way]
    acts        \* the user's actions so far

shellVars == <<activeTab, page, sent, acts>>

PageNames == {"status", "network", "licence", "time", "debug"}
Closed == [name |-> "login", busy |-> "", message |-> "none"]

Slots == 1..MaxSent
Free  == [kind |-> "free"]
FreeSlot(i) == sent[i].kind = "free" /\ \A j \in 1..(i - 1) : sent[j].kind # "free"

\* A request: what is asked, the token it carries, what it says, the button that
\* is disabled until it is answered, who hears the answer ("page", "app" once
\* the page is left, "nobody" once the tab is reloaded), and the answer.
Request(kind, token, body, button) ==
    [kind |-> kind, token |-> token, body |-> body, button |-> button,
     heard |-> "page", answer |-> "none", data |-> "none"]

\* The paths behind check_auth.  /api/health and /api/license are open.
Guarded == {"getConfig", "postConfig", "updateCheck", "getTime", "postTime",
            "getResources", "diag"}

Token == tab[PageTab]
UserActs == acts < MaxActs /\ acts' = acts + 1

\* What a click on the page shown, or typing into it, does at once.
Shows(name) == page.name = name /\ UserActs
Local(p) == page' = p /\ UNCHANGED <<vars, activeTab, sent>>
Sends(i, p, request) ==
    /\ FreeSlot(i) /\ page' = p /\ sent' = [sent EXCEPT ![i] = request]
    /\ UNCHANGED <<vars, activeTab>>

\* The page is left, or the tab reloaded: who hears what is under way changes.
HeardBy(who) ==
    [i \in Slots |-> IF sent[i].kind = "free" \/ sent[i].heard = "nobody" THEN sent[i]
                     ELSE [sent[i] EXCEPT !.heard = who]]

--------------------------------------------------------------------------------
\* The daemon.  Requests may reach it in another order than they were sent.
Waiting(i, kind) == sent[i].kind = kind /\ sent[i].answer = "none"
Authorized(i, kind) == Waiting(i, kind) /\ CheckAuth(sent[i]) = "ok"
Answers(i, answer, data) ==
    /\ sent' = [sent EXCEPT ![i].answer = answer, ![i].data = data]
    /\ UNCHANGED <<vars, activeTab, page, acts>>

Refuse(i) ==
    /\ sent[i].kind \in Guarded /\ sent[i].answer = "none" /\ CheckAuth(sent[i]) = "401"
    /\ Answers(i, "401", "none")

\* The request or its answer is lost, before or after the daemon has handled it.
ConnectionFails(i) ==
    /\ sent[i].kind # "free" /\ sent[i].answer # "lost"
    /\ Answers(i, "lost", "none")

--------------------------------------------------------------------------------
\* The browser.
Answered(i) == sent[i].kind # "free" /\ sent[i].answer \in {"ok", "error", "401", "lost"}
Hears(i, kind) ==
    /\ sent[i].kind = kind /\ sent[i].heard = "page"
    /\ sent[i].answer \in {"ok", "error", "lost"}

\* The page hears the answer; then it may ask again, with the token of the
\* request that was answered: fetchWithAuth is the one its closure holds.
Settles(i, p) ==
    /\ page' = p /\ sent' = [sent EXCEPT ![i] = Free] /\ UNCHANGED <<vars, activeTab, acts>>
AsksAgain(i, p, kind) ==
    /\ page' = p /\ sent' = [sent EXCEPT ![i] = Request(kind, sent[i].token, "none", "")]
    /\ UNCHANGED <<vars, activeTab, acts>>

\* fetchWithAuth on 401, whoever asked and however long ago: the token of the
\* moment is forgotten, and the login form takes the page's place.
LoggedOut(i) ==
    /\ Answered(i) /\ sent[i].answer = "401" /\ sent[i].heard # "nobody"
    /\ stored' = NoToken /\ tab' = [tab EXCEPT ![PageTab] = NoToken]
    /\ page' = Closed /\ sent' = [HeardBy("app") EXCEPT ![i] = Free]
    /\ UNCHANGED <<session, issued, login, calls, restarts, activeTab, acts>>

\* An answer whose page is gone sets nothing, but a handler that asks again
\* after a success still does.
Refetch == [postConfig |-> "getConfig", postTime |-> "getTime"]
Unheard(i) ==
    /\ Answered(i)
    /\ sent[i].heard = "nobody" \/ (sent[i].heard = "app" /\ sent[i].answer # "401")
    /\ sent' = [sent EXCEPT ![i] =
          IF @.heard = "app" /\ @.answer = "ok" /\ @.kind \in DOMAIN Refetch
          THEN [Request(Refetch[@.kind], @.token, "none", "") EXCEPT !.heard = "app"]
          ELSE Free]
    /\ UNCHANGED <<vars, activeTab, page, acts>>
================================================================================
