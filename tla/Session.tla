-------------------------------- MODULE Session --------------------------------
(***************************************************************************)
(* Dashboard sessions.  The daemon keeps one token in memory, replaced by  *)
(* every login (api/api_server.cpp).  Each browser tab keeps the token it  *)
(* uses in React state, all tabs share a copy in localStorage, and calls   *)
(* are answered while the token moves on (dashboard/src/App.tsx).          *)
(***************************************************************************)
EXTENDS Naturals

CONSTANTS
    Tabs,                    \* tabs of one browser
    Polling,                 \* those whose user keeps the debug page open
    MaxLogins, MaxRestarts   \* bounds: tokens issued, restarts of the daemon

ASSUME SessionAssumption ==
    Polling \subseteq Tabs /\ MaxLogins \in Nat /\ MaxRestarts \in Nat

\* Tokens are 32 random bytes: no two alike.  The n-th one issued is n.
NoToken == 0
Tokens  == 1..MaxLogins

VARIABLES
    session,   \* current_session_token_ of the daemon
    issued,    \* tokens generated so far
    stored,    \* localStorage item auth_token
    tab,       \* [Tabs -> the token in the state of the App component]
    login,     \* [Tabs -> the login form: its step, and the token answered]
    calls,     \* requests under way: the tab, the token they carry, the answer
    restarts

vars == <<session, issued, stored, tab, login, calls, restarts>>

Call   == [tab : Tabs, token : Tokens, answer : {"none", "ok", "401"}]
Login  == [step : {"ready", "sent", "answered"}, token : Tokens \cup {NoToken}]
Ready  == [step |-> "ready", token |-> NoToken]

Init ==
    /\ session = NoToken /\ issued = 0 /\ stored = NoToken
    /\ tab = [t \in Tabs |-> NoToken] /\ login = [t \in Tabs |-> Ready]
    /\ calls = {} /\ restarts = 0

\* A page load takes the token from localStorage; what the old page waited for
\* is answered to nobody.
Reload(t) ==
    /\ tab' = [tab EXCEPT ![t] = stored]
    /\ login' = [login EXCEPT ![t] = Ready]
    /\ calls' = {c \in calls : c.tab # t}
    /\ UNCHANGED <<session, issued, stored, restarts>>

\* The login form, shown while the tab has no token.
SubmitLogin(t) ==
    /\ tab[t] = NoToken /\ login[t] = Ready
    /\ login' = [login EXCEPT ![t].step = "sent"]
    /\ UNCHANGED <<session, issued, stored, tab, calls, restarts>>

\* POST /api/auth/login with the right password replaces the token.
HandleLogin(t) ==
    /\ login[t].step = "sent" /\ issued < MaxLogins
    /\ issued' = issued + 1 /\ session' = issued + 1
    /\ login' = [login EXCEPT ![t] = [step |-> "answered", token |-> issued + 1]]
    /\ UNCHANGED <<stored, tab, calls, restarts>>

\* A wrong password, or no answer: the form may be sent again.
RefuseLogin(t) ==
    /\ login[t].step = "sent" /\ login' = [login EXCEPT ![t] = Ready]
    /\ UNCHANGED <<session, issued, stored, tab, calls, restarts>>

LoginAnswered(t) ==
    /\ login[t].step = "answered"
    /\ stored' = login[t].token /\ tab' = [tab EXCEPT ![t] = login[t].token]
    /\ login' = [login EXCEPT ![t] = Ready]
    /\ UNCHANGED <<session, issued, calls, restarts>>

\* Logging out is a matter of the browser: the daemon is not told.
Logout(t) ==
    /\ tab[t] # NoToken
    /\ stored' = NoToken /\ tab' = [tab EXCEPT ![t] = NoToken]
    /\ UNCHANGED <<session, issued, login, calls, restarts>>

--------------------------------------------------------------------------------
\* Variant of FetchWithAuth with a mistake: called without a token, too.
FetchAlways(t) ==
    /\ calls' = calls \cup {[tab |-> t, token |-> tab[t], answer |-> "none"]}
    /\ UNCHANGED <<session, issued, stored, tab, login, restarts>>

\* fetchWithAuth for a path behind check_auth: the user does something, or the
\* debug page's interval fires.  (The health poll goes through it too, but its
\* path is open to everybody: it is never answered 401 and touches no token.)
FetchWithAuth(t) ==
    /\ tab[t] # NoToken
    /\ calls' = calls \cup {[tab |-> t, token |-> tab[t], answer |-> "none"]}
    /\ UNCHANGED <<session, issued, stored, tab, login, restarts>>

\* Variant of CheckAuth with a mistake: every token ever issued is accepted.
CheckIssued(c) == IF c.token <= issued THEN "ok" ELSE "401"

\* check_auth, under the daemon's mutex.
CheckAuth(c) == IF c.token = session /\ session # NoToken THEN "ok" ELSE "401"

HandleCall(c) ==
    /\ c.answer = "none"
    /\ calls' = (calls \ {c}) \cup {[c EXCEPT !.answer = CheckAuth(c)]}
    /\ UNCHANGED <<session, issued, stored, tab, login, restarts>>

\* Variant of CallAnswered with a mistake: the tab's own state is not reset.
AnswerClearsStorage(c) ==
    /\ c.answer # "none" /\ calls' = calls \ {c}
    /\ stored' = IF c.answer = "401" THEN NoToken ELSE stored
    /\ UNCHANGED <<session, issued, tab, login, restarts>>

\* "Unified fetch helper that handles 401 Unauthorized and auto-logout"
CallAnswered(c) ==
    /\ c.answer # "none" /\ calls' = calls \ {c}
    /\ IF c.answer = "401"
       THEN stored' = NoToken /\ tab' = [tab EXCEPT ![c.tab] = NoToken]
       ELSE UNCHANGED <<stored, tab>>
    /\ UNCHANGED <<session, issued, login, restarts>>

CallLost(c) ==
    /\ calls' = calls \ {c}
    /\ UNCHANGED <<session, issued, stored, tab, login, restarts>>

\* The token lives in memory: a daemon that starts has none.
DaemonRestart ==
    /\ restarts < MaxRestarts /\ restarts' = restarts + 1
    /\ session' = NoToken
    /\ UNCHANGED <<issued, stored, tab, login, calls>>

Next ==
    \/ \E t \in Tabs :
          \/ Reload(t) \/ SubmitLogin(t) \/ HandleLogin(t) \/ RefuseLogin(t)
          \/ LoginAnswered(t) \/ Logout(t) \/ FetchWithAuth(t)
    \/ \E c \in calls : HandleCall(c) \/ CallAnswered(c) \/ CallLost(c)
    \/ DaemonRestart

Spec == Init /\ [][Next]_vars

\* The debug page asks for resources every 30 seconds while there is a token;
\* the daemon answers, and the browser hears some of the answers.  No other page
\* calls a guarded path without being told to.
Poll(t, token, answer) == [tab |-> t, token |-> token, answer |-> answer]
Fairness ==
    \A t \in Polling, k \in Tokens :
        /\ WF_vars(tab[t] = k /\ FetchWithAuth(t))
        /\ SF_vars(Poll(t, k, "none") \in calls /\ HandleCall(Poll(t, k, "none")))
        /\ SF_vars(Poll(t, k, "401") \in calls /\ CallAnswered(Poll(t, k, "401")))
FairSpec == Spec /\ Fairness

--------------------------------------------------------------------------------
TypeOK ==
    /\ session \in Tokens \cup {NoToken} /\ stored \in Tokens \cup {NoToken}
    /\ issued \in 0..MaxLogins /\ restarts \in 0..MaxRestarts
    /\ tab \in [Tabs -> Tokens \cup {NoToken}] /\ login \in [Tabs -> Login]
    /\ calls \subseteq Call

\* No polling tab stays in a dead session (App.tsx:26): one that shows the
\* debug page with a token the daemon no longer accepts ends up on the login
\* page, or with the token that is accepted.  (The other pages may show it for
\* ever.)
DeadSession(t)  == tab[t] # NoToken /\ tab[t] # session
DeadSessionEnds == \A t \in Polling : DeadSession(t) ~> ~DeadSession(t)

\* A login takes over (api_server.cpp:395): after it, whatever was in flight
\* when it happened, no call with an older token is accepted any more.
NewestTokenOnly ==
    [][\A c \in calls' \ calls : c.answer = "ok" => c.token = issued]_vars

\* "Handles 401 Unauthorized and auto-logout" (App.tsx:15): a tab whose token is
\* the one the daemon accepts is never logged out by an answer.
LiveSessionKept ==
    [][\A t \in Tabs :
          session # NoToken /\ tab[t] = session /\ stored = session /\ calls' # calls
              => tab'[t] = session]_vars
================================================================================
