------------------------------ MODULE MCDashboard -------------------------------
(***************************************************************************)
(* Small instances of Dashboard for TLC.  A behaviour plays one scene: the *)
(* session of several tabs, their pages left out ("tabs", the transitions  *)
(* of Session), or one page of one tab, beside the page every login shows  *)
(* first.  What is under way of a page that was left goes on in both.      *)
(***************************************************************************)
EXTENDS Dashboard

CONSTANT Scenes    \* the scenes played
VARIABLE scene

mcVars == <<dashVars, scene>>

\* The store may hold an empty array, which an earlier client has posted, and the
\* zone may have been set before; both matter to their own page only.
MCInit ==
    /\ DashInit /\ scene \in Scenes
    /\ scene # "network" => array = Unset
    /\ scene # "time" => zoneFile = "UTC"

\* Bounds per scene: the user's actions, with the clicks in the sidebar.  Restarts
\* of the daemon, reloads of the tab and tokens that another tab has stored, which
\* only a reload reads, do the same to every page: one scene has them.
Limit == [status |-> 2, network |-> 4, licence |-> 4, time |-> 5, debug |-> 3]

\* The long scene has one login only: no token is ever refused in it, which the
\* page could tell from no other page's refusal.
Logins == [status |-> 2, network |-> 2, licence |-> 2, time |-> 1, debug |-> 2]

Tabbed(A) == scene = "tabs" /\ A /\ UNCHANGED <<shellVars, pageVars, scene>>
Paged(A)  == scene # "tabs" /\ A /\ acts' <= Limit[scene] /\ issued' <= Logins[scene]
             /\ UNCHANGED scene

MCNext ==
    \/ Tabbed(Next)
    \/ /\ Paged(DashNext) /\ activeTab' \in {"status", scene}
       /\ scene # "status" => restarts' = 0 /\ stored' \in {NoToken, tab'[PageTab]}
                              /\ ~\E i \in Slots : ReloadTab(i)

MCSpec == MCInit /\ [][MCNext]_mcVars

\* Fairness of Session and DashFairness, each in its scenes.
MCFairness ==
    /\ \A t \in Polling, k \in Tokens :
        /\ WF_mcVars(Tabbed(tab[t] = k /\ FetchWithAuth(t)))
        /\ SF_mcVars(Tabbed(Poll(t, k, "none") \in calls /\ HandleCall(Poll(t, k, "none"))))
        /\ SF_mcVars(Tabbed(Poll(t, k, "401") \in calls /\ CallAnswered(Poll(t, k, "401"))))
    /\ \A i \in Slots : WF_mcVars(Paged(GoesOn(i)))
FairMCSpec == MCSpec /\ MCFairness
================================================================================
