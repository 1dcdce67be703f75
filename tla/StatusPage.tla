-------------------------------- MODULE StatusPage --------------------------------
(***************************************************************************)
(* The first page (dashboard/src/App.tsx, DashboardStatus).  It asks once  *)
(* for the health and then for the licence, and never again; the charts    *)
(* are drawn from random numbers.                                          *)
(***************************************************************************)
EXTENDS LicencePage

StatusOpened ==
    [name |-> "status", busy |-> "", message |-> "none", health |-> FALSE, status |-> "none"]

HandleHealth(i) ==
    /\ Waiting(i, "getHealth") /\ \E a \in {"ok", "error"} : Answers(i, a, "none")
    /\ UNCHANGED record

\* The licence is asked for whatever the health's answer; without an answer the
\* exception skips it.
HealthAnswered(i) ==
    /\ Hears(i, "getHealth")
    /\ IF sent[i].answer = "lost" THEN Settles(i, page)
       ELSE AsksAgain(i, [page EXCEPT !.health = sent[i].answer = "ok"], "getLicence")
    /\ UNCHANGED record

StatusLicenceAnswered(i) ==
    /\ Hears(i, "getLicence") /\ page.name = "status"
    /\ Settles(i, IF sent[i].answer = "ok" THEN [page EXCEPT !.status = sent[i].data.status]
                  ELSE page)
    /\ UNCHANGED record

StatusBrowser(i) == HealthAnswered(i) \/ StatusLicenceAnswered(i)
================================================================================
