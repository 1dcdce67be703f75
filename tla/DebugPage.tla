-------------------------------- MODULE DebugPage --------------------------------
(***************************************************************************)
(* The debug page (dashboard/src/App.tsx, DebugPanel): every button fills  *)
(* a box of its own, all of them share one name of what is running.        *)
(***************************************************************************)
EXTENDS AppShell

CONSTANTS
    Tools,    \* ping, traceroute and dig, disabled while they run
    Tables,   \* the tables' buttons, never disabled
    Tests     \* the commands offered under "Test Commands Only"

ASSUME DebugAssumption == "" \notin Tools \cup Tables \cup Tests /\ Tests # {}

Boxes == Tools \cup Tables \cup {"test"}

DebugOpened ==
    [name |-> "debug", busy |-> "", message |-> "none", resources |-> FALSE,
     output |-> [b \in Boxes |-> ""], test |-> CHOOSE t \in Tests : TRUE]

--------------------------------------------------------------------------------
SelectTest(t) == Shows("debug") /\ Local([page EXCEPT !.test = t])

\* runDiag.  A test runs under its own name, which may be that of a tool.
Label(box) == IF box = "test" THEN page.test ELSE box
RunDiag(i, box) ==
    /\ Shows("debug")
    /\ box \in Tables \/ page.busy # Label(box)
    /\ Sends(i, [page EXCEPT !.busy = Label(box), !.output[box] = ""],
             Request("diag", Token, box, Label(box)))

\* loadResources: after 30 seconds, and again.
LoadResources(i) ==
    /\ page.name = "debug" /\ UNCHANGED acts
    /\ Sends(i, page, Request("getResources", Token, "none", ""))

HandleDiag(i) ==
    \/ Authorized(i, "getResources") /\ Answers(i, "ok", "none")
    \/ Authorized(i, "diag") /\ \E a \in {"ok", "error"} : Answers(i, a, "none")

\* Variant of DiagAnswered with a mistake: an error leaves the button disabled.
DiagErrorStays(i) ==
    /\ Hears(i, "diag")
    /\ Settles(i, IF sent[i].answer = "ok"
                  THEN [page EXCEPT !.output[sent[i].body] = "text", !.busy = ""]
                  ELSE [page EXCEPT !.output[sent[i].body] = "failed"])

\* Whatever was answered, and whatever runs by now, nothing is running.
DiagAnswered(i) ==
    /\ Hears(i, "diag")
    /\ Settles(i, [page EXCEPT !.busy = "",
          !.output[sent[i].body] = IF sent[i].answer = "ok" THEN "text" ELSE "failed"])

ResourcesAnswered(i) ==
    /\ Hears(i, "getResources")
    /\ Settles(i, IF sent[i].answer = "ok" THEN [page EXCEPT !.resources = TRUE] ELSE page)

--------------------------------------------------------------------------------
DebugUser ==
    \/ \E t \in Tests : SelectTest(t)
    \/ \E i \in Slots, b \in Boxes : RunDiag(i, b)
DebugBrowser(i) == DiagAnswered(i) \/ ResourcesAnswered(i)
================================================================================
