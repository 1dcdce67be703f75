--------------------------------- MODULE TimePage ---------------------------------
(***************************************************************************)
(* Time settings: the page (dashboard/src/App.tsx, TimeSettings) and the   *)
(* two handlers of /api/time, whose POST stores two keys one by one.       *)
(***************************************************************************)
EXTENDS AppShell

CONSTANTS
    Zones, KnownZones,    \* the page's choices; those with a file in zoneinfo
    Servers, SafeServers  \* texts a user may type; those the daemon accepts

ASSUME TimeAssumption ==
    /\ "UTC" \in Zones /\ "pool.ntp.org" \in Servers /\ "" \notin Servers
    /\ KnownZones \subseteq Zones /\ SafeServers \subseteq Servers

VARIABLES
    zone, ntp,   \* system_timezone, system_ntp_server
    zoneFile     \* /etc/timezone

timeVars == <<zone, ntp, zoneFile>>

\* What the page shows until it knows better, and the daemon's own defaults.
Defaults == [zone |-> "UTC", ntp |-> "pool.ntp.org"]

TimeInit == zone = Defaults.zone /\ ntp = Defaults.ntp /\ zoneFile \in Zones

TimeOpened ==
    [name |-> "time", busy |-> "", message |-> "none", zone |-> Defaults.zone,
     ntp |-> Defaults.ntp, posted |-> Defaults, alone |-> TRUE]

--------------------------------------------------------------------------------
\* The user.  The fields are disabled while a save is under way.
ChooseZone(z) ==
    /\ Shows("time") /\ page.busy = ""
    /\ Local([page EXCEPT !.zone = z]) /\ UNCHANGED timeVars
TypeServer(s) ==
    /\ Shows("time") /\ page.busy = ""
    /\ Local([page EXCEPT !.ntp = s]) /\ UNCHANGED timeVars

HandleSave(i) ==
    /\ Shows("time") /\ page.busy = ""
    /\ LET asked == [zone |-> page.zone, ntp |-> page.ntp]
       IN  Sends(i, [page EXCEPT !.busy = "save", !.message = "none", !.posted = asked,
                                 !.alone = \A j \in Slots : sent[j].kind # "postTime"],
                 Request("postTime", Token, asked, "save"))
    /\ UNCHANGED timeVars

--------------------------------------------------------------------------------
\* The daemon.  What is answered for the zone is the file's text, not the key's.
HandleGetTime(i) ==
    /\ Authorized(i, "getTime")
    /\ Answers(i, "ok", [zone |-> zoneFile, ntp |-> ntp])
    /\ UNCHANGED timeVars

\* The zone is checked and stored.  timedatectl writes /etc/timezone; the link
\* made when it fails does not, and no failure is told to anybody.
SaveZone(i) ==
    /\ Authorized(i, "postTime")
    /\ IF sent[i].body.zone \in KnownZones
       THEN /\ zone' = sent[i].body.zone /\ zoneFile' \in {zoneFile, sent[i].body.zone}
            /\ Answers(i, "half", "none")
       ELSE UNCHANGED <<zone, zoneFile>> /\ Answers(i, "error", "none")
    /\ UNCHANGED ntp

\* Then the server is checked: refused, it leaves the new zone in place.
SaveServer(i) ==
    /\ sent[i].kind = "postTime" /\ sent[i].answer = "half"
    /\ IF sent[i].body.ntp \in SafeServers
       THEN ntp' = sent[i].body.ntp /\ Answers(i, "ok", "none")
       ELSE UNCHANGED ntp /\ Answers(i, "error", "none")
    /\ UNCHANGED <<zone, zoneFile>>

--------------------------------------------------------------------------------
\* The browser.
GetTimeAnswered(i) ==
    /\ Hears(i, "getTime")
    /\ Settles(i, IF sent[i].answer # "ok" THEN page
                  ELSE [page EXCEPT !.zone = sent[i].data.zone, !.ntp = sent[i].data.ntp])
    /\ UNCHANGED timeVars

PostTimeAnswered(i) ==
    /\ Hears(i, "postTime")
    /\ IF sent[i].answer = "ok"
       THEN AsksAgain(i, [page EXCEPT !.message = "saved", !.busy = ""], "getTime")
       ELSE Settles(i, [page EXCEPT !.message = "failed", !.busy = ""])
    /\ UNCHANGED timeVars

--------------------------------------------------------------------------------
TimeUser ==
    \/ \E z \in Zones : ChooseZone(z)
    \/ \E s \in Servers : TypeServer(s)
    \/ \E i \in Slots : HandleSave(i)
TimeDaemon(i)  == HandleGetTime(i) \/ SaveZone(i) \/ SaveServer(i)
TimeBrowser(i) == GetTimeAnswered(i) \/ PostTimeAnswered(i)
================================================================================
