----------------------------- MODULE InterfacesPage -----------------------------
(***************************************************************************)
(* The Interfaces page (dashboard/src/App.tsx, Interfaces) and what the    *)
(* daemon does for it.  The page edits a copy of the array in memory and   *)
(* posts all of it.  A row is an id and a device, which stands for all its *)
(* fields.  The rows stay in the order of the seed, created ports last.    *)
(***************************************************************************)
EXTENDS AppShell, FiniteSets

CONSTANTS
    CustomIds,   \* ids of created ports: 'custom_' + Date.now()
    Unset        \* there is no array

SystemIds == {"wan", "lan", "mgmt"}
Ids       == SystemIds \cup CustomIds

VARIABLE array   \* network_interfaces_json

Devices == 0..(Cardinality(Ids) - 1)     \* eth<n>
Lists   == UNION {[S -> Devices] : S \in SUBSET Ids}
NoRows  == [id \in {} |-> 0]

ASSUME InterfacesAssumption ==
    /\ IsFiniteSet(CustomIds) /\ "" \notin CustomIds /\ SystemIds \cap CustomIds = {}
    /\ Unset \notin Lists

\* What GET /api/config stores when there is no array: one adapter for each.
Seed == [id \in SystemIds |-> CASE id = "wan" -> 0 [] id = "lan" -> 1 [] id = "mgmt" -> 2]

\* selectedId and editId are always set together, so the form has one id.
NoForm == [id |-> "", device |-> 0]
Row(list, id) == [id |-> id, device |-> list[id]]

\* data.interfaces[0]; which of several created ports is older is left open.
Before(a, b) == Seed[a] < Seed[b]
FirstIds(list) ==
    LET system == DOMAIN list \cap SystemIds
    IN  IF system = {} THEN DOMAIN list ELSE {a \in system : \A b \in system : ~Before(b, a)}
FirstRow(list, otherwise) ==
    IF list = NoRows THEN {otherwise} ELSE {Row(list, id) : id \in FirstIds(list)}

\* Besides React's state the page records what its last POST said, whether an
\* older POST was then under way, and whether an array with the three system
\* interfaces has arrived.
NetworkOpened ==
    [name |-> "network", busy |-> "", message |-> "none", list |-> NoRows, form |-> NoForm,
     posted |-> NoRows, alone |-> TRUE, loaded |-> FALSE]

NetworkInit == array \in {Unset, NoRows}

--------------------------------------------------------------------------------
\* The user.  selectInterface fills the form from a row.
SelectInterface(id) ==
    /\ Shows("network") /\ id \in DOMAIN page.list
    /\ Local([page EXCEPT !.form = Row(page.list, id)])
    /\ UNCHANGED array

\* Typing into the form, which is shown only while something is selected.
PanelShown == page.form.id # ""
EditForm(device) ==
    /\ Shows("network") /\ PanelShown
    /\ Local([page EXCEPT !.form.device = device])
    /\ UNCHANGED array

HandleAddNew(id) ==
    /\ Shows("network") /\ id \in CustomIds \ DOMAIN page.list
    /\ LET device  == Cardinality(DOMAIN page.list)
           updated == [j \in DOMAIN page.list \cup {id} |->
                          IF j = id THEN device ELSE page.list[j]]
       IN  Local([page EXCEPT !.list = updated, !.form = Row(updated, id), !.message = "local"])
    /\ UNCHANGED array

\* Variants of HandleDelete with a mistake: one system interface is forgotten in
\* the test; the form keeps the row that is gone.
Without(id) == [j \in DOMAIN page.list \ {id} |-> page.list[j]]
DeleteAny(id) ==
    /\ Shows("network") /\ id \in DOMAIN page.list \ {"wan", "lan"}
    /\ \E form \in FirstRow(Without(id), NoForm) :
          Local([page EXCEPT !.list = Without(id), !.form = form, !.message = "local"])
    /\ UNCHANGED array
DeleteRowOnly(id) ==
    /\ Shows("network") /\ id \in DOMAIN page.list \ SystemIds
    /\ Local([page EXCEPT !.list = Without(id), !.message = "local"])
    /\ UNCHANGED array

\* Deleting the row in the form selects the first of those that stay.
HandleDelete(id) ==
    /\ Shows("network") /\ id \in DOMAIN page.list \ SystemIds
    /\ \E form \in IF page.form.id = id THEN FirstRow(Without(id), NoForm) ELSE {page.form} :
          Local([page EXCEPT !.list = Without(id), !.form = form, !.message = "local"])
    /\ UNCHANGED array

\* "Update Cache List": the row with the form's id takes the form's values.
HandleUpdateCurrent ==
    /\ Shows("network") /\ PanelShown
    /\ Local([page EXCEPT
          !.list = [j \in DOMAIN page.list |-> IF j = page.form.id THEN page.form.device
                                               ELSE page.list[j]],
          !.message = "local"])
    /\ UNCHANGED array

\* "Apply Network Settings" posts the list, not the form.
HandleApply(i) ==
    /\ Shows("network") /\ PanelShown /\ page.busy = ""
    /\ Sends(i, [page EXCEPT !.busy = "save", !.message = "none", !.posted = page.list,
                             !.alone = \A j \in Slots : sent[j].kind # "postConfig"],
             Request("postConfig", Token, [rows |-> page.list, blind |-> ~page.loaded], "save"))
    /\ UNCHANGED array

--------------------------------------------------------------------------------
\* The daemon, one request at a time: ApiConfig has its single steps.
HandleGetConfig(i) ==
    /\ Authorized(i, "getConfig")
    /\ array' = IF array = Unset THEN Seed ELSE array
    /\ Answers(i, "ok", array')

\* The validation loop refuses two rows with one device.
Valid(list) == \A a, b \in DOMAIN list : a # b => list[a] # list[b]
HandlePostConfig(i) ==
    /\ Authorized(i, "postConfig")
    /\ IF Valid(sent[i].body.rows)
       THEN array' = sent[i].body.rows /\ Answers(i, "ok", "none")
       ELSE UNCHANGED array /\ Answers(i, "error", "none")

--------------------------------------------------------------------------------
\* fetchConfig's answer replaces the list and the selection, whatever the user
\* has done to them meanwhile.  An empty array leaves the selection alone.
GetConfigAnswered(i) ==
    /\ Hears(i, "getConfig")
    /\ IF sent[i].answer # "ok" THEN Settles(i, page)
       ELSE LET list == sent[i].data
            IN  \E form \in FirstRow(list, page.form) :
                   Settles(i, [page EXCEPT !.list = list, !.form = form,
                                           !.loaded = SystemIds \subseteq DOMAIN list])
    /\ UNCHANGED array

\* Variant of PostConfigAnswered with a mistake: no finally, saving stays set.
PostAnsweredNoFinally(i) ==
    /\ Hears(i, "postConfig")
    /\ IF sent[i].answer = "ok"
       THEN AsksAgain(i, [page EXCEPT !.message = "saved", !.busy = ""], "getConfig")
       ELSE Settles(i, [page EXCEPT !.message = "failed"])
    /\ UNCHANGED array

PostConfigAnswered(i) ==
    /\ Hears(i, "postConfig")
    /\ IF sent[i].answer = "ok"
       THEN AsksAgain(i, [page EXCEPT !.message = "saved", !.busy = ""], "getConfig")
       ELSE Settles(i, [page EXCEPT !.message = "failed", !.busy = ""])
    /\ UNCHANGED array

--------------------------------------------------------------------------------
NetworkUser ==
    \/ \E id \in Ids : SelectInterface(id) \/ HandleAddNew(id) \/ HandleDelete(id)
    \/ \E d \in Devices : EditForm(d)
    \/ HandleUpdateCurrent
    \/ \E i \in Slots : HandleApply(i)
NetworkDaemon(i)  == HandleGetConfig(i) \/ HandlePostConfig(i)
NetworkBrowser(i) == GetConfigAnswered(i) \/ PostConfigAnswered(i)
================================================================================
