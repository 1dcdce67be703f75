----------------------------- MODULE DashboardProofs -----------------------------
(***************************************************************************)
(* What the dashboard guarantees: its sessions for any number of tabs,     *)
(* logins and restarts of the daemon, and its pages for any ports, keys,   *)
(* zones, tools, bounds and number of requests under way.                  *)
(***************************************************************************)
EXTENDS Dashboard, FiniteSetTheorems, TLAPS

USE SessionAssumption, ShellAssumption

--------------------------------------------------------------------------------
\* A token that is being carried by anything has been issued, and none is missing
\* from a login that was answered: with that the types are inductive.
Carried ==
    /\ \A t \in Tabs : login[t].step = "answered" => login[t].token \in Tokens
    /\ session \in {NoToken, issued}
Typed == TypeOK /\ Carried

LEMMA TypedInit == Init => Typed
  BY DEF Init, Typed, TypeOK, Carried, NoToken, Tokens, Ready, Login

LEMMA TypedNext == Typed /\ [Next]_vars => Typed'
  <1> SUFFICES ASSUME Typed, [Next]_vars PROVE Typed'
    OBVIOUS
  <1> USE DEF Typed, TypeOK, Carried
  <1>1. ASSUME NEW t \in Tabs, Reload(t) PROVE Typed'
    BY <1>1 DEF Reload, Ready, Login
  <1>2. ASSUME NEW t \in Tabs, SubmitLogin(t) PROVE Typed'
    <2>1. login' = [login EXCEPT ![t] = [login[t] EXCEPT !.step = "sent"]]
      BY <1>2 DEF SubmitLogin
    <2>2. [login[t] EXCEPT !.step = "sent"] = [step |-> "sent", token |-> NoToken]
      BY <1>2 DEF SubmitLogin, Ready
    <2>3. QED
      BY <1>2, <2>1, <2>2 DEF SubmitLogin, Login
  <1>3. ASSUME NEW t \in Tabs, HandleLogin(t) PROVE Typed'
    <2>1. issued + 1 \in Tokens /\ issued' \in 0..MaxLogins
      BY <1>3 DEF HandleLogin, Tokens
    <2>2. QED
      BY <1>3, <2>1 DEF HandleLogin, Login
  <1>4. ASSUME NEW t \in Tabs, RefuseLogin(t) PROVE Typed'
    BY <1>4 DEF RefuseLogin, Ready, Login
  <1>5. ASSUME NEW t \in Tabs, LoginAnswered(t) PROVE Typed'
    BY <1>5 DEF LoginAnswered, Ready, Login
  <1>6. ASSUME NEW t \in Tabs, Logout(t) PROVE Typed'
    BY <1>6 DEF Logout
  <1>7. ASSUME NEW t \in Tabs, FetchWithAuth(t) PROVE Typed'
    BY <1>7 DEF FetchWithAuth, Call
  <1>8. ASSUME NEW c \in calls, HandleCall(c) PROVE Typed'
    <2>1. [c EXCEPT !.answer = CheckAuth(c)] \in Call
      BY DEF Call, CheckAuth
    <2>2. QED
      BY <1>8, <2>1 DEF HandleCall
  <1>9. ASSUME NEW c \in calls, CallAnswered(c) PROVE Typed'
    <2>1. c.tab \in Tabs
      BY DEF Call
    <2>2. QED
      BY <1>9, <2>1 DEF CallAnswered
  <1>10. ASSUME NEW c \in calls, CallLost(c) PROVE Typed'
    BY <1>10 DEF CallLost
  <1>11. CASE DaemonRestart
    <2>1. restarts' \in 0..MaxRestarts
      BY <1>11 DEF DaemonRestart
    <2>2. QED
      BY <1>11, <2>1 DEF DaemonRestart
  <1>12. CASE UNCHANGED vars
    BY <1>12 DEF vars
  <1>13. QED
    BY <1>1, <1>2, <1>3, <1>4, <1>5, <1>6, <1>7, <1>8, <1>9, <1>10, <1>11, <1>12 DEF Next

\* The tokens of daemon, tabs, forms and requests keep their types through every
\* login, reload, late answer and restart.
THEOREM TypeCorrect == Spec => []TypeOK
  <1>1. Typed => TypeOK
    BY DEF Typed
  <1>2. QED
    BY TypedInit, TypedNext, <1>1, PTL DEF Spec

--------------------------------------------------------------------------------
\* The daemon holds no token but the last one it issued, so a call it accepts
\* carries that one; no other step turns a call into an accepted one.
LEMMA AcceptsNewest ==
    ASSUME Typed, [Next]_vars, NEW c \in calls' \ calls, c.answer = "ok"
    PROVE  c.token = issued
  <1>1. CASE \E t \in Tabs : FetchWithAuth(t)
    BY <1>1 DEF FetchWithAuth
  <1>2. ASSUME NEW d \in calls, HandleCall(d) PROVE c.token = issued
    <2>1. c = [d EXCEPT !.answer = CheckAuth(d)]
      BY <1>2 DEF HandleCall
    <2>2. c.token = d.token /\ CheckAuth(d) = "ok"
      BY <2>1 DEF Typed, TypeOK, Call
    <2>3. d.token = session /\ session # NoToken
      BY <2>2 DEF CheckAuth
    <2>4. QED
      BY <2>2, <2>3 DEF Typed, Carried
  <1>3. CASE calls' \subseteq calls
    BY <1>3
  <1>4. calls' \subseteq calls \/ (\E t \in Tabs : FetchWithAuth(t)) \/ \E d \in calls : HandleCall(d)
    BY DEF Next, vars, Reload, SubmitLogin, HandleLogin, RefuseLogin, LoginAnswered,
           Logout, CallAnswered, CallLost, DaemonRestart
  <1>5. QED
    BY <1>1, <1>2, <1>3, <1>4

\* After a login no call with an older token is accepted, also one sent before
\* it, for any number of tabs, logins and restarts.
THEOREM OnlyNewestAccepted == Spec => NewestTokenOnly
  <1>1. Typed /\ [Next]_vars =>
           [\A c \in calls' \ calls : c.answer = "ok" => c.token = issued]_vars
    BY AcceptsNewest
  <1>2. QED
    BY TypedInit, TypedNext, <1>1, PTL DEF Spec, NewestTokenOnly

--------------------------------------------------------------------------------
\* A request under way: what it is, which page may hear its answer, what it says
\* and what has been answered.
HomeOf == [getConfig |-> {"network"}, postConfig |-> {"network"},
           getLicence |-> {"licence", "status"}, activate |-> {"licence"},
           updateCheck |-> {"licence"}, getTime |-> {"time"}, postTime |-> {"time"},
           getResources |-> {"debug"}, diag |-> {"debug"}, getHealth |-> {"status"}]
Kinds == DOMAIN HomeOf
Saves == {"postConfig", "activate", "postTime"}
Asks  == Kinds \ (Saves \cup {"diag"})

Posts == {b \in [rows : Lists, blind : BOOLEAN] : b.blind \/ SystemIds \subseteq DOMAIN b.rows}

Bodied(kind, body) ==
    /\ kind = "postConfig" => body \in Posts
    /\ kind = "activate" => body \in Records
    /\ kind = "postTime" => body \in Times
    /\ kind = "diag" => body \in Boxes
Answering(kind, data) ==
    /\ kind = "getConfig" => data \in Lists
    /\ kind = "getLicence" => data \in Records
    /\ kind = "getTime" => data \in Times

IsRequest(r) ==
    /\ r = [kind |-> r.kind, token |-> r.token, body |-> r.body, button |-> r.button,
            heard |-> r.heard, answer |-> r.answer, data |-> r.data]
    /\ r.kind \in Kinds /\ r.heard \in {"page", "app", "nobody"}
    /\ Bodied(r.kind, r.body)
    /\ r.answer = "ok" => Answering(r.kind, r.data)
    /\ r.kind \in Asks => r.button = ""
SlotOK(r, name) ==
    \/ r = Free
    \/ IsRequest(r) /\ (r.heard = "page" => name \in HomeOf[r.kind])
SlotsOK == DOMAIN sent = Slots /\ \A j \in Slots : SlotOK(sent[j], page.name)

\* What the four ways to touch a request leave.
LEMMA RequestOK ==
    ASSUME NEW kind \in Kinds, NEW token, NEW body, NEW button, NEW name \in HomeOf[kind],
           Bodied(kind, body), kind \in Asks => button = ""
    PROVE  SlotOK(Request(kind, token, body, button), name)
           /\ Request(kind, token, body, button).kind # "free"
  BY DEF Request, SlotOK, IsRequest, Kinds, HomeOf

LEMMA AnswersKeep ==
    ASSUME SlotsOK, NEW i \in Slots, NEW a, NEW d, Answers(i, a, d), sent[i].kind # "free",
           a = "ok" => Answering(sent[i].kind, d)
    PROVE  SlotsOK' /\ (BusyIsWaiting => BusyIsWaiting')
  <1>1. /\ IsRequest(sent[i]) /\ sent[i] # Free
        /\ sent[i].heard = "page" => page.name \in HomeOf[sent[i].kind]
    BY DEF SlotsOK, SlotOK, Free
  <1>2. sent'[i] = [sent[i] EXCEPT !.answer = a, !.data = d]
        /\ (\A j \in Slots \ {i} : sent'[j] = sent[j]) /\ DOMAIN sent' = Slots /\ page' = page
    BY DEF Answers, SlotsOK
  <1>3. IsRequest(sent'[i])
        /\ sent'[i].kind = sent[i].kind /\ sent'[i].heard = sent[i].heard
        /\ sent'[i].button = sent[i].button
    BY <1>1, <1>2 DEF IsRequest
  <1>4. SlotsOK'
    BY <1>1, <1>2, <1>3 DEF SlotsOK, SlotOK
  <1>5. ASSUME BusyIsWaiting PROVE BusyIsWaiting'
    BY <1>2, <1>3, <1>5 DEF BusyIsWaiting
  <1>6. QED
    BY <1>4, <1>5

LEMMA SendsKeep ==
    ASSUME SlotsOK, NEW i \in Slots, NEW p, NEW r, Sends(i, p, r), r.kind # "free",
           SlotOK(r, p.name), p.name = page.name,
           p.busy = "" \/ (r.button = p.busy /\ r.heard = "page") \/ p.busy = page.busy
    PROVE  SlotsOK' /\ (BusyIsWaiting => BusyIsWaiting')
  <1>1. sent'[i] = r /\ (\A j \in Slots \ {i} : sent'[j] = sent[j]) /\ DOMAIN sent' = Slots
        /\ page' = p /\ sent[i].kind = "free"
    BY DEF Sends, SlotsOK, FreeSlot
  <1>2. SlotsOK'
    BY <1>1 DEF SlotsOK
  <1>3. ASSUME BusyIsWaiting PROVE BusyIsWaiting'
    BY <1>1, <1>3 DEF BusyIsWaiting
  <1>4. QED
    BY <1>2, <1>3

LEMMA SettlesKeep ==
    ASSUME SlotsOK, NEW i \in Slots, NEW p, Settles(i, p), p.name = page.name,
           p.busy = "" \/ (sent[i].button = "" /\ p.busy = page.busy)
    PROVE  SlotsOK' /\ (BusyIsWaiting => BusyIsWaiting')
  <1>1. sent'[i] = Free /\ (\A j \in Slots \ {i} : sent'[j] = sent[j]) /\ DOMAIN sent' = Slots
        /\ page' = p
    BY DEF Settles, SlotsOK
  <1>2. SlotsOK'
    BY <1>1 DEF SlotsOK, SlotOK
  <1>3. ASSUME BusyIsWaiting PROVE BusyIsWaiting'
    BY <1>1, <1>3 DEF BusyIsWaiting
  <1>4. QED
    BY <1>2, <1>3

LEMMA AsksAgainKeep ==
    ASSUME SlotsOK, NEW i \in Slots, NEW p, NEW kind \in Asks, AsksAgain(i, p, kind),
           p.name = page.name, page.name \in HomeOf[kind],
           p.busy = "" \/ (sent[i].button = "" /\ p.busy = page.busy)
    PROVE  SlotsOK' /\ (BusyIsWaiting => BusyIsWaiting')
  <1> DEFINE r == Request(kind, sent[i].token, "none", "")
  <1>1. sent'[i] = r /\ (\A j \in Slots \ {i} : sent'[j] = sent[j]) /\ DOMAIN sent' = Slots
        /\ page' = p
    BY DEF AsksAgain, SlotsOK
  <1>2. SlotOK(r, page.name)
    BY RequestOK DEF Asks, Saves, Bodied
  <1>3. SlotsOK'
    BY <1>1, <1>2 DEF SlotsOK
  <1>4. ASSUME BusyIsWaiting PROVE BusyIsWaiting'
    BY <1>1, <1>4 DEF BusyIsWaiting
  <1>5. QED
    BY <1>3, <1>4
--------------------------------------------------------------------------------
\* The inductive invariant: besides the types, that the form's row and the
\* three system interfaces of a page that has received them are in its list, and
\* that every request under way is one its page can have sent.
PageGood(p) ==
    /\ p \in Pages
    /\ p.name = "network" =>
          /\ p.form.id # "" => p.form.id \in DOMAIN p.list \/ p.list = NoRows
          /\ p.loaded => SystemIds \subseteq DOMAIN p.list
DataOK ==
    /\ array \in Lists \cup {Unset} /\ record \in Records
    /\ zone \in Zones /\ ntp \in Servers /\ zoneFile \in Zones
DashInv ==
    /\ Typed /\ activeTab \in PageNames /\ acts \in 0..MaxActs /\ DataOK
    /\ SlotsOK /\ BusyIsWaiting /\ PageGood(page)

LEMMA ActsStay == acts \in 0..MaxActs /\ (UserActs \/ UNCHANGED acts) => acts' \in 0..MaxActs
  BY DEF UserActs

LEMMA SessionStays == Typed /\ UNCHANGED vars => Typed'
  BY TypedNext

LEMMA LocalStep ==
    ASSUME DashInv, UserActs, NEW p, Local(p), PageGood(p), p.name = page.name,
           p.busy = page.busy, DataOK'
    PROVE  DashInv'
  <1>1. Typed' /\ acts' \in 0..MaxActs /\ activeTab' \in PageNames
    BY ActsStay, SessionStays DEF DashInv, Local
  <1>2. SlotsOK' /\ BusyIsWaiting'
    BY DEF DashInv, Local, SlotsOK, BusyIsWaiting
  <1>3. QED
    BY <1>1, <1>2 DEF DashInv, Local

LEMMA AnswersStep ==
    ASSUME DashInv, NEW i \in Slots, NEW a, NEW d, Answers(i, a, d), sent[i].kind # "free",
           a = "ok" => Answering(sent[i].kind, d), DataOK'
    PROVE  DashInv'
  <1>1. Typed' /\ acts' \in 0..MaxActs /\ activeTab' \in PageNames
    BY ActsStay, SessionStays DEF DashInv, Answers
  <1>2. SlotsOK' /\ BusyIsWaiting'
    BY AnswersKeep DEF DashInv
  <1>3. QED
    BY <1>1, <1>2 DEF DashInv, Answers

LEMMA SendsStep ==
    ASSUME DashInv, UserActs \/ UNCHANGED acts, NEW i \in Slots, NEW p, NEW r, Sends(i, p, r),
           r.kind # "free", SlotOK(r, p.name), PageGood(p), p.name = page.name,
           p.busy = "" \/ (r.button = p.busy /\ r.heard = "page") \/ p.busy = page.busy, DataOK'
    PROVE  DashInv'
  <1>1. Typed' /\ acts' \in 0..MaxActs /\ activeTab' \in PageNames
    BY ActsStay, SessionStays DEF DashInv, Sends
  <1>2. SlotsOK' /\ BusyIsWaiting'
    BY SendsKeep DEF DashInv
  <1>3. QED
    BY <1>1, <1>2 DEF DashInv, Sends

LEMMA SettlesStep ==
    ASSUME DashInv, NEW i \in Slots, NEW p, Settles(i, p), PageGood(p), p.name = page.name,
           p.busy = "" \/ (sent[i].button = "" /\ p.busy = page.busy), DataOK'
    PROVE  DashInv'
  <1>1. Typed' /\ acts' \in 0..MaxActs /\ activeTab' \in PageNames
    BY ActsStay, SessionStays DEF DashInv, Settles
  <1>2. SlotsOK' /\ BusyIsWaiting'
    BY SettlesKeep DEF DashInv
  <1>3. QED
    BY <1>1, <1>2 DEF DashInv, Settles

LEMMA AsksAgainStep ==
    ASSUME DashInv, NEW i \in Slots, NEW p, NEW kind \in Asks, AsksAgain(i, p, kind),
           PageGood(p), p.name = page.name, page.name \in HomeOf[kind],
           p.busy = "" \/ (sent[i].button = "" /\ p.busy = page.busy), DataOK'
    PROVE  DashInv'
  <1>1. Typed' /\ acts' \in 0..MaxActs /\ activeTab' \in PageNames
    BY ActsStay, SessionStays DEF DashInv, AsksAgain
  <1>2. SlotsOK' /\ BusyIsWaiting'
    BY AsksAgainKeep DEF DashInv
  <1>3. QED
    BY <1>1, <1>2 DEF DashInv, AsksAgain

\* The page shown has the shape of its name, and a request somebody waits for
\* was sent by it.
LEMMA Shapes ==
    ASSUME NEW p \in Pages
    PROVE  /\ p.name = "network" => p \in NetworkPages
           /\ p.name = "licence" => p \in LicencePages
           /\ p.name = "time" => p \in TimePages
           /\ p.name = "debug" => p \in DebugPages
           /\ p.name = "status" => p \in StatusPages
  <1>1. p \in NetworkPages => p.name = "network"
    BY DEF NetworkPages
  <1>2. p \in LicencePages => p.name = "licence"
    BY DEF LicencePages
  <1>3. p \in TimePages => p.name = "time"
    BY DEF TimePages
  <1>4. p \in DebugPages => p.name = "debug"
    BY DEF DebugPages
  <1>5. p \in StatusPages => p.name = "status"
    BY DEF StatusPages
  <1>6. Closed.name = "login"
    BY DEF Closed
  <1>7. QED
    BY <1>1, <1>2, <1>3, <1>4, <1>5, <1>6 DEF Pages

LEMMA HeardAtHome ==
    ASSUME DashInv, NEW i \in Slots, NEW kind \in Kinds, Hears(i, kind)
    PROVE  /\ IsRequest(sent[i]) /\ sent[i].kind = kind /\ page.name \in HomeOf[kind]
           /\ kind \in Asks => sent[i].button = ""
           /\ sent[i].answer = "ok" => Answering(kind, sent[i].data)
  <1>1. sent[i] # Free
    BY DEF Hears, Free, Kinds, HomeOf
  <1>2. IsRequest(sent[i]) /\ (sent[i].heard = "page" => page.name \in HomeOf[sent[i].kind])
    BY <1>1 DEF DashInv, SlotsOK, SlotOK
  <1>3. QED
    BY <1>2 DEF Hears, IsRequest

LEMMA WaitingBodied ==
    ASSUME DashInv, NEW i \in Slots, sent[i].kind # "free"
    PROVE  IsRequest(sent[i]) /\ Bodied(sent[i].kind, sent[i].body)
  <1>1. sent[i] # Free
    BY DEF Free
  <1>2. IsRequest(sent[i])
    BY <1>1 DEF DashInv, SlotsOK, SlotOK
  <1>3. QED
    BY <1>2 DEF IsRequest
--------------------------------------------------------------------------------
\* The Interfaces page.
LEMMA NoRowsEmpty == DOMAIN NoRows = {} /\ NoRows \in Lists
  <1>1. DOMAIN NoRows = {}
    BY DEF NoRows
  <1>2. NoRows \in [{} -> Devices]
    BY DEF NoRows
  <1>3. QED
    BY <1>1, <1>2 DEF Lists

LEMMA InLists ==
    ASSUME NEW S \in SUBSET Ids, NEW f \in [S -> Devices]
    PROVE  f \in Lists
  BY DEF Lists

LEMMA OfLists ==
    ASSUME NEW f \in Lists
    PROVE  DOMAIN f \subseteq Ids /\ f \in [DOMAIN f -> Devices]
  BY DEF Lists

\* There are as many devices as ids, so the seed and every list that lacks an id
\* have one to give.
LEMMA DevicesSuffice ==
    /\ {0, 1, 2} \subseteq Devices
    /\ \A S \in SUBSET Ids : S # Ids => Cardinality(S) \in Devices
  <1>1. IsFiniteSet(SystemIds) /\ Cardinality(SystemIds) = 3
    <2>1. IsFiniteSet({"wan"}) /\ Cardinality({"wan"}) = 1
      BY FS_Singleton
    <2>2. IsFiniteSet({"wan"} \cup {"lan"}) /\ Cardinality({"wan"} \cup {"lan"}) = 2
      BY <2>1, FS_AddElement
    <2>3. IsFiniteSet({"wan"} \cup {"lan"} \cup {"mgmt"})
          /\ Cardinality({"wan"} \cup {"lan"} \cup {"mgmt"}) = 3
      BY <2>2, FS_AddElement
    <2>4. SystemIds = {"wan"} \cup {"lan"} \cup {"mgmt"}
      BY DEF SystemIds
    <2>5. QED
      BY <2>3, <2>4
  <1>2. IsFiniteSet(Ids)
    BY <1>1, FS_Union, InterfacesAssumption DEF Ids
  <1>3. Cardinality(SystemIds) \leq Cardinality(Ids) /\ Cardinality(Ids) \in Nat
    BY <1>1, <1>2, FS_Subset, FS_CardinalityType DEF Ids
  <1>4. {0, 1, 2} \subseteq Devices
    BY <1>1, <1>3 DEF Devices
  <1>5. ASSUME NEW S \in SUBSET Ids, S # Ids PROVE Cardinality(S) \in Devices
    <2>1. IsFiniteSet(S) /\ Cardinality(S) \leq Cardinality(Ids)
          /\ (Cardinality(S) = Cardinality(Ids) => S = Ids)
      BY <1>2, FS_Subset
    <2>2. Cardinality(S) \in Nat
      BY <2>1, FS_CardinalityType
    <2>3. QED
      BY <1>3, <1>5, <2>1, <2>2 DEF Devices
  <1>6. QED
    BY <1>4, <1>5

LEMMA SeedInLists == Seed \in Lists
  <1>1. \A id \in SystemIds : Seed[id] \in {0, 1, 2}
    BY DEF Seed, SystemIds
  <1>2. Seed \in [SystemIds -> Devices]
    BY <1>1, DevicesSuffice DEF Seed
  <1>3. QED
    BY <1>2, InLists DEF Ids

\* Selecting the first row of a list gives a row of it, or what was there.
LEMMA FirstRowOK ==
    ASSUME NEW list \in Lists, NEW otherwise, NEW form \in FirstRow(list, otherwise)
    PROVE  \/ list = NoRows /\ form = otherwise
           \/ form \in [id : Ids, device : Devices] /\ form.id \in DOMAIN list
  <1>1. CASE list = NoRows
    BY <1>1 DEF FirstRow
  <1>2. CASE list # NoRows
    <2>1. PICK id \in FirstIds(list) : form = Row(list, id)
      BY <1>2 DEF FirstRow
    <2>2. id \in DOMAIN list
      BY <2>1 DEF FirstIds
    <2>3. id \in Ids /\ list[id] \in Devices
      BY <2>2, OfLists
    <2>4. QED
      BY <2>1, <2>2, <2>3 DEF Row
  <1>3. QED
    BY <1>1, <1>2

LEMMA GoodNetwork ==
    ASSUME NEW q \in NetworkPages,
           q.form.id # "" => q.form.id \in DOMAIN q.list \/ q.list = NoRows,
           q.loaded => SystemIds \subseteq DOMAIN q.list
    PROVE  PageGood(q) /\ q.name = "network"
  BY DEF NetworkPages, PageGood, Pages

LEMMA NetworkShown ==
    ASSUME DashInv, page.name = "network"
    PROVE  /\ page \in NetworkPages /\ page.list \in Lists /\ page.posted \in Lists
           /\ page.form \in [id : Ids, device : Devices] \cup {NoForm}
           /\ page.message \in {"none", "local", "saved", "failed"}
           /\ page.alone \in BOOLEAN /\ page.loaded \in BOOLEAN /\ page.busy \in {"", "save"}
           /\ page.form.id # "" => page.form.id \in DOMAIN page.list \/ page.list = NoRows
           /\ page.loaded => SystemIds \subseteq DOMAIN page.list
  <1>1. page \in NetworkPages
    BY Shapes DEF DashInv, PageGood
  <1>2. QED
    BY <1>1 DEF DashInv, PageGood, NetworkPages
LEMMA DataStays == DataOK /\ UNCHANGED pageVars => DataOK'
  BY DEF DataOK, pageVars, timeVars

LEMMA NetworkUserStep ==
    ASSUME DashInv, NetworkUser, UNCHANGED <<record, timeVars>>
    PROVE  DashInv'
  <1> USE NetworkShown
  <1>0. ASSUME UNCHANGED array PROVE DataOK'
    BY <1>0, DataStays DEF pageVars, DashInv
  <1>1. ASSUME NEW id \in Ids, SelectInterface(id) PROVE DashInv'
    <2> DEFINE q == [page EXCEPT !.form = Row(page.list, id)]
    <2>1. page.name = "network" /\ UserActs /\ id \in DOMAIN page.list /\ Local(q) /\ UNCHANGED array
      BY <1>1 DEF SelectInterface, Shows
    <2>2. Row(page.list, id) \in [id : Ids, device : Devices] /\ Row(page.list, id).id = id
      BY <2>1, OfLists DEF Row
    <2>3. q \in NetworkPages /\ q.form = Row(page.list, id) /\ q.list = page.list
          /\ q.loaded = page.loaded /\ q.busy = page.busy
      BY <2>1, <2>2 DEF NetworkPages
    <2>4. PageGood(q) /\ q.name = page.name
      BY <2>1, <2>2, <2>3, GoodNetwork
    <2> HIDE DEF q
    <2>5. QED
      BY <1>0, <2>1, <2>3, <2>4, LocalStep
  <1>2. ASSUME NEW d \in Devices, EditForm(d) PROVE DashInv'
    <2> DEFINE form == [page.form EXCEPT !.device = d]
               q    == [page EXCEPT !.form = form]
    <2>1. page.name = "network" /\ UserActs /\ page.form.id # "" /\ UNCHANGED array /\ Local(q)
      BY <1>2 DEF EditForm, Shows, PanelShown
    <2>2. NoForm.id = ""
      BY DEF NoForm
    <2>3. page.form \in [id : Ids, device : Devices]
      BY <2>1, <2>2
    <2>4. form \in [id : Ids, device : Devices] /\ form.id = page.form.id
      BY <2>3
    <2> HIDE DEF form
    <2>5. q \in NetworkPages /\ q.form = form /\ q.list = page.list
          /\ q.loaded = page.loaded /\ q.busy = page.busy
      BY <2>1, <2>4 DEF NetworkPages
    <2>6. PageGood(q) /\ q.name = page.name
      BY <2>1, <2>4, <2>5, GoodNetwork
    <2> HIDE DEF q
    <2>7. QED
      BY <1>0, <2>1, <2>5, <2>6, LocalStep
  <1>3. ASSUME NEW id \in Ids, HandleAddNew(id) PROVE DashInv'
    <2> DEFINE device  == Cardinality(DOMAIN page.list)
               updated == [j \in DOMAIN page.list \cup {id} |->
                              IF j = id THEN device ELSE page.list[j]]
               q == [page EXCEPT !.list = updated, !.form = Row(updated, id), !.message = "local"]
    <2>1. page.name = "network" /\ UserActs /\ id \notin DOMAIN page.list /\ UNCHANGED array
          /\ Local(q) /\ id \in CustomIds
      BY <1>3 DEF HandleAddNew, Shows
    <2>2. DOMAIN page.list \subseteq Ids /\ \A j \in DOMAIN page.list : page.list[j] \in Devices
      BY <2>1, OfLists
    <2>3. device \in Devices
      BY <2>1, <2>2, DevicesSuffice
    <2>4. updated \in [DOMAIN page.list \cup {id} -> Devices]
      BY <2>2, <2>3
    <2>5. updated \in Lists /\ DOMAIN updated = DOMAIN page.list \cup {id}
      BY <2>2, <2>4, InLists
    <2>6. Row(updated, id) \in [id : Ids, device : Devices] /\ Row(updated, id).id = id
      BY <2>4 DEF Row
    <2> HIDE DEF updated
    <2>7. q \in NetworkPages /\ q.form = Row(updated, id) /\ q.list = updated
          /\ q.loaded = page.loaded /\ q.busy = page.busy
      BY <2>1, <2>5, <2>6 DEF NetworkPages
    <2>8. PageGood(q) /\ q.name = page.name
      BY <2>1, <2>5, <2>6, <2>7, GoodNetwork
    <2> HIDE DEF q
    <2>9. QED
      BY <1>0, <2>1, <2>7, <2>8, LocalStep
  <1>4. ASSUME NEW id \in Ids, HandleDelete(id) PROVE DashInv'
    <2>1. PICK form \in IF page.form.id = id THEN FirstRow(Without(id), NoForm) ELSE {page.form} :
             Local([page EXCEPT !.list = Without(id), !.form = form, !.message = "local"])
      BY <1>4 DEF HandleDelete
    <2> DEFINE q == [page EXCEPT !.list = Without(id), !.form = form, !.message = "local"]
    <2>2. page.name = "network" /\ UserActs /\ id \in DOMAIN page.list /\ id \notin SystemIds
          /\ UNCHANGED array
      BY <1>4 DEF HandleDelete, Shows
    <2>3. DOMAIN Without(id) = DOMAIN page.list \ {id} /\ Without(id) \in Lists
      <3>1. DOMAIN page.list \subseteq Ids /\ \A j \in DOMAIN page.list : page.list[j] \in Devices
        BY <2>2, OfLists
      <3>2. Without(id) \in [DOMAIN page.list \ {id} -> Devices]
        BY <3>1 DEF Without
      <3>3. QED
        BY <3>1, <3>2, InLists
    <2>4. page.list # NoRows
      BY <2>2, NoRowsEmpty
    <2>5. NoForm.id = ""
      BY DEF NoForm
    <2>6. /\ form \in [id : Ids, device : Devices] \cup {NoForm}
          /\ form.id # "" => form.id \in DOMAIN Without(id)
      <3>1. ASSUME page.form.id = id PROVE form \in FirstRow(Without(id), NoForm)
        BY <2>1, <3>1
      <3>2. CASE page.form.id = id
        BY <2>3, <2>5, <3>1, <3>2, FirstRowOK
      <3>3. CASE page.form.id # id
        BY <2>1, <2>2, <2>3, <2>4, <3>3
      <3>4. QED
        BY <3>2, <3>3
    <2>7. q \in NetworkPages /\ q.form = form /\ q.list = Without(id)
          /\ q.loaded = page.loaded /\ q.busy = page.busy
      BY <2>2, <2>3, <2>6 DEF NetworkPages
    <2>8. PageGood(q) /\ q.name = page.name
      BY <2>2, <2>3, <2>6, <2>7, GoodNetwork
    <2> HIDE DEF q
    <2>9. QED
      BY <1>0, <2>1, <2>2, <2>7, <2>8, LocalStep DEF q
  <1>5. CASE HandleUpdateCurrent
    <2> DEFINE list == [j \in DOMAIN page.list |-> IF j = page.form.id THEN page.form.device
                                                   ELSE page.list[j]]
               q == [page EXCEPT !.list = list, !.message = "local"]
    <2>1. page.name = "network" /\ UserActs /\ page.form.id # "" /\ UNCHANGED array /\ Local(q)
      BY <1>5 DEF HandleUpdateCurrent, Shows, PanelShown
    <2>2. page.form.device \in Devices
      <3>1. NoForm.id = ""
        BY DEF NoForm
      <3>2. page.form \in [id : Ids, device : Devices]
        BY <2>1, <3>1
      <3>3. QED
        BY <3>2
    <2>3. DOMAIN page.list \subseteq Ids /\ \A j \in DOMAIN page.list : page.list[j] \in Devices
      BY <2>1, OfLists
    <2>4. list \in [DOMAIN page.list -> Devices]
      BY <2>2, <2>3
    <2>5. list \in Lists /\ DOMAIN list = DOMAIN page.list
      BY <2>3, <2>4, InLists
    <2>6. page.list = NoRows => list = NoRows
      BY NoRowsEmpty DEF NoRows
    <2> HIDE DEF list
    <2>7. q \in NetworkPages /\ q.form = page.form /\ q.list = list
          /\ q.loaded = page.loaded /\ q.busy = page.busy
      BY <2>1, <2>5 DEF NetworkPages
    <2>8. PageGood(q) /\ q.name = page.name
      BY <2>1, <2>5, <2>6, <2>7, GoodNetwork
    <2> HIDE DEF q
    <2>9. QED
      BY <1>0, <2>1, <2>7, <2>8, LocalStep
  <1>6. ASSUME NEW i \in Slots, HandleApply(i) PROVE DashInv'
    <2> DEFINE alone == \A j \in Slots : sent[j].kind # "postConfig"
               body  == [rows |-> page.list, blind |-> ~page.loaded]
               r     == Request("postConfig", Token, body, "save")
               q     == [page EXCEPT !.busy = "save", !.message = "none", !.posted = page.list,
                                     !.alone = alone]
    <2>1. page.name = "network" /\ UserActs /\ UNCHANGED array /\ Sends(i, q, r)
      BY <1>6 DEF HandleApply, Shows
    <2>2. body \in Posts
      BY <2>1 DEF Posts
    <2>3. SlotOK(r, "network") /\ r.kind # "free" /\ r.button = "save" /\ r.heard = "page"
      <3>1. "postConfig" \in Kinds \ Asks /\ "network" \in HomeOf["postConfig"]
        BY DEF Kinds, Asks, Saves, HomeOf
      <3>2. Bodied("postConfig", body)
        BY <2>2 DEF Bodied
      <3>3. QED
        BY <3>1, <3>2, RequestOK DEF Request
    <2>4. alone \in BOOLEAN
      OBVIOUS
    <2> HIDE DEF alone
    <2>5. q \in NetworkPages /\ q.form = page.form /\ q.list = page.list
          /\ q.loaded = page.loaded /\ q.busy = "save"
      BY <2>1, <2>4 DEF NetworkPages
    <2>6. PageGood(q) /\ q.name = "network"
      BY <2>1, <2>5, GoodNetwork
    <2> HIDE DEF q, r
    <2>7. QED
      BY <1>0, <2>1, <2>3, <2>5, <2>6, SendsStep
  <1>7. QED
    BY <1>1, <1>2, <1>3, <1>4, <1>5, <1>6 DEF NetworkUser
LEMMA NetworkDaemonStep ==
    ASSUME DashInv, NEW i \in Slots, NetworkDaemon(i), UNCHANGED <<record, timeVars>>
    PROVE  DashInv'
  <1>1. CASE HandleGetConfig(i)
    <2>1. sent[i].kind = "getConfig" /\ array' = (IF array = Unset THEN Seed ELSE array)
          /\ Answers(i, "ok", array')
      BY <1>1 DEF HandleGetConfig, Authorized, Waiting
    <2>2. array' \in Lists
      BY <2>1, SeedInLists DEF DashInv, DataOK
    <2>3. DataOK'
      BY <2>2 DEF DashInv, DataOK, timeVars
    <2>4. Answering(sent[i].kind, array')
      BY <2>1, <2>2 DEF Answering
    <2>5. QED
      BY <2>1, <2>3, <2>4, AnswersStep
  <1>2. CASE HandlePostConfig(i)
    <2>1. sent[i].kind = "postConfig"
      BY <1>2 DEF HandlePostConfig, Authorized, Waiting
    <2>2. sent[i].body.rows \in Lists
      BY <2>1, WaitingBodied DEF Bodied, Posts
    <2>3. array' \in Lists \cup {Unset}
      BY <1>2, <2>2 DEF HandlePostConfig, DashInv, DataOK
    <2>4. DataOK'
      BY <2>3 DEF DashInv, DataOK, timeVars
    <2>5. PICK a \in {"ok", "error"} : Answers(i, a, "none")
      BY <1>2 DEF HandlePostConfig
    <2>6. Answering(sent[i].kind, "none")
      BY <2>1 DEF Answering
    <2>7. QED
      BY <2>1, <2>4, <2>5, <2>6, AnswersStep
  <1>3. QED
    BY <1>1, <1>2 DEF NetworkDaemon

LEMMA NetworkBrowserStep ==
    ASSUME DashInv, NEW i \in Slots, NetworkBrowser(i), UNCHANGED <<record, timeVars>>
    PROVE  DashInv'
  <1> USE NetworkShown
  <1>1. DataOK'
    BY DataStays DEF pageVars, DashInv, NetworkBrowser, GetConfigAnswered, PostConfigAnswered
  <1>2. CASE GetConfigAnswered(i)
    <2>1. Hears(i, "getConfig") /\ "getConfig" \in Kinds /\ "getConfig" \in Asks
      BY <1>2 DEF GetConfigAnswered, Kinds, Asks, Saves, HomeOf
    <2>2. page.name = "network" /\ sent[i].button = ""
          /\ (sent[i].answer = "ok" => Answering("getConfig", sent[i].data))
      BY <2>1, HeardAtHome DEF HomeOf
    <2>3. CASE sent[i].answer # "ok"
      <3>1. Settles(i, page) /\ PageGood(page)
        BY <1>2, <2>3 DEF GetConfigAnswered, DashInv
      <3>2. QED
        BY <1>1, <2>2, <3>1, SettlesStep
    <2>4. CASE sent[i].answer = "ok"
      <3> DEFINE list == sent[i].data
                 q(f) == [page EXCEPT !.list = list, !.form = f,
                                      !.loaded = SystemIds \subseteq DOMAIN list]
      <3>1. list \in Lists
        BY <2>2, <2>4 DEF Answering
      <3>2. PICK form \in FirstRow(list, page.form) : Settles(i, q(form))
        BY <1>2, <2>4 DEF GetConfigAnswered
      <3>3. /\ form \in [id : Ids, device : Devices] \cup {NoForm}
            /\ form.id # "" => form.id \in DOMAIN list \/ list = NoRows
        BY <2>2, <3>1, <3>2, FirstRowOK
      <3>4. q(form) \in NetworkPages /\ q(form).form = form /\ q(form).list = list
            /\ q(form).loaded = (SystemIds \subseteq DOMAIN list) /\ q(form).busy = page.busy
        BY <2>2, <3>1, <3>3 DEF NetworkPages
      <3>5. PageGood(q(form)) /\ q(form).name = page.name
        BY <2>2, <3>3, <3>4, GoodNetwork
      <3> HIDE DEF q
      <3>6. QED
        BY <1>1, <2>2, <3>2, <3>4, <3>5, SettlesStep
    <2>5. QED
      BY <2>3, <2>4
  <1>3. CASE PostConfigAnswered(i)
    <2>1. Hears(i, "postConfig") /\ "postConfig" \in Kinds /\ "getConfig" \in Asks
          /\ "network" \in HomeOf["getConfig"]
      BY <1>3 DEF PostConfigAnswered, Kinds, Asks, Saves, HomeOf
    <2>2. page.name = "network"
      BY <2>1, HeardAtHome DEF HomeOf
    <2> DEFINE q(m) == [page EXCEPT !.message = m, !.busy = ""]
    <2>3. ASSUME NEW m \in {"saved", "failed"}
          PROVE  PageGood(q(m)) /\ q(m).name = page.name /\ q(m).busy = ""
      <3>1. q(m) \in NetworkPages /\ q(m).form = page.form /\ q(m).list = page.list
            /\ q(m).loaded = page.loaded /\ q(m).busy = ""
        BY <2>2 DEF NetworkPages
      <3>2. QED
        BY <2>2, <3>1, GoodNetwork
    <2>4. AsksAgain(i, q("saved"), "getConfig") \/ Settles(i, q("failed"))
      BY <1>3 DEF PostConfigAnswered
    <2> HIDE DEF q
    <2>5. QED
      BY <1>1, <2>1, <2>2, <2>3, <2>4, SettlesStep, AsksAgainStep
  <1>4. QED
    BY <1>2, <1>3 DEF NetworkBrowser

--------------------------------------------------------------------------------
\* The pages for the licence and the status.  A page of another name is a good
\* one if it has its type.
LEMMA GoodOther ==
    ASSUME NEW q \in LicencePages \cup TimePages \cup DebugPages \cup StatusPages
    PROVE  PageGood(q)
  <1>1. q \in Pages
    BY DEF Pages
  <1>2. q.name # "network"
    BY DEF LicencePages, TimePages, DebugPages, StatusPages
  <1>3. QED
    BY <1>1, <1>2 DEF PageGood

LEMMA LicenceShown ==
    ASSUME DashInv, page.name = "licence"
    PROVE  /\ page \in LicencePages /\ page.key \in LicenceKeys \cup {""}
           /\ page.keyInput \in LicenceKeys \cup {""} /\ page.urlInput \in Urls \cup {""}
  <1>1. page \in LicencePages
    BY Shapes DEF DashInv, PageGood
  <1>2. QED
    BY <1>1 DEF LicencePages

LEMMA LicenceUserStep ==
    ASSUME DashInv, LicenceUser, UNCHANGED <<array, timeVars>>
    PROVE  DashInv'
  <1> USE LicenceShown
  <1>0. ASSUME UNCHANGED record PROVE DataOK'
    BY <1>0, DataStays DEF pageVars, DashInv
  <1>1. ASSUME NEW url \in Urls, TypeUrl(url) PROVE DashInv'
    <2> DEFINE q == [page EXCEPT !.urlInput = url]
    <2>1. page.name = "licence" /\ UserActs /\ Local(q) /\ UNCHANGED record
      BY <1>1 DEF TypeUrl, Shows
    <2>2. q \in LicencePages /\ q.name = page.name /\ q.busy = page.busy
      BY <2>1 DEF LicencePages
    <2> HIDE DEF q
    <2>3. QED
      BY <1>0, <2>1, <2>2, GoodOther, LocalStep
  <1>2. ASSUME NEW key \in LicenceKeys, TypeKey(key) PROVE DashInv'
    <2> DEFINE q == [page EXCEPT !.keyInput = key]
    <2>1. page.name = "licence" /\ UserActs /\ Local(q) /\ UNCHANGED record
      BY <1>2 DEF TypeKey, Shows
    <2>2. q \in LicencePages /\ q.name = page.name /\ q.busy = page.busy
      BY <2>1 DEF LicencePages
    <2> HIDE DEF q
    <2>3. QED
      BY <1>0, <2>1, <2>2, GoodOther, LocalStep
  <1>3. ASSUME NEW i \in Slots, HandleActivate(i) PROVE DashInv'
    <2> DEFINE asked == [status |-> "ACTIVE", key |-> ActiveKey, url |-> page.urlInput]
               alone == \A j \in Slots : sent[j].kind # "activate"
               q     == [page EXCEPT !.busy = "save", !.message = "none", !.posted = asked,
                                     !.alone = alone]
               r     == Request("activate", NoToken, asked, "save")
    <2>1. page.name = "licence" /\ UserActs /\ Sends(i, q, r) /\ UNCHANGED record
      BY <1>3 DEF HandleActivate, Shows
    <2>2. ActiveKey \in LicenceKeys \cup {""}
      BY <2>1 DEF ActiveKey
    <2>3. asked \in Records
      BY <2>1, <2>2 DEF Records
    <2>4. SlotOK(r, "licence") /\ r.kind # "free" /\ r.button = "save" /\ r.heard = "page"
      <3>1. "activate" \in Kinds \ Asks /\ "licence" \in HomeOf["activate"]
        BY DEF Kinds, Asks, Saves, HomeOf
      <3>2. Bodied("activate", asked)
        BY <2>3 DEF Bodied
      <3>3. QED
        BY <3>1, <3>2, RequestOK DEF Request
    <2>5. alone \in BOOLEAN
      OBVIOUS
    <2> HIDE DEF alone, asked
    <2>6. q \in LicencePages /\ q.name = "licence" /\ q.busy = "save"
      BY <2>1, <2>3, <2>5 DEF LicencePages
    <2> HIDE DEF q, r
    <2>7. QED
      BY <1>0, <2>1, <2>4, <2>6, GoodOther, SendsStep
  <1>4. ASSUME NEW i \in Slots, HandleCheckUpdates(i) PROVE DashInv'
    <2> DEFINE r == Request("updateCheck", Token, "none", "")
    <2>1. page.name = "licence" /\ UserActs /\ Sends(i, page, r) /\ UNCHANGED record
      BY <1>4 DEF HandleCheckUpdates, Shows
    <2>2. "updateCheck" \in Kinds /\ "licence" \in HomeOf["updateCheck"]
          /\ Bodied("updateCheck", "none")
      BY DEF Kinds, HomeOf, Bodied
    <2>3. SlotOK(r, "licence") /\ r.kind # "free"
      BY <2>2, RequestOK
    <2> HIDE DEF r
    <2>4. QED
      BY <1>0, <2>1, <2>3, SendsStep DEF DashInv
  <1>5. QED
    BY <1>1, <1>2, <1>3, <1>4 DEF LicenceUser

LEMMA LicenceDaemonStep ==
    ASSUME DashInv, NEW i \in Slots, LicenceDaemon(i) \/ HandleHealth(i),
           UNCHANGED <<array, timeVars>>
    PROVE  DashInv'
  <1>1. CASE HandleGetLicence(i)
    <2>1. sent[i].kind = "getLicence" /\ Answers(i, "ok", record) /\ DataOK'
      BY <1>1, DataStays DEF HandleGetLicence, Waiting, pageVars, DashInv
    <2>2. Answering(sent[i].kind, record)
      BY <2>1 DEF Answering, DashInv, DataOK
    <2>3. QED
      BY <2>1, <2>2, AnswersStep
  <1>2. CASE HandlePostActivate(i)
    <2>1. sent[i].kind = "activate" /\ sent[i].kind # "free"
      BY <1>2 DEF HandlePostActivate, Waiting
    <2>2. sent[i].body \in Records /\ record \in Records
      BY <2>1, WaitingBodied DEF Bodied, DashInv, DataOK
    <2>3. /\ sent[i].body.url \in Urls \cup {""}
          /\ [record EXCEPT !.url = sent[i].body.url] \in Records
          /\ [record EXCEPT !.status = "ACTIVE", !.url = sent[i].body.url] \in Records
      BY <2>2 DEF Records
    <2>4. record' \in Records
      BY <1>2, <2>2, <2>3 DEF HandlePostActivate
    <2>5. DataOK'
      BY <2>4 DEF DashInv, DataOK, timeVars
    <2>6. PICK a \in {"ok", "error", "lost"} : Answers(i, a, "none")
      BY <1>2 DEF HandlePostActivate
    <2>7. Answering(sent[i].kind, "none")
      BY <2>1 DEF Answering
    <2>8. QED
      BY <2>1, <2>5, <2>6, <2>7, AnswersStep
  <1>3. CASE HandleUpdateCheck(i) \/ HandleHealth(i)
    <2>1. PICK a \in {"ok", "error"} : Answers(i, a, "none")
      BY <1>3 DEF HandleUpdateCheck, HandleHealth
    <2>2. sent[i].kind \in {"updateCheck", "getHealth"} /\ DataOK'
      BY <1>3, DataStays DEF HandleUpdateCheck, HandleHealth, Authorized, Waiting, pageVars, DashInv
    <2>3. sent[i].kind # "free" /\ Answering(sent[i].kind, "none")
      BY <2>2 DEF Answering
    <2>4. QED
      BY <2>1, <2>2, <2>3, AnswersStep
  <1>4. QED
    BY <1>1, <1>2, <1>3 DEF LicenceDaemon
LEMMA LicenceBrowserStep ==
    ASSUME DashInv, NEW i \in Slots, LicenceBrowser(i), UNCHANGED <<array, timeVars>>
    PROVE  DashInv'
  <1> USE LicenceShown
  <1>1. DataOK'
    BY DataStays
    DEF pageVars, DashInv, LicenceBrowser, GetLicenceAnswered, ActivateAnswered, UpdateCheckAnswered
  <1>2. "getLicence" \in Asks /\ "updateCheck" \in Asks /\ "activate" \in Kinds /\ Asks \subseteq Kinds
        /\ "licence" \in HomeOf["getLicence"]
    BY DEF Kinds, Asks, Saves, HomeOf
  <1>3. CASE GetLicenceAnswered(i)
    <2> DEFINE data == sent[i].data
               q1 == [page EXCEPT !.status = "UNKNOWN", !.key = ""]
               q2 == [page EXCEPT !.status = data.status, !.key = data.key,
                                  !.urlInput = IF data.url = "" THEN @ ELSE data.url]
    <2>1. Hears(i, "getLicence") /\ page.name = "licence"
          /\ Settles(i, IF sent[i].answer # "ok" THEN q1 ELSE q2)
      BY <1>3 DEF GetLicenceAnswered
    <2>2. sent[i].button = "" /\ (sent[i].answer = "ok" => data \in Records)
      BY <1>2, <2>1, HeardAtHome DEF Answering
    <2>3. q1 \in LicencePages /\ q1.name = page.name /\ q1.busy = page.busy
      BY <2>1 DEF LicencePages
    <2>4. ASSUME sent[i].answer = "ok"
          PROVE  q2 \in LicencePages /\ q2.name = page.name /\ q2.busy = page.busy
      <3>1. data.status \in {"ACTIVE", "INACTIVE"} /\ data.key \in LicenceKeys \cup {""}
            /\ data.url \in Urls \cup {""}
        BY <2>2, <2>4 DEF Records
      <3>2. (IF data.url = "" THEN page.urlInput ELSE data.url) \in Urls \cup {""}
        BY <2>1, <3>1
      <3>3. QED
        BY <2>1, <3>1, <3>2 DEF LicencePages
    <2> HIDE DEF q1, q2
    <2>5. QED
      BY <1>1, <2>1, <2>2, <2>3, <2>4, GoodOther, SettlesStep
  <1>4. CASE ActivateAnswered(i)
    <2> DEFINE q1 == [page EXCEPT !.message = "saved", !.busy = "", !.keyInput = ""]
               q2 == [page EXCEPT !.message = "failed", !.busy = ""]
    <2>1. Hears(i, "activate") /\ (AsksAgain(i, q1, "getLicence") \/ Settles(i, q2))
      BY <1>4 DEF ActivateAnswered
    <2>2. page.name = "licence"
      BY <1>2, <2>1, HeardAtHome DEF HomeOf
    <2>3. q1 \in LicencePages /\ q1.name = page.name /\ q1.busy = ""
      BY <2>2 DEF LicencePages
    <2>4. q2 \in LicencePages /\ q2.name = page.name /\ q2.busy = ""
      BY <2>2 DEF LicencePages
    <2> HIDE DEF q1, q2
    <2>5. QED
      BY <1>1, <1>2, <2>1, <2>2, <2>3, <2>4, GoodOther, SettlesStep, AsksAgainStep
  <1>5. CASE UpdateCheckAnswered(i)
    <2>1. Hears(i, "updateCheck") /\ Settles(i, page)
      BY <1>5 DEF UpdateCheckAnswered
    <2>2. QED
      BY <1>1, <1>2, <2>1, HeardAtHome, SettlesStep DEF DashInv
  <1>6. QED
    BY <1>3, <1>4, <1>5 DEF LicenceBrowser

LEMMA StatusShown == DashInv /\ page.name = "status" => page \in StatusPages
  BY Shapes DEF DashInv, PageGood

LEMMA StatusBrowserStep ==
    ASSUME DashInv, NEW i \in Slots, StatusBrowser(i), UNCHANGED <<array, timeVars>>
    PROVE  DashInv'
  <1> USE StatusShown
  <1>1. DataOK'
    BY DataStays DEF pageVars, DashInv, StatusBrowser, HealthAnswered, StatusLicenceAnswered
  <1>2. "getLicence" \in Asks /\ "getHealth" \in Asks /\ Asks \subseteq Kinds
        /\ "status" \in HomeOf["getLicence"]
    BY DEF Kinds, Asks, Saves, HomeOf
  <1>3. CASE HealthAnswered(i)
    <2> DEFINE q == [page EXCEPT !.health = sent[i].answer = "ok"]
    <2>1. Hears(i, "getHealth") /\ (Settles(i, page) \/ AsksAgain(i, q, "getLicence"))
      BY <1>3 DEF HealthAnswered
    <2>2. page.name = "status" /\ sent[i].button = ""
      BY <1>2, <2>1, HeardAtHome DEF HomeOf
    <2>3. q \in StatusPages /\ q.name = page.name /\ q.busy = page.busy
      BY <2>2 DEF StatusPages
    <2> HIDE DEF q
    <2>4. QED
      BY <1>1, <1>2, <2>1, <2>2, <2>3, GoodOther, SettlesStep, AsksAgainStep DEF DashInv
  <1>4. CASE StatusLicenceAnswered(i)
    <2> DEFINE q == [page EXCEPT !.status = sent[i].data.status]
    <2>1. Hears(i, "getLicence") /\ page.name = "status"
          /\ Settles(i, IF sent[i].answer = "ok" THEN q ELSE page)
      BY <1>4 DEF StatusLicenceAnswered
    <2>2. sent[i].button = "" /\ (sent[i].answer = "ok" => sent[i].data \in Records)
      BY <1>2, <2>1, HeardAtHome DEF Answering
    <2>3. ASSUME sent[i].answer = "ok"
          PROVE  q \in StatusPages /\ q.name = page.name /\ q.busy = page.busy
      <3>1. sent[i].data.status \in {"ACTIVE", "INACTIVE"}
        BY <2>2, <2>3 DEF Records
      <3>2. QED
        BY <2>1, <3>1 DEF StatusPages
    <2> HIDE DEF q
    <2>4. QED
      BY <1>1, <2>1, <2>2, <2>3, GoodOther, SettlesStep DEF DashInv
  <1>5. QED
    BY <1>3, <1>4 DEF StatusBrowser

--------------------------------------------------------------------------------
\* The time settings.
LEMMA TimeShown ==
    ASSUME DashInv, page.name = "time"
    PROVE  page \in TimePages /\ page.zone \in Zones /\ page.ntp \in Servers
  <1>1. page \in TimePages
    BY Shapes DEF DashInv, PageGood
  <1>2. QED
    BY <1>1 DEF TimePages

LEMMA TimeUserStep ==
    ASSUME DashInv, TimeUser, UNCHANGED <<array, record>>
    PROVE  DashInv'
  <1> USE TimeShown
  <1>0. ASSUME UNCHANGED timeVars PROVE DataOK'
    BY <1>0, DataStays DEF pageVars, DashInv
  <1>1. ASSUME NEW z \in Zones, ChooseZone(z) PROVE DashInv'
    <2> DEFINE q == [page EXCEPT !.zone = z]
    <2>1. page.name = "time" /\ UserActs /\ Local(q) /\ UNCHANGED timeVars
      BY <1>1 DEF ChooseZone, Shows
    <2>2. q \in TimePages /\ q.name = page.name /\ q.busy = page.busy
      BY <2>1 DEF TimePages
    <2> HIDE DEF q
    <2>3. QED
      BY <1>0, <2>1, <2>2, GoodOther, LocalStep
  <1>2. ASSUME NEW server \in Servers, TypeServer(server) PROVE DashInv'
    <2> DEFINE q == [page EXCEPT !.ntp = server]
    <2>1. page.name = "time" /\ UserActs /\ Local(q) /\ UNCHANGED timeVars
      BY <1>2 DEF TypeServer, Shows
    <2>2. q \in TimePages /\ q.name = page.name /\ q.busy = page.busy
      BY <2>1 DEF TimePages
    <2> HIDE DEF q
    <2>3. QED
      BY <1>0, <2>1, <2>2, GoodOther, LocalStep
  <1>3. ASSUME NEW i \in Slots, HandleSave(i) PROVE DashInv'
    <2> DEFINE asked == [zone |-> page.zone, ntp |-> page.ntp]
               alone == \A j \in Slots : sent[j].kind # "postTime"
               q     == [page EXCEPT !.busy = "save", !.message = "none", !.posted = asked,
                                     !.alone = alone]
               r     == Request("postTime", Token, asked, "save")
    <2>1. page.name = "time" /\ UserActs /\ Sends(i, q, r) /\ UNCHANGED timeVars
      BY <1>3 DEF HandleSave, Shows
    <2>2. asked \in Times
      BY <2>1 DEF Times
    <2>3. SlotOK(r, "time") /\ r.kind # "free" /\ r.button = "save" /\ r.heard = "page"
      <3>1. "postTime" \in Kinds \ Asks /\ "time" \in HomeOf["postTime"]
        BY DEF Kinds, Asks, Saves, HomeOf
      <3>2. Bodied("postTime", asked)
        BY <2>2 DEF Bodied
      <3>3. QED
        BY <3>1, <3>2, RequestOK DEF Request
    <2>4. alone \in BOOLEAN
      OBVIOUS
    <2> HIDE DEF alone, asked
    <2>5. q \in TimePages /\ q.name = "time" /\ q.busy = "save"
      BY <2>1, <2>2, <2>4 DEF TimePages
    <2> HIDE DEF q, r
    <2>6. QED
      BY <1>0, <2>1, <2>3, <2>5, GoodOther, SendsStep
  <1>4. QED
    BY <1>1, <1>2, <1>3 DEF TimeUser

LEMMA TimeDaemonStep ==
    ASSUME DashInv, NEW i \in Slots, TimeDaemon(i), UNCHANGED <<array, record>>
    PROVE  DashInv'
  <1>1. CASE HandleGetTime(i)
    <2> DEFINE data == [zone |-> zoneFile, ntp |-> ntp]
    <2>1. sent[i].kind = "getTime" /\ Answers(i, "ok", data) /\ DataOK'
      BY <1>1, DataStays DEF HandleGetTime, Authorized, Waiting, pageVars, DashInv
    <2>2. Answering(sent[i].kind, data)
      BY <2>1 DEF Answering, Times, DashInv, DataOK
    <2>3. QED
      BY <2>1, <2>2, AnswersStep
  <1>2. CASE SaveZone(i) \/ SaveServer(i)
    <2>1. sent[i].kind = "postTime" /\ sent[i].kind # "free"
      BY <1>2 DEF SaveZone, SaveServer, Authorized, Waiting
    <2>2. sent[i].body \in Times
      BY <2>1, WaitingBodied DEF Bodied
    <2>3. sent[i].body.zone \in Zones /\ sent[i].body.ntp \in Servers
      BY <2>2 DEF Times
    <2>4. DataOK'
      BY <1>2, <2>3 DEF SaveZone, SaveServer, DashInv, DataOK
    <2>5. PICK a \in {"half", "ok", "error"} : Answers(i, a, "none")
      BY <1>2 DEF SaveZone, SaveServer
    <2>6. Answering(sent[i].kind, "none")
      BY <2>1 DEF Answering
    <2>7. QED
      BY <2>1, <2>4, <2>5, <2>6, AnswersStep
  <1>3. QED
    BY <1>1, <1>2 DEF TimeDaemon

LEMMA TimeBrowserStep ==
    ASSUME DashInv, NEW i \in Slots, TimeBrowser(i), UNCHANGED <<array, record>>
    PROVE  DashInv'
  <1> USE TimeShown
  <1>1. DataOK'
    BY DataStays DEF pageVars, DashInv, TimeBrowser, GetTimeAnswered, PostTimeAnswered
  <1>2. "getTime" \in Asks /\ "postTime" \in Kinds /\ Asks \subseteq Kinds
        /\ "time" \in HomeOf["getTime"]
    BY DEF Kinds, Asks, Saves, HomeOf
  <1>3. CASE GetTimeAnswered(i)
    <2> DEFINE q == [page EXCEPT !.zone = sent[i].data.zone, !.ntp = sent[i].data.ntp]
    <2>1. Hears(i, "getTime") /\ Settles(i, IF sent[i].answer # "ok" THEN page ELSE q)
      BY <1>3 DEF GetTimeAnswered
    <2>2. page.name = "time" /\ sent[i].button = ""
          /\ (sent[i].answer = "ok" => sent[i].data \in Times)
      BY <1>2, <2>1, HeardAtHome DEF Answering, HomeOf
    <2>3. ASSUME sent[i].answer = "ok"
          PROVE  q \in TimePages /\ q.name = page.name /\ q.busy = page.busy
      <3>1. sent[i].data.zone \in Zones /\ sent[i].data.ntp \in Servers
        BY <2>2, <2>3 DEF Times
      <3>2. QED
        BY <2>2, <3>1 DEF TimePages
    <2> HIDE DEF q
    <2>4. QED
      BY <1>1, <2>1, <2>2, <2>3, GoodOther, SettlesStep DEF DashInv
  <1>4. CASE PostTimeAnswered(i)
    <2> DEFINE q(m) == [page EXCEPT !.message = m, !.busy = ""]
    <2>1. Hears(i, "postTime") /\ (AsksAgain(i, q("saved"), "getTime") \/ Settles(i, q("failed")))
      BY <1>4 DEF PostTimeAnswered
    <2>2. page.name = "time"
      BY <1>2, <2>1, HeardAtHome DEF HomeOf
    <2>3. ASSUME NEW m \in {"saved", "failed"}
          PROVE  q(m) \in TimePages /\ q(m).name = page.name /\ q(m).busy = ""
      BY <2>2 DEF TimePages
    <2> HIDE DEF q
    <2>4. QED
      BY <1>1, <1>2, <2>1, <2>2, <2>3, GoodOther, SettlesStep, AsksAgainStep
  <1>5. QED
    BY <1>3, <1>4 DEF TimeBrowser
--------------------------------------------------------------------------------
\* The debug page.
LEMMA DebugShown ==
    ASSUME DashInv, page.name = "debug"
    PROVE  /\ page \in DebugPages /\ page.test \in Tests
           /\ page.output \in [Boxes -> {"", "text", "failed"}]
  <1>1. page \in DebugPages
    BY Shapes DEF DashInv, PageGood
  <1>2. QED
    BY <1>1 DEF DebugPages

LEMMA DebugUserStep ==
    ASSUME DashInv, DebugUser, UNCHANGED pageVars
    PROVE  DashInv'
  <1> USE DebugShown
  <1>0. DataOK'
    BY DataStays DEF DashInv
  <1>1. ASSUME NEW t \in Tests, SelectTest(t) PROVE DashInv'
    <2> DEFINE q == [page EXCEPT !.test = t]
    <2>1. page.name = "debug" /\ UserActs /\ Local(q)
      BY <1>1 DEF SelectTest, Shows
    <2>2. q \in DebugPages /\ q.name = page.name /\ q.busy = page.busy
      BY <2>1 DEF DebugPages
    <2> HIDE DEF q
    <2>3. QED
      BY <1>0, <2>1, <2>2, GoodOther, LocalStep
  <1>2. ASSUME NEW i \in Slots, NEW box \in Boxes, RunDiag(i, box) PROVE DashInv'
    <2> DEFINE label  == Label(box)
               output == [page.output EXCEPT ![box] = ""]
               q      == [page EXCEPT !.busy = label, !.output = output]
               r      == Request("diag", Token, box, label)
    <2>1. page.name = "debug" /\ UserActs /\ Sends(i, q, r)
      BY <1>2 DEF RunDiag, Shows
    <2>2. label \in Tools \cup Tables \cup Tests
      BY <2>1 DEF Label, Boxes
    <2>3. output \in [Boxes -> {"", "text", "failed"}]
      BY <2>1
    <2>4. SlotOK(r, "debug") /\ r.kind # "free" /\ r.button = label /\ r.heard = "page"
      <3>1. "diag" \in Kinds \ Asks /\ "debug" \in HomeOf["diag"] /\ Bodied("diag", box)
        BY DEF Kinds, Asks, Saves, HomeOf, Bodied
      <3>2. QED
        BY <3>1, RequestOK DEF Request
    <2> HIDE DEF label, output
    <2>5. q \in DebugPages /\ q.name = "debug" /\ q.busy = label
      BY <2>1, <2>2, <2>3 DEF DebugPages
    <2> HIDE DEF q, r
    <2>6. QED
      BY <1>0, <2>1, <2>4, <2>5, GoodOther, SendsStep
  <1>3. QED
    BY <1>1, <1>2 DEF DebugUser

LEMMA LoadResourcesStep ==
    ASSUME DashInv, NEW i \in Slots, LoadResources(i), UNCHANGED pageVars
    PROVE  DashInv'
  <1> DEFINE r == Request("getResources", Token, "none", "")
  <1>1. page.name = "debug" /\ UNCHANGED acts /\ Sends(i, page, r)
    BY DEF LoadResources
  <1>2. "getResources" \in Kinds /\ "debug" \in HomeOf["getResources"]
        /\ Bodied("getResources", "none")
    BY DEF Kinds, HomeOf, Bodied
  <1>3. SlotOK(r, "debug") /\ r.kind # "free"
    BY <1>2, RequestOK
  <1> HIDE DEF r
  <1>4. DataOK'
    BY DataStays DEF DashInv
  <1>5. QED
    BY <1>1, <1>3, <1>4, SendsStep DEF DashInv

\* The daemon's answers that say nothing a page keeps.
LEMMA OtherDaemonStep ==
    ASSUME DashInv, NEW i \in Slots, HandleDiag(i) \/ Refuse(i) \/ ConnectionFails(i),
           UNCHANGED pageVars
    PROVE  DashInv'
  <1>1. DataOK'
    BY DataStays DEF DashInv
  <1>2. CASE HandleDiag(i)
    <2>1. PICK a \in {"ok", "error"} : Answers(i, a, "none")
      BY <1>2 DEF HandleDiag
    <2>2. sent[i].kind \in {"getResources", "diag"}
      BY <1>2 DEF HandleDiag, Authorized, Waiting
    <2>3. sent[i].kind # "free" /\ Answering(sent[i].kind, "none")
      BY <2>2 DEF Answering
    <2>4. QED
      BY <1>1, <2>1, <2>3, AnswersStep
  <1>3. CASE Refuse(i)
    <2>1. Answers(i, "401", "none") /\ sent[i].kind # "free"
      BY <1>3 DEF Refuse, Guarded
    <2>2. QED
      BY <1>1, <2>1, AnswersStep
  <1>4. CASE ConnectionFails(i)
    <2>1. Answers(i, "lost", "none") /\ sent[i].kind # "free"
      BY <1>4 DEF ConnectionFails
    <2>2. QED
      BY <1>1, <2>1, AnswersStep
  <1>5. QED
    BY <1>2, <1>3, <1>4

LEMMA DebugBrowserStep ==
    ASSUME DashInv, NEW i \in Slots, DebugBrowser(i), UNCHANGED pageVars
    PROVE  DashInv'
  <1> USE DebugShown
  <1>1. DataOK'
    BY DataStays DEF DashInv
  <1>2. "getResources" \in Asks /\ "diag" \in Kinds /\ Asks \subseteq Kinds
    BY DEF Kinds, Asks, Saves, HomeOf
  <1>3. CASE DiagAnswered(i)
    <2> DEFINE result == IF sent[i].answer = "ok" THEN "text" ELSE "failed"
               output == [page.output EXCEPT ![sent[i].body] = result]
               q      == [page EXCEPT !.busy = "", !.output = output]
    <2>1. Hears(i, "diag") /\ Settles(i, q)
      BY <1>3 DEF DiagAnswered
    <2>2. page.name = "debug"
      BY <1>2, <2>1, HeardAtHome DEF HomeOf
    <2>3. result \in {"text", "failed"}
      OBVIOUS
    <2> HIDE DEF result
    <2>4. output \in [Boxes -> {"", "text", "failed"}]
      BY <2>2, <2>3
    <2> HIDE DEF output
    <2>5. q \in DebugPages /\ q.name = page.name /\ q.busy = ""
      BY <2>2, <2>4 DEF DebugPages
    <2> HIDE DEF q
    <2>6. QED
      BY <1>1, <2>1, <2>5, GoodOther, SettlesStep
  <1>4. CASE ResourcesAnswered(i)
    <2> DEFINE q == [page EXCEPT !.resources = TRUE]
    <2>1. Hears(i, "getResources") /\ Settles(i, IF sent[i].answer = "ok" THEN q ELSE page)
      BY <1>4 DEF ResourcesAnswered
    <2>2. page.name = "debug" /\ sent[i].button = ""
      BY <1>2, <2>1, HeardAtHome DEF HomeOf
    <2>3. q \in DebugPages /\ q.name = page.name /\ q.busy = page.busy
      BY <2>2 DEF DebugPages
    <2> HIDE DEF q
    <2>4. QED
      BY <1>1, <2>1, <2>2, <2>3, GoodOther, SettlesStep DEF DashInv
  <1>5. QED
    BY <1>3, <1>4 DEF DebugBrowser

--------------------------------------------------------------------------------
\* The shell.  What was under way when a page is left may be there with any page
\* that follows, for the new page does not hear it.
LEMMA Redirected ==
    ASSUME NEW r, IsRequest(r), NEW who \in {"app", "nobody"},
           NEW q, q = [r EXCEPT !.heard = who]
    PROVE  IsRequest(q) /\ q.heard = who
  BY DEF IsRequest

LEMMA LeftBehind ==
    ASSUME SlotsOK, NEW who \in {"app", "nobody"}, NEW j \in Slots, NEW name
    PROVE  SlotOK(HeardBy(who)[j], name)
  <1>1. CASE sent[j].kind = "free" \/ sent[j].heard = "nobody"
    <2>1. HeardBy(who)[j] = sent[j]
      BY <1>1 DEF HeardBy
    <2>2. sent[j] = Free \/ (IsRequest(sent[j]) /\ sent[j].heard # "page")
      <3>1. CASE sent[j] = Free
        BY <3>1
      <3>2. CASE IsRequest(sent[j])
        BY <1>1, <3>2 DEF IsRequest, Kinds, HomeOf
      <3>3. QED
        BY <3>1, <3>2 DEF SlotsOK, SlotOK
    <2>3. QED
      BY <2>1, <2>2 DEF SlotOK
  <1>2. CASE ~(sent[j].kind = "free" \/ sent[j].heard = "nobody")
    <2> DEFINE r == HeardBy(who)[j]
    <2>1. r = [sent[j] EXCEPT !.heard = who]
      BY <1>2 DEF HeardBy
    <2>2. IsRequest(sent[j])
      BY <1>2 DEF SlotsOK, SlotOK, Free
    <2>3. IsRequest(r) /\ r.heard = who
      BY <2>1, <2>2, Redirected
    <2>4. QED
      BY <2>3 DEF SlotOK
  <1>3. QED
    BY <1>1, <1>2

LEMMA OpenedOK ==
    ASSUME NEW name \in PageNames, DashInv
    PROVE  PageGood(Opened(name)) /\ Opened(name).name = name /\ Opened(name).busy = ""
  <1>1. CASE name = "network"
    <2>1. Opened(name) = NetworkOpened
      BY <1>1 DEF Opened
    <2>2. NetworkOpened \in NetworkPages
      BY NoRowsEmpty DEF NetworkOpened, NetworkPages
    <2>3. /\ NetworkOpened.form.id = "" /\ NetworkOpened.loaded = FALSE
          /\ NetworkOpened.name = "network" /\ NetworkOpened.busy = ""
      BY DEF NetworkOpened, NoForm
    <2>4. QED
      BY <1>1, <2>1, <2>2, <2>3, GoodNetwork
  <1>2. CASE name = "licence"
    <2>1. Opened(name) = LicenceOpened
      BY <1>2 DEF Opened
    <2>2. NoRecord \in Records
      BY DEF NoRecord, Records
    <2>3. LicenceOpened \in LicencePages /\ LicenceOpened.name = name /\ LicenceOpened.busy = ""
      BY <1>2, <2>2 DEF LicenceOpened, LicencePages
    <2>4. QED
      BY <2>1, <2>3, GoodOther
  <1>3. CASE name = "time"
    <2>1. Opened(name) = TimeOpened
      BY <1>3 DEF Opened
    <2>2. Defaults \in Times /\ Defaults.zone \in Zones /\ Defaults.ntp \in Servers
      BY TimeAssumption DEF Defaults, Times
    <2>3. TimeOpened \in TimePages /\ TimeOpened.name = name /\ TimeOpened.busy = ""
      BY <1>3, <2>2 DEF TimeOpened, TimePages
    <2>4. QED
      BY <2>1, <2>3, GoodOther
  <1>4. CASE name = "debug"
    <2>1. Opened(name) = DebugOpened
      BY <1>4 DEF Opened
    <2>2. (CHOOSE t \in Tests : TRUE) \in Tests
      BY DebugAssumption
    <2>3. [b \in Boxes |-> ""] \in [Boxes -> {"", "text", "failed"}]
      OBVIOUS
    <2>4. DebugOpened \in DebugPages /\ DebugOpened.name = name /\ DebugOpened.busy = ""
      BY <1>4, <2>2, <2>3 DEF DebugOpened, DebugPages
    <2>5. QED
      BY <2>1, <2>4, GoodOther
  <1>5. CASE name = "status"
    <2>1. Opened(name) = StatusOpened
      BY <1>5 DEF Opened
    <2>2. StatusOpened \in StatusPages /\ StatusOpened.name = name /\ StatusOpened.busy = ""
      BY <1>5 DEF StatusOpened, StatusPages
    <2>3. QED
      BY <2>1, <2>2, GoodOther
  <1>6. QED
    BY <1>1, <1>2, <1>3, <1>4, <1>5 DEF PageNames

LEMMA ClosedOK == PageGood(Closed) /\ Closed.busy = "" /\ Closed.name = "login"
  BY DEF PageGood, Pages, Closed

LEMMA MountsKeep ==
    ASSUME DashInv, NEW i \in Slots, NEW name \in PageNames, NEW token,
           NEW who \in {"app", "nobody"}, Mounts(i, name, token, who)
    PROVE  SlotsOK' /\ BusyIsWaiting' /\ PageGood(page)'
  <1> DEFINE r == Request(FirstKind[name], token, "none", "")
  <1>1. page' = Opened(name) /\ sent' = [HeardBy(who) EXCEPT ![i] = r]
    BY DEF Mounts
  <1>2. FirstKind[name] \in Asks /\ name \in HomeOf[FirstKind[name]]
    BY DEF FirstKind, PageNames, Asks, Kinds, Saves, HomeOf
  <1>3. SlotOK(r, name)
    BY <1>2, RequestOK DEF Asks, Saves, Bodied
  <1>4. DOMAIN sent' = Slots /\ sent'[i] = r
        /\ \A j \in Slots \ {i} : sent'[j] = HeardBy(who)[j]
    BY <1>1 DEF HeardBy
  <1> HIDE DEF r
  <1>5. page'.name = name /\ page'.busy = "" /\ PageGood(page)'
    BY <1>1, OpenedOK DEF PageGood
  <1>6. SlotsOK'
    BY <1>3, <1>4, <1>5, LeftBehind DEF SlotsOK, DashInv
  <1>7. QED
    BY <1>5, <1>6 DEF BusyIsWaiting

LEMMA UnmountsKeep ==
    ASSUME DashInv, NEW who \in {"app", "nobody"}, Unmounts(who)
    PROVE  SlotsOK' /\ BusyIsWaiting' /\ PageGood(page)'
  <1>1. page' = Closed /\ sent' = HeardBy(who)
    BY DEF Unmounts
  <1>2. DOMAIN sent' = Slots
    BY <1>1 DEF HeardBy
  <1>3. SlotsOK'
    BY <1>1, <1>2, LeftBehind DEF SlotsOK, DashInv
  <1>4. PageGood(page)' /\ page'.busy = ""
    BY <1>1, ClosedOK DEF PageGood
  <1>5. QED
    BY <1>3, <1>4 DEF BusyIsWaiting

LEMMA ShellStep ==
    ASSUME DashInv, NEW i \in Slots, UNCHANGED pageVars,
           \/ SignedIn(i) \/ ReloadTab(i) \/ LoggedOut(i) \/ Unheard(i)
           \/ \E name \in PageNames : SetActiveTab(i, name)
    PROVE  DashInv'
  <1>0. DataOK' /\ Typed
    BY DataStays DEF DashInv
  <1>1. ASSUME NEW name \in PageNames, SetActiveTab(i, name) PROVE DashInv'
    <2>1. Mounts(i, name, Token, "app") /\ activeTab' = name /\ UserActs /\ UNCHANGED vars
      BY <1>1 DEF SetActiveTab
    <2>2. SlotsOK' /\ BusyIsWaiting' /\ PageGood(page)'
      BY <2>1, MountsKeep
    <2>3. QED
      BY <1>0, <2>1, <2>2, SessionStays, ActsStay DEF DashInv
  <1>2. CASE SignedIn(i)
    <2>1. Mounts(i, activeTab, login[PageTab].token, "app") /\ UNCHANGED <<activeTab, acts>>
          /\ LoginAnswered(PageTab)
      BY <1>2 DEF SignedIn
    <2>2. SlotsOK' /\ BusyIsWaiting' /\ PageGood(page)'
      BY <2>1, MountsKeep DEF DashInv
    <2>3. Typed'
      BY <1>0, <2>1, TypedNext DEF Next
    <2>4. QED
      BY <1>0, <2>1, <2>2, <2>3 DEF DashInv
  <1>3. CASE ReloadTab(i)
    <2>1. /\ Reload(PageTab) /\ UserActs /\ activeTab' = "status"
          /\ Unmounts("nobody") \/ Mounts(i, "status", stored, "nobody")
      BY <1>3 DEF ReloadTab
    <2>2. SlotsOK' /\ BusyIsWaiting' /\ PageGood(page)'
      BY <2>1, MountsKeep, UnmountsKeep DEF PageNames
    <2>3. Typed'
      BY <1>0, <2>1, TypedNext DEF Next
    <2>4. QED
      BY <1>0, <2>1, <2>2, <2>3, ActsStay DEF DashInv, PageNames
  <1>4. CASE LoggedOut(i)
    <2>1. /\ stored' = NoToken /\ tab' = [tab EXCEPT ![PageTab] = NoToken]
          /\ page' = Closed /\ sent' = [HeardBy("app") EXCEPT ![i] = Free]
          /\ UNCHANGED <<session, issued, login, calls, restarts, activeTab, acts>>
      BY <1>4 DEF LoggedOut
    <2>2. Typed'
      BY <1>0, <2>1 DEF Typed, TypeOK, Carried
    <2>3. DOMAIN sent' = Slots /\ sent'[i] = Free
          /\ \A j \in Slots \ {i} : sent'[j] = HeardBy("app")[j]
      BY <2>1 DEF HeardBy
    <2>4. SlotsOK'
      BY <2>3, LeftBehind DEF SlotsOK, SlotOK, DashInv
    <2>5. PageGood(page)' /\ page'.busy = ""
      BY <2>1, ClosedOK DEF PageGood
    <2>6. QED
      BY <1>0, <2>1, <2>2, <2>4, <2>5 DEF DashInv, BusyIsWaiting
  <1>5. CASE Unheard(i)
    <2> DEFINE kind == Refetch[sent[i].kind]
               asked == [Request(kind, sent[i].token, "none", "") EXCEPT !.heard = "app"]
    <2>1. /\ sent[i].kind # "free" /\ sent[i].heard # "page"
          /\ UNCHANGED <<vars, activeTab, page, acts>>
      BY <1>5 DEF Unheard, Answered
    <2>2. /\ DOMAIN sent' = Slots /\ \A j \in Slots \ {i} : sent'[j] = sent[j]
          /\ sent'[i] = Free \/ (sent[i].kind \in DOMAIN Refetch /\ sent'[i] = asked)
      BY <1>5 DEF Unheard, DashInv, SlotsOK
    <2>3. ASSUME sent[i].kind \in DOMAIN Refetch PROVE IsRequest(asked) /\ asked.heard = "app"
      <3>1. kind \in {"getConfig", "getTime"}
        BY <2>3 DEF Refetch
      <3>2. kind \in Kinds /\ Bodied(kind, "none")
        BY <3>1 DEF Kinds, HomeOf, Bodied
      <3> HIDE DEF kind
      <3> DEFINE r == Request(kind, sent[i].token, "none", "")
      <3>3. IsRequest(r)
        BY <3>2 DEF IsRequest, Request
      <3> HIDE DEF r
      <3>4. QED
        BY <3>3, Redirected DEF r
    <2> HIDE DEF asked
    <2>4. SlotsOK'
      BY <2>1, <2>2, <2>3 DEF SlotsOK, SlotOK, DashInv
    <2>5. BusyIsWaiting'
      BY <2>1, <2>2 DEF BusyIsWaiting, DashInv
    <2>6. QED
      BY <1>0, <2>1, <2>4, <2>5, SessionStays DEF DashInv
  <1>6. QED
    BY <1>1, <1>2, <1>3, <1>4, <1>5

\* The login form, the logout, and what others do to the session.
LEMMA SessionStep ==
    ASSUME DashInv, LoginForm \/ SignOut \/ LoginElsewhere \/ Restart
    PROVE  DashInv'
  <1>0. Typed /\ DataOK
    BY DEF DashInv
  <1>1. CASE LoginForm \/ LoginElsewhere \/ Restart
    <2>1. UNCHANGED shellVars /\ UNCHANGED pageVars
      BY <1>1 DEF LoginForm, LoginElsewhere, Restart
    <2>2. Typed'
      <3>1. CASE LoginForm
        BY <1>0, <3>1, TypedNext DEF LoginForm, Next
      <3>2. CASE LoginElsewhere
        <4>1. issued + 1 \in Tokens /\ issued' \in 0..MaxLogins
              /\ issued' = issued + 1 /\ session' = issued + 1 /\ stored' \in {stored, issued + 1}
              /\ UNCHANGED <<tab, login, calls, restarts>>
          BY <1>0, <3>2, SessionAssumption DEF LoginElsewhere, Tokens, Typed, TypeOK
        <4>2. QED
          BY <1>0, <4>1 DEF Typed, TypeOK, Carried
      <3>3. CASE Restart
        BY <1>0, <3>3, TypedNext DEF Restart, Next
      <3>4. QED
        BY <1>1, <3>1, <3>2, <3>3
    <2>3. DataOK'
      BY <1>0, <2>1, DataStays
    <2>4. activeTab' = activeTab /\ page' = page /\ sent' = sent /\ acts' = acts
      BY <2>1 DEF shellVars
    <2>5. SlotsOK' /\ BusyIsWaiting' /\ PageGood(page)'
      BY <2>4 DEF DashInv, SlotsOK, BusyIsWaiting, PageGood
    <2>6. QED
      BY <2>2, <2>3, <2>4, <2>5 DEF DashInv
  <1>2. CASE SignOut
    <2>1. Logout(PageTab) /\ Unmounts("app") /\ UNCHANGED <<activeTab, acts>> /\ UNCHANGED pageVars
      BY <1>2 DEF SignOut, pageVars
    <2>2. Typed'
      BY <1>0, <2>1, TypedNext DEF Next
    <2>3. SlotsOK' /\ BusyIsWaiting' /\ PageGood(page)'
      BY <2>1, UnmountsKeep
    <2>4. DataOK'
      BY <1>0, <2>1, DataStays
    <2>5. QED
      BY <2>1, <2>2, <2>3, <2>4 DEF DashInv
  <1>3. QED
    BY <1>1, <1>2

LEMMA WithdrawStep ==
    ASSUME DashInv, Withdraw, UNCHANGED <<array, timeVars>>
    PROVE  DashInv'
  <1>1. [record EXCEPT !.status = "INACTIVE"] \in Records
    BY DEF DashInv, DataOK, Records
  <1>2. DataOK'
    BY <1>1 DEF Withdraw, DashInv, DataOK, timeVars
  <1>3. UNCHANGED vars /\ activeTab' = activeTab /\ page' = page /\ sent' = sent /\ acts' = acts
    BY DEF Withdraw, shellVars
  <1>4. SlotsOK' /\ BusyIsWaiting' /\ PageGood(page)'
    BY <1>3 DEF DashInv, SlotsOK, BusyIsWaiting, PageGood
  <1>5. QED
    BY <1>2, <1>3, <1>4, SessionStays DEF DashInv

--------------------------------------------------------------------------------
LEMMA DashInitOK == DashInit => DashInv
  <1> SUFFICES ASSUME DashInit PROVE DashInv
    OBVIOUS
  <1>1. Typed /\ activeTab \in PageNames /\ acts \in 0..MaxActs
    BY TypedInit DEF DashInit, PageNames
  <1>2. array \in Lists \cup {Unset}
    BY NoRowsEmpty DEF DashInit, NetworkInit
  <1>3. record \in Records
    BY DEF DashInit, LicenceInit, NoRecord, Records
  <1>4. zone \in Zones /\ ntp \in Servers /\ zoneFile \in Zones
    BY TimeAssumption DEF DashInit, TimeInit, Defaults
  <1>5. SlotsOK
    BY DEF DashInit, SlotsOK, SlotOK
  <1>6. PageGood(page) /\ page.busy = ""
    BY ClosedOK DEF DashInit
  <1>7. QED
    BY <1>1, <1>2, <1>3, <1>4, <1>5, <1>6 DEF DashInv, DataOK, BusyIsWaiting

LEMMA DashNextOK == DashInv /\ [DashNext]_dashVars => DashInv'
  <1> SUFFICES ASSUME DashInv, [DashNext]_dashVars PROVE DashInv'
    OBVIOUS
  <1>1. CASE User
    <2>1. CASE NetworkUser /\ UNCHANGED <<record, timeVars>>
      BY <2>1, NetworkUserStep
    <2>2. CASE LicenceUser /\ UNCHANGED <<array, timeVars>>
      BY <2>2, LicenceUserStep
    <2>3. CASE TimeUser /\ UNCHANGED <<array, record>>
      BY <2>3, TimeUserStep
    <2>4. CASE DebugUser /\ UNCHANGED pageVars
      BY <2>4, DebugUserStep
    <2>5. QED
      BY <1>1, <2>1, <2>2, <2>3, <2>4 DEF User
  <1>2. ASSUME NEW i \in Slots, Daemon(i) PROVE DashInv'
    <2>1. CASE NetworkDaemon(i) /\ UNCHANGED <<record, timeVars>>
      BY <2>1, NetworkDaemonStep
    <2>2. CASE (LicenceDaemon(i) \/ HandleHealth(i)) /\ UNCHANGED <<array, timeVars>>
      BY <2>2, LicenceDaemonStep
    <2>3. CASE TimeDaemon(i) /\ UNCHANGED <<array, record>>
      BY <2>3, TimeDaemonStep
    <2>4. CASE (HandleDiag(i) \/ Refuse(i) \/ ConnectionFails(i)) /\ UNCHANGED pageVars
      BY <2>4, OtherDaemonStep
    <2>5. QED
      BY <1>2, <2>1, <2>2, <2>3, <2>4 DEF Daemon
  <1>3. ASSUME NEW i \in Slots, Browser(i) PROVE DashInv'
    <2>1. CASE NetworkBrowser(i) /\ UNCHANGED <<record, timeVars>>
      BY <2>1, NetworkBrowserStep
    <2>2. CASE LicenceBrowser(i) /\ UNCHANGED <<array, timeVars>>
      BY <2>2, LicenceBrowserStep
    <2>3. CASE StatusBrowser(i) /\ UNCHANGED <<array, timeVars>>
      BY <2>3, StatusBrowserStep
    <2>4. CASE TimeBrowser(i) /\ UNCHANGED <<array, record>>
      BY <2>4, TimeBrowserStep
    <2>5. CASE DebugBrowser(i) /\ UNCHANGED pageVars
      BY <2>5, DebugBrowserStep
    <2>6. CASE (LoggedOut(i) \/ Unheard(i)) /\ UNCHANGED pageVars
      BY <2>6, ShellStep
    <2>7. QED
      BY <1>3, <2>1, <2>2, <2>3, <2>4, <2>5, <2>6 DEF Browser
  <1>4. ASSUME NEW i \in Slots,
               SignedIn(i) \/ ReloadTab(i) \/ \E name \in PageNames : SetActiveTab(i, name)
        PROVE  DashInv'
    BY <1>4, ShellStep DEF SignedIn, ReloadTab, SetActiveTab
  <1>5. ASSUME NEW i \in Slots, LoadResources(i), UNCHANGED pageVars PROVE DashInv'
    BY <1>5, LoadResourcesStep
  <1>6. CASE UNCHANGED dashVars
    <2>1. UNCHANGED vars /\ UNCHANGED pageVars /\ UNCHANGED shellVars
      BY <1>6 DEF dashVars
    <2>2. activeTab' = activeTab /\ page' = page /\ sent' = sent /\ acts' = acts
      BY <2>1 DEF shellVars
    <2>3. SlotsOK' /\ BusyIsWaiting' /\ PageGood(page)'
      BY <2>2 DEF DashInv, SlotsOK, BusyIsWaiting, PageGood
    <2>4. QED
      BY <2>1, <2>2, <2>3, SessionStays, DataStays DEF DashInv
  <1>7. QED
    BY <1>1, <1>2, <1>3, <1>4, <1>5, <1>6, SessionStep, WithdrawStep DEF DashNext, GoesOn

\* The session, the pages, the requests and what the daemon keeps have their
\* types: in particular there is always a device for a port that is added.
THEOREM DashboardTypes == DashSpec => []PagesTypeOK
  <1>1. DashInv => PagesTypeOK
    BY DEF DashInv, PagesTypeOK, PageGood, DataOK, Typed
  <1>2. QED
    BY DashInitOK, DashNextOK, <1>1, PTL DEF DashSpec

\* For any number of pages, logins and answers, in any order: what is disabled
\* waits for a request that this page will hear the answer of.
THEOREM DisabledIsWaiting == DashSpec => []BusyIsWaiting
  <1>1. DashInv => BusyIsWaiting
    BY DEF DashInv
  <1>2. QED
    BY DashInitOK, DashNextOK, <1>1, PTL DEF DashSpec

\* Whatever answers replace the list, the settings form edits a row of it.
THEOREM EditsListedRow == DashSpec => []FormEditsRow
  <1>1. DashInv => FormEditsRow
    BY DEF DashInv, PageGood, FormEditsRow, PanelShown
  <1>2. QED
    BY DashInitOK, DashNextOK, <1>1, PTL DEF DashSpec

--------------------------------------------------------------------------------
\* Only two handlers write the array: one where there is none, the other what a
\* page posted, which has the three system interfaces if the page ever had them.
LEMMA ArrayWritten ==
    ASSUME DashInv, [DashNext]_dashVars, array' # array, HasSystem(array), ~HasSystem(array')
    PROVE  \E i \in Slots : sent[i].kind = "postConfig" /\ sent[i].body.blind
  <1>1. PICK i \in Slots : HandleGetConfig(i) \/ HandlePostConfig(i)
    BY DEF DashNext, dashVars, pageVars, User, LoginForm, SignOut, LoginElsewhere, Restart,
           GoesOn, Daemon, Browser, SignedIn, ReloadTab, SetActiveTab, NetworkUser, NetworkDaemon,
           NetworkBrowser, SelectInterface, HandleAddNew, HandleDelete, EditForm,
           HandleUpdateCurrent, HandleApply, GetConfigAnswered, PostConfigAnswered
  <1>2. HandlePostConfig(i)
    BY <1>1 DEF HandleGetConfig, HasSystem
  <1>3. array' = sent[i].body.rows /\ sent[i].kind = "postConfig"
    BY <1>2 DEF HandlePostConfig, Authorized, Waiting
  <1>4. sent[i].body \in Posts
    BY <1>3, WaitingBodied DEF Bodied
  <1>5. sent[i].body.rows \in Lists
        /\ (sent[i].body.blind \/ SystemIds \subseteq DOMAIN sent[i].body.rows)
    BY <1>4 DEF Posts
  <1>6. sent[i].body.blind
    BY <1>3, <1>5, InterfacesAssumption DEF HasSystem
  <1>7. QED
    BY <1>3, <1>6

\* The dashboard takes a system interface out of the stored array only when it
\* posts a list that a page made up before the array arrived.
THEOREM SystemKept == DashSpec => SystemInterfacesKept
  <1>1. DashInv /\ [DashNext]_dashVars =>
           [HasSystem(array) /\ ~HasSystem(array') =>
               \E i \in Slots : sent[i].kind = "postConfig" /\ sent[i].body.blind]_array
    BY ArrayWritten
  <1>2. QED
    BY DashInitOK, DashNextOK, <1>1, PTL DEF DashSpec, SystemInterfacesKept

--------------------------------------------------------------------------------
\* Success messages.  While a page saves there is one request of its kind that it
\* waits for.  If none was under way when it was sent there is no other at all:
\* then it says what the page remembers, and what has been answered for it is
\* stored, until the page saves again.
SaveKind == [network |-> "postConfig", licence |-> "activate", time |-> "postTime"]
Savers   == {"network", "licence", "time"}

IsSave(r, name) == r.kind = SaveKind[name]
Says(p, body) ==
    /\ p.name = "network" => body.rows = p.posted
    /\ p.name \in {"licence", "time"} => body = p.posted
StoredFor(p) ==
    /\ p.name = "network" => array = p.posted
    /\ p.name = "licence" => record.key = p.posted.key /\ record.url = p.posted.url
    /\ p.name = "time" => zone = p.posted.zone /\ ntp = p.posted.ntp
HalfStored(p) == p.name = "time" => zone = p.posted.zone

Confident == page.alone /\ (page.busy = "save" \/ page.message = "saved")
SaveInv ==
    page.name \in Savers =>
        /\ page.message = "saved" => page.busy = "" /\ (page.alone => StoredFor(page))
        /\ \A i \in Slots : IsSave(sent[i], page.name) /\ sent[i].heard = "page" =>
              page.busy = "save"
        /\ \A i, j \in Slots :
              /\ IsSave(sent[i], page.name) /\ IsSave(sent[j], page.name)
              /\ Confident \/ (sent[i].heard = "page" /\ sent[j].heard = "page")
              => i = j
        /\ Confident => \A i \in Slots : IsSave(sent[i], page.name) =>
              /\ page.busy = "save" /\ Says(page, sent[i].body)
              /\ sent[i].answer = "half" => HalfStored(page)
              /\ sent[i].answer = "ok" => StoredFor(page)

\* A step that neither sends, answers nor ends a save of the page shown.
LEMMA SaveKept ==
    ASSUME SaveInv, page'.name = page.name,
           page.name \in Savers =>
              /\ page'.busy = page.busy /\ page'.alone = page.alone /\ page'.posted = page.posted
              /\ page'.message = "saved" => page.message = "saved"
              /\ StoredFor(page) => StoredFor(page)'
              /\ HalfStored(page) => HalfStored(page)'
              /\ \A i \in Slots : IsSave(sent'[i], page.name) =>
                    /\ IsSave(sent[i], page.name) /\ sent'[i].body = sent[i].body
                    /\ sent'[i].heard = "page" => sent[i].heard = "page"
                    /\ sent'[i].answer \in {"half", "ok"} => sent'[i].answer = sent[i].answer
    PROVE  SaveInv'
  <1> SUFFICES ASSUME page.name \in Savers PROVE SaveInv'
    BY DEF SaveInv
  <1>1. Confident' => Confident
    BY DEF Confident
  <1>2. ASSUME page'.message = "saved"
        PROVE  page'.busy = "" /\ (page'.alone => StoredFor(page)')
    BY <1>2 DEF SaveInv
  <1>3. ASSUME NEW i \in Slots, IsSave(sent'[i], page'.name), sent'[i].heard = "page"
        PROVE  page'.busy = "save"
    BY <1>3 DEF SaveInv
  <1>4. ASSUME NEW i \in Slots, NEW j \in Slots,
               IsSave(sent'[i], page'.name), IsSave(sent'[j], page'.name),
               Confident' \/ (sent'[i].heard = "page" /\ sent'[j].heard = "page")
        PROVE  i = j
    BY <1>1, <1>4 DEF SaveInv
  <1>5. ASSUME Confident', NEW i \in Slots, IsSave(sent'[i], page'.name)
        PROVE  /\ page'.busy = "save" /\ Says(page', sent'[i].body)
               /\ sent'[i].answer = "half" => HalfStored(page)'
               /\ sent'[i].answer = "ok" => StoredFor(page)'
    BY <1>1, <1>5 DEF SaveInv, Says
  <1>6. QED
    BY <1>2, <1>3, <1>4, <1>5 DEF SaveInv

\* What keeps what is stored: nothing is written, or not what the page saves.
LEMMA StoredKept ==
    ASSUME page'.name = page.name, page.name \in Savers => page'.posted = page.posted,
           page.name = "network" => array' = array,
           page.name = "licence" => record'.key = record.key /\ record'.url = record.url,
           page.name = "time" => zone' = zone /\ ntp' = ntp
    PROVE  /\ StoredFor(page) => StoredFor(page)'
           /\ HalfStored(page) => HalfStored(page)'
  BY DEF StoredFor, HalfStored, Savers

\* A page that does not save, or is new and saves nothing yet.
LEMMA NoSaver == page'.name \notin Savers => SaveInv'
  BY DEF SaveInv

LEMMA SaverOpened ==
    ASSUME page'.busy = "", page'.message = "none",
           \A i \in Slots : IsSave(sent'[i], page'.name) => sent'[i].heard # "page"
    PROVE  SaveInv'
  BY DEF SaveInv, Confident

\* Saving begins, is answered, and ends.
LEMMA SaveBegins ==
    ASSUME SaveInv, page.name \in Savers, page.busy = "", NEW i \in Slots, NEW q, NEW r,
           SlotsOK, Sends(i, q, r), r.kind = SaveKind[page.name], r.answer = "none",
           q.name = page.name, q.busy = "save", q.message = "none", Says(q, r.body),
           q.alone = \A j \in Slots : sent[j].kind # SaveKind[page.name]
    PROVE  SaveInv'
  <1>1. page' = q /\ sent'[i] = r /\ \A j \in Slots \ {i} : sent'[j] = sent[j]
    BY DEF Sends, SlotsOK
  <1>2. \A j \in Slots \ {i} : IsSave(sent'[j], page.name) => sent'[j].heard # "page"
    BY <1>1 DEF SaveInv
  <1>3. page'.alone => \A j \in Slots \ {i} : ~IsSave(sent'[j], page.name)
    BY <1>1 DEF IsSave
  <1>4. QED
    BY <1>1, <1>2, <1>3 DEF SaveInv, Confident

LEMMA SaveAnswered ==
    ASSUME SaveInv, SlotsOK, NEW i \in Slots, NEW a, NEW d, Answers(i, a, d),
           page.name \in Savers => IsSave(sent[i], page.name),
           Says(page, sent[i].body) /\ (sent[i].answer = "half" => HalfStored(page)) =>
              (a = "half" => HalfStored(page)') /\ (a = "ok" => StoredFor(page)')
    PROVE  SaveInv'
  <1> SUFFICES ASSUME page.name \in Savers PROVE SaveInv'
    BY DEF SaveInv, Answers
  <1>1. /\ page' = page /\ (Confident' <=> Confident)
        /\ sent'[i] = [[sent[i] EXCEPT !.answer = a] EXCEPT !.data = d]
        /\ \A j \in Slots \ {i} : sent'[j] = sent[j]
    BY DEF Answers, SlotsOK, Confident
  <1>2. IsRequest(sent[i])
    BY DEF SlotsOK, SlotOK, IsSave, SaveKind, Savers, Free
  <1>3. sent'[i].kind = sent[i].kind /\ sent'[i].heard = sent[i].heard
        /\ sent'[i].body = sent[i].body /\ sent'[i].answer = a
    BY <1>1, <1>2 DEF IsRequest
  <1>4. \A j \in Slots : sent'[j].kind = sent[j].kind /\ sent'[j].heard = sent[j].heard
    BY <1>1, <1>3
  <1>5. Confident => page.busy = "save" /\ Says(page, sent[i].body)
                     /\ (sent[i].answer = "half" => HalfStored(page))
                     /\ \A j \in Slots \ {i} : ~IsSave(sent[j], page.name)
    BY DEF SaveInv
  <1>6. page.alone => page.message # "saved"
    BY <1>5 DEF SaveInv, Confident
  <1>7. Confident => \A j \in Slots : IsSave(sent'[j], page.name) =>
              /\ page.busy = "save" /\ Says(page, sent'[j].body)
              /\ sent'[j].answer = "half" => HalfStored(page)'
              /\ sent'[j].answer = "ok" => StoredFor(page)'
    BY <1>3, <1>4, <1>5 DEF IsSave
  <1>8. page'.message = "saved" => page'.busy = "" /\ (page'.alone => StoredFor(page)')
    BY <1>1, <1>6 DEF SaveInv
  <1>9. \A j \in Slots : IsSave(sent'[j], page'.name) /\ sent'[j].heard = "page" =>
            page'.busy = "save"
    BY <1>1, <1>4 DEF SaveInv, IsSave
  <1>10. ASSUME NEW j \in Slots, NEW k \in Slots,
                IsSave(sent'[j], page'.name), IsSave(sent'[k], page'.name),
                Confident' \/ (sent'[j].heard = "page" /\ sent'[k].heard = "page")
         PROVE  j = k
    <2>1. IsSave(sent[j], page.name) /\ IsSave(sent[k], page.name)
      BY <1>1, <1>4, <1>10 DEF IsSave
    <2>2. Confident \/ (sent[j].heard = "page" /\ sent[k].heard = "page")
      BY <1>1, <1>4, <1>10
    <2>3. QED
      BY <2>1, <2>2 DEF SaveInv
  <1>11. QED
    BY <1>1, <1>7, <1>8, <1>9, <1>10 DEF SaveInv

LEMMA SaveEnded ==
    ASSUME SaveInv, SlotsOK, NEW i \in Slots, NEW p, NEW r, page.name \in Savers,
           IsSave(sent[i], page.name), sent[i].heard = "page",
           page' = p, sent' = [sent EXCEPT ![i] = r], r.kind # SaveKind[page.name],
           p.name = page.name, p.alone = page.alone, p.posted = page.posted, p.busy = "",
           p.message = "saved" => sent[i].answer = "ok",
           StoredFor(page) => StoredFor(page)'
    PROVE  SaveInv'
  <1>1. sent'[i] = r /\ \A j \in Slots \ {i} : sent'[j] = sent[j]
    BY DEF SlotsOK
  <1>2. \A j \in Slots \ {i} : IsSave(sent[j], page.name) => sent[j].heard # "page"
    BY DEF SaveInv
  <1>3. page.busy = "save"
    BY DEF SaveInv
  <1>4. page.alone => \A j \in Slots \ {i} : ~IsSave(sent[j], page.name)
    BY <1>3 DEF SaveInv, Confident
  <1>5. page'.message = "saved" /\ page'.alone => StoredFor(page)'
    BY <1>3 DEF SaveInv, Confident
  <1>6. \A j \in Slots : IsSave(sent'[j], page.name) =>
            j # i /\ sent'[j] = sent[j] /\ sent'[j].heard # "page"
    BY <1>1, <1>2 DEF IsSave
  <1>7. page'.alone => \A j \in Slots : ~IsSave(sent'[j], page.name)
    BY <1>4, <1>6
  <1>8. QED
    BY <1>5, <1>6, <1>7 DEF SaveInv, Confident

\* Every other step touches at most one request, and of the page no more than this.
Quiet(p) ==
    /\ p.name = page.name
    /\ page.name \in Savers =>
          /\ p.busy = page.busy /\ p.alone = page.alone /\ p.posted = page.posted
          /\ p.message = "saved" => page.message = "saved"
DataKept ==
    /\ page.name = "network" => array' = array \/ array = Unset
    /\ page.name = "licence" => record'.key = record.key /\ record'.url = record.url
    /\ page.name = "time" => zone' = zone /\ ntp' = ntp

LEMMA SaveTouched ==
    ASSUME DashInv, SaveInv, Quiet(page'), DataKept,
           \E i \in Slots :
              /\ \A j \in Slots \ {i} : sent'[j] = sent[j]
              /\ \/ ~IsSave(sent'[i], page.name) \/ sent'[i] = sent[i]
                 \/ /\ sent'[i].kind = sent[i].kind /\ sent'[i].body = sent[i].body
                    /\ sent'[i].heard = sent[i].heard /\ sent'[i].answer \notin {"half", "ok"}
    PROVE  SaveInv'
  <1> SUFFICES ASSUME page.name \in Savers PROVE SaveInv'
    BY NoSaver DEF Quiet
  <1>1. page.name = "network" => page.posted # Unset
    BY NetworkShown, InterfacesAssumption
  <1>2. (StoredFor(page) => StoredFor(page)') /\ (HalfStored(page) => HalfStored(page)')
    BY <1>1 DEF StoredFor, HalfStored, Quiet, DataKept
  <1>3. \A j \in Slots : IsSave(sent'[j], page.name) =>
           /\ IsSave(sent[j], page.name) /\ sent'[j].body = sent[j].body
           /\ sent'[j].heard = "page" => sent[j].heard = "page"
           /\ sent'[j].answer \in {"half", "ok"} => sent'[j].answer = sent[j].answer
    BY DEF IsSave
  <1>4. QED
    BY <1>2, <1>3, SaveKept DEF Quiet

\* In the four ways of the shell.
LEMMA SaveLocal ==
    ASSUME DashInv, SaveInv, NEW p, Local(p), Quiet(p), DataKept PROVE SaveInv'
  <1>1. page' = p /\ sent' = sent
    BY DEF Local
  <1>2. page.name = "network" => page.posted # Unset
    BY NetworkShown, InterfacesAssumption
  <1>3. page'.name \in Savers =>
           (StoredFor(page) => StoredFor(page)') /\ (HalfStored(page) => HalfStored(page)')
    BY <1>1, <1>2 DEF StoredFor, HalfStored, Quiet, DataKept
  <1>4. QED
    BY <1>1, <1>3, SaveKept DEF Quiet

LEMMA SaveUnanswered ==
    ASSUME DashInv, SaveInv, DataKept, NEW i \in Slots, NEW a, NEW d, Answers(i, a, d),
           sent[i].kind # "free", a \notin {"half", "ok"} \/ ~IsSave(sent[i], page.name)
    PROVE  SaveInv'
  <1>1. page' = page /\ (\A j \in Slots \ {i} : sent'[j] = sent[j])
        /\ sent'[i] = [[sent[i] EXCEPT !.answer = a] EXCEPT !.data = d]
    BY DEF Answers, DashInv, SlotsOK
  <1>2. IsRequest(sent[i])
    BY WaitingBodied
  <1>3. sent'[i].kind = sent[i].kind /\ sent'[i].body = sent[i].body
        /\ sent'[i].heard = sent[i].heard /\ sent'[i].answer = a
    BY <1>1, <1>2 DEF IsRequest
  <1>4. ~IsSave(sent[i], page.name) => ~IsSave(sent'[i], page.name)
    BY <1>3 DEF IsSave
  <1>5. QED
    BY <1>1, <1>3, <1>4, SaveTouched DEF Quiet

LEMMA SaveReplaced ==
    ASSUME DashInv, SaveInv, DataKept, NEW i \in Slots, NEW p, NEW r, Quiet(p),
           page' = p, sent' = [sent EXCEPT ![i] = r], r.kind \notin Saves
    PROVE  SaveInv'
  <1>1. sent'[i] = r /\ \A j \in Slots \ {i} : sent'[j] = sent[j]
    BY DEF DashInv, SlotsOK
  <1>2. ASSUME page.name \in Savers PROVE ~IsSave(r, page.name)
    BY <1>2 DEF IsSave, SaveKind, Savers, Saves
  <1>3. CASE page.name \in Savers
    BY <1>1, <1>2, <1>3, SaveTouched
  <1>4. CASE page.name \notin Savers
    BY <1>4, NoSaver DEF Quiet
  <1>5. QED
    BY <1>3, <1>4

--------------------------------------------------------------------------------
\* Page by page.
LEMMA SaveKinds ==
    /\ "network" \in Savers /\ SaveKind["network"] = "postConfig"
    /\ "licence" \in Savers /\ SaveKind["licence"] = "activate"
    /\ "time" \in Savers /\ SaveKind["time"] = "postTime"
    /\ \A r : r.kind = "postConfig" => (\A name \in Savers : IsSave(r, name) <=> name = "network")
    /\ \A r : r.kind = "activate" => (\A name \in Savers : IsSave(r, name) <=> name = "licence")
    /\ \A r : r.kind = "postTime" => (\A name \in Savers : IsSave(r, name) <=> name = "time")
    /\ \A r : r.kind \notin Saves => \A name \in Savers : ~IsSave(r, name)
  BY DEF SaveKind, Savers, IsSave, Saves

LEMMA SavedNetworkUser ==
    ASSUME DashInv, SaveInv, NetworkUser PROVE SaveInv'
  <1> USE NetworkShown
  <1>1. UNCHANGED array /\ page.name = "network"
    BY DEF NetworkUser, SelectInterface, HandleAddNew, HandleDelete, EditForm,
           HandleUpdateCurrent, HandleApply, Shows
  <1>2. DataKept
    BY <1>1 DEF DataKept
  <1>3. ASSUME NEW form, Local([page EXCEPT !.form = form]) PROVE SaveInv'
    <2> DEFINE q == [page EXCEPT !.form = form]
    <2>1. Quiet(q)
      BY <1>1 DEF Quiet, NetworkPages
    <2> HIDE DEF q
    <2>2. QED
      BY <1>2, <1>3, <2>1, SaveLocal DEF q
  <1>4. ASSUME NEW list, Local([page EXCEPT !.list = list, !.message = "local"]) PROVE SaveInv'
    <2> DEFINE q == [page EXCEPT !.list = list, !.message = "local"]
    <2>1. Quiet(q)
      BY <1>1 DEF Quiet, NetworkPages
    <2> HIDE DEF q
    <2>2. QED
      BY <1>2, <1>4, <2>1, SaveLocal DEF q
  <1>5. ASSUME NEW list, NEW form,
               Local([page EXCEPT !.list = list, !.form = form, !.message = "local"])
        PROVE  SaveInv'
    <2> DEFINE q == [page EXCEPT !.list = list, !.form = form, !.message = "local"]
    <2>1. Quiet(q)
      BY <1>1 DEF Quiet, NetworkPages
    <2> HIDE DEF q
    <2>2. QED
      BY <1>2, <1>5, <2>1, SaveLocal DEF q
  <1>6. ASSUME NEW d \in Devices, EditForm(d) PROVE SaveInv'
    <2>1. Local([page EXCEPT !.form = [page.form EXCEPT !.device = d]])
      BY <1>6 DEF EditForm
    <2>2. QED
      BY <1>3, <2>1
  <1>7. ASSUME NEW i \in Slots, HandleApply(i) PROVE SaveInv'
    <2> DEFINE alone == \A j \in Slots : sent[j].kind # "postConfig"
               q == [page EXCEPT !.busy = "save", !.message = "none", !.posted = page.list,
                                 !.alone = alone]
               r == Request("postConfig", Token, [rows |-> page.list, blind |-> ~page.loaded],
                            "save")
    <2>1. Sends(i, q, r) /\ page.busy = ""
      BY <1>7 DEF HandleApply
    <2>2. q.name = "network" /\ q.busy = "save" /\ q.message = "none" /\ q.posted = page.list
          /\ q.alone = alone
      BY <1>1 DEF NetworkPages
    <2>3. r.kind = "postConfig" /\ r.answer = "none" /\ r.body.rows = page.list
      BY DEF Request
    <2> HIDE DEF q, r
    <2>4. Says(q, r.body)
      BY <2>2, <2>3 DEF Says
    <2>5. QED
      BY <1>1, <2>1, <2>2, <2>3, <2>4, SaveKinds, SaveBegins DEF DashInv
  <1>8. ASSUME NEW id \in Ids, SelectInterface(id) \/ HandleAddNew(id) \/ HandleDelete(id)
        PROVE  SaveInv'
    BY <1>3, <1>5, <1>8 DEF SelectInterface, HandleAddNew, HandleDelete
  <1>9. HandleUpdateCurrent => SaveInv'
    BY <1>4 DEF HandleUpdateCurrent
  <1>10. QED
    BY <1>6, <1>7, <1>8, <1>9 DEF NetworkUser

LEMMA SavedNetworkDaemon ==
    ASSUME DashInv, SaveInv, NEW i \in Slots, NetworkDaemon(i), UNCHANGED <<record, timeVars>>
    PROVE  SaveInv'
  <1>1. CASE HandleGetConfig(i)
    <2>1. sent[i].kind = "getConfig" /\ Answers(i, "ok", array')
          /\ (array' = array \/ array = Unset)
      BY <1>1 DEF HandleGetConfig, Authorized, Waiting
    <2>2. DataKept
      BY <2>1 DEF DataKept, timeVars
    <2>3. page.name \in Savers => ~IsSave(sent[i], page.name)
      BY <2>1, SaveKinds DEF Saves
    <2>4. page' = page
      BY <2>1 DEF Answers
    <2>5. QED
      BY <2>1, <2>2, <2>3, <2>4, SaveUnanswered, NoSaver
  <1>2. CASE HandlePostConfig(i)
    <2>1. sent[i].kind = "postConfig"
          /\ \/ Answers(i, "ok", "none") /\ array' = sent[i].body.rows
             \/ Answers(i, "error", "none") /\ UNCHANGED array
      BY <1>2 DEF HandlePostConfig, Authorized, Waiting
    <2>2. page' = page
      BY <2>1 DEF Answers
    <2>3. CASE page.name = "network"
      <3>1. IsSave(sent[i], page.name)
        BY <2>1, <2>3, SaveKinds
      <3>2. Says(page, sent[i].body) /\ array' = sent[i].body.rows => StoredFor(page)'
        BY <2>2, <2>3 DEF Says, StoredFor
      <3>3. QED
        BY <2>1, <3>1, <3>2, SaveAnswered DEF DashInv
    <2>4. CASE page.name # "network"
      <3>1. DataKept
        BY <2>4 DEF DataKept, timeVars
      <3>2. page.name \in Savers => ~IsSave(sent[i], page.name)
        BY <2>1, <2>4, SaveKinds
      <3>3. QED
        BY <2>1, <2>2, <3>1, <3>2, SaveUnanswered, NoSaver
    <2>5. QED
      BY <2>3, <2>4
  <1>3. QED
    BY <1>1, <1>2 DEF NetworkDaemon

\* An answer to the page's save: a success is one of the daemon.
LEMMA SaveHeard ==
    ASSUME DashInv, SaveInv, DataKept, NEW i \in Slots, NEW kind \in Saves, Hears(i, kind),
           NEW p, NEW r, page' = p, sent' = [sent EXCEPT ![i] = r], r.kind \notin Saves,
           p.name = page.name, p.alone = page.alone, p.posted = page.posted, p.busy = "",
           p.message = "saved" => sent[i].answer = "ok"
    PROVE  SaveInv'
  <1>1. page.name \in HomeOf[kind] /\ sent[i].kind = kind /\ sent[i].heard = "page"
    BY HeardAtHome DEF Saves, Kinds, HomeOf, Hears
  <1>2. page.name \in Savers /\ SaveKind[page.name] = kind
    <2>1. HomeOf["postConfig"] = {"network"} /\ HomeOf["activate"] = {"licence"}
          /\ HomeOf["postTime"] = {"time"}
      BY DEF HomeOf
    <2>2. kind \in {"postConfig", "activate", "postTime"}
      BY DEF Saves
    <2>3. \/ kind = "postConfig" /\ page.name = "network"
          \/ kind = "activate" /\ page.name = "licence"
          \/ kind = "postTime" /\ page.name = "time"
      BY <1>1, <2>1, <2>2
    <2>4. QED
      BY <2>3, SaveKinds
  <1>3. page.name = "network" => page.posted # Unset
    BY NetworkShown, InterfacesAssumption
  <1>4. StoredFor(page) => StoredFor(page)'
    BY <1>3 DEF StoredFor, DataKept
  <1>5. QED
    BY <1>1, <1>2, <1>4, SaveEnded DEF DashInv, IsSave

LEMMA SavedNetworkBrowser ==
    ASSUME DashInv, SaveInv, NEW i \in Slots, NetworkBrowser(i), UNCHANGED <<record, timeVars>>
    PROVE  SaveInv'
  <1> USE NetworkShown
  <1>1. DataKept
    BY DEF NetworkBrowser, GetConfigAnswered, PostConfigAnswered, DataKept, timeVars
  <1>2. CASE GetConfigAnswered(i)
    <2>1. Hears(i, "getConfig") /\ "getConfig" \in Kinds
      BY <1>2 DEF GetConfigAnswered, Kinds, HomeOf
    <2>2. page.name = "network"
      BY <2>1, HeardAtHome DEF HomeOf
    <2>3. ASSUME NEW list, NEW form, NEW loaded
          PROVE  Quiet([page EXCEPT !.list = list, !.form = form, !.loaded = loaded])
      BY <2>2 DEF Quiet, NetworkPages
    <2>4. Quiet(page)
      BY DEF Quiet
    <2>5. \E p : Quiet(p) /\ Settles(i, p)
      BY <1>2, <2>3, <2>4 DEF GetConfigAnswered
    <2>6. PICK p : Quiet(p) /\ page' = p /\ sent' = [sent EXCEPT ![i] = Free]
      BY <2>5 DEF Settles
    <2>7. QED
      BY <1>1, <2>6, SaveReplaced DEF Free, Saves
  <1>3. CASE PostConfigAnswered(i)
    <2> DEFINE q(m) == [page EXCEPT !.message = m, !.busy = ""]
               again == Request("getConfig", sent[i].token, "none", "")
    <2>1. Hears(i, "postConfig") /\ "postConfig" \in Kinds \cap Saves
      BY <1>3 DEF PostConfigAnswered, Kinds, HomeOf, Saves
    <2>2. page.name = "network"
      BY <2>1, HeardAtHome DEF HomeOf
    <2>3. ASSUME NEW m \in {"saved", "failed"}
          PROVE  q(m).name = page.name /\ q(m).alone = page.alone /\ q(m).posted = page.posted
                 /\ q(m).busy = "" /\ q(m).message = m
      BY <2>2 DEF NetworkPages
    <2>4. PICK m \in {"saved", "failed"}, r \in {Free, again} :
             /\ page' = q(m) /\ sent' = [sent EXCEPT ![i] = r]
             /\ m = "saved" => sent[i].answer = "ok"
      BY <1>3 DEF PostConfigAnswered, AsksAgain, Settles
    <2>5. Free.kind \notin Saves /\ again.kind \notin Saves
      BY DEF Request, Free, Saves
    <2> HIDE DEF q, again
    <2>6. r.kind \notin Saves
      BY <2>4, <2>5
    <2>7. QED
      BY <1>1, <2>1, <2>3, <2>4, <2>6, SaveHeard
  <1>4. QED
    BY <1>2, <1>3 DEF NetworkBrowser

LEMMA SavedLicenceUser ==
    ASSUME DashInv, SaveInv, LicenceUser, UNCHANGED <<array, timeVars>> PROVE SaveInv'
  <1> USE LicenceShown
  <1>1. UNCHANGED record /\ page.name = "licence"
    BY DEF LicenceUser, TypeUrl, TypeKey, HandleActivate, HandleCheckUpdates, Shows
  <1>2. DataKept
    BY <1>1 DEF DataKept
  <1>3. ASSUME NEW url \in Urls, TypeUrl(url) PROVE SaveInv'
    <2> DEFINE q == [page EXCEPT !.urlInput = url]
    <2>1. Quiet(q)
      BY <1>1 DEF Quiet, LicencePages
    <2> HIDE DEF q
    <2>2. QED
      BY <1>2, <1>3, <2>1, SaveLocal DEF TypeUrl, q
  <1>4. ASSUME NEW key \in LicenceKeys, TypeKey(key) PROVE SaveInv'
    <2> DEFINE q == [page EXCEPT !.keyInput = key]
    <2>1. Quiet(q)
      BY <1>1 DEF Quiet, LicencePages
    <2> HIDE DEF q
    <2>2. QED
      BY <1>2, <1>4, <2>1, SaveLocal DEF TypeKey, q
  <1>5. ASSUME NEW i \in Slots, HandleActivate(i) PROVE SaveInv'
    <2> DEFINE asked == [status |-> "ACTIVE", key |-> ActiveKey, url |-> page.urlInput]
               alone == \A j \in Slots : sent[j].kind # "activate"
               q     == [page EXCEPT !.busy = "save", !.message = "none", !.posted = asked,
                                     !.alone = alone]
               r     == Request("activate", NoToken, asked, "save")
    <2>1. Sends(i, q, r) /\ page.busy = ""
      BY <1>5 DEF HandleActivate
    <2> HIDE DEF asked
    <2>2. q.name = "licence" /\ q.busy = "save" /\ q.message = "none" /\ q.posted = asked
          /\ q.alone = alone
      BY <1>1 DEF LicencePages
    <2>3. r.kind = "activate" /\ r.answer = "none" /\ r.body = asked
      BY DEF Request
    <2> HIDE DEF q, r
    <2>4. Says(q, r.body)
      BY <2>2, <2>3 DEF Says
    <2>5. QED
      BY <1>1, <2>1, <2>2, <2>3, <2>4, SaveKinds, SaveBegins DEF DashInv
  <1>6. ASSUME NEW i \in Slots, HandleCheckUpdates(i) PROVE SaveInv'
    <2> DEFINE r == Request("updateCheck", Token, "none", "")
    <2>1. page' = page /\ sent' = [sent EXCEPT ![i] = r]
      BY <1>6 DEF HandleCheckUpdates, Sends
    <2>2. r.kind \notin Saves
      BY DEF Request, Saves
    <2> HIDE DEF r
    <2>3. Quiet(page)
      BY DEF Quiet
    <2>4. QED
      BY <1>2, <2>1, <2>2, <2>3, SaveReplaced
  <1>7. QED
    BY <1>3, <1>4, <1>5, <1>6 DEF LicenceUser

LEMMA SavedLicenceDaemon ==
    ASSUME DashInv, SaveInv, NEW i \in Slots, LicenceDaemon(i) \/ HandleHealth(i),
           UNCHANGED <<array, timeVars>>
    PROVE  SaveInv'
  <1>1. CASE HandleGetLicence(i) \/ HandleUpdateCheck(i) \/ HandleHealth(i)
    <2>1. sent[i].kind \in {"getLicence", "updateCheck", "getHealth"}
          /\ UNCHANGED <<page, record>> /\ \E a, d : Answers(i, a, d)
      BY <1>1 DEF HandleGetLicence, HandleUpdateCheck, HandleHealth, Authorized, Waiting, Answers
    <2>2. DataKept
      BY <2>1 DEF DataKept, timeVars
    <2>3. sent[i].kind \notin Saves /\ sent[i].kind # "free"
      BY <2>1 DEF Saves
    <2>4. page.name \in Savers => ~IsSave(sent[i], page.name)
      BY <2>3, SaveKinds
    <2>5. QED
      BY <2>1, <2>2, <2>3, <2>4, SaveUnanswered, NoSaver
  <1>2. CASE HandlePostActivate(i)
    <2>1. sent[i].kind = "activate" /\ UNCHANGED page
          /\ \/ Answers(i, "ok", "none") /\ record' = sent[i].body
             \/ Answers(i, "error", "none") \/ Answers(i, "lost", "none")
      BY <1>2 DEF HandlePostActivate, Waiting, Answers
    <2>2. CASE page.name = "licence"
      <3>1. IsSave(sent[i], page.name)
        BY <2>1, <2>2, SaveKinds
      <3>2. Says(page, sent[i].body) /\ record' = sent[i].body => StoredFor(page)'
        BY <2>1, <2>2 DEF Says, StoredFor
      <3>3. QED
        BY <2>1, <3>1, <3>2, SaveAnswered DEF DashInv
    <2>3. CASE page.name # "licence"
      <3>1. DataKept
        BY <2>3 DEF DataKept, timeVars
      <3>2. page.name \in Savers => ~IsSave(sent[i], page.name)
        BY <2>1, <2>3, SaveKinds
      <3>3. QED
        BY <2>1, <3>1, <3>2, SaveUnanswered, NoSaver
    <2>4. QED
      BY <2>2, <2>3
  <1>3. QED
    BY <1>1, <1>2 DEF LicenceDaemon

LEMMA SavedLicenceBrowser ==
    ASSUME DashInv, SaveInv, NEW i \in Slots, LicenceBrowser(i), UNCHANGED <<array, timeVars>>
    PROVE  SaveInv'
  <1> USE LicenceShown
  <1>1. DataKept
    BY DEF LicenceBrowser, GetLicenceAnswered, ActivateAnswered, UpdateCheckAnswered, DataKept,
           timeVars
  <1>2. CASE GetLicenceAnswered(i)
    <2>1. page.name = "licence"
      BY <1>2 DEF GetLicenceAnswered
    <2>2. ASSUME NEW status, NEW key PROVE Quiet([page EXCEPT !.status = status, !.key = key])
      BY <2>1 DEF Quiet, LicencePages
    <2>3. ASSUME NEW status, NEW key, NEW url
          PROVE  Quiet([page EXCEPT !.status = status, !.key = key, !.urlInput = url])
      BY <2>1 DEF Quiet, LicencePages
    <2>4. \E p : Quiet(p) /\ Settles(i, p)
      BY <1>2, <2>2, <2>3 DEF GetLicenceAnswered
    <2>5. PICK p : Quiet(p) /\ page' = p /\ sent' = [sent EXCEPT ![i] = Free]
      BY <2>4 DEF Settles
    <2>6. QED
      BY <1>1, <2>5, SaveReplaced DEF Free, Saves
  <1>3. CASE ActivateAnswered(i)
    <2> DEFINE q1 == [page EXCEPT !.message = "saved", !.busy = "", !.keyInput = ""]
               q2 == [page EXCEPT !.message = "failed", !.busy = ""]
               again == Request("getLicence", sent[i].token, "none", "")
    <2>1. Hears(i, "activate") /\ "activate" \in Kinds \cap Saves
      BY <1>3 DEF ActivateAnswered, Kinds, HomeOf, Saves
    <2>2. page.name = "licence"
      BY <2>1, HeardAtHome DEF HomeOf
    <2>3. q1.name = page.name /\ q1.alone = page.alone /\ q1.posted = page.posted /\ q1.busy = ""
      BY <2>2 DEF LicencePages
    <2>4. q2.name = page.name /\ q2.alone = page.alone /\ q2.posted = page.posted /\ q2.busy = ""
          /\ q2.message = "failed"
      BY <2>2 DEF LicencePages
    <2>5. \/ page' = q1 /\ sent' = [sent EXCEPT ![i] = again] /\ sent[i].answer = "ok"
          \/ page' = q2 /\ sent' = [sent EXCEPT ![i] = Free]
      BY <1>3 DEF ActivateAnswered, AsksAgain, Settles
    <2>6. Free.kind \notin Saves /\ again.kind \notin Saves
      BY DEF Request, Free, Saves
    <2> HIDE DEF q1, q2, again
    <2>7. QED
      BY <1>1, <2>1, <2>3, <2>4, <2>5, <2>6, SaveHeard
  <1>4. CASE UpdateCheckAnswered(i)
    <2>1. page' = page /\ sent' = [sent EXCEPT ![i] = Free]
      BY <1>4 DEF UpdateCheckAnswered, Settles
    <2>2. Quiet(page)
      BY DEF Quiet
    <2>3. QED
      BY <1>1, <2>1, <2>2, SaveReplaced DEF Free, Saves
  <1>5. QED
    BY <1>2, <1>3, <1>4 DEF LicenceBrowser

LEMMA SavedTimeUser ==
    ASSUME DashInv, SaveInv, TimeUser, UNCHANGED <<array, record>> PROVE SaveInv'
  <1> USE TimeShown
  <1>1. UNCHANGED timeVars /\ page.name = "time"
    BY DEF TimeUser, ChooseZone, TypeServer, HandleSave, Shows
  <1>2. DataKept
    BY <1>1 DEF DataKept, timeVars
  <1>3. ASSUME NEW z \in Zones, ChooseZone(z) PROVE SaveInv'
    <2> DEFINE q == [page EXCEPT !.zone = z]
    <2>1. Quiet(q)
      BY <1>1 DEF Quiet, TimePages
    <2> HIDE DEF q
    <2>2. QED
      BY <1>2, <1>3, <2>1, SaveLocal DEF ChooseZone, q
  <1>4. ASSUME NEW server \in Servers, TypeServer(server) PROVE SaveInv'
    <2> DEFINE q == [page EXCEPT !.ntp = server]
    <2>1. Quiet(q)
      BY <1>1 DEF Quiet, TimePages
    <2> HIDE DEF q
    <2>2. QED
      BY <1>2, <1>4, <2>1, SaveLocal DEF TypeServer, q
  <1>5. ASSUME NEW i \in Slots, HandleSave(i) PROVE SaveInv'
    <2> DEFINE asked == [zone |-> page.zone, ntp |-> page.ntp]
               alone == \A j \in Slots : sent[j].kind # "postTime"
               q     == [page EXCEPT !.busy = "save", !.message = "none", !.posted = asked,
                                     !.alone = alone]
               r     == Request("postTime", Token, asked, "save")
    <2>1. Sends(i, q, r) /\ page.busy = ""
      BY <1>5 DEF HandleSave
    <2> HIDE DEF asked
    <2>2. q.name = "time" /\ q.busy = "save" /\ q.message = "none" /\ q.posted = asked
          /\ q.alone = alone
      BY <1>1 DEF TimePages
    <2>3. r.kind = "postTime" /\ r.answer = "none" /\ r.body = asked
      BY DEF Request
    <2> HIDE DEF q, r
    <2>4. Says(q, r.body)
      BY <2>2, <2>3 DEF Says
    <2>5. QED
      BY <1>1, <2>1, <2>2, <2>3, <2>4, SaveKinds, SaveBegins DEF DashInv
  <1>6. QED
    BY <1>3, <1>4, <1>5 DEF TimeUser

LEMMA SavedTimeDaemon ==
    ASSUME DashInv, SaveInv, NEW i \in Slots, TimeDaemon(i), UNCHANGED <<array, record>>
    PROVE  SaveInv'
  <1>1. CASE HandleGetTime(i)
    <2>1. sent[i].kind = "getTime" /\ UNCHANGED page /\ UNCHANGED timeVars
          /\ \E a, d : Answers(i, a, d)
      BY <1>1 DEF HandleGetTime, Authorized, Waiting, Answers
    <2>2. DataKept
      BY <2>1 DEF DataKept, timeVars
    <2>3. page.name \in Savers => ~IsSave(sent[i], page.name)
      BY <2>1, SaveKinds DEF Saves
    <2>4. QED
      BY <2>1, <2>2, <2>3, SaveUnanswered, NoSaver
  <1>2. CASE SaveZone(i) \/ SaveServer(i)
    <2>1. sent[i].kind = "postTime" /\ UNCHANGED page
          /\ \/ Answers(i, "half", "none") /\ zone' = sent[i].body.zone
             \/ /\ Answers(i, "ok", "none") /\ sent[i].answer = "half"
                /\ zone' = zone /\ ntp' = sent[i].body.ntp
             \/ Answers(i, "error", "none")
      BY <1>2 DEF SaveZone, SaveServer, Authorized, Waiting, Answers
    <2>2. CASE page.name = "time"
      <3>1. IsSave(sent[i], page.name)
        BY <2>1, <2>2, SaveKinds
      <3>2. Says(page, sent[i].body) /\ zone' = sent[i].body.zone => HalfStored(page)'
        BY <2>1, <2>2 DEF Says, HalfStored
      <3>3. Says(page, sent[i].body) /\ HalfStored(page) /\ zone' = zone
               /\ ntp' = sent[i].body.ntp => StoredFor(page)'
        BY <2>1, <2>2 DEF Says, HalfStored, StoredFor
      <3>4. QED
        BY <2>1, <3>1, <3>2, <3>3, SaveAnswered DEF DashInv
    <2>3. CASE page.name # "time"
      <3>1. DataKept
        BY <2>3 DEF DataKept
      <3>2. page.name \in Savers => ~IsSave(sent[i], page.name)
        BY <2>1, <2>3, SaveKinds
      <3>3. QED
        BY <2>1, <3>1, <3>2, SaveUnanswered, NoSaver
    <2>4. QED
      BY <2>2, <2>3
  <1>3. QED
    BY <1>1, <1>2 DEF TimeDaemon

LEMMA SavedTimeBrowser ==
    ASSUME DashInv, SaveInv, NEW i \in Slots, TimeBrowser(i), UNCHANGED <<array, record>>
    PROVE  SaveInv'
  <1> USE TimeShown
  <1>1. DataKept
    BY DEF TimeBrowser, GetTimeAnswered, PostTimeAnswered, DataKept, timeVars
  <1>2. CASE GetTimeAnswered(i)
    <2>1. Hears(i, "getTime") /\ "getTime" \in Kinds
      BY <1>2 DEF GetTimeAnswered, Kinds, HomeOf
    <2>2. page.name = "time"
      BY <2>1, HeardAtHome DEF HomeOf
    <2>3. ASSUME NEW z, NEW server PROVE Quiet([page EXCEPT !.zone = z, !.ntp = server])
      BY <2>2 DEF Quiet, TimePages
    <2>4. Quiet(page)
      BY DEF Quiet
    <2>5. \E p : Quiet(p) /\ Settles(i, p)
      BY <1>2, <2>3, <2>4 DEF GetTimeAnswered
    <2>6. PICK p : Quiet(p) /\ page' = p /\ sent' = [sent EXCEPT ![i] = Free]
      BY <2>5 DEF Settles
    <2>7. QED
      BY <1>1, <2>6, SaveReplaced DEF Free, Saves
  <1>3. CASE PostTimeAnswered(i)
    <2> DEFINE q(m) == [page EXCEPT !.message = m, !.busy = ""]
               again == Request("getTime", sent[i].token, "none", "")
    <2>1. Hears(i, "postTime") /\ "postTime" \in Kinds \cap Saves
      BY <1>3 DEF PostTimeAnswered, Kinds, HomeOf, Saves
    <2>2. page.name = "time"
      BY <2>1, HeardAtHome DEF HomeOf
    <2>3. ASSUME NEW m \in {"saved", "failed"}
          PROVE  q(m).name = page.name /\ q(m).alone = page.alone /\ q(m).posted = page.posted
                 /\ q(m).busy = "" /\ q(m).message = m
      BY <2>2 DEF TimePages
    <2>4. \/ page' = q("saved") /\ sent' = [sent EXCEPT ![i] = again] /\ sent[i].answer = "ok"
          \/ page' = q("failed") /\ sent' = [sent EXCEPT ![i] = Free]
      BY <1>3 DEF PostTimeAnswered, AsksAgain, Settles
    <2>5. Free.kind \notin Saves /\ again.kind \notin Saves
      BY DEF Request, Free, Saves
    <2> HIDE DEF q, again
    <2>6. QED
      BY <1>1, <2>1, <2>3, <2>4, <2>5, SaveHeard
  <1>4. QED
    BY <1>2, <1>3 DEF TimeBrowser

--------------------------------------------------------------------------------
\* The pages that save nothing, the shell and the session.
LEMMA SavedElsewhere ==
    ASSUME DashInv, SaveInv,
           DebugUser \/ \E i \in Slots : LoadResources(i) \/ DebugBrowser(i)
    PROVE  SaveInv'
  <1> USE DebugShown
  <1>1. page.name = "debug" /\ page'.name = page.name
    <2>1. CASE DebugUser
      <3>1. page.name = "debug"
        BY <2>1 DEF DebugUser, SelectTest, RunDiag, Shows
      <3>2. ASSUME NEW t PROVE [page EXCEPT !.test = t].name = page.name
        BY <3>1 DEF DebugPages
      <3>3. ASSUME NEW busy, NEW output
            PROVE  [page EXCEPT !.busy = busy, !.output = output].name = page.name
        BY <3>1 DEF DebugPages
      <3>4. ASSUME NEW j \in Slots, NEW box \in Boxes, RunDiag(j, box)
            PROVE  page'.name = page.name
        <4>1. page' = [page EXCEPT !.busy = Label(box),
                                   !.output = [page.output EXCEPT ![box] = ""]]
          BY <3>4 DEF RunDiag, Sends
        <4>2. QED
          BY <3>3, <4>1
      <3>5. ASSUME NEW t \in Tests, SelectTest(t) PROVE page'.name = page.name
        BY <3>2, <3>5 DEF SelectTest, Local
      <3>6. QED
        BY <2>1, <3>1, <3>4, <3>5 DEF DebugUser
    <2>2. ASSUME NEW i \in Slots, LoadResources(i)
          PROVE  page.name = "debug" /\ page'.name = page.name
      BY <2>2 DEF LoadResources, Sends
    <2>3. ASSUME NEW i \in Slots, DiagAnswered(i)
          PROVE  page.name = "debug" /\ page'.name = page.name
      <3> DEFINE result == IF sent[i].answer = "ok" THEN "text" ELSE "failed"
                 output == [page.output EXCEPT ![sent[i].body] = result]
      <3>1. Hears(i, "diag") /\ "diag" \in Kinds
            /\ page' = [page EXCEPT !.busy = "", !.output = output]
        BY <2>3 DEF DiagAnswered, Settles, Kinds, HomeOf
      <3>2. page.name = "debug"
        BY <3>1, HeardAtHome DEF HomeOf
      <3> HIDE DEF output
      <3>3. QED
        BY <3>1, <3>2 DEF DebugPages
    <2>4. ASSUME NEW i \in Slots, ResourcesAnswered(i)
          PROVE  page.name = "debug" /\ page'.name = page.name
      <3>1. Hears(i, "getResources") /\ "getResources" \in Kinds
            /\ (page' = page \/ page' = [page EXCEPT !.resources = TRUE])
        BY <2>4 DEF ResourcesAnswered, Settles, Kinds, HomeOf
      <3>2. page.name = "debug"
        BY <3>1, HeardAtHome DEF HomeOf
      <3>3. QED
        BY <3>1, <3>2 DEF DebugPages
    <2>5. QED
      BY <2>1, <2>2, <2>3, <2>4 DEF DebugBrowser
  <1>2. QED
    BY <1>1, NoSaver DEF Savers

LEMMA SavedStatus ==
    ASSUME DashInv, SaveInv, NEW i \in Slots, StatusBrowser(i) PROVE SaveInv'
  <1> USE StatusShown
  <1>1. page.name = "status"
    <2>1. "getHealth" \in Kinds /\ HomeOf["getHealth"] = {"status"}
      BY DEF Kinds, HomeOf
    <2>2. QED
      BY <2>1, HeardAtHome DEF StatusBrowser, HealthAnswered, StatusLicenceAnswered
  <1>2. ASSUME NEW health PROVE [page EXCEPT !.health = health].name = page.name
    BY <1>1 DEF StatusPages
  <1>3. ASSUME NEW status PROVE [page EXCEPT !.status = status].name = page.name
    BY <1>1 DEF StatusPages
  <1>4. page'.name = page.name
    BY <1>2, <1>3
    DEF StatusBrowser, HealthAnswered, StatusLicenceAnswered, Settles, AsksAgain
  <1>5. QED
    BY <1>1, <1>4, NoSaver DEF Savers

LEMMA SavedOtherDaemon ==
    ASSUME DashInv, SaveInv, NEW i \in Slots, HandleDiag(i) \/ Refuse(i) \/ ConnectionFails(i),
           UNCHANGED pageVars
    PROVE  SaveInv'
  <1>1. DataKept
    BY DEF DataKept, pageVars, timeVars
  <1>2. CASE HandleDiag(i)
    <2>1. sent[i].kind \in {"getResources", "diag"} /\ UNCHANGED page /\ \E a, d : Answers(i, a, d)
      BY <1>2 DEF HandleDiag, Authorized, Waiting, Answers
    <2>2. sent[i].kind \notin Saves /\ sent[i].kind # "free"
      BY <2>1 DEF Saves
    <2>3. page.name \in Savers => ~IsSave(sent[i], page.name)
      BY <2>2, SaveKinds
    <2>4. QED
      BY <1>1, <2>1, <2>2, <2>3, SaveUnanswered, NoSaver
  <1>3. CASE Refuse(i)
    BY <1>1, <1>3, SaveUnanswered DEF Refuse, Guarded
  <1>4. CASE ConnectionFails(i)
    BY <1>1, <1>4, SaveUnanswered DEF ConnectionFails
  <1>5. QED
    BY <1>2, <1>3, <1>4

\* A page that has just been opened has saved nothing, whatever is under way.
LEMMA SavedMounts ==
    ASSUME DashInv, NEW i \in Slots, NEW name \in PageNames, NEW token,
           NEW who \in {"app", "nobody"}, Mounts(i, name, token, who)
    PROVE  SaveInv'
  <1> DEFINE r == Request(FirstKind[name], token, "none", "")
  <1>1. page' = Opened(name) /\ sent' = [HeardBy(who) EXCEPT ![i] = r]
    BY DEF Mounts
  <1>2. r.kind \notin Saves
    BY DEF FirstKind, PageNames, Saves, Request
  <1>3. sent'[i] = r /\ \A j \in Slots \ {i} : sent'[j] = HeardBy(who)[j]
    BY <1>1 DEF HeardBy
  <1> HIDE DEF r
  <1>4. Opened(name).busy = "" /\ Opened(name).message = "none"
    BY DEF Opened, PageNames, StatusOpened, NetworkOpened, LicenceOpened, TimeOpened, DebugOpened
  <1>5. ASSUME NEW j \in Slots PROVE HeardBy(who)[j] = Free \/ HeardBy(who)[j].heard # "page"
    <2>1. \A kind \in Kinds : "login" \notin HomeOf[kind]
      BY DEF Kinds, HomeOf
    <2>2. SlotOK(HeardBy(who)[j], "login")
      BY LeftBehind DEF DashInv
    <2>3. QED
      BY <2>1, <2>2 DEF SlotOK, IsRequest
  <1>6. CASE page'.name \in Savers
    <2>1. ASSUME NEW j \in Slots, IsSave(sent'[j], page'.name) PROVE sent'[j].heard # "page"
      <3>1. sent'[j].kind \in Saves
        BY <1>6, <2>1 DEF IsSave, Savers, SaveKind, Saves
      <3>2. j # i /\ sent'[j] # Free
        BY <1>2, <1>3, <3>1 DEF Free, Saves
      <3>3. QED
        BY <1>3, <1>5, <3>2
    <2>2. QED
      BY <1>1, <1>4, <2>1, SaverOpened
  <1>7. QED
    BY <1>6, NoSaver

LEMMA SavedShell ==
    ASSUME DashInv, SaveInv, NEW i \in Slots, UNCHANGED pageVars,
           \/ SignedIn(i) \/ ReloadTab(i) \/ LoggedOut(i) \/ Unheard(i)
           \/ \E name \in PageNames : SetActiveTab(i, name)
    PROVE  SaveInv'
  <1>1. CASE SignedIn(i) \/ ReloadTab(i) \/ \E name \in PageNames : SetActiveTab(i, name)
    <2>1. ASSUME SignedIn(i) PROVE SaveInv'
      <3>1. Mounts(i, activeTab, login[PageTab].token, "app") /\ activeTab \in PageNames
        BY <2>1 DEF SignedIn, DashInv
      <3>2. QED
        BY <3>1, SavedMounts
    <2>2. ASSUME ReloadTab(i) PROVE SaveInv'
      <3>1. "status" \in PageNames
        BY DEF PageNames
      <3>2. Unmounts("nobody") \/ Mounts(i, "status", stored, "nobody")
        BY <2>2 DEF ReloadTab
      <3>3. Unmounts("nobody") => page'.name \notin Savers
        BY ClosedOK DEF Unmounts, Savers
      <3>4. QED
        BY <3>1, <3>2, <3>3, SavedMounts, NoSaver
    <2>3. ASSUME NEW name \in PageNames, SetActiveTab(i, name) PROVE SaveInv'
      <3>1. Mounts(i, name, Token, "app")
        BY <2>3 DEF SetActiveTab
      <3>2. QED
        BY <3>1, SavedMounts
    <2>4. QED
      BY <1>1, <2>1, <2>2, <2>3
  <1>2. CASE LoggedOut(i)
    <2>1. page'.name \notin Savers
      BY <1>2, ClosedOK DEF LoggedOut, Savers
    <2>2. QED
      BY <2>1, NoSaver
  <1>3. CASE Unheard(i)
    <2> DEFINE asked == [Request(Refetch[sent[i].kind], sent[i].token, "none", "")
                            EXCEPT !.heard = "app"]
    <2>1. /\ page' = page
          /\ \/ sent' = [sent EXCEPT ![i] = Free]
             \/ sent' = [sent EXCEPT ![i] = asked] /\ sent[i].kind \in DOMAIN Refetch
      BY <1>3 DEF Unheard
    <2>2. Free.kind \notin Saves
      BY DEF Free, Saves
    <2>3. ASSUME sent[i].kind \in DOMAIN Refetch PROVE asked.kind \notin Saves
      <3>1. Refetch[sent[i].kind] \in {"getConfig", "getTime"}
        BY <2>3 DEF Refetch
      <3>2. asked.kind = Refetch[sent[i].kind]
        BY DEF Request
      <3>3. QED
        BY <3>1, <3>2 DEF Saves
    <2> HIDE DEF asked
    <2>4. DataKept /\ Quiet(page)
      BY DEF DataKept, Quiet, pageVars, timeVars
    <2>5. QED
      BY <2>1, <2>2, <2>3, <2>4, SaveReplaced
  <1>4. QED
    BY <1>1, <1>2, <1>3

\* Nothing of the pages, or only the licence's status, changes.
LEMMA SavedStill ==
    ASSUME DashInv, SaveInv, UNCHANGED <<page, sent>>, DataKept PROVE SaveInv'
  <1>1. page.name = "network" => page.posted # Unset
    BY NetworkShown, InterfacesAssumption
  <1>2. (StoredFor(page) => StoredFor(page)') /\ (HalfStored(page) => HalfStored(page)')
    BY <1>1 DEF StoredFor, HalfStored, DataKept
  <1>3. QED
    BY <1>2, SaveKept

LEMMA SaveInitOK == DashInit => SaveInv
  BY ClosedOK DEF DashInit, SaveInv, Savers

LEMMA SaveNextOK == DashInv /\ SaveInv /\ [DashNext]_dashVars => SaveInv'
  <1> SUFFICES ASSUME DashInv, SaveInv, [DashNext]_dashVars PROVE SaveInv'
    OBVIOUS
  <1>1. CASE User
    <2>1. CASE NetworkUser /\ UNCHANGED <<record, timeVars>>
      BY <2>1, SavedNetworkUser
    <2>2. CASE LicenceUser /\ UNCHANGED <<array, timeVars>>
      BY <2>2, SavedLicenceUser
    <2>3. CASE TimeUser /\ UNCHANGED <<array, record>>
      BY <2>3, SavedTimeUser
    <2>4. CASE DebugUser /\ UNCHANGED pageVars
      BY <2>4, SavedElsewhere
    <2>5. QED
      BY <1>1, <2>1, <2>2, <2>3, <2>4 DEF User
  <1>2. ASSUME NEW i \in Slots, Daemon(i) PROVE SaveInv'
    <2>1. CASE NetworkDaemon(i) /\ UNCHANGED <<record, timeVars>>
      BY <2>1, SavedNetworkDaemon
    <2>2. CASE (LicenceDaemon(i) \/ HandleHealth(i)) /\ UNCHANGED <<array, timeVars>>
      BY <2>2, SavedLicenceDaemon
    <2>3. CASE TimeDaemon(i) /\ UNCHANGED <<array, record>>
      BY <2>3, SavedTimeDaemon
    <2>4. CASE (HandleDiag(i) \/ Refuse(i) \/ ConnectionFails(i)) /\ UNCHANGED pageVars
      BY <2>4, SavedOtherDaemon
    <2>5. QED
      BY <1>2, <2>1, <2>2, <2>3, <2>4 DEF Daemon
  <1>3. ASSUME NEW i \in Slots, Browser(i) PROVE SaveInv'
    <2>1. CASE NetworkBrowser(i) /\ UNCHANGED <<record, timeVars>>
      BY <2>1, SavedNetworkBrowser
    <2>2. CASE LicenceBrowser(i) /\ UNCHANGED <<array, timeVars>>
      BY <2>2, SavedLicenceBrowser
    <2>3. CASE StatusBrowser(i) /\ UNCHANGED <<array, timeVars>>
      BY <2>3, SavedStatus
    <2>4. CASE TimeBrowser(i) /\ UNCHANGED <<array, record>>
      BY <2>4, SavedTimeBrowser
    <2>5. CASE DebugBrowser(i) /\ UNCHANGED pageVars
      BY <2>5, SavedElsewhere
    <2>6. CASE (LoggedOut(i) \/ Unheard(i)) /\ UNCHANGED pageVars
      BY <2>6, SavedShell
    <2>7. QED
      BY <1>3, <2>1, <2>2, <2>3, <2>4, <2>5, <2>6 DEF Browser
  <1>4. ASSUME NEW i \in Slots,
               SignedIn(i) \/ ReloadTab(i) \/ \E name \in PageNames : SetActiveTab(i, name)
        PROVE  SaveInv'
    BY <1>4, SavedShell DEF SignedIn, ReloadTab, SetActiveTab
  <1>5. ASSUME NEW i \in Slots, LoadResources(i), UNCHANGED pageVars PROVE SaveInv'
    BY <1>5, SavedElsewhere
  <1>6. SignOut => SaveInv'
    <2>1. SignOut => page'.name \notin Savers
      BY ClosedOK DEF SignOut, Unmounts, Savers
    <2>2. QED
      BY <2>1, NoSaver
  <1>7. CASE LoginForm \/ LoginElsewhere \/ Restart \/ UNCHANGED dashVars
    <2>1. UNCHANGED <<page, sent>> /\ UNCHANGED pageVars
      BY <1>7 DEF LoginForm, LoginElsewhere, Restart, dashVars, shellVars
    <2>2. DataKept
      BY <2>1 DEF DataKept, pageVars, timeVars
    <2>3. QED
      BY <2>1, <2>2, SavedStill
  <1>8. ASSUME Withdraw, UNCHANGED <<array, timeVars>> PROVE SaveInv'
    <2>1. UNCHANGED <<page, sent>> /\ record' = [record EXCEPT !.status = "INACTIVE"]
      BY <1>8 DEF Withdraw, shellVars
    <2>2. record'.key = record.key /\ record'.url = record.url
      BY <2>1 DEF DashInv, DataOK, Records
    <2>3. DataKept
      BY <1>8, <2>2 DEF DataKept, timeVars
    <2>4. QED
      BY <2>1, <2>3, SavedStill
  <1>9. QED
    BY <1>1, <1>2, <1>3, <1>4, <1>5, <1>6, <1>7, <1>8 DEF DashNext, GoesOn

\* A success message stands for what the page's last request said: whatever page
\* was left while saving, whatever is lost, refused or answered late, the daemon
\* holds it, unless an older save was still under way.
THEOREM SavedIsStored == DashSpec => []SuccessIsStored
  <1>1. DashInv /\ SaveInv => SuccessIsStored
    <2> SUFFICES ASSUME DashInv, SaveInv, "alone" \in DOMAIN page, page.message = "saved",
                        page.alone
                 PROVE  SuccessIsStored
      BY DEF SuccessIsStored
    <2>1. page.name \in Savers
      <3>1. "alone" \notin DOMAIN Closed
        BY DEF Closed
      <3>2. page \notin DebugPages
        BY DEF DebugPages
      <3>3. page \notin StatusPages
        BY DEF StatusPages
      <3>4. page \in NetworkPages \/ page \in LicencePages \/ page \in TimePages
        BY <3>1, <3>2, <3>3 DEF DashInv, PageGood, Pages
      <3>5. QED
        BY <3>4 DEF NetworkPages, LicencePages, TimePages, Savers
    <2>2. StoredFor(page)
      BY <2>1 DEF SaveInv
    <2>3. CASE page.name = "network"
      BY <2>2, <2>3 DEF SuccessIsStored, StoredFor
    <2>4. CASE page.name = "licence"
      BY <2>2, <2>4 DEF SuccessIsStored, StoredFor
    <2>5. CASE page.name = "time"
      <3>1. page.posted \in Times
        BY <2>5, TimeShown DEF TimePages
      <3>2. [zone |-> zone, ntp |-> ntp] = page.posted
        BY <2>2, <2>5, <3>1 DEF StoredFor, Times
      <3>3. QED
        BY <2>5, <3>2 DEF SuccessIsStored
    <2>6. QED
      BY <2>1, <2>3, <2>4, <2>5 DEF Savers
  <1>2. DashInit => DashInv /\ SaveInv
    BY DashInitOK, SaveInitOK
  <1>3. DashInv /\ SaveInv /\ [DashNext]_dashVars => (DashInv /\ SaveInv)'
    BY DashNextOK, SaveNextOK
  <1>4. QED
    BY <1>1, <1>2, <1>3, PTL DEF DashSpec
================================================================================
