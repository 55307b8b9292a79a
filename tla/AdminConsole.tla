------------------------------ MODULE AdminConsole ------------------------------
(***************************************************************************)
(* The admin console (src/admin): a tab of the browser that shows a list   *)
(* of rows the server keeps - prizes, settings, providers, claims - lets   *)
(* an operator change them, and speaks to the server with a token that     *)
(* expires every quarter of an hour and a refresh token that is good for   *)
(* one exchange.  Requests overlap and are answered in any order; other    *)
(* operators and the program change the same rows.  A row that is absent,  *)
(* off or new is one of its values, so creating, toggling and deleting are *)
(* changes of a row; what a form refuses to send is never written.         *)
(***************************************************************************)
EXTENDS Integers, Sequences, FiniteSets, TLC

CONSTANTS
    None,
    Row,             \* rows of a list
    Value,           \* what a row may hold
    Call,            \* requests a tab has under way at once
    \* bounds
    MaxPairs,        \* pairs of tokens the server issues
    Wide,            \* screens that use all rows; the others use one
    Lasting          \* screens on which the tokens last and nobody signs out

ASSUME ConsoleAssumption ==
    /\ None \notin Row \cup Value \cup Call /\ Row # {} /\ Value # {}
    /\ IsFiniteSet(Row) /\ IsFiniteSet(Value) /\ MaxPairs \in Nat \ {0}

View == 1 .. 2       \* filters, pages and details a list is read by

VARIABLES
    screen,          \* how the screen that is open behaves
    at,              \* the tab shows that screen, or the login page
    store,           \* the rows on the server
    shown,           \* the list on screen, and the view it was read for
    view,            \* the view that is selected
    draft,           \* what the operator typed, row by row
    saving,          \* the row whose Save button spins, where one flag serves all of them
    call,            \* requests under way
    served,          \* those that were served and not yet answered, in that order
    excused,         \* the list on screen need not be the server's
    tab,             \* tokens of the tab: access and refresh, by the pair they came in
    asking,          \* exchanges of a refresh token under way
    issued,          \* pairs issued
    expired,         \* pairs whose access token expired
    live,            \* pairs whose refresh token is good
    revoked          \* those revoked by a sign-out

list    == <<store, shown, view, draft, saving, served, excused>>
session == <<tab, asking, issued, expired, live, revoked>>
vars    == <<screen, at, call, list, session>>

------------------------------------------------------------------------------
(* The screens.                                                            *)

\* A list that is only read.  again: it is read anew on demand or by a timer.
Reader == [views |-> {1}, again |-> "free", raw |-> FALSE,
           open |-> "none", covers |-> FALSE, held |-> FALSE, whole |-> FALSE, pretends |-> FALSE,
           guard |-> [edit |-> "off", touch |-> "off"],
           after |-> [edit |-> "reload", touch |-> "reload"],
           rereads |-> "pressed", awaits |-> TRUE, wipes |-> "none", closes |-> "every"]

\* One row at a time is copied into a dialog over the list; saving closes it and reads the list.
Dialog == [Reader EXCEPT !.open = "one", !.covers = TRUE, !.guard.edit = "all"]

\* Every row is a field with a Save button; saving patches the row on screen.
Fields == [Reader EXCEPT !.open = "all", !.guard.edit = "key", !.after.edit = "patch",
                         !.again = "never", !.closes = "mine"]

\* A failed request is logged, and the value shown as saved all the same.
ConfigPage ==
    [Dialog EXCEPT !.after.edit = "patch", !.again = "never", !.pretends = TRUE]

\* Fields follow the rows they were read from.
PointsConfig == [Fields EXCEPT !.wipes = "all"]
FraudConfig == [Fields EXCEPT !.wipes = "all"]

\* A change of one field resets the others.
Passport == [Fields EXCEPT !.wipes = "all", !.closes = "every"]

\* (Its retry after a load that failed is left out.)
RechargeConfig == [Fields EXCEPT !.after.edit = "answer", !.wipes = "changed"]

FulfillmentConfig == [Fields EXCEPT !.after.edit = "reload", !.wipes = "all", !.closes = "none"]

\* A flag and a draft of its own for every row.
PlatformSettings == [Fields EXCEPT !.guard.edit = "each"]

\* The rows themselves are typed into, published together, and lost with every reload, such as
\* the one that follows a change of a tier.  (The cap of spins, a field beside them, is left out.)
SpinConfig ==
    [Fields EXCEPT !.guard = [edit |-> "all", touch |-> "none"], !.after.edit = "reload",
                   !.whole = TRUE, !.wipes = "all", !.closes = "none", !.again = "free"]

Prizes == [Dialog EXCEPT !.guard.touch = "none"]

Draws == [Dialog EXCEPT !.guard.touch = "key", !.again = "never"]

\* The dialog cannot be left while it is sent.
SpinClaims == [Dialog EXCEPT !.views = View, !.held = TRUE]

\* The prize of the war is a field over the list, reset by every reload.
RegionalWars ==
    [Dialog EXCEPT !.views = View, !.covers = FALSE, !.wipes = "all", !.guard.touch = "all"]

\* A row is edited in place; another one may be opened instead.
StudioTools ==
    [Dialog EXCEPT !.covers = FALSE, !.guard.touch = "all", !.again = "alone"]

AIProviders == [Dialog EXCEPT !.guard.touch = "none", !.awaits = FALSE, !.again = "alone"]

\* The route of the tool the change was made for is read again, whichever is selected by then.
AIRouting ==
    [Fields EXCEPT !.views = View, !.guard = [edit |-> "none", touch |-> "none"], !.closes = "none",
                   !.after.edit = "reload", !.wipes = "all", !.again = "free"]

Users == [Dialog EXCEPT !.views = View, !.guard.touch = "none", !.after.touch = "patch"]

Fraud == [Reader EXCEPT !.guard.touch = "key", !.after.touch = "patch"]

Team == [Dialog EXCEPT !.guard.touch = "none", !.after.touch = "patch", !.awaits = FALSE,
                       !.covers = FALSE, !.again = "never"]

Notifications == [Dialog EXCEPT !.covers = FALSE, !.awaits = FALSE]

BonusPulse == [Dialog EXCEPT !.views = View, !.covers = FALSE, !.awaits = FALSE,
                             !.rereads = "selected", !.again = "never"]

\* The first page is read again, whichever is selected.
MTNPushUpload == [BonusPulse EXCEPT !.rereads = "first"]
MTNPushUploadDetail == [Reader EXCEPT !.views = View, !.again = "never"]

\* Speaks to the server past the shared client: an expired token is an error, and an error
\* empties the list.
Networks == [Reader EXCEPT !.raw = TRUE, !.again = "never", !.guard.touch = "key"]

Recharges == [Reader EXCEPT !.views = View]
Disputes == [Reader EXCEPT !.views = View, !.again = "alone"]
Generations == [Reader EXCEPT !.views = View, !.again = "alone"]
Dashboard == Reader
Health == Reader
AIHealth == Reader

\* The routes of AdminShell.
Screens ==
    {ConfigPage, PointsConfig, FraudConfig, Passport, RechargeConfig, FulfillmentConfig,
     PlatformSettings, SpinConfig, Prizes, Draws, SpinClaims, RegionalWars, StudioTools,
     AIProviders, AIRouting, Users, Fraud, Team, Notifications, BonusPulse, MTNPushUpload,
     MTNPushUploadDetail, Networks, Recharges, Disputes, Generations, Dashboard, Health,
     AIHealth}

------------------------------------------------------------------------------
(* Requests.                                                               *)

Rows == [Row -> Value]

Used == IF screen \in Wide THEN Row ELSE {CHOOSE r \in Row : TRUE}

Nothing == [r \in Row |-> None]

\* A change of one row, and what a change leaves of the rows.
Only(r, v) == [s \in {r} |-> v]

Over(write, rows) == [r \in Row |-> IF r \in DOMAIN write THEN write[r] ELSE rows[r]]

\* A request: op is what it does now, of the button its end sets free.
Request(op, of, write, v) ==
    [op |-> op, of |-> of, write |-> write, view |-> v, pair |-> tab.access, state |-> "out",
     again |-> FALSE, ok |-> TRUE, rows |-> Nothing, crossed |-> FALSE,
     body |-> IF op = "logout" THEN tab.refresh ELSE 0]

Loading == \E c \in Call : call[c] # None /\ call[c].op = "load"

Busy(c, button) == call[c] # None /\ call[c].of = button

\* The button of this row is disabled.
Blocked(button, r) ==
    CASE screen.guard[button] = "all"  -> \E c \in Call : Busy(c, button)
      [] screen.guard[button] = "each" -> \E c \in Call : Busy(c, button) /\ r \in DOMAIN call[c].write
      [] screen.guard[button] = "key"  -> saving = r
      [] OTHER -> FALSE

Free == {c \in Call : call[c] = None}

\* A request goes out on a free place (any: they are alike).
Send(request) == \E c \in Free : call' = [call EXCEPT ![c] = request]

Load(v) == Request("load", "load", <<>>, v)

\* What the tab forgets when the page is left: the browser drops what is under way.
Unmounted ==
    /\ shown' = None /\ draft' = Nothing /\ saving' = None /\ served' = <<>>
    /\ excused' = FALSE /\ view' = 1 /\ call' = [c \in Call |-> None] /\ at' = "login"

\* The list is read when the screen opens.
Mounted(access) ==
    /\ at' = "screen"
    /\ \E c \in Call : call' = [call EXCEPT ![c] = [Load(1) EXCEPT !.pair = access]]

\* The request reaches the server: refused without a good access token, else handled.  A change
\* may be refused for what it asks.
Serve(c) ==
    /\ call[c] # None /\ call[c].state = "out"
    /\ IF call[c].pair <= expired
       THEN call' = [call EXCEPT ![c].state = "denied"] /\ UNCHANGED <<store, served, live, revoked>>
       ELSE \E ok \in IF call[c].op = "save" THEN BOOLEAN ELSE {TRUE} :
               LET rows == IF ok THEN Over(call[c].write, store) ELSE store
                   out  == IF call[c].op = "logout" THEN {call[c].body} \cap live ELSE {}
               IN  /\ store' = rows
                   /\ call' = [call EXCEPT ![c].state = "back", ![c].ok = ok, ![c].rows = rows]
                   /\ served' = Append(served, c)
                   /\ live' = live \ out /\ revoked' = revoked \cup out
    /\ UNCHANGED <<screen, at, shown, view, draft, saving, excused, tab, asking, issued, expired>>

------------------------------------------------------------------------------
(* Answers.                                                                *)

\* Requests served before this one, whose answers are still to come, are crossed by its answer.
Position(c) == CHOOSE i \in DOMAIN served : served[i] = c

Overtaken(c) == IF call[c].state = "back" THEN {served[i] : i \in 1 .. Position(c) - 1} ELSE {}

Mark(calls, set) ==
    [d \in Call |-> IF d \in set /\ calls[d] # None THEN [calls[d] EXCEPT !.crossed = TRUE]
                    ELSE calls[d]]

Without(c) ==
    IF call[c].state = "back"
    THEN SubSeq(served, 1, Position(c) - 1) \o SubSeq(served, Position(c) + 1, Len(served))
    ELSE served

\* Fields whose row changed follow it, or all of them.
Wiped(rows) ==
    [r \in Row |-> IF \/ screen.wipes = "all"
                      \/ screen.wipes = "changed" /\ (shown = None \/ shown.rows[r] # rows[r])
                   THEN None ELSE draft[r]]

\* Drafts a successful save closes.
Closed(c) ==
    [r \in Row |-> IF \/ screen.closes = "every"
                      \/ screen.closes = "mine" /\ r \in DOMAIN call[c].write
                   THEN None ELSE draft[r]]

Ends(c) == call' = Mark([call EXCEPT ![c] = None], Overtaken(c)) /\ served' = Without(c)

LoadAnswered(c) ==
    /\ call[c] # None /\ call[c].state = "back" /\ call[c].op = "load"
    /\ shown' = [view |-> call[c].view, rows |-> call[c].rows]
    /\ draft' = Wiped(call[c].rows)
    /\ saving' = IF call[c].of \in {"edit", "touch"} THEN None ELSE saving
    /\ excused' = (call[c].crossed \/ call[c].view # view)
    /\ Ends(c)
    /\ UNCHANGED <<screen, at, store, view, session>>

\* What is shown after a change: the value that was sent, or the rows of the answer.
Patched(c, how) ==
    IF shown = None THEN None
    ELSE [shown EXCEPT !.rows = IF how = "answer" THEN call[c].rows ELSE Over(call[c].write, @)]

\* The list is read again, on behalf of the button.
Rereads(c) ==
    [Load(CASE screen.rereads = "pressed"  -> call[c].view
            [] screen.rereads = "selected" -> view
            [] OTHER -> 1)
     EXCEPT !.of = IF screen.awaits THEN call[c].of ELSE "load"]

\* The list is left as it was.
SaveAnsweredMutant(c) ==
    /\ call[c] # None /\ call[c].state = "back" /\ call[c].op = "save" /\ call[c].ok
    /\ Ends(c)
    /\ draft' = IF call[c].of = "edit" THEN Closed(c) ELSE draft
    /\ saving' = None
    /\ UNCHANGED <<screen, at, store, view, shown, excused, session>>

SaveAnswered(c) ==
    /\ call[c] # None /\ call[c].state = "back" /\ call[c].op = "save" /\ call[c].ok
    /\ LET how == screen.after[call[c].of] IN
          IF how = "reload"
          THEN /\ call' = Mark([call EXCEPT ![c] = Rereads(c)], Overtaken(c))
               /\ served' = Without(c)
               /\ draft' = IF call[c].of = "edit" THEN Closed(c) ELSE draft
               /\ saving' = IF screen.awaits THEN saving ELSE None
               /\ UNCHANGED <<shown, excused>>
          ELSE /\ Ends(c)
               /\ shown' = Patched(c, how)
               /\ draft' = IF call[c].of # "edit" THEN draft
                           ELSE IF how = "answer" THEN Wiped(call[c].rows) ELSE Closed(c)
               /\ saving' = None
               /\ excused' = (excused \/ call[c].crossed)
    /\ UNCHANGED <<screen, at, store, view, session>>

\* A request that failed, on the way, at the server or on the way back, is reported and
\* changes nothing on screen, except where the screen pretends, or empties the list.
Fails(c) ==
    /\ shown' = IF call[c].op = "save" /\ screen.pretends THEN Patched(c, "patch")
                ELSE IF call[c].op = "load" /\ screen.raw THEN None ELSE shown
    /\ draft' = IF call[c].op = "save" /\ screen.pretends THEN Closed(c) ELSE draft
    /\ saving' = IF call[c].of \in {"edit", "touch"} THEN None ELSE saving
    /\ UNCHANGED <<screen, at, store, view, session>>

SaveRefused(c) ==
    /\ call[c] # None /\ call[c].state = "back" /\ call[c].op = "save" /\ ~call[c].ok
    /\ Fails(c) /\ Ends(c)
    /\ excused' = (excused \/ screen.pretends)

Lost(c) ==
    /\ call[c] # None /\ call[c].op # "logout" /\ call[c].state \in {"out", "back"}
    /\ Fails(c) /\ Ends(c)
    /\ excused' = TRUE

------------------------------------------------------------------------------
(* The session: AdminAPI.                                                  *)

SessionOf(t, a) == tab' = t /\ asking' = a /\ UNCHANGED <<issued, expired, live, revoked>>

NoTokens == [access |-> 0, refresh |-> 0]

\* clearToken, and a page load of /login.
ThrownOut == Unmounted /\ SessionOf(NoTokens, {}) /\ UNCHANGED <<screen, store>>

\* One exchange serves all that wait for it.
Exchange(by) == asking \cup {[by |-> by, pair |-> tab.refresh, state |-> "out", new |-> 0]}

\* Every request that was refused begins an exchange of its own.
SilentRefreshMutant(c) ==
    /\ call[c] # None /\ call[c].state = "denied" /\ ~screen.raw /\ ~call[c].again
    /\ tab.refresh # 0
    /\ call' = [call EXCEPT ![c].state = "waiting"]
    /\ SessionOf(tab, Exchange(c))
    /\ UNCHANGED <<screen, at, list>>

\* The first that was refused begins an exchange, the others queue up behind it.
SilentRefresh(c) ==
    /\ call[c] # None /\ call[c].state = "denied" /\ ~screen.raw /\ ~call[c].again
    /\ tab.refresh # 0
    /\ call' = [call EXCEPT ![c].state = "waiting"]
    /\ SessionOf(tab, IF asking = {} THEN Exchange(c) ELSE asking)
    /\ UNCHANGED <<screen, at, list>>

\* Two minutes before the access token expires.
ProactiveRefresh ==
    /\ screen \notin Lasting /\ tab.refresh # 0 /\ asking = {}
    /\ SessionOf(tab, Exchange("timer"))
    /\ UNCHANGED <<screen, at, call, list>>

\* Refused again, or with nothing to exchange: the login page.
Unauthorized(c) ==
    /\ call[c] # None /\ call[c].state = "denied" /\ ~screen.raw
    /\ call[c].again \/ tab.refresh = 0
    /\ ThrownOut

RawDenied(c) ==
    /\ call[c] # None /\ call[c].state = "denied" /\ screen.raw /\ call[c].op # "logout"
    /\ Fails(c) /\ Ends(c)
    /\ excused' = TRUE

\* AdminAuthService.Refresh: a refresh token is good for one exchange.
RefreshServed(q) ==
    /\ q \in asking /\ q.state = "out"
    /\ IF q.pair \in live
       THEN /\ issued < MaxPairs /\ issued' = issued + 1
            /\ live' = (live \ {q.pair}) \cup {issued + 1}
            /\ asking' = (asking \ {q}) \cup {[q EXCEPT !.state = "ok", !.new = issued + 1]}
       ELSE /\ asking' = (asking \ {q}) \cup {[q EXCEPT !.state = "refused"]}
            /\ UNCHANGED <<issued, live>>
    /\ UNCHANGED <<screen, at, call, list, tab, expired, revoked>>

\* The tokens are stored, and all that wait are sent again with the new one.
RefreshAnswered(q) ==
    /\ q \in asking /\ q.state = "ok"
    /\ SessionOf([access |-> q.new, refresh |-> q.new], asking \ {q})
    /\ call' = [c \in Call |->
           IF call[c] # None /\ call[c].state = "waiting"
           THEN [call[c] EXCEPT !.state = "out", !.again = TRUE, !.pair = q.new] ELSE call[c]]
    /\ UNCHANGED <<screen, at, list>>

\* Whatever the reason: the login page.
RefreshFails(q) == q \in asking /\ ThrownOut

\* Access tokens expire in the order they were issued.
Expires ==
    /\ screen \notin Lasting /\ expired < issued /\ expired' = expired + 1
    /\ UNCHANGED <<screen, at, call, list, tab, asking, issued, live, revoked>>

Login ==
    /\ at = "login" /\ issued < MaxPairs
    /\ issued' = issued + 1 /\ live' = live \cup {issued + 1}
    /\ tab' = [access |-> issued + 1, refresh |-> issued + 1]
    /\ Mounted(issued + 1)
    /\ UNCHANGED <<screen, list, asking, expired, revoked>>

\* AdminShell lets in whoever has a token, even one that arrived after the sign-out.
Returns ==
    /\ at = "login" /\ tab.access # 0
    /\ Mounted(tab.access)
    /\ UNCHANGED <<screen, list, session>>

SignOut ==
    /\ screen \notin Lasting
    /\ at = "screen" /\ \A c \in Call : call[c] # None => call[c].op # "logout"
    /\ Send(Request("logout", "logout", <<>>, view))
    /\ UNCHANGED <<screen, at, list, session>>

\* Whatever came of it, the tokens are cleared; an exchange under way goes on.
SignedOut(c) ==
    /\ call[c] # None /\ call[c].op = "logout"
    /\ call[c].state \in {"out", "back"} \/ (call[c].state = "denied" /\ screen.raw)
    /\ Unmounted /\ SessionOf(NoTokens, asking)
    /\ UNCHANGED <<screen, store>>

------------------------------------------------------------------------------
(* The operator.                                                           *)

Editing == \E r \in Row : draft[r] # None

Reachable == at = "screen" /\ ~(screen.covers /\ Editing)

\* Another filter, page or detail: the list is read for it.
Select(v) ==
    /\ Reachable /\ v \in screen.views \ {view}
    /\ view' = v /\ Send(Load(v))
    /\ UNCHANGED <<screen, at, store, shown, draft, saving, served, excused, session>>

Reload ==
    /\ Reachable
    /\ screen.again = "free" \/ (screen.again = "alone" /\ ~Loading)
    /\ Send(Load(view))
    /\ UNCHANGED <<screen, at, list, session>>

\* A row is opened and typed into.
Type(r, v) ==
    /\ at = "screen" /\ shown # None /\ screen.open # "none" /\ v # draft[r]
    /\ screen.covers /\ Editing => draft[r] # None
    /\ draft' = [IF screen.open = "one" THEN Nothing ELSE draft EXCEPT ![r] = v]
    /\ UNCHANGED <<screen, at, call, store, shown, view, saving, served, excused, session>>

Cancel(r) ==
    /\ at = "screen" /\ screen.open = "one" /\ draft[r] # None
    /\ screen.held => ~Blocked("edit", r)
    /\ draft' = Nothing
    /\ UNCHANGED <<screen, at, call, store, shown, view, saving, served, excused, session>>

\* What is sent of the drafts: the one of the row, or the whole list as it stands.
Written(r) ==
    IF screen.whole THEN [s \in Row |-> IF draft[s] = None THEN shown.rows[s] ELSE draft[s]]
    ELSE Only(r, draft[r])

Save(r) ==
    /\ at = "screen" /\ draft[r] # None /\ screen.guard.edit # "off" /\ ~Blocked("edit", r)
    /\ Send(Request("save", "edit", Written(r), view))
    /\ saving' = IF screen.guard.edit = "key" THEN r ELSE saving
    /\ UNCHANGED <<screen, at, store, shown, view, draft, served, excused, session>>

\* A button on the row changes it at once: toggles, disables, resolves, deletes.
Touch(r, v) ==
    /\ Reachable /\ shown # None /\ screen.guard.touch # "off" /\ ~Blocked("touch", r)
    /\ v # shown.rows[r]
    /\ Send(Request("save", "touch", Only(r, v), view))
    /\ saving' = IF screen.guard.touch = "key" THEN r ELSE saving
    /\ UNCHANGED <<screen, at, store, shown, view, draft, served, excused, session>>

\* Another operator, or the program.  What was served before does not know it.
OthersWrite(r, v) ==
    /\ store[r] # v /\ store' = [store EXCEPT ![r] = v]
    /\ call' = Mark(call, {served[i] : i \in DOMAIN served})
    /\ excused' = TRUE
    /\ UNCHANGED <<screen, at, shown, view, draft, saving, served, session>>

------------------------------------------------------------------------------

Init ==
    /\ screen \in Screens /\ at = "login"
    /\ store \in {f \in Rows : \A r \in Row \ Used : f[r] = CHOOSE v \in Value : TRUE}
    /\ shown = None /\ view = 1 /\ draft = Nothing /\ saving = None
    /\ call = [c \in Call |-> None] /\ served = <<>> /\ excused = FALSE
    /\ tab = NoTokens /\ asking = {} /\ issued = 0 /\ expired = 0 /\ live = {} /\ revoked = {}

Next ==
    \/ \E c \in Call :
          \/ Serve(c) \/ LoadAnswered(c) \/ SaveAnswered(c) \/ SaveRefused(c) \/ Lost(c)
          \/ SilentRefresh(c) \/ Unauthorized(c) \/ RawDenied(c) \/ SignedOut(c)
    \/ \E q \in asking : RefreshServed(q) \/ RefreshAnswered(q) \/ RefreshFails(q)
    \/ ProactiveRefresh \/ Expires \/ Login \/ Returns \/ SignOut \/ Reload
    \/ \E v \in View : Select(v)
    \/ \E r \in Used : Cancel(r) \/ Save(r)
    \/ \E r \in Used, v \in Value : Type(r, v) \/ Touch(r, v) \/ OthersWrite(r, v)

Spec == Init /\ [][Next]_vars

------------------------------------------------------------------------------
(* Properties.                                                             *)

\* At rest, the list on screen is the one the server keeps, for the view that is selected: what
\* the console shows after a change is what was stored, whether it patched the row, took it from
\* the answer or read the list again.  Excused are lists whose answers came in another order
\* than they were served, that a request failed to renew, that others changed since, or that
\* were read again for another view; and a screen that pretends.
ShownIsStored ==
    (at = "screen" /\ shown # None /\ ~excused /\ \A c \in Call : call[c] = None)
        => shown = [view |-> view, rows |-> store]

\* A refresh token is good for one exchange, and presenting it again ends the session: the tab
\* presents a token it already exchanged in no interleaving of requests, timer and sign-out.
RefreshedOnce == \A q \in asking : q.state = "out" => q.pair \in live \cup revoked

------------------------------------------------------------------------------
(* The inductive invariant of the session.                                 *)

SessionTypeOK ==
    /\ tab \in [access : Nat, refresh : Nat]
    /\ asking \subseteq [by : Call \cup {"timer"}, pair : Nat,
                         state : {"out", "ok", "refused"}, new : Nat]
    /\ issued \in Nat /\ live \subseteq Nat /\ revoked \subseteq Nat

\* isRefreshing
OneExchange == \A p, q \in asking : p = q

\* The token the tab holds is unspent, or the one an exchange has just spent.
TokenIsGood ==
    \/ tab.refresh = 0 \/ tab.refresh \in live \cup revoked
    \/ \E q \in asking : q.state # "out" /\ q.pair = tab.refresh

\* The token an exchange brings is unspent.
NewIsGood == \A q \in asking : q.state = "ok" => q.new \in live \cup revoked

SessionInv == SessionTypeOK /\ OneExchange /\ TokenIsGood /\ NewIsGood /\ RefreshedOnce

------------------------------------------------------------------------------
(* The inductive invariant of the list.                                    *)

RequestType ==
    [op : {"load", "save", "logout"}, of : {"load", "edit", "touch", "logout"},
     write : UNION {[set -> Value] : set \in SUBSET Row}, view : View, pair : Nat,
     state : {"out", "denied", "waiting", "back"}, again : BOOLEAN, ok : BOOLEAN,
     rows : [Row -> Value \cup {None}], crossed : BOOLEAN, body : Nat]

\* No request is the mark of a free place, no list that of a list not read.
ASSUME NoneAssumption == None \notin RequestType \cup [view : View, rows : Rows]

TypeOK ==
    /\ screen \in Screens /\ at \in {"login", "screen"}
    /\ store \in Rows /\ shown \in [view : View, rows : Rows] \cup {None} /\ view \in View
    /\ draft \in [Row -> Value \cup {None}] /\ saving \in Row \cup {None} /\ excused \in BOOLEAN
    /\ call \in [Call -> RequestType \cup {None}] /\ served \in Seq(Call)
    /\ \A c \in Call : call[c] # None =>
          /\ (call[c].state = "back" => call[c].rows \in Rows)
          /\ (call[c].op # "save" => call[c].write = <<>>)
    /\ SessionTypeOK /\ expired \in Nat

\* What is sent of a whole list is of a list that is shown.
DraftInv == screen.whole /\ Editing => shown # None

\* The request served i-th of those not answered yet.
Answer(i) == call[served[i]]

\* They are those with an answer on its way, each once; the crossed ones come first.
ServedInv ==
    /\ at = "login" => \A c \in Call : call[c] = None
    /\ \A i, j \in DOMAIN served : served[i] = served[j] => i = j
    /\ \A c \in Call : (\E i \in DOMAIN served : served[i] = c) <=> (call[c] # None /\ call[c].state = "back")
    /\ \A c \in Call : call[c] # None /\ call[c].crossed => call[c].state = "back"
    /\ \A i, j \in DOMAIN served : i < j /\ Answer(j).crossed => Answer(i).crossed

\* A change that was made.
Wrote(q) == q.op = "save" /\ q.ok

\* What a request leaves of the rows it finds.
Left(q, rows) == IF Wrote(q) THEN Over(q.write, rows) ELSE rows

\* Nothing but the changes served after it tells the rows of an answer not crossed from those of a
\* later one, and of the server.
ChainInv ==
    \A i \in DOMAIN served : ~Answer(i).crossed =>
        /\ (\A k \in DOMAIN served : k > i => ~Wrote(Answer(k))) => store = Answer(i).rows
        /\ \A j \in DOMAIN served :
              i < j /\ (\A k \in DOMAIN served : i < k /\ k < j => ~Wrote(Answer(k)))
              => Answer(j).rows = Left(Answer(j), Answer(i).rows)

\* A list that is read, or will be once the answer is there, and a change whose answer comes too late
\* to be shown without excuse.
Mends(q) == q.op = "load" \/ (q.state = "back" /\ Wrote(q) /\ (screen.after[q.of] = "reload" \/ q.crossed))

\* The list on screen is the server's but for the changes that were made and not yet answered.
ListInv ==
    shown # None /\ ~excused /\ (\A c \in Call : call[c] # None => ~Mends(call[c])) =>
        /\ shown.view = view
        /\ (\A k \in DOMAIN served : ~Wrote(Answer(k))) => store = shown.rows
        /\ \A j \in DOMAIN served :
              ~Answer(j).crossed /\ (\A k \in DOMAIN served : k < j => ~Wrote(Answer(k)))
              => Answer(j).rows = Left(Answer(j), shown.rows)

ConsoleInv == TypeOK /\ DraftInv /\ ServedInv /\ ChainInv /\ ListInv
=============================================================================
