------------------------------- MODULE WebClient -------------------------------
(***************************************************************************)
(* The web client of the winners (src/frontend), except the studio: a tab  *)
(* that is signed in or not, the pages that show an account's data, the    *)
(* wheel and the recharge form.  The token is kept twice, by the client of *)
(* the API and by the store of the pages, and a refused request clears one *)
(* and tells the other.  Requests overlap, fail, and are answered in any   *)
(* order, also after their page was left or their account signed out.      *)
(***************************************************************************)
EXTENDS Integers, Sequences, FiniteSets, Functions, TLC

CONSTANTS
    None,
    User,
    Value,           \* what the server keeps of a user: wallet, prizes, notices
    Network,
    Turn,            \* units of a full turn of the wheel: 360 degrees, 100 per cent
    Prize,
    Wheels,          \* wheels the operators publish: sequences of [prize, size]
    Call,            \* requests a tab has under way at once
    \* bounds
    MaxTokens,       \* sign-ins while a page shows data, one otherwise
    MaxPolls         \* questions after a payment

ASSUME WebAssumption ==
    /\ None \notin User \cup Value \cup Network \cup Call
    /\ Turn \in Nat \ {0} /\ MaxTokens \in Nat /\ MaxPolls \in Nat \ {0}
    /\ Wheels \in Seq(Seq([prize : Prize, size : Nat])) /\ Wheels # <<>>

VARIABLES
    page,            \* how the page behaves that the tab opens, again and again
    at,              \* it is open ("page"), or another one, of the shell or outside it ("home")
    owner,           \* the user each token was issued to
    dead,            \* tokens that expired
    held,            \* the token of the store: who is signed in, 0 for nobody
    token,           \* the token the API client sends, 0 for none
    stored,          \* what the server keeps
    shown,           \* what the page, or the cache it reads, has of it
    excused,         \* that need not be what the server keeps
    call,            \* requests under way
    wheel,           \* the wheel on the server and on screen
    form,            \* the recharge form
    receipt          \* the recharge that was paid, on the server and on screen

session == <<owner, dead, held, token>>
data    == <<stored, shown, excused>>
order   == <<form, receipt>>
vars    == <<page, at, session, data, call, wheel, order>>

------------------------------------------------------------------------------
(* The pages.                                                              *)

\* Data an SWR hook reads: cached for all pages, read again when the page opens, by a timer and
\* on focus; of several readings the last one counts.
Cached == [kind |-> "data", gated |-> TRUE, cache |-> TRUE, opens |-> TRUE, again |-> "page",
           acts |-> {}, empties |-> FALSE]

\* A prize is claimed in a dialog, and the list is read again.
Prizes == [Cached EXCEPT !.acts = {"reread"}]
SpinHistory == Prizes
Dashboard == Prizes
Transactions == Cached
RegionalWars == Cached
PulseAwards == Cached
RecentActivity == Cached
RegionalWarsWidget == Cached
QuickAITools == Cached

\* Data a page keeps itself: whatever answer comes last is shown.
Draws == [Cached EXCEPT !.cache = FALSE]
Gallery == Draws
DailySpinProgress == [Draws EXCEPT !.empties = TRUE]
Passport == [Draws EXCEPT !.again = "never"]

\* One notice is shown as read before it is, all of them after they are.
Notifications == [Passport EXCEPT !.acts = {"before", "after"}, !.empties = TRUE]

\* The profile of the store, filled at sign-in and by the dashboard, and kept over a reload.
Profile == [Cached EXCEPT !.opens = FALSE, !.again = "home", !.acts = {"after"}]

\* Whole turns of the wheel, and the angle of its pointer.
SpinPage == [kind |-> "wheel", gated |-> TRUE, whole |-> TRUE, pointer |-> 0]
SpinWheelWidget == [SpinPage EXCEPT !.whole = FALSE, !.pointer = Turn \div 4]

RechargePage == [kind |-> "recharge", gated |-> FALSE]

Pages == {Prizes, Transactions, Draws, DailySpinProgress, Passport, Notifications, Profile,
          SpinPage, SpinWheelWidget, RechargePage}

IsData == page.kind = "data"

\* What is read into the cache or the store goes on when the page is left.
Lasting == IsData /\ page.cache

InStore == IsData /\ ~page.opens

------------------------------------------------------------------------------
(* Requests.                                                               *)

Free == {c \in Call : call[c] = None}

UnderWay(op) == {c \in Call : call[c] # None /\ call[c].op = op}

\* The recharge page asks without a token, except for the order itself.
Public == {"networks", "detect", "bundles", "status"}

\* how: what the page does with the answer of a change.
RequestWith(op, arg, how, tok) ==
    [op |-> op, arg |-> arg, how |-> how, tok |-> tok, state |-> "out", answer |-> None,
     late |-> FALSE, crossed |-> FALSE]

\* With the token of this moment.
Request(op, arg, how) == RequestWith(op, arg, how, IF op \in Public THEN 0 ELSE token)

With(request, calls) == \E c \in Free : call' = [calls EXCEPT ![c] = request]

Send(request) == With(request, call)

\* Answers under way are older than what happens now.
Cross(calls) ==
    [c \in Call |-> IF calls[c] # None /\ calls[c].state = "back"
                    THEN [calls[c] EXCEPT !.crossed = TRUE] ELSE calls[c]]

\* The answers of older readings of cached data no longer count; that one is refused still does.
Superseded ==
    [c \in Call |-> IF call[c] # None /\ call[c].op = "load" /\ page.cache
                    THEN IF call[c].state = "back" THEN None ELSE [call[c] EXCEPT !.late = TRUE]
                    ELSE call[c]]

Back(c, op) == call[c] # None /\ call[c].op = op /\ call[c].state = "back"

Ends(c) == call' = [call EXCEPT ![c] = None]

Reading == Request("load", None, None)

\* The routes behind the session.  A recharge is ordered with the token there is, but by a guest
\* just as well.
Guarded == {"load", "act", "config", "play"}

\* The units of the first n slices: those of a slice are the pairs of its place and 1 to its size.
Units(w, n) == UNION {{i} \X (1..w[i].size) : i \in 1..n}

Sized(w) == Cardinality(Units(w, Len(w)))

Valid(w) == /\ w # <<>> /\ \A i \in DOMAIN w : w[i].size > 0
            /\ Sized(w) = Turn

\* None: the server refuses.
Answers(q) ==
    CASE q.op = "load"     -> {[user |-> owner[q.tok], value |-> stored[owner[q.tok]]]}
      [] q.op = "act"      -> {None, [user |-> owner[q.tok], value |-> q.arg]}
      [] q.op = "config"   -> {IF Valid(wheel.published) THEN wheel.published ELSE None}
      [] q.op = "play"     -> {None} \cup {[slots |-> wheel.published, won |-> slice.prize] :
                                              slice \in Range(wheel.published)}
      [] q.op = "networks" -> {Network}
      [] q.op = "detect"   -> Network \cup {None}
      [] q.op = "bundles"  -> {q.arg}
      [] q.op = "initiate" -> {None, "payment"}
      [] q.op = "status"   -> {receipt.recharge}

Serve(c) ==
    /\ call[c] # None /\ call[c].state = "out"
    /\ LET q == call[c]
           refused == q.op \in Guarded /\ q.tok \in dead \cup {0}
       IN  \/ /\ refused
              /\ call' = [call EXCEPT ![c].state = "denied"] /\ UNCHANGED stored
           \/ /\ ~refused /\ q.late
              /\ Ends(c) /\ UNCHANGED stored
           \/ /\ ~refused /\ ~q.late
              /\ \E a \in Answers(q) :
                    IF q.op = "act" /\ a # None
                    THEN /\ stored' = [stored EXCEPT ![a.user] = a.value]
                         /\ call' = [Cross(call) EXCEPT ![c].state = "back", ![c].answer = a]
                    ELSE /\ call' = [call EXCEPT ![c].state = "back", ![c].answer = a]
                         /\ UNCHANGED stored
    /\ UNCHANGED <<page, at, session, shown, excused, wheel, order>>

\* On the way to the server or back.
Lost(c) ==
    /\ call[c] # None /\ call[c].state \in {"out", "back"}
    /\ call[c].state = "back" => call[c].answer # None
    /\ call' = [call EXCEPT ![c] = IF @.late THEN None
                   ELSE [@ EXCEPT !.state = "back", !.answer = None, !.crossed = IsData]]
    /\ UNCHANGED <<page, at, session, data, wheel, order>>

------------------------------------------------------------------------------
(* Pages that show data.                                                   *)

\* Whatever was read under way together may come in the wrong order.
LoadAnswered(c) ==
    /\ Back(c, "load")
    /\ call' = [Cross(call) EXCEPT ![c] = None]
    /\ shown' = IF call[c].answer # None THEN call[c].answer
                ELSE IF page.empties THEN None ELSE shown
    /\ excused' = (call[c].crossed \/ call[c].answer = None)
    /\ UNCHANGED <<page, at, session, stored, wheel, order>>

\* The dialog of a claim waits two seconds before the list is read again: part of the answer's way.
ActAnswered(c) ==
    /\ Back(c, "act") /\ call[c].answer # None
    /\ CASE call[c].how = "reread" ->
              /\ call' = IF at = "page" THEN [Superseded EXCEPT ![c] = Reading]
                         ELSE [call EXCEPT ![c] = None]
              /\ UNCHANGED <<shown, excused>>
         [] call[c].how = "after" ->
              /\ Ends(c) /\ shown' = call[c].answer /\ excused' = (excused \/ call[c].crossed)
         [] OTHER ->
              /\ Ends(c) /\ UNCHANGED <<shown, excused>>
    /\ UNCHANGED <<page, at, session, stored, wheel, order>>

\* A notice shown as read stays so.
ActFails(c) ==
    /\ Back(c, "act") /\ call[c].answer = None
    /\ Ends(c)
    /\ excused' = (excused \/ call[c].crossed \/ call[c].how = "before")
    /\ UNCHANGED <<page, at, session, stored, shown, wheel, order>>

\* Notices are rows of their own, marked one way: one at a time here.
Act(v, how) ==
    /\ at = "page" /\ IsData /\ shown # None /\ how \in page.acts /\ v # shown.value
    /\ Lasting \/ UnderWay("act") = {}
    /\ Send(Request("act", v, how))
    /\ shown' = IF how = "before" THEN [shown EXCEPT !.value = v] ELSE shown
    /\ UNCHANGED <<page, at, session, stored, excused, wheel, order>>

Refetch ==
    /\ IsData /\ at = page.again /\ held # 0
    /\ With(Reading, Superseded)
    /\ UNCHANGED <<page, at, session, data, wheel, order>>

\* Another tab, an operator, the program.
OthersWrite(u, v) ==
    /\ IsData /\ held # 0 /\ u = owner[held] /\ stored[u] # v
    /\ stored' = [stored EXCEPT ![u] = v]
    /\ call' = Cross(call) /\ excused' = TRUE
    /\ UNCHANGED <<page, at, session, shown, wheel, order>>

------------------------------------------------------------------------------
(* Coming and going.                                                       *)

NoCalls == [c \in Call |-> None]

EmptyWheel(published) ==
    [published |-> published, slots |-> <<>>, rotation |-> 0, phase |-> "idle", won |-> None]

EmptyForm == [number |-> FALSE, network |-> None, kind |-> "airtime", offers |-> None,
              bundle |-> None, late |-> FALSE, waiting |-> {}]

NoReceipt(recharge) == [recharge |-> recharge, state |-> "none", tries |-> 0, timer |-> FALSE]

Emptied ==
    /\ wheel' = EmptyWheel(wheel.published)
    /\ form' = EmptyForm
    /\ receipt' = NoReceipt(receipt.recharge)

\* Every answer under way belongs to another session.
CrossAll(calls) ==
    [c \in Call |-> IF calls[c] = None THEN None ELSE [calls[c] EXCEPT !.crossed = IsData]]

\* What a page asks for as it opens.
Mounted(calls, tok) ==
    CASE IsData /\ page.opens -> With(RequestWith("load", None, None, tok), calls)
      [] InStore              -> call' = calls
      [] page.kind = "wheel"  -> With(RequestWith("config", None, None, tok), calls)
      [] OTHER                -> With(Request("networks", None, None), calls)

Open ==
    /\ at = "home" /\ (page.gated => held # 0)
    /\ at' = "page"
    /\ Mounted(Superseded, token)
    /\ UNCHANGED <<page, session, data, wheel, order>>

Leave ==
    /\ at = "page" /\ at' = "home"
    /\ IF Lasting THEN UNCHANGED <<call, shown, excused>>
       ELSE call' = NoCalls /\ shown' = None /\ excused' = FALSE
    /\ Emptied
    /\ UNCHANGED <<page, session, stored>>

\* The token the store kept in the browser, or the one the client kept there.
Restored == IF held # 0 THEN held ELSE token

\* A change under way may still reach the server: OthersWrite.
BrowserReload ==
    /\ token' = Restored
    /\ IF at = "page" THEN Mounted(NoCalls, Restored) ELSE call' = NoCalls
    /\ shown' = IF InStore THEN shown ELSE None
    /\ excused' = (InStore /\ (excused \/ UnderWay("act") # {}))
    /\ Emptied
    /\ UNCHANGED <<page, at, owner, dead, held, stored>>

------------------------------------------------------------------------------
(* Sessions.                                                               *)

\* The store only: the client goes on with the token it has.
LoginMutant(u) ==
    /\ at = "home" \/ ~page.gated
    /\ held = 0 /\ Len(owner) < IF IsData THEN MaxTokens ELSE 1
    /\ owner' = Append(owner, u)
    /\ held' = Len(owner') /\ token' = IF token # 0 THEN token ELSE held'
    /\ UNCHANGED <<page, at, dead, data, wheel, order>>
    /\ IF InStore THEN With(RequestWith("load", None, None, token'), CrossAll(call))
       ELSE call' = CrossAll(call)

\* The client is given the token first; then the profile is read.
Login(u) ==
    /\ at = "home" \/ ~page.gated
    /\ held = 0 /\ Len(owner) < IF IsData THEN MaxTokens ELSE 1
    /\ owner' = Append(owner, u)
    /\ held' = Len(owner') /\ token' = held'
    /\ UNCHANGED <<page, at, dead, data, wheel, order>>
    /\ IF InStore THEN With(RequestWith("load", None, None, token'), CrossAll(call))
       ELSE call' = CrossAll(call)

Expires(n) ==
    /\ n \notin dead
    /\ dead' = dead \cup {n}
    /\ UNCHANGED <<page, at, owner, held, token, data, call, wheel, order>>

\* The store forgets its user, the shell opens the landing page; the cache stays.
SignedOut(calls) ==
    /\ held' = 0 /\ at' = "home"
    /\ call' = IF Lasting THEN CrossAll(calls) ELSE NoCalls
    /\ IF Lasting /\ ~InStore THEN UNCHANGED <<shown, excused>>
       ELSE shown' = None /\ excused' = FALSE
    /\ Emptied
    /\ UNCHANGED <<page, owner, dead, stored>>

\* cleared: the settings also clear the token of the client, the menu of the shell does not.
SignOut(cleared) ==
    /\ at = "page" /\ page.gated /\ held # 0
    /\ token' = IF cleared THEN 0 ELSE token
    /\ SignedOut(call)

\* The client clears its token, whichever was refused.  Only a page in the shell hears of it.
Unauthorized(c) ==
    /\ call[c] # None /\ call[c].state = "denied"
    /\ token' = 0
    /\ \/ /\ at = "page" => page.gated
          /\ SignedOut([call EXCEPT ![c] = None])
       \/ /\ at = "page" => ~page.gated
          /\ Ends(c) /\ excused' = TRUE
          /\ UNCHANGED <<page, at, owner, dead, held, stored, shown, wheel, order>>

------------------------------------------------------------------------------
(* The wheel.                                                              *)

OnWheel == at = "page" /\ page.kind = "wheel"

\* Where a slice begins, in units of the turn.
Start(w, i) == Cardinality(Units(w, i - 1))

First(w, prize) == CHOOSE i \in DOMAIN w :
                      w[i].prize = prize /\ \A j \in DOMAIN w : w[j].prize = prize => i <= j

\* The rotation that brings the centre of the slice under the pointer.
Landing(w, i) == (Turn + page.pointer - Start(w, i) - w[i].size \div 2) % Turn

\* A little off the centre.
Nudge(w, i) == LET most == (3 * w[i].size) \div 20 IN (-most)..most

\* On the page of the wheel the rotation so far is rounded up to whole turns; on the dashboard it
\* is added as it is, and with it six to eight turns, not whole ones.
Spare == IF page.whole THEN {0} ELSE {(wheel.rotation + extra) % Turn : extra \in 0..(Turn - 1)}

Under(w) == LET pointed == (Turn + page.pointer - wheel.rotation) % Turn
                inside(i) == Start(w, i) <= pointed /\ pointed < Start(w, i) + w[i].size
            IN  {w[i].prize : i \in {j \in DOMAIN w : inside(j)}}

ConfigAnswered(c) ==
    /\ Back(c, "config") /\ OnWheel
    /\ Ends(c)
    /\ wheel' = [wheel EXCEPT !.slots = IF call[c].answer = None THEN <<>> ELSE call[c].answer]
    /\ UNCHANGED <<page, at, session, data, order>>

Spin ==
    /\ OnWheel /\ wheel.phase = "idle" /\ wheel.slots # <<>>
    /\ Send(Request("play", None, None))
    /\ wheel' = [wheel EXCEPT !.phase = "asked"]
    /\ UNCHANGED <<page, at, session, data, order>>

Refused(c) == call[c].answer = None \/ ~Valid(call[c].answer.slots)

\* The slices on screen stay those the page was opened with.
SpinAnsweredMutant(c) ==
    /\ Back(c, "play")
    /\ Ends(c)
    /\ IF Refused(c) THEN wheel' = [wheel EXCEPT !.phase = "idle"]
       ELSE LET w == call[c].answer.slots
                i == First(w, call[c].answer.won)
            IN  \E spare \in Spare, nudge \in Nudge(w, i) :
                   wheel' = [wheel EXCEPT !.phase = "turning", !.won = call[c].answer.won,
                                !.rotation = (Turn + spare + Landing(w, i) + nudge) % Turn]
    /\ UNCHANGED <<page, at, session, data, order>>

\* The wheel on screen becomes the one the server spun.
SpinAnswered(c) ==
    /\ Back(c, "play")
    /\ Ends(c)
    /\ IF Refused(c) THEN wheel' = [wheel EXCEPT !.phase = "idle"]
       ELSE LET w == call[c].answer.slots
                i == First(w, call[c].answer.won)
            IN  \E spare \in Spare, nudge \in Nudge(w, i) :
                   wheel' = [wheel EXCEPT !.slots = w, !.phase = "turning", !.won = call[c].answer.won,
                                !.rotation = (Turn + spare + Landing(w, i) + nudge) % Turn]
    /\ UNCHANGED <<page, at, session, data, order>>

Stops ==
    /\ wheel.phase = "turning"
    /\ wheel' = [wheel EXCEPT !.phase = "stopped"]
    /\ UNCHANGED <<page, at, session, data, call, order>>

Reset ==
    /\ wheel.phase = "stopped"
    /\ wheel' = [wheel EXCEPT !.phase = "idle", !.won = None]
    /\ UNCHANGED <<page, at, session, data, call, order>>

Publish(w) ==
    /\ page.kind = "wheel" /\ wheel.published # w
    /\ wheel' = [wheel EXCEPT !.published = w]
    /\ UNCHANGED <<page, at, session, data, call, order>>

------------------------------------------------------------------------------
(* The recharge form.                                                      *)

OnForm == at = "page" /\ page.kind = "recharge"

\* A bound: no second recharge is ordered while the receipt of the first is open or after.
Filling == OnForm /\ receipt.recharge = None

\* The offers of the network are asked for anew.
BundlesFetchedMutant(f, calls) ==
    /\ form' = [f EXCEPT !.offers = None, !.late = FALSE]
    /\ IF f.kind = "data" /\ f.network # None THEN With(Request("bundles", f.network, None), calls)
       ELSE call' = calls

\* The choice and the offers are forgotten, and the offers of the network asked for.
BundlesFetched(f, calls) ==
    /\ form' = [f EXCEPT !.offers = None, !.bundle = None, !.late = FALSE]
    /\ IF f.kind = "data" /\ f.network # None THEN With(Request("bundles", f.network, None), calls)
       ELSE call' = calls

\* An effect of the network and the kind of recharge.
Changed(f, calls) ==
    IF f.network # form.network \/ f.kind # form.kind THEN BundlesFetched(f, calls)
    ELSE form' = f /\ call' = calls

\* The first network is a default.
NetworksAnswered(c) ==
    /\ Back(c, "networks") /\ OnForm
    /\ IF form.network = None /\ call[c].answer # None
       THEN \E n \in call[c].answer : Changed([form EXCEPT !.network = n], [call EXCEPT ![c] = None])
       ELSE Ends(c) /\ UNCHANGED form
    /\ UNCHANGED <<page, at, session, data, wheel, receipt>>

\* The network of a full number is looked up half a second later, with the network chosen by now.
\* An earlier look-up is only called off by a full number; a number of a few digits has no network.
Type(digits) ==
    /\ Filling
    /\ Changed(CASE digits = "all"  -> [form EXCEPT !.number = TRUE, !.waiting = {form.network}]
                 [] digits = "most" -> [form EXCEPT !.number = FALSE]
                 [] digits = "few"  -> [form EXCEPT !.number = FALSE, !.network = None], call)
    /\ UNCHANGED <<page, at, session, data, wheel, receipt>>

Detect ==
    /\ Filling
    /\ \E chosen \in form.waiting : Send(Request("detect", chosen, None))
    /\ form' = [form EXCEPT !.waiting = {}]
    /\ UNCHANGED <<page, at, session, data, wheel, receipt>>

\* What was chosen when the number was typed is not looked at again.
DetectAnswered(c) ==
    /\ Back(c, "detect") /\ OnForm
    /\ IF call[c].arg = None /\ call[c].answer # None
       THEN Changed([form EXCEPT !.network = call[c].answer], [call EXCEPT ![c] = None])
       ELSE Ends(c) /\ UNCHANGED form
    /\ UNCHANGED <<page, at, session, data, wheel, receipt>>

ChooseNetwork(n) ==
    /\ Filling /\ n # form.network
    /\ Changed([form EXCEPT !.network = n, !.bundle = None], call)
    /\ UNCHANGED <<page, at, session, data, wheel, receipt>>

ChooseType(kind) ==
    /\ Filling /\ kind # form.kind
    /\ Changed([form EXCEPT !.kind = kind, !.bundle = None], call)
    /\ UNCHANGED <<page, at, session, data, wheel, receipt>>

\* Whatever network they are of, and without touching the choice.
BundlesAnswered(c) ==
    /\ Back(c, "bundles") /\ OnForm
    /\ Ends(c)
    /\ form' = IF call[c].answer = None THEN form
               ELSE [form EXCEPT !.offers = call[c].answer,
                                 !.late = form.late \/ call[c].answer # form.network]
    /\ UNCHANGED <<page, at, session, data, wheel, receipt>>

ChooseBundle ==
    /\ Filling /\ form.kind = "data" /\ form.network # None /\ form.offers # None
    /\ form.bundle # form.offers
    /\ form' = [form EXCEPT !.bundle = form.offers]
    /\ UNCHANGED <<page, at, session, data, call, wheel, receipt>>

Submit ==
    /\ Filling /\ UnderWay("initiate") = {}
    /\ form.number /\ form.network # None
    /\ form.kind = "data" => form.bundle # None
    /\ Send(Request("initiate", [network |-> form.network, kind |-> form.kind,
                                 bundle |-> form.bundle, late |-> form.late], None))
    /\ UNCHANGED <<page, at, session, data, wheel, order>>

\* The browser leaves for the page of the payment.
InitiateAnswered(c) ==
    /\ Back(c, "initiate") /\ OnForm
    /\ IF call[c].answer = None THEN Ends(c) /\ UNCHANGED <<at, wheel, order>>
       ELSE /\ at' = "home" /\ call' = NoCalls
            /\ form' = EmptyForm
            /\ receipt' = NoReceipt("PENDING")
            /\ UNCHANGED wheel
    /\ UNCHANGED <<page, session, data>>

------------------------------------------------------------------------------
(* The receipt.                                                            *)

Settled == {"SUCCESS", "FAILED", "CANCELLED"}

\* The server, after the payment and the delivery; to the page PROCESSING is as good as PENDING.
RechargeSettles(status) ==
    /\ receipt.recharge = "PENDING"
    /\ receipt' = [receipt EXCEPT !.recharge = status]
    /\ UNCHANGED <<page, at, session, data, call, wheel, form>>

\* Sent back to the page: the answer is in the address already, or will be asked for.
PaymentReturned ==
    /\ at = "home" /\ page.kind = "recharge" /\ receipt.recharge # None
    /\ at' = "page" /\ token' = Restored
    /\ Mounted(NoCalls, token')
    /\ receipt' = IF receipt.recharge = "SUCCESS"
                  THEN [NoReceipt(receipt.recharge) EXCEPT !.state = "done"]
                  ELSE [NoReceipt(receipt.recharge) EXCEPT !.state = "pending", !.timer = TRUE]
    /\ UNCHANGED <<page, owner, dead, held, data, wheel, form>>

Poll ==
    /\ OnForm /\ receipt.timer
    /\ Send(Request("status", None, None))
    /\ receipt' = [receipt EXCEPT !.timer = FALSE, !.tries = @ + 1]
    /\ UNCHANGED <<page, at, session, data, wheel, form>>

\* A poll that failed is the last one.
PollAnsweredMutant(c) ==
    /\ Back(c, "status") /\ OnForm
    /\ Ends(c)
    /\ LET last == receipt.tries = MaxPolls
       IN  receipt' = CASE call[c].answer = None      -> receipt
                        [] call[c].answer = "SUCCESS" -> [receipt EXCEPT !.state = "done"]
                        [] call[c].answer = "FAILED"  -> [receipt EXCEPT !.state = "none"]
                        [] OTHER -> [receipt EXCEPT !.timer = ~last,
                                                    !.state = IF last THEN "timedOut" ELSE @]
    /\ UNCHANGED <<page, at, session, data, wheel, form>>

\* After the last question an answer in time says so; one that failed leaves all as it is.
PollAnswered(c) ==
    /\ Back(c, "status") /\ OnForm
    /\ Ends(c)
    /\ LET last == receipt.tries = MaxPolls
       IN  receipt' = CASE call[c].answer = None      -> [receipt EXCEPT !.timer = ~last]
                        [] call[c].answer = "SUCCESS" -> [receipt EXCEPT !.state = "done"]
                        [] call[c].answer = "FAILED"  -> [receipt EXCEPT !.state = "none"]
                        [] OTHER -> [receipt EXCEPT !.timer = ~last,
                                                    !.state = IF last THEN "timedOut" ELSE @]
    /\ UNCHANGED <<page, at, session, data, wheel, form>>

------------------------------------------------------------------------------
Init ==
    /\ page \in Pages /\ at = "home"
    /\ owner = <<>> /\ dead = {} /\ held = 0 /\ token = 0
    /\ (\E v \in Value : stored = [u \in User |-> v]) /\ shown = None /\ excused = FALSE
    /\ call = NoCalls
    /\ \E i \in IF page.kind = "wheel" THEN DOMAIN Wheels ELSE {1} :
          wheel = EmptyWheel(Wheels[i])
    /\ form = EmptyForm /\ receipt = NoReceipt(None)

Requests ==
    \E c \in Call :
        \/ Serve(c) \/ Lost(c) \/ Unauthorized(c)
        \/ LoadAnswered(c) \/ ActAnswered(c) \/ ActFails(c)
        \/ ConfigAnswered(c) \/ SpinAnswered(c)
        \/ NetworksAnswered(c) \/ DetectAnswered(c) \/ BundlesAnswered(c)
        \/ InitiateAnswered(c) \/ PollAnswered(c)

Session ==
    \/ Open \/ Leave \/ BrowserReload
    \/ \E u \in User : Login(u)
    \/ \E n \in DOMAIN owner : Expires(n)
    \/ \E cleared \in BOOLEAN : SignOut(cleared)

Data ==
    \/ Refetch
    \/ \E v \in Value, how \in {"reread", "before", "after"} : Act(v, how)
    \/ \E u \in User, v \in Value : OthersWrite(u, v)

TheWheel == Spin \/ Stops \/ Reset \/ \E i \in DOMAIN Wheels : Publish(Wheels[i])

Recharge ==
    \/ \E digits \in {"few", "most", "all"} : Type(digits)
    \/ \E n \in Network : ChooseNetwork(n)
    \/ \E kind \in {"airtime", "data"} : ChooseType(kind)
    \/ Detect \/ ChooseBundle \/ Submit
    \/ \E status \in Settled : RechargeSettles(status)
    \/ PaymentReturned \/ Poll

Next == Requests \/ Session \/ Data \/ TheWheel \/ Recharge

Spec == Init /\ [][Next]_vars

------------------------------------------------------------------------------
(* Properties.                                                             *)

\* An open page with no request under way shows what the server keeps of the user who is signed
\* in, never of the one before: the token the requests were sent with is that of the store, and
\* what was cached for another user or changed by this one was read again.  Excused is what was
\* answered out of order, failed, or was written by others since.
OwnData ==
    at = "page" /\ IsData /\ shown # None /\ ~excused /\ call = NoCalls
    => shown = [user |-> owner[held], value |-> stored[owner[held]]]

\* The wheel of the spin page stops on the prize the server drew, also when other prizes were
\* published since the page was opened.
WheelShowsPrize ==
    page.kind = "wheel" /\ page.whole /\ wheel.phase = "stopped" => Under(wheel.slots) = {wheel.won}

\* A data order carries a bundle of the network it is for and an airtime order none, whichever of
\* the user, the default and the detection set the network last, unless the list of another
\* network came late.
OrderAsChosen ==
    \A c \in UnderWay("initiate") : LET o == call[c].arg IN
        o.late \/ o.bundle = IF o.kind = "data" THEN o.network ELSE None

\* While the receipt says that the recharge is under way the server is asked again, until the
\* last try: a question that failed is no reason to stop.
PendingIsPolled ==
    OnForm /\ receipt.state = "pending"
    => receipt.timer \/ UnderWay("status") # {} \/ receipt.tries = MaxPolls

------------------------------------------------------------------------------
(* The types, and what is known of a request by its kind.                  *)

\* What each kind of page asks for.
OpsOf(kind) == CASE kind = "data"     -> {"load", "act"}
                 [] kind = "wheel"    -> {"config", "play"}
                 [] kind = "recharge" -> {"networks", "detect", "bundles", "initiate", "status"}

Ops == UNION {OpsOf(kind) : kind \in {"data", "wheel", "recharge"}}

Account == [user : User, value : Value]

Published == {Wheels[i] : i \in DOMAIN Wheels}

\* What is won is on the wheel that was spun.
Spun == {a \in [slots : Published, won : Prize] : \E i \in DOMAIN a.slots : a.slots[i].prize = a.won}

Bundle == Network \cup {None}

Order == [network : Network, kind : {"airtime", "data"}, bundle : Bundle, late : BOOLEAN]

ArgOf(op) == CASE op = "act"      -> Value
               [] op = "detect"   -> Bundle
               [] op = "bundles"  -> Network
               [] op = "initiate" -> Order
               [] OTHER           -> {None}

AnswerOf(op) ==
    {None} \cup CASE op \in {"load", "act"}       -> Account
                  [] op = "config"                -> Published
                  [] op = "play"                  -> Spun
                  [] op = "networks"              -> {Network}
                  [] op \in {"detect", "bundles"} -> Network
                  [] op = "initiate"              -> {"payment"}
                  [] op = "status"                -> {"PENDING"} \cup Settled

RequestOf(op) ==
    [op : {op}, arg : ArgOf(op), how : {None, "reread", "before", "after"}, tok : Nat,
     state : {"out", "back", "denied"}, answer : AnswerOf(op), late : BOOLEAN, crossed : BOOLEAN]

\* No request is the mark of a free place.
ASSUME NoneAssumption == \A op \in Ops : None \notin RequestOf(op)

WheelType == [published : Published, slots : Published \cup {<<>>}, rotation : 0..(Turn - 1),
              phase : {"idle", "asked", "turning", "stopped"}, won : Prize \cup {None}]

FormType == [number : BOOLEAN, network : Bundle, kind : {"airtime", "data"}, offers : Bundle,
             bundle : Bundle, late : BOOLEAN, waiting : SUBSET Bundle]

ReceiptType == [state : {"none", "pending", "done", "timedOut"}, tries : Nat, timer : BOOLEAN,
                recharge : {None, "PENDING"} \cup Settled]

\* n: how many tokens there are.  Only a reading is superseded, only the routes behind the session
\* deny, and a change is made in one of the ways of its page.
IsRequest(q, n) ==
    \E op \in OpsOf(page.kind) :
        /\ q \in RequestOf(op) /\ q.tok <= n
        /\ q.late => op = "load"
        /\ q.state = "denied" => op \in Guarded
        /\ q.state # "back" => q.answer = None
        /\ op = "act" => q.how \in page.acts

IsCalls(calls, n) == DOMAIN calls = Call /\ \A c \in Call : calls[c] = None \/ IsRequest(calls[c], n)

TypeOK ==
    /\ page \in Pages /\ at \in {"home", "page"}
    /\ owner \in Seq(User) /\ dead \subseteq DOMAIN owner
    /\ held \in 0..Len(owner) /\ token \in 0..Len(owner)
    /\ stored \in [User -> Value] /\ shown \in Account \cup {None} /\ excused \in BOOLEAN
    /\ IsCalls(call, Len(owner))
    /\ wheel \in WheelType /\ form \in FormType /\ receipt \in ReceiptType

\* Outside the page a request is under way only if its answer is kept for all pages; the wheel is
\* empty and no receipt is shown.
AwayInv ==
    at = "home" =>
        /\ ~Lasting => call = NoCalls
        /\ IsData /\ ~Lasting => shown = None
        /\ page.kind = "wheel" => wheel.slots = <<>> /\ wheel.phase = "idle"
        /\ page.kind = "recharge" => receipt.state = "none"

------------------------------------------------------------------------------
(* Why each property holds.                                                *)

\* The list of offers and the choice are of the network of the form, unless a list came late.
FormInv ==
    form.late \/ /\ form.offers \in {None, form.network}
                 /\ form.bundle = None \/ (form.kind = "data" /\ form.bundle = form.network)

\* The configuration is asked for once, before anything is on the wheel.
ConfigInv ==
    \A c \in UnderWay("config") :
        /\ wheel.slots = <<>> /\ wheel.phase = "idle"
        /\ \A d \in Call : call[d] # None => d = c

\* The client has the token of the store or none, and an answer not crossed is of that token.
TokenInv ==
    /\ at = "page" /\ page.gated => held # 0
    /\ held # 0 => token \in {0, held}
    /\ \A c \in Call : IsData /\ call[c] # None /\ ~call[c].crossed => call[c].tok \in {0, held}

\* An answer not crossed is what the server keeps.
AnswerInv ==
    \A c \in Call :
        IsData /\ call[c] # None /\ ~call[c].crossed /\ call[c].answer # None
        => /\ call[c].tok # 0
           /\ call[c].answer = [user |-> owner[call[c].tok], value |-> stored[owner[call[c].tok]]]

\* Notices are read once, and changed one at a time; until its answer, a notice that was shown as
\* read is shown with the value asked for.
NoticeInv ==
    /\ IsData /\ page.again = "never" =>
          \A c, d \in Call : call[c] # None /\ call[c].op = "load" /\ call[d] # None
                             => c = d /\ shown = None
    /\ IsData /\ ~Lasting => \A c, d \in UnderWay("act") : c = d
    /\ \A c \in UnderWay("act") :
          IsData /\ call[c].how = "before" /\ call[c].state = "out" =>
              /\ ~call[c].crossed
              /\ ~excused => shown = [user |-> owner[held], value |-> call[c].arg]

\* A reading that counts; a change that was answered, and will be shown or read; or one that may
\* have failed, which excuses the page.
Mends(q) ==
    \/ q.op = "load" /\ ~q.late /\ page.opens
    \/ q.op = "act" /\ q.state = "back" /\ q.answer # None /\ q.how # "before"
    \/ q.op = "act" /\ q.state = "back" /\ q.answer = None /\ (q.crossed \/ q.how = "before")
    \/ q.op = "act" /\ q.state # "back" /\ q.how = "before"

\* A page that is open, and the profile always, shows what the server keeps, or a request that
\* mends it is under way.
ShownInv ==
    /\ InStore /\ held = 0 => shown = None \/ excused
    /\ IsData /\ (at = "page" \/ InStore) /\ shown # None /\ ~excused =>
          \/ shown = [user |-> owner[held], value |-> stored[owner[held]]]
          \/ \E c \in Call : call[c] # None /\ Mends(call[c])

\* A wheel that stopped, or will, has the prize under its pointer.
LandedInv ==
    page.kind = "wheel" /\ page.whole /\ wheel.phase \in {"turning", "stopped"}
    => Under(wheel.slots) = {wheel.won}

WebInv == /\ TypeOK /\ AwayInv /\ FormInv /\ ConfigInv /\ OrderAsChosen
          /\ PendingIsPolled /\ TokenInv /\ AnswerInv /\ NoticeInv /\ ShownInv /\ LandedInv
=============================================================================
