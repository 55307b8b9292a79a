-------------------------- MODULE AdminConsoleProofs --------------------------
(***************************************************************************)
(* Proofs about AdminConsole: its session, and the list on screen, for     *)
(* every screen, any rows, any number of requests under way and any        *)
(* number of tokens.                                                       *)
(***************************************************************************)
EXTENDS AdminConsole, SequenceTheorems, TLAPS

USE ConsoleAssumption

-----------------------------------------------------------------------------
(* Steps by what they do to the session.                                   *)

LEMMA SameSession ==
  ASSUME SessionInv, UNCHANGED session
  PROVE  SessionInv'
  BY DEF SessionInv, SessionTypeOK, OneExchange, TokenIsGood, NewIsGood, RefreshedOnce, session

\* An exchange begins while none is under way, with the token of the tab.
LEMMA ExchangeBegins ==
  ASSUME SessionInv, NEW by \in Call \cup {"timer"}, asking = {}, tab.refresh # 0,
         SessionOf(tab, Exchange(by))
  PROVE  SessionInv'
  <1> DEFINE q == [by |-> by, pair |-> tab.refresh, state |-> "out", new |-> 0]
  <1>1. asking' = {q} /\ tab' = tab /\ UNCHANGED <<issued, live, revoked>>
    BY DEF SessionOf, Exchange
  <1>2. tab.refresh \in live \cup revoked
    BY DEF SessionInv, TokenIsGood
  <1>3. q.state = "out" /\ q.pair = tab.refresh
    OBVIOUS
  <1>4. q \in [by : Call \cup {"timer"}, pair : Nat, state : {"out", "ok", "refused"}, new : Nat]
    BY DEF SessionInv, SessionTypeOK
  <1>5. SessionTypeOK' /\ OneExchange'
    BY <1>1, <1>4 DEF SessionInv, SessionTypeOK, OneExchange
  <1>6. TokenIsGood' /\ NewIsGood' /\ RefreshedOnce'
    BY <1>1, <1>2, <1>3 DEF TokenIsGood, NewIsGood, RefreshedOnce
  <1>7. QED
    BY <1>5, <1>6 DEF SessionInv

\* The tokens of the tab are cleared; exchanges end, or go on.
LEMMA TokensCleared ==
  ASSUME SessionInv, NEW left, left \in SUBSET asking, SessionOf(NoTokens, left)
  PROVE  SessionInv'
  BY DEF SessionInv, SessionTypeOK, OneExchange, TokenIsGood, NewIsGood, RefreshedOnce,
         SessionOf, NoTokens

\* A sign-out takes a refresh token from the good ones to the revoked.
LEMMA TokenRevoked ==
  ASSUME SessionInv, NEW out, out \in SUBSET live, live' = live \ out, revoked' = revoked \cup out,
         UNCHANGED <<tab, asking, issued>>
  PROVE  SessionInv'
  <1>1. live' \cup revoked' = live \cup revoked
    OBVIOUS
  <1>2. QED
    BY <1>1 DEF SessionInv, SessionTypeOK, OneExchange, TokenIsGood, NewIsGood, RefreshedOnce

-----------------------------------------------------------------------------
(* The steps.                                                              *)

LEMMA ServeStep ==
  ASSUME SessionInv, NEW c \in Call, Serve(c)
  PROVE  SessionInv'
  <1>1. CASE call[c].pair <= expired
    BY <1>1, SameSession DEF Serve, session
  <1>2. CASE ~(call[c].pair <= expired)
    <2>1. PICK out \in SUBSET live :
             live' = live \ out /\ revoked' = revoked \cup out /\ UNCHANGED <<tab, asking, issued>>
      <3>1. CASE call[c].op = "logout"
        BY <1>2, <3>1 DEF Serve
      <3>2. CASE call[c].op # "logout"
        BY <1>2, <3>2 DEF Serve
      <3>3. QED
        BY <3>1, <3>2
    <2>2. QED
      BY <2>1, TokenRevoked
  <1>3. QED
    BY <1>1, <1>2

LEMMA SilentRefreshStep ==
  ASSUME SessionInv, NEW c \in Call, SilentRefresh(c)
  PROVE  SessionInv'
  <1>1. CASE asking = {}
    BY <1>1, ExchangeBegins DEF SilentRefresh
  <1>2. CASE asking # {}
    BY <1>2, SameSession DEF SilentRefresh, SessionOf, session
  <1>3. QED
    BY <1>1, <1>2

\* The server exchanges a token it holds good, and refuses any other.
LEMMA RefreshServedStep ==
  ASSUME SessionInv, NEW q \in asking, RefreshServed(q)
  PROVE  SessionInv'
  <1>1. asking = {q}
    BY DEF SessionInv, OneExchange
  <1>2. CASE q.pair \in live
    <2> DEFINE p == [q EXCEPT !.state = "ok", !.new = issued + 1]
    <2>1. /\ asking' = {p} /\ issued' = issued + 1 /\ tab' = tab /\ revoked' = revoked
          /\ live' = (live \ {q.pair}) \cup {issued + 1}
      BY <1>1, <1>2 DEF RefreshServed
    <2>2. p.pair = q.pair /\ p.state = "ok" /\ p.new = issued + 1
      BY DEF SessionInv, SessionTypeOK
    <2>3. p \in [by : Call \cup {"timer"}, pair : Nat, state : {"out", "ok", "refused"}, new : Nat]
      <3>1. /\ q \in [by : Call \cup {"timer"}, pair : Nat, state : {"out", "ok", "refused"},
                       new : Nat]
            /\ issued + 1 \in Nat
        BY DEF SessionInv, SessionTypeOK
      <3>2. QED
        BY <3>1
    <2>4. SessionTypeOK' /\ OneExchange'
      BY <2>1, <2>3 DEF SessionInv, SessionTypeOK, OneExchange
    <2>5. TokenIsGood'
      BY <1>1, <2>1, <2>2 DEF SessionInv, TokenIsGood, RefreshServed
    <2>6. NewIsGood' /\ RefreshedOnce'
      BY <2>1, <2>2 DEF NewIsGood, RefreshedOnce
    <2>7. QED
      BY <2>4, <2>5, <2>6 DEF SessionInv
  <1>3. CASE q.pair \notin live
    <2> DEFINE p == [q EXCEPT !.state = "refused"]
    <2>1. asking' = {p} /\ UNCHANGED <<issued, live, revoked, tab>>
      BY <1>1, <1>3 DEF RefreshServed
    <2>2. p.pair = q.pair /\ p.state = "refused"
      BY DEF SessionInv, SessionTypeOK
    <2>3. p \in [by : Call \cup {"timer"}, pair : Nat, state : {"out", "ok", "refused"}, new : Nat]
      BY DEF SessionInv, SessionTypeOK
    <2>4. SessionTypeOK' /\ OneExchange'
      BY <2>1, <2>3 DEF SessionInv, SessionTypeOK, OneExchange
    <2>5. TokenIsGood'
      BY <1>1, <2>1, <2>2 DEF SessionInv, TokenIsGood
    <2>6. NewIsGood' /\ RefreshedOnce'
      BY <2>1, <2>2 DEF NewIsGood, RefreshedOnce
    <2>7. QED
      BY <2>4, <2>5, <2>6 DEF SessionInv
  <1>4. QED
    BY <1>2, <1>3

LEMMA RefreshAnsweredStep ==
  ASSUME SessionInv, NEW q \in asking, RefreshAnswered(q)
  PROVE  SessionInv'
  <1>1. /\ asking' = asking \ {q} /\ UNCHANGED <<issued, live, revoked>>
        /\ tab' = [access |-> q.new, refresh |-> q.new] /\ q.state = "ok"
    BY DEF RefreshAnswered, SessionOf
  <1>2. q.new \in live \cup revoked /\ q.new \in Nat
    BY <1>1 DEF SessionInv, SessionTypeOK, NewIsGood
  <1>3. asking' = {}
    BY <1>1 DEF SessionInv, OneExchange
  <1>4. tab'.refresh = q.new
    BY <1>1
  <1>5. QED
    BY <1>1, <1>2, <1>3, <1>4
    DEF SessionInv, SessionTypeOK, OneExchange, TokenIsGood, NewIsGood, RefreshedOnce

LEMMA LoginStep ==
  ASSUME SessionInv, Login
  PROVE  SessionInv'
  <1>1. /\ tab' = [access |-> issued + 1, refresh |-> issued + 1] /\ issued' = issued + 1
        /\ live' = live \cup {issued + 1} /\ UNCHANGED <<asking, revoked>>
    BY DEF Login
  <1>2. tab'.refresh = issued + 1 /\ tab'.refresh \in live'
    BY <1>1
  <1>3. QED
    BY <1>1, <1>2
    DEF SessionInv, SessionTypeOK, OneExchange, TokenIsGood, NewIsGood, RefreshedOnce

LEMMA CallStep ==
  ASSUME SessionInv, NEW c \in Call,
         \/ LoadAnswered(c) \/ SaveAnswered(c) \/ SaveRefused(c) \/ Lost(c) \/ RawDenied(c)
  PROVE  SessionInv'
  BY SameSession DEF LoadAnswered, SaveAnswered, SaveRefused, Lost, RawDenied, Fails

LEMMA OperatorStep ==
  ASSUME SessionInv,
         \/ Returns \/ SignOut \/ Reload
         \/ \E v \in View : Select(v)
         \/ \E r \in Used : Cancel(r) \/ Save(r)
         \/ \E r \in Used, v \in Value : Type(r, v) \/ Touch(r, v) \/ OthersWrite(r, v)
  PROVE  SessionInv'
  BY SameSession DEF Returns, SignOut, Reload, Select, Cancel, Save, Type, Touch, OthersWrite

\* What a step of the console does to the tokens keeps the invariant of the session.
THEOREM SessionInductive == SessionInv /\ [Next]_vars => SessionInv'
  <1> SUFFICES ASSUME SessionInv, [Next]_vars PROVE SessionInv'
    OBVIOUS
  <1>1. CASE UNCHANGED vars
    BY <1>1, SameSession DEF vars
  <1>2. CASE Next
    <2>1. ASSUME NEW c \in Call, Serve(c) PROVE SessionInv'
      BY <2>1, ServeStep
    <2>2. ASSUME NEW c \in Call,
                 \/ LoadAnswered(c) \/ SaveAnswered(c) \/ SaveRefused(c) \/ Lost(c) \/ RawDenied(c)
          PROVE  SessionInv'
      BY <2>2, CallStep
    <2>3. ASSUME NEW c \in Call, SilentRefresh(c) PROVE SessionInv'
      BY <2>3, SilentRefreshStep
    <2>4. ASSUME NEW c \in Call, Unauthorized(c) PROVE SessionInv'
      BY <2>4, TokensCleared DEF Unauthorized, ThrownOut
    <2>5. ASSUME NEW c \in Call, SignedOut(c) PROVE SessionInv'
      BY <2>5, TokensCleared DEF SignedOut
    <2>6. ASSUME NEW q \in asking, RefreshServed(q) PROVE SessionInv'
      BY <2>6, RefreshServedStep
    <2>7. ASSUME NEW q \in asking, RefreshAnswered(q) PROVE SessionInv'
      BY <2>7, RefreshAnsweredStep
    <2>8. ASSUME NEW q \in asking, RefreshFails(q) PROVE SessionInv'
      BY <2>8, TokensCleared DEF RefreshFails, ThrownOut
    <2>9. CASE ProactiveRefresh
      BY <2>9, ExchangeBegins DEF ProactiveRefresh
    <2>10. CASE Expires
      BY <2>10 DEF Expires, SessionInv, SessionTypeOK, OneExchange, TokenIsGood, NewIsGood,
                   RefreshedOnce
    <2>11. CASE Login
      BY <2>11, LoginStep
    <2>12. CASE \/ Returns \/ SignOut \/ Reload
                \/ \E v \in View : Select(v)
                \/ \E r \in Used : Cancel(r) \/ Save(r)
                \/ \E r \in Used, v \in Value : Type(r, v) \/ Touch(r, v) \/ OthersWrite(r, v)
      BY <2>12, OperatorStep
    <2>13. QED
      BY <1>2, <2>1, <2>2, <2>3, <2>4, <2>5, <2>6, <2>7, <2>8, <2>9, <2>10, <2>11, <2>12 DEF Next
  <1>3. QED
    BY <1>1, <1>2

\* However requests, the timer, sign-in and sign-out interleave, a tab never presents a refresh
\* token it already exchanged: AdminAPI.silentRefresh.
THEOREM NeverRefreshedTwice == Spec => []RefreshedOnce
  <1>1. Init => SessionInv
    BY DEF Init, SessionInv, SessionTypeOK, OneExchange, TokenIsGood, NewIsGood, RefreshedOnce,
           NoTokens
  <1>2. SessionInv => RefreshedOnce
    BY DEF SessionInv
  <1>3. QED
    BY <1>1, <1>2, SessionInductive, PTL DEF Spec

------------------------------------------------------------------------------
(* The types.                                                              *)

\* Only of a screen that keeps its list when a request fails is the whole list sent.
LEMMA ScreenFacts ==
  ASSUME screen \in Screens
  PROVE  screen.whole => ~screen.raw
  <1>1. CASE screen = ConfigPage
    BY <1>1 DEF ConfigPage, Dialog, Reader
  <1>2. CASE screen = PointsConfig
    BY <1>2 DEF PointsConfig, Fields, Reader
  <1>3. CASE screen = FraudConfig
    BY <1>3 DEF FraudConfig, Fields, Reader
  <1>4. CASE screen = Passport
    BY <1>4 DEF Passport, Fields, Reader
  <1>5. CASE screen = RechargeConfig
    BY <1>5 DEF RechargeConfig, Fields, Reader
  <1>6. CASE screen = FulfillmentConfig
    BY <1>6 DEF FulfillmentConfig, Fields, Reader
  <1>7. CASE screen = PlatformSettings
    BY <1>7 DEF PlatformSettings, Fields, Reader
  <1>8. CASE screen = SpinConfig
    BY <1>8 DEF SpinConfig, Fields, Reader
  <1>9. CASE screen = Prizes
    BY <1>9 DEF Prizes, Dialog, Reader
  <1>10. CASE screen = Draws
    BY <1>10 DEF Draws, Dialog, Reader
  <1>11. CASE screen = SpinClaims
    BY <1>11 DEF SpinClaims, Dialog, Reader
  <1>12. CASE screen = RegionalWars
    BY <1>12 DEF RegionalWars, Dialog, Reader
  <1>13. CASE screen = StudioTools
    BY <1>13 DEF StudioTools, Dialog, Reader
  <1>14. CASE screen = AIProviders
    BY <1>14 DEF AIProviders, Dialog, Reader
  <1>15. CASE screen = AIRouting
    BY <1>15 DEF AIRouting, Fields, Reader
  <1>16. CASE screen = Users
    BY <1>16 DEF Users, Dialog, Reader
  <1>17. CASE screen = Fraud
    BY <1>17 DEF Fraud, Reader
  <1>18. CASE screen = Team
    BY <1>18 DEF Team, Dialog, Reader
  <1>19. CASE screen = Notifications
    BY <1>19 DEF Notifications, Dialog, Reader
  <1>20. CASE screen = BonusPulse
    BY <1>20 DEF BonusPulse, Dialog, Reader
  <1>21. CASE screen = MTNPushUpload
    BY <1>21 DEF MTNPushUpload, BonusPulse, Dialog, Reader
  <1>22. CASE screen = MTNPushUploadDetail
    BY <1>22 DEF MTNPushUploadDetail, Reader
  <1>23. CASE screen = Networks
    BY <1>23 DEF Networks, Reader
  <1>24. CASE screen = Recharges
    BY <1>24 DEF Recharges, Reader
  <1>25. CASE screen = Disputes
    BY <1>25 DEF Disputes, Reader
  <1>26. CASE screen = Generations
    BY <1>26 DEF Generations, Reader
  <1>27. CASE screen = Dashboard
    BY <1>27 DEF Dashboard, Reader
  <1>28. CASE screen = Health
    BY <1>28 DEF Health, Reader
  <1>29. CASE screen = AIHealth
    BY <1>29 DEF AIHealth, Reader
  <1>. QED
    BY <1>1, <1>2, <1>3, <1>4, <1>5, <1>6, <1>7, <1>8, <1>9, <1>10, <1>11, <1>12, <1>13, <1>14,
       <1>15, <1>16, <1>17, <1>18, <1>19, <1>20, <1>21, <1>22, <1>23, <1>24, <1>25, <1>26, <1>27,
       <1>28, <1>29 DEF Screens

Calls == [Call -> RequestType \cup {None}]

LEMMA UsedRows == Used \subseteq Row
  BY DEF Used

LEMMA RowsMade ==
  /\ Nothing \in [Row -> Value \cup {None}] /\ Rows \subseteq [Row -> Value \cup {None}]
  /\ <<>> \in UNION {[set -> Value] : set \in SUBSET Row}
  /\ \A r \in Row, v \in Value : Only(r, v) \in UNION {[set -> Value] : set \in SUBSET Row}
  /\ \A write \in UNION {[set -> Value] : set \in SUBSET Row}, rows \in Rows : Over(write, rows) \in Rows
  <1>1. <<>> \in [{} -> Value] /\ {} \in SUBSET Row
    OBVIOUS
  <1>2. ASSUME NEW r \in Row, NEW v \in Value PROVE Only(r, v) \in [{r} -> Value] /\ {r} \in SUBSET Row
    BY DEF Only
  <1>3. ASSUME NEW set \in SUBSET Row, NEW write \in [set -> Value], NEW rows \in Rows
        PROVE  Over(write, rows) \in Rows
    BY DEF Over, Rows
  <1>4. Nothing \in [Row -> Value \cup {None}] /\ Rows \subseteq [Row -> Value \cup {None}]
    BY DEF Nothing, Rows
  <1>5. <<>> \in UNION {[set -> Value] : set \in SUBSET Row}
    BY <1>1, Zenon
  <1>6. ASSUME NEW r \in Row, NEW v \in Value
        PROVE  Only(r, v) \in UNION {[set -> Value] : set \in SUBSET Row}
    <2>1. Only(r, v) \in [{r} -> Value] /\ {r} \in SUBSET Row
      BY <1>2
    <2>. QED
      BY <2>1
  <1>7. ASSUME NEW write \in UNION {[set -> Value] : set \in SUBSET Row}, NEW rows \in Rows
        PROVE  Over(write, rows) \in Rows
    <2>1. PICK set \in SUBSET Row : write \in [set -> Value]
      BY Zenon
    <2>. QED
      BY <1>3, <2>1
  <1>. QED
    BY <1>4, <1>5, <1>6, <1>7

\* What is asked is well-formed, and does not count yet.
LEMMA RequestMade ==
  ASSUME SessionTypeOK, NEW op \in {"load", "save", "logout"}, NEW of \in {"load", "edit", "touch", "logout"},
         NEW write \in UNION {[set -> Value] : set \in SUBSET Row}, NEW v \in View
  PROVE  /\ Request(op, of, write, v) \in RequestType /\ Request(op, of, write, v) # None
         /\ Request(op, of, write, v).op = op /\ Request(op, of, write, v).state = "out"
         /\ ~Request(op, of, write, v).crossed /\ Request(op, of, write, v).view = v
         /\ Request(op, of, write, v).of = of
  <1>. DEFINE q == Request(op, of, write, v)
  <1>1. tab.access \in Nat /\ tab.refresh \in Nat
    BY DEF SessionTypeOK
  <1>2. (IF op = "logout" THEN tab.refresh ELSE 0) \in Nat
    BY <1>1
  <1>3. Nothing \in [Row -> Value \cup {None}]
    BY RowsMade
  <1>4. q \in RequestType
    BY <1>1, <1>2, <1>3 DEF Request, RequestType
  <1>5. q # None
    BY <1>4, NoneAssumption
  <1>. QED
    BY <1>4, <1>5 DEF Request

\* The marks put on a request.
LEMMA RequestMarked ==
  ASSUME NEW q \in RequestType
  PROVE  /\ q # None
         /\ \A state \in {"out", "denied", "waiting", "back"} :
               /\ [q EXCEPT !.state = state] \in RequestType
               /\ \A ok \in BOOLEAN, rows \in Rows :
                     [q EXCEPT !.state = state, !.ok = ok, !.rows = rows] \in RequestType
               /\ \A again \in BOOLEAN, pair \in Nat :
                     [q EXCEPT !.state = state, !.again = again, !.pair = pair] \in RequestType
         /\ [q EXCEPT !.crossed = TRUE] \in RequestType
         /\ \A pair \in Nat : [q EXCEPT !.pair = pair] \in RequestType
         /\ \A of \in {"load", "edit", "touch", "logout"} : [q EXCEPT !.of = of] \in RequestType
  <1>1. q # None
    BY NoneAssumption
  <1>2. ASSUME NEW state \in {"out", "denied", "waiting", "back"}
        PROVE  [q EXCEPT !.state = state] \in RequestType
    BY DEF RequestType
  <1>3. ASSUME NEW state \in {"out", "denied", "waiting", "back"}, NEW ok \in BOOLEAN, NEW rows \in Rows
        PROVE  [q EXCEPT !.state = state, !.ok = ok, !.rows = rows] \in RequestType
    <2>1. rows \in [Row -> Value \cup {None}]
      BY RowsMade
    <2>. QED
      BY <2>1 DEF RequestType
  <1>4. ASSUME NEW state \in {"out", "denied", "waiting", "back"}, NEW again \in BOOLEAN, NEW pair \in Nat
        PROVE  [q EXCEPT !.state = state, !.again = again, !.pair = pair] \in RequestType
    BY DEF RequestType
  <1>5. [q EXCEPT !.crossed = TRUE] \in RequestType
    BY DEF RequestType
  <1>6. ASSUME NEW pair \in Nat PROVE [q EXCEPT !.pair = pair] \in RequestType
    BY DEF RequestType
  <1>7. ASSUME NEW of \in {"load", "edit", "touch", "logout"} PROVE [q EXCEPT !.of = of] \in RequestType
    BY DEF RequestType
  <1>. QED
    BY <1>1, <1>2, <1>3, <1>4, <1>5, <1>6, <1>7

\* The fields of a request after a mark.
LEMMA MarkedFields ==
  ASSUME NEW calls \in Calls, NEW set, NEW d \in Call
  PROVE  /\ Mark(calls, set) \in Calls
         /\ Mark(calls, set)[d] = None <=> calls[d] = None
         /\ (calls[d] # None /\ d \in set) => Mark(calls, set)[d] = [calls[d] EXCEPT !.crossed = TRUE]
         /\ d \notin set => Mark(calls, set)[d] = calls[d]
  <1>1. ASSUME NEW e \in Call
        PROVE  /\ Mark(calls, set)[e] \in RequestType \cup {None}
               /\ Mark(calls, set)[e] = None <=> calls[e] = None
    <2>1. CASE e \in set /\ calls[e] # None
      <3>1. calls[e] \in RequestType /\ Mark(calls, set)[e] = [calls[e] EXCEPT !.crossed = TRUE]
        BY <2>1 DEF Calls, Mark
      <3>. QED
        BY <2>1, <3>1, RequestMarked
    <2>2. CASE ~(e \in set /\ calls[e] # None)
      <3>1. Mark(calls, set)[e] = calls[e] /\ calls[e] \in RequestType \cup {None}
        BY <2>2 DEF Mark, Calls
      <3>. QED
        BY <3>1
    <2>. QED
      BY <2>1, <2>2
  <1>2. Mark(calls, set) \in Calls
    BY <1>1 DEF Mark, Calls
  <1>. QED
    BY <1>1, <1>2 DEF Mark

\* The places of requests: an answer on its way carries the rows of the server, only a change writes.
Fit(q) ==
  /\ q \in RequestType
  /\ q.state = "back" => q.rows \in Rows
  /\ q.op # "save" => q.write = <<>>

FitCalls == {calls \in Calls : \A c \in Call : calls[c] # None => Fit(calls[c])}

LEMMA CallsAreFit ==
  ASSUME TypeOK
  PROVE  call \in FitCalls
  BY DEF TypeOK, FitCalls, Calls, Fit

LEMMA FitTyped ==
  ASSUME call' \in FitCalls
  PROVE  /\ call' \in [Call -> RequestType \cup {None}]
         /\ \A c \in Call : call'[c] # None =>
               /\ (call'[c].state = "back" => call'[c].rows \in Rows)
               /\ (call'[c].op # "save" => call'[c].write = <<>>)
  BY DEF FitCalls, Calls, Fit

\* A place is taken, or set free.
LEMMA PlaceTaken ==
  ASSUME NEW calls \in FitCalls, NEW c \in Call, NEW q, q # None => Fit(q)
  PROVE  [calls EXCEPT ![c] = q] \in FitCalls
  BY DEF FitCalls, Calls, Fit

LEMMA PlacesMarked ==
  ASSUME NEW calls \in FitCalls, NEW set
  PROVE  Mark(calls, set) \in FitCalls
  <1>1. calls \in Calls
    BY DEF FitCalls
  <1>2. ASSUME NEW d \in Call, Mark(calls, set)[d] # None
        PROVE  Fit(Mark(calls, set)[d])
    <2>1. calls[d] # None
      BY <1>1, <1>2, MarkedFields
    <2>2. calls[d] \in RequestType /\ Fit(calls[d])
      BY <1>1, <2>1 DEF FitCalls, Calls
    <2>3. CASE d \in set
      <3>1. Mark(calls, set)[d] = [calls[d] EXCEPT !.crossed = TRUE]
        BY <2>1, <2>3 DEF Mark
      <3>2. [calls[d] EXCEPT !.crossed = TRUE] \in RequestType
        BY <2>2, RequestMarked
      <3>3. Fit([calls[d] EXCEPT !.crossed = TRUE])
        BY <2>2, <3>2 DEF Fit, RequestType
      <3>. QED
        BY <3>1, <3>3
    <2>4. CASE d \notin set
      BY <1>1, <2>2, <2>4, MarkedFields
    <2>. QED
      BY <2>3, <2>4
  <1>3. Mark(calls, set) \in Calls
    BY <1>1, MarkedFields, ConsoleAssumption DEF Mark, Calls
  <1>. QED
    BY <1>2, <1>3 DEF FitCalls

ListTypeOK ==
  /\ screen \in Screens /\ at \in {"login", "screen"}
  /\ store \in Rows /\ shown \in [view : View, rows : Rows] \cup {None} /\ view \in View
  /\ draft \in [Row -> Value \cup {None}] /\ saving \in Row \cup {None} /\ excused \in BOOLEAN

LEMMA PartsTyped ==
  /\ TypeOK => /\ ListTypeOK /\ call \in FitCalls /\ served \in Seq(Call)
               /\ SessionTypeOK /\ expired \in Nat
  /\ ListTypeOK' /\ call' \in FitCalls /\ served' \in Seq(Call) /\ SessionTypeOK' /\ expired' \in Nat
     => TypeOK'
  <1>1. ASSUME TypeOK
        PROVE  ListTypeOK /\ call \in FitCalls /\ served \in Seq(Call) /\ SessionTypeOK /\ expired \in Nat
    BY <1>1, CallsAreFit DEF TypeOK, ListTypeOK
  <1>2. ASSUME ListTypeOK', call' \in FitCalls, served' \in Seq(Call), SessionTypeOK', expired' \in Nat
        PROVE  TypeOK'
    BY <1>2, FitTyped DEF TypeOK, ListTypeOK
  <1>. QED
    BY <1>1, <1>2

\* A new request, with the token and the button it is sent for.
LEMMA RequestFits ==
  ASSUME SessionTypeOK, NEW op \in {"load", "save", "logout"}, NEW of \in {"load", "edit", "touch", "logout"},
         NEW write \in UNION {[set -> Value] : set \in SUBSET Row}, NEW v \in View,
         op = "save" \/ write = <<>>
  PROVE  /\ Fit(Request(op, of, write, v))
         /\ \A pair \in Nat : Fit([Request(op, of, write, v) EXCEPT !.pair = pair])
         /\ \A button \in {"load", "edit", "touch", "logout"} :
               Fit([Request(op, of, write, v) EXCEPT !.of = button])
  <1>. DEFINE q == Request(op, of, write, v)
  <1>1. q \in RequestType /\ q.op = op /\ q.state = "out"
    BY RequestMade
  <1>2. q.write = write
    BY DEF Request
  <1>. HIDE DEF q
  <1>3. ASSUME NEW pair \in Nat PROVE Fit([q EXCEPT !.pair = pair])
    <2>1. [q EXCEPT !.pair = pair] \in RequestType
      BY <1>1, RequestMarked
    <2>. QED
      BY <1>1, <1>2, <2>1 DEF Fit, RequestType
  <1>4. ASSUME NEW button \in {"load", "edit", "touch", "logout"} PROVE Fit([q EXCEPT !.of = button])
    <2>1. [q EXCEPT !.of = button] \in RequestType
      BY <1>1, RequestMarked
    <2>. QED
      BY <1>1, <1>2, <2>1 DEF Fit, RequestType
  <1>5. Fit(q)
    BY <1>1, <1>2 DEF Fit
  <1>. QED
    BY <1>3, <1>4, <1>5 DEF q

LEMMA LoadFits ==
  ASSUME SessionTypeOK, NEW v \in View
  PROVE  /\ Fit(Load(v)) /\ Load(v).op = "load" /\ Load(v).state = "out" /\ ~Load(v).crossed /\ Load(v) # None
         /\ \A pair \in Nat : Fit([Load(v) EXCEPT !.pair = pair])
         /\ \A button \in {"load", "edit", "touch", "logout"} : Fit([Load(v) EXCEPT !.of = button])
  <1>1. <<>> \in UNION {[set -> Value] : set \in SUBSET Row}
    BY RowsMade
  <1>2. /\ Fit(Load(v))
        /\ \A pair \in Nat : Fit([Load(v) EXCEPT !.pair = pair])
        /\ \A button \in {"load", "edit", "touch", "logout"} : Fit([Load(v) EXCEPT !.of = button])
    BY <1>1, RequestFits DEF Load
  <1>3. Load(v).op = "load" /\ Load(v).state = "out" /\ ~Load(v).crossed /\ Load(v) # None
    <2>. DEFINE q == Request("load", "load", <<>>, v)
    <2>1. q # None
      BY <1>2, NoneAssumption DEF Load, Fit
    <2>2. q.op = "load" /\ q.state = "out" /\ ~q.crossed
      BY DEF Request
    <2>. QED
      BY <2>1, <2>2 DEF Load
  <1>. QED
    BY <1>2, <1>3

\* What is sent of the drafts.
LEMMA WrittenTyped ==
  ASSUME ListTypeOK, DraftInv, NEW r \in Row, draft[r] # None
  PROVE  Written(r) \in UNION {[set -> Value] : set \in SUBSET Row}
  <1>1. CASE screen.whole
    <2>1. shown # None /\ shown.rows \in Rows
      <3>1. shown # None
        BY <1>1 DEF DraftInv, Editing
      <3>. QED
        BY <3>1 DEF ListTypeOK
    <2>2. ASSUME NEW s \in Row
          PROVE  (IF draft[s] = None THEN shown.rows[s] ELSE draft[s]) \in Value
      BY <2>1 DEF ListTypeOK, Rows
    <2>3. Written(r) \in [Row -> Value]
      BY <1>1, <2>2 DEF Written
    <2>4. Row \in SUBSET Row
      OBVIOUS
    <2>. QED
      BY <2>3, <2>4
  <1>2. CASE ~screen.whole
    <2>1. draft[r] \in Value
      BY DEF ListTypeOK
    <2>. QED
      BY <1>2, <2>1, RowsMade DEF Written
  <1>. QED
    BY <1>1, <1>2

\* An answer only takes drafts away.
LEMMA DraftsTyped ==
  ASSUME ListTypeOK, NEW c \in Call, NEW rows \in Rows
  PROVE  /\ Wiped(rows) \in [Row -> Value \cup {None}] /\ Closed(c) \in [Row -> Value \cup {None}]
         /\ \A r \in Row : (Wiped(rows)[r] # None => draft[r] # None) /\ (Closed(c)[r] # None => draft[r] # None)
  <1>1. ASSUME NEW r \in Row
        PROVE  /\ Wiped(rows)[r] = None \/ Wiped(rows)[r] = draft[r]
               /\ Closed(c)[r] = None \/ Closed(c)[r] = draft[r]
    BY DEF Wiped, Closed
  <1>2. Wiped(rows) \in [Row -> Value \cup {None}]
    BY <1>1 DEF Wiped, ListTypeOK
  <1>3. Closed(c) \in [Row -> Value \cup {None}]
    BY <1>1 DEF Closed, ListTypeOK
  <1>. QED
    BY <1>1, <1>2, <1>3

LEMMA PatchedTyped ==
  ASSUME ListTypeOK, NEW c \in Call, call[c] # None, Fit(call[c]), NEW how,
         how = "answer" => call[c].rows \in Rows
  PROVE  /\ Patched(c, how) \in [view : View, rows : Rows] \cup {None}
         /\ Patched(c, how) = None <=> shown = None
         /\ shown # None => /\ Patched(c, how).view = shown.view
                            /\ Patched(c, how).rows = IF how = "answer" THEN call[c].rows
                                                      ELSE Over(call[c].write, shown.rows)
  <1>1. CASE shown = None
    BY <1>1 DEF Patched
  <1>2. CASE shown # None
    <2>1. shown \in [view : View, rows : Rows]
      BY <1>2 DEF ListTypeOK
    <2>2. call[c].write \in UNION {[set -> Value] : set \in SUBSET Row}
      BY DEF Fit, RequestType
    <2>3. Over(call[c].write, shown.rows) \in Rows
      BY <2>1, <2>2, RowsMade
    <2>4. PICK rows \in Rows : rows = IF how = "answer" THEN call[c].rows ELSE Over(call[c].write, shown.rows)
      BY <2>3
    <2>5. Patched(c, how) = [shown EXCEPT !.rows = rows]
      BY <1>2, <2>4 DEF Patched
    <2>6. [shown EXCEPT !.rows = rows] \in [view : View, rows : Rows]
      BY <2>1, <2>4
    <2>7. [shown EXCEPT !.rows = rows].rows = rows /\ [shown EXCEPT !.rows = rows].view = shown.view
      BY <2>1
    <2>8. [shown EXCEPT !.rows = rows] # None
      BY <2>6, NoneAssumption
    <2>. QED
      BY <1>2, <2>4, <2>5, <2>6, <2>7, <2>8
  <1>. QED
    BY <1>1, <1>2

\* Where an answer stands among those on their way, and what is left when it arrives.
LEMMA AnswerTaken ==
  ASSUME served \in Seq(Call), ServedInv, NEW c \in Call, call[c] # None, call[c].state = "back"
  PROVE  /\ Position(c) \in 1 .. Len(served) /\ served[Position(c)] = c
         /\ Without(c) \in Seq(Call) /\ Len(Without(c)) = Len(served) - 1
         /\ \A i \in 1 .. Len(served) - 1 :
               Without(c)[i] = served[IF i < Position(c) THEN i ELSE i + 1]
  <1>. DEFINE p == Position(c)
              n == Len(served)
              before == SubSeq(served, 1, p - 1)
              after == SubSeq(served, p + 1, n)
  <1>1. n \in Nat /\ DOMAIN served = 1 .. n
    BY LenProperties
  <1>2. p \in 1 .. n /\ served[p] = c
    <2>1. \E i \in DOMAIN served : served[i] = c
      BY DEF ServedInv
    <2>. QED
      BY <1>1, <2>1 DEF Position
  <1>3. \A i \in 1 .. n : served[i] \in Call
    BY ElementOfSeq
  <1>. HIDE DEF p, n
  <1>4. before \in Seq(Call) /\ Len(before) = p - 1 /\ \A i \in 1 .. p - 1 : before[i] = served[i]
    <2>1. \A i \in 1 .. p - 1 : served[i] \in Call
      BY <1>1, <1>2, <1>3
    <2>2. /\ before \in Seq(Call) /\ Len(before) = IF 1 <= p - 1 THEN (p - 1) - 1 + 1 ELSE 0
          /\ \A i \in 1 .. (p - 1) - 1 + 1 : before[i] = served[1 + i - 1]
      BY <1>1, <1>2, <2>1, SubSeqProperties
    <2>. QED
      BY <1>1, <1>2, <2>2
  <1>5. after \in Seq(Call) /\ Len(after) = n - p /\ \A i \in 1 .. n - p : after[i] = served[p + i]
    <2>1. \A i \in p + 1 .. n : served[i] \in Call
      BY <1>1, <1>2, <1>3
    <2>2. /\ after \in Seq(Call) /\ Len(after) = IF p + 1 <= n THEN n - (p + 1) + 1 ELSE 0
          /\ \A i \in 1 .. n - (p + 1) + 1 : after[i] = served[(p + 1) + i - 1]
      BY <1>1, <1>2, <2>1, SubSeqProperties
    <2>. QED
      BY <1>1, <1>2, <2>2
  <1>6. Without(c) = before \o after
    BY DEF Without, p, n
  <1>. HIDE DEF before, after
  <1>7. /\ Without(c) \in Seq(Call) /\ Len(Without(c)) = n - 1
        /\ \A i \in 1 .. n - 1 :
              Without(c)[i] = IF i <= p - 1 THEN before[i] ELSE after[i - (p - 1)]
    <2>1. /\ before \o after \in Seq(Call) /\ Len(before \o after) = Len(before) + Len(after)
          /\ \A i \in 1 .. Len(before) + Len(after) :
                (before \o after)[i] = IF i <= Len(before) THEN before[i] ELSE after[i - Len(before)]
      <3>1. before \in Seq(Call) /\ after \in Seq(Call)
        BY <1>4, <1>5
      <3>. QED
        BY <3>1, ConcatProperties, Zenon
    <2>2. Len(before) = p - 1 /\ Len(before) + Len(after) = n - 1
      BY <1>1, <1>2, <1>4, <1>5
    <2>. QED
      BY <1>6, <2>1, <2>2
  <1>8. ASSUME NEW i \in 1 .. n - 1
        PROVE  Without(c)[i] = served[IF i < p THEN i ELSE i + 1]
    <2>1. CASE i < p
      BY <1>1, <1>2, <1>4, <1>7, <2>1
    <2>2. CASE ~(i < p)
      <3>1. i - (p - 1) \in 1 .. n - p
        BY <1>1, <1>2, <2>2
      <3>2. after[i - (p - 1)] = served[p + (i - (p - 1))] /\ p + (i - (p - 1)) = i + 1
        BY <1>1, <1>2, <1>5, <3>1
      <3>. QED
        BY <1>1, <1>2, <1>7, <2>2, <3>2
    <2>. QED
      BY <2>1, <2>2
  <1>. QED
    BY <1>2, <1>7, <1>8 DEF p, n

\* The answer of a request that was not served takes nothing from the others.
LEMMA WithoutTyped ==
  ASSUME served \in Seq(Call), ServedInv, NEW c \in Call, call[c] # None
  PROVE  Without(c) \in Seq(Call)
  <1>1. CASE call[c].state = "back"
    BY <1>1, AnswerTaken
  <1>2. CASE call[c].state # "back"
    BY <1>2 DEF Without
  <1>. QED
    BY <1>1, <1>2

\* A request ends, and may be followed by another.
LEMMA EndTyped ==
  ASSUME TypeOK, ServedInv, NEW c \in Call, call[c] # None, NEW q, q # None => Fit(q),
         call' = Mark([call EXCEPT ![c] = q], Overtaken(c)), served' = Without(c)
  PROVE  call' \in FitCalls /\ served' \in Seq(Call)
  <1>1. call \in FitCalls /\ served \in Seq(Call)
    BY PartsTyped
  <1>2. [call EXCEPT ![c] = q] \in FitCalls
    BY <1>1, PlaceTaken
  <1>. QED
    BY <1>1, <1>2, PlacesMarked, WithoutTyped

LEMMA ServeTyped ==
  ASSUME TypeOK, DraftInv, SessionTypeOK', NEW c \in Call, Serve(c)
  PROVE  TypeOK' /\ DraftInv'
  <1>1. ListTypeOK /\ call \in FitCalls /\ served \in Seq(Call) /\ expired \in Nat
    BY PartsTyped
  <1>2. call[c] # None /\ Fit(call[c]) /\ call[c] \in RequestType
    BY <1>1 DEF Serve, FitCalls, Fit
  <1>3. CASE call[c].pair <= expired
    <2>1. Fit([call[c] EXCEPT !.state = "denied"])
      <3>1. [call[c] EXCEPT !.state = "denied"] \in RequestType
        BY <1>2, RequestMarked
      <3>. QED
        BY <1>2, <3>1 DEF Fit, RequestType
    <2>2. call' = [call EXCEPT ![c] = [call[c] EXCEPT !.state = "denied"]]
      BY <1>3 DEF Serve
    <2>3. call' \in FitCalls
      BY <1>1, <2>1, <2>2, PlaceTaken
    <2>4. ListTypeOK' /\ served' \in Seq(Call) /\ expired' \in Nat /\ DraftInv'
      BY <1>1, <1>3 DEF Serve, ListTypeOK, DraftInv, Editing
    <2>. QED
      BY <2>3, <2>4, PartsTyped
  <1>4. CASE ~(call[c].pair <= expired)
    <2>1. PICK ok \in BOOLEAN, rows \in {Over(call[c].write, store), store} :
             /\ rows = IF ok THEN Over(call[c].write, store) ELSE store
             /\ store' = rows /\ served' = Append(served, c)
             /\ call' = [call EXCEPT ![c].state = "back", ![c].ok = ok, ![c].rows = rows]
      BY <1>4 DEF Serve
    <2>2. rows \in Rows
      <3>1. store \in Rows /\ call[c].write \in UNION {[set -> Value] : set \in SUBSET Row}
        BY <1>1, <1>2 DEF ListTypeOK, RequestType
      <3>. QED
        BY <2>1, <3>1, RowsMade
    <2>3. Fit([call[c] EXCEPT !.state = "back", !.ok = ok, !.rows = rows])
      <3>1. [call[c] EXCEPT !.state = "back", !.ok = ok, !.rows = rows] \in RequestType
        BY <1>2, <2>2, RequestMarked
      <3>. QED
        BY <1>2, <2>2, <3>1 DEF Fit, RequestType
    <2>4. call' = [call EXCEPT ![c] = [call[c] EXCEPT !.state = "back", !.ok = ok, !.rows = rows]]
      BY <1>1, <2>1 DEF FitCalls, Calls
    <2>5. call' \in FitCalls
      BY <1>1, <2>3, <2>4, PlaceTaken
    <2>6. served' \in Seq(Call)
      BY <1>1, <2>1, AppendProperties
    <2>7. ListTypeOK' /\ expired' \in Nat /\ DraftInv'
      BY <1>1, <2>1, <2>2 DEF Serve, ListTypeOK, DraftInv, Editing
    <2>. QED
      BY <2>5, <2>6, <2>7, PartsTyped
  <1>. QED
    BY <1>3, <1>4

LEMMA LoadAnsweredTyped ==
  ASSUME TypeOK, DraftInv, ServedInv, SessionTypeOK', NEW c \in Call, LoadAnswered(c)
  PROVE  TypeOK' /\ DraftInv'
  <1>1. ListTypeOK /\ call \in FitCalls /\ served \in Seq(Call) /\ expired \in Nat
    BY PartsTyped
  <1>2. call[c] # None /\ Fit(call[c]) /\ call[c] \in RequestType /\ call[c].rows \in Rows
    BY <1>1 DEF LoadAnswered, FitCalls, Fit
  <1>3. call' \in FitCalls /\ served' \in Seq(Call)
    BY <1>2, EndTyped DEF LoadAnswered, Ends
  <1>4. shown' \in [view : View, rows : Rows] /\ shown' # None
    <2>1. shown' = [view |-> call[c].view, rows |-> call[c].rows] /\ call[c].view \in View
      BY <1>2 DEF LoadAnswered, RequestType
    <2>2. shown' \in [view : View, rows : Rows]
      BY <1>2, <2>1
    <2>. QED
      BY <2>2, NoneAssumption
  <1>5. excused' \in BOOLEAN
    BY <1>2 DEF LoadAnswered, RequestType
  <1>6. draft' \in [Row -> Value \cup {None}]
    BY <1>1, <1>2, DraftsTyped DEF LoadAnswered
  <1>7. ListTypeOK' /\ expired' \in Nat /\ DraftInv'
    BY <1>1, <1>4, <1>5, <1>6 DEF LoadAnswered, ListTypeOK, DraftInv, session
  <1>. QED
    BY <1>3, <1>7, PartsTyped

LEMMA SaveAnsweredTyped ==
  ASSUME TypeOK, DraftInv, ServedInv, SessionTypeOK, SessionTypeOK', NEW c \in Call, SaveAnswered(c)
  PROVE  TypeOK' /\ DraftInv'
  <1>. DEFINE how == screen.after[call[c].of]
  <1>1. ListTypeOK /\ call \in FitCalls /\ served \in Seq(Call) /\ expired \in Nat
    BY PartsTyped
  <1>2. call[c] # None /\ Fit(call[c]) /\ call[c] \in RequestType /\ call[c].rows \in Rows
    BY <1>1 DEF SaveAnswered, FitCalls, Fit
  <1>3. /\ Closed(c) \in [Row -> Value \cup {None}] /\ Wiped(call[c].rows) \in [Row -> Value \cup {None}]
        /\ \A r \in Row : /\ (Closed(c)[r] # None => draft[r] # None)
                          /\ (Wiped(call[c].rows)[r] # None => draft[r] # None)
    BY <1>1, <1>2, DraftsTyped
  <1>4. draft \in [Row -> Value \cup {None}]
    BY <1>1 DEF ListTypeOK
  <1>5. CASE how = "reload"
    <2>1. Rereads(c) # None => Fit(Rereads(c))
      <3>1. call[c].view \in View /\ view \in View /\ 1 \in View /\ call[c].of \in {"load", "edit", "touch", "logout"}
        BY <1>1, <1>2 DEF ListTypeOK, RequestType, View
      <3>. QED
        BY <3>1, LoadFits DEF Rereads
    <2>2. call' \in FitCalls /\ served' \in Seq(Call)
      BY <1>2, <1>5, <2>1, EndTyped DEF SaveAnswered
    <2>3. draft' = draft \/ draft' = Closed(c)
      BY <1>5 DEF SaveAnswered
    <2>4. saving' \in Row \cup {None} /\ shown' = shown /\ excused' = excused
      BY <1>1, <1>5 DEF SaveAnswered, ListTypeOK
    <2>5. UNCHANGED <<screen, at, store, view, expired>>
      BY DEF SaveAnswered, session
    <2>6. ListTypeOK' /\ expired' \in Nat
      BY <1>1, <1>3, <2>3, <2>4, <2>5 DEF ListTypeOK
    <2>7. DraftInv'
      BY <1>3, <2>3, <2>4, <2>5 DEF DraftInv, Editing
    <2>. QED
      BY <2>2, <2>6, <2>7, PartsTyped
  <1>6. CASE how # "reload"
    <2>1. call' \in FitCalls /\ served' \in Seq(Call)
      BY <1>2, <1>6, EndTyped DEF SaveAnswered, Ends
    <2>2. draft' = draft \/ draft' = Closed(c) \/ draft' = Wiped(call[c].rows)
      BY <1>6 DEF SaveAnswered
    <2>3. shown' = Patched(c, how) /\ saving' = None /\ excused' = (excused \/ call[c].crossed)
      BY <1>6 DEF SaveAnswered
    <2>4. shown' \in [view : View, rows : Rows] \cup {None} /\ (shown' = None <=> shown = None)
      BY <1>1, <1>2, <2>3, PatchedTyped
    <2>5. excused' \in BOOLEAN
      BY <1>1, <1>2, <2>3 DEF ListTypeOK, RequestType
    <2>6. UNCHANGED <<screen, at, store, view, expired>>
      BY DEF SaveAnswered, session
    <2>7. ListTypeOK' /\ expired' \in Nat
      BY <1>1, <1>3, <2>2, <2>3, <2>4, <2>5, <2>6 DEF ListTypeOK
    <2>8. DraftInv'
      BY <1>3, <2>2, <2>4, <2>6 DEF DraftInv, Editing
    <2>. QED
      BY <2>1, <2>7, <2>8, PartsTyped
  <1>. QED
    BY <1>5, <1>6

\* A request that failed, wherever it was.
LEMMA FailsTyped ==
  ASSUME TypeOK, DraftInv, ServedInv, SessionTypeOK', NEW c \in Call, call[c] # None,
         Fails(c), Ends(c), excused' \in BOOLEAN
  PROVE  TypeOK' /\ DraftInv'
  <1>1. ListTypeOK /\ call \in FitCalls /\ served \in Seq(Call) /\ expired \in Nat
    BY PartsTyped
  <1>2. Fit(call[c])
    BY <1>1 DEF FitCalls
  <1>3. call' \in FitCalls /\ served' \in Seq(Call)
    BY EndTyped DEF Ends
  <1>4. /\ Patched(c, "patch") \in [view : View, rows : Rows] \cup {None}
        /\ Patched(c, "patch") = None <=> shown = None
    BY <1>1, <1>2, PatchedTyped
  <1>5. /\ shown' \in [view : View, rows : Rows] \cup {None}
        /\ screen.whole => (shown' = None => shown = None)
    <2>1. shown' = Patched(c, "patch") \/ shown' = shown \/ (screen.raw /\ shown' = None)
      BY DEF Fails
    <2>2. screen.whole => ~screen.raw
      BY <1>1, ScreenFacts DEF ListTypeOK
    <2>. QED
      BY <1>1, <1>4, <2>1, <2>2 DEF ListTypeOK
  <1>6. store \in Rows /\ \A r \in Row : Closed(c)[r] # None => draft[r] # None
    BY <1>1, DraftsTyped DEF ListTypeOK
  <1>7. draft' \in [Row -> Value \cup {None}] /\ \A r \in Row : draft'[r] # None => draft[r] # None
    <2>1. Closed(c) \in [Row -> Value \cup {None}]
      BY <1>1, <1>6, DraftsTyped
    <2>2. draft' = Closed(c) \/ draft' = draft
      BY DEF Fails
    <2>. QED
      BY <1>1, <1>6, <2>1, <2>2 DEF ListTypeOK
  <1>8. saving' \in Row \cup {None} /\ UNCHANGED <<screen, at, store, view, expired>>
    BY <1>1 DEF Fails, ListTypeOK, session
  <1>9. ListTypeOK' /\ expired' \in Nat
    BY <1>1, <1>5, <1>7, <1>8 DEF ListTypeOK
  <1>10. DraftInv'
    BY <1>5, <1>7, <1>8 DEF DraftInv, Editing
  <1>. QED
    BY <1>3, <1>9, <1>10, PartsTyped

\* The page is left.
LEMMA UnmountedTyped ==
  ASSUME TypeOK, SessionTypeOK', Unmounted, UNCHANGED <<screen, store, expired>>
  PROVE  TypeOK' /\ DraftInv'
  <1>1. ListTypeOK /\ expired \in Nat
    BY PartsTyped
  <1>2. call' \in FitCalls
    BY DEF Unmounted, FitCalls, Calls
  <1>3. served' \in Seq(Call)
    BY EmptySeq DEF Unmounted
  <1>4. ListTypeOK'
    <2>1. Nothing \in [Row -> Value \cup {None}]
      BY RowsMade
    <2>2. /\ shown' = None /\ draft' = Nothing /\ saving' = None /\ excused' = FALSE
          /\ view' = 1 /\ at' = "login" /\ UNCHANGED <<screen, store>>
      BY DEF Unmounted
    <2>3. 1 \in View
      BY DEF View
    <2>. QED
      BY <1>1, <2>1, <2>2, <2>3 DEF ListTypeOK
  <1>5. DraftInv'
    BY DEF Unmounted, DraftInv, Editing, Nothing
  <1>. QED
    BY <1>1, <1>2, <1>3, <1>4, <1>5, PartsTyped

\* The list is left as it is, but for the requests under way.
LEMMA KeptTyped ==
  ASSUME TypeOK, DraftInv, SessionTypeOK', UNCHANGED <<screen, list>>, at' \in {"login", "screen"},
         call' \in FitCalls, expired' \in Nat
  PROVE  TypeOK' /\ DraftInv'
  <1>1. ListTypeOK /\ served \in Seq(Call)
    BY PartsTyped
  <1>2. ListTypeOK' /\ served' \in Seq(Call) /\ DraftInv'
    BY <1>1 DEF ListTypeOK, DraftInv, Editing, list
  <1>. QED
    BY <1>2, PartsTyped

LEMMA SentTyped ==
  ASSUME TypeOK, NEW q, Fit(q), Send(q)
  PROVE  call' \in FitCalls
  <1>1. PICK c \in Free : call' = [call EXCEPT ![c] = q]
    BY DEF Send
  <1>2. call \in FitCalls /\ c \in Call
    BY PartsTyped DEF Free
  <1>. QED
    BY <1>1, <1>2, PlaceTaken

LEMMA SilentRefreshTyped ==
  ASSUME TypeOK, DraftInv, SessionTypeOK', NEW c \in Call, SilentRefresh(c)
  PROVE  TypeOK' /\ DraftInv'
  <1>1. call \in FitCalls /\ expired \in Nat /\ at \in {"login", "screen"}
    BY PartsTyped DEF ListTypeOK
  <1>2. call[c] # None /\ Fit(call[c]) /\ call[c] \in RequestType
    BY <1>1 DEF SilentRefresh, FitCalls, Fit
  <1>3. Fit([call[c] EXCEPT !.state = "waiting"])
    <2>1. [call[c] EXCEPT !.state = "waiting"] \in RequestType
      BY <1>2, RequestMarked
    <2>. QED
      BY <1>2, <2>1 DEF Fit, RequestType
  <1>4. call' = [call EXCEPT ![c] = [call[c] EXCEPT !.state = "waiting"]]
    BY DEF SilentRefresh
  <1>5. call' \in FitCalls
    BY <1>1, <1>3, <1>4, PlaceTaken
  <1>. QED
    BY <1>1, <1>5, KeptTyped DEF SilentRefresh, SessionOf

LEMMA RefreshAnsweredTyped ==
  ASSUME TypeOK, DraftInv, SessionTypeOK', NEW q \in asking, RefreshAnswered(q)
  PROVE  TypeOK' /\ DraftInv'
  <1>1. call \in FitCalls /\ expired \in Nat /\ at \in {"login", "screen"} /\ q.new \in Nat
    BY PartsTyped DEF ListTypeOK, SessionTypeOK
  <1>2. ASSUME NEW c \in Call
        PROVE  call'[c] = None \/ Fit(call'[c])
    <2>1. call[c] = None \/ (call[c] \in RequestType /\ Fit(call[c]))
      BY <1>1 DEF FitCalls, Calls
    <2>2. CASE call[c] # None /\ call[c].state = "waiting"
      <3>1. call'[c] = [call[c] EXCEPT !.state = "out", !.again = TRUE, !.pair = q.new]
        BY <2>2 DEF RefreshAnswered
      <3>2. [call[c] EXCEPT !.state = "out", !.again = TRUE, !.pair = q.new] \in RequestType
        BY <1>1, <2>1, <2>2, RequestMarked
      <3>3. Fit([call[c] EXCEPT !.state = "out", !.again = TRUE, !.pair = q.new])
        BY <2>1, <2>2, <3>2 DEF Fit, RequestType
      <3>. QED
        BY <3>1, <3>3
    <2>3. CASE ~(call[c] # None /\ call[c].state = "waiting")
      BY <2>1, <2>3 DEF RefreshAnswered
    <2>. QED
      BY <2>2, <2>3
  <1>3. call' \in FitCalls
    <2>1. call' = [c \in Call |-> call'[c]]
      BY DEF RefreshAnswered
    <2>2. \A c \in Call : call'[c] \in RequestType \cup {None}
      BY <1>2 DEF Fit
    <2>. QED
      BY <1>2, <2>1, <2>2 DEF FitCalls, Calls
  <1>. QED
    BY <1>1, <1>3, KeptTyped DEF RefreshAnswered, SessionOf

\* A page opens, and reads its list.
LEMMA MountedTyped ==
  ASSUME TypeOK, DraftInv, SessionTypeOK', NEW access \in Nat, Mounted(access), UNCHANGED <<screen, list, expired>>
  PROVE  TypeOK' /\ DraftInv'
  <1>1. call \in FitCalls /\ SessionTypeOK /\ expired \in Nat
    BY PartsTyped
  <1>2. PICK c \in Call : call' = [call EXCEPT ![c] = [Load(1) EXCEPT !.pair = access]]
    BY DEF Mounted
  <1>3. Fit([Load(1) EXCEPT !.pair = access])
    BY <1>1, LoadFits DEF View
  <1>4. call' \in FitCalls
    BY <1>1, <1>2, <1>3, PlaceTaken
  <1>. QED
    BY <1>1, <1>4, KeptTyped DEF Mounted

LEMMA SessionStepTyped ==
  ASSUME TypeOK, DraftInv, SessionTypeOK',
         \/ \E q \in asking : RefreshServed(q)
         \/ ProactiveRefresh \/ Expires \/ Login \/ Returns
  PROVE  TypeOK' /\ DraftInv'
  <1>1. call \in FitCalls /\ SessionTypeOK /\ expired \in Nat /\ at \in {"login", "screen"}
    BY PartsTyped DEF ListTypeOK
  <1>2. ASSUME NEW q \in asking, RefreshServed(q) PROVE TypeOK' /\ DraftInv'
    BY <1>1, <1>2, KeptTyped DEF RefreshServed
  <1>3. CASE ProactiveRefresh
    BY <1>1, <1>3, KeptTyped DEF ProactiveRefresh, SessionOf
  <1>4. CASE Expires
    <2>1. expired' \in Nat
      BY <1>1, <1>4 DEF Expires
    <2>. QED
      BY <1>1, <1>4, <2>1, KeptTyped DEF Expires
  <1>5. CASE Login
    <2>1. issued + 1 \in Nat
      BY <1>1 DEF SessionTypeOK
    <2>. QED
      BY <1>5, <2>1, MountedTyped DEF Login
  <1>6. CASE Returns
    <2>1. tab.access \in Nat
      BY <1>1 DEF SessionTypeOK
    <2>. QED
      BY <1>6, <2>1, MountedTyped DEF Returns, session
  <1>. QED
    BY <1>2, <1>3, <1>4, <1>5, <1>6

LEMMA OperatorTyped ==
  ASSUME TypeOK, DraftInv, SessionTypeOK',
         \/ SignOut \/ Reload
         \/ \E v \in View : Select(v)
         \/ \E r \in Used : Cancel(r) \/ Save(r)
         \/ \E r \in Used, v \in Value : Type(r, v) \/ Touch(r, v) \/ OthersWrite(r, v)
  PROVE  TypeOK' /\ DraftInv'
  <1>1. ListTypeOK /\ call \in FitCalls /\ SessionTypeOK /\ served \in Seq(Call) /\ expired \in Nat
        /\ at \in {"login", "screen"} /\ view \in View
    BY PartsTyped DEF ListTypeOK
  <1>2. CASE SignOut
    <2>1. Fit(Request("logout", "logout", <<>>, view))
      BY <1>1, RequestFits, RowsMade
    <2>2. call' \in FitCalls
      BY <1>2, <2>1, SentTyped DEF SignOut
    <2>. QED
      BY <1>1, <1>2, <2>2, KeptTyped DEF SignOut, session
  <1>3. CASE Reload
    <2>1. call' \in FitCalls
      BY <1>1, <1>3, LoadFits, SentTyped DEF Reload
    <2>. QED
      BY <1>1, <1>3, <2>1, KeptTyped DEF Reload, session
  <1>4. ASSUME NEW v \in View, Select(v) PROVE TypeOK' /\ DraftInv'
    <2>1. call' \in FitCalls
      BY <1>1, <1>4, LoadFits, SentTyped DEF Select
    <2>2. ListTypeOK' /\ served' \in Seq(Call) /\ expired' \in Nat /\ DraftInv'
      BY <1>1, <1>4 DEF Select, ListTypeOK, DraftInv, Editing, session
    <2>. QED
      BY <2>1, <2>2, PartsTyped
  <1>5. ASSUME NEW r \in Used, Cancel(r) PROVE TypeOK' /\ DraftInv'
    <2>1. draft' = Nothing /\ Nothing \in [Row -> Value \cup {None}]
      BY <1>5, RowsMade DEF Cancel
    <2>2. ListTypeOK' /\ served' \in Seq(Call) /\ expired' \in Nat /\ call' \in FitCalls
      BY <1>1, <1>5, <2>1 DEF Cancel, ListTypeOK, session
    <2>3. DraftInv'
      BY <2>1 DEF DraftInv, Editing, Nothing
    <2>. QED
      BY <2>2, <2>3, PartsTyped
  <1>6. ASSUME NEW r \in Used, Save(r) PROVE TypeOK' /\ DraftInv'
    <2>1. r \in Row /\ draft[r] # None
      BY <1>6, UsedRows DEF Save
    <2>2. Fit(Request("save", "edit", Written(r), view))
      BY <1>1, <2>1, WrittenTyped, RequestFits
    <2>3. call' \in FitCalls
      BY <1>6, <2>2, SentTyped DEF Save
    <2>4. saving' \in Row \cup {None}
      BY <1>1, <1>6, <2>1 DEF Save, ListTypeOK
    <2>5. ListTypeOK' /\ served' \in Seq(Call) /\ expired' \in Nat /\ DraftInv'
      BY <1>1, <1>6, <2>4 DEF Save, ListTypeOK, DraftInv, Editing, session
    <2>. QED
      BY <2>3, <2>5, PartsTyped
  <1>7. ASSUME NEW r \in Used, NEW v \in Value, Type(r, v) PROVE TypeOK' /\ DraftInv'
    <2>1. r \in Row
      BY UsedRows
    <2>2. (IF screen.open = "one" THEN Nothing ELSE draft) \in [Row -> Value \cup {None}]
      BY <1>1, RowsMade DEF ListTypeOK
    <2>3. draft' \in [Row -> Value \cup {None}]
      BY <1>7, <2>1, <2>2 DEF Type
    <2>4. /\ shown # None
          /\ UNCHANGED <<screen, at, call, store, shown, view, saving, served, excused, expired>>
      BY <1>7 DEF Type, session
    <2>5. ListTypeOK' /\ served' \in Seq(Call) /\ expired' \in Nat /\ call' \in FitCalls
      BY <1>1, <2>3, <2>4 DEF ListTypeOK
    <2>6. DraftInv'
      BY <2>4 DEF DraftInv
    <2>. QED
      BY <2>5, <2>6, PartsTyped
  <1>8. ASSUME NEW r \in Used, NEW v \in Value, Touch(r, v) PROVE TypeOK' /\ DraftInv'
    <2>1. r \in Row
      BY UsedRows
    <2>2. Fit(Request("save", "touch", Only(r, v), view))
      BY <1>1, <2>1, RowsMade, RequestFits
    <2>3. call' \in FitCalls
      BY <1>8, <2>2, SentTyped DEF Touch
    <2>4. saving' \in Row \cup {None}
      BY <1>1, <1>8, <2>1 DEF Touch, ListTypeOK
    <2>5. ListTypeOK' /\ served' \in Seq(Call) /\ expired' \in Nat /\ DraftInv'
      BY <1>1, <1>8, <2>4 DEF Touch, ListTypeOK, DraftInv, Editing, session
    <2>. QED
      BY <2>3, <2>5, PartsTyped
  <1>9. ASSUME NEW r \in Used, NEW v \in Value, OthersWrite(r, v) PROVE TypeOK' /\ DraftInv'
    <2>1. call' \in FitCalls
      BY <1>1, <1>9, PlacesMarked DEF OthersWrite
    <2>2. store' \in Rows
      BY <1>1, <1>9 DEF OthersWrite, ListTypeOK, Rows
    <2>3. ListTypeOK' /\ served' \in Seq(Call) /\ expired' \in Nat /\ DraftInv'
      BY <1>1, <1>9, <2>2 DEF OthersWrite, ListTypeOK, DraftInv, Editing, session
    <2>. QED
      BY <2>1, <2>3, PartsTyped
  <1>. QED
    BY <1>2, <1>3, <1>4, <1>5, <1>6, <1>7, <1>8, <1>9

LEMMA TypesKept ==
  ASSUME TypeOK, DraftInv, ServedInv, SessionTypeOK', [Next]_vars
  PROVE  TypeOK' /\ DraftInv'
  <1>1. SessionTypeOK /\ expired \in Nat /\ call \in FitCalls /\ ListTypeOK
    BY PartsTyped
  <1>2. CASE UNCHANGED vars
    <2>1. at \in {"login", "screen"} /\ call' \in FitCalls
      BY <1>1, <1>2 DEF vars, ListTypeOK
    <2>. QED
      BY <1>1, <1>2, <2>1, KeptTyped DEF vars, session
  <1>3. ASSUME NEW c \in Call, Serve(c) PROVE TypeOK' /\ DraftInv'
    BY <1>3, ServeTyped
  <1>4. ASSUME NEW c \in Call, LoadAnswered(c) PROVE TypeOK' /\ DraftInv'
    BY <1>4, LoadAnsweredTyped
  <1>5. ASSUME NEW c \in Call, SaveAnswered(c) PROVE TypeOK' /\ DraftInv'
    BY <1>1, <1>5, SaveAnsweredTyped
  <1>6. ASSUME NEW c \in Call, SaveRefused(c) \/ Lost(c) \/ RawDenied(c) PROVE TypeOK' /\ DraftInv'
    <2>1. call[c] # None /\ Fails(c) /\ Ends(c)
      BY <1>6 DEF SaveRefused, Lost, RawDenied
    <2>2. excused' \in BOOLEAN
      BY <1>6 DEF SaveRefused, Lost, RawDenied
    <2>. QED
      BY <2>1, <2>2, FailsTyped
  <1>7. ASSUME NEW c \in Call, SilentRefresh(c) PROVE TypeOK' /\ DraftInv'
    BY <1>7, SilentRefreshTyped
  <1>8. ASSUME NEW c \in Call, Unauthorized(c) \/ SignedOut(c) PROVE TypeOK' /\ DraftInv'
    BY <1>8, UnmountedTyped DEF Unauthorized, SignedOut, ThrownOut, SessionOf
  <1>9. ASSUME NEW q \in asking, RefreshFails(q) PROVE TypeOK' /\ DraftInv'
    BY <1>9, UnmountedTyped DEF RefreshFails, ThrownOut, SessionOf
  <1>10. ASSUME NEW q \in asking, RefreshAnswered(q) PROVE TypeOK' /\ DraftInv'
    BY <1>10, RefreshAnsweredTyped
  <1>11. CASE \/ \E q \in asking : RefreshServed(q)
              \/ ProactiveRefresh \/ Expires \/ Login \/ Returns
    BY <1>11, SessionStepTyped
  <1>12. CASE \/ SignOut \/ Reload
              \/ \E v \in View : Select(v)
              \/ \E r \in Used : Cancel(r) \/ Save(r)
              \/ \E r \in Used, v \in Value : Type(r, v) \/ Touch(r, v) \/ OthersWrite(r, v)
    BY <1>12, OperatorTyped
  <1>. QED
    BY <1>2, <1>3, <1>4, <1>5, <1>6, <1>7, <1>8, <1>9, <1>10, <1>11, <1>12 DEF Next

------------------------------------------------------------------------------
(* The answers on their way.                                               *)

\* An answer on its way.
Coming(c) == call[c] # None /\ call[c].state = "back"

\* No answer sets out, arrives or is crossed, and nothing is written.
Quiet ==
  /\ UNCHANGED <<screen, store, served>>
  /\ \A d \in Call :
        \/ call'[d] = call[d]
        \/ /\ ~Coming(d)
           /\ call'[d] = None \/ (call'[d].state # "back" /\ ~call'[d].crossed)
  /\ at' = "login" => \A d \in Call : call'[d] = None

\* Every list that was to be read still is.
LoadsGoOn ==
  \A d \in Call : call[d] # None /\ call[d].op = "load" => call'[d] # None /\ call'[d].op = "load"

\* The answers are those of the answers on their way.
LEMMA AnswersComing ==
  ASSUME TypeOK, ServedInv, NEW i \in DOMAIN served
  PROVE  /\ served[i] \in Call /\ Coming(served[i]) /\ Answer(i) = call[served[i]]
         /\ Answer(i) \in RequestType /\ Fit(Answer(i)) /\ DOMAIN served = 1 .. Len(served) /\ Len(served) \in Nat
  <1>1. served \in Seq(Call) /\ call \in FitCalls
    BY PartsTyped
  <1>2. DOMAIN served = 1 .. Len(served) /\ Len(served) \in Nat
    BY <1>1, LenProperties
  <1>3. served[i] \in Call
    BY <1>1, <1>2, ElementOfSeq
  <1>4. Coming(served[i])
    BY <1>3 DEF ServedInv, Coming
  <1>5. Fit(call[served[i]])
    BY <1>1, <1>3, <1>4 DEF FitCalls, Coming
  <1>. QED
    BY <1>2, <1>3, <1>4, <1>5 DEF Answer, Fit

LEMMA QuietAnswers ==
  ASSUME TypeOK, ServedInv, ChainInv, Quiet
  PROVE  /\ ServedInv' /\ ChainInv'
         /\ \A i \in DOMAIN served : Answer(i)' = Answer(i)
  <1>1. ASSUME NEW i \in DOMAIN served PROVE Answer(i)' = Answer(i)
    BY <1>1, AnswersComing DEF Quiet, Answer
  <1>2. DOMAIN served' = DOMAIN served /\ served' = served /\ store' = store
    BY DEF Quiet
  <1>3. ASSUME NEW d \in Call
        PROVE  /\ (call'[d] # None /\ call'[d].state = "back") <=> Coming(d)
               /\ call'[d] # None /\ call'[d].crossed => call'[d].state = "back"
    BY DEF Quiet, Coming, ServedInv
  <1>4. ServedInv'
    <2>1. at' = "login" => \A c \in Call : call'[c] = None
      BY DEF Quiet
    <2>2. \A i, j \in DOMAIN served' : served'[i] = served'[j] => i = j
      BY <1>2 DEF ServedInv
    <2>3. \A c \in Call :
             (\E i \in DOMAIN served' : served'[i] = c) <=> (call'[c] # None /\ call'[c].state = "back")
      BY <1>2, <1>3 DEF ServedInv, Coming
    <2>4. \A i, j \in DOMAIN served' : i < j /\ Answer(j)'.crossed => Answer(i)'.crossed
      BY <1>1, <1>2 DEF ServedInv
    <2>. QED
      BY <1>3, <2>1, <2>2, <2>3, <2>4 DEF ServedInv
  <1>5. ChainInv'
    <2>1. ASSUME NEW i \in DOMAIN served', ~Answer(i)'.crossed
          PROVE  /\ (\A k \in DOMAIN served' : k > i => ~Wrote(Answer(k)')) => store' = Answer(i)'.rows
                 /\ \A j \in DOMAIN served' :
                       i < j /\ (\A k \in DOMAIN served' : i < k /\ k < j => ~Wrote(Answer(k)'))
                       => Answer(j)'.rows = Left(Answer(j)', Answer(i)'.rows)
      BY <1>1, <1>2, <2>1 DEF ChainInv
    <2>. QED
      BY <2>1 DEF ChainInv, Wrote, Left, Over
  <1>. QED
    BY <1>1, <1>4, <1>5

\* The list goes on as it was, with what was to be read still to be read.
LEMMA QuietList ==
  ASSUME TypeOK, ServedInv, ChainInv, ListInv, Quiet, LoadsGoOn, UNCHANGED <<shown, view, excused>>
  PROVE  ListInv'
  <1>1. \A i \in DOMAIN served : Answer(i)' = Answer(i)
    BY QuietAnswers
  <1>2. served' = served /\ store' = store /\ screen' = screen
    BY DEF Quiet
  <1>3. SUFFICES ASSUME shown # None, ~excused, \A c \in Call : call'[c] # None => ~Mends(call[c])'
                 PROVE  /\ shown.view = view
                        /\ (\A k \in DOMAIN served : ~Wrote(Answer(k))) => store = shown.rows
                        /\ \A j \in DOMAIN served :
                              ~Answer(j).crossed /\ (\A k \in DOMAIN served : k < j => ~Wrote(Answer(k)))
                              => Answer(j).rows = Left(Answer(j), shown.rows)
    BY <1>1, <1>2 DEF ListInv, Wrote, Left, Over
  <1>4. ASSUME NEW c \in Call, call[c] # None PROVE ~Mends(call[c])
    <2>1. CASE call'[c] = call[c]
      BY <1>2, <1>3, <1>4, <2>1 DEF Mends, Wrote
    <2>2. CASE call'[c] # call[c]
      <3>1. call[c].state # "back"
        BY <1>4, <2>2 DEF Quiet, Coming
      <3>2. call[c].op # "load"
        BY <1>3, <1>4 DEF LoadsGoOn, Mends
      <3>. QED
        BY <3>1, <3>2 DEF Mends
    <2>. QED
      BY <2>1, <2>2
  <1>. QED
    BY <1>3, <1>4 DEF ListInv

\* The list is to be read again.
LEMMA ReadAgain ==
  ASSUME NEW c \in Call, call'[c] # None, call'[c].op = "load"
  PROVE  ListInv'
  BY DEF ListInv, Mends

\* A request is handled, and its answer sets out last.
LEMMA ServedStep ==
  ASSUME TypeOK, ServedInv, ChainInv, ListInv, NEW c \in Call, Serve(c), ~(call[c].pair <= expired)
  PROVE  ServedInv' /\ ChainInv' /\ ListInv'
  <1>1. served \in Seq(Call) /\ call \in FitCalls /\ store \in Rows
    BY PartsTyped DEF ListTypeOK
  <1>2. PICK n \in Nat : Len(served) = n /\ DOMAIN served = 1 .. n
    BY <1>1, LenProperties
  <1>3. call[c] # None /\ call[c].state = "out" /\ Fit(call[c]) /\ call[c] \in RequestType
    BY <1>1 DEF Serve, FitCalls, Fit
  <1>4. PICK ok \in BOOLEAN, rows \in {Over(call[c].write, store), store} :
           /\ rows = IF ok THEN Over(call[c].write, store) ELSE store
           /\ (call[c].op # "save" => ok)
           /\ store' = rows /\ served' = Append(served, c)
           /\ call' = [call EXCEPT ![c].state = "back", ![c].ok = ok, ![c].rows = rows]
    BY <1>3 DEF Serve
  <1>5. UNCHANGED <<screen, at, shown, view, excused>>
    BY DEF Serve
  <1>6. /\ call'[c] # None /\ call'[c].state = "back" /\ call'[c].rows = rows
        /\ call'[c].op = call[c].op /\ call'[c].write = call[c].write /\ ~call'[c].crossed
        /\ Wrote(call'[c]) <=> (call[c].op = "save" /\ ok)
    <2>1. call'[c] = [call[c] EXCEPT !.state = "back", !.ok = ok, !.rows = rows]
      BY <1>1, <1>4 DEF FitCalls, Calls
    <2>2. ~call[c].crossed
      BY <1>3 DEF ServedInv
    <2>3. rows \in Rows
      <3>1. call[c].write \in UNION {[set -> Value] : set \in SUBSET Row}
        BY <1>3 DEF RequestType
      <3>. QED
        BY <1>1, <1>4, <3>1, RowsMade
    <2>4. call'[c] \in RequestType
      <3>1. "back" \in {"out", "denied", "waiting", "back"}
        OBVIOUS
      <3>2. [call[c] EXCEPT !.state = "back", !.ok = ok, !.rows = rows] \in RequestType
        BY <1>3, <2>3, <3>1, RequestMarked
      <3>. QED
        BY <2>1, <3>2
    <2>5. call'[c] # None
      BY <2>4, NoneAssumption
    <2>. QED
      BY <1>3, <2>1, <2>2, <2>5 DEF RequestType, Wrote
  <1>7. rows = Left(call'[c], store)
    <2>1. CASE call[c].op = "save"
      BY <1>4, <1>6, <2>1 DEF Left
    <2>2. CASE call[c].op # "save"
      <3>1. call[c].write = <<>> /\ ok
        BY <1>3, <1>4, <2>2 DEF Fit
      <3>2. Over(<<>>, store) = store
        BY <1>1 DEF Over, Rows
      <3>. QED
        BY <1>4, <1>6, <2>2, <3>1, <3>2 DEF Left
    <2>. QED
      BY <2>1, <2>2
  <1>8. \A d \in Call : d # c => call'[d] = call[d]
    BY <1>1, <1>4 DEF FitCalls, Calls
  <1>9. /\ DOMAIN served' = 1 .. n + 1 /\ served'[n + 1] = c
        /\ \A i \in 1 .. n : served'[i] = served[i]
    <2>1. /\ served' \in Seq(Call) /\ Len(served') = n + 1 /\ served'[n + 1] = c
          /\ \A i \in 1 .. n : served'[i] = served[i]
      BY <1>1, <1>2, <1>4, AppendProperties
    <2>. QED
      BY <2>1, LenProperties
  <1>10. \A i \in 1 .. n : served[i] \in Call /\ Coming(served[i]) /\ served[i] # c /\ Answer(i) = call[served[i]]
    BY <1>2, <1>3, AnswersComing DEF Coming
  <1>11. /\ \A i \in 1 .. n : Answer(i)' = Answer(i)
         /\ Answer(n + 1)' = call'[c]
    BY <1>2, <1>8, <1>9, <1>10 DEF Answer
  <1>12. ServedInv'
    <2>1. at' = "login" => \A d \in Call : call'[d] = None
      BY <1>3, <1>5 DEF ServedInv
    <2>2. ASSUME NEW i \in DOMAIN served', NEW j \in DOMAIN served', served'[i] = served'[j] PROVE i = j
      <3>1. CASE i \in 1 .. n /\ j \in 1 .. n
        BY <1>2, <1>9, <2>2, <3>1 DEF ServedInv
      <3>2. CASE i = n + 1 \/ j = n + 1
        BY <1>2, <1>9, <1>10, <2>2, <3>2
      <3>. QED
        BY <1>2, <1>9, <3>1, <3>2
    <2>3. ASSUME NEW d \in Call
          PROVE  (\E i \in DOMAIN served' : served'[i] = d) <=> (call'[d] # None /\ call'[d].state = "back")
      <3>1. CASE d = c
        BY <1>2, <1>6, <1>9, <3>1
      <3>2. CASE d # c
        <4>1. (\E i \in DOMAIN served' : served'[i] = d) <=> (\E i \in DOMAIN served : served[i] = d)
          BY <1>2, <1>9, <3>2
        <4>2. (\E i \in DOMAIN served : served[i] = d) <=> (call[d] # None /\ call[d].state = "back")
          BY DEF ServedInv
        <4>3. call'[d] = call[d]
          BY <1>8, <3>2
        <4>. QED
          BY <4>1, <4>2, <4>3
      <3>. QED
        BY <3>1, <3>2
    <2>4. \A d \in Call : call'[d] # None /\ call'[d].crossed => call'[d].state = "back"
      BY <1>6, <1>8 DEF ServedInv
    <2>5. ASSUME NEW i \in DOMAIN served', NEW j \in DOMAIN served', i < j, Answer(j)'.crossed
          PROVE  Answer(i)'.crossed
      <3>1. j # n + 1
        BY <1>6, <1>11, <2>5
      <3>2. i \in 1 .. n /\ j \in 1 .. n
        BY <1>2, <1>9, <2>5, <3>1
      <3>. QED
        BY <1>2, <1>11, <2>5, <3>2 DEF ServedInv
    <2>. QED
      BY <2>1, <2>2, <2>3, <2>4, <2>5 DEF ServedInv
  <1>13. (Wrote(call'[c]) \/ store' = store)
    BY <1>4, <1>7 DEF Left
  <1>14. ChainInv'
    <2>1. ASSUME NEW i \in DOMAIN served', ~Answer(i)'.crossed
          PROVE  /\ (\A k \in DOMAIN served' : k > i => ~Wrote(Answer(k)')) => store' = Answer(i)'.rows
                 /\ \A j \in DOMAIN served' :
                       i < j /\ (\A k \in DOMAIN served' : i < k /\ k < j => ~Wrote(Answer(k)'))
                       => Answer(j)'.rows = Left(Answer(j)', Answer(i)'.rows)
      <3>1. CASE i = n + 1
        <4>1. store' = Answer(i)'.rows
          BY <1>4, <1>6, <1>11, <3>1
        <4>2. \A j \in DOMAIN served' : ~(i < j)
          BY <1>2, <1>9, <3>1
        <4>. QED
          BY <4>1, <4>2
      <3>2. CASE i \in 1 .. n
        <4>1. (\A k \in 1 .. n : k > i => ~Wrote(Answer(k))) => store = Answer(i).rows
          BY <1>2, <1>11, <2>1, <3>2 DEF ChainInv
        <4>2. ASSUME \A k \in DOMAIN served' : k > i => ~Wrote(Answer(k)') PROVE store' = Answer(i)'.rows
          <5>1. ~Wrote(call'[c])
            BY <1>2, <1>9, <1>11, <3>2, <4>2
          <5>2. \A k \in 1 .. n : k > i => ~Wrote(Answer(k))
            BY <1>2, <1>9, <1>11, <4>2
          <5>. QED
            BY <1>11, <1>13, <3>2, <4>1, <5>1, <5>2
        <4>3. ASSUME NEW j \in DOMAIN served', i < j,
                     \A k \in DOMAIN served' : i < k /\ k < j => ~Wrote(Answer(k)')
              PROVE  Answer(j)'.rows = Left(Answer(j)', Answer(i)'.rows)
          <5>1. CASE j = n + 1
            <6>1. \A k \in 1 .. n : k > i => ~Wrote(Answer(k))
              BY <1>2, <1>9, <1>11, <4>3, <5>1
            <6>. QED
              BY <1>4, <1>6, <1>7, <1>11, <3>2, <4>1, <5>1, <6>1
          <5>2. CASE j \in 1 .. n
            <6>1. \A k \in 1 .. n : i < k /\ k < j => ~Wrote(Answer(k))
              BY <1>2, <1>9, <1>11, <4>3
            <6>2. Answer(j).rows = Left(Answer(j), Answer(i).rows)
              BY <1>2, <1>11, <2>1, <3>2, <4>3, <5>2, <6>1 DEF ChainInv
            <6>. QED
              BY <1>11, <3>2, <5>2, <6>2
          <5>. QED
            BY <1>2, <1>9, <5>1, <5>2
        <4>. QED
          BY <4>2, <4>3
      <3>. QED
        BY <1>2, <1>9, <3>1, <3>2
    <2>. QED
      BY <2>1 DEF ChainInv, Wrote, Left, Over
  <1>15. ListInv'
    <2>1. SUFFICES ASSUME shown # None, ~excused, \A d \in Call : call'[d] # None => ~Mends(call[d])'
                   PROVE  /\ shown.view = view
                          /\ (\A k \in DOMAIN served' : ~Wrote(Answer(k)')) => store' = shown.rows
                          /\ \A j \in DOMAIN served' :
                                ~Answer(j)'.crossed /\ (\A k \in DOMAIN served' : k < j => ~Wrote(Answer(k)'))
                                => Answer(j)'.rows = Left(Answer(j)', shown.rows)
      BY <1>5 DEF ListInv, Wrote, Left, Over
    <2>2. ASSUME NEW d \in Call, call[d] # None PROVE ~Mends(call[d])
      <3>1. CASE d = c
        BY <1>3, <1>6, <2>1, <3>1 DEF Mends
      <3>2. CASE d # c
        BY <1>5, <1>8, <2>1, <2>2, <3>2 DEF Mends, Wrote
      <3>. QED
        BY <3>1, <3>2
    <2>3. /\ shown.view = view
          /\ (\A k \in 1 .. n : ~Wrote(Answer(k))) => store = shown.rows
          /\ \A j \in 1 .. n :
                ~Answer(j).crossed /\ (\A k \in 1 .. n : k < j => ~Wrote(Answer(k)))
                => Answer(j).rows = Left(Answer(j), shown.rows)
      BY <1>2, <2>1, <2>2 DEF ListInv
    <2>4. ASSUME \A k \in DOMAIN served' : ~Wrote(Answer(k)') PROVE store' = shown.rows
      <3>1. ~Wrote(call'[c]) /\ \A k \in 1 .. n : ~Wrote(Answer(k))
        BY <1>2, <1>9, <1>11, <2>4
      <3>. QED
        BY <1>13, <2>3, <3>1
    <2>5. ASSUME NEW j \in DOMAIN served', ~Answer(j)'.crossed,
                 \A k \in DOMAIN served' : k < j => ~Wrote(Answer(k)')
          PROVE  Answer(j)'.rows = Left(Answer(j)', shown.rows)
      <3>1. CASE j = n + 1
        <4>1. \A k \in 1 .. n : ~Wrote(Answer(k))
          BY <1>2, <1>9, <1>11, <2>5, <3>1
        <4>. QED
          BY <1>6, <1>7, <1>11, <2>3, <3>1, <4>1
      <3>2. CASE j \in 1 .. n
        <4>1. \A k \in 1 .. n : k < j => ~Wrote(Answer(k))
          BY <1>2, <1>9, <1>11, <2>5
        <4>. QED
          BY <1>11, <2>3, <2>5, <3>2, <4>1
      <3>. QED
        BY <1>2, <1>9, <3>1, <3>2
    <2>. QED
      BY <2>3, <2>4, <2>5
  <1>. QED
    BY <1>12, <1>14, <1>15

\* One request as the other, but for the mark of what was crossed.
Alike(q, r) ==
  q.op = r.op /\ q.of = r.of /\ q.write = r.write /\ (q.ok <=> r.ok) /\ q.rows = r.rows /\ q.state = r.state

\* The p-th of n answers on their way arrives: it crosses those before it, and those after it move up.
Arrives(c, p, n) ==
  /\ DOMAIN served = 1 .. n /\ DOMAIN served' = 1 .. n - 1 /\ served[p] = c
  /\ \A i \in 1 .. n - 1 :
        /\ i < p => served'[i] = served[i] /\ Answer(i)'.crossed /\ Alike(Answer(i)', Answer(i))
        /\ i >= p => served'[i] = served[i + 1] /\ Answer(i)' = Answer(i + 1)
  /\ \A d \in Call \ {c} :
        /\ call'[d] = None <=> call[d] = None
        /\ call[d] # None => /\ Alike(call'[d], call[d])
                             /\ call[d].crossed => call'[d].crossed
                             /\ call'[d].crossed => call'[d].state = "back"
  /\ UNCHANGED store

LEMMA AnswerArrives ==
  ASSUME TypeOK, ServedInv, NEW c \in Call, Coming(c), NEW q, q # None => Fit(q),
         call' = Mark([call EXCEPT ![c] = q], Overtaken(c)), served' = Without(c), UNCHANGED store
  PROVE  call'[c] = q /\ \E n \in Nat, p \in Nat : p \in 1 .. n /\ Arrives(c, p, n)
  <1>1. served \in Seq(Call) /\ call \in FitCalls /\ call \in Calls
    BY PartsTyped DEF FitCalls
  <1>2. PICK n \in Nat : Len(served) = n /\ DOMAIN served = 1 .. n
    BY <1>1, LenProperties
  <1>3. PICK p \in 1 .. n :
           /\ p = Position(c) /\ served[p] = c
           /\ Without(c) \in Seq(Call) /\ Len(Without(c)) = n - 1
           /\ \A i \in 1 .. n - 1 : Without(c)[i] = served[IF i < p THEN i ELSE i + 1]
    BY <1>1, <1>2, AnswerTaken DEF Coming
  <1>4. /\ DOMAIN served' = 1 .. n - 1
        /\ \A i \in 1 .. n - 1 : (i < p => served'[i] = served[i]) /\ (i >= p => served'[i] = served[i + 1])
    <2>1. DOMAIN served' = 1 .. n - 1
      BY <1>3, LenProperties
    <2>. QED
      BY <1>2, <1>3, <2>1
  <1>5. Overtaken(c) = {served[i] : i \in 1 .. p - 1}
    BY <1>3 DEF Overtaken, Coming
  <1>6. \A i \in 1 .. n : served[i] \in Call /\ Coming(served[i]) /\ Answer(i) = call[served[i]] /\ Fit(Answer(i))
    BY <1>2, AnswersComing
  <1>7. \A i \in 1 .. n, j \in 1 .. n : served[i] = served[j] => i = j
    BY <1>2 DEF ServedInv
  <1>8. \A i \in 1 .. n : (served[i] \in Overtaken(c) <=> i < p) /\ (served[i] = c <=> i = p)
    <2>1. ASSUME NEW i \in 1 .. n PROVE served[i] \in Overtaken(c) <=> i < p
      <3>1. CASE i < p
        BY <1>2, <1>5, <3>1
      <3>2. CASE ~(i < p)
        <4>1. ASSUME served[i] \in Overtaken(c) PROVE FALSE
          <5>1. PICK j \in 1 .. p - 1 : served[i] = served[j]
            BY <1>5, <4>1
          <5>. QED
            BY <1>2, <1>3, <1>7, <3>2, <5>1
        <4>. QED
          BY <3>2, <4>1
      <3>. QED
        BY <3>1, <3>2
    <2>2. ASSUME NEW i \in 1 .. n PROVE served[i] = c <=> i = p
      BY <1>3, <1>7
    <2>. QED
      BY <2>1, <2>2
  <1>9. c \notin Overtaken(c)
    BY <1>3, <1>8
  <1>. DEFINE calls == [call EXCEPT ![c] = q]
  <1>10. calls \in Calls /\ calls[c] = q /\ \A d \in Call \ {c} : calls[d] = call[d]
    <2>1. calls \in FitCalls
      BY <1>1, PlaceTaken
    <2>. QED
      BY <1>1, <2>1 DEF FitCalls, Calls
  <1>. HIDE DEF calls
  <1>11. call' = Mark(calls, Overtaken(c))
    BY DEF calls
  <1>12. call'[c] = q
    BY <1>9, <1>10, <1>11 DEF Mark
  <1>13. ASSUME NEW d \in Call \ {c}
         PROVE  /\ call'[d] = None <=> call[d] = None
                /\ (call[d] # None /\ d \in Overtaken(c)) => call'[d] = [call[d] EXCEPT !.crossed = TRUE]
                /\ d \notin Overtaken(c) => call'[d] = call[d]
    BY <1>10, <1>11, MarkedFields
  <1>14. ASSUME NEW d \in Call \ {c}, call[d] # None, d \in Overtaken(c)
         PROVE  call'[d].crossed /\ Alike(call'[d], call[d])
    <2>1. call[d] \in RequestType
      BY <1>1, <1>14 DEF Calls
    <2>2. call'[d] = [call[d] EXCEPT !.crossed = TRUE]
      BY <1>13, <1>14
    <2>. QED
      BY <2>1, <2>2 DEF RequestType, Alike
  <1>15. ASSUME NEW i \in 1 .. n - 1
         PROVE  /\ i < p => Answer(i)'.crossed /\ Alike(Answer(i)', Answer(i))
                /\ i >= p => Answer(i)' = Answer(i + 1)
    <2>1. CASE i < p
      <3>1. i \in 1 .. n /\ served[i] \in Call \ {c} /\ served[i] \in Overtaken(c) /\ call[served[i]] # None
        BY <1>2, <1>3, <1>6, <1>8, <2>1 DEF Coming
      <3>2. Answer(i)' = call'[served[i]] /\ Answer(i) = call[served[i]]
        BY <1>4, <1>6, <2>1, <3>1 DEF Answer
      <3>3. call'[served[i]].crossed /\ Alike(call'[served[i]], call[served[i]])
        BY <1>14, <3>1
      <3>. QED
        BY <1>2, <1>3, <2>1, <3>2, <3>3
    <2>2. CASE i >= p
      <3>1. i + 1 \in 1 .. n /\ i + 1 # p /\ ~(i + 1 < p)
        BY <1>2, <1>3, <2>2
      <3>2. served[i + 1] \in Call \ {c} /\ served[i + 1] \notin Overtaken(c)
        BY <1>6, <1>8, <3>1
      <3>3. call'[served[i + 1]] = call[served[i + 1]]
        BY <1>13, <3>2
      <3>. QED
        BY <1>2, <1>3, <1>4, <2>2, <3>3 DEF Answer
    <2>. QED
      BY <1>2, <1>3, <2>1, <2>2
  <1>16. ASSUME NEW d \in Call \ {c}, call[d] # None
         PROVE  /\ Alike(call'[d], call[d]) /\ (call[d].crossed => call'[d].crossed)
                /\ call'[d].crossed => call'[d].state = "back"
    <2>1. CASE d \in Overtaken(c)
      <3>1. PICK i \in 1 .. p - 1 : d = served[i]
        BY <1>5, <2>1
      <3>2. call[d].state = "back"
        BY <1>2, <1>3, <1>6, <3>1 DEF Coming
      <3>. QED
        BY <1>14, <1>16, <2>1, <3>2 DEF Alike
    <2>2. CASE d \notin Overtaken(c)
      <3>1. call'[d] = call[d]
        BY <1>13, <2>2
      <3>. QED
        BY <1>16, <3>1 DEF Alike, ServedInv
    <2>. QED
      BY <2>1, <2>2
  <1>17. Arrives(c, p, n)
    BY <1>2, <1>3, <1>4, <1>13, <1>15, <1>16 DEF Arrives
  <1>. QED
    BY <1>12, <1>17

\* What is left of the answers on their way is as it was.
LEMMA ArrivalKeeps ==
  ASSUME TypeOK, ServedInv, ChainInv, NEW c \in Call, Coming(c), UNCHANGED at,
         call'[c] # None => call'[c].state = "out" /\ ~call'[c].crossed,
         NEW n \in Nat, NEW p \in 1 .. n, Arrives(c, p, n)
  PROVE  ServedInv' /\ ChainInv'
  <1>1. DOMAIN served = 1 .. n /\ DOMAIN served' = 1 .. n - 1 /\ served[p] = c /\ store' = store
    BY DEF Arrives
  <1>2. \A i \in 1 .. n - 1 :
           /\ i < p => served'[i] = served[i] /\ Answer(i)'.crossed /\ Alike(Answer(i)', Answer(i))
           /\ i >= p => served'[i] = served[i + 1] /\ Answer(i)' = Answer(i + 1)
    BY DEF Arrives
  <1>3. \A i, j \in 1 .. n : served[i] = served[j] => i = j
    BY <1>1 DEF ServedInv
  <1>4. ServedInv'
    <2>1. at' = "login" => \A d \in Call : call'[d] = None
      BY DEF ServedInv, Coming
    <2>2. ASSUME NEW i \in 1 .. n - 1, NEW j \in 1 .. n - 1, served'[i] = served'[j] PROVE i = j
      <3>. DEFINE a == IF i < p THEN i ELSE i + 1
                  b == IF j < p THEN j ELSE j + 1
      <3>1. a \in 1 .. n /\ b \in 1 .. n /\ served'[i] = served[a] /\ served'[j] = served[b]
        BY <1>2
      <3>2. a = b
        BY <1>3, <2>2, <3>1
      <3>. QED
        BY <3>2
    <2>3. ASSUME NEW d \in Call
          PROVE  (\E i \in 1 .. n - 1 : served'[i] = d) <=> (call'[d] # None /\ call'[d].state = "back")
      <3>1. CASE d = c
        <4>1. ASSUME NEW i \in 1 .. n - 1, served'[i] = c PROVE FALSE
          <5>. DEFINE a == IF i < p THEN i ELSE i + 1
          <5>1. a \in 1 .. n /\ a # p /\ served'[i] = served[a]
            BY <1>2
          <5>. QED
            BY <1>1, <1>3, <4>1, <5>1
        <4>. QED
          BY <3>1, <4>1
      <3>2. CASE d # c
        <4>1. (call'[d] # None /\ call'[d].state = "back") <=> Coming(d)
          BY <3>2 DEF Arrives, Alike, Coming
        <4>2. Coming(d) <=> \E i \in 1 .. n : served[i] = d
          BY <1>1 DEF ServedInv, Coming
        <4>3. (\E i \in 1 .. n : served[i] = d) => \E i \in 1 .. n - 1 : served'[i] = d
          <5>1. ASSUME NEW i \in 1 .. n, served[i] = d PROVE \E j \in 1 .. n - 1 : served'[j] = d
            <6>1. i # p
              BY <1>1, <3>2, <5>1
            <6>2. CASE i < p
              <7>1. i \in 1 .. n - 1 /\ served'[i] = d
                BY <1>2, <5>1, <6>2
              <7>. QED
                BY <7>1
            <6>3. CASE i > p
              <7>1. i - 1 \in 1 .. n - 1 /\ i - 1 >= p /\ (i - 1) + 1 = i
                BY <6>3
              <7>2. served'[i - 1] = d
                BY <1>2, <5>1, <7>1
              <7>. QED
                BY <7>1, <7>2
            <6>. QED
              BY <6>1, <6>2, <6>3
          <5>. QED
            BY <5>1
        <4>4. (\E i \in 1 .. n - 1 : served'[i] = d) => \E i \in 1 .. n : served[i] = d
          <5>1. ASSUME NEW i \in 1 .. n - 1, served'[i] = d PROVE \E j \in 1 .. n : served[j] = d
            <6>1. i \in 1 .. n /\ i + 1 \in 1 .. n
              OBVIOUS
            <6>. QED
              BY <1>2, <5>1, <6>1
          <5>. QED
            BY <5>1
        <4>. QED
          BY <4>1, <4>2, <4>3, <4>4
      <3>. QED
        BY <3>1, <3>2
    <2>4. \A d \in Call : call'[d] # None /\ call'[d].crossed => call'[d].state = "back"
      BY DEF Arrives
    <2>5. ASSUME NEW i \in 1 .. n - 1, NEW j \in 1 .. n - 1, i < j, Answer(j)'.crossed
          PROVE  Answer(i)'.crossed
      <3>1. CASE i < p
        BY <1>2, <3>1
      <3>2. CASE ~(i < p)
        <4>1. i + 1 \in 1 .. n /\ j + 1 \in 1 .. n /\ i + 1 < j + 1
          BY <2>5
        <4>2. Answer(i)' = Answer(i + 1) /\ Answer(j)' = Answer(j + 1)
          BY <1>2, <2>5, <3>2
        <4>. QED
          BY <1>1, <2>5, <4>1, <4>2 DEF ServedInv
      <3>. QED
        BY <3>1, <3>2
    <2>. QED
      BY <1>1, <2>1, <2>2, <2>3, <2>4, <2>5 DEF ServedInv
  <1>5. ChainInv'
    <2>1. ASSUME NEW i \in 1 .. n - 1, ~Answer(i)'.crossed
          PROVE  /\ (\A k \in 1 .. n - 1 : k > i => ~Wrote(Answer(k)')) => store' = Answer(i)'.rows
                 /\ \A j \in 1 .. n - 1 :
                       i < j /\ (\A k \in 1 .. n - 1 : i < k /\ k < j => ~Wrote(Answer(k)'))
                       => Answer(j)'.rows = Left(Answer(j)', Answer(i)'.rows)
      <3>1. i >= p /\ i + 1 \in 1 .. n /\ Answer(i)' = Answer(i + 1) /\ ~Answer(i + 1).crossed
        BY <1>2, <2>1
      <3>2. ASSUME NEW m \in Int, \A k \in 1 .. n - 1 : i < k /\ k < m => ~Wrote(Answer(k)')
            PROVE  \A k \in 1 .. n : i + 1 < k /\ k < m + 1 => ~Wrote(Answer(k))
        <4>1. ASSUME NEW k \in 1 .. n, i + 1 < k, k < m + 1 PROVE ~Wrote(Answer(k))
          <5>1. k - 1 \in 1 .. n - 1 /\ i < k - 1 /\ k - 1 < m /\ k - 1 >= p /\ (k - 1) + 1 = k
            BY <3>1, <4>1
          <5>2. \A l \in 1 .. n - 1 : l = k - 1 => Answer(l)' = Answer(k) /\ ~Wrote(Answer(l)')
            BY <1>2, <3>2, <5>1
          <5>. QED
            BY <5>1, <5>2
        <4>. QED
          BY <4>1
      <3>3. ASSUME \A k \in 1 .. n - 1 : k > i => ~Wrote(Answer(k)') PROVE store' = Answer(i)'.rows
        <4>1. \A k \in 1 .. n - 1 : i < k /\ k < n => ~Wrote(Answer(k)')
          BY <3>3
        <4>2. \A k \in 1 .. n : i + 1 < k /\ k < n + 1 => ~Wrote(Answer(k))
          BY <3>2, <4>1
        <4>3. \A k \in 1 .. n : k > i + 1 => ~Wrote(Answer(k))
          BY <4>2
        <4>. QED
          BY <1>1, <3>1, <4>3 DEF ChainInv
      <3>4. ASSUME NEW j \in 1 .. n - 1, i < j,
                   \A k \in 1 .. n - 1 : i < k /\ k < j => ~Wrote(Answer(k)')
            PROVE  Answer(j)'.rows = Left(Answer(j)', Answer(i)'.rows)
        <4>1. \A k \in 1 .. n : i + 1 < k /\ k < j + 1 => ~Wrote(Answer(k))
          BY <3>2, <3>4
        <4>2. j + 1 \in 1 .. n /\ i + 1 < j + 1 /\ Answer(j)' = Answer(j + 1)
          BY <1>2, <3>1, <3>4
        <4>3. Answer(j + 1).rows = Left(Answer(j + 1), Answer(i + 1).rows)
          BY <1>1, <3>1, <4>1, <4>2 DEF ChainInv
        <4>. QED
          BY <3>1, <4>2, <4>3
      <3>. QED
        BY <3>3, <3>4
    <2>. QED
      BY <1>1, <2>1 DEF ChainInv, Wrote, Left, Over
  <1>. QED
    BY <1>4, <1>5

\* An answer that nothing crossed is the list as it was when it was served.
LEMMA ListRenewed ==
  ASSUME TypeOK, ServedInv, ChainInv, NEW c \in Call, Coming(c), ~call[c].crossed,
         NEW n \in Nat, NEW p \in 1 .. n, Arrives(c, p, n),
         shown'.view = view', shown'.rows = call[c].rows
  PROVE  ListInv'
  <1>1. DOMAIN served = 1 .. n /\ DOMAIN served' = 1 .. n - 1 /\ store' = store /\ Answer(p) = call[c]
    BY DEF Arrives, Answer
  <1>2. \A i \in 1 .. n - 1 :
           (i < p => Answer(i)'.crossed) /\ (i >= p => Answer(i)' = Answer(i + 1))
    BY DEF Arrives
  <1>3. ASSUME NEW m \in Int, \A k \in 1 .. n - 1 : k < m => ~Wrote(Answer(k)')
        PROVE  \A k \in 1 .. n : p < k /\ k < m + 1 => ~Wrote(Answer(k))
    <2>1. ASSUME NEW k \in 1 .. n, p < k, k < m + 1 PROVE ~Wrote(Answer(k))
      <3>1. k - 1 \in 1 .. n - 1 /\ k - 1 < m /\ k - 1 >= p /\ (k - 1) + 1 = k
        BY <2>1
      <3>2. \A l \in 1 .. n - 1 : l = k - 1 => Answer(l)' = Answer(k) /\ ~Wrote(Answer(l)')
        BY <1>2, <1>3, <3>1
      <3>. QED
        BY <3>1, <3>2
    <2>. QED
      BY <2>1
  <1>4. ASSUME \A k \in 1 .. n - 1 : ~Wrote(Answer(k)') PROVE store' = shown'.rows
    <2>1. \A k \in 1 .. n - 1 : k < n => ~Wrote(Answer(k)')
      BY <1>4
    <2>2. \A k \in 1 .. n : p < k /\ k < n + 1 => ~Wrote(Answer(k))
      BY <1>3, <2>1
    <2>3. \A k \in 1 .. n : k > p => ~Wrote(Answer(k))
      BY <2>2
    <2>. QED
      BY <1>1, <2>3 DEF ChainInv
  <1>5. ASSUME NEW j \in 1 .. n - 1, ~Answer(j)'.crossed, \A k \in 1 .. n - 1 : k < j => ~Wrote(Answer(k)')
        PROVE  Answer(j)'.rows = Left(Answer(j)', shown'.rows)
    <2>1. j >= p /\ j + 1 \in 1 .. n /\ p < j + 1 /\ Answer(j)' = Answer(j + 1)
      BY <1>2, <1>5
    <2>2. \A k \in 1 .. n : p < k /\ k < j + 1 => ~Wrote(Answer(k))
      BY <1>3, <1>5
    <2>3. Answer(j + 1).rows = Left(Answer(j + 1), Answer(p).rows)
      BY <1>1, <2>1, <2>2 DEF ChainInv
    <2>. QED
      BY <1>1, <2>1, <2>3
  <1>. QED
    BY <1>1, <1>4, <1>5 DEF ListInv, Wrote, Left, Over

\* What will be mended after an answer arrived was to be mended before; a change whose answer it crossed
\* is among that.
LEMMA StillMended ==
  ASSUME TypeOK, ServedInv, NEW c \in Call, Coming(c), UNCHANGED screen,
         NEW n \in Nat, NEW p \in 1 .. n, Arrives(c, p, n),
         \A d \in Call : call'[d] # None => ~Mends(call[d])'
  PROVE  /\ \A d \in Call \ {c} : call[d] # None => ~Mends(call[d])
         /\ \A k \in 1 .. n : k < p => ~Wrote(Answer(k))
  <1>1. ASSUME NEW d \in Call \ {c}, call[d] # None PROVE ~Mends(call[d])
    <2>1. /\ call'[d] # None /\ Alike(call'[d], call[d]) /\ (call[d].crossed => call'[d].crossed)
      BY <1>1 DEF Arrives
    <2>2. ~Mends(call[d])'
      BY <2>1
    <2>. QED
      BY <2>1, <2>2 DEF Mends, Wrote, Alike
  <1>2. ASSUME NEW k \in 1 .. n, k < p PROVE ~Wrote(Answer(k))
    <2>1. k \in DOMAIN served /\ k \in 1 .. n - 1
      BY <1>2 DEF Arrives
    <2>2. served[k] \in Call /\ Coming(served[k]) /\ Answer(k) = call[served[k]]
      BY <2>1, AnswersComing
    <2>3. served'[k] = served[k] /\ Answer(k)'.crossed /\ Alike(Answer(k)', Answer(k))
      BY <1>2, <2>1 DEF Arrives
    <2>4. served[k] # c
      <3>1. p \in DOMAIN served /\ served[p] = c
        BY DEF Arrives
      <3>. QED
        BY <1>2, <2>1, <3>1 DEF ServedInv
    <2>5. call'[served[k]] # None /\ Answer(k)' = call'[served[k]]
      BY <2>2, <2>3, <2>4 DEF Arrives, Coming, Answer
    <2>6. PICK d \in Call : d = served[k]
      BY <2>2
    <2>7. ~Mends(call[d])' /\ call'[d] = Answer(k)' /\ Answer(k)'.crossed /\ Answer(k)'.state = "back"
      BY <2>2, <2>3, <2>5, <2>6 DEF Alike, Coming
    <2>8. ~Wrote(Answer(k)')
      BY <2>7 DEF Mends, Wrote
    <2>. QED
      BY <2>3, <2>8 DEF Wrote, Alike
  <1>. QED
    BY <1>1, <1>2

\* A change the server refused leaves the list as it is.
LEMMA RefusalKeeps ==
  ASSUME TypeOK, ServedInv, ListInv, NEW c \in Call, Coming(c), ~Mends(call[c]), ~Wrote(call[c]),
         UNCHANGED <<screen, shown, view>>, ~excused,
         NEW n \in Nat, NEW p \in 1 .. n, Arrives(c, p, n)
  PROVE  ListInv'
  <1>1. DOMAIN served = 1 .. n /\ DOMAIN served' = 1 .. n - 1 /\ store' = store /\ Answer(p) = call[c]
    BY DEF Arrives, Answer
  <1>2. \A i \in 1 .. n - 1 :
           (i < p => Answer(i)'.crossed) /\ (i >= p => Answer(i)' = Answer(i + 1))
    BY DEF Arrives
  <1>3. SUFFICES ASSUME shown # None, \A d \in Call : call'[d] # None => ~Mends(call[d])'
                 PROVE  /\ shown.view = view
                        /\ (\A k \in 1 .. n - 1 : ~Wrote(Answer(k)')) => store' = shown.rows
                        /\ \A j \in 1 .. n - 1 :
                              ~Answer(j)'.crossed /\ (\A k \in 1 .. n - 1 : k < j => ~Wrote(Answer(k)'))
                              => Answer(j)'.rows = Left(Answer(j)', shown.rows)
    BY <1>1 DEF ListInv, Wrote, Left, Over
  <1>4. /\ \A d \in Call : call[d] # None => ~Mends(call[d])
        /\ \A k \in 1 .. n : k < p => ~Wrote(Answer(k))
    <2>1. /\ \A d \in Call \ {c} : call[d] # None => ~Mends(call[d])
          /\ \A k \in 1 .. n : k < p => ~Wrote(Answer(k))
      BY <1>3, StillMended
    <2>. QED
      BY <2>1
  <1>5. /\ shown.view = view
        /\ (\A k \in 1 .. n : ~Wrote(Answer(k))) => store = shown.rows
        /\ \A j \in 1 .. n :
              ~Answer(j).crossed /\ (\A k \in 1 .. n : k < j => ~Wrote(Answer(k)))
              => Answer(j).rows = Left(Answer(j), shown.rows)
    BY <1>1, <1>3, <1>4 DEF ListInv
  <1>6. ASSUME NEW m \in Int, \A k \in 1 .. n - 1 : k < m => ~Wrote(Answer(k)')
        PROVE  \A k \in 1 .. n : k < m + 1 => ~Wrote(Answer(k))
    <2>1. ASSUME NEW k \in 1 .. n, k < m + 1 PROVE ~Wrote(Answer(k))
      <3>1. CASE k < p
        BY <1>4, <3>1
      <3>2. CASE k = p
        BY <1>1, <3>2
      <3>3. CASE k > p
        <4>1. k - 1 \in 1 .. n - 1 /\ k - 1 < m /\ k - 1 >= p /\ (k - 1) + 1 = k
          BY <2>1, <3>3
        <4>2. \A l \in 1 .. n - 1 : l = k - 1 => Answer(l)' = Answer(k) /\ ~Wrote(Answer(l)')
          BY <1>2, <1>6, <4>1
        <4>. QED
          BY <4>1, <4>2
      <3>. QED
        BY <3>1, <3>2, <3>3
    <2>. QED
      BY <2>1
  <1>7. ASSUME \A k \in 1 .. n - 1 : ~Wrote(Answer(k)') PROVE store' = shown.rows
    <2>1. \A k \in 1 .. n : k < n + 1 => ~Wrote(Answer(k))
      BY <1>6, <1>7
    <2>. QED
      BY <1>1, <1>5, <2>1
  <1>8. ASSUME NEW j \in 1 .. n - 1, ~Answer(j)'.crossed, \A k \in 1 .. n - 1 : k < j => ~Wrote(Answer(k)')
        PROVE  Answer(j)'.rows = Left(Answer(j)', shown.rows)
    <2>1. j + 1 \in 1 .. n /\ Answer(j)' = Answer(j + 1)
      BY <1>2, <1>8
    <2>2. \A k \in 1 .. n : k < j + 1 => ~Wrote(Answer(k))
      BY <1>6, <1>8
    <2>. QED
      BY <1>5, <1>8, <2>1, <2>2
  <1>. QED
    BY <1>5, <1>7, <1>8

------------------------------------------------------------------------------
(* The steps of the list.                                                  *)

LEMMA LoadAnsweredList ==
  ASSUME TypeOK, ServedInv, ChainInv, NEW c \in Call, LoadAnswered(c)
  PROVE  ServedInv' /\ ChainInv' /\ ListInv'
  <1>1. /\ Coming(c) /\ call' = Mark([call EXCEPT ![c] = None], Overtaken(c)) /\ served' = Without(c)
        /\ UNCHANGED <<screen, at, store, view>>
        /\ shown' = [view |-> call[c].view, rows |-> call[c].rows]
        /\ excused' = (call[c].crossed \/ call[c].view # view)
    BY DEF LoadAnswered, Ends, Coming
  <1>2. call'[c] = None /\ \E n \in Nat, p \in Nat : p \in 1 .. n /\ Arrives(c, p, n)
    BY <1>1, AnswerArrives
  <1>3. PICK n \in Nat, p \in Nat : p \in 1 .. n /\ Arrives(c, p, n)
    BY <1>2
  <1>4. ServedInv' /\ ChainInv'
    BY <1>1, <1>2, <1>3, ArrivalKeeps
  <1>5. CASE call[c].crossed \/ call[c].view # view
    BY <1>1, <1>4, <1>5 DEF ListInv
  <1>6. CASE ~(call[c].crossed \/ call[c].view # view)
    <2>1. shown'.view = view' /\ shown'.rows = call[c].rows
      BY <1>1, <1>6
    <2>2. ListInv'
      BY <1>1, <1>3, <1>6, <2>1, ListRenewed
    <2>. QED
      BY <1>4, <2>2
  <1>. QED
    BY <1>5, <1>6

LEMMA SaveAnsweredList ==
  ASSUME TypeOK, ServedInv, ChainInv, ListInv, NEW c \in Call, SaveAnswered(c)
  PROVE  ServedInv' /\ ChainInv' /\ ListInv'
  <1>. DEFINE how == screen.after[call[c].of]
  <1>1. /\ Coming(c) /\ call[c].op = "save" /\ call[c].ok /\ UNCHANGED <<screen, at, store, view>>
    BY DEF SaveAnswered, Coming
  <1>2. ListTypeOK /\ call \in FitCalls /\ SessionTypeOK
    BY PartsTyped
  <1>3. call[c] # None /\ Fit(call[c]) /\ call[c] \in RequestType /\ call[c].rows \in Rows
    BY <1>1, <1>2 DEF Coming, FitCalls, Fit
  <1>4. CASE how = "reload"
    <2>1. /\ call' = Mark([call EXCEPT ![c] = Rereads(c)], Overtaken(c)) /\ served' = Without(c)
      BY <1>4 DEF SaveAnswered
    <2>2. Fit(Rereads(c)) /\ Rereads(c) # None /\ Rereads(c).op = "load" /\ Rereads(c).state = "out"
          /\ ~Rereads(c).crossed
      <3>1. PICK v \in View, button \in {"load", "edit", "touch", "logout"} :
               Rereads(c) = [Load(v) EXCEPT !.of = button]
        <4>1. call[c].view \in View /\ view \in View /\ 1 \in View
              /\ call[c].of \in {"load", "edit", "touch", "logout"}
          BY <1>2, <1>3 DEF ListTypeOK, RequestType, View
        <4>. QED
          BY <4>1 DEF Rereads
      <3>2. Fit(Rereads(c)) /\ Load(v) \in RequestType
        <4>1. Fit([Load(v) EXCEPT !.of = button]) /\ Fit(Load(v))
          BY <1>2, LoadFits
        <4>. QED
          BY <3>1, <4>1 DEF Fit
      <3>3. Load(v).op = "load" /\ Load(v).state = "out" /\ ~Load(v).crossed
        BY <1>2, LoadFits
      <3>4. Rereads(c).op = "load" /\ Rereads(c).state = "out" /\ ~Rereads(c).crossed
        BY <3>1, <3>2, <3>3 DEF RequestType
      <3>5. Rereads(c) # None
        BY <3>2, NoneAssumption DEF Fit
      <3>. QED
        BY <3>2, <3>4, <3>5
    <2>3. call'[c] = Rereads(c) /\ \E n \in Nat, p \in Nat : p \in 1 .. n /\ Arrives(c, p, n)
      BY <1>1, <2>1, <2>2, AnswerArrives
    <2>4. PICK n \in Nat, p \in Nat : p \in 1 .. n /\ Arrives(c, p, n)
      BY <2>3
    <2>5. ServedInv' /\ ChainInv'
      BY <1>1, <2>2, <2>3, <2>4, ArrivalKeeps
    <2>6. ListInv'
      BY <2>2, <2>3, ReadAgain
    <2>. QED
      BY <2>5, <2>6
  <1>5. CASE how # "reload"
    <2>1. /\ call' = Mark([call EXCEPT ![c] = None], Overtaken(c)) /\ served' = Without(c)
          /\ shown' = Patched(c, how) /\ excused' = (excused \/ call[c].crossed)
      BY <1>5 DEF SaveAnswered, Ends
    <2>2. call'[c] = None /\ \E n \in Nat, p \in Nat : p \in 1 .. n /\ Arrives(c, p, n)
      BY <1>1, <2>1, AnswerArrives
    <2>3. PICK n \in Nat, p \in Nat : p \in 1 .. n /\ Arrives(c, p, n)
      BY <2>2
    <2>4. ServedInv' /\ ChainInv'
      BY <1>1, <2>2, <2>3, ArrivalKeeps
    <2>5. Patched(c, how) = None <=> shown = None
      BY <1>2, <1>3, PatchedTyped
    <2>6. CASE excused \/ call[c].crossed \/ shown = None \/ \E d \in Call : call'[d] # None /\ Mends(call[d])'
      BY <2>1, <2>4, <2>5, <2>6 DEF ListInv
    <2>7. CASE ~(excused \/ call[c].crossed \/ shown = None \/ \E d \in Call : call'[d] # None /\ Mends(call[d])')
      <3>1. /\ \A d \in Call \ {c} : call[d] # None => ~Mends(call[d])
            /\ \A k \in 1 .. n : k < p => ~Wrote(Answer(k))
        BY <1>1, <2>3, <2>7, StillMended
      <3>2. ~Mends(call[c])
        BY <1>1, <1>5, <2>7 DEF Mends
      <3>3. \A d \in Call : call[d] # None => ~Mends(call[d])
        BY <3>1, <3>2
      <3>4. DOMAIN served = 1 .. n /\ Answer(p) = call[c] /\ p \in 1 .. n
        BY <2>3 DEF Arrives, Answer
      <3>5. /\ shown.view = view
            /\ Answer(p).rows = Left(Answer(p), shown.rows)
        BY <2>7, <3>1, <3>3, <3>4 DEF ListInv
      <3>6. call[c].rows = Over(call[c].write, shown.rows)
        BY <1>1, <3>4, <3>5 DEF Left, Wrote
      <3>7. shown'.view = view' /\ shown'.rows = call[c].rows
        BY <1>1, <1>2, <1>3, <2>1, <2>7, <3>5, <3>6, PatchedTyped
      <3>8. ListInv'
        BY <1>1, <2>3, <2>7, <3>7, ListRenewed
      <3>. QED
        BY <2>4, <3>8
    <2>. QED
      BY <2>6, <2>7
  <1>. QED
    BY <1>4, <1>5

LEMMA SaveRefusedList ==
  ASSUME TypeOK, ServedInv, ChainInv, ListInv, NEW c \in Call, SaveRefused(c)
  PROVE  ServedInv' /\ ChainInv' /\ ListInv'
  <1>1. /\ Coming(c) /\ call[c].op = "save" /\ ~call[c].ok /\ UNCHANGED <<screen, at, store, view>>
        /\ call' = Mark([call EXCEPT ![c] = None], Overtaken(c)) /\ served' = Without(c)
        /\ excused' = (excused \/ screen.pretends) /\ (~screen.pretends => shown' = shown)
    BY DEF SaveRefused, Fails, Ends, Coming
  <1>2. call'[c] = None /\ \E n \in Nat, p \in Nat : p \in 1 .. n /\ Arrives(c, p, n)
    BY <1>1, AnswerArrives
  <1>3. PICK n \in Nat, p \in Nat : p \in 1 .. n /\ Arrives(c, p, n)
    BY <1>2
  <1>4. ServedInv' /\ ChainInv'
    BY <1>1, <1>2, <1>3, ArrivalKeeps
  <1>5. CASE excused \/ screen.pretends
    BY <1>1, <1>4, <1>5 DEF ListInv
  <1>6. CASE ~(excused \/ screen.pretends)
    <2>1. ~Mends(call[c]) /\ ~Wrote(call[c])
      BY <1>1 DEF Mends, Wrote
    <2>2. ListInv'
      BY <1>1, <1>3, <1>6, <2>1, RefusalKeeps
    <2>. QED
      BY <1>4, <2>2
  <1>. QED
    BY <1>5, <1>6

\* What is lost, wherever it was, excuses the list.
LEMMA LostList ==
  ASSUME TypeOK, ServedInv, ChainInv, NEW c \in Call, Lost(c) \/ RawDenied(c)
  PROVE  ServedInv' /\ ChainInv' /\ ListInv'
  <1>1. /\ call[c] # None /\ UNCHANGED <<screen, at, store, view>> /\ excused' = TRUE
        /\ call' = Mark([call EXCEPT ![c] = None], Overtaken(c)) /\ served' = Without(c)
    BY DEF Lost, RawDenied, Fails, Ends
  <1>2. ListInv'
    BY <1>1 DEF ListInv
  <1>3. CASE Coming(c)
    <2>1. call'[c] = None /\ \E n \in Nat, p \in Nat : p \in 1 .. n /\ Arrives(c, p, n)
      BY <1>1, <1>3, AnswerArrives
    <2>2. PICK n \in Nat, p \in Nat : p \in 1 .. n /\ Arrives(c, p, n)
      BY <2>1
    <2>. QED
      BY <1>1, <1>2, <1>3, <2>1, <2>2, ArrivalKeeps
  <1>4. CASE ~Coming(c)
    <2>1. served' = served /\ Overtaken(c) = {} /\ call \in FitCalls
      BY <1>1, <1>4, PartsTyped DEF Without, Overtaken, Coming
    <2>2. \A d \in Call : call'[d] = IF d = c THEN None ELSE call[d]
      BY <1>1, <2>1 DEF Mark, FitCalls, Calls
    <2>3. at' = "login" => \A d \in Call : call'[d] = None
      BY <1>1 DEF ServedInv
    <2>4. Quiet
      BY <1>1, <1>4, <2>1, <2>2, <2>3 DEF Quiet
    <2>. QED
      BY <1>2, <2>4, QuietAnswers
  <1>. QED
    BY <1>3, <1>4

\* A request is sent for a free place.
LEMMA SendQuiet ==
  ASSUME TypeOK, ServedInv, NEW q, q.state = "out", ~q.crossed, Send(q),
         UNCHANGED <<screen, store, served>>, at = "screen", at' = at
  PROVE  Quiet /\ LoadsGoOn
  <1>1. PICK c \in Free : call' = [call EXCEPT ![c] = q]
    BY DEF Send
  <1>2. c \in Call /\ call[c] = None /\ call \in Calls
    BY <1>1, PartsTyped DEF Free, FitCalls
  <1>3. \A d \in Call : call'[d] = IF d = c THEN q ELSE call[d]
    BY <1>1, <1>2 DEF Calls
  <1>. QED
    BY <1>2, <1>3 DEF Quiet, LoadsGoOn, Coming

LEMMA ServeList ==
  ASSUME TypeOK, ServedInv, ChainInv, ListInv, NEW c \in Call, Serve(c)
  PROVE  ServedInv' /\ ChainInv' /\ ListInv'
  <1>1. CASE call[c].pair <= expired
    <2>1. call \in Calls
      BY PartsTyped DEF FitCalls
    <2>2. /\ call[c] # None /\ call[c].state = "out" /\ call' = [call EXCEPT ![c].state = "denied"]
          /\ UNCHANGED <<screen, at, store, shown, view, served, excused>>
      BY <1>1 DEF Serve
    <2>3. call[c] \in RequestType
      BY <2>1, <2>2 DEF Calls
    <2>4. [call[c] EXCEPT !.state = "denied"] \in RequestType
      BY <2>3, RequestMarked
    <2>5. /\ call'[c] # None /\ call'[c].state = "denied" /\ call'[c].op = call[c].op
          /\ call'[c].crossed <=> call[c].crossed
      BY <2>1, <2>2, <2>3, <2>4, NoneAssumption DEF Calls, RequestType
    <2>6. \A d \in Call : d # c => call'[d] = call[d]
      BY <2>1, <2>2 DEF Calls
    <2>7. ~call[c].crossed
      BY <2>2 DEF ServedInv
    <2>8. Quiet /\ LoadsGoOn
      BY <2>2, <2>5, <2>6, <2>7 DEF Quiet, LoadsGoOn, Coming, ServedInv
    <2>. QED
      BY <2>2, <2>8, QuietAnswers, QuietList
  <1>2. CASE ~(call[c].pair <= expired)
    BY <1>2, ServedStep
  <1>. QED
    BY <1>1, <1>2

LEMMA SilentRefreshList ==
  ASSUME TypeOK, ServedInv, ChainInv, ListInv, NEW c \in Call, SilentRefresh(c)
  PROVE  ServedInv' /\ ChainInv' /\ ListInv'
  <1>1. call \in Calls
    BY PartsTyped DEF FitCalls
  <1>2. /\ call[c] # None /\ call[c].state = "denied" /\ call' = [call EXCEPT ![c].state = "waiting"]
        /\ UNCHANGED <<screen, at, store, shown, view, served, excused>>
    BY DEF SilentRefresh, list
  <1>3. call[c] \in RequestType
    BY <1>1, <1>2 DEF Calls
  <1>4. [call[c] EXCEPT !.state = "waiting"] \in RequestType
    BY <1>3, RequestMarked
  <1>5. /\ call'[c] # None /\ call'[c].state = "waiting" /\ call'[c].op = call[c].op
        /\ call'[c].crossed <=> call[c].crossed
    BY <1>1, <1>2, <1>3, <1>4, NoneAssumption DEF Calls, RequestType
  <1>6. \A d \in Call : d # c => call'[d] = call[d]
    BY <1>1, <1>2 DEF Calls
  <1>7. ~call[c].crossed
    BY <1>2 DEF ServedInv
  <1>8. Quiet /\ LoadsGoOn
    BY <1>2, <1>5, <1>6, <1>7 DEF Quiet, LoadsGoOn, Coming, ServedInv
  <1>. QED
    BY <1>2, <1>8, QuietAnswers, QuietList

LEMMA RefreshAnsweredList ==
  ASSUME TypeOK, ServedInv, ChainInv, ListInv, NEW q \in asking, RefreshAnswered(q)
  PROVE  ServedInv' /\ ChainInv' /\ ListInv'
  <1>1. call \in Calls /\ q.new \in Nat
    BY PartsTyped DEF FitCalls, SessionTypeOK
  <1>2. UNCHANGED <<screen, at, store, shown, view, served, excused>>
    BY DEF RefreshAnswered, list
  <1>3. ASSUME NEW d \in Call
        PROVE  /\ call'[d] = None <=> call[d] = None
               /\ call'[d] = call[d] \/ (~Coming(d) /\ call'[d].state # "back" /\ ~call'[d].crossed)
               /\ call[d] # None => call'[d].op = call[d].op
    <2>1. CASE call[d] # None /\ call[d].state = "waiting"
      <3>. DEFINE sent == [call[d] EXCEPT !.state = "out", !.again = TRUE, !.pair = q.new]
      <3>1. call[d] \in RequestType /\ call'[d] = sent
        BY <1>1, <2>1 DEF RefreshAnswered, Calls
      <3>2. sent \in RequestType
        BY <1>1, <3>1, RequestMarked
      <3>3. ~call[d].crossed
        BY <2>1 DEF ServedInv
      <3>4. sent # None
        BY <3>2, NoneAssumption
      <3>5. sent.state = "out" /\ sent.op = call[d].op /\ ~sent.crossed
        BY <3>1, <3>3 DEF RequestType
      <3>. QED
        BY <2>1, <3>1, <3>4, <3>5 DEF Coming
    <2>2. CASE ~(call[d] # None /\ call[d].state = "waiting")
      BY <2>2 DEF RefreshAnswered
    <2>. QED
      BY <2>1, <2>2
  <1>4. Quiet /\ LoadsGoOn
    BY <1>2, <1>3 DEF Quiet, LoadsGoOn, ServedInv
  <1>. QED
    BY <1>2, <1>4, QuietAnswers, QuietList

\* The page is left: there is no list, and nothing is under way.
LEMMA UnmountedList ==
  ASSUME Unmounted
  PROVE  ServedInv' /\ ChainInv' /\ ListInv'
  <1>1. DOMAIN served' = {} /\ shown' = None /\ \A d \in Call : call'[d] = None
    BY DEF Unmounted
  <1>. QED
    BY <1>1 DEF ServedInv, ChainInv, ListInv

\* The page opens with a list to be read.
LEMMA MountedList ==
  ASSUME TypeOK, ServedInv, ChainInv, at = "login", NEW access \in Nat, Mounted(access), UNCHANGED <<screen, list>>
  PROVE  ServedInv' /\ ChainInv' /\ ListInv'
  <1>1. call \in Calls /\ SessionTypeOK /\ \A d \in Call : call[d] = None
    BY PartsTyped DEF FitCalls, ServedInv
  <1>2. PICK c \in Call : call' = [call EXCEPT ![c] = [Load(1) EXCEPT !.pair = access]]
    BY DEF Mounted
  <1>. DEFINE q == [Load(1) EXCEPT !.pair = access]
  <1>3. q.op = "load" /\ q.state = "out" /\ ~q.crossed /\ q # None
    <2>1. Fit(q) /\ Fit(Load(1)) /\ Load(1).op = "load" /\ Load(1).state = "out" /\ ~Load(1).crossed
      BY <1>1, LoadFits DEF View
    <2>. QED
      BY <2>1, NoneAssumption DEF Fit, RequestType
  <1>. HIDE DEF q
  <1>4. call'[c] = q /\ \A d \in Call : d # c => call'[d] = call[d]
    BY <1>1, <1>2 DEF Calls, q
  <1>5. Quiet
    BY <1>1, <1>3, <1>4 DEF Quiet, Coming, Mounted, list
  <1>6. ServedInv' /\ ChainInv'
    BY <1>5, QuietAnswers
  <1>7. ListInv'
    BY <1>3, <1>4, ReadAgain
  <1>. QED
    BY <1>6, <1>7

\* Steps that leave the requests as they are.
LEMMA IdleList ==
  ASSUME TypeOK, ServedInv, ChainInv, ListInv,
         UNCHANGED <<screen, at, call, store, served, shown, view, excused>>
  PROVE  ServedInv' /\ ChainInv' /\ ListInv'
  <1>1. Quiet /\ LoadsGoOn
    BY DEF Quiet, LoadsGoOn, ServedInv
  <1>. QED
    BY <1>1, QuietAnswers, QuietList

\* Steps that send a request and leave the list as it is.
LEMMA SentList ==
  ASSUME TypeOK, ServedInv, ChainInv, ListInv, at = "screen",
         NEW q, q.state = "out", ~q.crossed, Send(q),
         UNCHANGED <<screen, at, store, served, shown, view, excused>>
  PROVE  ServedInv' /\ ChainInv' /\ ListInv'
  <1>1. Quiet /\ LoadsGoOn
    BY SendQuiet
  <1>. QED
    BY <1>1, QuietAnswers, QuietList

LEMMA SelectList ==
  ASSUME TypeOK, ServedInv, ChainInv, NEW v \in View, Select(v)
  PROVE  ServedInv' /\ ChainInv' /\ ListInv'
  <1>1. SessionTypeOK /\ call \in Calls
    BY PartsTyped DEF FitCalls
  <1>2. Load(v).op = "load" /\ Load(v).state = "out" /\ ~Load(v).crossed /\ Load(v) # None
    BY <1>1, LoadFits
  <1>3. at = "screen" /\ Send(Load(v)) /\ UNCHANGED <<screen, at, store, served>>
    BY DEF Select, Reachable
  <1>4. Quiet
    BY <1>2, <1>3, SendQuiet
  <1>5. PICK c \in Free : call' = [call EXCEPT ![c] = Load(v)]
    BY <1>3 DEF Send
  <1>6. c \in Call /\ call'[c] = Load(v)
    BY <1>1, <1>5 DEF Free, Calls
  <1>. QED
    BY <1>2, <1>4, <1>6, QuietAnswers, ReadAgain

\* Another writes: the answers on their way do not know it.
LEMMA OthersWriteList ==
  ASSUME TypeOK, ServedInv, NEW r \in Row, NEW v \in Value, OthersWrite(r, v)
  PROVE  ServedInv' /\ ChainInv' /\ ListInv'
  <1>. DEFINE all == {served[i] : i \in DOMAIN served}
  <1>1. call \in Calls
    BY PartsTyped DEF FitCalls
  <1>2. call' = Mark(call, all) /\ excused' = TRUE /\ UNCHANGED <<at, served>>
    BY DEF OthersWrite
  <1>3. ASSUME NEW d \in Call
        PROVE  d \in all <=> Coming(d)
    BY DEF ServedInv, Coming
  <1>. HIDE DEF all
  <1>4. ASSUME NEW d \in Call
        PROVE  /\ call'[d] = None <=> call[d] = None
               /\ Coming(d) => call'[d] = [call[d] EXCEPT !.crossed = TRUE]
               /\ ~Coming(d) => call'[d] = call[d]
    BY <1>1, <1>2, <1>3, MarkedFields DEF Coming
  <1>5. ASSUME NEW d \in Call, Coming(d)
        PROVE  call'[d] # None /\ call'[d].crossed /\ call'[d].state = "back"
    <2>1. call[d] \in RequestType /\ call[d] # None
      BY <1>1, <1>5 DEF Calls, Coming
    <2>2. [call[d] EXCEPT !.crossed = TRUE].crossed /\ [call[d] EXCEPT !.crossed = TRUE].state = call[d].state
      BY <2>1 DEF RequestType
    <2>. QED
      BY <1>4, <1>5, <2>1, <2>2 DEF Coming
  <1>6. \A i \in DOMAIN served' : Answer(i)'.crossed
    <2>1. ASSUME NEW i \in DOMAIN served PROVE call'[served[i]].crossed
      BY <1>5, AnswersComing
    <2>. QED
      BY <1>2, <2>1 DEF Answer
  <1>7. ServedInv'
    <2>1. ASSUME NEW d \in Call
          PROVE  /\ (call'[d] # None /\ call'[d].state = "back") <=> (call[d] # None /\ call[d].state = "back")
                 /\ call'[d] # None /\ call'[d].crossed => call'[d].state = "back"
      <3>1. CASE Coming(d)
        BY <1>5, <3>1 DEF Coming
      <3>2. CASE ~Coming(d)
        BY <1>4, <3>2 DEF Coming, ServedInv
      <3>. QED
        BY <3>1, <3>2
    <2>2. at' = "login" => \A c \in Call : call'[c] = None
      BY <1>2, <1>4 DEF ServedInv
    <2>3. \A i, j \in DOMAIN served' : served'[i] = served'[j] => i = j
      BY <1>2 DEF ServedInv
    <2>4. \A c \in Call :
             (\E i \in DOMAIN served' : served'[i] = c) <=> (call'[c] # None /\ call'[c].state = "back")
      BY <1>2, <2>1 DEF ServedInv
    <2>5. \A i, j \in DOMAIN served' : i < j /\ Answer(j)'.crossed => Answer(i)'.crossed
      BY <1>6
    <2>. QED
      BY <2>1, <2>2, <2>3, <2>4, <2>5 DEF ServedInv
  <1>8. ChainInv' /\ ListInv'
    BY <1>2, <1>6 DEF ChainInv, ListInv
  <1>. QED
    BY <1>7, <1>8

LEMMA OperatorList ==
  ASSUME TypeOK, ServedInv, ChainInv, ListInv,
         \/ SignOut \/ Reload
         \/ \E v \in View : Select(v)
         \/ \E r \in Used : Cancel(r) \/ Save(r)
         \/ \E r \in Used, v \in Value : Type(r, v) \/ Touch(r, v) \/ OthersWrite(r, v)
  PROVE  ServedInv' /\ ChainInv' /\ ListInv'
  <1>1. CASE SignOut
    <2>. DEFINE q == Request("logout", "logout", <<>>, view)
    <2>1. q.state = "out" /\ ~q.crossed
      BY DEF Request
    <2>2. at = "screen" /\ Send(q) /\ UNCHANGED <<screen, at, store, served, shown, view, excused>>
      BY <1>1 DEF SignOut, list
    <2>. HIDE DEF q
    <2>. QED
      BY <2>1, <2>2, SentList
  <1>2. CASE Reload
    <2>. DEFINE q == Load(view)
    <2>1. q.state = "out" /\ ~q.crossed
      BY DEF Load, Request
    <2>2. at = "screen" /\ Send(q) /\ UNCHANGED <<screen, at, store, served, shown, view, excused>>
      BY <1>2 DEF Reload, Reachable, list
    <2>. HIDE DEF q
    <2>. QED
      BY <2>1, <2>2, SentList
  <1>3. ASSUME NEW v \in View, Select(v) PROVE ServedInv' /\ ChainInv' /\ ListInv'
    BY <1>3, SelectList
  <1>4. ASSUME NEW r \in Used, Cancel(r) \/ \E v \in Value : Type(r, v)
        PROVE  ServedInv' /\ ChainInv' /\ ListInv'
    <2>1. UNCHANGED <<screen, at, call, store, served, shown, view, excused>>
      BY <1>4 DEF Cancel, Type
    <2>. QED
      BY <2>1, IdleList
  <1>5. ASSUME NEW r \in Used, Save(r) PROVE ServedInv' /\ ChainInv' /\ ListInv'
    <2>. DEFINE q == Request("save", "edit", Written(r), view)
    <2>1. q.state = "out" /\ ~q.crossed
      BY DEF Request
    <2>2. at = "screen" /\ Send(q) /\ UNCHANGED <<screen, at, store, served, shown, view, excused>>
      BY <1>5 DEF Save
    <2>. HIDE DEF q
    <2>. QED
      BY <2>1, <2>2, SentList
  <1>6. ASSUME NEW r \in Used, NEW v \in Value, Touch(r, v) PROVE ServedInv' /\ ChainInv' /\ ListInv'
    <2>. DEFINE q == Request("save", "touch", Only(r, v), view)
    <2>1. q.state = "out" /\ ~q.crossed
      BY DEF Request
    <2>2. at = "screen" /\ Send(q) /\ UNCHANGED <<screen, at, store, served, shown, view, excused>>
      BY <1>6 DEF Touch, Reachable
    <2>. HIDE DEF q
    <2>. QED
      BY <2>1, <2>2, SentList
  <1>7. ASSUME NEW r \in Used, NEW v \in Value, OthersWrite(r, v) PROVE ServedInv' /\ ChainInv' /\ ListInv'
    BY <1>7, UsedRows, OthersWriteList
  <1>. QED
    BY <1>1, <1>2, <1>3, <1>4, <1>5, <1>6, <1>7

\* A step of the console keeps the list on screen within what was answered.
LEMMA ListKept ==
  ASSUME TypeOK, ServedInv, ChainInv, ListInv, [Next]_vars
  PROVE  ServedInv' /\ ChainInv' /\ ListInv'
  <1>1. SessionTypeOK
    BY PartsTyped
  <1>2. CASE UNCHANGED vars
    BY <1>2, IdleList DEF vars, list
  <1>3. ASSUME NEW c \in Call, Serve(c) PROVE ServedInv' /\ ChainInv' /\ ListInv'
    BY <1>3, ServeList
  <1>4. ASSUME NEW c \in Call, LoadAnswered(c) PROVE ServedInv' /\ ChainInv' /\ ListInv'
    BY <1>4, LoadAnsweredList
  <1>5. ASSUME NEW c \in Call, SaveAnswered(c) PROVE ServedInv' /\ ChainInv' /\ ListInv'
    BY <1>5, SaveAnsweredList
  <1>6. ASSUME NEW c \in Call, SaveRefused(c) PROVE ServedInv' /\ ChainInv' /\ ListInv'
    BY <1>6, SaveRefusedList
  <1>7. ASSUME NEW c \in Call, Lost(c) \/ RawDenied(c) PROVE ServedInv' /\ ChainInv' /\ ListInv'
    BY <1>7, LostList
  <1>8. ASSUME NEW c \in Call, SilentRefresh(c) PROVE ServedInv' /\ ChainInv' /\ ListInv'
    BY <1>8, SilentRefreshList
  <1>9. ASSUME NEW c \in Call, Unauthorized(c) \/ SignedOut(c) PROVE ServedInv' /\ ChainInv' /\ ListInv'
    BY <1>9, UnmountedList DEF Unauthorized, SignedOut, ThrownOut
  <1>10. ASSUME NEW q \in asking, RefreshFails(q) PROVE ServedInv' /\ ChainInv' /\ ListInv'
    BY <1>10, UnmountedList DEF RefreshFails, ThrownOut
  <1>11. ASSUME NEW q \in asking, RefreshAnswered(q) PROVE ServedInv' /\ ChainInv' /\ ListInv'
    BY <1>11, RefreshAnsweredList
  <1>12. CASE (\E q \in asking : RefreshServed(q)) \/ ProactiveRefresh \/ Expires
    <2>1. UNCHANGED <<screen, at, call, store, served, shown, view, excused>>
      BY <1>12 DEF RefreshServed, ProactiveRefresh, Expires, list
    <2>. QED
      BY <2>1, IdleList
  <1>13. CASE Login
    <2>1. issued + 1 \in Nat
      BY <1>1 DEF SessionTypeOK
    <2>. QED
      BY <1>13, <2>1, MountedList DEF Login
  <1>14. CASE Returns
    <2>1. tab.access \in Nat
      BY <1>1 DEF SessionTypeOK
    <2>. QED
      BY <1>14, <2>1, MountedList DEF Returns
  <1>15. CASE \/ SignOut \/ Reload
              \/ \E v \in View : Select(v)
              \/ \E r \in Used : Cancel(r) \/ Save(r)
              \/ \E r \in Used, v \in Value : Type(r, v) \/ Touch(r, v) \/ OthersWrite(r, v)
    BY <1>15, OperatorList
  <1>. QED
    BY <1>2, <1>3, <1>4, <1>5, <1>6, <1>7, <1>8, <1>9, <1>10, <1>11, <1>12, <1>13, <1>14, <1>15 DEF Next

LEMMA InitConsole == Init => SessionInv /\ ConsoleInv
  <1> SUFFICES ASSUME Init PROVE SessionInv /\ ConsoleInv
    OBVIOUS
  <1>1. SessionInv
    BY DEF Init, SessionInv, SessionTypeOK, OneExchange, TokenIsGood, NewIsGood, RefreshedOnce, NoTokens
  <1>2. served = <<>> /\ shown = None /\ draft = Nothing /\ \A c \in Call : call[c] = None
    BY DEF Init
  <1>3. TypeOK
    <2>1. Nothing \in [Row -> Value \cup {None}] /\ <<>> \in Seq(Call)
      BY RowsMade, EmptySeq
    <2>2. /\ screen \in Screens /\ at = "login" /\ store \in Rows /\ shown = None /\ view = 1
          /\ draft = Nothing /\ saving = None /\ excused = FALSE /\ expired = 0
          /\ call = [c \in Call |-> None] /\ served = <<>>
      BY DEF Init
    <2>. QED
      <3>1. call \in [Call -> RequestType \cup {None}]
        BY <2>2
      <3>2. SessionTypeOK /\ 1 \in View
        BY <1>1 DEF SessionInv, View
      <3>. QED
        BY <1>2, <2>1, <2>2, <3>1, <3>2 DEF TypeOK
  <1>4. DraftInv
    BY <1>2 DEF DraftInv, Editing, Nothing
  <1>5. ServedInv /\ ChainInv /\ ListInv
    <2>1. DOMAIN served = {}
      BY <1>2
    <2>. QED
      BY <1>2, <2>1 DEF ServedInv, ChainInv, ListInv
  <1>. QED
    BY <1>1, <1>3, <1>4, <1>5 DEF ConsoleInv

LEMMA ConsoleInductive == SessionInv /\ ConsoleInv /\ [Next]_vars => SessionInv' /\ ConsoleInv'
  <1> SUFFICES ASSUME SessionInv, ConsoleInv, [Next]_vars PROVE SessionInv' /\ ConsoleInv'
    OBVIOUS
  <1>1. SessionInv' /\ SessionTypeOK'
    BY SessionInductive DEF SessionInv
  <1>2. TypeOK' /\ DraftInv'
    BY <1>1, TypesKept DEF ConsoleInv
  <1>3. ServedInv' /\ ChainInv' /\ ListInv'
    BY ListKept DEF ConsoleInv
  <1>. QED
    BY <1>1, <1>2, <1>3 DEF ConsoleInv

\* Whatever screen is open and however its requests are answered, the state of the console is
\* well-formed.
THEOREM TypeCorrect == Spec => []TypeOK
  <1>1. ConsoleInv => TypeOK
    BY DEF ConsoleInv
  <1>. QED
    BY <1>1, InitConsole, ConsoleInductive, PTL DEF Spec

\* On every screen of the console, once no request is under way, the list on screen is the one the
\* server keeps, for the view that is selected: whatever the order in which loads and changes are
\* served and answered, unless the list is excused.
THEOREM ShowsStored == Spec => []ShownIsStored
  <1>1. ConsoleInv => ShownIsStored
    <2> SUFFICES ASSUME ConsoleInv, shown # None, ~excused, \A c \in Call : call[c] = None
                 PROVE  shown = [view |-> view, rows |-> store]
      BY DEF ShownIsStored
    <2>1. DOMAIN served = {}
      <3>1. ASSUME NEW i \in DOMAIN served PROVE FALSE
        BY <3>1, AnswersComing DEF ConsoleInv, Coming
      <3>. QED
        BY <3>1
    <2>2. shown.view = view /\ shown.rows = store
      BY <2>1 DEF ConsoleInv, ListInv
    <2>3. shown \in [view : View, rows : Rows]
      BY DEF ConsoleInv, TypeOK
    <2>. QED
      BY <2>2, <2>3
  <1>. QED
    BY <1>1, InitConsole, ConsoleInductive, PTL DEF Spec
=============================================================================
