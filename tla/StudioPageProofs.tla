--------------------------- MODULE StudioPageProofs ---------------------------
(***************************************************************************)
(* Proofs about the screens of the tools: StudioPage, for any number of    *)
(* generations, tools, polls and unanswered questions, in front of any     *)
(* server that keeps GenerationPromise; and StudioForms, the forms its     *)
(* drawer opens, for any files, characters, lines, slides and bounds on    *)
(* them.                                                                   *)
(***************************************************************************)
EXTENDS StudioPage, StudioForms, SequenceTheorems, TLAPS

LEMMA NoneIsNoGen == None \notin Gen /\ MaxTries \in Nat /\ MaxAsked \in Nat /\ PageTools \subseteq Tools
  BY PageAssumption

------------------------------------------------------------------------------
(* Steps of the user.                                                      *)

\* Another drawer is mounted, or none; or the same stays.
LEMMA ShowStep ==
  ASSUME PageInv, NEW k \in PageTools \cup {None}, Show(k), next' \in PageTools \cup {None}
  PROVE  PageInv'
  <1>1. CASE k = selected
    BY <1>1 DEF Show, promiseVars, PageInv, PageTypeOK, ServerTypeOK, RunInv, SlotInv, Slow,
                Compared, CompareIsSecond, SpinnerMeansRun
  <1>2. CASE k # selected
    <2>1. drawer' = NewDrawer /\ run' = Orphaned /\ selected' = k
      BY <1>2 DEF Show
    <2>2. UNCHANGED <<tool, status, notice>>
      BY DEF Show, promiseVars
    <2>3. NewDrawer \in Drawer /\ NewDrawer.a = None /\ NewDrawer.b = None
          /\ ~NewDrawer.compare /\ ~NewDrawer.generating
      BY DEF NewDrawer, Drawer
    <2>4. \A g \in Gen : /\ run'[g] \in Run /\ ~run'[g].live
                         /\ run'[g].at = run[g].at /\ run'[g].tool = run[g].tool
                         /\ run'[g].asked = run[g].asked
      BY <2>1 DEF Orphaned, PageInv, PageTypeOK, Run
    <2>5. PageTypeOK' /\ ServerTypeOK'
      BY <2>1, <2>2, <2>3, <2>4 DEF PageInv, PageTypeOK, ServerTypeOK, Orphaned
    <2>6. ASSUME NEW g \in Gen PROVE RunInv(g)'
      BY <2>2, <2>4 DEF PageInv, RunInv
    <2>7. QED
      BY <2>1, <2>3, <2>5, <2>6 DEF PageInv, CompareIsSecond, SpinnerMeansRun
  <1>3. QED
    BY <1>1, <1>2

\* The drawer changes, and no run: slots are cleared at most, B together with the comparison.
LEMMA SetStep ==
  ASSUME PageInv, NEW d \in Drawer, Set(d),
         d.generating = drawer.generating,
         d.a \in {drawer.a, None},
         \/ d.b = drawer.b /\ d.compare = drawer.compare
         \/ d.b = None /\ d.compare = FALSE
  PROVE  PageInv'
  <1>1. drawer' = d /\ UNCHANGED <<tool, status, selected, next, run, notice>>
    BY DEF Set, promiseVars
  <1>2. PageTypeOK' /\ ServerTypeOK'
    BY <1>1 DEF PageInv, PageTypeOK, ServerTypeOK
  <1>3. \A g \in Gen : RunInv(g)'
    BY <1>1 DEF PageInv, RunInv
  <1>4. \A g \in {drawer'.a, drawer'.b} \ {None} : SlotInv(g)'
    BY <1>1 DEF PageInv, SlotInv, Slow
  <1>5. CompareIsSecond' /\ (drawer'.compare => \E g \in Gen : Compared(g)')
    BY <1>1 DEF PageInv, CompareIsSecond, Compared
  <1>6. SpinnerMeansRun'
    BY <1>1 DEF PageInv, SpinnerMeansRun
  <1>7. QED
    BY <1>2, <1>3, <1>4, <1>5, <1>6 DEF PageInv

LEMMA ButtonStep ==
  ASSUME PageInv,
         \/ HandleTemplateSubmit \/ CompareAgain \/ GenerateSomethingNew \/ GenerateAgain
         \/ CloseResult \/ CloseComparison \/ CancelModal \/ ModalGone
  PROVE  PageInv'
  <1> drawer \in Drawer
    BY DEF PageInv, PageTypeOK
  <1>1. CASE HandleTemplateSubmit
    <2> DEFINE d == [drawer EXCEPT !.payload = TRUE, !.modal = "open"]
    <2>1. d \in Drawer /\ d.generating = drawer.generating /\ d.a = drawer.a /\ d.b = drawer.b
          /\ d.compare = drawer.compare
      BY DEF Drawer
    <2>2. QED
      BY <1>1, <2>1, SetStep DEF HandleTemplateSubmit
  <1>2. CASE CompareAgain
    <2> DEFINE d == [drawer EXCEPT !.modal = "open"]
    <2>1. d \in Drawer /\ d.generating = drawer.generating /\ d.a = drawer.a /\ d.b = drawer.b
          /\ d.compare = drawer.compare
      BY DEF Drawer
    <2>2. QED
      BY <1>2, <2>1, SetStep DEF CompareAgain
  <1>3. CASE GenerateSomethingNew
    <2> DEFINE d == [drawer EXCEPT !.collapsed = FALSE, !.a = None, !.b = None,
                                   !.compare = FALSE, !.payload = FALSE]
    <2>1. d \in Drawer /\ d.generating = drawer.generating /\ d.a = None /\ d.b = None
          /\ d.compare = FALSE
      BY DEF Drawer
    <2>2. QED
      BY <1>3, <2>1, SetStep DEF GenerateSomethingNew
  <1>4. CASE GenerateAgain
    <2> DEFINE d == [drawer EXCEPT !.a = None, !.payload = FALSE, !.collapsed = FALSE]
    <2>1. d \in Drawer /\ d.generating = drawer.generating /\ d.a = None /\ d.b = drawer.b
          /\ d.compare = drawer.compare
      BY DEF Drawer
    <2>2. QED
      BY <1>4, <2>1, SetStep DEF GenerateAgain
  <1>5. CASE CloseResult
    <2> DEFINE d == [drawer EXCEPT !.a = None, !.collapsed = FALSE]
    <2>1. d \in Drawer /\ d.generating = drawer.generating /\ d.a = None /\ d.b = drawer.b
          /\ d.compare = drawer.compare
      BY DEF Drawer
    <2>2. QED
      BY <1>5, <2>1, SetStep DEF CloseResult
  <1>6. CASE CloseComparison
    <2> DEFINE d == [drawer EXCEPT !.b = None, !.compare = FALSE]
    <2>1. d \in Drawer /\ d.generating = drawer.generating /\ d.a = drawer.a /\ d.b = None
          /\ d.compare = FALSE
      BY DEF Drawer
    <2>2. QED
      BY <1>6, <2>1, SetStep DEF CloseComparison
  <1>7. CASE CancelModal
    <2> DEFINE d == ModalLeaves([drawer EXCEPT !.payload = FALSE])
    <2>1. d \in Drawer /\ d.generating = drawer.generating /\ d.a = drawer.a /\ d.b = drawer.b
          /\ d.compare = drawer.compare
      BY DEF Drawer, ModalLeaves, IsCompareRun
    <2>2. QED
      BY <1>7, <2>1, SetStep DEF CancelModal
  <1>8. CASE ModalGone
    <2> DEFINE d == [drawer EXCEPT !.modal = "none", !.second = FALSE]
    <2>1. d \in Drawer /\ d.generating = drawer.generating /\ d.a = drawer.a /\ d.b = drawer.b
          /\ d.compare = drawer.compare
      BY DEF Drawer
    <2>2. QED
      BY <1>8, <2>1, SetStep DEF ModalGone
  <1>9. QED
    BY <1>1, <1>2, <1>3, <1>4, <1>5, <1>6, <1>7, <1>8

\* A run begins: slot B is empty, and if the comparison stays on, the run joins another of it.
LEMMA ConfirmStep ==
  ASSUME PageInv, NEW g \in Gen, Confirm(g)
  PROVE  PageInv'
  <1> DEFINE m == ModalLeaves(drawer)
             r == [NoRun EXCEPT !.at = "posting", !.tool = selected, !.live = TRUE,
                                !.intoB = m.second]
             d == [m EXCEPT !.generating = TRUE, !.b = None, !.a = IF m.second THEN @ ELSE None,
                            !.compare = IF m.second THEN @ ELSE FALSE]
  <1>1. drawer' = d /\ run' = [run EXCEPT ![g] = r]
    BY DEF Confirm
  <1>2. UNCHANGED <<tool, status, selected, next, notice>> /\ run[g].at = "none"
    BY DEF Confirm, promiseVars
  <1>3. m \in Drawer /\ m.a = drawer.a /\ m.compare = drawer.compare
    BY DEF ModalLeaves, IsCompareRun, Drawer, PageInv, PageTypeOK
  <1>4. /\ d \in Drawer /\ d.b = None /\ d.a \in {drawer.a, None}
        /\ d.compare => drawer.compare /\ m.second
    BY <1>3 DEF Drawer
  <1>5. /\ r \in Run /\ r.at = "posting" /\ r.live /\ r.intoB = m.second /\ r.tool = selected
        /\ r.asked = 0
    <2>1. m.second \in BOOLEAN /\ selected \in PageTools \cup {None}
      BY <1>3 DEF Drawer, PageInv, PageTypeOK
    <2> HIDE DEF m
    <2>2. NoRun \in Run /\ NoRun.asked = 0
      BY NoneIsNoGen DEF NoRun, Run
    <2>3. QED
      BY <2>1, <2>2 DEF Run, Following
  <1>6. /\ run'[g] = r
        /\ \A h \in Gen \ {g} : run'[h] = run[h]
    BY <1>1 DEF PageInv, PageTypeOK
  <1>7. ~run[g].live
    BY <1>2 DEF PageInv, RunInv
  <1> HIDE DEF m, r, d
  <1>8. PageTypeOK' /\ ServerTypeOK'
    BY <1>1, <1>2, <1>4, <1>5 DEF PageInv, PageTypeOK, ServerTypeOK
  <1>9. ASSUME NEW h \in Gen PROVE RunInv(h)'
    <2>1. CASE h = g
      BY <1>2, <1>5, <1>6, <2>1 DEF RunInv
    <2>2. CASE h # g
      BY <1>2, <1>6, <2>2 DEF PageInv, RunInv
    <2>3. QED
      BY <2>1, <2>2
  <1>10. \A h \in {drawer'.a, drawer'.b} \ {None} : SlotInv(h)'
    BY <1>1, <1>2, <1>4 DEF PageInv, SlotInv, Slow
  <1>11. drawer'.compare => \E h \in Gen : g # h /\ Compared(g)' /\ Compared(h)'
    BY <1>1, <1>4, <1>5, <1>6, <1>7 DEF PageInv, Compared
  <1>12. CompareIsSecond'
    BY <1>1, <1>4, <1>11 DEF CompareIsSecond
  <1>13. SpinnerMeansRun'
    BY <1>5, <1>6 DEF SpinnerMeansRun, Following
  <1>14. QED
    BY <1>8, <1>9, <1>10, <1>11, <1>12, <1>13 DEF PageInv

------------------------------------------------------------------------------
(* Steps that follow a run.                                                *)

\* What an answer may do to the drawer: nothing, while the run is still followed or was given up
\* before; stop the spinner; or put a delivered result into the slot of the run.
Answered(g, r) ==
    \/ drawer' = drawer /\ (r.at \in Following \/ run[g].at = "over")
    \/ InDrawer(g, [drawer EXCEPT !.generating = FALSE])
    \/ /\ status[g] = "completed" /\ tool[g] = run[g].tool
       /\ InDrawer(g, IF run[g].intoB
                      THEN [drawer EXCEPT !.generating = FALSE, !.b = g, !.compare = TRUE]
                      ELSE [drawer EXCEPT !.generating = FALSE, !.a = g, !.collapsed = TRUE])

\* The drawer afterwards, by what it shows.
LEMMA AnsweredDrawer ==
  ASSUME PageInv, NEW g \in Gen, NEW r, Answered(g, r)
  PROVE  /\ drawer' \in Drawer
         /\ drawer'.generating =>
               drawer.generating /\ (run[g].live => r.at \in Following \/ run[g].at = "over")
         /\ \A h \in {drawer'.a, drawer'.b} \ {drawer.a, drawer.b} :
               h = g /\ status[g] = "completed" /\ tool[g] = run[g].tool /\ run[g].live
         /\ \/ drawer'.b = drawer.b /\ drawer'.compare = drawer.compare
            \/ drawer'.b = g /\ drawer'.compare /\ Compared(g)
  <1> drawer \in Drawer /\ run[g].intoB \in BOOLEAN /\ run[g].live \in BOOLEAN
    BY DEF PageInv, PageTypeOK, Run
  <1>1. CASE drawer' = drawer /\ (r.at \in Following \/ run[g].at = "over")
    BY <1>1
  <1>2. CASE ~run[g].live /\ drawer' = drawer
    BY <1>2
  <1>3. CASE run[g].live /\ drawer' = [drawer EXCEPT !.generating = FALSE]
    BY <1>3 DEF Drawer
  <1>4. CASE /\ status[g] = "completed" /\ tool[g] = run[g].tool
             /\ run[g].live /\ run[g].intoB
             /\ drawer' = [drawer EXCEPT !.generating = FALSE, !.b = g, !.compare = TRUE]
    BY <1>4 DEF Drawer, Compared
  <1>5. CASE /\ status[g] = "completed" /\ tool[g] = run[g].tool
             /\ run[g].live /\ ~run[g].intoB
             /\ drawer' = [drawer EXCEPT !.generating = FALSE, !.a = g, !.collapsed = TRUE]
    BY <1>5 DEF Drawer
  <1>6. QED
    BY <1>1, <1>2, <1>3, <1>4, <1>5 DEF Answered, InDrawer

\* One run goes on, or ends, with what the server knows of it.
LEMMA FollowStep ==
  ASSUME PageInv, NEW g \in Gen, NEW r \in Run, FollowOn(g, r), Answered(g, r),
         r.live = run[g].live, r.intoB = run[g].intoB, r.tool = run[g].tool,
         run[g].at # "none", r.at \notin {"none", "posting"},
         r.at \in {"streaming", "fallback", "polling"} \/ r.asked > 0
            => tool'[g] = r.tool /\ status'[g] # "none",
         UNCHANGED <<selected, next>>, PageTypeOK => notice' \in [Gen -> {"none", "failed", "notStarted"}],
         ServerTypeOK', \A h \in Gen : (h # g \/ status[g] # "none")
                           => tool'[h] = tool[h] /\ status'[h] = status[h]
  PROVE  PageInv'
  <1>1. run' = [run EXCEPT ![g] = r]
    BY DEF FollowOn
  <1>2. run'[g] = r /\ \A h \in Gen \ {g} : run'[h] = run[h]
    BY <1>1 DEF PageInv, PageTypeOK
  <1>3. PageTypeOK'
    BY <1>1, AnsweredDrawer DEF PageInv, PageTypeOK
  <1>4. ASSUME NEW h \in Gen PROVE RunInv(h)'
    <2>1. CASE h = g
      BY <1>2, <2>1 DEF PageInv, RunInv
    <2>2. CASE h # g
      BY <1>2, <2>2 DEF PageInv, RunInv
    <2>3. QED
      BY <2>1, <2>2
  <1>5. ASSUME NEW h \in {drawer'.a, drawer'.b} \ {None} PROVE SlotInv(h)'
    <2>1. h \in Gen
      BY AnsweredDrawer DEF Drawer
    <2>2. SlotInv(h) /\ status[h] # "none"
      <3>1. CASE h \in {drawer.a, drawer.b}
        BY <3>1 DEF PageInv, SlotInv
      <3>2. CASE h \notin {drawer.a, drawer.b}
        <4>1. h = g /\ status[g] = "completed" /\ tool[g] = run[g].tool /\ run[g].live
          BY <3>2, AnsweredDrawer
        <4>2. run[g].tool = selected
          BY <4>1 DEF PageInv, RunInv
        <4>3. QED
          BY <4>1, <4>2 DEF SlotInv
      <3>3. QED
        BY <3>1, <3>2
    <2>3. QED
      BY <2>1, <2>2 DEF SlotInv, Slow
  <1>6. \A h \in Gen : Compared(h) => Compared(h)'
    BY <1>2 DEF Compared
  <1>7. drawer'.compare => \E h \in Gen : Compared(h)'
    BY <1>6, AnsweredDrawer DEF PageInv
  <1>8. CompareIsSecond'
    <2>1. CASE drawer'.b = drawer.b /\ drawer'.compare = drawer.compare
      BY <1>6, <2>1 DEF PageInv, CompareIsSecond
    <2>2. CASE drawer'.b = g /\ drawer'.compare
      BY <2>2, NoneIsNoGen DEF CompareIsSecond
    <2>3. QED
      BY <2>1, <2>2, AnsweredDrawer
  <1>9. SpinnerMeansRun'
    <2> SUFFICES ASSUME drawer'.generating
                 PROVE  \E h \in Gen : run'[h].live /\ run'[h].at \in Following
      BY DEF SpinnerMeansRun
    <2>1. drawer.generating /\ (run[g].live => r.at \in Following \/ run[g].at = "over")
      BY AnsweredDrawer
    <2>2. PICK h \in Gen : run[h].live /\ run[h].at \in Following
      BY <2>1 DEF PageInv, SpinnerMeansRun
    <2>3. CASE h = g
      BY <1>2, <2>1, <2>2, <2>3 DEF Following
    <2>4. CASE h # g
      BY <1>2, <2>2, <2>4
    <2>5. QED
      BY <2>3, <2>4
  <1>10. QED
    BY <1>3, <1>4, <1>5, <1>7, <1>8, <1>9 DEF PageInv

\* The server keeps what it knew of every run it had accepted.
LEMMA SameServer ==
  ASSUME UNCHANGED promiseVars, PageInv
  PROVE  ServerTypeOK' /\ \A h \in Gen : tool'[h] = tool[h] /\ status'[h] = status[h]
  BY DEF promiseVars, PageInv, ServerTypeOK

\* Ends in one of the ways a run ends: with a result, a failure, or unanswered.
LEMMA EndedRun ==
  ASSUME PageInv, NEW g \in Gen
  PROVE  /\ Ended(g) \in Run /\ Ended(g).at = "over" /\ Ended(g).asked = run[g].asked
         /\ Ended(g).live = run[g].live /\ Ended(g).intoB = run[g].intoB
         /\ Ended(g).tool = run[g].tool
  <1>1. run[g] \in Run
    BY DEF PageInv, PageTypeOK
  <1>2. Ended(g) = [run[g] EXCEPT !.at = "over", !.tries = 0]
    BY DEF Ended
  <1>3. 0 \in 0 .. MaxTries
    BY NoneIsNoGen
  <1>4. QED
    BY <1>1, <1>2, <1>3 DEF Run

LEMMA ShownOrFailed ==
  ASSUME PageInv, NEW g \in Gen, NEW r, tool[g] = run[g].tool,
         ShowResult(g) \/ ShowFailure(g) \/ GiveUpOn(g)
  PROVE  Answered(g, r) /\ notice' \in [Gen -> {"none", "failed", "notStarted"}]
  BY DEF ShowResult, ShowFailure, GiveUpOn, Answered, PageInv, PageTypeOK

LEMMA RefusedStep ==
  ASSUME PageInv, NEW g \in Gen, run[g].at = "posting", Refused(g), UNCHANGED <<selected, next>>,
         ServerTypeOK', \A h \in Gen : (h # g \/ status[g] # "none")
                           => tool'[h] = tool[h] /\ status'[h] = status[h]
  PROVE  PageInv'
  <1>1. Answered(g, Ended(g)) /\ FollowOn(g, Ended(g))
    BY DEF Refused, Answered
  <1>2. notice' \in [Gen -> {"none", "failed", "notStarted"}]
    BY DEF Refused, PageInv, PageTypeOK
  <1>3. Ended(g).asked = 0
    BY EndedRun DEF PageInv, RunInv
  <1>4. QED
    BY <1>1, <1>2, <1>3, EndedRun, FollowStep

LEMMA AcceptedStep ==
  ASSUME PageInv, NEW g \in Gen, Accepted(g)
  PROVE  PageInv'
  <1>1. run[g].at = "posting" /\ Accept(g, run[g].tool) /\ UNCHANGED <<selected, next>>
    BY DEF Accepted
  <1>2. run[g] \in Run /\ run[g].asked = 0
    BY <1>1 DEF PageInv, PageTypeOK, RunInv
  <1>3. /\ status[g] = "none" /\ tool' = [tool EXCEPT ![g] = run[g].tool]
        /\ status' = [status EXCEPT ![g] = "pending"]
    BY <1>1 DEF Accept
  <1>4. /\ ServerTypeOK' /\ tool'[g] = run[g].tool /\ status'[g] # "none"
        /\ \A h \in Gen : (h # g \/ status[g] # "none") => tool'[h] = tool[h] /\ status'[h] = status[h]
    BY <1>2, <1>3, NoneIsNoGen DEF PageInv, ServerTypeOK, Statuses, Run
  <1>5. CASE Refused(g)
    BY <1>1, <1>4, <1>5, RefusedStep
  <1>6. CASE FollowOn(g, [run[g] EXCEPT !.at = "streaming"]) /\ UNCHANGED <<drawer, notice>>
    <2> DEFINE r == [run[g] EXCEPT !.at = "streaming"]
    <2>1. /\ r \in Run /\ r.at = "streaming" /\ r.live = run[g].live /\ r.intoB = run[g].intoB
          /\ r.tool = run[g].tool
      BY <1>2 DEF Run, Following
    <2>2. Answered(g, r) /\ FollowOn(g, r)
      BY <1>6, <2>1 DEF Answered, Following
    <2> HIDE DEF r
    <2>3. PageTypeOK => notice' \in [Gen -> {"none", "failed", "notStarted"}]
      BY <1>6 DEF PageTypeOK
    <2>4. QED
      BY <1>1, <1>4, <2>1, <2>2, <2>3, FollowStep
  <1>7. QED
    BY <1>5, <1>6 DEF Accepted

\* The run ends with an answer.
LEMMA EndingStep ==
  ASSUME PageInv, NEW g \in Gen, run[g].at \in {"streaming", "fallback", "polling"},
         ShowResult(g) \/ ShowFailure(g) \/ GiveUpOn(g), FollowOn(g, Ended(g)), Quiet
  PROVE  PageInv'
  <1>1. tool[g] = run[g].tool /\ status[g] # "none"
    BY DEF PageInv, RunInv
  <1>2. Answered(g, Ended(g)) /\ notice' \in [Gen -> {"none", "failed", "notStarted"}]
    BY <1>1, ShownOrFailed
  <1>3. UNCHANGED promiseVars /\ UNCHANGED <<selected, next>>
    BY DEF Quiet
  <1>4. QED
    BY <1>1, <1>2, <1>3, EndedRun, SameServer, FollowStep

\* The run goes on, and the drawer stays.
LEMMA GoesOnStep ==
  ASSUME PageInv, NEW g \in Gen, NEW r \in Run, FollowOn(g, r),
         run[g].at \in {"streaming", "fallback", "polling"} \/ run[g].asked > 0,
         r.at \in {"fallback", "polling"} \/ (r.at = run[g].at /\ run[g].at # "posting"),
         r.live = run[g].live, r.intoB = run[g].intoB, r.tool = run[g].tool,
         Quiet, UNCHANGED <<drawer, notice>>
  PROVE  PageInv'
  <1>1. tool[g] = run[g].tool /\ status[g] # "none" /\ run[g].at \notin {"none", "posting"}
    BY DEF PageInv, RunInv
  <1>2. run[g] \in Run
    BY DEF PageInv, PageTypeOK
  <1>3. Answered(g, r)
    BY <1>1, <1>2 DEF Answered, Run, Following
  <1>4. UNCHANGED promiseVars /\ UNCHANGED <<selected, next>>
    BY DEF Quiet
  <1>5. PageTypeOK => notice' \in [Gen -> {"none", "failed", "notStarted"}]
    BY DEF PageTypeOK
  <1>6. r.at \notin {"none", "posting"} /\ tool'[g] = r.tool /\ status'[g] # "none"
    BY <1>1, <1>4, SameServer
  <1>7. QED
    BY <1>1, <1>3, <1>4, <1>5, <1>6, SameServer, FollowStep

LEMMA FollowingStep ==
  ASSUME PageInv, NEW g \in Gen,
         StreamUpdate(g) \/ StreamError(g) \/ FallbackQuery(g) \/ PollTick(g) \/ PollAnswer(g)
  PROVE  PageInv'
  <1> run[g] \in Run
    BY DEF PageInv, PageTypeOK
  <1>1. CASE StreamUpdate(g)
    BY <1>1, EndingStep DEF StreamUpdate
  <1>2. CASE StreamError(g)
    <2> DEFINE r == [run[g] EXCEPT !.at = "fallback"]
    <2>1. /\ r \in Run /\ r.at = "fallback" /\ r.live = run[g].live /\ r.intoB = run[g].intoB
          /\ r.tool = run[g].tool
      BY DEF Run, Following
    <2>2. FollowOn(g, r)
      BY <1>2 DEF StreamError
    <2> HIDE DEF r
    <2>3. QED
      BY <1>2, <2>1, <2>2, GoesOnStep DEF StreamError
  <1>3. CASE FallbackQuery(g)
    <2>1. CASE (ShowResult(g) \/ ShowFailure(g) \/ GiveUpOn(g)) /\ FollowOn(g, Ended(g))
      BY <1>3, <2>1, EndingStep DEF FallbackQuery
    <2>2. CASE FollowOn(g, [run[g] EXCEPT !.at = "polling"]) /\ UNCHANGED <<drawer, notice>>
      <3> DEFINE r == [run[g] EXCEPT !.at = "polling"]
      <3>1. /\ r \in Run /\ r.at = "polling" /\ r.live = run[g].live /\ r.intoB = run[g].intoB
            /\ r.tool = run[g].tool
        BY DEF Run, Following
      <3>2. FollowOn(g, r)
        BY <2>2
      <3> HIDE DEF r
      <3>3. QED
        BY <1>3, <2>2, <3>1, <3>2, GoesOnStep DEF FallbackQuery
    <2>3. QED
      BY <1>3, <2>1, <2>2 DEF FallbackQuery
  <1>4. CASE PollTick(g)
    <2>1. CASE GiveUpOn(g) /\ FollowOn(g, Ended(g))
      BY <1>4, <2>1, EndingStep DEF PollTick
    <2>2. CASE /\ run[g].asked < MaxAsked /\ run[g].tries # MaxTries
               /\ FollowOn(g, [run[g] EXCEPT !.tries = @ + 1, !.asked = @ + 1])
               /\ UNCHANGED <<drawer, notice>>
      <3> DEFINE r == [run[g] EXCEPT !.tries = @ + 1, !.asked = @ + 1]
      <3>1. /\ r \in Run /\ r.at = run[g].at /\ r.live = run[g].live /\ r.intoB = run[g].intoB
            /\ r.tool = run[g].tool
        <4>1. run[g].tries + 1 \in 0 .. MaxTries /\ run[g].asked + 1 \in 0 .. MaxAsked
          BY <2>2, NoneIsNoGen DEF Run
        <4>2. QED
          BY <4>1 DEF Run
      <3>2. FollowOn(g, r)
        BY <2>2
      <3> HIDE DEF r
      <3>3. QED
        BY <1>4, <2>2, <3>1, <3>2, GoesOnStep DEF PollTick
    <2>3. QED
      BY <1>4, <2>1, <2>2 DEF PollTick
  <1>5. CASE PollAnswer(g)
    <2>1. run[g].asked > 0 /\ Quiet
      BY <1>5 DEF PollAnswer
    <2>2. tool[g] = run[g].tool /\ status[g] # "none" /\ run[g].at \notin {"none", "posting"}
      BY <2>1, NoneIsNoGen DEF PageInv, RunInv, Run
    <2>3. CASE /\ ShowResult(g) \/ ShowFailure(g) \/ GiveUpOn(g)
               /\ FollowOn(g, [Ended(g) EXCEPT !.asked = @ - 1])
      <3> DEFINE r == [Ended(g) EXCEPT !.asked = @ - 1]
      <3>1. /\ r \in Run /\ r.at = "over" /\ r.live = run[g].live /\ r.intoB = run[g].intoB
            /\ r.tool = run[g].tool
        BY <2>1, EndedRun, NoneIsNoGen DEF Run
      <3>2. FollowOn(g, r)
        BY <2>3
      <3> HIDE DEF r
      <3>3. Answered(g, r) /\ notice' \in [Gen -> {"none", "failed", "notStarted"}]
        BY <2>2, <2>3, ShownOrFailed
      <3>4. UNCHANGED promiseVars /\ UNCHANGED <<selected, next>>
        BY <2>1 DEF Quiet
      <3>5. tool'[g] = r.tool /\ status'[g] # "none"
        BY <2>2, <3>1, <3>4, SameServer
      <3>6. QED
        BY <2>2, <3>1, <3>2, <3>3, <3>4, <3>5, SameServer, FollowStep
    <2>4. CASE FollowOn(g, [run[g] EXCEPT !.asked = @ - 1]) /\ UNCHANGED <<drawer, notice>>
      <3> DEFINE r == [run[g] EXCEPT !.asked = @ - 1]
      <3>1. /\ r \in Run /\ r.at = run[g].at /\ r.live = run[g].live /\ r.intoB = run[g].intoB
            /\ r.tool = run[g].tool
        BY <2>1, NoneIsNoGen DEF Run
      <3>2. FollowOn(g, r)
        BY <2>4
      <3> HIDE DEF r
      <3>3. QED
        BY <2>1, <2>2, <2>4, <3>1, <3>2, GoesOnStep
    <2>5. QED
      BY <1>5, <2>3, <2>4 DEF PollAnswer
  <1>6. QED
    BY <1>1, <1>2, <1>3, <1>4, <1>5

------------------------------------------------------------------------------
(* The server, and the theorems.                                           *)

\* Whatever the server does to a generation, what a drawer shows of it was delivered.
LEMMA ServerStep ==
  ASSUME PageInv, NEW g \in Gen, PromiseStep(g), UNCHANGED pageVars
  PROVE  PageInv'
  <1>1. UNCHANGED <<tool, selected, next, drawer, run, notice>>
    BY DEF pageVars, PromiseStep, Work, Deliver, GiveUp, Return, Concede, Discard
  <1>2. /\ \A h \in Gen \ {g} : status'[h] = status[h]
        /\ status' \in [Gen -> Statuses]
        /\ status'[g] = "none" <=> status[g] = "none"
        /\ status[g] \in {"completed", "gone"} => status'[g] \in {"completed", "gone"} \/ Slow(g)
    BY DEF PageInv, ServerTypeOK, Statuses, PromiseStep, Work, Deliver, GiveUp, Return, Concede,
           Discard
  <1>3. PageTypeOK' /\ ServerTypeOK'
    BY <1>1, <1>2 DEF PageInv, PageTypeOK, ServerTypeOK
  <1>4. ASSUME NEW h \in Gen PROVE RunInv(h)'
    <2>1. RunInv(h) /\ (status[h] # "none" => status'[h] # "none")
      BY <1>2 DEF PageInv
    <2>2. QED
      BY <1>1, <2>1 DEF RunInv
  <1>5. ASSUME NEW h \in {drawer'.a, drawer'.b} \ {None} PROVE SlotInv(h)'
    <2>1. h \in Gen /\ SlotInv(h)
      BY <1>1 DEF PageInv, PageTypeOK, Drawer
    <2>2. QED
      BY <1>1, <1>2, <2>1 DEF SlotInv, Slow
  <1>6. CompareIsSecond' /\ SpinnerMeansRun' /\ (drawer'.compare => \E h \in Gen : Compared(h)')
    BY <1>1 DEF PageInv, CompareIsSecond, SpinnerMeansRun, Compared
  <1>7. QED
    BY <1>3, <1>4, <1>5, <1>6 DEF PageInv

LEMMA SamePage ==
  ASSUME PageInv, UNCHANGED <<promiseVars, selected, next, drawer, run, notice>>
  PROVE  PageInv'
  BY DEF promiseVars, PageInv, PageTypeOK, ServerTypeOK, RunInv, SlotInv, Slow, Compared,
         CompareIsSecond, SpinnerMeansRun

LEMMA PageStarts == Init => PageInv
  BY NoneIsNoGen DEF Init, PromiseInit, PageInv, PageTypeOK, ServerTypeOK, RunInv, Compared,
     CompareIsSecond, SpinnerMeansRun, NewDrawer, Drawer, NoRun, Run, Statuses

\* Every step of the user, the timers, the requests and the server keeps the invariant.
THEOREM PageInductive == PageInv /\ [Next]_vars => PageInv'
  <1> SUFFICES ASSUME PageInv, [Next]_vars PROVE PageInv'
    OBVIOUS
  <1> selected \in PageTools \cup {None} /\ next \in PageTools \cup {None}
    BY DEF PageInv, PageTypeOK
  <1>1. CASE UNCHANGED vars
    BY <1>1, SamePage DEF vars, pageVars
  <1>2. CASE User
    <2>1. ASSUME NEW k \in PageTools,
                 OpenTool(k) \/ DeepLink(k) \/ CrossTool(k) \/ \E g \in Gen : UseAgain(g, k)
          PROVE  PageInv'
      BY <2>1, ShowStep DEF OpenTool, DeepLink, CrossTool, UseAgain
    <2>2. CASE CloseDrawer
      BY <2>2, ShowStep DEF CloseDrawer
    <2>3. ASSUME NEW g \in Gen, Confirm(g) PROVE PageInv'
      BY <2>3, ConfirmStep
    <2>4. CASE \/ HandleTemplateSubmit \/ CompareAgain \/ GenerateSomethingNew \/ GenerateAgain
               \/ CloseResult \/ CloseComparison \/ CancelModal
      BY <2>4, ButtonStep
    <2>5. QED
      BY <1>2, <2>1, <2>2, <2>3, <2>4 DEF User
  <1>3. CASE CrossToolOpens
    BY <1>3, ShowStep DEF CrossToolOpens
  <1>4. CASE ModalGone
    BY <1>4, ButtonStep
  <1>5. CASE RefreshWallet
    BY <1>5, SamePage DEF RefreshWallet
  <1>6. CASE Server
    BY <1>6, ServerStep DEF Server
  <1>7. ASSUME NEW g \in Gen, Follow(g) PROVE PageInv'
    <2>1. CASE Accepted(g)
      BY <2>1, AcceptedStep
    <2>2. CASE NotStarted(g)
      BY <2>2, SameServer, RefusedStep DEF NotStarted, Quiet
    <2>3. CASE StreamUpdate(g) \/ StreamError(g) \/ FallbackQuery(g) \/ PollTick(g) \/ PollAnswer(g)
      BY <2>3, FollowingStep
    <2>4. QED
      BY <1>7, <2>1, <2>2, <2>3 DEF Follow
  <1>8. QED
    BY <1>1, <1>2, <1>3, <1>4, <1>5, <1>6, <1>7 DEF Next

\* The state of the page and its drawer has its type.
THEOREM TypeCorrect == Spec => []PageTypeOK
  <1>1. PageInv => PageTypeOK
    BY DEF PageInv
  <1>2. QED
    BY <1>1, PageStarts, PageInductive, PTL DEF Spec

\* However many runs outlive their drawers, a drawer shows delivered results of its own tool only.
THEOREM OwnResults == Spec => []ResultOfThisTool
  <1>1. PageInv => ResultOfThisTool
    BY DEF PageInv, ResultOfThisTool, SlotInv
  <1>2. QED
    BY <1>1, PageStarts, PageInductive, PTL DEF Spec

\* However many runs are compared, slot B and the comparison go together.
THEOREM ComparisonKept == Spec => []CompareIsSecond
  <1>1. PageInv => CompareIsSecond
    BY DEF PageInv
  <1>2. QED
    BY <1>1, PageStarts, PageInductive, PTL DEF Spec

\* The spinner of a drawer never turns without a run that will stop it.
THEOREM SpinnerFollowed == Spec => []SpinnerMeansRun
  <1>1. PageInv => SpinnerMeansRun
    BY DEF PageInv
  <1>2. QED
    BY <1>1, PageStarts, PageInductive, PTL DEF Spec
------------------------------------------------------------------------------
(* The forms.                                                              *)

LEMMA Constants ==
  /\ Null \notin File /\ Null \notin Character /\ Null # "link" /\ "link" \notin File
  /\ Examples \subseteq Character
  /\ MinSlides \in Nat /\ MaxSlides \in Nat /\ MinScenes \in 1 .. 2
  BY FormAssumption

------------------------------------------------------------------------------
(* What the forms have in common.                                          *)

Late == {"VideoAnimator", "TalkingAvatar", "VideoMultiScene", "VideoScript"}

HandlerSet ==
  [slots : SUBSET Slot, links : SUBSET Slot, early : BOOLEAN, forgets : BOOLEAN,
   needs : SUBSET Slot, clearEnds : BOOLEAN, erases : BOOLEAN, caches : BOOLEAN,
   failure : {"keep", "forget", "drop"}, asks : BOOLEAN]

\* A form that uploads what is picked offers the pick where nothing is shown, and submits once no
\* upload is under way, with what it needs.
EarlyForm(h, o) ==
  /\ h.early \in BOOLEAN /\ h.early /\ ~h.caches
  /\ h.slots \subseteq Slot /\ h.needs \subseteq h.slots
  /\ \A s \in Slot : s \in h.slots \cup h.links /\ s \in o.pick => Shown(s) = Null
  /\ o.submit => /\ \A s \in Slot : s \in h.slots => ~slot[s].busy
                 /\ \A s \in Slot : s \in h.needs => Given(s) # Null
  /\ o.submit /\ form = "VideoSlideshow" => Len(slides) >= MinSlides

\* A form that uploads at the button needs what it shows, and keeps addresses only if it is a
\* story.
LateForm(h, o) ==
  /\ h.early \in BOOLEAN /\ ~h.early /\ h.forgets = ~h.caches
  /\ h.slots \subseteq Slot /\ h.needs \subseteq Slot
  /\ \A s \in Slot : s \in h.links /\ s \in o.pick => Shown(s) = Null
  /\ h.caches => \A s \in Slot : s \in h.slots /\ s \in o.pick => slot[s].url = Null
  /\ o.submit => \A s \in Slot : s \in h.needs =>
                    /\ s \in h.slots /\ (form = "TalkingAvatar" => s = 1 \/ own)
                    /\ slot[s].url # Null \/ Shown(s) # Null

LEMMA PickerType ==
  /\ Picker \in HandlerSet
  /\ Picker.slots = {1} /\ Picker.links = {1} /\ Picker.needs = {}
  /\ Picker.early /\ Picker.forgets /\ ~Picker.caches
  /\ 1 \in Slot /\ 2 \in Slot
  BY DEF Picker, HandlerSet, Slot

LEMMA WordsType ==
  WordsOnly \in HandlerSet /\ WordsOnly.slots = {} /\ WordsOnly.links = {}
  /\ WordsOnly.needs = {} /\ WordsOnly.early /\ ~WordsOnly.caches
  BY PickerType DEF WordsOnly, HandlerSet

LEMMA ButtonType ==
  AtTheButton \in HandlerSet /\ AtTheButton.slots = {1} /\ AtTheButton.links = {1}
  /\ ~AtTheButton.early /\ AtTheButton.forgets /\ ~AtTheButton.caches
  BY PickerType DEF AtTheButton, HandlerSet

LEMMA EarlyForms ==
  ASSUME FormTypeOK, form \notin Late
  PROVE  EarlyForm(Handlers, Offers)
  <1> form \in Forms
    BY DEF FormTypeOK
  <1>1. CASE form = "ImageEditor"
    <2>1. Handlers = ImageEditor /\ Offers = ImageEditorOffers
      BY <1>1 DEF Handlers, Offers
    <2>2. EarlyForm(ImageEditor, ImageEditorOffers)
      BY <1>1, PickerType, Constants DEF EarlyForm, ImageEditor, ImageEditorOffers, Offer, Uploading, HandlerSet
    <2>3. QED
      BY <2>1, <2>2
  <1>2. CASE form = "VisionAsk"
    <2>1. Handlers = VisionAsk /\ Offers = VisionAskOffers
      BY <1>2 DEF Handlers, Offers
    <2>2. EarlyForm(VisionAsk, VisionAskOffers)
      BY <1>2, PickerType, Constants DEF EarlyForm, VisionAsk, VisionAskOffers, Offer, Uploading, HandlerSet
    <2>3. QED
      BY <2>1, <2>2
  <1>3. CASE form = "Transcribe"
    <2>1. Handlers = Transcribe /\ Offers = TranscribeOffers
      BY <1>3 DEF Handlers, Offers
    <2>2. EarlyForm(Transcribe, TranscribeOffers)
      BY <1>3, PickerType, Constants DEF EarlyForm, Transcribe, TranscribeOffers, Offer, Uploading, HandlerSet
    <2>3. QED
      BY <2>1, <2>2
  <1>4. CASE form = "CodePro"
    <2>1. Handlers = CodePro /\ Offers = CodeProOffers
      BY <1>4 DEF Handlers, Offers
    <2>2. EarlyForm(CodePro, CodeProOffers)
      BY <1>4, PickerType, Constants DEF EarlyForm, CodePro, CodeProOffers, Offer, Uploading, HandlerSet
    <2>3. QED
      BY <2>1, <2>2
  <1>5. CASE form = "VideoExtender"
    <2>1. Handlers = VideoExtender /\ Offers = VideoExtenderOffers
      BY <1>5 DEF Handlers, Offers
    <2>2. EarlyForm(VideoExtender, VideoExtenderOffers)
      BY <1>5, PickerType, Constants DEF EarlyForm, VideoExtender, VideoExtenderOffers, Offer, Uploading, HandlerSet
    <2>3. QED
      BY <2>1, <2>2
  <1>6. CASE form = "VideoEditor"
    <2>1. Handlers = VideoEditor /\ Offers = VideoEditorOffers
      BY <1>6 DEF Handlers, Offers
    <2>2. EarlyForm(VideoEditor, VideoEditorOffers)
      BY <1>6, PickerType, Constants DEF EarlyForm, VideoEditor, VideoEditorOffers, Offer, Uploading, HandlerSet
    <2>3. QED
      BY <2>1, <2>2
  <1>7. CASE form = "VideoCreator"
    <2>1. Handlers = VideoCreator /\ Offers = VideoCreatorOffers
      BY <1>7 DEF Handlers, Offers
    <2>2. EarlyForm(VideoCreator, VideoCreatorOffers)
      BY <1>7, PickerType, Constants DEF EarlyForm, VideoCreator, VideoCreatorOffers, Offer, Uploading, HandlerSet
    <2>3. QED
      BY <2>1, <2>2
  <1>8. CASE form = "ImageCreator"
    <2>1. Handlers = ImageCreator /\ Offers = ImageCreatorOffers
      BY <1>8 DEF Handlers, Offers
    <2>2. EarlyForm(ImageCreator, ImageCreatorOffers)
      BY <1>8, PickerType, Constants DEF EarlyForm, ImageCreator, ImageCreatorOffers, Offer, Uploading, HandlerSet
    <2>3. QED
      BY <2>1, <2>2
  <1>9. CASE form = "KnowledgeDoc"
    <2>1. Handlers = KnowledgeDoc /\ Offers = KnowledgeDocOffers
      BY <1>9 DEF Handlers, Offers
    <2>2. EarlyForm(KnowledgeDoc, KnowledgeDocOffers)
      BY <1>9, PickerType, Constants DEF EarlyForm, KnowledgeDoc, KnowledgeDocOffers, Offer, Uploading, HandlerSet
    <2>3. QED
      BY <2>1, <2>2
  <1>10. CASE form = "TranslateLayout"
    <2>1. Handlers = TranslateLayout /\ Offers = TranslateLayoutOffers
      BY <1>10 DEF Handlers, Offers
    <2>2. EarlyForm(TranslateLayout, TranslateLayoutOffers)
      BY <1>10, WordsType, Constants DEF EarlyForm, TranslateLayout, TranslateLayoutOffers, Offer, Uploading, HandlerSet
    <2>3. QED
      BY <2>1, <2>2
  <1>11. CASE form = "ImageCompose"
    <2>1. Handlers = ImageCompose /\ Offers = ImageComposeOffers
      BY <1>11 DEF Handlers, Offers
    <2>2. EarlyForm(ImageCompose, ImageComposeOffers)
      BY <1>11, PickerType, Constants DEF EarlyForm, ImageCompose, ImageComposeOffers, Offer, Uploading, HandlerSet, Given
    <2>3. QED
      BY <2>1, <2>2
  <1>12. CASE form = "VideoSlideshow"
    <2>1. Handlers = VideoSlideshow /\ Offers = VideoSlideshowOffers
      BY <1>12 DEF Handlers, Offers
    <2>2. EarlyForm(VideoSlideshow, VideoSlideshowOffers)
      BY <1>12, WordsType, Constants DEF EarlyForm, VideoSlideshow, VideoSlideshowOffers, Offer, Uploading, HandlerSet
    <2>3. QED
      BY <2>1, <2>2
  <1>13. CASE form = "MusicComposer"
    <2>1. Handlers = MusicComposer /\ Offers = MusicComposerOffers
      BY <1>13 DEF Handlers, Offers
    <2>2. EarlyForm(MusicComposer, MusicComposerOffers)
      BY <1>13, WordsType, Constants DEF EarlyForm, MusicComposer, MusicComposerOffers, Offer, Uploading, HandlerSet
    <2>3. QED
      BY <2>1, <2>2
  <1>14. CASE form = "VoiceStudio"
    <2>1. Handlers = VoiceStudio /\ Offers = VoiceStudioOffers
      BY <1>14 DEF Handlers, Offers
    <2>2. EarlyForm(VoiceStudio, VoiceStudioOffers)
      BY <1>14, WordsType, Constants DEF EarlyForm, VoiceStudio, VoiceStudioOffers, Offer, Uploading, HandlerSet
    <2>3. QED
      BY <2>1, <2>2
  <1>15. QED
    BY <1>1, <1>2, <1>3, <1>4, <1>5, <1>6, <1>7, <1>8, <1>9, <1>10, <1>11, <1>12, <1>13, <1>14
       DEF Forms, Late

LEMMA LateForms ==
  ASSUME FormTypeOK, form \in Late
  PROVE  LateForm(Handlers, Offers) /\ Handlers.caches = (form = "VideoScript")
  <1>1. CASE form = "VideoAnimator"
    <2>1. Handlers = VideoAnimator /\ Offers = VideoAnimatorOffers
      BY <1>1 DEF Handlers, Offers
    <2>2. LateForm(VideoAnimator, VideoAnimatorOffers) /\ VideoAnimator.caches = (form = "VideoScript")
      BY <1>1, ButtonType, PickerType DEF LateForm, VideoAnimator, VideoAnimatorOffers, Offer, HandlerSet, Filled, FormTypeOK
    <2>3. QED
      BY <2>1, <2>2
  <1>2. CASE form = "TalkingAvatar"
    <2>1. Handlers = TalkingAvatar /\ Offers = TalkingAvatarOffers
      BY <1>2 DEF Handlers, Offers
    <2>2. LateForm(TalkingAvatar, TalkingAvatarOffers) /\ TalkingAvatar.caches = (form = "VideoScript")
      BY <1>2, ButtonType, PickerType DEF LateForm, TalkingAvatar, TalkingAvatarOffers, Offer, HandlerSet, Filled, FormTypeOK
    <2>3. QED
      BY <2>1, <2>2
  <1>3. CASE form = "VideoMultiScene"
    <2>1. Handlers = VideoMultiScene /\ Offers = VideoMultiSceneOffers
      BY <1>3 DEF Handlers, Offers
    <2>2. LateForm(VideoMultiScene, VideoMultiSceneOffers) /\ VideoMultiScene.caches = (form = "VideoScript")
      BY <1>3, ButtonType, PickerType DEF LateForm, VideoMultiScene, VideoMultiSceneOffers, Offer, HandlerSet, Filled, FormTypeOK
    <2>3. QED
      BY <2>1, <2>2
  <1>4. CASE form = "VideoScript"
    <2>1. Handlers = VideoScript /\ Offers = VideoScriptOffers
      BY <1>4 DEF Handlers, Offers
    <2>2. LateForm(VideoScript, VideoScriptOffers) /\ VideoScript.caches = (form = "VideoScript")
      BY <1>4, ButtonType, PickerType DEF LateForm, VideoScript, VideoScriptOffers, Offer, HandlerSet, Filled, FormTypeOK
    <2>3. QED
      BY <2>1, <2>2
  <1>5. QED
    BY <1>1, <1>2, <1>3, <1>4 DEF Late

\* Only these two handlers of a form matter between steps.
KindOfForm == (Handlers.early <=> form \notin Late) /\ (Handlers.caches <=> form = "VideoScript")

LEMMA Kind == FormTypeOK => KindOfForm
  <1>1. CASE form \in Late
    BY <1>1, LateForms DEF LateForm, KindOfForm
  <1>2. CASE form \notin Late
    BY <1>2, EarlyForms DEF EarlyForm, Late, KindOfForm
  <1>3. QED
    BY <1>1, <1>2

LEMMA KindNext == FormTypeOK' => KindOfForm'
  BY Kind, PTL

LEMMA SameKind ==
  ASSUME FormTypeOK, FormTypeOK', form' = form
  PROVE  (Handlers.early <=> Handlers'.early) /\ (Handlers.caches <=> Handlers'.caches)
  BY Kind, KindNext DEF KindOfForm

LEMMA EmptySlot ==
  /\ NewSlot \in SlotState /\ NewSlot.file = Null /\ NewSlot.url = Null
  /\ ~NewSlot.link /\ ~NewSlot.busy /\ ~NewSlot.failed /\ ~NewSlot.crossed
  BY DEF NewSlot, SlotState

\* Nothing that was shown, uploaded or sent changes.
LEMMA FormFrame ==
  ASSUME FormInv, FormTypeOK', UNCHANGED <<form, slot, flying, chain>>, scenes' \subseteq scenes,
         rec.clone => rec'.clone, rec'.mine => rec'.clone, last' \in {last, Null}, StoryConsistent'
  PROVE  FormInv'
  <1>1. (Handlers.early <=> Handlers'.early) /\ (Handlers.caches <=> Handlers'.caches)
    BY SameKind DEF FormInv
  <1>2. ~Handlers'.early => flying' = {} /\ \A s \in Slot : ~Handlers'.caches => slot'[s].url = Null
    BY <1>1 DEF FormInv
  <1>3. \A s \in Slot : FieldInv(s)'
    BY <1>1 DEF FormInv, FieldInv, EarlySlot, LateSlot
  <1>4. ChainInv'
    BY <1>1 DEF FormInv, ChainInv
  <1>5. ShownIsSent' /\ InputPaidFor'
    BY DEF FormInv, ShownIsSent, InputPaidFor
  <1>6. QED
    BY <1>2, <1>3, <1>4, <1>5 DEF FormInv

------------------------------------------------------------------------------
(* Files and links.                                                        *)

\* One slot changes, and only uploads of it begin or end.
LEMMA OneSlot ==
  ASSUME FormInv, NEW s \in Slot, NEW r \in SlotState,
         slot' = [slot EXCEPT ![s] = r],
         flying' \subseteq Slot \X File,
         \A t \in Slot, f \in File : t # s => (<<t, f>> \in flying' <=> <<t, f>> \in flying),
         ~Handlers.early => flying' = {} /\ (~Handlers.caches => r.url = Null),
         r.file # Null => ~r.link,
         ~r.crossed /\ Handlers.early => EarlySlot(s)',
         ~r.crossed /\ ~Handlers.early => r.url = Null \/ (Handlers.caches /\ r.url = r.file),
         Handlers.caches /\ chain # Null /\ ~r.crossed => r.file = slot[s].file /\ ~slot[s].crossed,
         text' \in BOOLEAN, mic' \in BOOLEAN,
         UNCHANGED <<form, auto, voice, scenes, cast, show, chain, page, last>>
  PROVE  FormInv'
  <1>1. slot' \in [Slot -> SlotState] /\ slot'[s] = r /\ \A t \in Slot : t # s => slot'[t] = slot[t]
    BY DEF FormInv, FormTypeOK
  <1>2. FormTypeOK'
    BY <1>1 DEF FormInv, FormTypeOK, voice, show
  <1>3. (Handlers.early <=> Handlers'.early) /\ (Handlers.caches <=> Handlers'.caches)
    BY <1>2, SameKind DEF FormInv
  <1>4. ~Handlers'.early => flying' = {} /\ \A t \in Slot : ~Handlers'.caches => slot'[t].url = Null
    BY <1>1, <1>3 DEF FormInv
  <1>5. FieldInv(s)'
    BY <1>1, <1>3 DEF FieldInv, LateSlot
  <1>6. ASSUME NEW t \in Slot, t # s PROVE FieldInv(t)'
    <2>1. FieldInv(t) /\ slot'[t] = slot[t]
      BY <1>1, <1>6 DEF FormInv
    <2>2. \A f \in File : <<t, f>> \in flying' <=> <<t, f>> \in flying
      BY <1>6
    <2>3. QED
      BY <1>3, <2>1, <2>2 DEF FieldInv, EarlySlot, LateSlot
  <1>7. ChainInv'
    BY <1>1, <1>3 DEF FormInv, ChainInv, voice
  <1>8. ShownIsSent' /\ InputPaidFor' /\ StoryConsistent' /\ (rec'.mine => rec'.clone)
    BY DEF FormInv, ShownIsSent, InputPaidFor, StoryConsistent, DialogueHasSpeaker, SlidesFit,
           voice, show
  <1>9. QED
    BY <1>2, <1>4, <1>5, <1>6, <1>7, <1>8 DEF FormInv

LEMMA HandleFileStep ==
  ASSUME FormInv, NEW s \in Slot, NEW f \in File, HandleFile(s, f)
  PROVE  FormInv'
  <1> DEFINE crossed == slot[s].crossed \/ InFlight(s)
             url == IF Handlers.forgets THEN Null ELSE slot[s].url
             r == [NewSlot EXCEPT !.file = f, !.busy = Handlers.early, !.url = url,
                                  !.crossed = crossed]
  <1>1. FormTypeOK /\ slot[s] \in SlotState /\ FieldInv(s)
    BY DEF FormInv, FormTypeOK
  <1>2. /\ slot' = [slot EXCEPT ![s] = r]
        /\ flying' = IF Handlers.early THEN flying \cup {<<s, f>>} ELSE flying
        /\ s \in Handlers.slots /\ s \in Offers.pick
        /\ UNCHANGED <<text, mic, form, auto, voice, scenes, cast, show, chain, page, last>>
    BY DEF HandleFile, Media, words
  <1>3. crossed \in BOOLEAN /\ url \in File \cup {Null} /\ Handlers.early \in BOOLEAN
    <2>1. Handlers.early \in BOOLEAN
      BY <1>1, Kind, EarlyForms, LateForms DEF EarlyForm, LateForm
    <2>2. QED
      BY <1>1, <2>1 DEF SlotState, InFlight
  <1> HIDE DEF crossed, url
  <1>4. /\ r \in SlotState /\ r.file = f /\ ~r.link /\ (r.busy <=> Handlers.early) /\ r.url = url
        /\ r.crossed = crossed
    BY <1>3, EmptySlot DEF SlotState
  <1> HIDE DEF r
  <1>5. CASE Handlers.early
    <2>1. Shown(s) = Null /\ flying' = flying \cup {<<s, f>>} /\ ~Handlers.caches
      BY <1>1, <1>2, <1>5, Kind, EarlyForms DEF EarlyForm, KindOfForm
    <2>2. slot[s].file = Null
      BY <1>1, <2>1 DEF Shown
    <2>3. ~r.crossed => r.url = Null /\ \A g \in File : <<s, g>> \notin flying
      BY <1>1, <1>4, <1>5, <2>2 DEF crossed, url, InFlight, FieldInv, EarlySlot
    <2>4. slot'[s] = r
      BY <1>2 DEF FormInv, FormTypeOK
    <2>5. ~r.crossed => EarlySlot(s)'
      BY <1>4, <1>5, <2>1, <2>3, <2>4, Constants DEF EarlySlot
    <2>6. flying' \subseteq Slot \X File
      BY <1>1, <2>1 DEF FormTypeOK
    <2>7. QED
      BY <1>1, <1>2, <1>4, <1>5, <2>1, <2>5, <2>6, OneSlot DEF FormTypeOK
  <1>6. CASE ~Handlers.early
    <2>1. flying' = {} /\ flying = {}
      BY <1>2, <1>6 DEF FormInv
    <2>2. r.url = Null
      <3>1. LateForm(Handlers, Offers)
        BY <1>1, <1>6, Kind, LateForms DEF KindOfForm
      <3>2. QED
        BY <1>2, <1>4, <3>1 DEF LateForm, url
    <2>3. Handlers.caches /\ chain # Null => r.crossed
      BY <1>4 DEF crossed, InFlight
    <2>4. QED
      BY <1>1, <1>2, <1>4, <1>6, <2>1, <2>2, <2>3, OneSlot DEF FormTypeOK
  <1>7. QED
    BY <1>5, <1>6

LEMMA PasteLinkStep ==
  ASSUME FormInv, NEW s \in Slot, PasteLink(s)
  PROVE  FormInv'
  <1> DEFINE crossed == slot[s].crossed \/ InFlight(s)
             r == [slot[s] EXCEPT !.link = TRUE, !.crossed = crossed]
  <1>1. FormTypeOK /\ slot[s] \in SlotState /\ FieldInv(s)
    BY DEF FormInv, FormTypeOK
  <1>2. /\ slot' = [slot EXCEPT ![s] = r]
        /\ flying' = flying
        /\ s \in Handlers.links /\ s \in Offers.pick
        /\ UNCHANGED <<text, mic, form, auto, voice, scenes, cast, show, chain, page, last>>
    BY DEF PasteLink, Media, words, FormInv, FormTypeOK
  <1>3. crossed \in BOOLEAN /\ (crossed <=> slot[s].crossed \/ InFlight(s))
    BY <1>1 DEF SlotState, InFlight
  <1> HIDE DEF crossed
  <1>4. /\ r \in SlotState /\ r.file = slot[s].file /\ r.url = slot[s].url /\ r.busy = slot[s].busy
        /\ r.failed = slot[s].failed /\ r.crossed = crossed
    BY <1>1, <1>3 DEF SlotState
  <1> HIDE DEF r
  <1>5. slot[s].file = Null
    <2>1. Shown(s) = Null
      <3>1. CASE form \in Late
        BY <1>1, <1>2, <3>1, LateForms DEF LateForm
      <3>2. CASE form \notin Late
        BY <1>1, <1>2, <3>2, EarlyForms DEF EarlyForm
      <3>3. QED
        BY <3>1, <3>2
    <2>2. QED
      BY <2>1 DEF Shown
  <1>6. slot'[s] = r
    BY <1>2 DEF FormInv, FormTypeOK
  <1>7. ~r.crossed /\ Handlers.early => EarlySlot(s)'
    BY <1>1, <1>2, <1>3, <1>4, <1>5, <1>6 DEF FieldInv, EarlySlot
  <1>8. ~r.crossed /\ ~Handlers.early => r.url = Null \/ (Handlers.caches /\ r.url = r.file)
    BY <1>1, <1>3, <1>4 DEF FieldInv, LateSlot
  <1>9. ~Handlers.early => flying' = {} /\ (~Handlers.caches => r.url = Null)
    BY <1>2, <1>4 DEF FormInv
  <1>10. flying' \subseteq Slot \X File /\ text' \in BOOLEAN /\ mic' \in BOOLEAN
    BY <1>1, <1>2 DEF FormTypeOK
  <1>11. QED
    BY <1>2, <1>3, <1>4, <1>5, <1>7, <1>8, <1>9, <1>10, OneSlot

LEMMA ClearStep ==
  ASSUME FormInv, NEW s \in Slot, Clear(s)
  PROVE  FormInv'
  <1> DEFINE crossed == slot[s].crossed \/ InFlight(s)
             still == slot[s].busy /\ ~Handlers.clearEnds
             r == [NewSlot EXCEPT !.busy = still, !.crossed = crossed]
  <1>1. FormTypeOK /\ slot[s] \in SlotState /\ FieldInv(s)
    BY DEF FormInv, FormTypeOK
  <1>2. /\ slot' = [slot EXCEPT ![s] = r]
        /\ flying' = flying /\ text' \in BOOLEAN
        /\ UNCHANGED <<mic, form, auto, voice, scenes, cast, show, chain, page, last>>
    BY DEF Clear, Media, FormInv, FormTypeOK
  <1>3. crossed \in BOOLEAN /\ (crossed <=> slot[s].crossed \/ InFlight(s)) /\ still \in BOOLEAN
    BY <1>1 DEF SlotState, InFlight
  <1> HIDE DEF crossed, still
  <1>4. r \in SlotState /\ r.file = Null /\ r.url = Null /\ ~r.link /\ r.crossed = crossed
    BY <1>3, EmptySlot DEF SlotState
  <1> HIDE DEF r
  <1>5. slot'[s] = r
    BY <1>2 DEF FormInv, FormTypeOK
  <1>6. ~r.crossed /\ Handlers.early => EarlySlot(s)'
    BY <1>1, <1>2, <1>3, <1>4, <1>5 DEF EarlySlot, InFlight
  <1>7. Handlers.caches /\ chain # Null => r.crossed
    BY <1>3, <1>4 DEF InFlight
  <1>8. flying' \subseteq Slot \X File /\ mic' \in BOOLEAN /\ (~Handlers.early => flying' = {})
    BY <1>1, <1>2 DEF FormTypeOK, FormInv
  <1>9. QED
    BY <1>2, <1>4, <1>6, <1>7, <1>8, OneSlot

\* Uploads begun when a file was picked are those of forms that upload then.
LEMMA UploadStep ==
  ASSUME FormInv, NEW s \in Slot, NEW f \in File, UploadEnds(s, f) \/ UploadFails(s, f)
  PROVE  FormInv'
  <1> DEFINE kept == IF Handlers.failure = "drop" THEN Null ELSE slot[s].file
             left == IF Handlers.failure = "forget" THEN Null ELSE slot[s].url
             done == [slot[s] EXCEPT !.url = f, !.busy = FALSE]
             lost == [slot[s] EXCEPT !.busy = FALSE, !.failed = TRUE, !.file = kept, !.url = left]
  <1>1. FormTypeOK /\ slot[s] \in SlotState /\ FieldInv(s) /\ slot \in [Slot -> SlotState]
    BY DEF FormInv, FormTypeOK
  <1>2. /\ <<s, f>> \in flying /\ flying' = flying \ {<<s, f>>}
        /\ UNCHANGED <<text, mic, form, auto, voice, scenes, cast, show, chain, page, last>>
    BY DEF UploadEnds, UploadFails, Media, words
  <1>3. Handlers.early /\ ~Handlers.caches
    <2>1. Handlers.early
      BY <1>2 DEF FormInv
    <2>2. QED
      BY <1>1, <2>1, Kind DEF KindOfForm, Late
  <1>4. flying' \subseteq Slot \X File /\ text' \in BOOLEAN /\ mic' \in BOOLEAN
        /\ \A t \in Slot, g \in File : t # s => (<<t, g>> \in flying' <=> <<t, g>> \in flying)
    BY <1>1, <1>2 DEF FormTypeOK
  <1>5. kept \in {slot[s].file, Null} /\ left \in {slot[s].url, Null}
    OBVIOUS
  <1> HIDE DEF kept, left
  <1>6. CASE slot' = [slot EXCEPT ![s] = done]
    <2>1. done \in SlotState /\ done.file = slot[s].file /\ done.url = f /\ ~done.busy
          /\ done.link = slot[s].link /\ done.crossed = slot[s].crossed
      BY <1>1 DEF SlotState
    <2> HIDE DEF done
    <2>2. slot'[s] = done
      BY <1>1, <1>6
    <2>3. ~done.crossed => EarlySlot(s)'
      BY <1>1, <1>2, <1>3, <2>1, <2>2, Constants DEF FieldInv, EarlySlot
    <2>4. done.file # Null => ~done.link
      BY <1>1, <2>1 DEF FieldInv
    <2>5. QED
      BY <1>2, <1>3, <1>4, <1>6, <2>1, <2>3, <2>4, OneSlot
  <1>7. CASE slot' = [slot EXCEPT ![s] = lost]
    <2>1. lost \in SlotState /\ lost.file = kept /\ lost.url = left /\ ~lost.busy /\ lost.failed
          /\ lost.link = slot[s].link /\ lost.crossed = slot[s].crossed
      BY <1>1, <1>5 DEF SlotState
    <2> HIDE DEF lost
    <2>2. slot'[s] = lost
      BY <1>1, <1>7
    <2>3. ~lost.crossed => EarlySlot(s)'
      BY <1>1, <1>2, <1>3, <1>5, <2>1, <2>2, Constants DEF FieldInv, EarlySlot
    <2>4. lost.file # Null => ~lost.link
      BY <1>1, <1>5, <2>1 DEF FieldInv
    <2>5. QED
      BY <1>2, <1>3, <1>4, <1>7, <2>1, <2>3, <2>4, OneSlot
  <1>8. CASE UploadEnds(s, f)
    <2>1. slot' = [slot EXCEPT ![s].url = f, ![s].busy = FALSE]
      BY <1>8 DEF UploadEnds, Media
    <2>2. QED
      BY <1>1, <1>6, <2>1
  <1>9. CASE UploadFails(s, f)
    <2>1. slot' = [slot EXCEPT ![s].busy = FALSE, ![s].failed = TRUE,
                               ![s].file = IF Handlers.failure = "drop" THEN Null ELSE @,
                               ![s].url = IF Handlers.failure = "forget" THEN Null ELSE @]
      BY <1>9 DEF UploadFails, Media
    <2>2. QED
      BY <1>1, <1>7, <2>1 DEF kept, left
  <1>10. QED
    BY <1>8, <1>9

------------------------------------------------------------------------------
(* Words and voices.                                                       *)

LEMMA SameStory ==
  ASSUME StoryConsistent, UNCHANGED <<form, cast, slides>>, last' \in {last, Null}
  PROVE  StoryConsistent'
  BY DEF StoryConsistent, DialogueHasSpeaker, SlidesFit

LEMMA WordsStep ==
  ASSUME FormInv, Write \/ Dictate \/ Dictated
  PROVE  FormInv'
  <1>1. text' \in BOOLEAN /\ mic' \in BOOLEAN
        /\ UNCHANGED <<form, auto, media, voice, scenes, cast, show, chain, page, last>>
    BY DEF Write, Dictate, Dictated, Words, FormInv, FormTypeOK
  <1>2. FormTypeOK' /\ StoryConsistent'
    BY <1>1, SameStory DEF FormInv, FormTypeOK, media, voice, show
  <1>3. QED
    BY <1>1, <1>2, FormFrame DEF FormInv, media, voice

\* The user's own voice is only picked once it was cloned, and clones are kept.
LEMMA VoiceStep ==
  ASSUME FormInv, NEW o \in BOOLEAN, NEW r \in Recording, Voice(o, r),
         rec.clone => r.clone, r.mine => r.clone
  PROVE  FormInv'
  <1>1. own' = o /\ rec' = r
        /\ UNCHANGED <<form, auto, media, words, scenes, cast, show, chain, page, last>>
    BY DEF Voice
  <1>2. FormTypeOK' /\ StoryConsistent'
    BY <1>1, SameStory DEF FormInv, FormTypeOK, media, words, show
  <1>3. QED
    BY <1>1, <1>2, FormFrame DEF FormInv, media

LEMMA RecorderStep ==
  ASSUME FormInv, Recorder
  PROVE  FormInv'
  <1>1. rec \in Recording /\ own \in BOOLEAN /\ (rec.mine => rec.clone)
    BY DEF FormInv, FormTypeOK
  <1>2. CASE ToggleOwnAudio
    BY <1>1, <1>2, VoiceStep DEF ToggleOwnAudio
  <1>3. CASE PickVoice
    <2>1. [rec EXCEPT !.mine = FALSE] \in Recording /\ ~[rec EXCEPT !.mine = FALSE].mine
          /\ [rec EXCEPT !.mine = FALSE].clone = rec.clone
      BY <1>1 DEF Recording
    <2>2. QED
      BY <1>1, <1>3, <2>1, VoiceStep DEF PickVoice
  <1>4. CASE MyVoice
    <2> DEFINE a == [rec EXCEPT !.mine = TRUE]
               b == [rec EXCEPT !.open = TRUE]
    <2>1. a \in Recording /\ b \in Recording /\ a.clone = rec.clone /\ b.clone = rec.clone
          /\ b.mine = rec.mine
      BY <1>1 DEF Recording
    <2>2. (Voice(own, a) /\ rec.clone) \/ Voice(own, b)
      BY <1>4 DEF MyVoice
    <2> HIDE DEF a, b
    <2>3. QED
      BY <1>1, <2>1, <2>2, VoiceStep
  <1>5. CASE StartRecording \/ StopRecording \/ CloseRecorder \/ DiscardRecording \/ SaveClone
    <2>1. PICK r \in {[rec EXCEPT !.on = TRUE], [rec EXCEPT !.on = FALSE, !.blob = TRUE],
                      [rec EXCEPT !.open = FALSE, !.on = FALSE, !.blob = rec.on],
                      [rec EXCEPT !.blob = FALSE], [rec EXCEPT !.cloning = TRUE]} : Voice(own, r)
      BY <1>5 DEF StartRecording, StopRecording, CloseRecorder, DiscardRecording, SaveClone
    <2>2. r \in Recording /\ r.clone = rec.clone /\ r.mine = rec.mine
      BY <1>1 DEF Recording
    <2>3. QED
      BY <1>1, <2>1, <2>2, VoiceStep
  <1>6. CASE CloneEnds
    <2> DEFINE a == [rec EXCEPT !.cloning = FALSE, !.clone = TRUE, !.mine = TRUE,
                                !.open = FALSE, !.blob = FALSE]
               b == [rec EXCEPT !.cloning = FALSE]
    <2>1. a \in Recording /\ b \in Recording /\ a.clone /\ b.clone = rec.clone /\ b.mine = rec.mine
      BY <1>1 DEF Recording
    <2>2. Voice(own, a) \/ Voice(own, b)
      BY <1>6 DEF CloneEnds
    <2> HIDE DEF a, b
    <2>3. QED
      BY <1>1, <2>1, <2>2, VoiceStep
  <1>7. QED
    BY <1>2, <1>3, <1>4, <1>5, <1>6 DEF Recorder

------------------------------------------------------------------------------
(* Stories and slides.                                                     *)

Spoken(lines, who) == \A s \in Slot : \A i \in DOMAIN lines[s] : lines[s][i] \in who \cup {Null}

LEMMA CastStep ==
  ASSUME FormInv, NEW ca \in Casting, Cast(ca), Spoken(ca.lines, ca.who)
  PROVE  FormInv'
  <1>1. cast' = ca /\ UNCHANGED <<scenes, slot>>
        /\ UNCHANGED <<form, auto, flying, words, voice, show, chain, page, last>>
    BY DEF Cast, Story
  <1>2. FormTypeOK'
    BY <1>1 DEF FormInv, FormTypeOK, words, voice, show
  <1>3. StoryConsistent'
    BY <1>1 DEF FormInv, StoryConsistent, DialogueHasSpeaker, SlidesFit, Spoken, show
  <1>4. QED
    BY <1>1, <1>2, <1>3, FormFrame DEF FormInv, voice

LEMMA CharacterStep ==
  ASSUME FormInv, NEW c, AddCharacter(c) \/ RemoveCharacter(c) \/ LoadExamples
  PROVE  FormInv'
  <1>1. cast \in Casting /\ Spoken(cast.lines, cast.who)
    BY DEF FormInv, FormTypeOK, StoryConsistent, DialogueHasSpeaker, Spoken
  <1>2. CASE AddCharacter(c)
    <2> DEFINE ca == [cast EXCEPT !.who = @ \cup {c}]
    <2>1. ca \in Casting /\ ca.lines = cast.lines /\ ca.who = cast.who \cup {c}
      BY <1>1, <1>2 DEF Casting, AddCharacter
    <2>2. Cast(ca)
      BY <1>2 DEF AddCharacter
    <2> HIDE DEF ca
    <2>3. QED
      BY <1>1, <2>1, <2>2, CastStep DEF Spoken
  <1>3. CASE LoadExamples
    <2> DEFINE ca == [cast EXCEPT !.who = Examples, !.loaded = TRUE]
    <2>1. ca \in Casting /\ ca.lines = cast.lines /\ ca.who = Examples
      BY <1>1, Constants DEF Casting
    <2>2. Cast(ca) /\ cast.who = {}
      BY <1>3 DEF LoadExamples
    <2> HIDE DEF ca
    <2>3. QED
      BY <1>1, <2>1, <2>2, CastStep DEF Spoken
  <1>4. CASE RemoveCharacter(c)
    <2> DEFINE lines == [s \in Slot |-> [i \in DOMAIN cast.lines[s] |->
                            IF cast.lines[s][i] = c THEN Null ELSE cast.lines[s][i]]]
               ca == [cast EXCEPT !.who = @ \ {c}, !.lines = lines]
    <2>1. lines \in [Slot -> Seq(Character \cup {Null})]
      <3>1. ASSUME NEW s \in Slot PROVE lines[s] \in Seq(Character \cup {Null})
        <4>1. cast.lines[s] \in Seq(Character \cup {Null})
          BY <1>1 DEF Casting
        <4>2. /\ Len(cast.lines[s]) \in Nat /\ DOMAIN cast.lines[s] = 1 .. Len(cast.lines[s])
              /\ \A i \in 1 .. Len(cast.lines[s]) : cast.lines[s][i] \in Character \cup {Null}
          BY <4>1
        <4>3. lines[s] = [i \in 1 .. Len(cast.lines[s]) |->
                             IF cast.lines[s][i] = c THEN Null ELSE cast.lines[s][i]]
          BY <4>2
        <4>4. lines[s] \in [1 .. Len(cast.lines[s]) -> Character \cup {Null}]
          BY <4>2, <4>3
        <4>5. QED
          BY <4>2, <4>4, SeqDef
      <3>2. QED
        BY <3>1
    <2>2. Spoken(lines, cast.who \ {c})
      BY <1>1 DEF Spoken
    <2>3. Cast(ca)
      BY <1>1, <1>4 DEF RemoveCharacter, Casting
    <2> HIDE DEF lines
    <2>4. ca \in Casting /\ ca.lines = lines /\ ca.who = cast.who \ {c}
      BY <1>1, <2>1 DEF Casting
    <2> HIDE DEF ca
    <2>5. QED
      BY <2>2, <2>3, <2>4, CastStep
  <1>5. QED
    BY <1>2, <1>3, <1>4

\* The lines of one scene change: each is spoken by the narrator or somebody who is there.
LEMMA LinesStep ==
  ASSUME FormInv, NEW s \in Slot, NEW l \in Seq(Character \cup {Null}),
         Cast([cast EXCEPT !.lines[s] = l]),
         \A i \in DOMAIN l : l[i] \in cast.who \cup {Null}
  PROVE  FormInv'
  <1> DEFINE lines == [cast.lines EXCEPT ![s] = l]
             ca == [cast EXCEPT !.lines = lines]
  <1>1. cast \in Casting /\ Spoken(cast.lines, cast.who)
    BY DEF FormInv, FormTypeOK, StoryConsistent, DialogueHasSpeaker, Spoken
  <1>2. lines \in [Slot -> Seq(Character \cup {Null})] /\ Spoken(lines, cast.who)
    BY <1>1 DEF Casting, Spoken
  <1>3. Cast(ca)
    OBVIOUS
  <1> HIDE DEF lines
  <1>4. ca \in Casting /\ ca.lines = lines /\ ca.who = cast.who
    BY <1>1, <1>2 DEF Casting
  <1> HIDE DEF ca
  <1>5. QED
    BY <1>2, <1>3, <1>4, CastStep

OfThese(a, q) == \A j \in DOMAIN a : \E k \in DOMAIN q : a[j] = q[k]

\* The parts before and behind one element, and what is left without it.
LEMMA BeforeAndBehind ==
  ASSUME NEW S, NEW q \in Seq(S), NEW i \in DOMAIN q
  PROVE  /\ SubSeq(q, 1, i - 1) \in Seq(S) /\ SubSeq(q, i + 1, Len(q)) \in Seq(S)
         /\ Len(SubSeq(q, 1, i - 1)) + Len(SubSeq(q, i + 1, Len(q))) = Len(q) - 1
         /\ OfThese(SubSeq(q, 1, i - 1), q) /\ OfThese(SubSeq(q, i + 1, Len(q)), q)
  <1>1. /\ SubSeq(q, 1, i - 1) \in Seq(S) /\ Len(SubSeq(q, 1, i - 1)) = i - 1
        /\ \A j \in 1 .. (i - 1) : SubSeq(q, 1, i - 1)[j] = q[j]
    OBVIOUS
  <1>2. /\ SubSeq(q, i + 1, Len(q)) \in Seq(S) /\ Len(SubSeq(q, i + 1, Len(q))) = Len(q) - i
        /\ \A j \in 1 .. (Len(q) - i) : SubSeq(q, i + 1, Len(q))[j] = q[i + j]
    OBVIOUS
  <1>3. OfThese(SubSeq(q, 1, i - 1), q)
    <2>1. ASSUME NEW j \in 1 .. (i - 1) PROVE j \in DOMAIN q
      OBVIOUS
    <2>2. QED
      BY <1>1, <2>1 DEF OfThese
  <1>4. OfThese(SubSeq(q, i + 1, Len(q)), q)
    <2>1. ASSUME NEW j \in 1 .. (Len(q) - i) PROVE i + j \in DOMAIN q
      OBVIOUS
    <2>2. QED
      BY <1>2, <2>1 DEF OfThese
  <1>5. i \in Nat /\ Len(q) \in Nat /\ (i - 1) + (Len(q) - i) = Len(q) - 1
    OBVIOUS
  <1>6. Len(SubSeq(q, 1, i - 1)) + Len(SubSeq(q, i + 1, Len(q))) = Len(q) - 1
    BY <1>1, <1>2, <1>5
  <1>7. QED
    BY <1>1, <1>2, <1>3, <1>4, <1>6

LEMMA WithoutOne ==
  ASSUME NEW S, NEW q, NEW a \in Seq(S), NEW b \in Seq(S), OfThese(a, q), OfThese(b, q)
  PROVE  a \o b \in Seq(S) /\ Len(a \o b) = Len(a) + Len(b) /\ OfThese(a \o b, q)
  BY DEF OfThese

LEMMA DialogueStep ==
  ASSUME FormInv, NEW s \in Slot,
         \/ AddDialogueLine(s) \/ RemoveDialogueLine(s)
         \/ \E c \in Character \cup {Null} : UpdateDialogueLine(s, c)
  PROVE  FormInv'
  <1> DEFINE q == cast.lines[s]
  <1>1. q \in Seq(Character \cup {Null}) /\ \A i \in DOMAIN q : q[i] \in cast.who \cup {Null}
        /\ cast.who \subseteq Character
    BY DEF FormInv, FormTypeOK, Casting, StoryConsistent, DialogueHasSpeaker
  <1>2. CASE AddDialogueLine(s)
    <2>1. Cast([cast EXCEPT !.lines[s] = Append(q, Null)])
      BY <1>2 DEF AddDialogueLine
    <2> HIDE DEF q
    <2>2. Append(q, Null) \in Seq(Character \cup {Null})
          /\ \A i \in DOMAIN Append(q, Null) : Append(q, Null)[i] \in cast.who \cup {Null}
      BY <1>1
    <2>3. QED
      BY <2>1, <2>2, LinesStep
  <1>3. CASE RemoveDialogueLine(s)
    <2>1. PICK i \in DOMAIN q :
             Cast([cast EXCEPT !.lines[s] = SubSeq(q, 1, i - 1) \o SubSeq(q, i + 1, Len(q))])
      BY <1>3 DEF RemoveDialogueLine
    <2> DEFINE a == SubSeq(q, 1, i - 1)
               b == SubSeq(q, i + 1, Len(q))
    <2>2. Cast([cast EXCEPT !.lines[s] = a \o b])
      BY <2>1
    <2> HIDE DEF q
    <2>3. /\ a \in Seq(Character \cup {Null}) /\ b \in Seq(Character \cup {Null})
          /\ OfThese(a, q) /\ OfThese(b, q)
      BY <1>1, BeforeAndBehind
    <2> HIDE DEF a, b
    <2>4. a \o b \in Seq(Character \cup {Null}) /\ OfThese(a \o b, q)
      BY <2>3, WithoutOne
    <2>5. \A j \in DOMAIN (a \o b) : (a \o b)[j] \in cast.who \cup {Null}
      BY <1>1, <2>4 DEF OfThese
    <2>6. QED
      BY <2>2, <2>4, <2>5, LinesStep
  <1>4. ASSUME NEW c \in Character \cup {Null}, UpdateDialogueLine(s, c) PROVE FormInv'
    <2>1. PICK i \in DOMAIN q : Cast([cast EXCEPT !.lines[s][i] = c])
      BY <1>4 DEF UpdateDialogueLine
    <2>2. Cast([cast EXCEPT !.lines[s] = [q EXCEPT ![i] = c]])
      BY <2>1
    <2>3. c \in cast.who \cup {Null}
      BY <1>4 DEF UpdateDialogueLine
    <2> HIDE DEF q
    <2>4. [q EXCEPT ![i] = c] \in Seq(Character \cup {Null})
          /\ \A j \in DOMAIN [q EXCEPT ![i] = c] : [q EXCEPT ![i] = c][j] \in cast.who \cup {Null}
      BY <1>1, <2>3
    <2>5. QED
      BY <2>2, <2>4, LinesStep
  <1>5. QED
    BY <1>2, <1>3, <1>4

LEMMA SlidesStep ==
  ASSUME FormInv, NEW sl \in Seq(File), NEW ad, NEW b \in BOOLEAN,
         ad \in [1 .. 2 -> Nat], Slides(sl, ad, b), Len(sl) <= MaxSlides
  PROVE  FormInv'
  <1>1. slides' = sl /\ adding' = ad /\ busy' = b
        /\ UNCHANGED <<form, auto, media, words, voice, scenes, cast, chain, page, last>>
    BY DEF Slides
  <1>2. FormTypeOK'
    BY <1>1 DEF FormInv, FormTypeOK, media, words, voice
  <1>3. StoryConsistent'
    BY <1>1 DEF FormInv, StoryConsistent, DialogueHasSpeaker, SlidesFit
  <1>4. QED
    BY <1>1, <1>2, <1>3, FormFrame DEF FormInv, media, voice

LEMMA SlideshowStep ==
  ASSUME FormInv, Slideshow
  PROVE  FormInv'
  <1>1. slides \in Seq(File) /\ adding \in [1 .. 2 -> Nat] /\ busy \in BOOLEAN
        /\ Len(slides) <= MaxSlides /\ Len(slides) \in Nat /\ MaxSlides \in Nat
    BY Constants DEF FormInv, FormTypeOK, StoryConsistent, SlidesFit
  <1>2. ASSUME NEW b \in 1 .. 2, AddFiles(b) PROVE FormInv'
    <2>1. PICK n \in 1 .. MaxSlides - Len(slides) : Slides(slides, [adding EXCEPT ![b] = n], TRUE)
      BY <1>2 DEF AddFiles
    <2>2. [adding EXCEPT ![b] = n] \in [1 .. 2 -> Nat]
      BY <1>1
    <2>3. QED
      BY <1>1, <2>1, <2>2, SlidesStep
  <1>3. ASSUME NEW b \in 1 .. 2, SlideFails(b) PROVE FormInv'
    <2>1. [adding EXCEPT ![b] = 0] \in [1 .. 2 -> Nat]
      BY <1>1
    <2>2. QED
      BY <1>1, <1>3, <2>1, SlidesStep DEF SlideFails
  <1>4. ASSUME NEW b \in 1 .. 2, NEW f \in File, SlideUploaded(b, f) PROVE FormInv'
    <2> DEFINE more == IF Len(slides) < MaxSlides THEN Append(slides, f) ELSE slides
               on == busy /\ adding[b] > 1
    <2>1. Added(b) \in [1 .. 2 -> Nat]
      BY <1>1, <1>4 DEF Added, SlideUploaded
    <2>2. more \in Seq(File) /\ Len(more) <= MaxSlides
      <3>1. Append(slides, f) \in Seq(File) /\ Len(Append(slides, f)) = Len(slides) + 1
        BY <1>1
      <3>2. QED
        BY <1>1, <3>1
    <2>3. Slides(more, Added(b), on) /\ on \in BOOLEAN
      BY <1>4 DEF SlideUploaded
    <2> HIDE DEF more, on
    <2>4. QED
      BY <2>1, <2>2, <2>3, SlidesStep
  <1>5. CASE RemoveSlide
    <2>1. PICK i \in DOMAIN slides :
             Slides(SubSeq(slides, 1, i - 1) \o SubSeq(slides, i + 1, Len(slides)), adding, busy)
      BY <1>5 DEF RemoveSlide
    <2> DEFINE a == SubSeq(slides, 1, i - 1)
               b == SubSeq(slides, i + 1, Len(slides))
    <2>2. Slides(a \o b, adding, busy)
      BY <2>1
    <2>3. /\ a \in Seq(File) /\ b \in Seq(File) /\ Len(a) + Len(b) = Len(slides) - 1
          /\ OfThese(a, slides) /\ OfThese(b, slides)
      BY <1>1, BeforeAndBehind
    <2> HIDE DEF a, b
    <2>4. a \o b \in Seq(File) /\ Len(a \o b) = Len(slides) - 1
      BY <2>3, WithoutOne
    <2>5. Len(a \o b) <= MaxSlides
      BY <1>1, <2>4
    <2>6. QED
      BY <1>1, <2>2, <2>4, <2>5, SlidesStep
  <1>6. CASE MoveSlide
    <2>1. PICK i \in 1 .. Len(slides) - 1 :
             Slides([slides EXCEPT ![i] = slides[i + 1], ![i + 1] = slides[i]], adding, busy)
      BY <1>6 DEF MoveSlide
    <2> DEFINE sl == [slides EXCEPT ![i] = slides[i + 1], ![i + 1] = slides[i]]
    <2>2. i \in DOMAIN slides /\ i + 1 \in DOMAIN slides
          /\ slides[i] \in File /\ slides[i + 1] \in File
      BY <1>1
    <2>3. sl \in Seq(File) /\ Len(sl) = Len(slides)
      BY <1>1, <2>2
    <2>4. Slides(sl, adding, busy)
      BY <2>1
    <2> HIDE DEF sl
    <2>5. QED
      BY <1>1, <2>3, <2>4, SlidesStep
  <1>7. QED
    BY <1>2, <1>3, <1>4, <1>5, <1>6 DEF Slideshow

------------------------------------------------------------------------------
(* Scenes.                                                                 *)

LEMMA NarratorSpeaks ==
  /\ NewScene \in Seq(Character \cup {Null})
  /\ \A i \in DOMAIN NewScene : NewScene[i] = Null
  BY DEF NewScene

\* A new scene is none that a submission still uploads for.
LEMMA SceneStep ==
  ASSUME FormInv, NEW s \in Slot, AddScene(s) \/ RemoveScene(s)
  PROVE  FormInv'
  <1> DEFINE lines == [cast.lines EXCEPT ![s] = NewScene]
             ca == [cast EXCEPT !.lines = lines]
  <1>1. /\ cast \in Casting /\ Spoken(cast.lines, cast.who)
        /\ slot \in [Slot -> SlotState] /\ scenes \subseteq Slot
    BY DEF FormInv, FormTypeOK, StoryConsistent, DialogueHasSpeaker, Spoken
  <1>2. lines \in [Slot -> Seq(Character \cup {Null})] /\ Spoken(lines, cast.who)
    BY <1>1, NarratorSpeaks DEF Casting, Spoken
  <1>3. /\ form \in Late /\ scenes' \in {scenes \cup {s}, scenes \ {s}}
        /\ cast' = ca /\ slot' = [slot EXCEPT ![s] = NewSlot]
        /\ UNCHANGED <<form, auto, flying, words, voice, show, chain, page, last>>
    BY DEF AddScene, RemoveScene, Story, Late
  <1> HIDE DEF lines
  <1>4. ca \in Casting /\ ca.lines = lines /\ ca.who = cast.who
    BY <1>1, <1>2 DEF Casting
  <1> HIDE DEF ca
  <1>5. FormTypeOK'
    BY <1>1, <1>3, <1>4, EmptySlot DEF FormInv, FormTypeOK, words, voice, show
  <1>6. /\ ~Handlers.early /\ ~Handlers'.early /\ (Handlers.caches <=> Handlers'.caches)
        /\ slot'[s] = NewSlot /\ \A t \in Slot : t # s => slot'[t] = slot[t]
    BY <1>1, <1>3, <1>5, Kind, SameKind DEF FormInv, KindOfForm
  <1>7. flying' = {} /\ \A t \in Slot : ~Handlers'.caches => slot'[t].url = Null
    BY <1>3, <1>6, EmptySlot DEF FormInv
  <1>8. \A t \in Slot : FieldInv(t)'
    BY <1>3, <1>6, EmptySlot DEF FormInv, FieldInv, LateSlot
  <1>9. ChainInv'
    <2>1. scenes' = scenes \cup {s} /\ chain # Null => chain.shown[s] = Null
      <3>1. CASE AddScene(s)
        BY <3>1 DEF AddScene
      <3>2. CASE RemoveScene(s)
        BY <3>2 DEF RemoveScene, Story
      <3>3. QED
        BY <3>1, <3>2
    <2>2. chain # Null /\ s \in chain.todo => s \notin scenes'
      BY <1>3, <2>1, Constants DEF FormInv, ChainInv
    <2>3. QED
      BY <1>3, <1>6, <2>2 DEF FormInv, ChainInv, voice
  <1>10. StoryConsistent'
    BY <1>2, <1>3, <1>4 DEF FormInv, StoryConsistent, DialogueHasSpeaker, SlidesFit, Spoken, show
  <1>11. ShownIsSent' /\ InputPaidFor' /\ (rec'.mine => rec'.clone)
    BY <1>3 DEF FormInv, ShownIsSent, InputPaidFor, voice
  <1>12. QED
    BY <1>5, <1>6, <1>7, <1>8, <1>9, <1>10, <1>11 DEF FormInv

------------------------------------------------------------------------------
(* The button.                                                             *)

\* Only what is on its way to the page, and what it took, changes.
LEMMA SendFrame ==
  ASSUME FormInv, chain' \in Submission \cup {Null}, last' \in Payload \cup {Null},
         page' \in {"idle", "modal", "generating"},
         UNCHANGED <<form, auto, media, words, voice, scenes, cast, show>>,
         ChainInv', ShownIsSent', InputPaidFor',
         last' # Null /\ form = "VideoSlideshow" => last'.count \in MinSlides .. MaxSlides
  PROVE  FormInv'
  <1>1. FormTypeOK'
    BY DEF FormInv, FormTypeOK, media, words, voice, show
  <1>2. (Handlers.early <=> Handlers'.early) /\ (Handlers.caches <=> Handlers'.caches)
    BY <1>1, SameKind DEF FormInv
  <1>3. /\ ~Handlers'.early => flying' = {} /\ \A s \in Slot : ~Handlers'.caches => slot'[s].url = Null
        /\ rec'.mine => rec'.clone
    BY <1>2 DEF FormInv, media, voice
  <1>4. \A s \in Slot : FieldInv(s)'
    BY <1>2 DEF FormInv, FieldInv, EarlySlot, LateSlot, media
  <1>5. StoryConsistent'
    BY DEF FormInv, StoryConsistent, DialogueHasSpeaker, SlidesFit, show
  <1>6. QED
    BY <1>1, <1>3, <1>4, <1>5 DEF FormInv

LEMMA NothingOnItsWay ==
  ASSUME FormInv, chain' = Null, UNCHANGED <<page, last>>,
         UNCHANGED <<form, auto, media, words, voice, scenes, cast, show>>
  PROVE  FormInv'
  <1>1. /\ page' \in {"idle", "modal", "generating"} /\ last' \in Payload \cup {Null}
        /\ chain' \in Submission \cup {Null} /\ ChainInv'
    BY DEF FormInv, FormTypeOK, ChainInv
  <1>2. ShownIsSent' /\ InputPaidFor'
        /\ (last' # Null /\ form = "VideoSlideshow" => last'.count \in MinSlides .. MaxSlides)
    BY DEF FormInv, ShownIsSent, InputPaidFor, voice, StoryConsistent, SlidesFit
  <1>3. QED
    BY <1>1, <1>2, SendFrame

\* The page takes a payload: what is needed is in it, and it is what was shown.
LEMMA SubmitStep ==
  ASSUME FormInv, NEW shown \in [Slot -> Address], NEW sent \in [Slot -> Address],
         NEW r \in Press, Submit(shown, sent, r),
         \A s \in Slot \ r.excused : sent[s] = shown[s] \/ (s \in r.lost /\ sent[s] = Null),
         \A s \in r.needs : sent[s] # Null,
         r.mine => rec.clone,
         form = "VideoSlideshow" => r.count \in MinSlides .. MaxSlides,
         chain' = Null,
         UNCHANGED <<form, auto, media, words, voice, scenes, cast, show>>
  PROVE  FormInv'
  <1> DEFINE l == [shown |-> shown, sent |-> sent, needs |-> r.needs, mine |-> r.mine,
                   excused |-> r.excused, lost |-> r.lost, count |-> r.count]
  <1>1. last' = l /\ page' = "modal"
    BY DEF Submit
  <1>2. /\ l \in Payload /\ l.shown = shown /\ l.sent = sent /\ l.needs = r.needs
        /\ (l.mine <=> r.mine) /\ l.excused = r.excused /\ l.lost = r.lost /\ l.count = r.count
    BY DEF Payload, Press
  <1> HIDE DEF l
  <1>3. ShownIsSent' /\ InputPaidFor'
    BY <1>1, <1>2 DEF ShownIsSent, InputPaidFor, voice
  <1>4. chain' \in Submission \cup {Null} /\ ChainInv'
    BY DEF ChainInv
  <1>5. QED
    BY <1>1, <1>2, <1>3, <1>4, SendFrame

LEMMA PressedType ==
  ASSUME FormInv
  PROVE  /\ Pressed \in Press /\ Pressed.needs = Handlers.needs /\ Pressed.count = Len(slides)
         /\ (Pressed.mine <=> rec.mine /\ ~own)
         /\ \A s \in Slot : /\ s \in Pressed.excused <=> slot[s].crossed
                            /\ s \in Pressed.lost <=> slot[s].failed
  <1>1. Handlers.needs \in SUBSET Slot
    <2>1. CASE form \in Late
      BY <2>1, LateForms DEF LateForm, FormInv
    <2>2. CASE form \notin Late
      BY <2>2, EarlyForms DEF EarlyForm, FormInv
    <2>3. QED
      BY <2>1, <2>2
  <1>2. Len(slides) \in Nat /\ own \in BOOLEAN /\ rec \in Recording
    BY DEF FormInv, FormTypeOK
  <1> DEFINE mine == rec.mine /\ ~own
             excused == {s \in Slot : slot[s].crossed}
             lost == {s \in Slot : slot[s].failed}
  <1>3. mine \in BOOLEAN /\ excused \in SUBSET Slot /\ lost \in SUBSET Slot
    BY <1>2 DEF Recording
  <1>4. \A s \in Slot : (s \in excused <=> slot[s].crossed) /\ (s \in lost <=> slot[s].failed)
    OBVIOUS
  <1>5. Pressed = [needs |-> Handlers.needs, mine |-> mine, excused |-> excused, lost |-> lost,
                   count |-> Len(slides)]
    BY DEF Pressed
  <1>6. mine <=> rec.mine /\ ~own
    OBVIOUS
  <1> HIDE DEF mine, excused, lost
  <1>7. QED
    BY <1>1, <1>2, <1>3, <1>4, <1>5, <1>6 DEF Press

\* What a slot shows and what would be sent for it.
LEMMA ShownGiven ==
  ASSUME FormInv, NEW s \in Slot
  PROVE  /\ Shown(s) \in Address /\ Given(s) \in Address
         /\ slot[s].file # Null => Shown(s) = slot[s].file /\ Shown(s) \in File
         /\ slot[s].file = Null /\ slot[s].url = Null => Shown(s) = Given(s)
         /\ slot[s].url # Null => Given(s) = slot[s].url
         /\ slot[s].url = Null /\ slot[s].link => Given(s) = "link"
         /\ slot[s].url = Null /\ ~slot[s].link => Given(s) = Null
         /\ slot[s].file = Null /\ ~slot[s].link => Shown(s) = Null
  BY Constants DEF FormInv, FormTypeOK, SlotState, Shown, Given, Address

\* Only a link, or nothing, is sent without an upload; a slot that is not busy was uploaded, or
\* its upload failed.
LEMMA EarlySent ==
  ASSUME FormInv, NEW s \in Slot, Handlers.early, ~slot[s].busy, ~slot[s].crossed
  PROVE  Given(s) = Shown(s) \/ (slot[s].failed /\ Given(s) = Null)
  <1>1. FieldInv(s)
    BY DEF FormInv
  <1>2. EarlySlot(s) /\ (slot[s].file # Null => ~slot[s].link)
    BY <1>1 DEF FieldInv
  <1>3. CASE slot[s].file = Null
    BY <1>2, <1>3, ShownGiven DEF EarlySlot
  <1>4. CASE slot[s].file # Null
    BY <1>2, <1>4, ShownGiven DEF EarlySlot
  <1>5. QED
    BY <1>3, <1>4

LEMMA LateSent ==
  ASSUME FormInv, NEW s \in Slot, ~Handlers.early, ~slot[s].crossed
  PROVE  Given(s) = Shown(s) \/ (slot[s].file # Null /\ slot[s].url = Null)
  <1>1. FieldInv(s)
    BY DEF FormInv
  <1>2. LateSlot(s)
    BY <1>1 DEF FieldInv
  <1>3. QED
    BY <1>2, ShownGiven DEF LateSlot

LEMMA HandleSubmitStep ==
  ASSUME FormInv, HandleSubmit
  PROVE  FormInv'
  <1> DEFINE shown == [s \in Slot |-> IF Sendable(s) THEN Shown(s) ELSE Null]
             given == [s \in Slot |-> IF Sendable(s) THEN Given(s) ELSE Null]
             todo == {s \in Slot : Uploads(s)}
  <1>1. /\ chain = Null /\ Offers.submit
        /\ IF Handlers.early
           THEN Submit(shown, given, Pressed) /\ UNCHANGED chain
           ELSE /\ chain' = [todo |-> todo, shown |-> shown, sent |-> given, pressed |-> Pressed]
                /\ UNCHANGED <<page, last>>
        /\ UNCHANGED <<form, auto, media, words, voice, scenes, cast, show>>
    BY DEF HandleSubmit
  <1>2. /\ shown \in [Slot -> Address] /\ given \in [Slot -> Address] /\ todo \in SUBSET Slot
        /\ \A s \in Slot : /\ Sendable(s) => shown[s] = Shown(s) /\ given[s] = Given(s)
                           /\ ~Sendable(s) => shown[s] = Null /\ given[s] = Null
                           /\ s \in todo <=> Uploads(s)
    BY ShownGiven DEF Address
  <1> HIDE DEF shown, given, todo
  <1>3. FormTypeOK /\ (rec.mine => rec.clone)
    BY DEF FormInv
  <1>4. CASE Handlers.early
    <2>1. EarlyForm(Handlers, Offers) /\ form \notin Late
      BY <1>3, <1>4, Kind, EarlyForms DEF KindOfForm
    <2>2. \A s \in Slot : s \in Handlers.slots => Sendable(s)
      BY <2>1 DEF Sendable, Late
    <2>3. ASSUME NEW s \in Slot \ Pressed.excused
          PROVE given[s] = shown[s] \/ (s \in Pressed.lost /\ given[s] = Null)
      <3>1. CASE ~Sendable(s)
        BY <1>2, <3>1
      <3>2. CASE Sendable(s)
        <4>1. ~slot[s].busy /\ ~slot[s].crossed
          BY <1>1, <2>1, <2>3, <3>2, PressedType DEF EarlyForm, Sendable
        <4>2. Given(s) = Shown(s) \/ (slot[s].failed /\ Given(s) = Null)
          BY <1>4, <4>1, EarlySent
        <4>3. QED
          BY <1>2, <3>2, <4>2, PressedType
      <3>3. QED
        BY <3>1, <3>2
    <2>4. ASSUME NEW s \in Pressed.needs PROVE given[s] # Null
      <3>1. s \in Handlers.needs /\ s \in Slot /\ s \in Handlers.slots
        BY <2>1, <2>4, PressedType DEF EarlyForm
      <3>2. QED
        BY <1>1, <1>2, <2>1, <2>2, <3>1 DEF EarlyForm
    <2>5. form = "VideoSlideshow" => Pressed.count \in MinSlides .. MaxSlides
      <3>1. slides \in Seq(File) /\ Len(slides) <= MaxSlides
        BY DEF FormInv, FormTypeOK, StoryConsistent, SlidesFit
      <3>2. QED
        BY <1>1, <2>1, <3>1, Constants, PressedType DEF EarlyForm
    <2>6. (Pressed.mine => rec.clone) /\ Pressed \in Press
      BY <1>3, PressedType
    <2>7. QED
      BY <1>1, <1>2, <1>4, <2>3, <2>4, <2>5, <2>6, SubmitStep
  <1>5. CASE ~Handlers.early
    <2> DEFINE c == [todo |-> todo, shown |-> shown, sent |-> given, pressed |-> Pressed]
    <2>1. form \in Late /\ LateForm(Handlers, Offers)
      BY <1>3, <1>5, Kind, LateForms DEF KindOfForm
    <2>2. chain' = c /\ UNCHANGED <<page, last>>
      BY <1>1, <1>5
    <2>3. c \in Submission /\ c.todo = todo /\ c.shown = shown /\ c.sent = given
          /\ c.pressed = Pressed
      BY <1>2, PressedType DEF Submission
    <2> HIDE DEF c
    <2>4. ~Handlers'.early
      <3>1. FormTypeOK'
        BY <1>1, <1>3, <2>2, <2>3 DEF FormTypeOK, media, words, voice, show
      <3>2. QED
        BY <1>1, <1>3, <1>5, <3>1, SameKind
    <2>5. ASSUME NEW s \in Slot, s \in todo
          PROVE  shown[s] \in File /\ shown[s] = slot[s].file
      BY <1>2, <2>5, ShownGiven DEF Uploads
    <2>6. ASSUME NEW s \in Slot, s \in Pressed.needs
          PROVE  given[s] # Null \/ s \in todo
      <3>1. Sendable(s) /\ (slot[s].url # Null \/ Shown(s) # Null)
        BY <1>1, <2>1, <2>6, PressedType DEF LateForm, Sendable
      <3>2. CASE slot[s].url # Null
        BY <1>2, <3>1, <3>2, ShownGiven
      <3>3. CASE slot[s].url = Null /\ slot[s].file = Null
        BY <1>2, <3>1, <3>3, ShownGiven
      <3>4. CASE slot[s].url = Null /\ slot[s].file # Null
        BY <1>2, <3>1, <3>4 DEF Uploads
      <3>5. QED
        BY <3>2, <3>3, <3>4
    <2>7. ASSUME NEW s \in Slot, s \notin Pressed.excused
          PROVE  given[s] = shown[s] \/ s \in todo
      <3>1. CASE ~Sendable(s)
        BY <1>2, <3>1
      <3>2. CASE Sendable(s)
        <4>1. Given(s) = Shown(s) \/ (slot[s].file # Null /\ slot[s].url = Null)
          BY <1>5, <2>7, PressedType, LateSent
        <4>2. QED
          BY <1>2, <3>2, <4>1 DEF Uploads
      <3>3. QED
        BY <3>1, <3>2
    <2>8. Pressed.mine => rec.clone
      BY <1>3, PressedType
    <2>9. ChainInv'
      BY <1>1, <2>2, <2>3, <2>4, <2>5, <2>6, <2>7, <2>8 DEF ChainInv, voice, media
    <2>10. ShownIsSent' /\ InputPaidFor'
           /\ (last' # Null /\ form = "VideoSlideshow" => last'.count \in MinSlides .. MaxSlides)
      BY <1>1, <2>2 DEF FormInv, ShownIsSent, InputPaidFor, voice, StoryConsistent, SlidesFit
    <2>11. page' \in {"idle", "modal", "generating"} /\ last' \in Payload \cup {Null}
      BY <1>3, <2>2 DEF FormTypeOK
    <2>12. QED
      BY <1>1, <2>2, <2>3, <2>9, <2>10, <2>11, SendFrame
  <1>6. QED
    BY <1>4, <1>5

LEMMA NextUploadStep ==
  ASSUME FormInv, NextUpload
  PROVE  FormInv'
  <1>1. /\ FormTypeOK /\ chain \in Submission /\ chain.todo # {} /\ chain.todo \subseteq 1 .. 2
        /\ slot \in [Slot -> SlotState]
    BY DEF FormInv, FormTypeOK, NextUpload, Submission, Slot
  <1>2. PICK s \in chain.todo :
           /\ chain' = [chain EXCEPT !.todo = @ \ {s}, !.sent[s] = chain.shown[s]]
           /\ slot' = IF Handlers.caches /\ s \in scenes THEN [slot EXCEPT ![s].url = chain.shown[s]]
                      ELSE slot
    <2>1. \E x \in chain.todo : \A y \in chain.todo : x <= y
      BY <1>1, SMT
    <2> DEFINE s == CHOOSE x \in chain.todo : \A y \in chain.todo : x <= y
    <2>2. s \in chain.todo
      BY <2>1
    <2>3. /\ chain' = [chain EXCEPT !.todo = @ \ {s}, !.sent[s] = chain.shown[s]]
          /\ slot' = IF Handlers.caches /\ s \in scenes THEN [slot EXCEPT ![s].url = chain.shown[s]]
                     ELSE slot
      BY DEF NextUpload
    <2> HIDE DEF s
    <2>4. QED
      BY <2>2, <2>3
  <1> s \in Slot
    BY <1>1 DEF Slot
  <1> DEFINE f == chain.shown[s]
             sent == [chain.sent EXCEPT ![s] = f]
             c == [chain EXCEPT !.todo = @ \ {s}, !.sent = sent]
             r == [slot[s] EXCEPT !.url = f]
  <1>3. /\ chain' = c
        /\ slot' = IF Handlers.caches /\ s \in scenes THEN [slot EXCEPT ![s] = r] ELSE slot
        /\ UNCHANGED <<form, auto, flying, words, voice, scenes, cast, show, page, last>>
    BY <1>2 DEF NextUpload
  <1>4. ChainInv /\ ~Handlers.early /\ f \in File /\ chain # Null
    BY <1>2 DEF FormInv, ChainInv, NextUpload
  <1> HIDE DEF f
  <1>5. /\ r \in SlotState /\ r.url = f /\ r.file = slot[s].file /\ r.link = slot[s].link
        /\ (r.crossed <=> slot[s].crossed)
    BY <1>1, <1>2, <1>4 DEF SlotState
  <1>6. sent \in [Slot -> Address] /\ sent[s] = f /\ \A t \in Slot : t # s => sent[t] = chain.sent[t]
    BY <1>1, <1>2, <1>4 DEF Submission, Address
  <1> HIDE DEF sent, r
  <1>7. /\ c \in Submission /\ c.todo = chain.todo \ {s} /\ c.shown = chain.shown
        /\ c.sent = sent /\ c.pressed = chain.pressed
    BY <1>1, <1>6 DEF Submission
  <1> HIDE DEF c
  <1>8. /\ slot' \in [Slot -> SlotState] /\ \A t \in Slot : t # s => slot'[t] = slot[t]
        /\ slot'[s] = IF Handlers.caches /\ s \in scenes THEN r ELSE slot[s]
    BY <1>1, <1>2, <1>3, <1>5
  <1>9. FormTypeOK'
    BY <1>1, <1>3, <1>7, <1>8 DEF FormTypeOK, words, voice, show
  <1>10. (Handlers.early <=> Handlers'.early) /\ (Handlers.caches <=> Handlers'.caches)
    BY <1>1, <1>3, <1>9, SameKind
  <1>11. ~Handlers'.early => flying' = {} /\ \A t \in Slot : ~Handlers'.caches => slot'[t].url = Null
    BY <1>3, <1>8, <1>10 DEF FormInv
  <1>12. FieldInv(s)'
    <2>1. FieldInv(s) /\ (Handlers.caches /\ s \in scenes /\ ~slot[s].crossed => slot[s].file = f)
      BY <1>2, <1>4 DEF FormInv, ChainInv, f
    <2>2. CASE Handlers.caches /\ s \in scenes
      BY <1>4, <1>5, <1>8, <1>10, <2>1, <2>2 DEF FieldInv, LateSlot
    <2>3. CASE ~(Handlers.caches /\ s \in scenes)
      BY <1>4, <1>8, <1>10, <2>1, <2>3 DEF FieldInv, LateSlot
    <2>4. QED
      BY <2>2, <2>3
  <1>13. ASSUME NEW t \in Slot, t # s PROVE FieldInv(t)'
    <2>1. FieldInv(t) /\ slot'[t] = slot[t]
      BY <1>8, <1>13 DEF FormInv
    <2>2. QED
      BY <1>4, <1>10, <2>1 DEF FieldInv, LateSlot
  <1>14. ChainInv'
    <2>1. f # Null /\ f = chain.shown[s]
      BY <1>4, Constants DEF f
    <2>2. \A t \in Slot : t \in chain.todo \ {s} => slot'[t] = slot[t]
      BY <1>8
    <2>3. QED
      BY <1>3, <1>4, <1>6, <1>7, <1>10, <2>1, <2>2 DEF ChainInv, voice
  <1>15. ShownIsSent' /\ InputPaidFor' /\ StoryConsistent' /\ (rec'.mine => rec'.clone)
    BY <1>3 DEF FormInv, ShownIsSent, InputPaidFor, StoryConsistent, DialogueHasSpeaker, SlidesFit,
                voice, show
  <1>16. QED
    BY <1>9, <1>11, <1>12, <1>13, <1>14, <1>15 DEF FormInv

LEMMA UploadsDoneStep ==
  ASSUME FormInv, UploadsDone
  PROVE  FormInv'
  <1>1. /\ chain \in Submission /\ chain # Null /\ chain.todo = {} /\ chain' = Null
        /\ Submit(chain.shown, chain.sent, chain.pressed)
        /\ UNCHANGED <<form, auto, media, words, voice, scenes, cast, show>>
    BY DEF UploadsDone, FormInv, FormTypeOK
  <1>2. /\ chain.shown \in [Slot -> Address] /\ chain.sent \in [Slot -> Address]
        /\ chain.pressed \in Press /\ chain.pressed.needs \subseteq Slot
    BY <1>1 DEF Submission, Press
  <1>3. ChainInv /\ form # "VideoSlideshow"
    BY <1>1, Kind DEF FormInv, ChainInv, KindOfForm, Late
  <1>4. /\ \A s \in Slot \ chain.pressed.excused : chain.sent[s] = chain.shown[s]
        /\ \A s \in chain.pressed.needs : chain.sent[s] # Null
        /\ chain.pressed.mine => rec.clone
    BY <1>1, <1>2, <1>3 DEF ChainInv
  <1>5. QED
    BY <1>1, <1>2, <1>3, <1>4, SubmitStep

LEMMA FormButtonStep ==
  ASSUME FormInv, Button
  PROVE  FormInv'
  <1>1. CASE UploadsFail
    BY <1>1, NothingOnItsWay DEF UploadsFail
  <1>2. CASE PageMoves
    <2>1. /\ page' \in {"idle", "modal", "generating"} /\ last' = Null
          /\ UNCHANGED <<form, auto, media, words, voice, scenes, cast, show, chain>>
      BY <1>2 DEF PageMoves
    <2>2. FormTypeOK' /\ StoryConsistent'
      BY <2>1 DEF FormInv, FormTypeOK, media, words, voice, show, StoryConsistent,
                  DialogueHasSpeaker, SlidesFit
    <2>3. QED
      BY <2>1, <2>2, FormFrame DEF FormInv, media, voice
  <1>3. QED
    BY <1>1, <1>2, HandleSubmitStep, NextUploadStep, UploadsDoneStep DEF Button

------------------------------------------------------------------------------
(* The theorems.                                                           *)

LEMMA LinkSlot ==
  LET l == [NewSlot EXCEPT !.link = TRUE]
  IN  /\ l \in SlotState /\ l.file = Null /\ l.url = Null /\ ~l.busy /\ ~l.crossed
  BY EmptySlot DEF SlotState

LEMMA FormInitInv == FormInit => FormInv
  <1> SUFFICES ASSUME FormInit PROVE FormInv
    OBVIOUS
  <1> DEFINE l == [NewSlot EXCEPT !.link = TRUE]
             lines == [s \in Slot |-> NewScene]
             ca == [who |-> {}, loaded |-> FALSE, lines |-> lines]
  <1>1. /\ slot \in [Slot -> {NewSlot, l}] /\ flying = {} /\ chain = Null /\ last = Null
        /\ text = FALSE /\ mic = FALSE /\ own = FALSE /\ page = "idle" /\ busy = FALSE
        /\ slides = <<>> /\ adding = [b \in 1 .. 2 |-> 0] /\ cast = ca /\ scenes = 1 .. MinScenes
        /\ form \in Forms
    BY DEF FormInit, Fresh
  <1>2. l \in SlotState /\ l.file = Null /\ l.url = Null /\ ~l.busy /\ ~l.crossed
    BY LinkSlot
  <1> HIDE DEF l
  <1>3. /\ slot \in [Slot -> SlotState]
        /\ \A s \in Slot : slot[s].file = Null /\ slot[s].url = Null
    BY <1>1, <1>2, EmptySlot
  <1>4. lines \in [Slot -> Seq(Character \cup {Null})]
        /\ \A s \in Slot : \A i \in DOMAIN lines[s] : lines[s][i] = Null
    BY NarratorSpeaks
  <1> HIDE DEF lines
  <1>5. ca \in Casting /\ ca.lines = lines
    BY <1>4 DEF Casting
  <1> HIDE DEF ca
  <1>6. rec \in Recording /\ ~rec.mine
    <2>1. rec \in [open : {FALSE}, on : {FALSE}, blob : {FALSE}, cloning : {FALSE},
                   clone : BOOLEAN, mine : {FALSE}]
      <3>1. (IF form = "TalkingAvatar" THEN BOOLEAN ELSE {FALSE}) \subseteq BOOLEAN
        OBVIOUS
      <3>2. QED
        BY <3>1 DEF FormInit, Fresh
    <2>2. QED
      BY <2>1 DEF Recording
  <1>7. auto \in BOOLEAN /\ scenes \subseteq Slot /\ slides \in Seq(File) /\ Len(slides) = 0
        /\ adding \in [1 .. 2 -> Nat]
    <2>1. auto \in BOOLEAN
      BY DEF FormInit
    <2>2. scenes \subseteq Slot
      BY <1>1, Constants DEF Slot
    <2>3. slides \in Seq(File) /\ Len(slides) = 0
      BY <1>1
    <2>4. adding \in [1 .. 2 -> Nat]
      BY <1>1
    <2>5. QED
      BY <2>1, <2>2, <2>3, <2>4
  <1>8. FormTypeOK
    BY <1>1, <1>3, <1>5, <1>6, <1>7 DEF FormTypeOK
  <1>9. \A s \in Slot : FieldInv(s)
    BY <1>1, <1>3 DEF FieldInv, EarlySlot, LateSlot
  <1>10. StoryConsistent
    BY <1>1, <1>4, <1>5, <1>7, Constants DEF StoryConsistent, DialogueHasSpeaker, SlidesFit
  <1>11. QED
    BY <1>1, <1>3, <1>6, <1>8, <1>9, <1>10 DEF FormInv, ChainInv, ShownIsSent, InputPaidFor

LEMMA FormNextInv == FormInv /\ [FormNext]_formVars => FormInv'
  <1> SUFFICES ASSUME FormInv, [FormNext]_formVars PROVE FormInv'
    OBVIOUS
  <1>1. CASE Files
    BY <1>1, PasteLinkStep, ClearStep, HandleFileStep, UploadStep DEF Files
  <1>2. CASE Write \/ Dictate \/ Dictated
    BY <1>2, WordsStep
  <1>3. CASE Recorder
    BY <1>3, RecorderStep
  <1>4. CASE Stories
    BY <1>4, SceneStep, DialogueStep, CharacterStep DEF Stories
  <1>5. CASE Slideshow
    BY <1>5, SlideshowStep
  <1>6. CASE Button
    BY <1>6, FormButtonStep
  <1>7. CASE UNCHANGED formVars
    <2>1. FormTypeOK' /\ StoryConsistent'
      BY <1>7 DEF FormInv, FormTypeOK, StoryConsistent, DialogueHasSpeaker, SlidesFit, formVars, media,
                  words, voice, show
    <2>2. QED
      BY <1>7, <2>1, FormFrame DEF FormInv, formVars, media, voice
  <1>8. QED
    BY <1>1, <1>2, <1>3, <1>4, <1>5, <1>6, <1>7 DEF FormNext

\* The invariant of the forms holds in every behaviour of every form.
THEOREM FormInductive == FormSpec => []FormInv
  BY FormInitInv, FormNextInv, PTL DEF FormSpec

\* Every variable of a form keeps its type (state of the templates).
THEOREM FormsTyped == FormSpec => []FormTypeOK
  <1>1. FormInv => FormTypeOK
    BY DEF FormInv
  <1>2. QED
    BY <1>1, FormInductive, PTL

\* What the page sends is what the form showed when its button was pressed (uploadedUrl,
\* imageUrl, docURL), for any number of files.
THEOREM SentAsShown == FormSpec => []ShownIsSent
  <1>1. FormInv => ShownIsSent
    BY DEF FormInv
  <1>2. QED
    BY <1>1, FormInductive, PTL

\* No form that requires a file submits without its address, nor with a voice that was never
\* cloned (handleSubmit of the templates).
THEOREM PaidWithInput == FormSpec => []InputPaidFor
  <1>1. FormInv => InputPaidFor
    BY DEF FormInv
  <1>2. QED
    BY <1>1, FormInductive, PTL

\* Lines are spoken by whoever is there and slides fit, for any number of characters, lines and
\* slides (removeCharacter, addFiles).
THEOREM StoriesConsistent == FormSpec => []StoryConsistent
  <1>1. FormInv => StoryConsistent
    BY DEF FormInv
  <1>2. QED
    BY <1>1, FormInductive, PTL
================================================================================
