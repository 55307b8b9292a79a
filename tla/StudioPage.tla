------------------------------ MODULE StudioPage ------------------------------
(***************************************************************************)
(* The tools tab of the web studio (frontend/src/app/studio/page.tsx): the *)
(* drawer of the open tool, its confirmation modal, the runs it started,   *)
(* and the two result slots of the A/B comparison, in front of a server    *)
(* that does what GenerationPromise allows.  A run outlives its drawer: it *)
(* is followed by a stream, then by one query, then by polls that may      *)
(* overlap, and what it finds is written into the drawer it belongs to, if *)
(* that is still mounted.                                                  *)
(***************************************************************************)
EXTENDS GenerationPromise

CONSTANTS
    None,
    PageTools,       \* the tools of the page that open a drawer
    ComingSoon,      \* those of them that are not available yet
    Entry,           \* balance that unlocks each tool
    \* bounds
    MaxTries,        \* polls before a run is given up (60 in the code)
    MaxAsked         \* polls of a run that may be unanswered together

ASSUME PageAssumption ==
    /\ PageTools \subseteq Tools /\ ComingSoon \subseteq PageTools
    /\ Entry \in [PageTools -> Nat]
    /\ MaxTries \in Nat \ {0} /\ MaxAsked \in Nat \ {0} /\ None \notin Gen \cup Tools

VARIABLES
    selected,        \* the tool whose drawer is open
    next,            \* the tool a cross-tool button opens in 80 ms
    drawer,          \* state of the mounted ToolDrawer
    run,             \* what the page does about each generation it asked for
    shownPoints,     \* the wallet as the page last fetched it
    notice           \* the toast about each generation

pageVars == <<selected, next, drawer, run, shownPoints, notice>>
vars == <<promiseVars, pageVars>>

\* Following a run: the POST is on its way, the generation is streamed, waits for the single
\* query, or is polled.
Following == {"posting", "streaming", "fallback", "polling"}

\* State of a drawer: the payload the form submitted, the confirmation modal and the routing
\* its closure holds while it fades out, the result slots A and B, the comparison, the form.
Drawer == [generating : BOOLEAN, payload : BOOLEAN, modal : {"none", "open", "leaving"},
           second : BOOLEAN, a : Gen \cup {None}, b : Gen \cup {None},
           compare : BOOLEAN, collapsed : BOOLEAN]

NewDrawer == [generating |-> FALSE, payload |-> FALSE, modal |-> "none", second |-> FALSE,
              a |-> None, b |-> None, compare |-> FALSE, collapsed |-> FALSE]

NoRun == [at |-> "none", tool |-> None, live |-> FALSE, intoB |-> FALSE, tries |-> 0, asked |-> 0]

Init ==
    /\ PromiseInit
    /\ selected = None /\ next = None
    /\ drawer = NewDrawer
    /\ run = [g \in Gen |-> NoRun]
    /\ shownPoints = points
    /\ notice = [g \in Gen |-> "none"]

------------------------------------------------------------------------------
(* What the page offers.                                                   *)

\* A card of a tool that is coming soon has no click handler; a locked one does.
ToolCard(k) == k \in PageTools \ ComingSoon

\* entryLocked hides the body of the drawer.
Unlocked == selected # None /\ (selected = "free" \/ shownPoints >= Entry[selected])

CanAfford == selected = "free" \/ shownPoints >= Price(selected)

\* The modal covers the drawer as long as it is mounted.
Clickable == Unlocked /\ drawer.modal = "none"

\* The form stands until a result collapses it.
FormShown == Clickable /\ ~(drawer.collapsed /\ drawer.a # None)

ResultShown == Clickable /\ drawer.a # None /\ ~drawer.generating

\* A completed generation of the gallery offers to be made again, or to be used by another tool.
GenerationCard(g) == status[g] = "completed"

------------------------------------------------------------------------------
(* Opening and closing the drawer.  It is keyed by the tool: another tool  *)
(* is another instance, and runs of the old one no longer reach a drawer.  *)

Orphaned == [g \in Gen |-> [run[g] EXCEPT !.live = FALSE, !.intoB = FALSE]]

\* Without the key the instance lives on: the effect on tool.id clears its slots, nothing
\* stops the runs.
ShowMutantKeyless(k) ==
    /\ selected' = k
    /\ IF k \in {selected, None} THEN drawer' = NewDrawer /\ UNCHANGED run
       ELSE /\ drawer' = [drawer EXCEPT !.a = None, !.b = None, !.compare = FALSE,
                                        !.collapsed = FALSE]
            /\ UNCHANGED run
    /\ UNCHANGED <<promiseVars, shownPoints, notice>>

\* setSelectedTool; the same tool again leaves the drawer as it is.
Show(k) ==
    /\ selected' = k
    /\ IF k = selected THEN UNCHANGED <<drawer, run>>
       ELSE drawer' = NewDrawer /\ run' = Orphaned
    /\ UNCHANGED <<promiseVars, shownPoints, notice>>

OpenTool(k) == selected = None /\ ToolCard(k) /\ Show(k) /\ UNCHANGED next

\* The effect on ?tool= runs again whenever the list of tools is fetched anew.
DeepLink(k) == Show(k) /\ UNCHANGED next

CloseDrawer ==
    /\ selected # None /\ drawer.modal = "none"
    /\ Show(None) /\ UNCHANGED next

\* From the gallery: the tool that made it, or another tool that takes its result.
UseAgain(g, k) == GenerationCard(g) /\ selected = None /\ Show(k) /\ UNCHANGED next

\* A result is taken to another tool: this drawer closes now, the other opens later.
CrossTool(k) == ResultShown /\ Show(None) /\ next' = k

CrossToolOpens == next # None /\ Show(next) /\ next' = None

------------------------------------------------------------------------------
(* Form, modal and result panels.                                          *)

Set(d) == drawer' = d /\ UNCHANGED <<promiseVars, selected, next, run, shownPoints, notice>>

\* What the modal's handler decides: a second result goes to slot B.
IsCompareRun == drawer.a # None /\ ~drawer.compare

HandleTemplateSubmit ==
    /\ FormShown /\ ~drawer.generating
    /\ Set([drawer EXCEPT !.payload = TRUE, !.modal = "open"])

\* "Compare A/B" opens the modal on the payload of the result.
CompareAgain ==
    /\ Clickable /\ drawer.collapsed /\ drawer.a # None /\ ~drawer.compare /\ drawer.payload
    /\ Set([drawer EXCEPT !.modal = "open"])

GenerateSomethingNew ==
    /\ Clickable /\ drawer.collapsed /\ drawer.a # None
    /\ Set([drawer EXCEPT !.collapsed = FALSE, !.a = None, !.b = None, !.compare = FALSE,
                          !.payload = FALSE])

GenerateAgain ==
    /\ ResultShown
    /\ Set([drawer EXCEPT !.a = None, !.payload = FALSE, !.collapsed = FALSE])

CloseResult ==
    /\ ResultShown
    /\ Set([drawer EXCEPT !.a = None, !.collapsed = FALSE])

CloseComparison ==
    /\ ResultShown /\ drawer.compare /\ drawer.b # None
    /\ Set([drawer EXCEPT !.b = None, !.compare = FALSE])

\* Leaving the modal starts its exit animation: it stays, with the handler it was last given.
ModalLeaves(d) ==
    [d EXCEPT !.modal = "leaving",
              !.second = IF drawer.modal = "open" THEN IsCompareRun ELSE drawer.second]

CancelModal ==
    /\ drawer.modal # "none"
    /\ Set(ModalLeaves([drawer EXCEPT !.payload = FALSE]))

ModalGone == drawer.modal = "leaving" /\ Set([drawer EXCEPT !.modal = "none", !.second = FALSE])

\* The comparison is switched on when it is asked for, not when its result is there.
ConfirmMutant(g) ==
    /\ drawer.modal = "leaving" \/ (drawer.modal = "open" /\ ~drawer.generating)
    /\ CanAfford
    /\ run[g].at = "none"
    /\ LET d == ModalLeaves(drawer)
           intoB == d.second
       IN  /\ drawer' = [d EXCEPT !.generating = TRUE, !.b = None,
                                  !.a = IF intoB THEN @ ELSE None,
                                  !.compare = intoB]
           /\ run' = [run EXCEPT ![g] = [NoRun EXCEPT !.at = "posting", !.tool = selected,
                                                      !.live = TRUE, !.intoB = intoB]]
    /\ UNCHANGED <<promiseVars, selected, next, shownPoints, notice>>

\* handleConfirmedGenerate: disabled while generating, but not on a modal that is fading out.
Confirm(g) ==
    /\ drawer.modal = "leaving" \/ (drawer.modal = "open" /\ ~drawer.generating)
    /\ CanAfford
    /\ run[g].at = "none"
    /\ LET d == ModalLeaves(drawer)
           intoB == d.second
       IN  /\ drawer' = [d EXCEPT !.generating = TRUE, !.b = None,
                                  !.a = IF intoB THEN @ ELSE None,
                                  !.compare = IF intoB THEN @ ELSE FALSE]
           /\ run' = [run EXCEPT ![g] = [NoRun EXCEPT !.at = "posting", !.tool = selected,
                                                      !.live = TRUE, !.intoB = intoB]]
    /\ UNCHANGED <<promiseVars, selected, next, shownPoints, notice>>

------------------------------------------------------------------------------
(* Following a run.                                                        *)

FollowOn(g, r) == run' = [run EXCEPT ![g] = r]

InDrawer(g, d) == drawer' = IF run[g].live THEN d ELSE drawer

Quiet == UNCHANGED <<promiseVars, selected, next, shownPoints>>

\* The result goes to the slot chosen when the run began; showing A collapses the form.
ShowResult(g) ==
    /\ status[g] = "completed"
    /\ InDrawer(g, IF run[g].intoB
                   THEN [drawer EXCEPT !.generating = FALSE, !.b = g, !.compare = TRUE]
                   ELSE [drawer EXCEPT !.generating = FALSE, !.a = g, !.collapsed = TRUE])
    /\ UNCHANGED notice

\* "Points refunded automatically."
ShowFailure(g) ==
    /\ status[g] = "failed"
    /\ InDrawer(g, [drawer EXCEPT !.generating = FALSE])
    /\ notice' = [notice EXCEPT ![g] = "failed"]

Unfinished(g) == status[g] \notin {"completed", "failed"}

\* The failure is swallowed.
GiveUpOnMutant(g) == UNCHANGED <<drawer, notice>>

\* A request of the page fails: the spinner stops without a word.
GiveUpOn(g) == InDrawer(g, [drawer EXCEPT !.generating = FALSE]) /\ UNCHANGED notice

Ended(g) == [run[g] EXCEPT !.at = "over", !.tries = 0]

Refused(g) ==
    /\ InDrawer(g, [drawer EXCEPT !.generating = FALSE])
    /\ notice' = [notice EXCEPT ![g] = "notStarted"]
    /\ FollowOn(g, Ended(g))

\* The server takes the request; the stream opens when its answer arrives, if it does.
Accepted(g) ==
    /\ run[g].at = "posting"
    /\ Accept(g, run[g].tool)
    /\ \/ FollowOn(g, [run[g] EXCEPT !.at = "streaming"]) /\ UNCHANGED <<drawer, notice>>
       \/ Refused(g)
    /\ UNCHANGED <<selected, next, shownPoints>>

\* The server refuses the request, or it never arrives: the same toast as for a lost answer.
NotStarted(g) == run[g].at = "posting" /\ Refused(g) /\ Quiet

StreamUpdate(g) ==
    /\ run[g].at = "streaming"
    /\ ShowResult(g) \/ ShowFailure(g)
    /\ FollowOn(g, Ended(g))
    /\ Quiet

\* The connection breaks, or the server ends a stream that lasted too long.
StreamError(g) ==
    /\ run[g].at = "streaming"
    /\ FollowOn(g, [run[g] EXCEPT !.at = "fallback"])
    /\ Quiet /\ UNCHANGED <<drawer, notice>>

\* The single query, three seconds later.
FallbackQuery(g) ==
    /\ run[g].at = "fallback"
    /\ \/ /\ ShowResult(g) \/ ShowFailure(g) \/ GiveUpOn(g)
          /\ FollowOn(g, Ended(g))
       \/ /\ Unfinished(g)
          /\ FollowOn(g, [run[g] EXCEPT !.at = "polling"])
          /\ UNCHANGED <<drawer, notice>>
    /\ Quiet

\* Nothing counts the attempts.
PollTickMutant(g) ==
    /\ run[g].at = "polling"
    /\ run[g].asked < MaxAsked
    /\ FollowOn(g, [run[g] EXCEPT !.asked = @ + 1])
    /\ UNCHANGED <<drawer, notice>>
    /\ Quiet

\* The timer fires: one more query, whether or not the last was answered, or the end.
PollTick(g) ==
    /\ run[g].at = "polling"
    /\ IF run[g].tries = MaxTries
       THEN GiveUpOn(g) /\ FollowOn(g, Ended(g))
       ELSE /\ run[g].asked < MaxAsked
            /\ FollowOn(g, [run[g] EXCEPT !.tries = @ + 1, !.asked = @ + 1])
            /\ UNCHANGED <<drawer, notice>>
    /\ Quiet

\* An answer is acted on even when the run is over by then.
PollAnswer(g) ==
    /\ run[g].asked > 0
    /\ \/ /\ ShowResult(g) \/ ShowFailure(g) \/ GiveUpOn(g)
          /\ FollowOn(g, [Ended(g) EXCEPT !.asked = @ - 1])
       \/ /\ Unfinished(g)
          /\ FollowOn(g, [run[g] EXCEPT !.asked = @ - 1])
          /\ UNCHANGED <<drawer, notice>>
    /\ Quiet

RefreshWallet ==
    /\ shownPoints # points
    /\ shownPoints' = points
    /\ UNCHANGED <<promiseVars, selected, next, drawer, run, notice>>

Server == \E g \in Gen : PromiseStep(g) /\ UNCHANGED pageVars

Follow(g) ==
    \/ Accepted(g) \/ NotStarted(g) \/ StreamUpdate(g) \/ StreamError(g)
    \/ FallbackQuery(g) \/ PollTick(g) \/ PollAnswer(g)

User ==
    \/ \E k \in PageTools : OpenTool(k) \/ DeepLink(k) \/ CrossTool(k) \/ \E g \in Gen : UseAgain(g, k)
    \/ CloseDrawer \/ HandleTemplateSubmit \/ CompareAgain \/ GenerateSomethingNew
    \/ GenerateAgain \/ CloseResult \/ CloseComparison \/ CancelModal
    \/ \E g \in Gen : Confirm(g)

Next == User \/ CrossToolOpens \/ ModalGone \/ RefreshWallet \/ Server \/ \E g \in Gen : Follow(g)

Spec == Init /\ [][Next]_vars

\* Requests are answered or fail, streams end, timers fire.  Nothing is asked of the server's
\* workers, nor of the user.
Fairness ==
    \A g \in Gen :
        /\ WF_vars(Accepted(g) \/ NotStarted(g))
        /\ WF_vars(StreamUpdate(g) \/ StreamError(g))
        /\ WF_vars(FallbackQuery(g))
        /\ WF_vars(PollTick(g))
        /\ WF_vars(PollAnswer(g))

FairSpec == Spec /\ Fairness

------------------------------------------------------------------------------
(* Properties.                                                             *)

Run == [at : Following \cup {"none", "over"}, tool : PageTools \cup {None}, live : BOOLEAN,
        intoB : BOOLEAN, tries : 0 .. MaxTries, asked : 0 .. MaxAsked]

\* Every variable has its type (state and props of StudioPageInner and ToolDrawer).
PageTypeOK ==
    /\ selected \in PageTools \cup {None} /\ next \in PageTools \cup {None}
    /\ drawer \in Drawer
    /\ run \in [Gen -> Run]
    /\ notice \in [Gen -> {"none", "failed", "notStarted"}]

\* A drawer never shows the result of another tool, nor one that was not delivered: runs that
\* outlive their drawer, and polls answered late, do not write into the next one
\* (ToolDrawer's key and the effect on tool.id).
ResultOfThisTool ==
    \A g \in {drawer.a, drawer.b} \ {None} :
        /\ tool[g] = selected
        /\ status[g] \in {"completed", "gone"} \/ Slow(g)

\* Slot B is filled only in a comparison, and a comparison whose slot is empty was asked for
\* twice - on a modal that still faded out when its result came - whatever order runs, late
\* answers and the buttons that clear the slots come in (compareMode, compareResult).
Compared(g) == run[g].live /\ run[g].intoB

CompareIsSecond ==
    /\ drawer.b # None => drawer.compare
    /\ drawer.compare /\ drawer.b = None => \E g, h \in Gen : g # h /\ Compared(g) /\ Compared(h)

\* The spinner turns only while a run of this drawer is followed: no path leaves it to turn
\* for ever (setGenerating in handleConfirmedGenerate).
SpinnerMeansRun ==
    drawer.generating => \E g \in Gen : run[g].live /\ run[g].at \in Following

\* The drawer does not generate for ever, even if the generation never ends: the stream is
\* followed by a bounded number of polls ("so the UX never gets stuck", page.tsx:2486).
SpinnerStops == drawer.generating ~> ~drawer.generating

------------------------------------------------------------------------------
(* The inductive invariant.                                                *)

Statuses == {"none", "pending", "processing", "completed", "failed", "gone"}

ServerTypeOK ==
    /\ tool \in [Gen -> Tools \cup {"none", None}]
    /\ status \in [Gen -> Statuses]

\* A run that reaches a drawer is one of its tool, and once it was accepted the server knows it
\* by that tool.
RunInv(g) ==
    /\ run[g].live => run[g].at # "none" /\ run[g].tool = selected
    /\ run[g].at \in {"none", "posting"} => run[g].asked = 0
    /\ run[g].at \in {"streaming", "fallback", "polling"} \/ run[g].asked > 0
          => tool[g] = run[g].tool /\ status[g] # "none"

\* What stands in a slot was delivered, and may only be failed if it is slow.
SlotInv(g) ==
    /\ tool[g] = selected
    /\ status[g] \in {"completed", "gone"} \/ (Slow(g) /\ status[g] # "none")

PageInv ==
    /\ PageTypeOK /\ ServerTypeOK
    /\ \A g \in Gen : RunInv(g)
    /\ \A g \in {drawer.a, drawer.b} \ {None} : SlotInv(g)
    /\ drawer.compare => \E g \in Gen : Compared(g)
    /\ CompareIsSecond
    /\ SpinnerMeansRun
==============================================================================
