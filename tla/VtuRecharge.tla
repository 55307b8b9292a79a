----------------------------- MODULE VtuRecharge -----------------------------
(***************************************************************************)
(* Recharges bought on the platform (VTURechargeService): the subscriber   *)
(* pays with Paystack, VTPass delivers the airtime or data, and what can   *)
(* not be delivered is refunded.  A payment is announced twice over, by    *)
(* the webhook and by the browser that returns to the callback; whichever  *)
(* claims the row first fulfils it in a goroutine of its own.              *)
(*                                                                         *)
(* Every statement and every call of a provider is one step.  A goroutine  *)
(* that a handler starts as its last act continues as the same thread.     *)
(***************************************************************************)
EXTENDS Integers, FiniteSets

CONSTANTS
    Recharge,        \* rows of the recharges table
    Thread,          \* handlers and goroutines in flight
    RequeryTries,    \* questions of requeryLoop, 30 in the code
    None             \* no recharge

CONSTANTS            \* bounds of the model
    MaxAnnounced,    \* webhook deliveries and callbacks of one recharge
    MaxLost,         \* answers of providers lost or unreadable
    MaxFaults,       \* failing database statements
    MaxCrash         \* handlers that die between two steps

ASSUME TriesAssumption == RequeryTries \in Nat \ {0}
ASSUME BoundsAssumption == {MaxAnnounced, MaxLost, MaxFaults, MaxCrash} \subseteq Nat
ASSUME NoneAssumption == None \notin Recharge

VARIABLES
    status,      \* status of the row, "none" before InitiateRecharge
    paid,        \* the Paystack charge has succeeded
    event,       \* the webhook_events row of the charge exists
    tried,       \* VTPass has been asked to deliver
    order,       \* the order as VTPass knows it
    blind,       \* history: given up on without an answer from VTPass
    rewarded,    \* the points of the recharge are in the wallet
    refunded,    \* Paystack has refunded the charge
    logged,      \* the log asks for a manual refund
    job,         \* what each thread is about to do
    announced, lost, faults, crashes   \* what has been used of the bounds

money == <<paid, tried, order, blind, rewarded, refunded, logged>>
bounds == <<announced, lost, faults, crashes>>
vars == <<status, money, event, job, bounds>>

Status == {"none", "PENDING", "PROCESSING", "SUCCESS", "FAILED", "CANCELLED"}
Orders == {"none", "pending", "delivered", "refused"}

\* Labels of a thread that has won the claim, and of all.
Winning == {"succeed", "award"}
Losing == {"fail", "refund", "cancel"}
Owning == {"buy", "requery", "ask"} \cup Winning \cup Losing
Labels == {"idle", "verify", "claim"} \cup Owning

Job == [at : Labels, ref : Recharge \cup {None}, tries : 1 .. RequeryTries]
Idle == [at |-> "idle", ref |-> None, tries |-> 1]

Init ==
    /\ status = [r \in Recharge |-> "none"]
    /\ paid = [r \in Recharge |-> FALSE]
    /\ event = [r \in Recharge |-> FALSE]
    /\ tried = [r \in Recharge |-> FALSE]
    /\ order = [r \in Recharge |-> "none"]
    /\ blind = [r \in Recharge |-> FALSE]
    /\ rewarded = [r \in Recharge |-> FALSE]
    /\ refunded = [r \in Recharge |-> FALSE]
    /\ logged = [r \in Recharge |-> FALSE]
    /\ job = [t \in Thread |-> Idle]
    /\ announced = [r \in Recharge |-> 0]
    /\ lost = 0 /\ faults = 0 /\ crashes = 0

At(t, label) == job[t].at = label
Goto(t, label) == job' = [job EXCEPT ![t].at = label]
Finish(t) == job' = [job EXCEPT ![t] = Idle]
Start(t, label, r) == job' = [job EXCEPT ![t] = [at |-> label, ref |-> r, tries |-> 1]]

\* An UPDATE of the status column, which may fail; the callers ignore the error.
SetStatus(r, s) ==
    \/ status' = [status EXCEPT ![r] = s] /\ UNCHANGED faults
    \/ faults < MaxFaults /\ faults' = faults + 1 /\ UNCHANGED status

\* An answer that never comes, or that parseResponse cannot read.
LoseAnswer == lost < MaxLost /\ lost' = lost + 1

------------------------------------------------------------------------------
(* Payment.                                                                *)

\* The row is created before the payment page is asked for.
InitiateRecharge(r) ==
    /\ status[r] = "none"
    /\ status' = [status EXCEPT ![r] = "PENDING"]
    /\ UNCHANGED <<money, event, job, bounds>>

\* Paystack charges the subscriber.
Charge(r) ==
    /\ status[r] # "none" /\ ~paid[r]
    /\ paid' = [paid EXCEPT ![r] = TRUE]
    /\ UNCHANGED <<status, tried, order, blind, rewarded, refunded, logged, event, job, bounds>>

\* The browser returns to the callback, paid or not, any number of times.
HandlePaystackCallback(t, r) ==
    /\ At(t, "idle") /\ announced[r] < MaxAnnounced
    /\ status[r] \notin {"none", "SUCCESS"}
    /\ announced' = [announced EXCEPT ![r] = @ + 1]
    /\ Start(t, "verify", r)
    /\ UNCHANGED <<status, money, event, lost, faults, crashes>>

\* Anything but a clear success, a lost answer included, counts as unpaid.
VerifyPaystackPayment(t) ==
    /\ At(t, "verify")
    /\ Finish(t) \/ (paid[job[t].ref] /\ Goto(t, "claim"))
    /\ UNCHANGED <<status, money, event, bounds>>

\* charge.success was acknowledged before this goroutine began.  Its event is recorded
\* first; an insert that fails, for whatever reason, is taken for a duplicate.
ProcessVTUPaystackWebhook(t, r) ==
    /\ At(t, "idle") /\ announced[r] < MaxAnnounced
    /\ paid[r]
    /\ announced' = [announced EXCEPT ![r] = @ + 1]
    /\ \/ event[r] /\ UNCHANGED <<event, job, faults>>
       \/ ~event[r] /\ event' = [event EXCEPT ![r] = TRUE] /\ Start(t, "claim", r) /\ UNCHANGED faults
       \/ faults < MaxFaults /\ faults' = faults + 1 /\ UNCHANGED <<event, job>>
    /\ UNCHANGED <<status, money, lost, crashes>>

\* Mutant of Claim: the UPDATE lacks AND status = 'PENDING'.
ClaimMutant(t) ==
    /\ At(t, "claim")
    /\ status' = [status EXCEPT ![job[t].ref] = "PROCESSING"]
    /\ Goto(t, "buy")
    /\ UNCHANGED <<money, event, bounds>>

\* PENDING becomes PROCESSING by compare and swap; the loser, or a failing statement,
\* ends the thread.
Claim(t) ==
    LET r == job[t].ref IN
    /\ At(t, "claim")
    /\ \/ /\ status[r] = "PENDING"
          /\ status' = [status EXCEPT ![r] = "PROCESSING"]
          /\ Goto(t, "buy") /\ UNCHANGED faults
       \/ status[r] # "PENDING" /\ Finish(t) /\ UNCHANGED <<status, faults>>
       \/ faults < MaxFaults /\ faults' = faults + 1 /\ Finish(t) /\ UNCHANGED status
    /\ UNCHANGED <<money, event, announced, lost, crashes>>

------------------------------------------------------------------------------
(* Fulfilment.                                                             *)

\* Mutant of Purchase: a pending order counts as a failed one.
PurchaseMutant(t) ==
    LET r == job[t].ref IN
    /\ At(t, "buy")
    /\ tried' = [tried EXCEPT ![r] = TRUE]
    /\ \E o \in Orders : /\ order' = [order EXCEPT ![r] = o]
                         /\ Goto(t, IF o = "delivered" THEN "succeed" ELSE "fail")
    /\ UNCHANGED <<status, paid, blind, rewarded, refunded, logged, event, bounds>>

\* fulfil: VTPass delivers, accepts or refuses, or the request never arrives.  When the
\* answer is lost, or is not one parseResponse knows, an order VTPass holds counts as failed.
Purchase(t) ==
    LET r == job[t].ref IN
    /\ At(t, "buy")
    /\ tried' = [tried EXCEPT ![r] = TRUE]
    /\ \/ /\ \E o \in Orders :
               /\ order' = [order EXCEPT ![r] = o]
               /\ Goto(t, CASE o = "delivered" -> "succeed"
                            [] o = "pending" -> "requery"
                            [] OTHER -> "fail")
          /\ UNCHANGED <<blind, lost>>
       \/ /\ LoseAnswer
          /\ \E o \in {"pending", "delivered"} : order' = [order EXCEPT ![r] = o]
          /\ blind' = [blind EXCEPT ![r] = TRUE]
          /\ Goto(t, "fail")
    /\ UNCHANGED <<status, paid, rewarded, refunded, logged, event, announced, faults, crashes>>

\* VTPass settles an order it had accepted.
ProviderSettles(r) ==
    /\ order[r] = "pending"
    /\ \E o \in {"delivered", "refused"} : order' = [order EXCEPT ![r] = o]
    /\ UNCHANGED <<status, paid, tried, blind, rewarded, refunded, logged, event, job, bounds>>

\* Half a minute later the row is read again; a failing read ends the loop.
Requery(t) ==
    /\ At(t, "requery")
    /\ \/ /\ IF status[job[t].ref] = "PROCESSING" THEN Goto(t, "ask") ELSE Finish(t)
          /\ UNCHANGED faults
       \/ faults < MaxFaults /\ faults' = faults + 1 /\ Finish(t)
    /\ UNCHANGED <<status, money, event, announced, lost, crashes>>

\* Mutant of AskAgain: the loop just ends.
AskAgainMutantEnd(t) ==
    /\ IF job[t].tries < RequeryTries
          THEN job' = [job EXCEPT ![t].at = "requery", ![t].tries = @ + 1]
          ELSE Finish(t)
    /\ UNCHANGED blind

\* The next question, or the last was the thirtieth: give up and refund.
AskAgain(t) ==
    IF job[t].tries < RequeryTries
       THEN job' = [job EXCEPT ![t].at = "requery", ![t].tries = @ + 1] /\ UNCHANGED blind
       ELSE Goto(t, "fail") /\ blind' = [blind EXCEPT ![job[t].ref] = TRUE]

\* Mutant of RequeryTransaction: whatever is not failed has succeeded.
RequeryTransactionMutant(t) ==
    /\ At(t, "ask")
    /\ Goto(t, IF order[job[t].ref] = "refused" THEN "fail" ELSE "succeed")
    /\ UNCHANGED <<status, money, event, bounds>>

\* VTPass says how the order stands, or its answer is lost, or it cannot be read and
\* counts as a refusal.
RequeryTransaction(t) ==
    LET r == job[t].ref IN
    /\ At(t, "ask")
    /\ \/ order[r] = "delivered" /\ Goto(t, "succeed") /\ UNCHANGED <<blind, lost>>
       \/ order[r] = "refused" /\ Goto(t, "fail") /\ UNCHANGED <<blind, lost>>
       \/ order[r] = "pending" /\ AskAgain(t) /\ UNCHANGED lost
       \/ LoseAnswer /\ AskAgain(t)
       \/ LoseAnswer /\ Goto(t, "fail") /\ blind' = [blind EXCEPT ![r] = TRUE]
    /\ UNCHANGED <<status, paid, tried, order, rewarded, refunded, logged, event>>
    /\ UNCHANGED <<announced, faults, crashes>>

\* markSuccess: the status first, whether or not the statement succeeds.
MarkSuccess(t) ==
    /\ At(t, "succeed")
    /\ SetStatus(job[t].ref, "SUCCESS")
    /\ Goto(t, "award")
    /\ UNCHANGED <<money, event, announced, lost, crashes>>

\* Then processAwardTransaction; a guest without an account, or an error, gets nothing.
AwardPoints(t) ==
    /\ At(t, "award")
    /\ \E credited \in BOOLEAN :
         rewarded' = IF credited THEN [rewarded EXCEPT ![job[t].ref] = TRUE] ELSE rewarded
    /\ Finish(t)
    /\ UNCHANGED <<status, paid, tried, order, blind, refunded, logged, event, bounds>>

------------------------------------------------------------------------------
(* Refund.                                                                 *)

MarkFailed(t) ==
    /\ At(t, "fail")
    /\ SetStatus(job[t].ref, "FAILED")
    /\ Goto(t, "refund")
    /\ UNCHANGED <<money, event, announced, lost, crashes>>

\* Mutant of IssueRefund: the HTTP status of the answer is not looked at.
IssueRefundMutant(t) ==
    /\ At(t, "refund")
    /\ \E ok \in BOOLEAN : refunded' = [refunded EXCEPT ![job[t].ref] = ok]
    /\ Goto(t, "cancel")
    /\ UNCHANGED <<status, paid, tried, order, blind, rewarded, logged, event, bounds>>

\* Paystack refunds; or it refuses, or its answer is lost, and the log asks for an admin.
\* (The audit_logs row that should ask too has no table in any migration.)
IssueRefund(t) ==
    LET r == job[t].ref IN
    /\ At(t, "refund")
    /\ \/ /\ refunded' = [refunded EXCEPT ![r] = TRUE]
          /\ Goto(t, "cancel")
          /\ UNCHANGED <<logged, lost>>
       \/ /\ logged' = [logged EXCEPT ![r] = TRUE]
          /\ Finish(t)
          /\ UNCHANGED <<refunded, lost>>
       \/ /\ LoseAnswer
          /\ refunded' = [refunded EXCEPT ![r] = TRUE]
          /\ logged' = [logged EXCEPT ![r] = TRUE]
          /\ Finish(t)
    /\ UNCHANGED <<status, paid, tried, order, blind, rewarded, event, announced, faults, crashes>>

MarkCancelled(t) ==
    /\ At(t, "cancel")
    /\ SetStatus(job[t].ref, "CANCELLED")
    /\ Finish(t)
    /\ UNCHANGED <<money, event, announced, lost, crashes>>

------------------------------------------------------------------------------

\* A restart or a panic ends a thread; nothing picks its recharge up again.
Crash(t) ==
    /\ ~At(t, "idle") /\ crashes < MaxCrash
    /\ crashes' = crashes + 1
    /\ Finish(t)
    /\ UNCHANGED <<status, money, event, announced, lost, faults>>

Progress(t) ==
    \/ VerifyPaystackPayment(t) \/ Claim(t) \/ Purchase(t) \/ Requery(t)
    \/ RequeryTransaction(t) \/ MarkSuccess(t) \/ AwardPoints(t)
    \/ MarkFailed(t) \/ IssueRefund(t) \/ MarkCancelled(t)

Arrival(t, r) == HandlePaystackCallback(t, r) \/ ProcessVTUPaystackWebhook(t, r)

Next ==
    \/ \E r \in Recharge : InitiateRecharge(r) \/ Charge(r) \/ ProviderSettles(r)
    \/ \E t \in Thread : Progress(t) \/ Crash(t) \/ \E r \in Recharge : Arrival(t, r)

Spec == Init /\ [][Next]_vars

\* A started handler or goroutine goes on: every call has a timeout.
Fairness == \A t \in Thread : WF_vars(Progress(t))

FairSpec == Spec /\ Fairness

------------------------------------------------------------------------------
(* Properties.                                                             *)

TypeOK ==
    /\ status \in [Recharge -> Status]
    /\ paid \in [Recharge -> BOOLEAN]
    /\ event \in [Recharge -> BOOLEAN]
    /\ tried \in [Recharge -> BOOLEAN]
    /\ order \in [Recharge -> Orders]
    /\ blind \in [Recharge -> BOOLEAN]
    /\ rewarded \in [Recharge -> BOOLEAN]
    /\ refunded \in [Recharge -> BOOLEAN]
    /\ logged \in [Recharge -> BOOLEAN]
    /\ job \in [Thread -> Job]
    /\ announced \in [Recharge -> Nat]
    /\ lost \in Nat /\ faults \in Nat /\ crashes \in Nat

\* The promise: bought once and only when paid, whichever of webhook and callback
\* comes first or again; rewarded only when delivered; never rewarded and refunded,
\* even when status writes fail and threads die.
Promise == INSTANCE PurchasePromise
RefinesPromise == Promise!PromiseSpec

\* A recharge shown as successful was delivered, and its payment is kept.
SuccessIsDelivered ==
    \A r \in Recharge : status[r] = "SUCCESS" => order[r] = "delivered" /\ ~refunded[r]

\* A recharge shown as cancelled was refunded.
CancelledIsRefunded == \A r \in Recharge : status[r] = "CANCELLED" => refunded[r]

\* A delivered recharge is refunded only when an answer of VTPass never came or could
\* not be read, or after the last question: no order of steps alone gives both away.
DeliveredIsKept ==
    \A r \in Recharge : order[r] = "delivered" /\ refunded[r] => blind[r]

\* A payment event once recorded is dealt with: delivered, refunded, or logged for
\* an admin, unless the process dies or the database fails.
EventIsSettled ==
    \A r \in Recharge :
        event[r] ~> \/ status[r] \in {"SUCCESS", "CANCELLED"} \/ logged[r]
                    \/ crashes > 0 \/ faults > 0

------------------------------------------------------------------------------
(* The inductive invariant.                                                *)

\* What the row of a recharge satisfies, whatever threads are at work.
RowInv(r) ==
    /\ status[r] \in {"none", "PENDING"} => ~tried[r]
    /\ ~tried[r] => order[r] = "none" /\ ~rewarded[r] /\ ~refunded[r]
    /\ rewarded[r] => order[r] = "delivered" /\ ~refunded[r]
    /\ status[r] = "SUCCESS" => order[r] = "delivered" /\ ~refunded[r]
    /\ status[r] = "CANCELLED" => refunded[r]
    /\ refunded[r] /\ order[r] \in {"pending", "delivered"} => blind[r]

\* What a thread may rely on at its next step.
ThreadInv(t) ==
    LET r == job[t].ref  at == job[t].at IN
    /\ at # "idle" => r \in Recharge
    /\ at \in {"claim"} \cup Owning => paid[r]
    /\ at \in Owning => status[r] \notin {"none", "PENDING"} /\ ~rewarded[r]
    /\ at \in Owning \ {"award"} => status[r] \in {"PROCESSING", "FAILED"}
    /\ at \in Owning \ {"cancel"} => ~refunded[r]
    /\ at \in Owning => (at = "buy" <=> ~tried[r])
    /\ at \in Winning => order[r] = "delivered"
    /\ at \in Losing /\ order[r] \in {"pending", "delivered"} => blind[r]
    /\ at = "cancel" => refunded[r]

\* The compare and swap of the claim has one winner, and nobody takes over from it.
OwnerInv ==
    \A t, u \in Thread :
        (job[t].at \in Owning /\ job[u].at \in Owning /\ job[t].ref = job[u].ref) => t = u

IInv ==
    /\ TypeOK
    /\ \A r \in Recharge : RowInv(r)
    /\ \A t \in Thread : ThreadInv(t)
    /\ OwnerInv
==============================================================================
