---------------------------- MODULE PrizeLifecycle ----------------------------
(***************************************************************************)
(* The life of a prize won on the wheel: one row of spin_results, written  *)
(* by the HTTP handlers (claim, admin review), by detached fulfilment      *)
(* goroutines and by the lifecycle worker, which runs in the API process   *)
(* AND in the worker process.  Every statement against the database and    *)
(* every call of a payment provider is one step; between two steps of a    *)
(* handler any other handler may run.                                      *)
(*                                                                         *)
(* Prizes of one user only: rows of different users share no state.        *)
(***************************************************************************)
EXTENDS Integers, FiniteSets

CONSTANTS
    Prize,          \* the spin_results rows that may come to exist
    Thread,         \* request handlers, goroutines and cron jobs in flight
    Kinds,          \* the prize types the wheel offers in this instance
    Modes,          \* the fulfilment modes an admin may have configured
    AutoAttempts,   \* cfg.MaxRetryAttempts of the AUTO mode
    Fallback,       \* cfg.FallbackToManual of the AUTO mode
    MaxLost,        \* bound: provider answers lost after the value moved
    MaxCrash,       \* bound: handlers that die between two steps
    MaxRetries,     \* bound: retry_count is counted up to here
    None            \* no prize

\* airtime and data_bundle are one kind: fulfillAirtime and fulfillData differ
\* only in what they do with a failing database.
AllKinds == {"try_again", "pulse_points", "digital", "momo_cash", "physical"}
AllModes == {"MANUAL", "AUTO"}

\* Rows that failed this often are no longer retried by the worker.
RetryCap == 3

ASSUME KindsAssumption   == Kinds \subseteq AllKinds /\ Modes \subseteq AllModes
ASSUME AutoAssumption    == AutoAttempts \in Nat \ {0} /\ Fallback \in BOOLEAN
ASSUME BoundsAssumption  == MaxLost \in Nat /\ MaxCrash \in Nat
                            /\ MaxRetries \in Nat /\ MaxRetries >= RetryCap
ASSUME NoneAssumption    == None \notin Prize
ASSUME ThreadAssumption  == IsFiniteSet(Thread)

FulfilStatus == {"na", "pending_claim", "pending", "processing", "completed",
                 "failed", "pending_momo_setup", "pending_delivery"}
ClaimStatus  == {"PENDING", "CLAIMED", "PENDING_ADMIN_REVIEW", "EXPIRED",
                 "APPROVED", "REJECTED"}
Ages         == {"fresh", "held_over", "lapsed"}

\* The references under which value leaves the company: a VTPass purchase, and
\* the four ways cash is paid.  WinnerService, PrizeFulfillmentService and
\* AdminClaimService each use a MoMo reference of their own.
Channel     == {"VTPASS", "LN", "LN_CLAIM", "HELD", "BANK"}
MoMoChannel == {"LN", "LN_CLAIM", "HELD"}

\* VTPass purchases are counted "none, one, several": payouts stop at two.
Several == 2

VARIABLES
    kind,       \* prize_type of the row, "none" while it does not exist
    mode,       \* fulfilment mode read when the prize was won
    fulfil,     \* fulfillment_status
    claim,      \* claim_status
    retries,    \* retry_count
    age,        \* created_at and expires_at against the clock
    viaMomo,    \* momo_claim_number is set (else bank details)
    linked,     \* the user has a verified MoMo number
    payouts,    \* what the providers have moved, per row and reference
    job,        \* what each thread is about to do
    lost, crashes  \* the bounded environment steps so far

row  == <<kind, mode, fulfil, claim, retries, age, viaMomo>>
vars == <<kind, mode, fulfil, claim, retries, age, viaMomo, linked, payouts,
          job, lost, crashes>>

FulfilLabels == {"fulfil", "fulfil_call", "fulfil_done", "fulfil_failed",
                 "fulfil_claimed_at"}
AutoLabels   == {"auto_flip", "auto_wait", "auto_fallback"}
ClaimLabels  == {"claim_write", "claim_expire", "claim_dispatch", "claim_deliver"}
HeldLabels   == {"held", "held_call", "held_done", "held_failed", "held_expire"}
ReviewLabels == {"approve_call", "approve_done", "approve_bank", "approve_write",
                 "reject_write", "reject_fail"}
Labels == {"idle"} \cup FulfilLabels \cup AutoLabels \cup ClaimLabels
                   \cup HeldLabels \cup ReviewLabels

Job  == [at : Labels, prize : Prize \cup {None},
         seen : FulfilStatus, attempt : 0 .. AutoAttempts]
Idle == [at |-> "idle", prize |-> None, seen |-> "na", attempt |-> 0]

Init ==
    /\ kind    = [p \in Prize |-> "none"]
    /\ mode    = [p \in Prize |-> "MANUAL"]
    /\ fulfil  = [p \in Prize |-> "na"]
    /\ claim   = [p \in Prize |-> "PENDING"]
    /\ retries = [p \in Prize |-> 0]
    /\ age     = [p \in Prize |-> "fresh"]
    /\ viaMomo = [p \in Prize |-> FALSE]
    /\ linked \in BOOLEAN
    /\ payouts = [p \in Prize |-> [c \in Channel |-> 0]]
    /\ job     = [t \in Thread |-> Idle]
    /\ lost = 0 /\ crashes = 0

-----------------------------------------------------------------------------
(* Building blocks.                                                        *)

At(t, label)       == job[t].at = label
Goto(t, label)     == job' = [job EXCEPT ![t].at = label]
Finish(t)          == job' = [job EXCEPT ![t] = Idle]
Begin(t, p, label, status) ==
    /\ job[t] = Idle
    /\ job' = [job EXCEPT ![t] = [at |-> label, prize |-> p,
                                  seen |-> status, attempt |-> 0]]

\* UpdateSpinFulfillment: no look at the row's current status.
SetFulfil(p, status) ==
    /\ fulfil'  = [fulfil EXCEPT ![p] = status]
    /\ retries' = IF status = "failed" /\ retries[p] < MaxRetries
                  THEN [retries EXCEPT ![p] = @ + 1] ELSE retries

\* Mutant: the claim is written without the status in the WHERE clause.
ClaimUnguarded(p, status) == claim' = [claim EXCEPT ![p] = status]

\* UpdateSpinClaimStatus with one of the guarded statuses: compare and swap.
ClaimCas(p, status) ==
    claim' = IF claim[p] = "PENDING" THEN [claim EXCEPT ![p] = status] ELSE claim

\* The provider accepts a request.  A MoMo reference is honoured once; a VTPass
\* request id starts with the current second, so every purchase is a new one.
Pay(p, c) == payouts' = [payouts EXCEPT ![p][c] =
                            IF c = "VTPASS" /\ @ > 0 THEN Several ELSE 1]

\* A provider call: accepted, refused, or accepted with the answer lost.
Call(p, c, t, ok, failed) ==
    \/ Pay(p, c) /\ ok /\ UNCHANGED lost
    \/ failed /\ UNCHANGED <<payouts, lost>>
    \/ Pay(p, c) /\ failed /\ lost < MaxLost /\ lost' = lost + 1

-----------------------------------------------------------------------------
(* SpinService.PlaySpin: the row is written, then AUTO mode may dispatch.  *)

InitialFulfil(k) ==
    CASE k = "try_again"    -> "na"
      [] k = "pulse_points" -> "completed"
      [] k = "momo_cash" /\ ~linked -> "pending_momo_setup"
      [] OTHER -> "pending_claim"

InitialClaim(k) == IF k \in {"try_again", "pulse_points"} THEN "CLAIMED" ELSE "PENDING"

PlaySpin(t, p, k, m) ==
    /\ kind[p] = "none"
    /\ kind'   = [kind EXCEPT ![p] = k]
    /\ mode'   = [mode EXCEPT ![p] = m]
    /\ fulfil' = [fulfil EXCEPT ![p] = InitialFulfil(k)]
    /\ claim'  = [claim EXCEPT ![p] = InitialClaim(k)]
    /\ IF m = "AUTO" /\ k = "digital" THEN Begin(t, p, "auto_flip", "na")
                                      ELSE UNCHANGED job
    /\ UNCHANGED <<retries, age, viaMomo, linked, payouts, lost, crashes>>

AutoFlip(t) ==
    /\ At(t, "auto_flip")
    /\ fulfil' = [fulfil EXCEPT ![job[t].prize] = "pending"]
    /\ Goto(t, "auto_wait")
    /\ UNCHANGED <<kind, mode, claim, retries, age, viaMomo, linked, payouts, lost, crashes>>

\* A semaphore slot within 8 seconds, or the goroutine gives up.
AutoAcquire(t) ==
    /\ At(t, "auto_wait")
    /\ \/ job' = [job EXCEPT ![t].at = "fulfil", ![t].attempt = 1]
       \/ Finish(t)
    /\ UNCHANGED <<row, linked, payouts, lost, crashes>>

\* All attempts used up; these two updates do not touch retry_count.
AutoFallback(t) ==
    /\ At(t, "auto_fallback")
    /\ fulfil' = [fulfil EXCEPT ![job[t].prize] =
                     IF Fallback THEN "pending_claim" ELSE "failed"]
    /\ Finish(t)
    /\ UNCHANGED <<kind, mode, claim, retries, age, viaMomo, linked, payouts, lost, crashes>>

-----------------------------------------------------------------------------
(* PrizeFulfillmentService.Fulfill                                         *)

\* What follows a Fulfill that returned an error: the retry loop of AUTO mode
\* goes on, any other caller only logs it.
AfterError(t) ==
    IF job[t].attempt = 0 THEN Finish(t)
    ELSE IF job[t].attempt < AutoAttempts
         THEN job' = [job EXCEPT ![t].at = "fulfil", ![t].attempt = @ + 1]
         ELSE Goto(t, "auto_fallback")

FulfilStart(t) ==
    LET p == job[t].prize IN
    /\ At(t, "fulfil")
    /\ \/ /\ kind[p] = "digital" \/ (kind[p] = "momo_cash" /\ linked)
          /\ SetFulfil(p, "processing")
          /\ Goto(t, "fulfil_call")
       \/ /\ kind[p] = "momo_cash" /\ ~linked
          /\ SetFulfil(p, "pending_momo_setup")
          /\ Finish(t)
       \/ /\ kind[p] = "physical"
          /\ SetFulfil(p, "pending_delivery")
          /\ Finish(t)
       \/ /\ kind[p] \in {"digital", "momo_cash"}   \* the user cannot be read
          /\ SetFulfil(p, "failed")
          /\ AfterError(t)
    /\ UNCHANGED <<kind, mode, claim, age, viaMomo, linked, payouts, lost, crashes>>

\* Mutant: the provider's error is swallowed.
FulfilCallIgnoringError(t) ==
    LET p == job[t].prize IN
    /\ At(t, "fulfil_call")
    /\ Call(p, IF kind[p] = "digital" THEN "VTPASS" ELSE "LN", t,
            Goto(t, "fulfil_done"), Goto(t, "fulfil_done"))
    /\ UNCHANGED <<row, linked, crashes>>

FulfilCall(t) ==
    LET p == job[t].prize IN
    /\ At(t, "fulfil_call")
    /\ Call(p, IF kind[p] = "digital" THEN "VTPASS" ELSE "LN", t,
            Goto(t, "fulfil_done"), Goto(t, "fulfil_failed"))
    /\ UNCHANGED <<row, linked, crashes>>

FulfilDone(t) ==
    LET p == job[t].prize IN
    /\ At(t, "fulfil_done")
    /\ SetFulfil(p, "completed")
    /\ IF kind[p] = "momo_cash" THEN Goto(t, "fulfil_claimed_at") ELSE Finish(t)
    /\ UNCHANGED <<kind, mode, claim, age, viaMomo, linked, payouts, lost, crashes>>

FulfilClaimedAt(t) ==
    /\ At(t, "fulfil_claimed_at")
    /\ ClaimCas(job[t].prize, "CLAIMED")
    /\ Finish(t)
    /\ UNCHANGED <<kind, mode, fulfil, retries, age, viaMomo, linked, payouts, lost, crashes>>

FulfilFailed(t) ==
    /\ At(t, "fulfil_failed")
    /\ SetFulfil(job[t].prize, "failed")
    /\ AfterError(t)
    /\ UNCHANGED <<kind, mode, claim, age, viaMomo, linked, payouts, lost, crashes>>

-----------------------------------------------------------------------------
(* ClaimService.ClaimPrize: the row read at the start is used to the end.  *)

ClaimRead(t, p) ==
    /\ kind[p] # "none" /\ claim[p] = "PENDING"
    /\ Begin(t, p, IF age[p] = "lapsed" THEN "claim_expire" ELSE "claim_write", fulfil[p])
    /\ UNCHANGED <<row, linked, payouts, lost, crashes>>

ClaimExpire(t) ==
    /\ At(t, "claim_expire")
    /\ ClaimCas(job[t].prize, "EXPIRED")
    /\ Finish(t)
    /\ UNCHANGED <<kind, mode, fulfil, retries, age, viaMomo, linked, payouts, lost, crashes>>

\* The guarded write; a caller that loses the race gets an error and stops.
ClaimWrite(t) ==
    LET p == job[t].prize IN
    /\ At(t, "claim_write")
    /\ IF claim[p] # "PENDING" THEN Finish(t) /\ UNCHANGED <<claim, viaMomo>>
       ELSE \/ /\ kind[p] = "digital"
               /\ ClaimCas(p, "CLAIMED")
               /\ IF job[t].seen = "pending_claim" THEN Goto(t, "claim_dispatch")
                                                   ELSE Finish(t)
               /\ UNCHANGED viaMomo
            \/ /\ kind[p] = "momo_cash"
               /\ ClaimCas(p, "PENDING_ADMIN_REVIEW")
               /\ \E number \in BOOLEAN : viaMomo' = [viaMomo EXCEPT ![p] = number]
               /\ Finish(t)
            \/ /\ kind[p] = "physical"
               /\ ClaimCas(p, "PENDING_ADMIN_REVIEW")
               /\ Goto(t, "claim_deliver")
               /\ UNCHANGED viaMomo
    /\ UNCHANGED <<kind, mode, fulfil, retries, age, linked, payouts, lost, crashes>>

\* The second write, then the goroutine that runs Fulfill takes over.
ClaimDispatch(t) ==
    /\ At(t, "claim_dispatch")
    /\ SetFulfil(job[t].prize, "pending")
    /\ Goto(t, "fulfil")
    /\ UNCHANGED <<kind, mode, claim, age, viaMomo, linked, payouts, lost, crashes>>

ClaimDeliver(t) ==
    /\ At(t, "claim_deliver")
    /\ SetFulfil(job[t].prize, "pending_delivery")
    /\ Finish(t)
    /\ UNCHANGED <<kind, mode, claim, age, viaMomo, linked, payouts, lost, crashes>>

-----------------------------------------------------------------------------
(* AdminClaimService: check, then act; the review write is unguarded.      *)

ApproveRead(t, p) ==
    /\ claim[p] = "PENDING_ADMIN_REVIEW"
    /\ Begin(t, p, IF kind[p] # "momo_cash" THEN "approve_write"
                   ELSE IF viaMomo[p] THEN "approve_call" ELSE "approve_bank", "na")
    /\ UNCHANGED <<row, linked, payouts, lost, crashes>>

\* Mutant: a refused transfer does not stop the approval.
ApproveCallIgnoringError(t) ==
    /\ At(t, "approve_call")
    /\ Call(job[t].prize, "LN_CLAIM", t, Goto(t, "approve_done"), Goto(t, "approve_write"))
    /\ UNCHANGED <<row, linked, crashes>>

ApproveCall(t) ==
    /\ At(t, "approve_call")
    /\ Call(job[t].prize, "LN_CLAIM", t, Goto(t, "approve_done"), Finish(t))
    /\ UNCHANGED <<row, linked, crashes>>

ApproveDone(t) ==
    /\ At(t, "approve_done")
    /\ SetFulfil(job[t].prize, "completed")
    /\ Goto(t, "approve_write")
    /\ UNCHANGED <<kind, mode, claim, age, viaMomo, linked, payouts, lost, crashes>>

\* The admin has paid by bank transfer and records it.
ApproveBank(t) ==
    /\ At(t, "approve_bank")
    /\ Pay(job[t].prize, "BANK")
    /\ SetFulfil(job[t].prize, "completed")
    /\ Goto(t, "approve_write")
    /\ UNCHANGED <<kind, mode, claim, age, viaMomo, linked, lost, crashes>>

Review(p, status) == claim' = [claim EXCEPT ![p] = status]

ApproveWrite(t) ==
    /\ At(t, "approve_write")
    /\ Review(job[t].prize, "APPROVED")
    /\ Finish(t)
    /\ UNCHANGED <<kind, mode, fulfil, retries, age, viaMomo, linked, payouts, lost, crashes>>

RejectRead(t, p) ==
    /\ claim[p] = "PENDING_ADMIN_REVIEW"
    /\ Begin(t, p, "reject_write", "na")
    /\ UNCHANGED <<row, linked, payouts, lost, crashes>>

RejectWrite(t) ==
    /\ At(t, "reject_write")
    /\ Review(job[t].prize, "REJECTED")
    /\ Goto(t, "reject_fail")
    /\ UNCHANGED <<kind, mode, fulfil, retries, age, viaMomo, linked, payouts, lost, crashes>>

RejectFail(t) ==
    /\ At(t, "reject_fail")
    /\ SetFulfil(job[t].prize, "failed")
    /\ Finish(t)
    /\ UNCHANGED <<kind, mode, claim, age, viaMomo, linked, payouts, lost, crashes>>

-----------------------------------------------------------------------------
(* LifecycleWorker: fulfil-retry, momo-held-recovery and momo-held-expiry, *)
(* each in both processes.  A listed row is acted on whatever became of it.*)

\* Mutants: every unfinished row is listed; the cap is forgotten; failed rows
\* are not listed.
RetryUnfinished(t, p) ==
    /\ fulfil[p] \notin {"na", "completed"}
    /\ retries[p] < RetryCap
    /\ Begin(t, p, "fulfil", "na")
    /\ UNCHANGED <<row, linked, payouts, lost, crashes>>
RetryWithoutCap(t, p) ==
    /\ fulfil[p] \in {"pending", "processing", "failed"}
    /\ Begin(t, p, "fulfil", "na")
    /\ UNCHANGED <<row, linked, payouts, lost, crashes>>
RetryPendingOnly(t, p) ==
    /\ fulfil[p] \in {"pending", "processing"}
    /\ retries[p] < RetryCap
    /\ Begin(t, p, "fulfil", "na")
    /\ UNCHANGED <<row, linked, payouts, lost, crashes>>

FulfillmentRetry(t, p) ==
    /\ fulfil[p] \in {"pending", "processing", "failed"}
    /\ retries[p] < RetryCap
    /\ Begin(t, p, "fulfil", "na")
    /\ UNCHANGED <<row, linked, payouts, lost, crashes>>

HeldList(t, p) ==
    /\ kind[p] = "momo_cash" /\ fulfil[p] = "pending_momo_setup"
    /\ Begin(t, p, IF age[p] = "fresh" THEN "held" ELSE "held_expire", "na")
    /\ UNCHANGED <<row, linked, payouts, lost, crashes>>

\* FulfillCashPrize up to the transfer: not linked or not active, hold again;
\* account check failed, leave the row alone.
HeldCheck(t) ==
    LET p == job[t].prize IN
    /\ At(t, "held")
    /\ \/ SetFulfil(p, "pending_momo_setup") /\ Finish(t)
       \/ linked /\ Finish(t) /\ UNCHANGED <<fulfil, retries>>
       \/ linked /\ SetFulfil(p, "processing") /\ Goto(t, "held_call")
    /\ UNCHANGED <<kind, mode, claim, age, viaMomo, linked, payouts, lost, crashes>>

\* DisburseToMoMo: a transfer still pending after three polls is an error too.
HeldCall(t) ==
    /\ At(t, "held_call")
    /\ Call(job[t].prize, "HELD", t, Goto(t, "held_done"), Goto(t, "held_failed"))
    /\ UNCHANGED <<row, linked, crashes>>

HeldDone(t) ==
    /\ At(t, "held_done")
    /\ SetFulfil(job[t].prize, "completed")
    /\ Finish(t)
    /\ UNCHANGED <<kind, mode, claim, age, viaMomo, linked, payouts, lost, crashes>>

HeldFailed(t) ==
    /\ At(t, "held_failed")
    /\ SetFulfil(job[t].prize, "failed")
    /\ Finish(t)
    /\ UNCHANGED <<kind, mode, claim, age, viaMomo, linked, payouts, lost, crashes>>

\* Marked failed without counting a retry.
HeldExpire(t) ==
    /\ At(t, "held_expire")
    /\ fulfil' = [fulfil EXCEPT ![job[t].prize] = "failed"]
    /\ Finish(t)
    /\ UNCHANGED <<kind, mode, claim, retries, age, viaMomo, linked, payouts, lost, crashes>>

-----------------------------------------------------------------------------
(* The environment.                                                        *)

\* VerifyMoMo.  The release of held prizes it starts looks for
\* pending_momo_setup among the rows listed as pending or processing: none.
VerifyMoMo ==
    /\ ~linked /\ linked' = TRUE
    /\ UNCHANGED <<row, payouts, job, lost, crashes>>

Tick(p) ==
    /\ kind[p] # "none" /\ age[p] # "lapsed"
    /\ age' = [age EXCEPT ![p] = IF @ = "fresh" THEN "held_over" ELSE "lapsed"]
    /\ UNCHANGED <<kind, mode, fulfil, claim, retries, viaMomo, linked, payouts,
                   job, lost, crashes>>

\* A panic, a restart or an ignored database error ends a thread here.
Crash(t) ==
    /\ job[t] # Idle /\ crashes < MaxCrash
    /\ crashes' = crashes + 1
    /\ Finish(t)
    /\ UNCHANGED <<row, linked, payouts, lost>>

Fulfil(t) == FulfilStart(t) \/ FulfilCall(t) \/ FulfilDone(t)
             \/ FulfilClaimedAt(t) \/ FulfilFailed(t)
AutoProvision(t) == AutoFlip(t) \/ AutoAcquire(t) \/ AutoFallback(t)
Claim(t)  == ClaimExpire(t) \/ ClaimWrite(t) \/ ClaimDispatch(t) \/ ClaimDeliver(t)
Admin(t)  == ApproveCall(t) \/ ApproveDone(t) \/ ApproveBank(t) \/ ApproveWrite(t)
             \/ RejectWrite(t) \/ RejectFail(t)
Held(t)   == HeldCheck(t) \/ HeldCall(t) \/ HeldDone(t) \/ HeldFailed(t) \/ HeldExpire(t)

\* A started handler takes its next step.
Progress(t) == Fulfil(t) \/ AutoProvision(t) \/ Claim(t) \/ Admin(t) \/ Held(t)

\* A handler starts on a row.
Start(t, p) ==
    \/ \E k \in Kinds, m \in Modes : PlaySpin(t, p, k, m)
    \/ ClaimRead(t, p) \/ ApproveRead(t, p) \/ RejectRead(t, p)
    \/ FulfillmentRetry(t, p) \/ HeldList(t, p)

Next ==
    \/ \E t \in Thread : Progress(t) \/ Crash(t) \/ \E p \in Prize : Start(t, p)
    \/ VerifyMoMo
    \/ \E p \in Prize : Tick(p)

Spec == Init /\ [][Next]_vars

\* Handlers do not stall (HTTP timeouts bound every provider call) and the
\* worker's ticker keeps listing.  A tick starts a goroutine of its own for each
\* row, so a row listed again and again is picked up: the finite Thread set must
\* not starve it, hence strong fairness.
Fairness ==
    /\ \A t \in Thread : WF_vars(Progress(t))
    /\ \A p \in Prize : SF_vars(\E t \in Thread : FulfillmentRetry(t, p))

FairSpec == Spec /\ Fairness

-----------------------------------------------------------------------------
(* Properties.                                                             *)

TypeOK ==
    /\ kind    \in [Prize -> AllKinds \cup {"none"}]
    /\ mode    \in [Prize -> AllModes]
    /\ fulfil  \in [Prize -> FulfilStatus]
    /\ claim   \in [Prize -> ClaimStatus]
    /\ retries \in [Prize -> 0 .. MaxRetries]
    /\ age     \in [Prize -> Ages]
    /\ viaMomo \in [Prize -> BOOLEAN]
    /\ linked  \in BOOLEAN
    /\ payouts \in [Prize -> [Channel -> 0 .. Several]]
    /\ job     \in [Thread -> Job]
    /\ lost \in Nat /\ crashes \in Nat

Paid(p) == \E c \in Channel : payouts[p][c] > 0
CashApproved(p) == payouts[p]["LN_CLAIM"] > 0 \/ payouts[p]["BANK"] > 0
UnderReview == {"PENDING_ADMIN_REVIEW", "APPROVED", "REJECTED"}

\* The rows refine the promise: a claim is taken once whatever the threads
\* interleave (the guarded UPDATE), and value moves only when authorised.
Promise == INSTANCE PrizePromise WITH paid <- [p \in Prize |-> Paid(p)]
RefinesPromise == Promise!Spec

\* An airtime or data prize under MANUAL mode reaches the winner only after a
\* claim of the winner won the compare-and-swap: no retry, crash or expiry can
\* start a fulfilment for an open or expired claim.
DeliveredOnlyIfClaimed ==
    \A p \in Prize :
        kind[p] = "digital" /\ mode[p] = "MANUAL" /\ Paid(p) => claim[p] = "CLAIMED"

\* A prize shown as completed has reached the winner (or is in points): no
\* overlap of retries and reviews marks a prize completed that nobody paid.
CompletedIsPaid ==
    \A p \in Prize :
        fulfil[p] = "completed" => Paid(p) \/ kind[p] = "pulse_points"

\* A cash claim an admin approved has been paid under the admin's own transfer
\* or by bank, even when a rejection ran at the same time or the handler died.
ApprovedCashIsPaid ==
    \A p \in Prize : claim[p] = "APPROVED" /\ kind[p] = "momo_cash" => CashApproved(p)

Attempts(p) == {t \in Thread : job[t].prize = p /\ job[t].at \in FulfilLabels}

\* The retry cap stops a claimed airtime or data prize, up to the attempts that
\* were in flight when retry_count reached it: a listing needs retry_count below
\* the cap, but several listings may be in flight on the same count.
RetriesBounded ==
    \A p \in Prize :
        kind[p] = "digital" /\ mode[p] = "MANUAL" =>
            retries[p] + Cardinality(Attempts(p)) < RetryCap + Cardinality(Thread)

\* A digital prize that was claimed reaches the winner or uses up its retries.
ClaimedIsSettled ==
    \A p \in Prize :
        (kind[p] = "digital" /\ claim[p] = "CLAIMED")
            ~> (fulfil[p] = "completed" \/ (fulfil[p] = "failed" /\ retries[p] >= RetryCap))

-----------------------------------------------------------------------------
(* What comments in the code say of the program, and the program does not  *)
(* do: each is checked by a run that finds it violated.                    *)

\* "All operations are idempotent - using SpinResult.ID as external reference":
\* a digital prize is bought once however often Fulfill runs.
DigitalBoughtOnce == \A p \in Prize : payouts[p]["VTPASS"] < Several

-----------------------------------------------------------------------------
(* The strengthening that makes the safety properties inductive.           *)

\* What every row satisfies, whatever threads are in flight.
RowInv(p) ==
    /\ kind[p] = "none" => fulfil[p] = "na" /\ claim[p] = "PENDING" /\ ~Paid(p)
    /\ kind[p] = "digital" /\ mode[p] = "MANUAL" /\ claim[p] # "CLAIMED" =>
           fulfil[p] = "pending_claim" /\ ~Paid(p)
    /\ kind[p] \in {"try_again", "pulse_points"} =>
           fulfil[p] \in {"na", "completed"} /\ claim[p] = "CLAIMED"
    /\ claim[p] \in UnderReview => kind[p] \in {"momo_cash", "physical"}
    /\ claim[p] = "APPROVED" /\ kind[p] = "momo_cash" => CashApproved(p)
    /\ fulfil[p] = "completed" => Paid(p) \/ kind[p] = "pulse_points"

\* What a thread may rely on at its next step.  Every conjunct is about what no
\* other thread can undo: a kind, a taken claim, a link, a payment.
ThreadInv(t) ==
    LET p == job[t].prize  at == job[t].at IN
    /\ at # "idle" => p \in Prize /\ kind[p] # "none"
    /\ at \in FulfilLabels =>
           /\ kind[p] \in {"digital", "momo_cash", "physical"}
           /\ kind[p] = "digital" /\ mode[p] = "MANUAL" => claim[p] = "CLAIMED"
    /\ at = "fulfil_call" => kind[p] = "digital" \/ (kind[p] = "momo_cash" /\ linked)
    /\ at = "fulfil_claimed_at" => kind[p] = "momo_cash"
    /\ at \in {"fulfil_done", "held_done", "approve_done"} => Paid(p)
    /\ at \in AutoLabels \/ (at \in FulfilLabels /\ job[t].attempt > 0) =>
           kind[p] = "digital" /\ mode[p] = "AUTO"
    /\ at = "claim_dispatch" => kind[p] = "digital" /\ claim[p] = "CLAIMED"
    /\ at \in {"claim_write", "claim_dispatch"} => job[t].attempt = 0
    /\ at = "claim_deliver" => kind[p] = "physical"
    /\ at \in HeldLabels => kind[p] = "momo_cash"
    /\ at = "held_call" => linked
    /\ at \in ReviewLabels => claim[p] \in UnderReview
    /\ at \in {"approve_call", "approve_done", "approve_bank"} => kind[p] = "momo_cash"
    /\ at \in {"approve_done", "approve_write"} /\ kind[p] = "momo_cash" => CashApproved(p)

IInv == TypeOK /\ (\A p \in Prize : RowInv(p)) /\ (\A t \in Thread : ThreadInv(t))

\* What the retry cap rests on.  While a claimed MANUAL digital prize waits for its dispatch no
\* attempt was made and one thread will dispatch it; later attempts come from the retry job alone.
Dispatching(p) == {t \in Thread : job[t].prize = p /\ job[t].at = "claim_dispatch"}

Untried(p) ==
    retries[p] = 0 /\ \A t \in Thread : job[t].prize = p => job[t].at \in {"idle"} \cup ClaimLabels

RetryInv(p) ==
    /\ kind[p] = "none" => retries[p] = 0
    /\ kind[p] = "digital" /\ mode[p] = "MANUAL" =>
           /\ fulfil[p] = "pending_claim" => Untried(p)
           /\ \A t \in Dispatching(p) : fulfil[p] = "pending_claim" /\ Dispatching(p) = {t}
           /\ retries[p] + Cardinality(Attempts(p)) < RetryCap + Cardinality(Thread)
=============================================================================
