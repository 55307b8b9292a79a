------------------------ MODULE PrizeLifecycleProofs ------------------------
(***************************************************************************)
(* Proofs about PrizeLifecycle for any set of prizes and threads.          *)
(***************************************************************************)
EXTENDS PrizeLifecycle, TLAPS, FiniteSetTheorems

\* What no step undoes: a kind, a taken claim, a review, a link, a payment.
Keeps ==
    /\ linked => linked'
    /\ \A q \in Prize :
         /\ kind[q] # "none" => kind'[q] = kind[q] /\ mode'[q] = mode[q]
         /\ claim[q] = "CLAIMED" => claim'[q] = "CLAIMED"
         /\ claim[q] \in UnderReview => claim'[q] \in UnderReview
         /\ \A c \in Channel : payouts[q][c] > 0 => payouts'[q][c] > 0

\* The sets of statuses and labels, expanded in every proof.
USE DEF Labels, FulfilLabels, AutoLabels, ClaimLabels, HeldLabels, ReviewLabels,
        FulfilStatus, ClaimStatus, UnderReview, Channel, Several

LEMMA InitInv == Init => IInv
  <1>. SUFFICES ASSUME Init PROVE IInv
    OBVIOUS
  <1>1. TypeOK
    BY KindsAssumption, AutoAssumption, BoundsAssumption
       DEF Init, TypeOK, Idle, Job, AllKinds, AllModes, Ages, RetryCap
  <1>2. \A p \in Prize : RowInv(p)
    BY DEF Init, RowInv, Paid, CashApproved
  <1>3. \A t \in Thread : ThreadInv(t)
    BY AutoAssumption DEF Init, ThreadInv, Idle
  <1>4. QED
    BY <1>1, <1>2, <1>3 DEF IInv

\* What a thread relies on survives every step that keeps what Keeps says and
\* leaves the thread's own job alone.
LEMMA OthersKeep ==
  ASSUME TypeOK, Keeps, NEW u \in Thread, ThreadInv(u), job'[u] = job[u]
  PROVE  ThreadInv(u)'
  <1>. DEFINE p == job[u].prize
  <1>1. CASE job[u].at = "idle"
    BY <1>1 DEF ThreadInv
  <1>2. CASE job[u].at # "idle"
    <2>1. p \in Prize /\ kind[p] # "none" /\ kind'[p] = kind[p] /\ mode'[p] = mode[p]
      BY <1>2 DEF ThreadInv, Keeps
    <2>2. Paid(p) => Paid(p)'
      BY <2>1 DEF Keeps, Paid
    <2>3. CashApproved(p) => CashApproved(p)'
      BY <2>1 DEF Keeps, CashApproved
    <2>4. /\ linked => linked'
          /\ claim[p] = "CLAIMED" => claim'[p] = "CLAIMED"
          /\ claim[p] \in UnderReview => claim'[p] \in UnderReview
      BY <2>1 DEF Keeps
    <2>5. QED
      BY <1>2, <2>1, <2>2, <2>3, <2>4 DEF ThreadInv
  <1>3. QED
    BY <1>1, <1>2

\* A row is left alone in everything RowInv looks at.
SameRow(q) == /\ kind'[q] = kind[q] /\ mode'[q] = mode[q] /\ fulfil'[q] = fulfil[q]
              /\ claim'[q] = claim[q] /\ payouts'[q] = payouts[q]

\* So a step is checked on its own thread and its own row.
LEMMA StepInv ==
  ASSUME IInv, TypeOK', Keeps,
         NEW t \in Thread, ThreadInv(t)', \A u \in Thread \ {t} : job'[u] = job[u],
         NEW p, p \in Prize => RowInv(p)', \A q \in Prize \ {p} : SameRow(q)
  PROVE  IInv'
  <1>1. \A u \in Thread : ThreadInv(u)'
    BY OthersKeep DEF IInv
  <1>2. \A q \in Prize \ {p} : RowInv(q)'
    BY DEF IInv, SameRow, RowInv, Paid, CashApproved
  <1>3. QED
    BY <1>1, <1>2 DEF IInv

-----------------------------------------------------------------------------
(* The building blocks.                                                    *)

Others(t) == \A u \in Thread \ {t} : job'[u] = job[u]

LEMMA GotoStep ==
  ASSUME TypeOK, NEW t \in Thread, NEW label \in Labels, Goto(t, label)
  PROVE  /\ job' \in [Thread -> Job] /\ Others(t)
         /\ job'[t].at = label /\ job'[t].prize = job[t].prize
         /\ job'[t].attempt = job[t].attempt
  <1>. DEFINE j == job[t]
  <1>. HIDE DEF Labels, FulfilStatus
  <1>1. j \in Job
    BY DEF TypeOK
  <1>2. [j EXCEPT !.at = label] \in Job
    BY <1>1 DEF Job
  <1>3. job' = [job EXCEPT ![t] = [j EXCEPT !.at = label]]
    BY DEF Goto
  <1>4. job' \in [Thread -> Job] /\ Others(t) /\ job'[t] = [j EXCEPT !.at = label]
    BY <1>2, <1>3 DEF TypeOK, Others
  <1>5. QED
    BY <1>1, <1>4 DEF Job

LEMMA FinishStep ==
  ASSUME TypeOK, NEW t \in Thread, Finish(t)
  PROVE  job' \in [Thread -> Job] /\ Others(t) /\ job'[t] = Idle /\ ThreadInv(t)'
  <1>1. Idle \in Job
    BY AutoAssumption DEF Idle, Job
  <1>2. job' \in [Thread -> Job] /\ Others(t) /\ job'[t] = Idle
    BY <1>1 DEF TypeOK, Finish, Others
  <1>3. QED
    BY <1>2 DEF ThreadInv, Idle

LEMMA BeginStep ==
  ASSUME TypeOK, NEW t \in Thread, NEW p \in Prize, NEW label \in Labels,
         NEW status \in FulfilStatus, Begin(t, p, label, status)
  PROVE  /\ job' \in [Thread -> Job] /\ Others(t)
         /\ job'[t].at = label /\ job'[t].prize = p /\ job'[t].attempt = 0
  <1>1. [at |-> label, prize |-> p, seen |-> status, attempt |-> 0] \in Job
    BY AutoAssumption DEF Job
  <1>2. QED
    BY <1>1 DEF TypeOK, Begin, Others

\* The retry loop goes back to Fulfill, falls back, or the caller is done.
LEMMA AfterErrorStep ==
  ASSUME TypeOK, NEW t \in Thread, job[t].at \in FulfilLabels, ThreadInv(t), AfterError(t)
  PROVE  /\ job' \in [Thread -> Job] /\ Others(t)
         /\ \/ job'[t] = Idle
            \/ /\ job'[t].prize = job[t].prize /\ job'[t].at \in {"fulfil", "auto_fallback"}
               /\ kind[job[t].prize] = "digital" /\ mode[job[t].prize] = "AUTO"
  <1>0. job[t].attempt \in 0 .. AutoAttempts
    BY DEF TypeOK, Job
  <1>1. CASE job[t].attempt = 0
    BY <1>1, FinishStep DEF AfterError
  <1>2. CASE job[t].attempt # 0 /\ job[t].attempt < AutoAttempts
    <2>1. job' = [job EXCEPT ![t].at = "fulfil", ![t].attempt = @ + 1]
      BY <1>2 DEF AfterError
    <2>2. job[t].attempt + 1 \in 0 .. AutoAttempts
      BY <1>0, <1>2, AutoAssumption
    <2>3. job' \in [Thread -> Job] /\ Others(t)
          /\ job'[t].prize = job[t].prize /\ job'[t].at = "fulfil"
      BY <2>1, <2>2 DEF TypeOK, Job, Others
    <2>4. QED
      BY <1>0, <1>2, <2>3, AutoAssumption DEF ThreadInv
  <1>3. CASE job[t].attempt # 0 /\ ~(job[t].attempt < AutoAttempts)
    BY <1>0, <1>3, GotoStep, AutoAssumption DEF AfterError, ThreadInv
  <1>4. QED
    BY <1>1, <1>2, <1>3

LEMMA SetFulfilStep ==
  ASSUME TypeOK, NEW p \in Prize, NEW status \in FulfilStatus, SetFulfil(p, status)
  PROVE  /\ fulfil' \in [Prize -> FulfilStatus]
         /\ retries' \in [Prize -> 0 .. MaxRetries]
         /\ fulfil'[p] = status
         /\ \A q \in Prize \ {p} : fulfil'[q] = fulfil[q]
  BY BoundsAssumption DEF TypeOK, SetFulfil

LEMMA PayStep ==
  ASSUME TypeOK, NEW p \in Prize, NEW c \in Channel, Pay(p, c)
  PROVE  /\ payouts' \in [Prize -> [Channel -> 0 .. Several]]
         /\ payouts'[p][c] > 0 /\ Paid(p)'
         /\ \A q \in Prize, d \in Channel : payouts[q][d] > 0 => payouts'[q][d] > 0
         /\ \A q \in Prize \ {p} : payouts'[q] = payouts[q]
  <1>1. payouts' \in [Prize -> [Channel -> 0 .. Several]]
    BY DEF TypeOK, Pay
  <1>2. payouts'[p][c] > 0 /\ \A q \in Prize \ {p} : payouts'[q] = payouts[q]
    BY DEF TypeOK, Pay
  <1>3. \A d \in Channel \ {c} : payouts'[p][d] = payouts[p][d]
    BY DEF TypeOK, Pay
  <1>4. Paid(p)'
    BY <1>2 DEF Paid
  <1>5. QED
    BY <1>1, <1>2, <1>3, <1>4

-----------------------------------------------------------------------------
(* The kinds of step.                                                      *)

Moves(t) == job' \in [Thread -> Job] /\ Others(t) /\ ThreadInv(t)'

\* A step that only moves its thread (a read, or the death of a handler).
LEMMA JobOnly ==
  ASSUME IInv, NEW t \in Thread, Moves(t), UNCHANGED <<row, linked, payouts, lost>>,
         crashes' \in Nat
  PROVE  IInv'
  <1>1. TypeOK' /\ Keeps
    BY DEF IInv, TypeOK, Keeps, Moves, row
  <1>2. \A q \in Prize : SameRow(q) /\ RowInv(q)'
    BY DEF IInv, SameRow, row, RowInv, Paid, CashApproved
  <1>3. QED
    BY <1>1, <1>2, StepInv DEF Moves, Others

\* A write of fulfillment_status: allowed on a claimed (or AUTO, or cash, or
\* physical) prize, and "completed" only on a paid one.
MayWrite(p, s) ==
    /\ kind[p] \in {"digital", "momo_cash", "physical"}
    /\ kind[p] = "digital" /\ mode[p] = "MANUAL" => claim[p] = "CLAIMED"
    /\ s = "completed" => Paid(p)

LEMMA FulfilWrite ==
  ASSUME IInv, NEW t \in Thread, Moves(t),
         NEW p \in Prize, NEW s \in FulfilStatus, MayWrite(p, s),
         fulfil' = [fulfil EXCEPT ![p] = s], retries' \in [Prize -> 0 .. MaxRetries],
         UNCHANGED <<kind, mode, claim, age, viaMomo, linked, payouts, lost, crashes>>
  PROVE  IInv'
  <1>1. TypeOK' /\ Keeps
    BY DEF IInv, TypeOK, Keeps, Moves
  <1>2. fulfil'[p] = s /\ \A q \in Prize \ {p} : SameRow(q)
    BY DEF IInv, TypeOK, SameRow
  <1>3. RowInv(p)'
    BY <1>2 DEF IInv, RowInv, MayWrite, Paid, CashApproved
  <1>4. QED
    BY <1>1, <1>2, <1>3, StepInv DEF Moves, Others

\* A write of claim_status: an open claim is taken, or a reviewed one decided.
MayClaim(p, s) ==
    /\ kind[p] # "none"
    /\ \/ claim[p] = "PENDING" /\ s \in {"CLAIMED", "EXPIRED"}
       \/ claim[p] = "PENDING" /\ s = "PENDING_ADMIN_REVIEW" /\ kind[p] \in {"momo_cash", "physical"}
       \/ claim[p] \in UnderReview /\ s \in {"APPROVED", "REJECTED"}
    /\ s = "APPROVED" /\ kind[p] = "momo_cash" => CashApproved(p)

LEMMA ClaimChange ==
  ASSUME IInv, NEW t \in Thread, Moves(t),
         NEW p \in Prize, NEW s \in ClaimStatus, MayClaim(p, s),
         claim' = [claim EXCEPT ![p] = s], viaMomo' \in [Prize -> BOOLEAN],
         UNCHANGED <<kind, mode, fulfil, retries, age, linked, payouts, lost, crashes>>
  PROVE  IInv'
  <1>1. claim'[p] = s /\ \A q \in Prize \ {p} : SameRow(q)
    BY DEF IInv, TypeOK, SameRow
  <1>2. TypeOK'
    BY DEF IInv, TypeOK, Moves
  <1>3. Keeps
    BY <1>1 DEF Keeps, SameRow, MayClaim
  <1>4. RowInv(p)'
    BY <1>1 DEF IInv, RowInv, MayClaim, Paid, CashApproved
  <1>5. QED
    BY <1>1, <1>2, <1>3, <1>4, StepInv DEF Moves, Others

\* A provider moves value; the row may be marked completed in the same step.
LEMMA PayChange ==
  ASSUME IInv, NEW t \in Thread, Moves(t), NEW p \in Prize, NEW c \in Channel, Pay(p, c),
         MayWrite(p, "na"), lost' \in Nat, retries' \in [Prize -> 0 .. MaxRetries],
         fulfil' = fulfil \/ fulfil' = [fulfil EXCEPT ![p] = "completed"],
         UNCHANGED <<kind, mode, claim, age, viaMomo, linked, crashes>>
  PROVE  IInv'
  <1>1. TypeOK
    BY DEF IInv
  <1>2. TypeOK' /\ Keeps
    BY <1>1, PayStep DEF TypeOK, Keeps, Moves
  <1>3. fulfil'[p] \in {fulfil[p], "completed"} /\ \A q \in Prize \ {p} : SameRow(q)
    BY <1>1, PayStep DEF TypeOK, SameRow
  <1>4. Paid(p)' /\ (CashApproved(p) => CashApproved(p)')
    BY <1>1, PayStep DEF CashApproved
  <1>5. RowInv(p)'
    BY <1>3, <1>4 DEF IInv, RowInv, MayWrite
  <1>6. QED
    BY <1>2, <1>3, <1>5, StepInv DEF Moves, Others

-----------------------------------------------------------------------------
(* One lemma per group of actions.                                         *)

LEMMA StepFulfilStart ==
  ASSUME IInv, NEW t \in Thread, FulfilStart(t)
  PROVE  IInv'
  <1>1. PICK p \in Prize : p = job[t].prize /\ job[t].at = "fulfil"
    BY DEF IInv, ThreadInv, FulfilStart, At
  <1>2. TypeOK /\ ThreadInv(t) /\ MayWrite(p, "na")
    BY <1>1 DEF IInv, ThreadInv, MayWrite
  <1>3. UNCHANGED <<kind, mode, claim, age, viaMomo, linked, payouts, lost, crashes>>
    BY DEF FulfilStart
  <1>4. PICK s \in {"processing", "pending_momo_setup", "pending_delivery", "failed"} :
           SetFulfil(p, s)
    BY <1>1 DEF FulfilStart
  <1>5. Moves(t)
    <2>1. CASE Goto(t, "fulfil_call") /\ (kind[p] = "digital" \/ (kind[p] = "momo_cash" /\ linked))
      BY <1>1, <1>2, <1>3, <2>1, GotoStep DEF Moves, ThreadInv
    <2>2. CASE Finish(t)
      BY <1>2, <2>2, FinishStep DEF Moves
    <2>3. CASE AfterError(t)
      BY <1>1, <1>2, <1>3, <2>3, AfterErrorStep DEF Moves, ThreadInv, Idle
    <2>4. QED
      BY <1>1, <2>1, <2>2, <2>3 DEF FulfilStart
  <1>6. MayWrite(p, s)
    BY <1>2 DEF MayWrite
  <1>7. fulfil' = [fulfil EXCEPT ![p] = s] /\ retries' \in [Prize -> 0 .. MaxRetries]
    BY <1>2, <1>4, SetFulfilStep DEF SetFulfil
  <1>8. QED
    BY <1>3, <1>5, <1>6, <1>7, FulfilWrite

\* A thread at work has a prize, and relies on ThreadInv.
LEMMA AtWork ==
  ASSUME IInv, NEW t \in Thread, job[t].at # "idle"
  PROVE  TypeOK /\ ThreadInv(t) /\ \E p \in Prize : p = job[t].prize /\ kind[p] # "none" /\ RowInv(p)
  BY DEF IInv, ThreadInv

LEMMA StepFulfilDone ==
  ASSUME IInv, NEW t \in Thread, FulfilDone(t)
  PROVE  IInv'
  <1>1. job[t].at = "fulfil_done"
    BY DEF FulfilDone, At
  <1>2. PICK p \in Prize : p = job[t].prize /\ kind[p] # "none" /\ RowInv(p)
    BY <1>1, AtWork
  <1>3. TypeOK /\ ThreadInv(t)
    BY DEF IInv
  <1>4. PICK s \in {"completed"} : SetFulfil(p, s)
    BY <1>2 DEF FulfilDone
  <1>5. UNCHANGED <<kind, mode, claim, age, viaMomo, linked, payouts, lost, crashes>>
    BY DEF FulfilDone
  <1>6. Moves(t)
    <2>1. CASE kind[p] = "momo_cash" /\ Goto(t, "fulfil_claimed_at")
      BY <1>1, <1>2, <1>3, <1>5, <2>1, GotoStep DEF Moves, ThreadInv
    <2>2. CASE Finish(t)
      BY <1>3, <2>2, FinishStep DEF Moves
    <2>3. QED
      BY <1>2, <2>1, <2>2 DEF FulfilDone
  <1>7. MayWrite(p, s)
    BY <1>1, <1>2, <1>3, <1>4 DEF MayWrite, ThreadInv, RowInv
  <1>8. fulfil' = [fulfil EXCEPT ![p] = s] /\ retries' \in [Prize -> 0 .. MaxRetries]
    BY <1>3, <1>4, SetFulfilStep DEF SetFulfil
  <1>9. QED
    BY <1>5, <1>6, <1>7, <1>8, FulfilWrite

LEMMA StepFulfilFailed ==
  ASSUME IInv, NEW t \in Thread, FulfilFailed(t)
  PROVE  IInv'
  <1>1. job[t].at = "fulfil_failed"
    BY DEF FulfilFailed, At
  <1>2. PICK p \in Prize : p = job[t].prize /\ kind[p] # "none" /\ RowInv(p)
    BY <1>1, AtWork
  <1>3. TypeOK /\ ThreadInv(t)
    BY DEF IInv
  <1>4. PICK s \in {"failed"} : SetFulfil(p, s)
    BY <1>2 DEF FulfilFailed
  <1>5. UNCHANGED <<kind, mode, claim, age, viaMomo, linked, payouts, lost, crashes>>
    BY DEF FulfilFailed
  <1>6. Moves(t)
    <2>1. AfterError(t)
      BY DEF FulfilFailed
    <2>2. QED
      BY <1>1, <1>2, <1>3, <1>5, <2>1, AfterErrorStep DEF Moves, ThreadInv, Idle
  <1>7. MayWrite(p, s)
    BY <1>1, <1>2, <1>3, <1>4 DEF MayWrite, ThreadInv, RowInv
  <1>8. fulfil' = [fulfil EXCEPT ![p] = s] /\ retries' \in [Prize -> 0 .. MaxRetries]
    BY <1>3, <1>4, SetFulfilStep DEF SetFulfil
  <1>9. QED
    BY <1>5, <1>6, <1>7, <1>8, FulfilWrite

LEMMA StepClaimDispatch ==
  ASSUME IInv, NEW t \in Thread, ClaimDispatch(t)
  PROVE  IInv'
  <1>1. job[t].at = "claim_dispatch"
    BY DEF ClaimDispatch, At
  <1>2. PICK p \in Prize : p = job[t].prize /\ kind[p] # "none" /\ RowInv(p)
    BY <1>1, AtWork
  <1>3. TypeOK /\ ThreadInv(t)
    BY DEF IInv
  <1>4. PICK s \in {"pending"} : SetFulfil(p, s)
    BY <1>2 DEF ClaimDispatch
  <1>5. UNCHANGED <<kind, mode, claim, age, viaMomo, linked, payouts, lost, crashes>>
    BY DEF ClaimDispatch
  <1>6. Moves(t)
    <2>1. Goto(t, "fulfil")
      BY DEF ClaimDispatch
    <2>2. QED
      BY <1>1, <1>2, <1>3, <1>5, <2>1, GotoStep DEF Moves, ThreadInv
  <1>7. MayWrite(p, s)
    BY <1>1, <1>2, <1>3, <1>4 DEF MayWrite, ThreadInv, RowInv
  <1>8. fulfil' = [fulfil EXCEPT ![p] = s] /\ retries' \in [Prize -> 0 .. MaxRetries]
    BY <1>3, <1>4, SetFulfilStep DEF SetFulfil
  <1>9. QED
    BY <1>5, <1>6, <1>7, <1>8, FulfilWrite

LEMMA StepClaimDeliver ==
  ASSUME IInv, NEW t \in Thread, ClaimDeliver(t)
  PROVE  IInv'
  <1>1. job[t].at = "claim_deliver"
    BY DEF ClaimDeliver, At
  <1>2. PICK p \in Prize : p = job[t].prize /\ kind[p] # "none" /\ RowInv(p)
    BY <1>1, AtWork
  <1>3. TypeOK /\ ThreadInv(t)
    BY DEF IInv
  <1>4. PICK s \in {"pending_delivery"} : SetFulfil(p, s)
    BY <1>2 DEF ClaimDeliver
  <1>5. UNCHANGED <<kind, mode, claim, age, viaMomo, linked, payouts, lost, crashes>>
    BY DEF ClaimDeliver
  <1>6. Moves(t)
    BY <1>3, FinishStep DEF ClaimDeliver, Moves
  <1>7. MayWrite(p, s)
    BY <1>1, <1>2, <1>3, <1>4 DEF MayWrite, ThreadInv, RowInv
  <1>8. fulfil' = [fulfil EXCEPT ![p] = s] /\ retries' \in [Prize -> 0 .. MaxRetries]
    BY <1>3, <1>4, SetFulfilStep DEF SetFulfil
  <1>9. QED
    BY <1>5, <1>6, <1>7, <1>8, FulfilWrite

LEMMA StepApproveDone ==
  ASSUME IInv, NEW t \in Thread, ApproveDone(t)
  PROVE  IInv'
  <1>1. job[t].at = "approve_done"
    BY DEF ApproveDone, At
  <1>2. PICK p \in Prize : p = job[t].prize /\ kind[p] # "none" /\ RowInv(p)
    BY <1>1, AtWork
  <1>3. TypeOK /\ ThreadInv(t)
    BY DEF IInv
  <1>4. PICK s \in {"completed"} : SetFulfil(p, s)
    BY <1>2 DEF ApproveDone
  <1>5. UNCHANGED <<kind, mode, claim, age, viaMomo, linked, payouts, lost, crashes>>
    BY DEF ApproveDone
  <1>6. Moves(t)
    <2>1. Goto(t, "approve_write")
      BY DEF ApproveDone
    <2>2. QED
      BY <1>1, <1>2, <1>3, <1>5, <2>1, GotoStep DEF Moves, ThreadInv, Paid, CashApproved
  <1>7. MayWrite(p, s)
    BY <1>1, <1>2, <1>3, <1>4 DEF MayWrite, ThreadInv, RowInv
  <1>8. fulfil' = [fulfil EXCEPT ![p] = s] /\ retries' \in [Prize -> 0 .. MaxRetries]
    BY <1>3, <1>4, SetFulfilStep DEF SetFulfil
  <1>9. QED
    BY <1>5, <1>6, <1>7, <1>8, FulfilWrite

LEMMA StepRejectFail ==
  ASSUME IInv, NEW t \in Thread, RejectFail(t)
  PROVE  IInv'
  <1>1. job[t].at = "reject_fail"
    BY DEF RejectFail, At
  <1>2. PICK p \in Prize : p = job[t].prize /\ kind[p] # "none" /\ RowInv(p)
    BY <1>1, AtWork
  <1>3. TypeOK /\ ThreadInv(t)
    BY DEF IInv
  <1>4. PICK s \in {"failed"} : SetFulfil(p, s)
    BY <1>2 DEF RejectFail
  <1>5. UNCHANGED <<kind, mode, claim, age, viaMomo, linked, payouts, lost, crashes>>
    BY DEF RejectFail
  <1>6. Moves(t)
    BY <1>3, FinishStep DEF RejectFail, Moves
  <1>7. MayWrite(p, s)
    BY <1>1, <1>2, <1>3, <1>4 DEF MayWrite, ThreadInv, RowInv
  <1>8. fulfil' = [fulfil EXCEPT ![p] = s] /\ retries' \in [Prize -> 0 .. MaxRetries]
    BY <1>3, <1>4, SetFulfilStep DEF SetFulfil
  <1>9. QED
    BY <1>5, <1>6, <1>7, <1>8, FulfilWrite

LEMMA StepHeldDone ==
  ASSUME IInv, NEW t \in Thread, HeldDone(t)
  PROVE  IInv'
  <1>1. job[t].at = "held_done"
    BY DEF HeldDone, At
  <1>2. PICK p \in Prize : p = job[t].prize /\ kind[p] # "none" /\ RowInv(p)
    BY <1>1, AtWork
  <1>3. TypeOK /\ ThreadInv(t)
    BY DEF IInv
  <1>4. PICK s \in {"completed"} : SetFulfil(p, s)
    BY <1>2 DEF HeldDone
  <1>5. UNCHANGED <<kind, mode, claim, age, viaMomo, linked, payouts, lost, crashes>>
    BY DEF HeldDone
  <1>6. Moves(t)
    BY <1>3, FinishStep DEF HeldDone, Moves
  <1>7. MayWrite(p, s)
    BY <1>1, <1>2, <1>3, <1>4 DEF MayWrite, ThreadInv, RowInv
  <1>8. fulfil' = [fulfil EXCEPT ![p] = s] /\ retries' \in [Prize -> 0 .. MaxRetries]
    BY <1>3, <1>4, SetFulfilStep DEF SetFulfil
  <1>9. QED
    BY <1>5, <1>6, <1>7, <1>8, FulfilWrite

LEMMA StepHeldFailed ==
  ASSUME IInv, NEW t \in Thread, HeldFailed(t)
  PROVE  IInv'
  <1>1. job[t].at = "held_failed"
    BY DEF HeldFailed, At
  <1>2. PICK p \in Prize : p = job[t].prize /\ kind[p] # "none" /\ RowInv(p)
    BY <1>1, AtWork
  <1>3. TypeOK /\ ThreadInv(t)
    BY DEF IInv
  <1>4. PICK s \in {"failed"} : SetFulfil(p, s)
    BY <1>2 DEF HeldFailed
  <1>5. UNCHANGED <<kind, mode, claim, age, viaMomo, linked, payouts, lost, crashes>>
    BY DEF HeldFailed
  <1>6. Moves(t)
    BY <1>3, FinishStep DEF HeldFailed, Moves
  <1>7. MayWrite(p, s)
    BY <1>1, <1>2, <1>3, <1>4 DEF MayWrite, ThreadInv, RowInv
  <1>8. fulfil' = [fulfil EXCEPT ![p] = s] /\ retries' \in [Prize -> 0 .. MaxRetries]
    BY <1>3, <1>4, SetFulfilStep DEF SetFulfil
  <1>9. QED
    BY <1>5, <1>6, <1>7, <1>8, FulfilWrite

LEMMA StepAutoFlip ==
  ASSUME IInv, NEW t \in Thread, AutoFlip(t)
  PROVE  IInv'
  <1>1. job[t].at = "auto_flip"
    BY DEF AutoFlip, At
  <1>2. PICK p \in Prize : p = job[t].prize /\ kind[p] # "none" /\ RowInv(p)
    BY <1>1, AtWork
  <1>3. TypeOK /\ ThreadInv(t)
    BY DEF IInv
  <1>4. PICK s \in {"pending"} : fulfil' = [fulfil EXCEPT ![p] = s]
    BY <1>2, AutoAssumption DEF AutoFlip
  <1>5. UNCHANGED <<kind, mode, claim, age, viaMomo, linked, payouts, lost, crashes>> /\ retries' = retries
    BY DEF AutoFlip
  <1>6. Moves(t)
    <2>1. Goto(t, "auto_wait")
      BY DEF AutoFlip
    <2>2. QED
      BY <1>1, <1>2, <1>3, <1>5, <2>1, GotoStep DEF Moves, ThreadInv
  <1>7. MayWrite(p, s)
    BY <1>1, <1>2, <1>3, <1>4 DEF MayWrite, ThreadInv, RowInv
  <1>8. retries' \in [Prize -> 0 .. MaxRetries]
    BY <1>3, <1>5 DEF TypeOK
  <1>9. QED
    BY <1>4, <1>5, <1>6, <1>7, <1>8, FulfilWrite

LEMMA StepAutoFallback ==
  ASSUME IInv, NEW t \in Thread, AutoFallback(t)
  PROVE  IInv'
  <1>1. job[t].at = "auto_fallback"
    BY DEF AutoFallback, At
  <1>2. PICK p \in Prize : p = job[t].prize /\ kind[p] # "none" /\ RowInv(p)
    BY <1>1, AtWork
  <1>3. TypeOK /\ ThreadInv(t)
    BY DEF IInv
  <1>4. PICK s \in {"pending_claim", "failed"} : fulfil' = [fulfil EXCEPT ![p] = s]
    BY <1>2, AutoAssumption DEF AutoFallback
  <1>5. UNCHANGED <<kind, mode, claim, age, viaMomo, linked, payouts, lost, crashes>> /\ retries' = retries
    BY DEF AutoFallback
  <1>6. Moves(t)
    BY <1>3, FinishStep DEF AutoFallback, Moves
  <1>7. MayWrite(p, s)
    BY <1>1, <1>2, <1>3, <1>4 DEF MayWrite, ThreadInv, RowInv
  <1>8. retries' \in [Prize -> 0 .. MaxRetries]
    BY <1>3, <1>5 DEF TypeOK
  <1>9. QED
    BY <1>4, <1>5, <1>6, <1>7, <1>8, FulfilWrite

LEMMA StepHeldExpire ==
  ASSUME IInv, NEW t \in Thread, HeldExpire(t)
  PROVE  IInv'
  <1>1. job[t].at = "held_expire"
    BY DEF HeldExpire, At
  <1>2. PICK p \in Prize : p = job[t].prize /\ kind[p] # "none" /\ RowInv(p)
    BY <1>1, AtWork
  <1>3. TypeOK /\ ThreadInv(t)
    BY DEF IInv
  <1>4. PICK s \in {"failed"} : fulfil' = [fulfil EXCEPT ![p] = s]
    BY <1>2, AutoAssumption DEF HeldExpire
  <1>5. UNCHANGED <<kind, mode, claim, age, viaMomo, linked, payouts, lost, crashes>> /\ retries' = retries
    BY DEF HeldExpire
  <1>6. Moves(t)
    BY <1>3, FinishStep DEF HeldExpire, Moves
  <1>7. MayWrite(p, s)
    BY <1>1, <1>2, <1>3, <1>4 DEF MayWrite, ThreadInv, RowInv
  <1>8. retries' \in [Prize -> 0 .. MaxRetries]
    BY <1>3, <1>5 DEF TypeOK
  <1>9. QED
    BY <1>4, <1>5, <1>6, <1>7, <1>8, FulfilWrite

LEMMA StepAutoAcquire ==
  ASSUME IInv, NEW t \in Thread, AutoAcquire(t)
  PROVE  IInv'
  <1>1. job[t].at = "auto_wait"
    BY DEF AutoAcquire, At
  <1>2. PICK p \in Prize : p = job[t].prize /\ kind[p] # "none" /\ RowInv(p)
    BY <1>1, AtWork
  <1>3. TypeOK /\ ThreadInv(t)
    BY DEF IInv
  <1>4. UNCHANGED <<row, linked, payouts, lost, crashes>> /\ crashes' \in Nat
    BY <1>3 DEF AutoAcquire, TypeOK
  <1>5. CASE Finish(t)
    BY <1>3, <1>4, <1>5, FinishStep, JobOnly DEF Moves
  <1>6. CASE job' = [job EXCEPT ![t].at = "fulfil", ![t].attempt = 1]
    <2>1. 1 \in 0 .. AutoAttempts /\ "fulfil" \in Labels
      BY AutoAssumption
    <2>2. job' \in [Thread -> Job] /\ Others(t) /\ job'[t].prize = p
          /\ job'[t].at = "fulfil" /\ job'[t].attempt = 1
      <3>. DEFINE j == [job[t] EXCEPT !.at = "fulfil", !.attempt = 1]
      <3>. HIDE DEF Labels, FulfilStatus
      <3>1. job[t] \in Job /\ job' = [job EXCEPT ![t] = j]
        BY <1>3, <1>6 DEF TypeOK
      <3>2. j \in Job /\ j.at = "fulfil" /\ j.attempt = 1 /\ j.prize = job[t].prize
        BY <2>1, <3>1 DEF Job
      <3>3. QED
        BY <1>2, <1>3, <3>1, <3>2 DEF TypeOK, Others
    <2>3. ThreadInv(t)'
      BY <1>1, <1>2, <1>3, <1>4, <2>2 DEF ThreadInv, row
    <2>4. QED
      BY <1>4, <2>2, <2>3, JobOnly DEF Moves
  <1>7. QED
    BY <1>5, <1>6 DEF AutoAcquire

LEMMA StepFulfilCall ==
  ASSUME IInv, NEW t \in Thread, FulfilCall(t)
  PROVE  IInv'
  <1>1. job[t].at = "fulfil_call"
    BY DEF FulfilCall, At
  <1>2. PICK p \in Prize : p = job[t].prize /\ kind[p] # "none" /\ RowInv(p)
    BY <1>1, AtWork
  <1>3. TypeOK /\ ThreadInv(t)
    BY DEF IInv
  <1>4. PICK c \in Channel : Call(p, c, t, Goto(t, "fulfil_done"), Goto(t, "fulfil_failed")) /\ c = (IF kind[p] = "digital" THEN "VTPASS" ELSE "LN")
    BY <1>2 DEF FulfilCall
  <1>5. UNCHANGED <<row, linked, crashes>>
    BY DEF FulfilCall
  <1>6. CASE ~Pay(p, c)
    <2>1. Goto(t, "fulfil_failed") /\ UNCHANGED <<payouts, lost>>
      BY <1>4, <1>6 DEF Call
    <2>2. Moves(t) /\ crashes' \in Nat
      BY <1>1, <1>2, <1>3, <1>5, <2>1, GotoStep DEF Moves, ThreadInv, TypeOK, row
    <2>3. QED
      BY <1>5, <2>1, <2>2, JobOnly
  <1>7. CASE Pay(p, c)
    <2>1. lost' \in Nat /\ retries' \in [Prize -> 0 .. MaxRetries]
      BY <1>3, <1>4, <1>5 DEF Call, TypeOK, row
    <2>2. Paid(p)' /\ payouts'[p][c] > 0
      BY <1>3, <1>7, PayStep
    <2>3. CASE Goto(t, "fulfil_done")
      BY <1>1, <1>2, <1>3, <1>4, <1>5, <1>7, <2>1, <2>2, <2>3, GotoStep, PayChange
         DEF Moves, ThreadInv, MayWrite, row, CashApproved
    <2>4. CASE Goto(t, "fulfil_failed")
      BY <1>1, <1>2, <1>3, <1>5, <1>7, <2>1, <2>4, GotoStep, PayChange
         DEF Moves, ThreadInv, MayWrite, row
    <2>5. QED
      BY <1>4, <2>3, <2>4 DEF Call
  <1>8. QED
    BY <1>6, <1>7

LEMMA StepApproveCall ==
  ASSUME IInv, NEW t \in Thread, ApproveCall(t)
  PROVE  IInv'
  <1>1. job[t].at = "approve_call"
    BY DEF ApproveCall, At
  <1>2. PICK p \in Prize : p = job[t].prize /\ kind[p] # "none" /\ RowInv(p)
    BY <1>1, AtWork
  <1>3. TypeOK /\ ThreadInv(t)
    BY DEF IInv
  <1>4. PICK c \in Channel : Call(p, c, t, Goto(t, "approve_done"), Finish(t)) /\ c = "LN_CLAIM"
    BY <1>2 DEF ApproveCall
  <1>5. UNCHANGED <<row, linked, crashes>>
    BY DEF ApproveCall
  <1>6. CASE ~Pay(p, c)
    <2>1. Finish(t) /\ UNCHANGED <<payouts, lost>>
      BY <1>4, <1>6 DEF Call
    <2>2. Moves(t) /\ crashes' \in Nat
      BY <1>1, <1>2, <1>3, <1>5, <2>1, FinishStep DEF Moves, ThreadInv, TypeOK, row
    <2>3. QED
      BY <1>5, <2>1, <2>2, JobOnly
  <1>7. CASE Pay(p, c)
    <2>1. lost' \in Nat /\ retries' \in [Prize -> 0 .. MaxRetries]
      BY <1>3, <1>4, <1>5 DEF Call, TypeOK, row
    <2>2. Paid(p)' /\ payouts'[p][c] > 0
      BY <1>3, <1>7, PayStep
    <2>3. CASE Goto(t, "approve_done")
      BY <1>1, <1>2, <1>3, <1>4, <1>5, <1>7, <2>1, <2>2, <2>3, GotoStep, PayChange
         DEF Moves, ThreadInv, MayWrite, row, CashApproved
    <2>4. CASE Finish(t)
      BY <1>1, <1>2, <1>3, <1>5, <1>7, <2>1, <2>4, FinishStep, PayChange
         DEF Moves, ThreadInv, MayWrite, row
    <2>5. QED
      BY <1>4, <2>3, <2>4 DEF Call
  <1>8. QED
    BY <1>6, <1>7

LEMMA StepHeldCall ==
  ASSUME IInv, NEW t \in Thread, HeldCall(t)
  PROVE  IInv'
  <1>1. job[t].at = "held_call"
    BY DEF HeldCall, At
  <1>2. PICK p \in Prize : p = job[t].prize /\ kind[p] # "none" /\ RowInv(p)
    BY <1>1, AtWork
  <1>3. TypeOK /\ ThreadInv(t)
    BY DEF IInv
  <1>4. PICK c \in Channel : Call(p, c, t, Goto(t, "held_done"), Goto(t, "held_failed")) /\ c = "HELD"
    BY <1>2 DEF HeldCall
  <1>5. UNCHANGED <<row, linked, crashes>>
    BY DEF HeldCall
  <1>6. CASE ~Pay(p, c)
    <2>1. Goto(t, "held_failed") /\ UNCHANGED <<payouts, lost>>
      BY <1>4, <1>6 DEF Call
    <2>2. Moves(t) /\ crashes' \in Nat
      BY <1>1, <1>2, <1>3, <1>5, <2>1, GotoStep DEF Moves, ThreadInv, TypeOK, row
    <2>3. QED
      BY <1>5, <2>1, <2>2, JobOnly
  <1>7. CASE Pay(p, c)
    <2>1. lost' \in Nat /\ retries' \in [Prize -> 0 .. MaxRetries]
      BY <1>3, <1>4, <1>5 DEF Call, TypeOK, row
    <2>2. Paid(p)' /\ payouts'[p][c] > 0
      BY <1>3, <1>7, PayStep
    <2>3. CASE Goto(t, "held_done")
      BY <1>1, <1>2, <1>3, <1>4, <1>5, <1>7, <2>1, <2>2, <2>3, GotoStep, PayChange
         DEF Moves, ThreadInv, MayWrite, row, CashApproved
    <2>4. CASE Goto(t, "held_failed")
      BY <1>1, <1>2, <1>3, <1>5, <1>7, <2>1, <2>4, GotoStep, PayChange
         DEF Moves, ThreadInv, MayWrite, row
    <2>5. QED
      BY <1>4, <2>3, <2>4 DEF Call
  <1>8. QED
    BY <1>6, <1>7

LEMMA StepFulfilClaimedAt ==
  ASSUME IInv, NEW t \in Thread, FulfilClaimedAt(t)
  PROVE  IInv'
  <1>1. job[t].at = "fulfil_claimed_at"
    BY DEF FulfilClaimedAt, At
  <1>2. PICK p \in Prize : p = job[t].prize /\ kind[p] # "none" /\ RowInv(p)
    BY <1>1, AtWork
  <1>3. TypeOK /\ ThreadInv(t)
    BY DEF IInv
  <1>4. Moves(t)
    BY <1>3, FinishStep DEF FulfilClaimedAt, Moves
  <1>5. UNCHANGED <<kind, mode, fulfil, retries, age, viaMomo, linked, payouts, lost, crashes>>
    BY DEF FulfilClaimedAt
  <1>6. CASE claim[p] = "PENDING"
    <2>1. claim' = [claim EXCEPT ![p] = "CLAIMED"] /\ viaMomo' \in [Prize -> BOOLEAN]
      BY <1>2, <1>3, <1>5, <1>6 DEF FulfilClaimedAt, ClaimCas, TypeOK
    <2>2. MayClaim(p, "CLAIMED")
      BY <1>2, <1>6 DEF MayClaim
    <2>3. QED
      BY <1>4, <1>5, <2>1, <2>2, ClaimChange
  <1>7. CASE claim[p] # "PENDING"
    <2>1. UNCHANGED <<row, linked, payouts, lost>> /\ crashes' \in Nat
      BY <1>2, <1>3, <1>5, <1>7 DEF FulfilClaimedAt, ClaimCas, row, TypeOK
    <2>2. QED
      BY <1>4, <2>1, JobOnly
  <1>8. QED
    BY <1>6, <1>7

LEMMA StepClaimExpire ==
  ASSUME IInv, NEW t \in Thread, ClaimExpire(t)
  PROVE  IInv'
  <1>1. job[t].at = "claim_expire"
    BY DEF ClaimExpire, At
  <1>2. PICK p \in Prize : p = job[t].prize /\ kind[p] # "none" /\ RowInv(p)
    BY <1>1, AtWork
  <1>3. TypeOK /\ ThreadInv(t)
    BY DEF IInv
  <1>4. Moves(t)
    BY <1>3, FinishStep DEF ClaimExpire, Moves
  <1>5. UNCHANGED <<kind, mode, fulfil, retries, age, viaMomo, linked, payouts, lost, crashes>>
    BY DEF ClaimExpire
  <1>6. CASE claim[p] = "PENDING"
    <2>1. claim' = [claim EXCEPT ![p] = "EXPIRED"] /\ viaMomo' \in [Prize -> BOOLEAN]
      BY <1>2, <1>3, <1>5, <1>6 DEF ClaimExpire, ClaimCas, TypeOK
    <2>2. MayClaim(p, "EXPIRED")
      BY <1>2, <1>6 DEF MayClaim
    <2>3. QED
      BY <1>4, <1>5, <2>1, <2>2, ClaimChange
  <1>7. CASE claim[p] # "PENDING"
    <2>1. UNCHANGED <<row, linked, payouts, lost>> /\ crashes' \in Nat
      BY <1>2, <1>3, <1>5, <1>7 DEF ClaimExpire, ClaimCas, row, TypeOK
    <2>2. QED
      BY <1>4, <2>1, JobOnly
  <1>8. QED
    BY <1>6, <1>7

LEMMA StepApproveWrite ==
  ASSUME IInv, NEW t \in Thread, ApproveWrite(t)
  PROVE  IInv'
  <1>1. job[t].at = "approve_write"
    BY DEF ApproveWrite, At
  <1>2. PICK p \in Prize : p = job[t].prize /\ kind[p] # "none" /\ RowInv(p)
    BY <1>1, AtWork
  <1>3. TypeOK /\ ThreadInv(t)
    BY DEF IInv
  <1>4. UNCHANGED <<kind, mode, fulfil, retries, age, viaMomo, linked, payouts, lost, crashes>>
        /\ claim' = [claim EXCEPT ![p] = "APPROVED"]
    BY <1>2 DEF ApproveWrite, Review
  <1>5. MayClaim(p, "APPROVED")
    BY <1>1, <1>2, <1>3 DEF MayClaim, ThreadInv
  <1>6. Moves(t)
    BY <1>3, FinishStep DEF ApproveWrite, Moves
  <1>7. viaMomo' \in [Prize -> BOOLEAN]
    BY <1>3, <1>4 DEF TypeOK
  <1>8. QED
    BY <1>4, <1>5, <1>6, <1>7, ClaimChange

LEMMA StepRejectWrite ==
  ASSUME IInv, NEW t \in Thread, RejectWrite(t)
  PROVE  IInv'
  <1>1. job[t].at = "reject_write"
    BY DEF RejectWrite, At
  <1>2. PICK p \in Prize : p = job[t].prize /\ kind[p] # "none" /\ RowInv(p)
    BY <1>1, AtWork
  <1>3. TypeOK /\ ThreadInv(t)
    BY DEF IInv
  <1>4. UNCHANGED <<kind, mode, fulfil, retries, age, viaMomo, linked, payouts, lost, crashes>>
        /\ claim' = [claim EXCEPT ![p] = "REJECTED"]
    BY <1>2 DEF RejectWrite, Review
  <1>5. MayClaim(p, "REJECTED")
    BY <1>1, <1>2, <1>3 DEF MayClaim, ThreadInv
  <1>6. Moves(t)
    <2>1. claim'[p] = "REJECTED"
      BY <1>3, <1>4 DEF TypeOK
    <2>2. Goto(t, "reject_fail")
      BY DEF RejectWrite
    <2>3. QED
      BY <1>1, <1>2, <1>3, <1>4, <2>1, <2>2, GotoStep DEF Moves, ThreadInv
  <1>7. viaMomo' \in [Prize -> BOOLEAN]
    BY <1>3, <1>4 DEF TypeOK
  <1>8. QED
    BY <1>4, <1>5, <1>6, <1>7, ClaimChange

LEMMA StepClaimWrite ==
  ASSUME IInv, NEW t \in Thread, ClaimWrite(t)
  PROVE  IInv'
  <1>1. job[t].at = "claim_write"
    BY DEF ClaimWrite, At
  <1>2. PICK p \in Prize : p = job[t].prize /\ kind[p] # "none" /\ RowInv(p)
    BY <1>1, AtWork
  <1>3. TypeOK /\ ThreadInv(t)
    BY DEF IInv
  <1>4. UNCHANGED <<kind, mode, fulfil, retries, age, linked, payouts, lost, crashes>>
    BY DEF ClaimWrite
  <1>5. CASE claim[p] # "PENDING"
    <2>1. Finish(t) /\ UNCHANGED <<row, linked, payouts, lost>> /\ crashes' \in Nat
      BY <1>2, <1>3, <1>4, <1>5 DEF ClaimWrite, row, TypeOK
    <2>2. QED
      BY <1>3, <2>1, FinishStep, JobOnly DEF Moves
  <1>6. CASE claim[p] = "PENDING" /\ kind[p] = "digital"
    <2>1. /\ claim' = [claim EXCEPT ![p] = "CLAIMED"] /\ viaMomo' = viaMomo
          /\ Goto(t, "claim_dispatch") \/ Finish(t)
      BY <1>2, <1>6 DEF ClaimWrite, ClaimCas
    <2>2. claim'[p] = "CLAIMED" /\ viaMomo' \in [Prize -> BOOLEAN]
      BY <1>3, <2>1 DEF TypeOK
    <2>3. Moves(t)
      BY <1>1, <1>2, <1>3, <1>4, <1>6, <2>1, <2>2, GotoStep, FinishStep DEF Moves, ThreadInv
    <2>4. QED
      BY <1>2, <1>4, <1>6, <2>1, <2>2, <2>3, ClaimChange DEF MayClaim
  <1>7. CASE claim[p] = "PENDING" /\ kind[p] \in {"momo_cash", "physical"}
    <2>1. /\ claim' = [claim EXCEPT ![p] = "PENDING_ADMIN_REVIEW"]
          /\ viaMomo' \in [Prize -> BOOLEAN]
      BY <1>2, <1>3, <1>7 DEF ClaimWrite, ClaimCas, TypeOK
    <2>2. (kind[p] = "physical" /\ Goto(t, "claim_deliver")) \/ Finish(t)
      BY <1>2, <1>7 DEF ClaimWrite
    <2>3. Moves(t)
      BY <1>1, <1>2, <1>3, <1>4, <2>2, GotoStep, FinishStep DEF Moves, ThreadInv
    <2>4. QED
      BY <1>2, <1>4, <1>7, <2>1, <2>3, ClaimChange DEF MayClaim
  <1>8. kind[p] \in {"digital", "momo_cash", "physical"} \/ claim[p] # "PENDING"
    BY <1>2 DEF ClaimWrite
  <1>9. QED
    BY <1>5, <1>6, <1>7, <1>8

LEMMA StepApproveBank ==
  ASSUME IInv, NEW t \in Thread, ApproveBank(t)
  PROVE  IInv'
  <1>1. job[t].at = "approve_bank"
    BY DEF ApproveBank, At
  <1>2. PICK p \in Prize : p = job[t].prize /\ kind[p] # "none" /\ RowInv(p)
    BY <1>1, AtWork
  <1>3. TypeOK /\ ThreadInv(t)
    BY DEF IInv
  <1>4. Pay(p, "BANK") /\ SetFulfil(p, "completed") /\ Goto(t, "approve_write")
        /\ UNCHANGED <<kind, mode, claim, age, viaMomo, linked, lost, crashes>>
    BY <1>2 DEF ApproveBank
  <1>5. MayWrite(p, "na")
    BY <1>1, <1>2, <1>3 DEF MayWrite, ThreadInv
  <1>6. lost' \in Nat /\ fulfil' = [fulfil EXCEPT ![p] = "completed"]
        /\ retries' \in [Prize -> 0 .. MaxRetries]
    BY <1>3, <1>4, SetFulfilStep DEF TypeOK, SetFulfil
  <1>7. CashApproved(p)'
    BY <1>3, <1>4, PayStep DEF CashApproved
  <1>8. Moves(t)
    BY <1>1, <1>2, <1>3, <1>4, <1>7, GotoStep DEF Moves, ThreadInv
  <1>9. QED
    BY <1>4, <1>5, <1>6, <1>8, PayChange

LEMMA StepHeldCheck ==
  ASSUME IInv, NEW t \in Thread, HeldCheck(t)
  PROVE  IInv'
  <1>1. job[t].at = "held"
    BY DEF HeldCheck, At
  <1>2. PICK p \in Prize : p = job[t].prize /\ kind[p] # "none" /\ RowInv(p)
    BY <1>1, AtWork
  <1>3. TypeOK /\ ThreadInv(t)
    BY DEF IInv
  <1>4. UNCHANGED <<kind, mode, claim, age, viaMomo, linked, payouts, lost, crashes>>
    BY DEF HeldCheck
  <1>5. CASE Finish(t) /\ UNCHANGED <<fulfil, retries>>
    <2>1. UNCHANGED <<row, linked, payouts, lost>> /\ crashes' \in Nat
      BY <1>3, <1>4, <1>5 DEF row, TypeOK
    <2>2. QED
      BY <1>3, <1>5, <2>1, FinishStep, JobOnly DEF Moves
  <1>6. CASE \E s \in {"pending_momo_setup", "processing"} : SetFulfil(p, s)
    <2>1. PICK s \in {"pending_momo_setup", "processing"} : SetFulfil(p, s)
      BY <1>6
    <2>2. fulfil' = [fulfil EXCEPT ![p] = s] /\ retries' \in [Prize -> 0 .. MaxRetries]
      BY <1>3, <2>1, SetFulfilStep DEF SetFulfil
    <2>3. MayWrite(p, s)
      BY <1>1, <1>2, <1>3 DEF MayWrite, ThreadInv
    <2>4. Finish(t) \/ (linked /\ Goto(t, "held_call"))
      BY DEF HeldCheck
    <2>5. Moves(t)
      BY <1>1, <1>2, <1>3, <1>4, <2>4, FinishStep, GotoStep DEF Moves, ThreadInv
    <2>6. QED
      BY <1>4, <2>2, <2>3, <2>5, FulfilWrite
  <1>7. QED
    BY <1>2, <1>5, <1>6 DEF HeldCheck

LEMMA StepStart ==
  ASSUME IInv, NEW t \in Thread, NEW p \in Prize,
         \/ ClaimRead(t, p) \/ ApproveRead(t, p) \/ RejectRead(t, p)
         \/ FulfillmentRetry(t, p) \/ HeldList(t, p)
  PROVE  IInv'
  <1>1. TypeOK /\ RowInv(p) /\ fulfil[p] \in FulfilStatus /\ claim[p] \in ClaimStatus
    BY DEF IInv, TypeOK
  <1>2. UNCHANGED <<row, linked, payouts, lost>> /\ crashes' \in Nat
    BY <1>1 DEF TypeOK, ClaimRead, ApproveRead, RejectRead, FulfillmentRetry, HeldList
  <1>3. CASE ClaimRead(t, p)
    <2>1. PICK label \in {"claim_write", "claim_expire"} : Begin(t, p, label, fulfil[p])
      BY <1>3 DEF ClaimRead
    <2>2. Moves(t)
      BY <1>1, <1>2, <1>3, <2>1, BeginStep DEF Moves, ThreadInv, ClaimRead, row
    <2>3. QED
      BY <1>2, <2>2, JobOnly
  <1>4. CASE ApproveRead(t, p)
    <2>1. PICK label \in {"approve_write", "approve_call", "approve_bank"} :
             Begin(t, p, label, "na") /\ (kind[p] = "momo_cash" <=> label # "approve_write")
      BY <1>4 DEF ApproveRead
    <2>2. Moves(t)
      BY <1>1, <1>2, <1>4, <2>1, BeginStep DEF Moves, ThreadInv, RowInv, ApproveRead, row
    <2>3. QED
      BY <1>2, <2>2, JobOnly
  <1>5. CASE RejectRead(t, p)
    <2>1. Begin(t, p, "reject_write", "na") /\ claim[p] = "PENDING_ADMIN_REVIEW"
      BY <1>5 DEF RejectRead
    <2>2. Moves(t)
      BY <1>1, <1>2, <2>1, BeginStep DEF Moves, ThreadInv, RowInv, row
    <2>3. QED
      BY <1>2, <2>2, JobOnly
  <1>6. CASE FulfillmentRetry(t, p)
    <2>1. Begin(t, p, "fulfil", "na") /\ fulfil[p] \in {"pending", "processing", "failed"}
      BY <1>6 DEF FulfillmentRetry
    <2>2. /\ kind[p] \in {"digital", "momo_cash", "physical"}
          /\ kind[p] = "digital" /\ mode[p] = "MANUAL" => claim[p] = "CLAIMED"
      BY <1>1, <2>1 DEF RowInv, TypeOK, AllKinds
    <2>3. Moves(t)
      BY <1>1, <1>2, <2>1, <2>2, BeginStep DEF Moves, ThreadInv, row
    <2>4. QED
      BY <1>2, <2>3, JobOnly
  <1>7. CASE HeldList(t, p)
    <2>1. PICK label \in {"held", "held_expire"} : Begin(t, p, label, "na")
      BY <1>7 DEF HeldList
    <2>2. Moves(t)
      BY <1>1, <1>2, <1>7, <2>1, BeginStep DEF Moves, ThreadInv, HeldList, row
    <2>3. QED
      BY <1>2, <2>2, JobOnly
  <1>8. QED
    BY <1>3, <1>4, <1>5, <1>6, <1>7

LEMMA StepPlaySpin ==
  ASSUME IInv, NEW t \in Thread, NEW p \in Prize, NEW k \in Kinds, NEW m \in Modes,
         PlaySpin(t, p, k, m)
  PROVE  IInv'
  <1>1. TypeOK /\ RowInv(p) /\ kind[p] = "none" /\ ~Paid(p)
    BY DEF IInv, PlaySpin, RowInv
  <1>2. UNCHANGED <<retries, age, viaMomo, linked, payouts, lost, crashes>>
    BY DEF PlaySpin
  <1>3. k \in AllKinds /\ m \in AllModes
    BY KindsAssumption
  <1>4. InitialFulfil(k) \in FulfilStatus /\ InitialClaim(k) \in ClaimStatus
    BY DEF InitialFulfil, InitialClaim
  <1>5. /\ kind' = [kind EXCEPT ![p] = k] /\ mode' = [mode EXCEPT ![p] = m]
        /\ fulfil' = [fulfil EXCEPT ![p] = InitialFulfil(k)]
        /\ claim' = [claim EXCEPT ![p] = InitialClaim(k)]
    BY DEF PlaySpin
  <1>6. /\ kind'[p] = k /\ mode'[p] = m
        /\ fulfil'[p] = InitialFulfil(k) /\ claim'[p] = InitialClaim(k)
        /\ \A q \in Prize \ {p} : SameRow(q)
    BY <1>1, <1>2, <1>5 DEF TypeOK, SameRow
  <1>7. Keeps
    BY <1>1, <1>2, <1>6 DEF Keeps, SameRow, RowInv
  <1>8. CASE Begin(t, p, "auto_flip", "na") /\ m = "AUTO" /\ k = "digital"
    <2>0. /\ Others(t) /\ job' \in [Thread -> Job]
          /\ job'[t].at = "auto_flip" /\ job'[t].prize = p /\ job'[t].attempt = 0
      BY <1>1, <1>8, BeginStep
    <2>1. ThreadInv(t)' /\ Others(t) /\ job' \in [Thread -> Job]
      BY <1>6, <1>8, <2>0 DEF ThreadInv
    <2>2. TypeOK'
      BY <1>1, <1>2, <1>3, <1>4, <1>5, <2>1 DEF TypeOK
    <2>3. RowInv(p)'
      BY <1>1, <1>2, <1>6, <1>8 DEF RowInv, InitialFulfil, InitialClaim, Paid
    <2>4. QED
      BY <1>6, <1>7, <2>1, <2>2, <2>3, StepInv DEF Others
  <1>9. CASE job' = job
    <2>1. Others(t) /\ job' \in [Thread -> Job]
      BY <1>1, <1>9 DEF Others, TypeOK
    <2>2. TypeOK'
      BY <1>1, <1>2, <1>3, <1>4, <1>5, <2>1 DEF TypeOK
    <2>3. RowInv(p)'
      BY <1>1, <1>2, <1>3, <1>6 DEF RowInv, InitialFulfil, InitialClaim, Paid, AllKinds
    <2>4. ThreadInv(t)'
      BY <1>1, <1>7, <1>9, OthersKeep DEF IInv
    <2>5. QED
      BY <1>6, <1>7, <2>1, <2>2, <2>3, <2>4, StepInv DEF Others
  <1>10. QED
    BY <1>8, <1>9 DEF PlaySpin

\* VerifyMoMo, the clock, and stuttering.
LEMMA StepEnvironment ==
  ASSUME IInv, VerifyMoMo \/ (\E p \in Prize : Tick(p)) \/ UNCHANGED vars
  PROVE  IInv'
  <1>1. /\ TypeOK' /\ Keeps /\ job' = job
        /\ \A q \in Prize : SameRow(q)
    BY DEF IInv, TypeOK, Ages, Keeps, SameRow, VerifyMoMo, Tick, row, vars
  <1>2. \A u \in Thread : ThreadInv(u)'
    BY <1>1, OthersKeep DEF IInv
  <1>3. \A q \in Prize : RowInv(q)'
    BY <1>1 DEF IInv, SameRow, RowInv, Paid, CashApproved
  <1>4. QED
    BY <1>1, <1>2, <1>3 DEF IInv

LEMMA StepCrash ==
  ASSUME IInv, NEW t \in Thread, Crash(t)
  PROVE  IInv'
  <1>1. TypeOK
    BY DEF IInv
  <1>2. Moves(t) /\ crashes' \in Nat /\ UNCHANGED <<row, linked, payouts, lost>>
    BY <1>1, FinishStep DEF Crash, Moves, TypeOK
  <1>3. QED
    BY <1>2, JobOnly

-----------------------------------------------------------------------------
(* The theorems.                                                           *)

LEMMA NextInv == IInv /\ [Next]_vars => IInv'
  <1>. SUFFICES ASSUME IInv, [Next]_vars PROVE IInv'
    OBVIOUS
  <1>1. CASE \E t \in Thread : Progress(t)
    <2>1. PICK t \in Thread : Progress(t)
      BY <1>1
    <2>2. CASE Fulfil(t)
      BY <2>2, StepFulfilStart, StepFulfilCall, StepFulfilDone, StepFulfilClaimedAt,
         StepFulfilFailed DEF Fulfil
    <2>3. CASE AutoProvision(t)
      BY <2>3, StepAutoFlip, StepAutoAcquire, StepAutoFallback DEF AutoProvision
    <2>4. CASE Claim(t)
      BY <2>4, StepClaimExpire, StepClaimWrite, StepClaimDispatch, StepClaimDeliver DEF Claim
    <2>5. CASE Admin(t)
      BY <2>5, StepApproveCall, StepApproveDone, StepApproveBank, StepApproveWrite,
         StepRejectWrite, StepRejectFail DEF Admin
    <2>6. CASE Held(t)
      BY <2>6, StepHeldCheck, StepHeldCall, StepHeldDone, StepHeldFailed, StepHeldExpire DEF Held
    <2>7. QED
      BY <2>1, <2>2, <2>3, <2>4, <2>5, <2>6 DEF Progress
  <1>2. CASE \E t \in Thread, p \in Prize : Start(t, p)
    BY <1>2, StepStart, StepPlaySpin DEF Start
  <1>3. CASE \E t \in Thread : Crash(t)
    BY <1>3, StepCrash
  <1>4. CASE VerifyMoMo \/ (\E p \in Prize : Tick(p)) \/ UNCHANGED vars
    BY <1>4, StepEnvironment
  <1>5. QED
    BY <1>1, <1>2, <1>3, <1>4 DEF Next

\* The strengthened invariant holds in every reachable state.
THEOREM Inductive == Spec => []IInv
  BY InitInv, NextInv, PTL DEF Spec

\* Every variable keeps its type: no handler writes a status outside the enums.
THEOREM TypeCorrect == Spec => []TypeOK
  <1>1. IInv => TypeOK
    BY DEF IInv
  <1>2. QED
    BY <1>1, Inductive, PTL

\* Whatever handlers, retries and crashes interleave, a MANUAL airtime or data
\* prize is bought only after the winner's claim won the compare-and-swap.
THEOREM DeliveredClaimed == Spec => []DeliveredOnlyIfClaimed
  <1>1. IInv => DeliveredOnlyIfClaimed
    BY DEF IInv, RowInv, DeliveredOnlyIfClaimed
  <1>2. QED
    BY <1>1, Inductive, PTL

\* A prize recorded as completed was paid, or was credited in points.
THEOREM CompletedPaid == Spec => []CompletedIsPaid
  <1>1. IInv => CompletedIsPaid
    BY DEF IInv, RowInv, CompletedIsPaid
  <1>2. QED
    BY <1>1, Inductive, PTL

\* A cash claim recorded as APPROVED was paid by the admin's transfer or bank.
THEOREM ApprovedPaid == Spec => []ApprovedCashIsPaid
  <1>1. IInv => ApprovedCashIsPaid
    BY DEF IInv, RowInv, ApprovedCashIsPaid
  <1>2. QED
    BY <1>1, Inductive, PTL

-----------------------------------------------------------------------------
(* The retry cap.                                                          *)

LEMMA AttemptsFinite ==
  ASSUME NEW p
  PROVE  /\ Cardinality(Thread) \in Nat /\ Cardinality(Attempts(p)) \in Nat
         /\ Cardinality(Attempts(p)) <= Cardinality(Thread) /\ IsFiniteSet(Attempts(p))
  <1>1. Attempts(p) \subseteq Thread
    BY DEF Attempts
  <1>2. QED
    BY <1>1, ThreadAssumption, FS_Subset, FS_CardinalityType

\* What a step of thread t does to a MANUAL digital prize p: it makes no attempt and counts none,
\* goes on with an attempt or ends it, takes the claim, dispatches, or is a retry.
Rests(t, p) ==
    /\ fulfil'[p] = fulfil[p] /\ retries'[p] = retries[p]
    /\ \/ job'[t].at \in {"idle", "claim_write", "claim_expire"}
       \/ job'[t].at \in FulfilLabels /\ job[t].at \in FulfilLabels

Attempting(t, p) ==
    /\ job[t].at \in FulfilLabels /\ fulfil'[p] # "pending_claim"
    /\ \/ retries'[p] = retries[p] /\ job'[t].at \in FulfilLabels \cup {"idle"}
       \/ retries'[p] <= retries[p] + 1 /\ job'[t].at = "idle"

Takes(t, p) ==
    /\ claim[p] = "PENDING" /\ fulfil'[p] = fulfil[p] /\ retries'[p] = retries[p]
    /\ job'[t].at \in {"claim_dispatch", "idle"}

Dispatches(t, p) ==
    /\ job[t].at = "claim_dispatch" /\ job'[t].at = "fulfil"
    /\ fulfil'[p] = "pending" /\ retries'[p] = retries[p]

Retries(t, p) ==
    /\ job[t].at = "idle" /\ job'[t].at = "fulfil" /\ retries[p] < RetryCap
    /\ fulfil[p] # "pending_claim" /\ fulfil'[p] = fulfil[p] /\ retries'[p] = retries[p]

OnRow(t, p) ==
    /\ Others(t)
    /\ job[t].at # "idle" => job[t].prize = p
    /\ job'[t].at # "idle" => job'[t].prize = p
    /\ \A q \in Prize \ {p} : SameRow(q) /\ retries'[q] = retries[q]

\* The other rows see nothing of the step.
LEMMA OtherRows ==
  ASSUME IInv, NEW t \in Thread, NEW p \in Prize, OnRow(t, p),
         NEW q \in Prize \ {p}, RetryInv(q)
  PROVE  RetryInv(q)'
  <1>1. /\ SameRow(q) /\ retries'[q] = retries[q]
        /\ \A u \in Thread : u # t => job'[u] = job[u]
        /\ job[t].at # "idle" => job[t].prize # q
        /\ job'[t].at # "idle" => job'[t].prize # q
    BY DEF OnRow, Others
  <1>2. Attempts(q)' = Attempts(q) /\ Dispatching(q)' = Dispatching(q)
    BY <1>1 DEF Attempts, Dispatching
  <1>3. Untried(q) => Untried(q)'
    BY <1>1 DEF Untried
  <1>4. QED
    BY <1>1, <1>2, <1>3 DEF RetryInv, SameRow

LEMMA Bounded ==
  ASSUME IInv, IInv', NEW t \in Thread, NEW p \in Prize, OnRow(t, p), RetryInv(p),
         kind[p] = "digital", mode[p] = "MANUAL",
         \/ Rests(t, p) \/ Attempting(t, p) \/ Takes(t, p) \/ Dispatches(t, p) \/ Retries(t, p)
  PROVE  retries'[p] + Cardinality(Attempts(p)') < RetryCap + Cardinality(Thread)
  <1>1. /\ retries[p] \in Nat /\ retries'[p] \in Nat /\ RetryCap = 3
        /\ \A u \in Thread : u # t => job'[u] = job[u]
        /\ retries[p] + Cardinality(Attempts(p)) < RetryCap + Cardinality(Thread)
        /\ fulfil[p] = "pending_claim" => retries[p] = 0
        /\ t \in Dispatching(p) => fulfil[p] = "pending_claim"
    BY BoundsAssumption DEF IInv, TypeOK, RetryInv, OnRow, Others, RetryCap, Untried
  <1>2. /\ Cardinality(Thread) \in Nat /\ Cardinality(Attempts(p)) \in Nat
        /\ IsFiniteSet(Attempts(p))
        /\ Cardinality(Attempts(p)') \in Nat /\ Cardinality(Attempts(p)') <= Cardinality(Thread)
    <2>1. Attempts(p)' \subseteq Thread
      BY DEF Attempts
    <2>2. QED
      BY <2>1, AttemptsFinite, ThreadAssumption, FS_Subset, FS_CardinalityType
  <1>3. CASE retries'[p] < RetryCap
    BY <1>1, <1>2, <1>3
  <1>4. CASE ~(retries'[p] < RetryCap)
    <2>1. Rests(t, p) \/ Attempting(t, p) \/ Takes(t, p)
      <3>1. job[t].at = "claim_dispatch" => retries[p] = 0
        BY <1>1 DEF Dispatching, OnRow
      <3>2. QED
        BY <1>1, <1>4, <3>1 DEF Dispatches, Retries
    <2>2. job'[t].at \in FulfilLabels => job[t].at \in FulfilLabels
      BY <2>1 DEF Rests, Attempting, Takes
    <2>3. CASE retries'[p] = retries[p]
      <3>1. Attempts(p)' \subseteq Attempts(p)
        BY <1>1, <2>2 DEF Attempts, OnRow
      <3>2. Cardinality(Attempts(p)') <= Cardinality(Attempts(p))
        BY <1>2, <3>1, FS_Subset
      <3>3. QED
        BY <1>1, <1>2, <2>3, <3>2
    <2>4. CASE retries'[p] # retries[p]
      <3>1. /\ job[t].at \in FulfilLabels /\ job'[t].at = "idle" /\ retries'[p] <= retries[p] + 1
        BY <2>1, <2>4 DEF Rests, Attempting, Takes
      <3>2. Attempts(p)' = Attempts(p) \ {t} /\ t \in Attempts(p)
        BY <1>1, <3>1 DEF Attempts, OnRow
      <3>3. Cardinality(Attempts(p)') = Cardinality(Attempts(p)) - 1
        BY <1>2, <3>2, FS_RemoveElement
      <3>4. QED
        BY <1>1, <1>2, <3>1, <3>3
    <2>5. QED
      BY <2>3, <2>4
  <1>5. QED
    BY <1>3, <1>4

LEMMA RetryStep ==
  ASSUME IInv, IInv', NEW t \in Thread, NEW p \in Prize, OnRow(t, p),
         \A q \in Prize : RetryInv(q),
         kind[p] # "none", kind'[p] = kind[p], mode'[p] = mode[p],
         kind[p] = "digital" /\ mode[p] = "MANUAL" =>
            \/ Rests(t, p) \/ Attempting(t, p) \/ Takes(t, p) \/ Dispatches(t, p) \/ Retries(t, p)
  PROVE  \A q \in Prize : RetryInv(q)'
  <1>1. CASE kind[p] = "digital" /\ mode[p] = "MANUAL"
    <2>1. /\ RetryInv(p) /\ RowInv(p) /\ \A u \in Thread : ThreadInv(u)
          /\ \A u \in Thread : u # t => job'[u] = job[u]
      BY DEF IInv, OnRow, Others
    <2>2. fulfil'[p] = "pending_claim" => fulfil[p] = "pending_claim" /\ Untried(p)
      BY <1>1, <2>1 DEF RetryInv, Rests, Attempting, Takes, Dispatches, Retries
    <2>3. fulfil'[p] = "pending_claim" => Untried(p)'
      <3>1. SUFFICES ASSUME fulfil'[p] = "pending_claim" PROVE Untried(p)'
        OBVIOUS
      <3>2. Untried(p) /\ fulfil[p] = "pending_claim"
        BY <2>2, <3>1
      <3>3. job[t].at \notin FulfilLabels
        BY <3>2 DEF Untried, OnRow
      <3>4. retries'[p] = retries[p] /\ job'[t].at \in {"idle"} \cup ClaimLabels
        BY <1>1, <3>1, <3>2, <3>3 DEF Rests, Attempting, Takes, Dispatches, Retries
      <3>5. QED
        BY <2>1, <3>2, <3>4 DEF Untried
    <2>4. ASSUME NEW u \in Dispatching(p)'
          PROVE  fulfil'[p] = "pending_claim" /\ Dispatching(p)' = {u}
      <3>1. u \in Thread /\ job'[u].prize = p /\ job'[u].at = "claim_dispatch"
        BY DEF Dispatching
      <3>2. CASE u = t
        <4>1. claim[p] = "PENDING" /\ fulfil'[p] = fulfil[p]
          BY <1>1, <3>1, <3>2 DEF Rests, Attempting, Takes, Dispatches, Retries
        <4>2. \A v \in Thread : ~(job[v].prize = p /\ job[v].at = "claim_dispatch")
          BY <2>1, <4>1 DEF ThreadInv
        <4>3. fulfil[p] = "pending_claim"
          BY <1>1, <2>1, <4>1 DEF RowInv
        <4>4. QED
          BY <2>1, <3>1, <3>2, <4>1, <4>2, <4>3 DEF Dispatching
      <3>3. CASE u # t
        <4>1. u \in Dispatching(p)
          BY <2>1, <3>1, <3>3 DEF Dispatching
        <4>2. fulfil[p] = "pending_claim" /\ Dispatching(p) = {u} /\ claim[p] = "CLAIMED"
          BY <1>1, <2>1, <3>1, <3>3, <4>1 DEF RetryInv, ThreadInv
        <4>3. job[t].at \notin FulfilLabels /\ job[t].at # "claim_dispatch"
          <5>1. t \notin Dispatching(p)
            BY <3>3, <4>2
          <5>2. Untried(p)
            BY <1>1, <2>1, <4>2 DEF RetryInv
          <5>3. QED
            BY <5>1, <5>2 DEF Untried, Dispatching, OnRow
        <4>4. fulfil'[p] = fulfil[p] /\ job'[t].at # "claim_dispatch"
          BY <1>1, <4>2, <4>3 DEF Rests, Attempting, Takes, Dispatches, Retries
        <4>5. Dispatching(p)' = {u}
          BY <2>1, <3>1, <3>3, <4>2, <4>4 DEF Dispatching
        <4>6. QED
          BY <4>2, <4>4, <4>5
      <3>4. QED
        BY <3>2, <3>3
    <2>5. retries'[p] + Cardinality(Attempts(p)') < RetryCap + Cardinality(Thread)
      BY <1>1, <2>1, Bounded
    <2>6. RetryInv(p)'
      BY <1>1, <2>3, <2>4, <2>5 DEF RetryInv
    <2>7. QED
      BY <2>6, OtherRows
  <1>2. CASE ~(kind[p] = "digital" /\ mode[p] = "MANUAL")
    <2>1. RetryInv(p)'
      BY <1>2 DEF RetryInv
    <2>2. QED
      BY <2>1, OtherRows
  <1>3. QED
    BY <1>1, <1>2

\* However a thread goes on, it stays with its row.
LEMMA GoesOn ==
  ASSUME TypeOK, NEW t \in Thread,
         \/ \E label \in Labels : Goto(t, label)
         \/ Finish(t) \/ AfterError(t)
         \/ job' = [job EXCEPT ![t].at = "fulfil", ![t].attempt = 1]
  PROVE  Others(t) /\ (job'[t].at # "idle" => job'[t].prize = job[t].prize)
  <1>1. CASE Finish(t)
    BY <1>1 DEF TypeOK, Finish, Idle, Others
  <1>2. CASE \E label \in Labels : Goto(t, label)
    BY <1>2, GotoStep
  <1>3. CASE \E n : job' = [job EXCEPT ![t].at = "fulfil", ![t].attempt = n]
    BY <1>3 DEF TypeOK, Job, Others
  <1>4. CASE AfterError(t)
    <2>1. \/ Finish(t) \/ Goto(t, "auto_fallback")
          \/ job' = [job EXCEPT ![t].at = "fulfil", ![t].attempt = @ + 1]
      BY <1>4 DEF AfterError
    <2>2. QED
      BY <1>1, <1>2, <1>3, <2>1
  <1>5. QED
    BY <1>1, <1>2, <1>3, <1>4

LEMMA CountStep ==
  ASSUME TypeOK, NEW p \in Prize, NEW s \in FulfilStatus, SetFulfil(p, s)
  PROVE  /\ fulfil'[p] = s /\ retries'[p] <= retries[p] + 1
         /\ s # "failed" => retries' = retries
         /\ \A q \in Prize \ {p} : fulfil'[q] = fulfil[q] /\ retries'[q] = retries[q]
  BY BoundsAssumption DEF TypeOK, SetFulfil

\* The writes of a step are to one row.
LEMMA OneRow ==
  ASSUME TypeOK, NEW p \in Prize, UNCHANGED <<kind, mode>>,
         \/ \E s \in FulfilStatus : SetFulfil(p, s)
         \/ \E s \in FulfilStatus : fulfil' = [fulfil EXCEPT ![p] = s] /\ retries' = retries
         \/ UNCHANGED <<fulfil, retries>>,
         claim' = claim \/ \E s \in ClaimStatus : claim' = [claim EXCEPT ![p] = s],
         payouts' = payouts \/ \E c \in Channel : Pay(p, c)
  PROVE  \A q \in Prize \ {p} : SameRow(q) /\ retries'[q] = retries[q]
  <1>1. \A q \in Prize \ {p} : fulfil'[q] = fulfil[q] /\ retries'[q] = retries[q]
    BY CountStep DEF TypeOK
  <1>2. \A q \in Prize \ {p} : claim'[q] = claim[q]
    BY DEF TypeOK
  <1>3. \A q \in Prize \ {p} : payouts'[q] = payouts[q]
    BY PayStep
  <1>4. QED
    BY <1>1, <1>2, <1>3 DEF SameRow

LEMMA FulfilRetries ==
  ASSUME IInv, IInv', \A q \in Prize : RetryInv(q), NEW t \in Thread, Fulfil(t)
  PROVE  \A q \in Prize : RetryInv(q)'
  <1>1. TypeOK /\ ThreadInv(t) /\ job[t].at \in FulfilLabels
    BY DEF IInv, Fulfil, FulfilStart, FulfilCall, FulfilDone, FulfilClaimedAt, FulfilFailed, At
  <1>2. PICK p \in Prize : p = job[t].prize /\ kind[p] # "none"
    BY <1>1 DEF ThreadInv
  <1>3. CASE \E s \in {"processing", "pending_momo_setup", "pending_delivery", "completed"} :
               SetFulfil(p, s) /\ (Finish(t) \/ \E l \in FulfilLabels : Goto(t, l))
             /\ UNCHANGED <<kind, mode, claim, age, viaMomo, linked, payouts, lost, crashes>>
    <2>1. OnRow(t, p)
      BY <1>1, <1>2, <1>3, GoesOn, OneRow DEF OnRow
    <2>2. job'[t].at \in FulfilLabels \cup {"idle"}
      BY <1>1, <1>3, GotoStep, FinishStep DEF Idle
    <2>3. Attempting(t, p)
      BY <1>1, <1>3, <2>2, CountStep DEF Attempting
    <2>4. QED
      BY <1>2, <1>3, <2>1, <2>3, RetryStep
  <1>4. CASE /\ SetFulfil(p, "failed") /\ AfterError(t)
             /\ UNCHANGED <<kind, mode, claim, age, viaMomo, linked, payouts, lost, crashes>>
    <2>1. OnRow(t, p)
      BY <1>1, <1>2, <1>4, GoesOn, OneRow DEF OnRow
    <2>2. kind[p] = "digital" /\ mode[p] = "MANUAL" => job'[t].at = "idle"
      BY <1>1, <1>2, <1>4, AfterErrorStep DEF Idle
    <2>3. kind[p] = "digital" /\ mode[p] = "MANUAL" => Attempting(t, p)
      BY <1>1, <1>4, <2>2, CountStep DEF Attempting
    <2>4. QED
      BY <1>2, <1>4, <2>1, <2>3, RetryStep
  <1>5. CASE FulfilCall(t)
    <2>1. /\ (Goto(t, "fulfil_done") \/ Goto(t, "fulfil_failed"))
          /\ payouts' = payouts \/ \E c \in Channel : Pay(p, c)
          /\ UNCHANGED row
      BY <1>2, <1>5 DEF FulfilCall, Call
    <2>2. OnRow(t, p)
      BY <1>1, <1>2, <2>1, GoesOn, OneRow DEF OnRow, row
    <2>3. Rests(t, p)
      BY <1>1, <2>1, GotoStep DEF Rests, row
    <2>4. QED
      BY <1>2, <2>1, <2>2, <2>3, RetryStep DEF row
  <1>6. CASE FulfilClaimedAt(t)
    <2>1. kind[p] = "momo_cash"
      BY <1>1, <1>2, <1>6 DEF FulfilClaimedAt, ThreadInv, At
    <2>2. OnRow(t, p)
      BY <1>1, <1>2, <1>6, GoesOn, OneRow DEF OnRow, FulfilClaimedAt, ClaimCas
    <2>3. QED
      BY <1>2, <1>6, <2>1, <2>2, RetryStep DEF FulfilClaimedAt
  <1>7. QED
    BY <1>2, <1>3, <1>4, <1>5, <1>6 DEF Fulfil, FulfilStart, FulfilDone, FulfilFailed

LEMMA ClaimRetries ==
  ASSUME IInv, IInv', \A q \in Prize : RetryInv(q), NEW t \in Thread, Claim(t)
  PROVE  \A q \in Prize : RetryInv(q)'
  <1>1. TypeOK /\ ThreadInv(t) /\ job[t].at \in ClaimLabels
    BY DEF IInv, Claim, ClaimExpire, ClaimWrite, ClaimDispatch, ClaimDeliver, At
  <1>2. PICK p \in Prize : p = job[t].prize /\ kind[p] # "none"
    BY <1>1 DEF ThreadInv
  <1>3. CASE ClaimExpire(t)
    <2>1. OnRow(t, p)
      BY <1>1, <1>2, <1>3, GoesOn, OneRow DEF OnRow, ClaimExpire, ClaimCas
    <2>2. Rests(t, p)
      BY <1>1, <1>3, FinishStep DEF Rests, ClaimExpire, Idle
    <2>3. QED
      BY <1>2, <1>3, <2>1, <2>2, RetryStep DEF ClaimExpire
  <1>4. CASE ClaimWrite(t)
    <2>1. /\ Finish(t) \/ \E label \in {"claim_dispatch", "claim_deliver"} : Goto(t, label)
          /\ claim' = claim \/ \E s \in ClaimStatus : claim' = [claim EXCEPT ![p] = s]
          /\ UNCHANGED <<kind, mode, fulfil, retries, payouts>>
      BY <1>2, <1>4 DEF ClaimWrite, ClaimCas
    <2>2. OnRow(t, p)
      BY <1>1, <1>2, <2>1, GoesOn, OneRow DEF OnRow
    <2>3. CASE claim[p] # "PENDING"
      <3>1. Finish(t)
        BY <1>2, <1>4, <2>3 DEF ClaimWrite
      <3>2. Rests(t, p)
        BY <1>1, <2>1, <3>1, FinishStep DEF Rests, Idle
      <3>3. QED
        BY <1>2, <2>1, <2>2, <3>2, RetryStep
    <2>4. CASE claim[p] = "PENDING"
      <3>1. kind[p] = "digital" => Finish(t) \/ Goto(t, "claim_dispatch")
        BY <1>2, <1>4, <2>4 DEF ClaimWrite
      <3>2. kind[p] = "digital" => job'[t].at \in {"claim_dispatch", "idle"}
        BY <1>1, <3>1, FinishStep, GotoStep DEF Idle
      <3>3. kind[p] = "digital" => Takes(t, p)
        BY <2>1, <2>4, <3>2 DEF Takes
      <3>4. QED
        BY <1>2, <2>1, <2>2, <3>3, RetryStep
    <2>5. QED
      BY <2>3, <2>4
  <1>5. CASE ClaimDispatch(t)
    <2>1. OnRow(t, p)
      BY <1>1, <1>2, <1>5, GoesOn, OneRow DEF OnRow, ClaimDispatch
    <2>2. Dispatches(t, p)
      BY <1>1, <1>2, <1>5, GotoStep, CountStep DEF Dispatches, ClaimDispatch, At
    <2>3. QED
      BY <1>2, <1>5, <2>1, <2>2, RetryStep DEF ClaimDispatch
  <1>6. CASE ClaimDeliver(t)
    <2>1. OnRow(t, p) /\ kind[p] = "physical"
      BY <1>1, <1>2, <1>6, GoesOn, OneRow DEF OnRow, ClaimDeliver, ThreadInv, At
    <2>2. QED
      BY <1>2, <1>6, <2>1, RetryStep DEF ClaimDeliver
  <1>7. QED
    BY <1>3, <1>4, <1>5, <1>6 DEF Claim

\* AUTO mode, reviews and held cash are about other prizes.
LEMMA OtherKinds ==
  ASSUME IInv, IInv', \A q \in Prize : RetryInv(q), NEW t \in Thread,
         AutoProvision(t) \/ Admin(t) \/ Held(t)
  PROVE  \A q \in Prize : RetryInv(q)'
  <1>1. TypeOK /\ ThreadInv(t) /\ job[t].at \in AutoLabels \cup ReviewLabels \cup HeldLabels
    BY DEF IInv, AutoProvision, AutoFlip, AutoAcquire, AutoFallback, Admin, ApproveCall,
           ApproveDone, ApproveBank, ApproveWrite, RejectWrite, RejectFail, Held, HeldCheck,
           HeldCall, HeldDone, HeldFailed, HeldExpire, At
  <1>2. PICK p \in Prize : p = job[t].prize /\ kind[p] # "none"
    BY <1>1 DEF ThreadInv
  <1>3. ~(kind[p] = "digital" /\ mode[p] = "MANUAL")
    BY <1>1, <1>2 DEF IInv, ThreadInv, RowInv
  <1>4. UNCHANGED <<kind, mode>>
    BY DEF AutoProvision, AutoFlip, AutoAcquire, AutoFallback, Admin, ApproveCall,
           ApproveDone, ApproveBank, ApproveWrite, RejectWrite, RejectFail, Held, HeldCheck,
           HeldCall, HeldDone, HeldFailed, HeldExpire, row
  <1>5. \A q \in Prize \ {p} : SameRow(q) /\ retries'[q] = retries[q]
    <2>1. CASE AutoProvision(t)
      BY <1>1, <1>2, <2>1, OneRow DEF AutoProvision, AutoFlip, AutoAcquire, AutoFallback, row
    <2>2. CASE Admin(t)
      BY <1>1, <1>2, <2>2, OneRow DEF Admin, ApproveCall, ApproveDone, ApproveBank, ApproveWrite,
         RejectWrite, RejectFail, Review, Call, row
    <2>3. CASE Held(t)
      BY <1>1, <1>2, <2>3, OneRow DEF Held, HeldCheck, HeldCall, HeldDone, HeldFailed, HeldExpire,
         Call, row
    <2>4. QED
      BY <2>1, <2>2, <2>3
  <1>6. Others(t) /\ (job'[t].at # "idle" => job'[t].prize = job[t].prize)
    <2>1. \/ \E label \in Labels : Goto(t, label)
          \/ Finish(t)
          \/ job' = [job EXCEPT ![t].at = "fulfil", ![t].attempt = 1]
      BY DEF AutoProvision, AutoFlip, AutoAcquire, AutoFallback, Admin, ApproveCall,
             ApproveDone, ApproveBank, ApproveWrite, RejectWrite, RejectFail, Held, HeldCheck,
             HeldCall, HeldDone, HeldFailed, HeldExpire, Call
    <2>2. QED
      BY <1>1, <2>1, GoesOn
  <1>7. OnRow(t, p)
    BY <1>2, <1>5, <1>6 DEF OnRow
  <1>8. QED
    BY <1>2, <1>3, <1>4, <1>7, RetryStep

LEMMA StartRetries ==
  ASSUME IInv, IInv', \A q \in Prize : RetryInv(q), NEW t \in Thread, NEW p \in Prize,
         \/ ClaimRead(t, p) \/ ApproveRead(t, p) \/ RejectRead(t, p)
         \/ FulfillmentRetry(t, p) \/ HeldList(t, p)
  PROVE  \A q \in Prize : RetryInv(q)'
  <1>1. TypeOK /\ RowInv(p) /\ fulfil[p] \in FulfilStatus
    BY DEF IInv, TypeOK
  <1>2. PICK label \in Labels, s \in FulfilStatus : Begin(t, p, label, s)
    BY <1>1 DEF ClaimRead, ApproveRead, RejectRead, FulfillmentRetry, HeldList
  <1>3. /\ UNCHANGED <<row, payouts>> /\ job[t] = Idle /\ kind[p] # "none"
        /\ Others(t) /\ job'[t].at = label /\ job'[t].prize = p
    BY <1>1, <1>2, BeginStep
       DEF ClaimRead, ApproveRead, RejectRead, FulfillmentRetry, HeldList, RowInv, Begin
  <1>4. OnRow(t, p)
    BY <1>3 DEF OnRow, SameRow, row, Idle
  <1>5. kind[p] = "digital" => ClaimRead(t, p) \/ FulfillmentRetry(t, p)
    BY <1>1 DEF ApproveRead, RejectRead, HeldList, RowInv
  <1>6. CASE ClaimRead(t, p)
    <2>1. job'[t].at \in {"claim_write", "claim_expire"}
      BY <1>1, <1>6, BeginStep DEF ClaimRead
    <2>2. Rests(t, p)
      BY <1>3, <2>1 DEF Rests, row
    <2>3. QED
      BY <1>3, <1>4, <2>2, RetryStep DEF row
  <1>7. CASE FulfillmentRetry(t, p)
    <2>1. job'[t].at = "fulfil" /\ retries[p] < RetryCap /\ fulfil[p] # "pending_claim"
      BY <1>1, <1>7, BeginStep DEF FulfillmentRetry
    <2>2. Retries(t, p)
      BY <1>3, <2>1 DEF Retries, row, Idle
    <2>3. QED
      BY <1>3, <1>4, <2>2, RetryStep DEF row
  <1>8. CASE kind[p] # "digital"
    BY <1>3, <1>4, <1>8, RetryStep DEF row
  <1>9. QED
    BY <1>5, <1>6, <1>7, <1>8

LEMMA SpinRetries ==
  ASSUME IInv, IInv', \A q \in Prize : RetryInv(q), NEW t \in Thread, NEW p \in Prize,
         NEW k \in Kinds, NEW m \in Modes, PlaySpin(t, p, k, m)
  PROVE  \A q \in Prize : RetryInv(q)'
  <1>1. /\ TypeOK /\ kind[p] = "none" /\ retries[p] = 0 /\ UNCHANGED retries
        /\ \A u \in Thread : job[u].at # "idle" => job[u].prize # p
    BY DEF IInv, ThreadInv, PlaySpin, RetryInv
  <1>2. /\ kind'[p] = k /\ mode'[p] = m /\ k # "none"
        /\ \A q \in Prize \ {p} : SameRow(q) /\ retries'[q] = retries[q]
    BY <1>1, KindsAssumption DEF TypeOK, PlaySpin, SameRow, AllKinds
  <1>3. CASE k = "digital" /\ m = "AUTO"
    <2>1. Begin(t, p, "auto_flip", "na")
      BY <1>3 DEF PlaySpin
    <2>2. Others(t) /\ job'[t].prize = p
      BY <1>1, <2>1, BeginStep
    <2>3. job[t].at = "idle"
      BY <2>1 DEF Begin, Idle
    <2>4. OnRow(t, p)
      BY <1>2, <2>2, <2>3 DEF OnRow
    <2>5. RetryInv(p)'
      BY <1>2, <1>3 DEF RetryInv
    <2>6. QED
      BY <2>4, <2>5, OtherRows
  <1>4. CASE ~(k = "digital" /\ m = "AUTO")
    <2>1. job' = job
      BY <1>4 DEF PlaySpin
    <2>2. \A q \in Prize \ {p} : RetryInv(q)'
      <3>1. ASSUME NEW q \in Prize \ {p} PROVE RetryInv(q)'
        <4>1. Attempts(q)' = Attempts(q) /\ Dispatching(q)' = Dispatching(q)
              /\ (Untried(q) => Untried(q)')
          BY <1>2, <2>1 DEF Attempts, Dispatching, Untried
        <4>2. QED
          BY <1>2, <4>1 DEF RetryInv, SameRow
      <3>2. QED
        BY <3>1
    <2>3. Attempts(p)' = {} /\ Dispatching(p)' = {} /\ Untried(p)'
      BY <1>1, <2>1 DEF Attempts, Dispatching, Untried
    <2>4. retries'[p] + Cardinality(Attempts(p)') < RetryCap + Cardinality(Thread)
      BY <1>1, <2>3, FS_EmptySet, AttemptsFinite DEF RetryCap
    <2>5. RetryInv(p)'
      BY <1>2, <2>3, <2>4 DEF RetryInv
    <2>6. QED
      BY <2>2, <2>5
  <1>5. QED
    BY <1>3, <1>4

LEMMA EnvironmentRetries ==
  ASSUME IInv, IInv', \A q \in Prize : RetryInv(q),
         VerifyMoMo \/ (\E p \in Prize : Tick(p)) \/ UNCHANGED vars
  PROVE  \A q \in Prize : RetryInv(q)'
  <1>1. UNCHANGED <<kind, mode, fulfil, retries, job>>
    BY DEF VerifyMoMo, Tick, row, vars
  <1>2. QED
    BY <1>1 DEF RetryInv, Attempts, Dispatching, Untried

LEMMA CrashRetries ==
  ASSUME IInv, IInv', \A q \in Prize : RetryInv(q), NEW t \in Thread, Crash(t)
  PROVE  \A q \in Prize : RetryInv(q)'
  <1>1. TypeOK /\ ThreadInv(t) /\ Finish(t) /\ UNCHANGED <<row, payouts>>
    BY DEF IInv, Crash
  <1>2. Others(t) /\ job'[t].at = "idle"
    BY <1>1, FinishStep DEF Idle
  <1>3. CASE job[t].at = "idle"
    <2>1. ASSUME NEW q \in Prize PROVE RetryInv(q)'
      <3>1. Attempts(q)' = Attempts(q) /\ Dispatching(q)' = Dispatching(q)
            /\ (Untried(q) => Untried(q)')
        BY <1>2, <1>1, <1>3 DEF Attempts, Dispatching, Untried, Others, row
      <3>2. QED
        BY <1>1, <3>1 DEF RetryInv, row
    <2>2. QED
      BY <2>1
  <1>4. CASE job[t].at # "idle"
    <2>1. PICK p \in Prize : p = job[t].prize /\ kind[p] # "none"
      BY <1>1, <1>4 DEF ThreadInv
    <2>2. OnRow(t, p) /\ Rests(t, p)
      BY <1>1, <1>2, <2>1 DEF OnRow, Rests, SameRow, row
    <2>3. QED
      BY <1>1, <2>1, <2>2, RetryStep DEF row
  <1>5. QED
    BY <1>3, <1>4

RetriesInv == \A p \in Prize : RetryInv(p)

LEMMA RetriesNext == IInv /\ IInv' /\ RetriesInv /\ [Next]_vars => RetriesInv'
  <1> SUFFICES ASSUME IInv, IInv', RetriesInv, [Next]_vars PROVE RetriesInv'
    OBVIOUS
  <1>1. \A q \in Prize : RetryInv(q)
    BY DEF RetriesInv
  <1>2. CASE \E t \in Thread : Progress(t)
    BY <1>1, <1>2, FulfilRetries, ClaimRetries, OtherKinds DEF Progress, RetriesInv
  <1>3. CASE \E t \in Thread, p \in Prize : Start(t, p)
    BY <1>1, <1>3, StartRetries, SpinRetries DEF Start, RetriesInv
  <1>4. CASE \E t \in Thread : Crash(t)
    BY <1>1, <1>4, CrashRetries DEF RetriesInv
  <1>5. CASE VerifyMoMo \/ (\E p \in Prize : Tick(p)) \/ UNCHANGED vars
    BY <1>1, <1>5, EnvironmentRetries DEF RetriesInv
  <1>6. QED
    BY <1>2, <1>3, <1>4, <1>5 DEF Next

\* The worker stops retrying a claimed airtime or data prize (FulfillmentRetry of the lifecycle
\* worker, UpdateSpinFulfillment), up to the attempts in flight, for any number of threads.
THEOREM RetriesCapped == Spec => []RetriesBounded
  <1>1. Init => RetriesInv
    BY DEF Init, RetriesInv, RetryInv
  <1>2. IInv /\ RetriesInv => RetriesBounded
    BY DEF RetriesInv, RetryInv, RetriesBounded
  <1>3. QED
    BY <1>1, <1>2, RetriesNext, Inductive, PTL DEF Spec

-----------------------------------------------------------------------------
(* The rows implement the promise.                                         *)

USE DEF Promise!Open, Promise!Review, Promise!Cash, Promise!Digital

\* The steps that touch neither a claim nor a payment are invisible in the promise.
LEMMA Invisible ==
  ASSUME UNCHANGED <<kind, mode, claim, linked, payouts>>
  PROVE  UNCHANGED Promise!vars
  BY DEF Promise!vars, Paid

\* A payment is a delivery, when the promise authorises it.
LEMMA PayDelivers ==
  ASSUME TypeOK, NEW p \in Prize, NEW c \in Channel, Pay(p, c), Promise!Authorised(p),
         UNCHANGED <<kind, mode, claim, linked>>
  PROVE  Promise!Next
  <1>1. Paid(p)' /\ \A q \in Prize \ {p} : payouts'[q] = payouts[q]
    BY PayStep
  <1>2. \A q \in Prize \ {p} : Paid(q)' = Paid(q)
    BY <1>1 DEF Paid
  <1>3. [q \in Prize |-> Paid(q)]' = [[q \in Prize |-> Paid(q)] EXCEPT ![p] = TRUE]
    BY <1>1, <1>2
  <1>4. Promise!Deliver(p)
    BY <1>3 DEF Promise!Deliver
  <1>5. QED
    BY <1>4 DEF Promise!Next

\* A provider call delivers or, refused, is invisible.
LEMMA CallDelivers ==
  ASSUME TypeOK, NEW p \in Prize, NEW c \in Channel, Promise!Authorised(p),
         Pay(p, c) \/ UNCHANGED payouts, UNCHANGED <<kind, mode, claim, linked>>
  PROVE  Promise!Next \/ UNCHANGED Promise!vars
  BY PayDelivers, Invisible

LEMMA FulfilCallDelivers ==
  ASSUME IInv, NEW t \in Thread, FulfilCall(t)
  PROVE  Promise!Next \/ UNCHANGED Promise!vars
  <1>1. job[t].at = "fulfil_call"
    BY DEF FulfilCall, At
  <1>2. PICK p \in Prize : p = job[t].prize
    BY <1>1, AtWork
  <1>3. TypeOK /\ ThreadInv(t) /\ mode[p] \in AllModes
    BY DEF IInv, TypeOK
  <1>4. Promise!Authorised(p)
    BY <1>1, <1>2, <1>3 DEF Promise!Authorised, ThreadInv, AllModes
  <1>5. PICK c \in Channel : Pay(p, c) \/ UNCHANGED payouts
    BY <1>2 DEF FulfilCall, Call
  <1>6. UNCHANGED <<kind, mode, claim, linked>>
    BY DEF FulfilCall, row
  <1>7. QED
    BY <1>3, <1>4, <1>5, <1>6, CallDelivers

LEMMA CashCallDelivers ==
  ASSUME IInv, NEW t \in Thread, ApproveCall(t) \/ ApproveBank(t) \/ HeldCall(t)
  PROVE  Promise!Next \/ UNCHANGED Promise!vars
  <1>1. job[t].at \in {"approve_call", "approve_bank", "held_call"}
    BY DEF ApproveCall, ApproveBank, HeldCall, At
  <1>2. PICK p \in Prize : p = job[t].prize
    BY <1>1, AtWork
  <1>3. TypeOK /\ ThreadInv(t)
    BY DEF IInv
  <1>4. Promise!Authorised(p)
    BY <1>1, <1>2, <1>3 DEF Promise!Authorised, ThreadInv
  <1>5. PICK c \in Channel : Pay(p, c) \/ UNCHANGED payouts
    BY <1>2 DEF ApproveCall, ApproveBank, HeldCall, Call
  <1>6. UNCHANGED <<kind, mode, claim, linked>>
    BY DEF ApproveCall, ApproveBank, HeldCall, row
  <1>7. QED
    BY <1>3, <1>4, <1>5, <1>6, CallDelivers

\* A compare-and-swap that wins takes the claim; one that loses is invisible.
LEMMA CasTakes ==
  ASSUME IInv, NEW t \in Thread, FulfilClaimedAt(t) \/ ClaimExpire(t) \/ ClaimWrite(t)
  PROVE  Promise!Next \/ UNCHANGED Promise!vars
  <1>1. job[t].at \in {"fulfil_claimed_at", "claim_expire", "claim_write"}
    BY DEF FulfilClaimedAt, ClaimExpire, ClaimWrite, At
  <1>2. PICK p \in Prize : p = job[t].prize
    BY <1>1, AtWork
  <1>3. UNCHANGED <<kind, mode, fulfil, linked, payouts>>
    BY DEF FulfilClaimedAt, ClaimExpire, ClaimWrite
  <1>4. UNCHANGED [q \in Prize |-> Paid(q)]
    BY <1>3 DEF Paid
  <1>5. ThreadInv(t)
    BY DEF IInv
  <1>6. CASE UNCHANGED claim
    BY <1>3, <1>6, Invisible
  <1>7. CASE ~UNCHANGED claim
    <2>1. claim[p] = "PENDING"
      BY <1>2, <1>7 DEF FulfilClaimedAt, ClaimExpire, ClaimWrite, ClaimCas
    <2>2. \/ kind[p] \in {"digital", "momo_cash"} /\ claim' = [claim EXCEPT ![p] = "CLAIMED"]
          \/ kind[p] \in {"momo_cash", "physical"}
                /\ claim' = [claim EXCEPT ![p] = "PENDING_ADMIN_REVIEW"]
          \/ claim' = [claim EXCEPT ![p] = "EXPIRED"]
      BY <1>2, <1>5, <2>1 DEF FulfilClaimedAt, ClaimExpire, ClaimWrite, ClaimCas, ThreadInv, At
    <2>3. Promise!Take(p)
      BY <1>3, <1>4, <2>1, <2>2 DEF Promise!Take
    <2>4. QED
      BY <2>3 DEF Promise!Next
  <1>8. QED
    BY <1>6, <1>7

LEMMA ReviewDecides ==
  ASSUME IInv, NEW t \in Thread, ApproveWrite(t) \/ RejectWrite(t)
  PROVE  Promise!Next
  <1>1. job[t].at \in {"approve_write", "reject_write"}
    BY DEF ApproveWrite, RejectWrite, At
  <1>2. PICK p \in Prize : p = job[t].prize
    BY <1>1, AtWork
  <1>3. claim[p] \in UnderReview
    BY <1>1, <1>2 DEF IInv, ThreadInv
  <1>4. \E verdict \in {"APPROVED", "REJECTED"} : claim' = [claim EXCEPT ![p] = verdict]
    BY <1>2 DEF ApproveWrite, RejectWrite, Review
  <1>5. UNCHANGED <<kind, mode, linked, [q \in Prize |-> Paid(q)]>>
    BY DEF ApproveWrite, RejectWrite, Paid
  <1>6. Promise!Decide(p)
    BY <1>3, <1>4, <1>5 DEF Promise!Decide
  <1>7. QED
    BY <1>6 DEF Promise!Next

LEMMA PlaySpinWins ==
  ASSUME IInv, NEW t \in Thread, NEW p \in Prize, NEW k \in Kinds, NEW m \in Modes,
         PlaySpin(t, p, k, m)
  PROVE  Promise!Next
  <1>1. k \in {"digital", "momo_cash", "physical", "pulse_points", "try_again"}
        /\ m \in {"MANUAL", "AUTO"}
    BY KindsAssumption DEF AllKinds, AllModes
  <1>2. UNCHANGED <<linked, [q \in Prize |-> Paid(q)]>>
    BY DEF PlaySpin, Paid
  <1>3. Promise!Win(p)
    BY <1>1, <1>2 DEF PlaySpin, InitialClaim, Promise!Win
  <1>4. QED
    BY <1>3 DEF Promise!Next

LEMMA NextRefines == IInv /\ [Next]_vars => [Promise!Next]_(Promise!vars)
  <1>. SUFFICES ASSUME IInv, [Next]_vars PROVE Promise!Next \/ UNCHANGED Promise!vars
    OBVIOUS
  <1>1. CASE \E t \in Thread : Progress(t)
    <2>1. PICK t \in Thread : Progress(t)
      BY <1>1
    <2>2. CASE Fulfil(t)
      <3>1. CASE FulfilStart(t) \/ FulfilDone(t) \/ FulfilFailed(t)
        BY <3>1, Invisible DEF FulfilStart, FulfilDone, FulfilFailed
      <3>2. QED
        BY <2>2, <3>1, FulfilCallDelivers, CasTakes DEF Fulfil
    <2>3. CASE AutoProvision(t)
      BY <2>3, Invisible DEF AutoProvision, AutoFlip, AutoAcquire, AutoFallback, row
    <2>4. CASE Claim(t)
      <3>1. CASE ClaimDispatch(t) \/ ClaimDeliver(t)
        BY <3>1, Invisible DEF ClaimDispatch, ClaimDeliver
      <3>2. QED
        BY <2>4, <3>1, CasTakes DEF Claim
    <2>5. CASE Admin(t)
      <3>1. CASE ApproveDone(t) \/ RejectFail(t)
        BY <3>1, Invisible DEF ApproveDone, RejectFail
      <3>2. QED
        BY <2>5, <3>1, CashCallDelivers, ReviewDecides DEF Admin
    <2>6. CASE Held(t)
      <3>1. CASE HeldCheck(t) \/ HeldDone(t) \/ HeldFailed(t) \/ HeldExpire(t)
        BY <3>1, Invisible DEF HeldCheck, HeldDone, HeldFailed, HeldExpire
      <3>2. QED
        BY <2>6, <3>1, CashCallDelivers DEF Held
    <2>7. QED
      BY <2>1, <2>2, <2>3, <2>4, <2>5, <2>6 DEF Progress
  <1>2. CASE \E t \in Thread, p \in Prize : Start(t, p)
    <2>1. PICK t \in Thread, p \in Prize : Start(t, p)
      BY <1>2
    <2>2. CASE \E k \in Kinds, m \in Modes : PlaySpin(t, p, k, m)
      BY <2>2, PlaySpinWins
    <2>3. CASE ~\E k \in Kinds, m \in Modes : PlaySpin(t, p, k, m)
      BY <2>1, <2>3, Invisible
         DEF Start, ClaimRead, ApproveRead, RejectRead, FulfillmentRetry, HeldList, row
    <2>4. QED
      BY <2>2, <2>3
  <1>3. CASE \E t \in Thread : Crash(t)
    BY <1>3, Invisible DEF Crash, row
  <1>4. CASE VerifyMoMo
    <2>1. Promise!Link
      BY <1>4 DEF VerifyMoMo, row, Promise!Link, Paid
    <2>2. QED
      BY <2>1 DEF Promise!Next
  <1>5. CASE (\E p \in Prize : Tick(p)) \/ UNCHANGED vars
    BY <1>5, Invisible DEF Tick, vars
  <1>6. QED
    BY <1>1, <1>2, <1>3, <1>4, <1>5 DEF Next

\* The services keep the promise: a claim is taken once, and value moves for an
\* authorised prize only, for any number of prizes, threads, crashes and losses.
THEOREM Refinement == Spec => RefinesPromise
  <1>1. Init => Promise!Init
    BY DEF Init, Promise!Init, Paid
  <1>2. QED
    BY <1>1, NextRefines, Inductive, PTL DEF RefinesPromise, Promise!Spec, Spec
=============================================================================
