-------------------------- MODULE VtuRechargeProofs --------------------------
(***************************************************************************)
(* Proofs about VtuRecharge for any number of recharges and threads, any   *)
(* number of questions and any bound on what is lost or fails.             *)
(***************************************************************************)
EXTENDS VtuRecharge, TLAPS

USE TriesAssumption, BoundsAssumption, NoneAssumption

-----------------------------------------------------------------------------
(* Threads.                                                                *)

\* Nothing happens to the threads other than t.
Others(t) == \A u \in Thread \ {t} : job'[u] = job[u]

\* Nothing happens to the row of q that another thread could notice.
SameRow(q) ==
    /\ status'[q] = status[q] /\ paid'[q] = paid[q] /\ tried'[q] = tried[q]
    /\ order'[q] = order[q] /\ blind'[q] = blind[q]
    /\ rewarded'[q] = rewarded[q] /\ refunded'[q] = refunded[q]

LEMMA IdleJob == Idle \in Job
  BY DEF Idle, Job, Labels

LEMMA FlagStep ==
  ASSUME NEW f \in [Recharge -> BOOLEAN], NEW r \in Recharge, NEW g,
         g = f \/ g = [f EXCEPT ![r] = TRUE]
  PROVE  /\ g \in [Recharge -> BOOLEAN]
         /\ f[r] => g[r]
         /\ \A q \in Recharge \ {r} : g[q] = f[q]
  <1>1. CASE g = f
    BY <1>1
  <1>2. CASE g = [f EXCEPT ![r] = TRUE]
    BY <1>2
  <1>3. QED
    BY <1>1, <1>2

LEMMA FinishStep ==
  ASSUME TypeOK, NEW t \in Thread, Finish(t)
  PROVE  job' \in [Thread -> Job] /\ job'[t] = Idle /\ Others(t)
  BY IdleJob DEF TypeOK, Finish, Others

LEMMA GotoStep ==
  ASSUME TypeOK, NEW t \in Thread, NEW label \in Labels, Goto(t, label)
  PROVE  /\ job' \in [Thread -> Job] /\ Others(t)
         /\ job'[t].at = label /\ job'[t].ref = job[t].ref
  BY DEF TypeOK, Goto, Others, Job

LEMMA StartStep ==
  ASSUME TypeOK, NEW t \in Thread, NEW label \in Labels, NEW r \in Recharge, Start(t, label, r)
  PROVE  /\ job' \in [Thread -> Job] /\ Others(t)
         /\ job'[t].at = label /\ job'[t].ref = r
  <1>1. [at |-> label, ref |-> r, tries |-> 1] \in Job
    BY DEF Job
  <1>2. QED
    BY <1>1 DEF TypeOK, Start, Others

\* A thread that owns a recharge changes its row: only its own part is left to show.
LEMMA OwnerStep ==
  ASSUME IInv, TypeOK', NEW t \in Thread, job[t].at \in Owning, Others(t),
         NEW r \in Recharge, job[t].ref = r,
         \A q \in Recharge \ {r} : SameRow(q),
         job'[t].at \in Owning => job'[t].ref = r,
         RowInv(r)', ThreadInv(t)', paid' = paid
  PROVE  IInv'
  <1>1. \A q \in Recharge : RowInv(q)'
    <2>. SUFFICES ASSUME NEW q \in Recharge PROVE RowInv(q)'
      OBVIOUS
    <2>1. CASE q = r
      BY <2>1
    <2>2. CASE q # r
      <3>1. SameRow(q) /\ RowInv(q)
        BY <2>2 DEF IInv
      <3>2. QED
        BY <3>1 DEF SameRow, RowInv
    <2>3. QED
      BY <2>1, <2>2
  <1>2. \A u \in Thread : ThreadInv(u)'
    <2>. SUFFICES ASSUME NEW u \in Thread, u # t PROVE ThreadInv(u)'
      OBVIOUS
    <2>1. job'[u] = job[u] /\ ThreadInv(u)
      BY DEF IInv, Others
    <2>2. CASE job[u].ref = r
      <3>1. job[u].at \notin Owning
        BY <2>2 DEF IInv, OwnerInv
      <3>2. QED
        BY <2>1, <3>1 DEF ThreadInv, Owning, Winning, Losing
    <2>3. CASE job[u].at = "idle"
      BY <2>1, <2>3 DEF ThreadInv, Owning, Winning, Losing
    <2>4. CASE job[u].ref # r /\ job[u].at # "idle"
      <3>1. SameRow(job[u].ref)
        BY <2>1, <2>4 DEF ThreadInv
      <3>2. QED
        BY <2>1, <3>1 DEF SameRow, ThreadInv
    <2>5. QED
      BY <2>2, <2>3, <2>4
  <1>3. OwnerInv'
    BY DEF IInv, OwnerInv, Others
  <1>4. QED
    BY <1>1, <1>2, <1>3 DEF IInv

\* A thread that owns nothing, before or after, leaves the rows alone.
LEMMA VisitorStep ==
  ASSUME IInv, TypeOK', NEW t \in Thread, Others(t), \A q \in Recharge : SameRow(q),
         job'[t].at \notin Owning, ThreadInv(t)'
  PROVE  IInv'
  <1>1. \A q \in Recharge : RowInv(q)'
    BY DEF IInv, SameRow, RowInv
  <1>2. \A u \in Thread : ThreadInv(u)'
    <2>. SUFFICES ASSUME NEW u \in Thread, u # t PROVE ThreadInv(u)'
      OBVIOUS
    <2>1. job'[u] = job[u] /\ ThreadInv(u)
      BY DEF IInv, Others
    <2>2. CASE job[u].at = "idle"
      BY <2>1, <2>2 DEF ThreadInv, Owning, Winning, Losing
    <2>3. CASE job[u].at # "idle"
      <3>1. SameRow(job[u].ref)
        BY <2>1, <2>3 DEF ThreadInv
      <3>2. QED
        BY <2>1, <3>1 DEF SameRow, ThreadInv
    <2>4. QED
      BY <2>2, <2>3
  <1>3. OwnerInv'
    BY DEF IInv, OwnerInv, Others
  <1>4. QED
    BY <1>1, <1>2, <1>3 DEF IInv

\* A thread that ends relies on nothing.
LEMMA IdleThread ==
  ASSUME NEW t, job'[t] = Idle
  PROVE  ThreadInv(t)' /\ job'[t].at \notin Owning
  BY DEF Idle, ThreadInv, Owning, Winning, Losing

-----------------------------------------------------------------------------
(* The initial state, and the steps of the environment.                    *)

LEMMA InitInv == Init => IInv
  <1>. SUFFICES ASSUME Init PROVE IInv
    OBVIOUS
  <1>1. TypeOK
    BY IdleJob DEF Init, TypeOK, Status, Orders
  <1>2. \A r \in Recharge : RowInv(r)
    BY DEF Init, RowInv
  <1>3. \A t \in Thread : ThreadInv(t)
    BY DEF Init, Idle, ThreadInv, Owning, Winning, Losing
  <1>4. OwnerInv
    BY DEF Init, Idle, OwnerInv, Owning, Winning, Losing
  <1>5. QED
    BY <1>1, <1>2, <1>3, <1>4 DEF IInv

LEMMA StutterInv == IInv /\ UNCHANGED vars => IInv'
  BY DEF IInv, vars, money, bounds, TypeOK, RowInv, ThreadInv, OwnerInv

LEMMA InitiateInv ==
  ASSUME IInv, NEW r \in Recharge, InitiateRecharge(r)
  PROVE  IInv'
  <1>1. TypeOK'
    BY DEF IInv, InitiateRecharge, TypeOK, Status, money, bounds
  <1>2. \A q \in Recharge : RowInv(q)'
    BY DEF IInv, InitiateRecharge, TypeOK, RowInv, money
  <1>3. \A t \in Thread : ThreadInv(t)'
    <2>. SUFFICES ASSUME NEW t \in Thread PROVE ThreadInv(t)'
      OBVIOUS
    <2>1. ThreadInv(t) /\ job'[t] = job[t]
      BY DEF IInv, InitiateRecharge
    <2>2. job[t].at \in Owning => job[t].ref # r
      BY <2>1 DEF ThreadInv, InitiateRecharge
    <2>3. job[t].at \in Owning => status'[job[t].ref] = status[job[t].ref]
      BY <2>1, <2>2 DEF IInv, TypeOK, ThreadInv, InitiateRecharge, Owning, Winning, Losing
    <2>4. QED
      BY <2>1, <2>3 DEF InitiateRecharge, ThreadInv, money, Owning, Winning, Losing
  <1>4. OwnerInv'
    BY DEF IInv, InitiateRecharge, OwnerInv
  <1>5. QED
    BY <1>1, <1>2, <1>3, <1>4 DEF IInv

LEMMA ChargeInv ==
  ASSUME IInv, NEW r \in Recharge, Charge(r)
  PROVE  IInv'
  <1>1. TypeOK'
    BY DEF IInv, Charge, TypeOK, bounds
  <1>2. \A q \in Recharge : RowInv(q)'
    BY DEF IInv, Charge, RowInv
  <1>3. \A q \in Recharge : paid[q] => paid'[q]
    BY DEF IInv, TypeOK, Charge
  <1>4. \A t \in Thread : ThreadInv(t)'
    <2>. SUFFICES ASSUME NEW t \in Thread PROVE ThreadInv(t)'
      OBVIOUS
    <2>1. ThreadInv(t) /\ job' = job
      BY DEF IInv, Charge
    <2>2. QED
      BY <2>1, <1>3 DEF Charge, ThreadInv, Owning, Winning, Losing
  <1>5. OwnerInv'
    BY DEF IInv, Charge, OwnerInv
  <1>6. QED
    BY <1>1, <1>2, <1>4, <1>5 DEF IInv

\* A pending order may turn out well after all: RowInv and ThreadInv treat it like a
\* delivered one.
LEMMA SettlesInv ==
  ASSUME IInv, NEW r \in Recharge, ProviderSettles(r)
  PROVE  IInv'
  <1>1. PICK o \in {"delivered", "refused"} : order' = [order EXCEPT ![r] = o]
    BY DEF ProviderSettles
  <1>2. TypeOK'
    BY <1>1 DEF IInv, ProviderSettles, TypeOK, Orders, bounds
  <1>3. \A q \in Recharge : order'[q] = IF q = r THEN o ELSE order[q]
    BY <1>1 DEF IInv, TypeOK
  <1>4. \A q \in Recharge : RowInv(q)'
    <2>. SUFFICES ASSUME NEW q \in Recharge PROVE RowInv(q)'
      OBVIOUS
    <2>1. RowInv(q)
      BY DEF IInv
    <2>2. QED
      BY <2>1, <1>3 DEF ProviderSettles, RowInv
  <1>5. \A t \in Thread : ThreadInv(t)'
    <2>. SUFFICES ASSUME NEW t \in Thread PROVE ThreadInv(t)'
      OBVIOUS
    <2>1. ThreadInv(t) /\ job' = job
      BY DEF IInv, ProviderSettles
    <2>2. QED
      BY <2>1, <1>3 DEF ProviderSettles, ThreadInv, Owning, Winning, Losing
  <1>6. OwnerInv'
    BY DEF IInv, ProviderSettles, OwnerInv
  <1>7. QED
    BY <1>2, <1>4, <1>5, <1>6 DEF IInv

LEMMA CrashInv ==
  ASSUME IInv, NEW t \in Thread, Crash(t)
  PROVE  IInv'
  <1>1. job' \in [Thread -> Job] /\ job'[t] = Idle /\ Others(t)
    BY FinishStep DEF IInv, Crash
  <1>2. TypeOK'
    BY <1>1 DEF IInv, TypeOK, Crash, money
  <1>3. \A q \in Recharge : SameRow(q)
    BY DEF Crash, money, SameRow
  <1>4. QED
    BY <1>1, <1>2, <1>3, VisitorStep, IdleThread

-----------------------------------------------------------------------------
(* Announcements and the claim.                                            *)

LEMMA CallbackInv ==
  ASSUME IInv, NEW t \in Thread, NEW r \in Recharge, HandlePaystackCallback(t, r)
  PROVE  IInv'
  <1>1. /\ job' \in [Thread -> Job] /\ Others(t)
        /\ job'[t].at = "verify" /\ job'[t].ref = r
    BY StartStep DEF IInv, HandlePaystackCallback, Labels
  <1>2. TypeOK'
    BY <1>1 DEF IInv, TypeOK, HandlePaystackCallback, money
  <1>3. \A q \in Recharge : SameRow(q)
    BY DEF HandlePaystackCallback, money, SameRow
  <1>4. ThreadInv(t)' /\ job'[t].at \notin Owning
    BY <1>1 DEF ThreadInv, Owning, Winning, Losing
  <1>5. QED
    BY <1>1, <1>2, <1>3, <1>4, VisitorStep

LEMMA VerifyInv ==
  ASSUME IInv, NEW t \in Thread, VerifyPaystackPayment(t)
  PROVE  IInv'
  <1>1. \A q \in Recharge : SameRow(q)
    BY DEF VerifyPaystackPayment, money, SameRow
  <1>2. CASE Finish(t)
    <2>1. job' \in [Thread -> Job] /\ job'[t] = Idle /\ Others(t)
      BY <1>2, FinishStep DEF IInv
    <2>2. TypeOK'
      BY <2>1 DEF IInv, TypeOK, VerifyPaystackPayment, money, bounds
    <2>3. QED
      BY <1>1, <2>1, <2>2, VisitorStep, IdleThread
  <1>3. CASE paid[job[t].ref] /\ Goto(t, "claim")
    <2>1. /\ job' \in [Thread -> Job] /\ Others(t)
          /\ job'[t].at = "claim" /\ job'[t].ref = job[t].ref
      BY <1>3, GotoStep DEF IInv, Labels
    <2>2. TypeOK'
      BY <2>1 DEF IInv, TypeOK, VerifyPaystackPayment, money, bounds
    <2>3. ThreadInv(t) /\ paid' = paid
      BY DEF IInv, VerifyPaystackPayment, money
    <2>4. ThreadInv(t)' /\ job'[t].at \notin Owning
      BY <1>3, <2>1, <2>3 DEF VerifyPaystackPayment, At, ThreadInv, Owning, Winning, Losing
    <2>5. QED
      BY <1>1, <2>1, <2>2, <2>4, VisitorStep
  <1>4. QED
    BY <1>2, <1>3 DEF VerifyPaystackPayment

LEMMA WebhookInv ==
  ASSUME IInv, NEW t \in Thread, NEW r \in Recharge, ProcessVTUPaystackWebhook(t, r)
  PROVE  IInv'
  <1>1. \A q \in Recharge : SameRow(q)
    BY DEF ProcessVTUPaystackWebhook, money, SameRow
  <1>2. announced' \in [Recharge -> Nat] /\ event' \in [Recharge -> BOOLEAN] /\ faults' \in Nat
    <2>1. announced' \in [Recharge -> Nat]
      BY DEF IInv, TypeOK, ProcessVTUPaystackWebhook
    <2>2. event' \in [Recharge -> BOOLEAN] /\ faults' \in Nat
      <3>1. event' = event \/ event' = [event EXCEPT ![r] = TRUE]
        BY DEF ProcessVTUPaystackWebhook
      <3>2. faults' = faults \/ faults' = faults + 1
        BY DEF ProcessVTUPaystackWebhook
      <3>3. event' \in [Recharge -> BOOLEAN]
        BY <3>1, FlagStep DEF IInv, TypeOK
      <3>4. faults' \in Nat
        BY <3>2 DEF IInv, TypeOK
      <3>5. QED
        BY <3>3, <3>4
    <2>3. QED
      BY <2>1, <2>2
  <1>3. CASE Start(t, "claim", r)
    <2>1. /\ job' \in [Thread -> Job] /\ Others(t)
          /\ job'[t].at = "claim" /\ job'[t].ref = r
      BY <1>3, StartStep DEF IInv, Labels
    <2>2. TypeOK'
      BY <1>2, <2>1 DEF IInv, TypeOK, ProcessVTUPaystackWebhook, money
    <2>3. ThreadInv(t)' /\ job'[t].at \notin Owning
      BY <2>1 DEF ProcessVTUPaystackWebhook, money, ThreadInv, Owning, Winning, Losing
    <2>4. QED
      BY <1>1, <2>1, <2>2, <2>3, VisitorStep
  <1>4. CASE job' = job
    <2>1. TypeOK'
      BY <1>4, <1>2 DEF IInv, TypeOK, ProcessVTUPaystackWebhook, money
    <2>2. Others(t)
      BY <1>4 DEF Others
    <2>3. ThreadInv(t)' /\ job'[t].at \notin Owning
      <3>1. ThreadInv(t) /\ paid' = paid /\ job[t].at = "idle"
        BY DEF IInv, ProcessVTUPaystackWebhook, money, At
      <3>2. QED
        BY <1>4, <3>1 DEF ThreadInv, Owning, Winning, Losing
    <2>4. QED
      BY <1>1, <2>1, <2>2, <2>3, VisitorStep
  <1>5. QED
    BY <1>3, <1>4 DEF ProcessVTUPaystackWebhook

\* The winner of the compare and swap is alone: an owner's row is never PENDING.
LEMMA ClaimInv ==
  ASSUME IInv, NEW t \in Thread, Claim(t)
  PROVE  IInv'
  <1>1. CASE Finish(t) /\ UNCHANGED status
    <2>1. job' \in [Thread -> Job] /\ job'[t] = Idle /\ Others(t)
      BY <1>1, FinishStep DEF IInv
    <2>2. TypeOK'
      BY <1>1, <2>1 DEF IInv, TypeOK, Claim, money
    <2>3. \A q \in Recharge : SameRow(q)
      BY <1>1 DEF Claim, money, SameRow
    <2>4. QED
      BY <2>1, <2>2, <2>3, VisitorStep, IdleThread
  <1>2. CASE /\ status[job[t].ref] = "PENDING" /\ Goto(t, "buy")
             /\ status' = [status EXCEPT ![job[t].ref] = "PROCESSING"]
             /\ UNCHANGED faults
    <2>1. PICK r \in Recharge : r = job[t].ref
      BY DEF IInv, ThreadInv, Claim, At
    <2>2. /\ job' \in [Thread -> Job] /\ Others(t)
          /\ job'[t].at = "buy" /\ job'[t].ref = r
      BY <1>2, <2>1, GotoStep DEF IInv, Labels, Owning
    <2>3. TypeOK'
      BY <1>2, <2>2 DEF IInv, TypeOK, Status, Claim, money
    <2>4. /\ status'[r] = "PROCESSING"
          /\ \A q \in Recharge \ {r} : status'[q] = status[q]
      BY <1>2, <2>1 DEF IInv, TypeOK
    <2>5. UNCHANGED money
      BY DEF Claim
    <2>6. ~tried[r] /\ paid[r] /\ order[r] = "none" /\ ~rewarded[r] /\ ~refunded[r]
      BY <1>2, <2>1 DEF IInv, RowInv, ThreadInv, Claim, At
    <2>7. \A q \in Recharge : RowInv(q)'
      BY <2>4, <2>5, <2>6 DEF IInv, RowInv, money
    <2>8. \A u \in Thread \ {t} : job[u].at \in Owning => job[u].ref # r
      BY <1>2, <2>1 DEF IInv, ThreadInv
    <2>9. \A u \in Thread : ThreadInv(u)'
      <3>. SUFFICES ASSUME NEW u \in Thread PROVE ThreadInv(u)'
        OBVIOUS
      <3>1. CASE u = t
        BY <2>2, <2>4, <2>5, <2>6, <3>1 DEF ThreadInv, money, Owning, Winning, Losing
      <3>2. CASE u # t
        <4>1. job'[u] = job[u] /\ ThreadInv(u)
          BY <2>2, <3>2 DEF IInv, Others
        <4>2. CASE job[u].at \in Owning
          <5>1. job[u].ref \in Recharge /\ status'[job[u].ref] = status[job[u].ref]
            BY <2>4, <2>8, <3>2, <4>1, <4>2 DEF ThreadInv, Owning, Winning, Losing
          <5>2. QED
            BY <2>5, <4>1, <5>1 DEF ThreadInv, money
        <4>3. CASE job[u].at \notin Owning
          BY <2>5, <4>1, <4>3 DEF ThreadInv, money, Owning, Winning, Losing
        <4>4. QED
          BY <4>2, <4>3
      <3>3. QED
        BY <3>1, <3>2
    <2>10. OwnerInv'
      BY <2>2, <2>8 DEF IInv, OwnerInv, Others
    <2>11. QED
      BY <2>3, <2>7, <2>9, <2>10 DEF IInv
  <1>3. QED
    BY <1>1, <1>2 DEF Claim

-----------------------------------------------------------------------------
(* Fulfilment and refund: the steps of the owner.                          *)

LEMMA StatusStep ==
  ASSUME TypeOK, NEW r \in Recharge, NEW s \in Status, SetStatus(r, s)
  PROVE  /\ status' \in [Recharge -> Status] /\ faults' \in Nat
         /\ status'[r] \in {status[r], s}
         /\ \A q \in Recharge \ {r} : status'[q] = status[q]
  <1>1. CASE status' = [status EXCEPT ![r] = s] /\ UNCHANGED faults
    BY <1>1 DEF TypeOK
  <1>2. CASE faults' = faults + 1 /\ UNCHANGED status
    BY <1>2 DEF TypeOK
  <1>3. QED
    BY <1>1, <1>2 DEF SetStatus

LEMMA OwnsRow ==
  ASSUME IInv, NEW t \in Thread, job[t].at \in Owning
  PROVE  \E r \in Recharge : r = job[t].ref
  BY DEF IInv, ThreadInv, Owning, Winning, Losing

LEMMA MarkSuccessInv ==
  ASSUME IInv, NEW t \in Thread, MarkSuccess(t)
  PROVE  IInv'
  <1>1. job[t].at = "succeed" /\ job[t].at \in Owning
    BY DEF MarkSuccess, At, Owning, Winning
  <1>2. PICK r \in Recharge : r = job[t].ref
    BY <1>1, OwnsRow
  <1>3. /\ status' \in [Recharge -> Status] /\ faults' \in Nat
        /\ status'[r] \in {status[r], "SUCCESS"}
        /\ \A q \in Recharge \ {r} : status'[q] = status[q]
    BY <1>2, StatusStep DEF IInv, MarkSuccess, Status
  <1>4. /\ job' \in [Thread -> Job] /\ Others(t)
        /\ job'[t].at = "award" /\ job'[t].ref = r
    BY <1>2, GotoStep DEF IInv, MarkSuccess, Labels, Owning, Winning
  <1>5. TypeOK'
    BY <1>3, <1>4 DEF IInv, TypeOK, MarkSuccess, money
  <1>6. UNCHANGED money /\ \A q \in Recharge \ {r} : SameRow(q)
    BY <1>3 DEF MarkSuccess, money, SameRow
  <1>7. RowInv(r) /\ ThreadInv(t)
    BY DEF IInv
  <1>8. RowInv(r)'
    BY <1>1, <1>2, <1>3, <1>6, <1>7 DEF RowInv, ThreadInv, money, Owning, Winning, Losing
  <1>9. ThreadInv(t)'
    BY <1>1, <1>2, <1>3, <1>4, <1>6, <1>7 DEF ThreadInv, money, Owning, Winning, Losing
  <1>10. QED
    BY <1>1, <1>2, <1>4, <1>5, <1>6, <1>8, <1>9, OwnerStep DEF money

LEMMA AwardInv ==
  ASSUME IInv, NEW t \in Thread, AwardPoints(t)
  PROVE  IInv'
  <1>1. job[t].at = "award" /\ job[t].at \in Owning
    BY DEF AwardPoints, At, Owning, Winning
  <1>2. PICK r \in Recharge : r = job[t].ref
    BY <1>1, OwnsRow
  <1>3. /\ rewarded' \in [Recharge -> BOOLEAN]
        /\ \A q \in Recharge \ {r} : rewarded'[q] = rewarded[q]
    BY <1>2 DEF IInv, TypeOK, AwardPoints
  <1>4. job' \in [Thread -> Job] /\ job'[t] = Idle /\ Others(t)
    BY FinishStep DEF IInv, AwardPoints
  <1>5. TypeOK'
    BY <1>3, <1>4 DEF IInv, TypeOK, AwardPoints, bounds
  <1>6. \A q \in Recharge \ {r} : SameRow(q)
    BY <1>3 DEF AwardPoints, SameRow
  <1>7. RowInv(r) /\ ThreadInv(t)
    BY DEF IInv
  <1>8. RowInv(r)'
    BY <1>1, <1>2, <1>7 DEF AwardPoints, RowInv, ThreadInv, Owning, Winning, Losing
  <1>9. ThreadInv(t)' /\ job'[t].at \notin Owning /\ paid' = paid
    BY <1>4, IdleThread DEF AwardPoints
  <1>10. QED
    BY <1>1, <1>2, <1>4, <1>5, <1>6, <1>8, <1>9, OwnerStep

LEMMA MarkFailedInv ==
  ASSUME IInv, NEW t \in Thread, MarkFailed(t)
  PROVE  IInv'
  <1>1. job[t].at = "fail" /\ job[t].at \in Owning
    BY DEF MarkFailed, At, Owning, Losing
  <1>2. PICK r \in Recharge : r = job[t].ref
    BY <1>1, OwnsRow
  <1>3. /\ status' \in [Recharge -> Status] /\ faults' \in Nat
        /\ status'[r] \in {status[r], "FAILED"}
        /\ \A q \in Recharge \ {r} : status'[q] = status[q]
    BY <1>2, StatusStep DEF IInv, MarkFailed, Status
  <1>4. /\ job' \in [Thread -> Job] /\ Others(t)
        /\ job'[t].at = "refund" /\ job'[t].ref = r
    BY <1>2, GotoStep DEF IInv, MarkFailed, Labels, Owning, Losing
  <1>5. TypeOK'
    BY <1>3, <1>4 DEF IInv, TypeOK, MarkFailed, money
  <1>6. UNCHANGED money /\ \A q \in Recharge \ {r} : SameRow(q)
    BY <1>3 DEF MarkFailed, money, SameRow
  <1>7. RowInv(r) /\ ThreadInv(t)
    BY DEF IInv
  <1>8. RowInv(r)'
    BY <1>1, <1>2, <1>3, <1>6, <1>7 DEF RowInv, ThreadInv, money, Owning, Winning, Losing
  <1>9. ThreadInv(t)'
    BY <1>1, <1>2, <1>3, <1>4, <1>6, <1>7 DEF ThreadInv, money, Owning, Winning, Losing
  <1>10. QED
    BY <1>1, <1>2, <1>4, <1>5, <1>6, <1>8, <1>9, OwnerStep DEF money

LEMMA MarkCancelledInv ==
  ASSUME IInv, NEW t \in Thread, MarkCancelled(t)
  PROVE  IInv'
  <1>1. job[t].at = "cancel" /\ job[t].at \in Owning
    BY DEF MarkCancelled, At, Owning, Losing
  <1>2. PICK r \in Recharge : r = job[t].ref
    BY <1>1, OwnsRow
  <1>3. /\ status' \in [Recharge -> Status] /\ faults' \in Nat
        /\ status'[r] \in {status[r], "CANCELLED"}
        /\ \A q \in Recharge \ {r} : status'[q] = status[q]
    BY <1>2, StatusStep DEF IInv, MarkCancelled, Status
  <1>4. job' \in [Thread -> Job] /\ job'[t] = Idle /\ Others(t)
    BY FinishStep DEF IInv, MarkCancelled
  <1>5. TypeOK'
    BY <1>3, <1>4 DEF IInv, TypeOK, MarkCancelled, money
  <1>6. UNCHANGED money /\ \A q \in Recharge \ {r} : SameRow(q)
    BY <1>3 DEF MarkCancelled, money, SameRow
  <1>7. RowInv(r) /\ ThreadInv(t)
    BY DEF IInv
  <1>8. RowInv(r)'
    BY <1>1, <1>2, <1>3, <1>6, <1>7 DEF RowInv, ThreadInv, money, Owning, Winning, Losing
  <1>9. ThreadInv(t)' /\ job'[t].at \notin Owning
    BY <1>4, IdleThread
  <1>10. QED
    BY <1>1, <1>2, <1>4, <1>5, <1>6, <1>8, <1>9, OwnerStep DEF money

\* Whatever the answer, the one attempt leaves the row tried; only a clear delivery
\* leads to success, and a blind failure is marked as such.
LEMMA PurchaseInv ==
  ASSUME IInv, NEW t \in Thread, Purchase(t)
  PROVE  IInv'
  <1>1. job[t].at = "buy" /\ job[t].at \in Owning
    BY DEF Purchase, At, Owning
  <1>2. PICK r \in Recharge : r = job[t].ref
    BY <1>1, OwnsRow
  <1>3. PICK o \in Orders, label \in {"succeed", "requery", "fail"} :
          /\ order' = [order EXCEPT ![r] = o] /\ Goto(t, label)
          /\ blind' = blind \/ blind' = [blind EXCEPT ![r] = TRUE]
          /\ label = "succeed" => o = "delivered"
          /\ label = "fail" /\ o \in {"pending", "delivered"} => blind' = [blind EXCEPT ![r] = TRUE]
          /\ lost' = lost \/ lost' = lost + 1
    <2>1. CASE /\ \E o \in Orders :
                    /\ order' = [order EXCEPT ![r] = o]
                    /\ Goto(t, CASE o = "delivered" -> "succeed"
                                 [] o = "pending" -> "requery"
                                 [] OTHER -> "fail")
               /\ UNCHANGED <<blind, lost>>
      BY <2>1 DEF Orders
    <2>2. CASE /\ LoseAnswer
               /\ \E o \in {"pending", "delivered"} : order' = [order EXCEPT ![r] = o]
               /\ blind' = [blind EXCEPT ![r] = TRUE]
               /\ Goto(t, "fail")
      BY <2>2 DEF Orders, LoseAnswer
    <2>3. QED
      BY <1>2, <2>1, <2>2 DEF Purchase
  <1>4. /\ job' \in [Thread -> Job] /\ Others(t)
        /\ job'[t].at = label /\ job'[t].ref = r
    BY <1>2, <1>3, GotoStep DEF IInv, Labels, Owning, Winning, Losing
  <1>5. /\ order' \in [Recharge -> Orders] /\ blind' \in [Recharge -> BOOLEAN]
        /\ tried' \in [Recharge -> BOOLEAN] /\ lost' \in Nat
        /\ order'[r] = o /\ tried'[r]
        /\ blind[r] => blind'[r]
        /\ label = "fail" /\ o \in {"pending", "delivered"} => blind'[r]
        /\ \A q \in Recharge \ {r} :
             order'[q] = order[q] /\ tried'[q] = tried[q] /\ blind'[q] = blind[q]
    <2>1. /\ order' \in [Recharge -> Orders] /\ order'[r] = o
          /\ \A q \in Recharge \ {r} : order'[q] = order[q]
      BY <1>3 DEF IInv, TypeOK
    <2>2. /\ blind' \in [Recharge -> BOOLEAN] /\ (blind[r] => blind'[r])
          /\ \A q \in Recharge \ {r} : blind'[q] = blind[q]
      BY <1>3, FlagStep DEF IInv, TypeOK
    <2>3. label = "fail" /\ o \in {"pending", "delivered"} => blind'[r]
      BY <1>3 DEF IInv, TypeOK
    <2>4. /\ tried' \in [Recharge -> BOOLEAN] /\ tried'[r]
          /\ \A q \in Recharge \ {r} : tried'[q] = tried[q]
      BY <1>2 DEF IInv, TypeOK, Purchase
    <2>5. lost' \in Nat
      BY <1>3 DEF IInv, TypeOK
    <2>6. QED
      BY <2>1, <2>2, <2>3, <2>4, <2>5
  <1>6. TypeOK'
    BY <1>4, <1>5 DEF IInv, TypeOK, Purchase
  <1>7. \A q \in Recharge \ {r} : SameRow(q)
    BY <1>5 DEF Purchase, SameRow
  <1>8. RowInv(r) /\ ThreadInv(t)
    BY DEF IInv
  <1>9. RowInv(r)'
    BY <1>1, <1>2, <1>5, <1>8 DEF Purchase, RowInv, ThreadInv, Owning
  <1>10. ThreadInv(t)'
    BY <1>1, <1>2, <1>3, <1>4, <1>5, <1>8 DEF Purchase, ThreadInv, Owning, Winning, Losing
  <1>11. QED
    BY <1>1, <1>2, <1>4, <1>6, <1>7, <1>9, <1>10, OwnerStep DEF Purchase

LEMMA RequeryInv ==
  ASSUME IInv, NEW t \in Thread, Requery(t)
  PROVE  IInv'
  <1>1. job[t].at = "requery" /\ job[t].at \in Owning
    BY DEF Requery, At, Owning
  <1>2. PICK r \in Recharge : r = job[t].ref
    BY <1>1, OwnsRow
  <1>3. UNCHANGED <<status, money>> /\ \A q \in Recharge : SameRow(q)
    BY DEF Requery, money, SameRow
  <1>4. RowInv(r) /\ ThreadInv(t)
    BY DEF IInv
  <1>5. RowInv(r)'
    BY <1>3, <1>4 DEF RowInv, money
  <1>6. faults' \in Nat
    BY DEF IInv, TypeOK, Requery
  <1>7. CASE Goto(t, "ask")
    <2>1. /\ job' \in [Thread -> Job] /\ Others(t)
          /\ job'[t].at = "ask" /\ job'[t].ref = r
      BY <1>2, <1>7, GotoStep DEF IInv, Labels, Owning
    <2>2. TypeOK'
      BY <1>6, <2>1 DEF IInv, TypeOK, Requery, money
    <2>3. ThreadInv(t)'
      BY <1>1, <1>2, <1>3, <1>4, <2>1 DEF ThreadInv, money, Owning, Winning, Losing
    <2>4. QED
      BY <1>1, <1>2, <1>3, <1>5, <2>1, <2>2, <2>3, OwnerStep DEF money
  <1>8. CASE Finish(t)
    <2>1. job' \in [Thread -> Job] /\ job'[t] = Idle /\ Others(t)
      BY <1>8, FinishStep DEF IInv
    <2>2. TypeOK'
      BY <1>6, <2>1 DEF IInv, TypeOK, Requery, money
    <2>3. QED
      BY <1>3, <2>1, <2>2, VisitorStep, IdleThread
  <1>9. QED
    BY <1>7, <1>8 DEF Requery

\* A question that is not the last goes back to sleep; the last gives up blindly.
LEMMA AskStep ==
  ASSUME TypeOK, NEW t \in Thread, NEW r \in Recharge, r = job[t].ref, AskAgain(t)
  PROVE  /\ job' \in [Thread -> Job] /\ Others(t) /\ job'[t].ref = r
         /\ \/ job'[t].at = "requery" /\ blind' = blind
            \/ job'[t].at = "fail" /\ blind' = [blind EXCEPT ![r] = TRUE]
  <1>1. CASE job[t].tries < RequeryTries
    <2>1. job[t] \in Job /\ job[t].tries + 1 \in 1 .. RequeryTries
      BY <1>1 DEF TypeOK, Job
    <2>2. job' = [job EXCEPT ![t].at = "requery", ![t].tries = @ + 1] /\ blind' = blind
      BY <1>1 DEF AskAgain
    <2>3. job'[t] = [at |-> "requery", ref |-> r, tries |-> job[t].tries + 1]
      BY <2>1, <2>2 DEF TypeOK, Job
    <2>4. job'[t] \in Job
      BY <2>1, <2>3 DEF Job, Labels, Owning
    <2>5. job' \in [Thread -> Job] /\ Others(t)
      BY <2>2, <2>4 DEF TypeOK, Others
    <2>6. QED
      BY <2>2, <2>3, <2>5
  <1>2. CASE ~(job[t].tries < RequeryTries)
    BY <1>2, GotoStep DEF AskAgain, Labels, Owning, Losing
  <1>3. QED
    BY <1>1, <1>2

LEMMA RequeryTransactionInv ==
  ASSUME IInv, NEW t \in Thread, RequeryTransaction(t)
  PROVE  IInv'
  <1>1. job[t].at = "ask" /\ job[t].at \in Owning
    BY DEF RequeryTransaction, At, Owning
  <1>2. PICK r \in Recharge : r = job[t].ref
    BY <1>1, OwnsRow
  <1>3. /\ job' \in [Thread -> Job] /\ Others(t) /\ job'[t].ref = r
        /\ \/ job'[t].at = "requery" /\ blind' = blind
           \/ job'[t].at = "succeed" /\ blind' = blind /\ order[r] = "delivered"
           \/ job'[t].at = "fail" /\ blind' = blind /\ order[r] = "refused"
           \/ job'[t].at = "fail" /\ blind' = [blind EXCEPT ![r] = TRUE]
    <2>1. CASE order[r] = "delivered" /\ Goto(t, "succeed") /\ blind' = blind
      BY <1>2, <2>1, GotoStep DEF IInv, Labels, Owning, Winning
    <2>2. CASE order[r] = "refused" /\ Goto(t, "fail") /\ blind' = blind
      BY <1>2, <2>2, GotoStep DEF IInv, Labels, Owning, Losing
    <2>3. CASE AskAgain(t)
      BY <1>2, <2>3, AskStep DEF IInv
    <2>4. CASE Goto(t, "fail") /\ blind' = [blind EXCEPT ![r] = TRUE]
      BY <1>2, <2>4, GotoStep DEF IInv, Labels, Owning, Losing
    <2>5. QED
      BY <1>2, <2>1, <2>2, <2>3, <2>4 DEF RequeryTransaction
  <1>4. /\ blind' \in [Recharge -> BOOLEAN] /\ lost' \in Nat
        /\ blind[r] => blind'[r]
        /\ job'[t].at = "fail" /\ order[r] # "refused" => blind'[r]
        /\ \A q \in Recharge \ {r} : blind'[q] = blind[q]
    <2>1. lost' = lost \/ lost' = lost + 1
      BY DEF RequeryTransaction, LoseAnswer
    <2>2. lost' \in Nat
      BY <2>1 DEF IInv, TypeOK
    <2>3. /\ blind' \in [Recharge -> BOOLEAN] /\ (blind[r] => blind'[r])
          /\ \A q \in Recharge \ {r} : blind'[q] = blind[q]
      BY <1>3, FlagStep DEF IInv, TypeOK
    <2>4. job'[t].at = "fail" /\ order[r] # "refused" => blind'[r]
      BY <1>3 DEF IInv, TypeOK
    <2>5. QED
      BY <2>2, <2>3, <2>4
  <1>5. TypeOK'
    BY <1>3, <1>4 DEF IInv, TypeOK, RequeryTransaction
  <1>6. \A q \in Recharge \ {r} : SameRow(q)
    BY <1>4 DEF RequeryTransaction, SameRow
  <1>7. RowInv(r) /\ ThreadInv(t)
    BY DEF IInv
  <1>8. RowInv(r)'
    BY <1>4, <1>7 DEF RequeryTransaction, RowInv
  <1>9. ThreadInv(t)'
    BY <1>1, <1>2, <1>3, <1>4, <1>7 DEF RequeryTransaction, ThreadInv, Owning, Winning, Losing
  <1>10. QED
    BY <1>1, <1>2, <1>3, <1>5, <1>6, <1>8, <1>9, OwnerStep DEF RequeryTransaction

\* The one refund follows a failure; it is the owner's, so it comes once.
LEMMA IssueRefundInv ==
  ASSUME IInv, NEW t \in Thread, IssueRefund(t)
  PROVE  IInv'
  <1>1. job[t].at = "refund" /\ job[t].at \in Owning
    BY DEF IssueRefund, At, Owning, Losing
  <1>2. PICK r \in Recharge : r = job[t].ref
    BY <1>1, OwnsRow
  <1>3. /\ refunded' \in [Recharge -> BOOLEAN] /\ logged' \in [Recharge -> BOOLEAN]
        /\ lost' \in Nat
        /\ \A q \in Recharge \ {r} : refunded'[q] = refunded[q]
    <2>1. /\ refunded' = refunded \/ refunded' = [refunded EXCEPT ![r] = TRUE]
          /\ logged' = logged \/ logged' = [logged EXCEPT ![r] = TRUE]
          /\ lost' = lost \/ lost' = lost + 1
      BY <1>2 DEF IssueRefund, LoseAnswer
    <2>2. /\ refunded' \in [Recharge -> BOOLEAN] /\ logged' \in [Recharge -> BOOLEAN]
          /\ \A q \in Recharge \ {r} : refunded'[q] = refunded[q]
      BY <2>1, FlagStep DEF IInv, TypeOK
    <2>3. lost' \in Nat
      BY <2>1 DEF IInv, TypeOK
    <2>4. QED
      BY <2>2, <2>3
  <1>4. /\ job' \in [Thread -> Job] /\ Others(t)
        /\ \/ job'[t].at = "cancel" /\ job'[t].ref = r /\ refunded'[r]
           \/ job'[t] = Idle
    <2>1. CASE Goto(t, "cancel") /\ refunded' = [refunded EXCEPT ![r] = TRUE]
      <3>1. refunded'[r]
        BY <2>1 DEF IInv, TypeOK
      <3>2. QED
        BY <1>2, <2>1, <3>1, GotoStep DEF IInv, Labels, Owning, Losing
    <2>2. CASE Finish(t)
      BY <2>2, FinishStep DEF IInv
    <2>3. QED
      BY <1>2, <2>1, <2>2 DEF IssueRefund
  <1>5. TypeOK'
    BY <1>3, <1>4 DEF IInv, TypeOK, IssueRefund
  <1>6. \A q \in Recharge \ {r} : SameRow(q)
    BY <1>3 DEF IssueRefund, SameRow
  <1>7. RowInv(r) /\ ThreadInv(t)
    BY DEF IInv
  <1>8. RowInv(r)'
    <2>1. /\ status[r] \in {"PROCESSING", "FAILED"} /\ tried[r] /\ ~rewarded[r]
          /\ order[r] \in {"pending", "delivered"} => blind[r]
      BY <1>1, <1>2, <1>7 DEF ThreadInv, Owning, Winning, Losing
    <2>2. QED
      BY <1>7, <2>1 DEF IssueRefund, RowInv
  <1>9. ThreadInv(t)' /\ (job'[t].at \in Owning => job'[t].ref = r)
    <2>1. CASE job'[t] = Idle
      BY <2>1, IdleThread
    <2>2. CASE job'[t].at = "cancel" /\ job'[t].ref = r /\ refunded'[r]
      BY <1>1, <1>2, <1>7, <2>2 DEF IssueRefund, ThreadInv, Owning, Winning, Losing
    <2>3. QED
      BY <1>4, <2>1, <2>2
  <1>10. QED
    BY <1>1, <1>2, <1>4, <1>5, <1>6, <1>8, <1>9, OwnerStep DEF IssueRefund

-----------------------------------------------------------------------------
(* The theorems.                                                           *)

LEMMA NextInv == IInv /\ [Next]_vars => IInv'
  <1>. SUFFICES ASSUME IInv, [Next]_vars PROVE IInv'
    OBVIOUS
  <1>1. CASE UNCHANGED vars
    BY <1>1, StutterInv
  <1>2. ASSUME NEW r \in Recharge, InitiateRecharge(r) \/ Charge(r) \/ ProviderSettles(r)
        PROVE  IInv'
    BY <1>2, InitiateInv, ChargeInv, SettlesInv
  <1>3. ASSUME NEW t \in Thread, Progress(t)
        PROVE  IInv'
    BY <1>3, VerifyInv, ClaimInv, PurchaseInv, RequeryInv, RequeryTransactionInv,
       MarkSuccessInv, AwardInv, MarkFailedInv, IssueRefundInv, MarkCancelledInv DEF Progress
  <1>4. ASSUME NEW t \in Thread, Crash(t)
        PROVE  IInv'
    BY <1>4, CrashInv
  <1>5. ASSUME NEW t \in Thread, NEW r \in Recharge, Arrival(t, r)
        PROVE  IInv'
    BY <1>5, CallbackInv, WebhookInv DEF Arrival
  <1>6. QED
    BY <1>1, <1>2, <1>3, <1>4, <1>5 DEF Next

\* IInv holds in every reachable state.
THEOREM Inductive == Spec => []IInv
  BY InitInv, NextInv, PTL DEF Spec

\* Every variable keeps to its type: VTPass is asked at most RequeryTries times.
THEOREM TypeCorrect == Spec => []TypeOK
  <1>1. IInv => TypeOK
    BY DEF IInv
  <1>2. QED
    BY Inductive, <1>1, PTL

\* A recharge shown as successful was delivered, and its payment is kept.
THEOREM SuccessDelivered == Spec => []SuccessIsDelivered
  <1>1. IInv => SuccessIsDelivered
    BY DEF IInv, RowInv, SuccessIsDelivered
  <1>2. QED
    BY Inductive, <1>1, PTL

\* A recharge shown as cancelled was refunded.
THEOREM CancelledRefunded == Spec => []CancelledIsRefunded
  <1>1. IInv => CancelledIsRefunded
    BY DEF IInv, RowInv, CancelledIsRefunded
  <1>2. QED
    BY Inductive, <1>1, PTL

\* Only an answer that never came or could not be read lets the platform give away both
\* the airtime and the money.
THEOREM DeliveredKept == Spec => []DeliveredIsKept
  <1>1. IInv => DeliveredIsKept
    BY DEF IInv, RowInv, DeliveredIsKept
  <1>2. QED
    BY Inductive, <1>1, PTL

LEMMA InitPromise == Init => Promise!PromiseInit
  BY DEF Init, Promise!PromiseInit

\* What the owner does with the money is a step of the promise; all else is a stutter.
LEMMA StepPromise == IInv /\ [Next]_vars => [Promise!PromiseNext]_(Promise!promiseVars)
  <1>. SUFFICES ASSUME IInv, [Next]_vars
                PROVE  [Promise!PromiseNext]_(Promise!promiseVars)
    OBVIOUS
  <1>. DEFINE still == UNCHANGED <<paid, tried, order, rewarded, refunded>>
  <1>1. still => UNCHANGED Promise!promiseVars
    BY DEF Promise!promiseVars
  <1>2. CASE UNCHANGED vars
    BY <1>1, <1>2 DEF vars, money
  <1>3. ASSUME NEW r \in Recharge, InitiateRecharge(r) \/ Charge(r) \/ ProviderSettles(r)
        PROVE  still \/ Promise!PromiseNext
    <2>1. CASE InitiateRecharge(r)
      BY <2>1 DEF InitiateRecharge, money
    <2>2. CASE Charge(r)
      BY <2>2 DEF Charge, Promise!PromiseNext, Promise!Pay
    <2>3. CASE ProviderSettles(r)
      BY <2>3 DEF ProviderSettles, Promise!PromiseNext, Promise!Settle
    <2>4. QED
      BY <1>3, <2>1, <2>2, <2>3
  <1>4. ASSUME NEW t \in Thread, Purchase(t)
        PROVE  Promise!PromiseNext
    <2>1. job[t].at = "buy" /\ job[t].at \in Owning
      BY <1>4 DEF Purchase, At, Owning
    <2>2. PICK r \in Recharge : r = job[t].ref
      BY <2>1, OwnsRow
    <2>3. paid[r] /\ ~tried[r]
      BY <2>1, <2>2 DEF IInv, ThreadInv
    <2>4. \E o \in Promise!Orders : order' = [order EXCEPT ![r] = o]
      BY <1>4, <2>2 DEF Purchase, Orders, Promise!Orders
    <2>5. Promise!Buy(r)
      BY <1>4, <2>2, <2>3, <2>4 DEF Purchase, Promise!Buy
    <2>6. QED
      BY <2>5 DEF Promise!PromiseNext
  <1>5. ASSUME NEW t \in Thread, AwardPoints(t)
        PROVE  still \/ Promise!PromiseNext
    <2>1. job[t].at = "award" /\ job[t].at \in Owning
      BY <1>5 DEF AwardPoints, At, Owning, Winning
    <2>2. PICK r \in Recharge : r = job[t].ref
      BY <2>1, OwnsRow
    <2>3. order[r] = "delivered" /\ ~rewarded[r] /\ ~refunded[r]
      BY <2>1, <2>2 DEF IInv, ThreadInv, Owning, Winning
    <2>4. rewarded' = rewarded \/ rewarded' = [rewarded EXCEPT ![r] = TRUE]
      BY <1>5, <2>2 DEF AwardPoints
    <2>5. still \/ Promise!Reward(r)
      BY <1>5, <2>3, <2>4 DEF AwardPoints, Promise!Reward
    <2>6. QED
      BY <2>5 DEF Promise!PromiseNext
  <1>6. ASSUME NEW t \in Thread, IssueRefund(t)
        PROVE  still \/ Promise!PromiseNext
    <2>1. job[t].at = "refund" /\ job[t].at \in Owning
      BY <1>6 DEF IssueRefund, At, Owning, Losing
    <2>2. PICK r \in Recharge : r = job[t].ref
      BY <2>1, OwnsRow
    <2>3. tried[r] /\ ~rewarded[r] /\ ~refunded[r]
      BY <2>1, <2>2 DEF IInv, ThreadInv
    <2>4. refunded' = refunded \/ refunded' = [refunded EXCEPT ![r] = TRUE]
      BY <1>6, <2>2 DEF IssueRefund
    <2>5. still \/ Promise!Refund(r)
      BY <1>6, <2>3, <2>4 DEF IssueRefund, Promise!Refund
    <2>6. QED
      BY <2>5 DEF Promise!PromiseNext
  <1>7. ASSUME NEW t \in Thread, Progress(t)
        PROVE  still \/ Promise!PromiseNext
    <2>1. CASE VerifyPaystackPayment(t) \/ Claim(t) \/ Requery(t)
      BY <2>1 DEF VerifyPaystackPayment, Claim, Requery, money
    <2>2. CASE MarkSuccess(t) \/ MarkFailed(t) \/ MarkCancelled(t)
      BY <2>2 DEF MarkSuccess, MarkFailed, MarkCancelled, money
    <2>3. CASE RequeryTransaction(t)
      BY <2>3 DEF RequeryTransaction
    <2>4. QED
      BY <1>4, <1>5, <1>6, <1>7, <2>1, <2>2, <2>3 DEF Progress
  <1>8. ASSUME NEW t \in Thread, Crash(t) \/ \E r \in Recharge : Arrival(t, r)
        PROVE  still
    BY <1>8 DEF Crash, Arrival, HandlePaystackCallback, ProcessVTUPaystackWebhook, money
  <1>9. QED
    BY <1>1, <1>2, <1>3, <1>7, <1>8 DEF Next

\* The goroutines, webhooks and callbacks implement the promise.
THEOREM KeepsPromise == Spec => RefinesPromise
  <1>1. Init => Promise!PromiseInit
    BY InitPromise
  <1>2. IInv /\ [Next]_vars => [Promise!PromiseNext]_(Promise!promiseVars)
    BY StepPromise
  <1>3. QED
    BY <1>1, <1>2, Inductive, PTL DEF Spec, RefinesPromise, Promise!PromiseSpec

==============================================================================
