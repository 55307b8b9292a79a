------------------------- MODULE RechargeAwardProofs -------------------------
(***************************************************************************)
(* Proofs about RechargeAward for any number of recharges and handlers,    *)
(* any amounts, rates and tiers.                                           *)
(***************************************************************************)
EXTENDS RechargeAward, FiniteSetTheorems, TLAPS

\* The state of one handler.
JobRecord == [pc : Pc, ref : Recharge \cup {NoJob}, wallet : Wallet, user : User,
              earned : Reward]

\* The sums of the ledger.
LedgerRow == [refs : SUBSET Recharge, amount : Nat, points : Nat, prizes : Nat, bonus : Nat,
              spins : Nat, entries : Nat]

-----------------------------------------------------------------------------
(* Rewards.                                                                *)

LEMMA TierSpinsNat == ASSUME NEW total PROVE TierSpins(total) \in Nat
  <1>. DEFINE bands == {b \in Tier : b.min <= total /\ total <= b.max}
  <1>1. CASE bands = {}
    BY <1>1 DEF TierSpins
  <1>2. CASE bands # {}
    <2>1. (CHOOSE b \in bands : TRUE) \in bands
      BY <1>2
    <2>2. (CHOOSE b \in bands : TRUE) \in Tier
      BY <2>1
    <2>3. QED
      BY <1>2, <2>2, TierBands DEF TierSpins
  <1>3. QED
    BY <1>1, <1>2

\* What is due never takes a day beyond the cap.
LEMMA SpinsDueBounded ==
  ASSUME NEW total, NEW already \in Nat
  PROVE  /\ SpinsDue(total, already) \in Nat
         /\ already <= SpinMaxPerDay => already + SpinsDue(total, already) <= SpinMaxPerDay
  <1>1. SpinMaxPerDay \in Nat
    BY Quantities
  <1>2. QED
    BY <1>1, TierSpinsNat DEF SpinsDue

\* Division by a unit: a quotient and a remainder that together lose nothing.
LEMMA Division ==
  ASSUME NEW n \in Nat, NEW unit \in Nat \ {0}
  PROVE  /\ n \div unit \in Nat /\ n % unit \in Nat
         /\ unit * (n \div unit) + (n % unit) = n
  <1>. DEFINE q == n \div unit
              r == n % unit
  <1>1. q \in Nat /\ r \in Nat
    OBVIOUS
  <1>2. n = unit * q + r
    BY Z3
  <1>3. QED
    BY <1>1, <1>2

LEMMA EarnedType ==
  ASSUME NEW w \in Wallet, NEW amount \in Nat
  PROVE  Earned(w, amount) \in Reward
  <1>. DEFINE p == w.pulse + amount
              d == w.draw + amount
              k == w.kobo + amount
  <1>1. p \in Nat /\ d \in Nat /\ k \in Nat /\ w.dspins \in Nat
    BY DEF Wallet
  <1>2. p \div PulseUnit \in Nat /\ d \div DrawUnit \in Nat
    BY <1>1, Division, Quantities
  <1>3. SpinsDue(k, w.dspins) \in Nat
    BY <1>1, SpinsDueBounded
  <1>4. QED
    BY <1>2, <1>3 DEF Earned, Reward

LEMMA FreshType ==
  ASSUME NEW w \in Wallet, NEW d \in Nat
  PROVE  /\ Fresh(w, d) \in Wallet
         /\ Fresh(w, d).pulse = w.pulse
         /\ Fresh(w, d).day >= w.day /\ Fresh(w, d).day >= d
         /\ Fresh(w, d).day \in {w.day, d}
         /\ w.day >= d => Fresh(w, d) = w
         /\ w.day < d => Fresh(w, d).dspins = 0
  <1>. DEFINE new == [w EXCEPT !.kobo = 0, !.dspins = 0, !.draw = 0, !.day = d]
  <1>1. w.day \in Nat
    BY DEF Wallet
  <1>2. CASE w.day < d
    <2>1. Fresh(w, d) = new
      BY <1>2 DEF Fresh
    <2>2. /\ new \in Wallet
          /\ new.pulse = w.pulse /\ new.dspins = 0 /\ new.day = d
      BY DEF Wallet
    <2>. HIDE DEF new
    <2>3. QED
      BY <1>1, <1>2, <2>1, <2>2
  <1>3. CASE ~(w.day < d)
    BY <1>1, <1>3 DEF Fresh
  <1>4. QED
    BY <1>2, <1>3

\* The row an award writes is the row plus what was earned.
LEMMA AwardedType ==
  ASSUME NEW row \in Wallet, NEW seen \in Wallet, NEW amount \in Nat
  PROVE  LET e == Earned(seen, amount)
             new == Awarded(row, seen, amount)
         IN  /\ e \in Reward /\ new \in Wallet
             /\ new.points = row.points + e.points
             /\ new.spins = row.spins + e.spins
             /\ new.dspins = seen.dspins + e.spins
             /\ new.pulse = (seen.pulse + amount) % PulseUnit
             /\ new.day = seen.day
  <1>. DEFINE e == Earned(seen, amount)
              points == row.points + e.points
              spins == row.spins + e.spins
              pulse == (seen.pulse + amount) % PulseUnit
              draw == (seen.draw + amount) % DrawUnit
              kobo == seen.kobo + amount
              dspins == seen.dspins + e.spins
              new == [row EXCEPT !.points = points, !.spins = spins, !.pulse = pulse,
                                 !.draw = draw, !.kobo = kobo, !.dspins = dspins,
                                 !.day = seen.day]
  <1>1. e \in Reward
    BY EarnedType
  <1>2. pulse \in Nat /\ draw \in Nat
    <2>1. seen.pulse + amount \in Nat /\ seen.draw + amount \in Nat
      BY DEF Wallet
    <2>2. QED
      BY <2>1, Division, Quantities
  <1>3. Awarded(row, seen, amount) = new
    BY DEF Awarded
  <1>. HIDE DEF e
  <1>4. points \in Nat /\ spins \in Nat /\ kobo \in Nat /\ dspins \in Nat /\ seen.day \in Nat
    BY <1>1 DEF Wallet, Reward
  <1>. HIDE DEF points, spins, pulse, draw, kobo, dspins
  <1>5. /\ new \in Wallet
        /\ new.points = points /\ new.spins = spins /\ new.dspins = dspins
        /\ new.pulse = pulse /\ new.day = seen.day
    BY <1>2, <1>4 DEF Wallet
  <1>. HIDE DEF new
  <1>6. QED
    BY <1>1, <1>3, <1>5 DEF e, points, spins, pulse, dspins

LEMMA AmountNat == ASSUME NEW r \in Recharge PROVE Amount[r] \in Nat
  BY Quantities

-----------------------------------------------------------------------------
(* Steps of one handler.                                                   *)

Others(j) == \A u \in Job \ {j} : job'[u] = job[u]

LEMMA GotoStep ==
  ASSUME TypeOK, NEW j \in Job, NEW pc \in Pc, Goto(j, pc)
  PROVE  /\ job' \in [Job -> JobRecord] /\ Others(j)
         /\ job'[j].pc = pc /\ job'[j].ref = job[j].ref /\ job'[j].wallet = job[j].wallet
         /\ job'[j].earned = job[j].earned
  <1>. HIDE DEF Pc
  <1>1. job[j] \in JobRecord /\ job \in [Job -> JobRecord]
    BY DEF TypeOK, JobRecord
  <1>2. [job[j] EXCEPT !.pc = pc] \in JobRecord
    BY <1>1 DEF JobRecord
  <1>3. job' = [job EXCEPT ![j] = [job[j] EXCEPT !.pc = pc]]
    BY DEF Goto
  <1>4. QED
    BY <1>1, <1>2, <1>3 DEF Others, JobRecord

LEMMA IdleJob ==
  /\ Idle \in JobRecord
  /\ \A pc \in Pc, r \in Recharge : [Idle EXCEPT !.pc = pc, !.ref = r] \in JobRecord
  <1>1. NewWallet \in Wallet /\ NewUser \in User
    BY DEF NewWallet, Wallet, NewUser, User, NoDate
  <1>2. Idle \in JobRecord
    BY <1>1 DEF Idle, JobRecord, Reward, Pc
  <1>3. QED
    BY <1>2 DEF JobRecord

LEMMA FinishStep ==
  ASSUME TypeOK, NEW j \in Job, Finish(j)
  PROVE  /\ job' \in [Job -> JobRecord] /\ Others(j) /\ job'[j].pc = "idle"
         /\ job'[j].wallet = NewWallet
  <1>1. job \in [Job -> JobRecord]
    BY DEF TypeOK, JobRecord
  <1>2. QED
    BY <1>1, IdleJob DEF Finish, Others, Idle

LEMMA StartStep ==
  ASSUME TypeOK, NEW j \in Job, NEW pc \in Pc, NEW r \in Recharge, Start(j, pc, r)
  PROVE  /\ job' \in [Job -> JobRecord] /\ Others(j)
         /\ job'[j].pc = pc /\ job'[j].ref = r /\ job'[j].wallet = NewWallet
  <1>1. job \in [Job -> JobRecord]
    BY DEF TypeOK, JobRecord
  <1>2. job' = [job EXCEPT ![j] = [Idle EXCEPT !.pc = pc, !.ref = r]]
    BY DEF Start
  <1>3. [Idle EXCEPT !.pc = pc, !.ref = r] \in JobRecord
    BY IdleJob
  <1>4. QED
    BY <1>1, <1>2, <1>3 DEF Others, Idle

-----------------------------------------------------------------------------
(* What a step leaves to the others.                                       *)

\* Only handlers of one kind are of that kind.
LEMMA Kinds ==
  /\ \A j \in WebhookJob : j \in Job /\ j \notin PushJob /\ j \notin SpinJob /\ j # NoJob
  /\ \A j \in PushJob : j \in Job /\ j \notin WebhookJob /\ j \notin SpinJob /\ j # NoJob
  /\ \A j \in SpinJob : j \in Job /\ j \notin WebhookJob /\ j \notin PushJob /\ j # NoJob
  BY KindsDiffer DEF Job

\* The holder of the lock is the only one who relies on the wallet and the ledger: a
\* step that takes or gives up a free or its own lock leaves the others their invariant.
LEMMA LockFrame ==
  ASSUME IInv, NEW j \in Job, Others(j),
         lock' = lock \/ (lock \in {NoJob, j} /\ lock' \in {NoJob, j}),
         (wallet' = wallet /\ ledger'.refs = ledger.refs) \/ lock \in {NoJob, j}
  PROVE  \A u \in Job \ {j} : HandlerInv(u)' /\ LockInv(u)'
  <1>. SUFFICES ASSUME NEW u \in Job \ {j} PROVE HandlerInv(u)' /\ LockInv(u)'
    OBVIOUS
  <1>1. HandlerInv(u) /\ LockInv(u) /\ job'[u] = job[u] /\ u # NoJob
    BY KindsDiffer DEF IInv, Others
  <1>2. HandlerInv(u)'
    BY <1>1 DEF HandlerInv, At, Ref
  <1>3. lock' = u <=> lock = u
    BY <1>1
  <1>4. CASE lock = u
    <2>1. wallet' = wallet /\ ledger'.refs = ledger.refs
      BY <1>1, <1>4
    <2>2. QED
      BY <1>1, <1>2, <1>3, <2>1 DEF LockInv, At, Ref
  <1>5. CASE lock # u
    <2>1. job[u].pc \notin Holding
      BY <1>1, <1>5 DEF LockInv
    <2>2. QED
      BY <1>1, <1>2, <1>3, <1>5, <2>1 DEF LockInv, At, Ref, Holding
  <1>6. QED
    BY <1>2, <1>4, <1>5

\* What the push handlers and the audit rows rely on.
PushesInv == OwnerInv /\ (\A j \in PushJob : AuditInv(j)) /\ AuditMatchesLedger

\* It holds as long as nobody touches them.
LEMMA PushFrame ==
  ASSUME IInv, event' = event, crashes' = crashes, \A u \in PushJob : job'[u] = job[u],
         \A p \in Push : p \in ledger'.refs <=> p \in ledger.refs
  PROVE  PushesInv'
  <1>1. PushesInv
    BY DEF IInv, PushesInv
  <1>2. OwnerInv'
    BY <1>1 DEF PushesInv, OwnerInv, Ref
  <1>3. \A u \in PushJob : AuditInv(u)'
    <2>. SUFFICES ASSUME NEW u \in PushJob, job[u].pc \in Accepted PROVE AuditInv(u)'
      BY DEF AuditInv
    <2>1. Ref(u) \in Push
      BY Kinds DEF IInv, HandlerInv, Accepted, At
    <2>2. QED
      BY <1>1, <2>1 DEF PushesInv, AuditInv, At, Ref
  <1>4. AuditMatchesLedger'
    BY <1>1 DEF PushesInv, AuditMatchesLedger, At, Ref
  <1>5. QED
    BY <1>2, <1>3, <1>4 DEF PushesInv

LEMMA StepInv ==
  ASSUME IInv, TypeOK', NEW j \in Job, Others(j), HandlerInv(j)', LockInv(j)',
         lock' = lock \/ (lock \in {NoJob, j} /\ lock' \in {NoJob, j}),
         (wallet' = wallet /\ ledger'.refs = ledger.refs) \/ lock \in {NoJob, j},
         PushesInv', CreditsAccounted', PointsAccounted'
  PROVE  IInv'
  <1>1. \A u \in Job : HandlerInv(u)' /\ LockInv(u)'
    BY LockFrame
  <1>2. QED
    BY <1>1 DEF IInv, PushesInv

\* A webhook or a spin that writes neither the wallet nor the ledger.
LEMMA QuietStep ==
  ASSUME IInv, TypeOK', NEW j \in WebhookJob \cup SpinJob, Others(j),
         HandlerInv(j)', LockInv(j)', wallet' = wallet, ledger' = ledger, spun' = spun,
         lock' = lock \/ (lock \in {NoJob, j} /\ lock' \in {NoJob, j}),
         event' = event, crashes' = crashes
  PROVE  IInv'
  <1>1. j \in Job /\ \A u \in PushJob : job'[u] = job[u]
    BY Kinds DEF Others
  <1>2. PushesInv'
    BY <1>1, PushFrame
  <1>3. CreditsAccounted' /\ PointsAccounted'
    BY DEF IInv, CreditsAccounted, PointsAccounted
  <1>4. QED
    BY <1>1, <1>2, <1>3, StepInv

\* A handler that has ended holds nothing and says nothing.
LEMMA EndedHandler ==
  ASSUME NEW j \in Job, job'[j].pc = "idle", lock' # j
  PROVE  HandlerInv(j)' /\ LockInv(j)' /\ AuditInv(j)'
  BY DEF HandlerInv, LockInv, AuditInv, At, Ref, Holding, Accepted

LEMMA UserTypes ==
  ASSUME NEW u \in User
  PROVE  /\ \A s \in NewStreaks(u) : s \in Nat
         /\ \A s \in Nat : [u EXCEPT !.streak = s] \in User
         /\ \A amount \in Nat : SavedUser(u, amount) \in User
  <1>1. u.streak \in Nat /\ u.total \in Nat
    BY DEF User
  <1>2. \A s \in NewStreaks(u) : s \in Nat
    BY <1>1 DEF NewStreaks
  <1>3. \A s \in Nat : [u EXCEPT !.streak = s] \in User
    BY DEF User
  <1>4. ASSUME NEW amount \in Nat PROVE SavedUser(u, amount) \in User
    <2>1. [u EXCEPT !.total = u.total + amount] \in User
      BY <1>1 DEF User
    <2>2. QED
      BY <1>1, <2>1 DEF SavedUser, User
  <1>5. QED
    BY <1>2, <1>3, <1>4

-----------------------------------------------------------------------------
(* Webhooks.                                                               *)

LEMMA DeliverInv ==
  ASSUME IInv, NEW j \in WebhookJob, NEW r \in Charge, Deliver(j, r)
  PROVE  IInv'
  <1>1. TypeOK /\ j \in Job /\ r \in Recharge /\ "user" \in Pc
    BY Kinds DEF IInv, Recharge, Pc
  <1>2. sent' \in [Recharge -> Nat]
    BY <1>1 DEF Deliver, TypeOK
  <1>3. lock # j
    BY <1>1 DEF IInv, LockInv, Deliver, At, Holding
  <1>4. CASE UNCHANGED job
    <2>1. TypeOK'
      BY <1>1, <1>2, <1>4 DEF Deliver, TypeOK, data
    <2>2. HandlerInv(j)' /\ LockInv(j)'
      BY <1>1, <1>4 DEF IInv, HandlerInv, LockInv, Deliver, At, Ref, data
    <2>3. QED
      BY <1>1, <1>4, <2>1, <2>2, QuietStep DEF Deliver, data, Others
  <1>5. CASE Start(j, "user", r)
    <2>1. job' \in [Job -> JobRecord] /\ Others(j) /\ job'[j].pc = "user" /\ job'[j].ref = r
      BY <1>1, <1>5, StartStep
    <2>2. TypeOK'
      BY <1>1, <1>2, <2>1 DEF Deliver, TypeOK, JobRecord, data
    <2>3. HandlerInv(j)' /\ LockInv(j)'
      BY <1>3, <2>1, Kinds DEF HandlerInv, LockInv, Deliver, At, Ref, Holding
    <2>4. QED
      BY <2>1, <2>2, <2>3, QuietStep DEF Deliver, data
  <1>6. QED
    BY <1>4, <1>5 DEF Deliver

LEMMA FindUserInv ==
  ASSUME IInv, NEW j \in WebhookJob, FindUser(j)
  PROVE  IInv'
  <1>1. TypeOK /\ j \in Job /\ job[j] \in JobRecord /\ job \in [Job -> JobRecord] /\ user \in User
    BY Kinds DEF IInv, TypeOK, JobRecord
  <1>2. job' = [job EXCEPT ![j] = [job[j] EXCEPT !.pc = "wallet", !.user = user]]
    BY DEF FindUser
  <1>3. [job[j] EXCEPT !.pc = "wallet", !.user = user] \in JobRecord
    BY <1>1 DEF JobRecord, Pc
  <1>4. /\ job' \in [Job -> JobRecord] /\ Others(j)
        /\ job'[j].pc = "wallet" /\ job'[j].ref = job[j].ref
    BY <1>1, <1>2, <1>3 DEF Others, JobRecord
  <1>5. TypeOK'
    BY <1>1, <1>4 DEF FindUser, TypeOK, JobRecord, data, bounds
  <1>6. HandlerInv(j) /\ LockInv(j)
    BY <1>1 DEF IInv
  <1>7. HandlerInv(j)' /\ LockInv(j)'
    BY <1>4, <1>6, Kinds DEF FindUser, HandlerInv, LockInv, At, Ref, Holding
  <1>8. QED
    BY <1>4, <1>5, <1>7, QuietStep DEF FindUser, data, bounds

LEMMA ReadWalletInv ==
  ASSUME IInv, NEW j \in WebhookJob, ReadWallet(j)
  PROVE  IInv'
  <1>1. TypeOK /\ j \in Job /\ job[j] \in JobRecord /\ job \in [Job -> JobRecord] /\ wallet \in Wallet
    BY Kinds DEF IInv, TypeOK, JobRecord
  <1>2. job' = [job EXCEPT ![j] = [job[j] EXCEPT !.pc = "award", !.wallet = wallet]]
    BY DEF ReadWallet
  <1>3. [job[j] EXCEPT !.pc = "award", !.wallet = wallet] \in JobRecord
    BY <1>1 DEF JobRecord, Pc
  <1>4. /\ job' \in [Job -> JobRecord] /\ Others(j)
        /\ job'[j].pc = "award" /\ job'[j].ref = job[j].ref
    BY <1>1, <1>2, <1>3 DEF Others, JobRecord
  <1>5. TypeOK'
    BY <1>1, <1>4 DEF ReadWallet, TypeOK, JobRecord, data, bounds
  <1>6. HandlerInv(j) /\ LockInv(j)
    BY <1>1 DEF IInv
  <1>7. HandlerInv(j)' /\ LockInv(j)'
    BY <1>4, <1>6, Kinds DEF ReadWallet, HandlerInv, LockInv, At, Ref, Holding
  <1>8. QED
    BY <1>4, <1>5, <1>7, QuietStep DEF ReadWallet, data, bounds

\* The row the transaction will commit is the wallet plus what the recharge earned.
LEMMA UpdateWalletInv ==
  ASSUME IInv, NEW j \in WebhookJob, UpdateWallet(j)
  PROVE  IInv'
  <1>. DEFINE seen == Fresh(job[j].wallet, clock)
              e == Earned(seen, Amount[Ref(j)])
              row == Awarded(wallet, seen, Amount[Ref(j)])
              new == [job[j] EXCEPT !.pc = "stats", !.wallet = row, !.earned = e]
  <1>1. /\ TypeOK /\ j \in Job /\ job[j] \in JobRecord /\ job \in [Job -> JobRecord]
        /\ wallet \in Wallet /\ user \in User /\ clock \in Nat
    BY Kinds DEF IInv, TypeOK, JobRecord, Day
  <1>2. HandlerInv(j) /\ LockInv(j) /\ job[j].pc = "award" /\ lock = NoJob
    BY <1>1 DEF IInv, UpdateWallet, At, Unlocked
  <1>3. Ref(j) \in Charge /\ Amount[Ref(j)] \in Nat
    BY <1>2, AmountNat DEF HandlerInv, At, Recharge
  <1>4. seen \in Wallet
    BY <1>1, FreshType DEF JobRecord
  <1>5. /\ e \in Reward /\ row \in Wallet
        /\ row.points = wallet.points + e.points /\ row.spins = wallet.spins + e.spins
    BY <1>1, <1>3, <1>4, AwardedType
  <1>6. job' = [job EXCEPT ![j] = new]
    BY DEF UpdateWallet
  <1>. HIDE DEF e, row, seen
  <1>7. /\ new \in JobRecord
        /\ new.pc = "stats" /\ new.ref = Ref(j) /\ new.wallet = row /\ new.earned = e
    BY <1>1, <1>5 DEF JobRecord, Pc, Ref
  <1>. HIDE DEF new
  <1>8. job' \in [Job -> JobRecord] /\ Others(j) /\ job'[j] = new
    BY <1>1, <1>6, <1>7 DEF Others
  <1>9. user' \in User
    <2>1. job[j].user \in User
      BY <1>1 DEF JobRecord
    <2>2. QED
      BY <1>1, <2>1, UserTypes DEF UpdateWallet
  <1>10. TypeOK'
    BY <1>1, <1>8, <1>9 DEF UpdateWallet, TypeOK, JobRecord, bounds
  <1>11. lock' = j /\ wallet' = wallet /\ ledger' = ledger
    BY DEF UpdateWallet
  <1>12. HandlerInv(j)' /\ LockInv(j)'
    BY <1>3, <1>5, <1>7, <1>8, <1>11, Kinds DEF HandlerInv, LockInv, At, Ref, Holding
  <1>13. QED
    BY <1>2, <1>8, <1>10, <1>11, <1>12, QuietStep DEF UpdateWallet, bounds

LEMMA UpdateStatsInv ==
  ASSUME IInv, NEW j \in WebhookJob, UpdateStats(j)
  PROVE  IInv'
  <1>1. TypeOK /\ j \in Job /\ job[j] \in JobRecord /\ "ledger" \in Pc
    BY Kinds DEF IInv, TypeOK, JobRecord, Pc
  <1>2. HandlerInv(j) /\ LockInv(j) /\ job[j].pc = "stats"
    BY <1>1 DEF IInv, UpdateStats, At
  <1>3. Amount[Ref(j)] \in Nat /\ job[j].user \in User
    BY <1>1, <1>2, AmountNat DEF HandlerInv, At, Recharge, JobRecord
  <1>4. user' \in User
    BY <1>3, UserTypes DEF UpdateStats
  <1>5. /\ job' \in [Job -> JobRecord] /\ Others(j)
        /\ job'[j].pc = "ledger" /\ job'[j].ref = job[j].ref
        /\ job'[j].wallet = job[j].wallet /\ job'[j].earned = job[j].earned
    BY <1>1, GotoStep DEF UpdateStats
  <1>6. TypeOK'
    BY <1>1, <1>4, <1>5 DEF UpdateStats, TypeOK, JobRecord, bounds
  <1>7. HandlerInv(j)' /\ LockInv(j)'
    BY <1>2, <1>5, Kinds DEF UpdateStats, HandlerInv, LockInv, At, Ref, Holding
  <1>8. QED
    BY <1>5, <1>6, <1>7, QuietStep DEF UpdateStats, bounds

LEMMA InsertLedgerInv ==
  ASSUME IInv, NEW j \in WebhookJob, InsertLedger(j)
  PROVE  IInv'
  <1>1. TypeOK /\ j \in Job /\ "commit" \in Pc
    BY Kinds DEF IInv, Pc
  <1>2. HandlerInv(j) /\ LockInv(j) /\ job[j].pc = "ledger" /\ lock = j
    BY <1>1 DEF IInv, InsertLedger, At, LockInv, Holding
  <1>3. CASE Finish(j) /\ lock' = NoJob /\ UNCHANGED bonusJobs
    <2>1. job' \in [Job -> JobRecord] /\ Others(j) /\ job'[j].pc = "idle"
      BY <1>1, <1>3, FinishStep
    <2>2. TypeOK'
      BY <1>1, <1>3, <2>1 DEF InsertLedger, TypeOK, JobRecord, data, bounds
    <2>3. HandlerInv(j)' /\ LockInv(j)'
      BY <1>1, <1>3, <2>1, Kinds, EndedHandler
    <2>4. QED
      BY <1>2, <1>3, <2>1, <2>2, <2>3, QuietStep DEF InsertLedger, data, bounds
  <1>4. CASE Ref(j) \notin ledger.refs /\ Goto(j, "commit")
             /\ bonusJobs' = bonusJobs + 1 /\ UNCHANGED lock
    <2>1. /\ job' \in [Job -> JobRecord] /\ Others(j)
          /\ job'[j].pc = "commit" /\ job'[j].ref = job[j].ref
          /\ job'[j].wallet = job[j].wallet /\ job'[j].earned = job[j].earned
      BY <1>1, <1>4, GotoStep
    <2>2. TypeOK'
      BY <1>1, <1>4, <2>1 DEF InsertLedger, TypeOK, JobRecord, data, bounds
    <2>3. HandlerInv(j)' /\ LockInv(j)'
      BY <1>2, <1>4, <2>1, Kinds DEF InsertLedger, HandlerInv, LockInv, At, Ref, Holding, data
    <2>4. QED
      BY <1>4, <2>1, <2>2, <2>3, QuietStep DEF InsertLedger, data, bounds
  <1>5. QED
    BY <1>3, <1>4 DEF InsertLedger

\* What the rows of an award do to the ledger and to the sums of the days.
LEMMA RecordedTypes ==
  ASSUME TypeOK, NEW r \in Recharge, NEW e \in Reward, NEW d, Recorded(r, e, d)
  PROVE  /\ ledger' \in LedgerRow
         /\ ledger'.refs = ledger.refs \cup {r}
         /\ ledger'.amount = ledger.amount + Amount[r]
         /\ ledger'.points = ledger.points + e.points
         /\ ledger'.spins = ledger.spins + e.spins
         /\ ledger'.prizes = ledger.prizes
         /\ book' \in [Day -> [amount : Nat, rows : Nat]]
         /\ granted' \in [Day -> Nat]
         /\ d \in Day => granted' = [granted EXCEPT ![d] = granted[d] + e.spins]
  <1>1. Amount[r] \in Nat /\ e.points \in Nat /\ e.spins \in Nat /\ e.entries \in Nat
    BY AmountNat DEF Reward
  <1>2. ledger \in LedgerRow
    BY DEF TypeOK, LedgerRow
  <1>. DEFINE refs == ledger.refs \cup {r}
              amount == ledger.amount + Amount[r]
              points == ledger.points + e.points
              spins == ledger.spins + e.spins
              draws == ledger.entries + e.entries
              new == [ledger EXCEPT !.refs = refs, !.amount = amount, !.points = points,
                                    !.spins = spins, !.entries = draws]
  <1>3. /\ ledger' \in LedgerRow
        /\ ledger'.refs = refs /\ ledger'.amount = amount /\ ledger'.points = points
        /\ ledger'.spins = spins /\ ledger'.prizes = ledger.prizes
    <2>1. ledger' = new
      BY DEF Recorded
    <2>2. /\ refs \in SUBSET Recharge /\ amount \in Nat /\ points \in Nat /\ spins \in Nat
          /\ draws \in Nat
      BY <1>1, <1>2 DEF LedgerRow
    <2>. HIDE DEF refs, amount, points, spins, draws
    <2>3. QED
      BY <1>2, <2>1, <2>2 DEF LedgerRow
  <1>4. book' \in [Day -> [amount : Nat, rows : Nat]]
    <2>1. /\ book[clock] \in [amount : Nat, rows : Nat]
          /\ book' = [book EXCEPT ![clock] = [book[clock] EXCEPT !.amount = @ + Amount[r]]]
      BY DEF TypeOK, Recorded
    <2>2. [book[clock] EXCEPT !.amount = @ + Amount[r]] \in [amount : Nat, rows : Nat]
      BY <1>1, <2>1
    <2>3. QED
      BY <2>1, <2>2 DEF TypeOK
  <1>5. granted' \in [Day -> Nat]
    <2>1. granted \in [Day -> Nat] /\ granted' = [granted EXCEPT ![d] = granted[d] + e.spins]
      BY DEF TypeOK, Recorded
    <2>2. d \in Day => granted[d] + e.spins \in Nat
      BY <1>1, <2>1
    <2>3. QED
      BY <2>1, <2>2
  <1>6. d \in Day => granted' = [granted EXCEPT ![d] = granted[d] + e.spins]
    BY DEF Recorded
  <1>7. QED
    BY <1>3, <1>4, <1>5, <1>6

LEMMA CommitAwardInv ==
  ASSUME IInv, NEW j \in WebhookJob, CommitAward(j)
  PROVE  IInv'
  <1>. DEFINE e == job[j].earned
              d == job[j].wallet.day
  <1>1. TypeOK /\ j \in Job /\ job[j] \in JobRecord
    BY Kinds DEF IInv, TypeOK, JobRecord
  <1>2. HandlerInv(j) /\ LockInv(j) /\ job[j].pc = "commit" /\ lock = j
    BY <1>1 DEF IInv, CommitAward, At, LockInv, Holding
  <1>3. Ref(j) \in Charge /\ Ref(j) \in Recharge /\ e \in Reward /\ job[j].wallet \in Wallet
    BY <1>1, <1>2 DEF HandlerInv, At, Recharge, JobRecord
  <1>4. Recorded(Ref(j), e, d)
    BY DEF CommitAward
  <1>5. job' \in [Job -> JobRecord] /\ Others(j) /\ job'[j].pc = "idle"
    BY <1>1, FinishStep DEF CommitAward
  <1>6. entries' \in Nat
    BY <1>1, <1>3 DEF CommitAward, TypeOK, Reward
  <1>7. TypeOK'
    BY <1>1, <1>3, <1>4, <1>5, <1>6, RecordedTypes DEF CommitAward, TypeOK, JobRecord, LedgerRow, bounds
  <1>8. lock' = NoJob /\ HandlerInv(j)' /\ LockInv(j)'
    BY <1>1, <1>5, EndedHandler, Kinds DEF CommitAward
  <1>9. PushesInv'
    <2>1. \A p \in Push : p \in ledger'.refs <=> p \in ledger.refs
      BY <1>1, <1>3, <1>4, RecordedTypes, KindsDiffer
    <2>2. QED
      BY <1>5, <2>1, PushFrame, Kinds DEF CommitAward, Others, bounds
  <1>10. /\ wallet'.points = wallet.points + e.points
         /\ wallet'.spins = wallet.spins + e.spins
    BY <1>2 DEF CommitAward, LockInv, Holding
  <1>11. /\ ledger'.points = ledger.points + e.points /\ ledger'.prizes = ledger.prizes
         /\ ledger'.spins = ledger.spins + e.spins
    BY <1>1, <1>3, <1>4, RecordedTypes
  <1>12. CreditsAccounted' /\ PointsAccounted'
    <2>1. /\ wallet.points \in Nat /\ wallet.spins \in Nat /\ spun \in Nat /\ spun' = spun
          /\ ledger.points \in Nat /\ ledger.spins \in Nat /\ ledger.prizes \in Nat
          /\ e.points \in Nat /\ e.spins \in Nat
      BY <1>1, <1>3 DEF TypeOK, Wallet, CommitAward, Reward
    <2>2. CreditsAccounted /\ PointsAccounted
      BY DEF IInv
    <2>3. QED
      BY <1>10, <1>11, <2>1, <2>2 DEF CreditsAccounted, PointsAccounted
  <1>13. QED
    BY <1>1, <1>2, <1>5, <1>7, <1>8, <1>9, <1>12, StepInv

LEMMA RollBackInv ==
  ASSUME IInv, NEW j \in WebhookJob, RollBack(j)
  PROVE  IInv'
  <1>1. TypeOK /\ j \in Job /\ j # NoJob
    BY Kinds DEF IInv
  <1>2. job' \in [Job -> JobRecord] /\ Others(j) /\ job'[j].pc = "idle"
    BY <1>1, FinishStep DEF RollBack
  <1>3. TypeOK'
    BY <1>1, <1>2 DEF RollBack, TypeOK, JobRecord, data
  <1>4. /\ (lock' # j /\ lock' = lock) \/ (lock = j /\ lock' = NoJob)
        /\ HandlerInv(j)' /\ LockInv(j)'
    BY <1>1, <1>2, EndedHandler DEF RollBack
  <1>5. QED
    BY <1>2, <1>3, <1>4, QuietStep DEF RollBack, data

LEMMA FirstRechargeBonusInv == ASSUME IInv, FirstRechargeBonus PROVE IInv'
  <1>1. TypeOK /\ bonusJobs' \in Nat /\ BonusPoints \in Nat
    BY Quantities DEF IInv, TypeOK, FirstRechargeBonus
  <1>2. /\ ledger' \in LedgerRow
        /\ ledger'.refs = ledger.refs /\ ledger'.points = ledger.points
        /\ ledger'.prizes = ledger.prizes /\ ledger'.spins = ledger.spins
    BY <1>1 DEF FirstRechargeBonus, TypeOK, LedgerRow
  <1>3. TypeOK'
    BY <1>1, <1>2 DEF FirstRechargeBonus, TypeOK, LedgerRow, bounds
  <1>4. PushesInv'
    BY <1>2, PushFrame DEF FirstRechargeBonus, bounds
  <1>5. \A u \in Job : HandlerInv(u)' /\ LockInv(u)'
    BY <1>2 DEF IInv, FirstRechargeBonus, HandlerInv, LockInv, At, Ref
  <1>6. CreditsAccounted' /\ PointsAccounted'
    BY <1>2 DEF IInv, FirstRechargeBonus, CreditsAccounted, PointsAccounted
  <1>7. QED
    BY <1>3, <1>4, <1>5, <1>6 DEF IInv, PushesInv

-----------------------------------------------------------------------------
(* MTN pushes.                                                             *)

\* AuditMatchesLedger for one push.
AuditRow(p) ==
    /\ event[p] = "PROCESSED" => p \in ledger.refs
    /\ event[p] \in {"none", "FAILED"} => p \notin ledger.refs
    /\ (event[p] = "RECEIVED" /\ p \in ledger.refs /\ crashes = 0)
          => \E j \in PushJob : At(j, "post") /\ Ref(j) = p

\* A step of the only handler that works on a push, on that push only.
LEMMA OwnerStep ==
  ASSUME IInv, NEW j \in PushJob, NEW p \in Push, Others(j), crashes' = crashes,
         \A q \in Push \ {p} : event'[q] = event[q] /\ (q \in ledger'.refs <=> q \in ledger.refs),
         Ref(j) = p, job'[j].pc \in Accepted => job'[j].ref = p,
         \A u \in PushJob \ {j} : job[u].pc \in Accepted => Ref(u) # p,
         AuditInv(j)', AuditRow(p)'
  PROVE  PushesInv'
  <1>1. \A u \in PushJob \ {j} : job'[u] = job[u]
    BY Kinds DEF Others
  <1>2. OwnerInv'
    <2>. SUFFICES ASSUME NEW u \in PushJob, NEW v \in PushJob,
                         job'[u].pc \in Accepted, job'[v].pc \in Accepted, job'[u].ref = job'[v].ref
                  PROVE  u = v
      BY DEF OwnerInv, Ref
    <2>1. CASE u # j /\ v # j
      BY <1>1, <2>1 DEF IInv, OwnerInv, Ref
    <2>2. CASE u = j \/ v = j
      BY <1>1, <2>2 DEF Ref
    <2>3. QED
      BY <2>1, <2>2
  <1>3. ASSUME NEW u \in PushJob \ {j}, job[u].pc \in Accepted PROVE AuditInv(u)'
    <2>1. Ref(u) \in Push \ {p}
      BY <1>3, Kinds DEF IInv, HandlerInv, Accepted, At
    <2>2. AuditInv(u)
      BY DEF IInv
    <2>3. QED
      BY <1>1, <1>3, <2>1, <2>2 DEF AuditInv, At, Ref
  <1>4. \A u \in PushJob : AuditInv(u)'
    BY <1>1, <1>3 DEF AuditInv
  <1>5. ASSUME NEW q \in Push \ {p} PROVE AuditRow(q)'
    <2>1. AuditRow(q)
      BY DEF IInv, AuditMatchesLedger, AuditRow
    <2>2. \A u \in PushJob : At(u, "post") /\ Ref(u) = q => At(u, "post")' /\ Ref(u)' = q
      BY <1>1 DEF At, Ref
    <2>3. QED
      BY <2>1, <2>2 DEF AuditRow
  <1>6. AuditMatchesLedger'
    BY <1>5 DEF AuditMatchesLedger, AuditRow
  <1>7. QED
    BY <1>2, <1>4, <1>6 DEF PushesInv

\* What the handler of a push knows of itself.
LEMMA Pusher ==
  ASSUME IInv, NEW j \in PushJob
  PROVE  /\ TypeOK /\ j \in Job /\ j # NoJob /\ job[j] \in JobRecord /\ lock # j
         /\ HandlerInv(j) /\ LockInv(j) /\ AuditInv(j)
         /\ ~At(j, "idle") => Ref(j) \in Push /\ Ref(j) \in Recharge
         /\ job[j].pc \in Accepted =>
               \A u \in PushJob \ {j} : job[u].pc \in Accepted => Ref(u) # Ref(j)
  <1>1. /\ TypeOK /\ j \in Job /\ j # NoJob /\ job[j] \in JobRecord
        /\ HandlerInv(j) /\ LockInv(j) /\ AuditInv(j) /\ OwnerInv
    BY Kinds DEF IInv, TypeOK, JobRecord
  <1>2. lock # j
    BY <1>1, Kinds DEF HandlerInv, LockInv, Holding, Accepted
  <1>3. ~At(j, "idle") => Ref(j) \in Push /\ Ref(j) \in Recharge
    BY <1>1 DEF HandlerInv, Recharge
  <1>4. QED
    BY <1>1, <1>2, <1>3 DEF OwnerInv

\* Wherever it goes it never holds the lock.
LEMMA PusherMoves ==
  ASSUME NEW j \in PushJob, lock' # j, job'[j].pc \in {"idle", "audit"} \cup Accepted,
         job'[j].pc # "idle" => job'[j].ref \in Push
  PROVE  HandlerInv(j)' /\ LockInv(j)'
  BY Kinds DEF HandlerInv, LockInv, At, Ref, Holding, Accepted

LEMMA CheckPushInv ==
  ASSUME IInv, NEW j \in PushJob, NEW p \in Push, CheckPush(j, p)
  PROVE  IInv'
  <1>1. TypeOK /\ j \in Job /\ lock # j /\ p \in Recharge /\ "audit" \in Pc /\ HandlerInv(j)
    BY Pusher DEF Recharge, Pc
  <1>2. sent' \in [Recharge -> Nat] /\ answered' \in SUBSET Push
    BY <1>1 DEF CheckPush, TypeOK
  <1>3. /\ job' \in [Job -> JobRecord] /\ Others(j)
        /\ job'[j].pc = "idle" \/ (job'[j].pc = "audit" /\ job'[j].ref = p)
    <2>1. CASE UNCHANGED job
      BY <1>1, <2>1 DEF TypeOK, JobRecord, Others, CheckPush, At
    <2>2. CASE Start(j, "audit", p)
      BY <1>1, <2>2, StartStep
    <2>3. QED
      BY <2>1, <2>2 DEF CheckPush
  <1>4. TypeOK'
    BY <1>1, <1>2, <1>3 DEF CheckPush, TypeOK, JobRecord
  <1>5. HandlerInv(j)' /\ LockInv(j)'
    BY <1>1, <1>3, PusherMoves DEF CheckPush
  <1>6. PushesInv'
    <2>1. OwnerInv'
      BY <1>3, Kinds DEF IInv, OwnerInv, Ref, Accepted, Others
    <2>2. \A u \in PushJob : AuditInv(u)'
      <3>1. AuditInv(j)'
        BY <1>3 DEF AuditInv, Accepted
      <3>2. \A u \in PushJob \ {j} : AuditInv(u)'
        BY <1>3, Kinds DEF IInv, CheckPush, AuditInv, At, Ref, Others
      <3>3. QED
        BY <3>1, <3>2
    <2>3. \A u \in PushJob : At(u, "post") => At(u, "post")' /\ Ref(u)' = Ref(u)
      BY <1>3, Kinds DEF At, Ref, Others, CheckPush
    <2>4. AuditMatchesLedger'
      BY <2>3 DEF IInv, CheckPush, AuditMatchesLedger
    <2>5. QED
      BY <2>1, <2>2, <2>4 DEF PushesInv
  <1>7. CreditsAccounted' /\ PointsAccounted'
    BY DEF IInv, CheckPush, CreditsAccounted, PointsAccounted
  <1>8. QED
    BY <1>1, <1>3, <1>4, <1>5, <1>6, <1>7, StepInv DEF CheckPush

LEMMA WriteAuditInv ==
  ASSUME IInv, NEW j \in PushJob, WriteAudit(j)
  PROVE  IInv'
  <1>0. PICK p : p = Ref(j)
    OBVIOUS
  <1>1. TypeOK /\ j \in Job /\ lock # j /\ p \in Push /\ "resolve" \in Pc /\ job[j].pc = "audit"
    BY <1>0, Pusher DEF WriteAudit, At, Pc
  <1>2. UNCHANGED <<wallet, ledger, lock, crashes, spun>>
    BY DEF WriteAudit, bounds
  <1>3. CreditsAccounted' /\ PointsAccounted'
    BY <1>2 DEF IInv, CreditsAccounted, PointsAccounted
  <1>4. CASE UNCHANGED event /\ Finish(j)
    <2>1. job' \in [Job -> JobRecord] /\ Others(j) /\ job'[j].pc = "idle"
      BY <1>1, <1>4, FinishStep
    <2>2. TypeOK'
      BY <1>1, <1>4, <2>1 DEF WriteAudit, TypeOK, JobRecord, bounds
    <2>3. HandlerInv(j)' /\ LockInv(j)'
      BY <1>1, <1>2, <2>1, PusherMoves
    <2>4. PushesInv'
      <3>1. OwnerInv'
        BY <2>1, Kinds DEF IInv, OwnerInv, Ref, Accepted, Others
      <3>2. \A u \in PushJob : AuditInv(u)'
        BY <1>2, <1>4, <2>1, Kinds DEF IInv, AuditInv, At, Ref, Others, Accepted
      <3>3. \A u \in PushJob : At(u, "post") => At(u, "post")' /\ Ref(u)' = Ref(u)
        BY <1>1, <2>1, Kinds DEF At, Ref, Others
      <3>4. AuditMatchesLedger'
        BY <1>2, <1>4, <3>3 DEF IInv, AuditMatchesLedger
      <3>5. QED
        BY <3>1, <3>2, <3>4 DEF PushesInv
    <2>5. QED
      BY <1>1, <1>2, <1>3, <2>1, <2>2, <2>3, <2>4, StepInv
  <1>5. CASE /\ event[p] = "none" /\ event' = [event EXCEPT ![p] = "RECEIVED"]
             /\ Goto(j, "resolve")
    <2>1. /\ job' \in [Job -> JobRecord] /\ Others(j)
          /\ job'[j].pc = "resolve" /\ job'[j].ref = p
      BY <1>0, <1>1, <1>5, GotoStep DEF Ref
    <2>2. event' \in [Push -> {"none", "RECEIVED", "FAILED", "PROCESSED"}] /\ event'[p] = "RECEIVED"
      BY <1>1, <1>5 DEF TypeOK
    <2>3. TypeOK'
      BY <1>1, <2>1, <2>2 DEF WriteAudit, TypeOK, JobRecord, bounds
    <2>4. HandlerInv(j)' /\ LockInv(j)'
      BY <1>1, <1>2, <2>1, PusherMoves DEF Accepted
    <2>5. p \notin ledger.refs
      BY <1>1, <1>5 DEF IInv, AuditMatchesLedger
    <2>6. AuditInv(j)' /\ AuditRow(p)'
      BY <1>2, <2>1, <2>2, <2>5 DEF AuditInv, AuditRow, At, Ref
    <2>7. \A u \in PushJob \ {j} : job[u].pc \in Accepted => Ref(u) # p
      BY <1>5 DEF IInv, AuditInv
    <2>8. \A q \in Push \ {p} : event'[q] = event[q]
      BY <1>1, <1>5 DEF TypeOK
    <2>9. PushesInv'
      BY <1>0, <1>1, <1>2, <2>1, <2>6, <2>7, <2>8, OwnerStep
    <2>10. QED
      BY <1>1, <1>2, <1>3, <2>1, <2>3, <2>4, <2>9, StepInv
  <1>6. QED
    BY <1>0, <1>4, <1>5 DEF WriteAudit

LEMMA ResolveUserInv ==
  ASSUME IInv, NEW j \in PushJob, ResolveUser(j)
  PROVE  IInv'
  <1>0. PICK p : p = Ref(j)
    OBVIOUS
  <1>1. /\ TypeOK /\ j \in Job /\ lock # j /\ p \in Push /\ job[j].pc = "resolve" /\ AuditInv(j)
        /\ \A u \in PushJob \ {j} : job[u].pc \in Accepted => Ref(u) # p
        /\ job[j] \in JobRecord /\ user \in User /\ job \in [Job -> JobRecord]
    BY <1>0, Pusher DEF ResolveUser, At, Accepted, TypeOK, JobRecord
  <1>2. UNCHANGED <<wallet, ledger, lock, crashes, spun, event>>
    BY DEF ResolveUser, bounds, data
  <1>3. job' = [job EXCEPT ![j] = [job[j] EXCEPT !.pc = "push", !.user = user]]
    BY DEF ResolveUser
  <1>4. [job[j] EXCEPT !.pc = "push", !.user = user] \in JobRecord
    BY <1>1 DEF JobRecord, Pc
  <1>5. job' \in [Job -> JobRecord] /\ Others(j) /\ job'[j].pc = "push" /\ job'[j].ref = p
    BY <1>0, <1>1, <1>3, <1>4 DEF Others, JobRecord, Ref
  <1>6. TypeOK'
    BY <1>1, <1>5 DEF ResolveUser, TypeOK, JobRecord, data, bounds
  <1>7. HandlerInv(j)' /\ LockInv(j)'
    BY <1>1, <1>2, <1>5, PusherMoves DEF Accepted
  <1>8. event[p] = "RECEIVED" /\ p \notin ledger.refs
    BY <1>0, <1>1 DEF AuditInv, Accepted, At
  <1>9. AuditInv(j)' /\ AuditRow(p)'
    BY <1>2, <1>5, <1>8 DEF AuditInv, AuditRow, At, Ref
  <1>10. PushesInv'
    BY <1>0, <1>1, <1>2, <1>5, <1>9, OwnerStep
  <1>11. CreditsAccounted' /\ PointsAccounted'
    BY <1>2 DEF IInv, CreditsAccounted, PointsAccounted
  <1>12. QED
    BY <1>1, <1>2, <1>5, <1>6, <1>7, <1>10, <1>11, StepInv

\* The award of a push: one step, on the locked wallet.
PushAwarded(j, p, c, e) ==
    /\ p = Ref(j) /\ p \in Recharge /\ p \notin ledger.refs /\ lock = NoJob
    /\ c <= clock
    /\ wallet' \in Wallet
    /\ wallet'.points = wallet.points + e.points
    /\ wallet'.spins = wallet.spins + e.spins
    /\ wallet'.day = Fresh(wallet, c).day
    /\ e = Earned(Fresh(wallet, c), Amount[p])
    /\ wallet'.dspins = Fresh(wallet, c).dspins + e.spins
    /\ wallet'.pulse = (wallet.pulse + Amount[p]) % PulseUnit
    /\ Recorded(p, e, Fresh(wallet, c).day)
    /\ job' = [job EXCEPT ![j] = [job[j] EXCEPT !.pc = "post", !.earned = e]]

LEMMA AwardPushStep ==
  ASSUME IInv, NEW j \in PushJob, AwardPush(j)
  PROVE  \E p \in Push, c \in Day, e \in Reward : PushAwarded(j, p, c, e)
  <1>0. PICK p : p = Ref(j)
    OBVIOUS
  <1>1. TypeOK /\ p \in Push /\ p \in Recharge /\ wallet \in Wallet
    BY <1>0, Pusher DEF AwardPush, At, TypeOK
  <1>2. PICK c \in Day :
          /\ c <= clock
          /\ wallet' = Awarded(wallet, Fresh(wallet, c), Amount[p])
          /\ Recorded(p, Earned(Fresh(wallet, c), Amount[p]), Fresh(wallet, c).day)
          /\ job' = [job EXCEPT ![j].pc = "post", ![j].earned = Earned(Fresh(wallet, c), Amount[p])]
    BY <1>0 DEF AwardPush
  <1>3. PICK e : e = Earned(Fresh(wallet, c), Amount[p])
    OBVIOUS
  <1>4. PICK seen : seen = Fresh(wallet, c)
    OBVIOUS
  <1>5. seen \in Wallet /\ seen.pulse = wallet.pulse
    BY <1>1, <1>4, FreshType DEF Day
  <1>6. Amount[p] \in Nat
    BY <1>1, AmountNat
  <1>7. /\ e \in Reward /\ wallet' \in Wallet
        /\ wallet'.points = wallet.points + e.points
        /\ wallet'.spins = wallet.spins + e.spins
        /\ wallet'.dspins = seen.dspins + e.spins
        /\ wallet'.pulse = (seen.pulse + Amount[p]) % PulseUnit
        /\ wallet'.day = seen.day
    BY <1>1, <1>2, <1>3, <1>4, <1>5, <1>6, AwardedType
  <1>8. p \notin ledger.refs /\ lock = NoJob
    BY <1>0 DEF AwardPush, Unlocked
  <1>9. job' = [job EXCEPT ![j] = [job[j] EXCEPT !.pc = "post", !.earned = e]]
    BY <1>2, <1>3
  <1>10. Recorded(p, e, seen.day)
    BY <1>2, <1>3, <1>4
  <1>11. wallet'.pulse = (wallet.pulse + Amount[p]) % PulseUnit
    BY <1>5, <1>7
  <1>12. QED
    BY <1>0, <1>1, <1>2, <1>3, <1>4, <1>7, <1>8, <1>9, <1>10, <1>11 DEF PushAwarded

LEMMA AwardPushInv ==
  ASSUME IInv, NEW j \in PushJob, AwardPush(j)
  PROVE  IInv'
  <1>0. PICK p \in Push, c \in Day, e \in Reward : PushAwarded(j, p, c, e)
    BY AwardPushStep
  <1>1. /\ p = Ref(j) /\ p \in Recharge /\ p \notin ledger.refs /\ lock = NoJob
        /\ wallet' \in Wallet
        /\ wallet'.points = wallet.points + e.points
        /\ wallet'.spins = wallet.spins + e.spins
        /\ Recorded(p, e, Fresh(wallet, c).day)
        /\ job' = [job EXCEPT ![j] = [job[j] EXCEPT !.pc = "post", !.earned = e]]
    BY <1>0 DEF PushAwarded
  <1>2. /\ TypeOK /\ j \in Job /\ j # NoJob /\ job[j].pc = "push" /\ AuditInv(j)
        /\ \A u \in PushJob \ {j} : job[u].pc \in Accepted => Ref(u) # p
        /\ job[j] \in JobRecord /\ user \in User /\ job \in [Job -> JobRecord]
    BY <1>1, Pusher DEF AwardPush, At, Accepted, TypeOK, JobRecord
  <1>3. [job[j] EXCEPT !.pc = "post", !.earned = e] \in JobRecord
    BY <1>1, <1>2 DEF JobRecord, Pc
  <1>4. job' \in [Job -> JobRecord] /\ Others(j) /\ job'[j].pc = "post" /\ job'[j].ref = p
    BY <1>1, <1>2, <1>3 DEF Others, JobRecord, Ref
  <1>5. user' \in User /\ answered' \in SUBSET Push
    <2>1. job[j].user \in User /\ Amount[p] \in Nat
      BY <1>1, <1>2, AmountNat DEF JobRecord
    <2>2. QED
      BY <1>1, <1>2, <2>1, UserTypes DEF AwardPush, TypeOK
  <1>6. /\ ledger' \in LedgerRow /\ ledger'.refs = ledger.refs \cup {p}
        /\ ledger'.points = ledger.points + e.points
        /\ ledger'.spins = ledger.spins + e.spins
        /\ ledger'.prizes = ledger.prizes
        /\ book' \in [Day -> [amount : Nat, rows : Nat]]
        /\ granted' \in [Day -> Nat]
    BY <1>1, <1>2, RecordedTypes
  <1>7. UNCHANGED <<spun, event, entries, lock, bonusJobs, clock, bounds>>
    BY DEF AwardPush
  <1>8. TypeOK'
    BY <1>1, <1>2, <1>4, <1>5, <1>6, <1>7 DEF TypeOK, JobRecord, LedgerRow, bounds
  <1>9. HandlerInv(j)' /\ LockInv(j)'
    BY <1>1, <1>2, <1>4, <1>7, PusherMoves DEF Accepted
  <1>10. event'[p] = "RECEIVED" /\ p \in ledger'.refs
    BY <1>1, <1>2, <1>6, <1>7 DEF AuditInv, Accepted
  <1>11. AuditInv(j)' /\ AuditRow(p)'
    BY <1>4, <1>10 DEF AuditInv, AuditRow, At, Ref
  <1>12. PushesInv'
    BY <1>1, <1>2, <1>4, <1>6, <1>7, <1>11, OwnerStep DEF bounds
  <1>13. CreditsAccounted' /\ PointsAccounted'
    <2>1. /\ wallet.points \in Nat /\ wallet.spins \in Nat /\ spun \in Nat
          /\ ledger.points \in Nat /\ ledger.spins \in Nat /\ ledger.prizes \in Nat
          /\ e.points \in Nat /\ e.spins \in Nat
      BY <1>2 DEF TypeOK, Wallet, Reward
    <2>2. CreditsAccounted /\ PointsAccounted
      BY DEF IInv
    <2>3. QED
      BY <1>1, <1>6, <1>7, <2>1, <2>2 DEF CreditsAccounted, PointsAccounted
  <1>14. QED
    BY <1>1, <1>2, <1>4, <1>7, <1>8, <1>9, <1>12, <1>13, StepInv

LEMMA AfterPushInv ==
  ASSUME IInv, NEW j \in PushJob, AfterPush(j)
  PROVE  IInv'
  <1>0. PICK p : p = Ref(j)
    OBVIOUS
  <1>1. /\ TypeOK /\ j \in Job /\ lock # j /\ p \in Push /\ job[j].pc = "post" /\ AuditInv(j)
        /\ \A u \in PushJob \ {j} : job[u].pc \in Accepted => Ref(u) # p
        /\ job[j] \in JobRecord
    BY <1>0, Pusher DEF AfterPush, At, Accepted
  <1>2. UNCHANGED <<wallet, ledger, lock, crashes, spun>>
    BY DEF AfterPush, bounds
  <1>3. job' \in [Job -> JobRecord] /\ Others(j) /\ job'[j].pc = "idle"
    BY <1>1, FinishStep DEF AfterPush
  <1>4. /\ event' \in [Push -> {"none", "RECEIVED", "FAILED", "PROCESSED"}]
        /\ event'[p] = "PROCESSED" /\ \A q \in Push \ {p} : event'[q] = event[q]
    BY <1>0, <1>1 DEF AfterPush, TypeOK
  <1>5. entries' \in Nat
    BY <1>1 DEF AfterPush, TypeOK, JobRecord, Reward
  <1>6. TypeOK'
    BY <1>1, <1>3, <1>4, <1>5 DEF AfterPush, TypeOK, JobRecord, bounds
  <1>7. HandlerInv(j)' /\ LockInv(j)' /\ AuditInv(j)'
    BY <1>1, <1>2, <1>3, EndedHandler
  <1>8. p \in ledger.refs
    BY <1>0, <1>1 DEF AuditInv, Accepted, At
  <1>9. AuditRow(p)'
    BY <1>2, <1>4, <1>8 DEF AuditRow
  <1>10. PushesInv'
    BY <1>0, <1>1, <1>2, <1>3, <1>4, <1>7, <1>9, OwnerStep DEF Accepted
  <1>11. CreditsAccounted' /\ PointsAccounted'
    BY <1>2 DEF IInv, CreditsAccounted, PointsAccounted
  <1>12. QED
    BY <1>1, <1>2, <1>3, <1>6, <1>7, <1>10, <1>11, StepInv

LEMMA FailPushInv ==
  ASSUME IInv, NEW j \in PushJob, FailPush(j)
  PROVE  IInv'
  <1>0. PICK p : p = Ref(j)
    OBVIOUS
  <1>1. /\ TypeOK /\ j \in Job /\ lock # j /\ p \in Push /\ job[j].pc \in {"resolve", "push"}
        /\ AuditInv(j)
        /\ \A u \in PushJob \ {j} : job[u].pc \in Accepted => Ref(u) # p
    BY <1>0, Pusher DEF FailPush, At, Accepted
  <1>2. UNCHANGED <<wallet, ledger, lock, crashes, spun>>
    BY DEF FailPush
  <1>3. job' \in [Job -> JobRecord] /\ Others(j) /\ job'[j].pc = "idle"
    BY <1>1, FinishStep DEF FailPush
  <1>4. event[p] = "RECEIVED" /\ p \notin ledger.refs
    BY <1>0, <1>1 DEF AuditInv, Accepted, At
  <1>5. /\ event' \in [Push -> {"none", "RECEIVED", "FAILED", "PROCESSED"}]
        /\ event'[p] \in {"RECEIVED", "FAILED"} /\ \A q \in Push \ {p} : event'[q] = event[q]
    BY <1>0, <1>1, <1>4 DEF FailPush, TypeOK
  <1>6. TypeOK'
    BY <1>1, <1>3, <1>5 DEF FailPush, TypeOK, JobRecord
  <1>7. HandlerInv(j)' /\ LockInv(j)' /\ AuditInv(j)'
    BY <1>1, <1>2, <1>3, EndedHandler
  <1>8. AuditRow(p)'
    BY <1>2, <1>4, <1>5 DEF AuditRow
  <1>9. PushesInv'
    BY <1>0, <1>1, <1>2, <1>3, <1>5, <1>7, <1>8, OwnerStep DEF Accepted
  <1>10. CreditsAccounted' /\ PointsAccounted'
    BY <1>2 DEF IInv, CreditsAccounted, PointsAccounted
  <1>11. QED
    BY <1>1, <1>2, <1>3, <1>6, <1>7, <1>9, <1>10, StepInv

-----------------------------------------------------------------------------
(* Spins.                                                                  *)

\* A spin never holds the lock.
LEMMA Spinner ==
  ASSUME IInv, NEW j \in SpinJob
  PROVE  TypeOK /\ j \in Job /\ lock # j
  <1>1. TypeOK /\ j \in Job /\ HandlerInv(j) /\ LockInv(j)
    BY Kinds DEF IInv
  <1>2. QED
    BY <1>1 DEF HandlerInv, LockInv, Holding

LEMMA SpinnerMoves ==
  ASSUME NEW j \in SpinJob, lock' # j, job'[j].pc \in {"idle", "cap", "spend"}
  PROVE  HandlerInv(j)' /\ LockInv(j)'
  BY Kinds DEF HandlerInv, LockInv, At, Ref, Holding

LEMMA CheckCreditsInv ==
  ASSUME IInv, NEW j \in SpinJob, CheckCredits(j)
  PROVE  IInv'
  <1>1. TypeOK /\ j \in Job /\ lock # j /\ "cap" \in Pc
    BY Spinner DEF Pc
  <1>2. job' \in [Job -> JobRecord] /\ Others(j) /\ job'[j].pc \in {"idle", "cap"}
    <2>1. CASE UNCHANGED job
      BY <1>1, <2>1 DEF TypeOK, JobRecord, Others, CheckCredits, At
    <2>2. CASE Goto(j, "cap")
      BY <1>1, <2>2, GotoStep
    <2>3. QED
      BY <2>1, <2>2 DEF CheckCredits
  <1>3. TypeOK'
    BY <1>1, <1>2 DEF CheckCredits, TypeOK, JobRecord, data
  <1>4. HandlerInv(j)' /\ LockInv(j)'
    BY <1>1, <1>2, SpinnerMoves DEF CheckCredits
  <1>5. QED
    BY <1>2, <1>3, <1>4, QuietStep DEF CheckCredits, data

LEMMA CheckDailyCapInv ==
  ASSUME IInv, NEW j \in SpinJob, CheckDailyCap(j)
  PROVE  IInv'
  <1>1. TypeOK /\ j \in Job /\ lock # j /\ "spend" \in Pc
    BY Spinner DEF Pc
  <1>2. job' \in [Job -> JobRecord] /\ Others(j) /\ job'[j].pc \in {"idle", "spend"}
    BY <1>1, GotoStep, FinishStep DEF CheckDailyCap
  <1>3. TypeOK'
    BY <1>1, <1>2 DEF CheckDailyCap, TypeOK, JobRecord, data, bounds
  <1>4. HandlerInv(j)' /\ LockInv(j)'
    BY <1>1, <1>2, SpinnerMoves DEF CheckDailyCap
  <1>5. QED
    BY <1>2, <1>3, <1>4, QuietStep DEF CheckDailyCap, data, bounds

LEMMA SpendCreditInv ==
  ASSUME IInv, NEW j \in SpinJob, SpendCredit(j)
  PROVE  IInv'
  <1>1. TypeOK /\ j \in Job /\ lock # j
    BY Spinner
  <1>2. /\ UNCHANGED <<user, granted, event, answered, entries, lock, bonusJobs, clock, bounds>>
        /\ lock = NoJob
    BY DEF SpendCredit, Unlocked
  <1>3. job' \in [Job -> JobRecord] /\ Others(j) /\ job'[j].pc = "idle"
    BY <1>1, FinishStep DEF SpendCredit
  <1>4. HandlerInv(j)' /\ LockInv(j)'
    BY <1>1, <1>2, <1>3, SpinnerMoves
  <1>5. CASE UNCHANGED <<wallet, ledger, spun, book>>
    <2>1. TypeOK'
      BY <1>1, <1>2, <1>3, <1>5 DEF TypeOK, JobRecord, bounds
    <2>2. QED
      BY <1>2, <1>3, <1>4, <1>5, <2>1, QuietStep DEF bounds
  <1>6. CASE wallet.spins > 0
    <2>1. PICK pts \in Nat : /\ wallet' = [wallet EXCEPT !.spins = @ - 1, !.points = @ + pts]
                             /\ ledger' = [ledger EXCEPT !.prizes = @ + pts]
                             /\ spun' = spun + 1
                             /\ book' = [book EXCEPT ![clock].rows = @ + 1]
      BY <1>6, Quantities DEF SpendCredit
    <2>2. wallet \in Wallet /\ ledger \in LedgerRow /\ spun \in Nat
      BY <1>1 DEF TypeOK, LedgerRow
    <2>3. /\ wallet' \in Wallet /\ wallet'.spins = wallet.spins - 1
          /\ wallet'.points = wallet.points + pts
      <3>1. wallet.spins - 1 \in Nat /\ wallet.points + pts \in Nat
        BY <1>6, <2>2 DEF Wallet
      <3>2. QED
        BY <2>1, <2>2, <3>1 DEF Wallet
    <2>4. /\ ledger' \in LedgerRow /\ ledger'.refs = ledger.refs
          /\ ledger'.prizes = ledger.prizes + pts
          /\ ledger'.points = ledger.points /\ ledger'.spins = ledger.spins
      BY <2>1, <2>2 DEF LedgerRow
    <2>5. book' \in [Day -> [amount : Nat, rows : Nat]]
      <3>1. clock \in Day /\ book[clock] \in [amount : Nat, rows : Nat]
        BY <1>1 DEF TypeOK
      <3>2. [book[clock] EXCEPT !.rows = @ + 1] \in [amount : Nat, rows : Nat]
        BY <3>1
      <3>3. QED
        BY <1>1, <2>1, <3>2 DEF TypeOK
    <2>6. TypeOK'
      <3>1. spun' \in Nat
        BY <2>1, <2>2
      <3>2. QED
        BY <1>1, <1>2, <1>3, <2>3, <2>4, <2>5, <3>1 DEF TypeOK, JobRecord, LedgerRow, bounds
    <2>7. PushesInv'
      BY <1>2, <1>3, <2>4, PushFrame, Kinds DEF Others, bounds
    <2>8. CreditsAccounted' /\ PointsAccounted'
      <3>1. /\ wallet.points \in Nat /\ wallet.spins \in Nat
            /\ ledger.points \in Nat /\ ledger.spins \in Nat /\ ledger.prizes \in Nat
        BY <2>2 DEF Wallet, LedgerRow
      <3>2. CreditsAccounted /\ PointsAccounted
        BY DEF IInv
      <3>3. QED
        BY <2>1, <2>2, <2>3, <2>4, <3>1, <3>2 DEF CreditsAccounted, PointsAccounted
    <2>9. QED
      BY <1>1, <1>2, <1>3, <1>4, <2>6, <2>7, <2>8, StepInv
  <1>7. QED
    BY <1>5, <1>6 DEF SpendCredit

-----------------------------------------------------------------------------
(* The environment.                                                        *)

LEMMA TickInv == ASSUME IInv, Tick PROVE IInv'
  <1>1. UNCHANGED <<data, job, lock, bonusJobs, bounds>>
    BY DEF Tick
  <1>2. TypeOK'
    <2>1. clock \in Day /\ clock < MaxDay /\ clock' = clock + 1
      BY DEF IInv, TypeOK, Tick
    <2>2. clock' \in Day
      BY <2>1, Quantities DEF Day
    <2>3. QED
      BY <1>1, <2>2 DEF IInv, TypeOK, data, bounds
  <1>3. \A u \in Job : HandlerInv(u)' /\ LockInv(u)'
    BY <1>1 DEF IInv, HandlerInv, LockInv, At, Ref, data
  <1>4. PushesInv'
    BY <1>1, PushFrame DEF data, bounds
  <1>5. CreditsAccounted' /\ PointsAccounted'
    BY <1>1 DEF IInv, CreditsAccounted, PointsAccounted, data
  <1>6. QED
    BY <1>2, <1>3, <1>4, <1>5 DEF IInv, PushesInv

LEMMA CrashInv == ASSUME IInv, Crash PROVE IInv'
  <1>1. /\ UNCHANGED <<data, clock, sent, spinCalls, faults>>
        /\ job' = [j \in Job |-> Idle] /\ lock' = NoJob /\ bonusJobs' = 0
        /\ crashes' = crashes + 1
    BY DEF Crash
  <1>2. TypeOK'
    <2>1. job' \in [Job -> JobRecord]
      BY <1>1, IdleJob
    <2>2. QED
      BY <1>1, <2>1 DEF IInv, TypeOK, JobRecord, data
  <1>3. \A u \in Job : job'[u].pc = "idle"
    BY <1>1 DEF Idle
  <1>4. \A u \in Job : HandlerInv(u)' /\ LockInv(u)' /\ AuditInv(u)'
    BY <1>1, <1>3, EndedHandler, KindsDiffer
  <1>5. OwnerInv'
    BY <1>3, Kinds DEF OwnerInv, Accepted
  <1>6. AuditMatchesLedger'
    <2>1. crashes' # 0
      BY <1>1 DEF IInv, TypeOK
    <2>2. QED
      BY <1>1, <2>1 DEF IInv, AuditMatchesLedger, data
  <1>7. CreditsAccounted' /\ PointsAccounted'
    BY <1>1 DEF IInv, CreditsAccounted, PointsAccounted, data
  <1>8. QED
    BY <1>2, <1>4, <1>5, <1>6, <1>7, Kinds DEF IInv

LEMMA InitInv == Init => IInv
  <1>. SUFFICES ASSUME Init PROVE IInv
    OBVIOUS
  <1>1. /\ job \in [Job -> JobRecord] /\ \A u \in Job : job[u].pc = "idle"
    BY IdleJob DEF Init, Idle
  <1>2. TypeOK
    BY <1>1, Quantities DEF Init, TypeOK, JobRecord, NewWallet, Wallet, NewUser, User, NoDate, Day
  <1>3. \A u \in Job : HandlerInv(u) /\ LockInv(u) /\ AuditInv(u)
    BY <1>1, KindsDiffer DEF Init, HandlerInv, LockInv, AuditInv, At, Holding, Accepted
  <1>4. OwnerInv
    BY <1>1, Kinds DEF OwnerInv, Accepted
  <1>5. AuditMatchesLedger /\ CreditsAccounted /\ PointsAccounted
    BY DEF Init, AuditMatchesLedger, CreditsAccounted, PointsAccounted, NewWallet
  <1>6. QED
    BY <1>2, <1>3, <1>4, <1>5, Kinds DEF IInv

LEMMA NextInv == IInv /\ [Next]_vars => IInv'
  <1>. SUFFICES ASSUME IInv, [Next]_vars PROVE IInv'
    OBVIOUS
  <1>1. ASSUME NEW j \in WebhookJob, WebhookStep(j) PROVE IInv'
    BY <1>1, FindUserInv, ReadWalletInv, UpdateWalletInv, UpdateStatsInv, InsertLedgerInv,
       CommitAwardInv DEF WebhookStep
  <1>2. ASSUME NEW j \in WebhookJob, RollBack(j) \/ \E r \in Charge : Deliver(j, r) PROVE IInv'
    BY <1>2, RollBackInv, DeliverInv
  <1>3. ASSUME NEW j \in PushJob, PushStep(j) PROVE IInv'
    BY <1>3, WriteAuditInv, ResolveUserInv, AwardPushInv, AfterPushInv DEF PushStep
  <1>4. ASSUME NEW j \in PushJob, FailPush(j) \/ \E p \in Push : CheckPush(j, p) PROVE IInv'
    BY <1>4, FailPushInv, CheckPushInv
  <1>5. ASSUME NEW j \in SpinJob, SpinStep(j) \/ CheckCredits(j) PROVE IInv'
    BY <1>5, CheckDailyCapInv, SpendCreditInv, CheckCreditsInv DEF SpinStep
  <1>6. CASE UNCHANGED vars
    <2>1. \A u \in Job : HandlerInv(u)' /\ LockInv(u)'
      BY <1>6 DEF IInv, HandlerInv, LockInv, At, Ref, vars, data
    <2>2. PushesInv'
      BY <1>6, PushFrame DEF vars, data, bounds
    <2>3. TypeOK' /\ CreditsAccounted' /\ PointsAccounted'
      BY <1>6 DEF IInv, TypeOK, CreditsAccounted, PointsAccounted, vars, data, bounds
    <2>4. QED
      BY <2>1, <2>2, <2>3 DEF IInv, PushesInv
  <1>7. QED
    BY <1>1, <1>2, <1>3, <1>4, <1>5, <1>6, FirstRechargeBonusInv, TickInv, CrashInv DEF Next

-----------------------------------------------------------------------------
(* Theorems.                                                               *)

\* IInv holds in every state.
THEOREM Inductive == Spec => []IInv
  <1>1. QED
    BY InitInv, NextInv, PTL DEF Spec

\* Every variable keeps its type; no balance is ever negative.
THEOREM TypeCorrect == Spec => []TypeOK
  <1>1. IInv => TypeOK
    BY DEF IInv
  <1>2. QED
    BY <1>1, Inductive, PTL

\* However webhooks, pushes and spins interleave, fail or are lost in a crash, the spin
\* credits of the wallet are those the ledger awarded less those spent.
THEOREM CreditsBalance == Spec => []CreditsAccounted
  <1>1. IInv => CreditsAccounted
    BY DEF IInv
  <1>2. QED
    BY <1>1, Inductive, PTL

\* The points of the wallet are those of the ledger.
THEOREM PointsBalance == Spec => []PointsAccounted
  <1>1. IInv => PointsAccounted
    BY DEF IInv
  <1>2. QED
    BY <1>1, Inductive, PTL

\* The audit row of a push and the ledger agree.
THEOREM AuditAgrees == Spec => []AuditMatchesLedger
  <1>1. IInv => AuditMatchesLedger
    BY DEF IInv
  <1>2. QED
    BY <1>1, Inductive, PTL

-----------------------------------------------------------------------------
(* The promise.                                                            *)

\* A reward of the recharge r: its row is new and no balance goes down.
LEMMA RewardStep ==
  ASSUME NEW r \in Recharge, r \notin ledger.refs, ledger'.refs = ledger.refs \cup {r},
         wallet'.points >= wallet.points, wallet'.spins >= wallet.spins
  PROVE  Promise!PromiseNext
  <1>1. Promise!Reward(r)
    BY DEF Promise!Reward
  <1>2. QED
    BY <1>1 DEF Promise!PromiseNext

LEMMA CommitPromise ==
  ASSUME IInv, NEW j \in WebhookJob, CommitAward(j)
  PROVE  Promise!PromiseNext
  <1>1. TypeOK /\ j \in Job /\ job[j] \in JobRecord
    BY Kinds DEF IInv, TypeOK, JobRecord
  <1>2. HandlerInv(j) /\ LockInv(j) /\ job[j].pc = "commit"
    BY <1>1 DEF IInv, CommitAward, At
  <1>3. Ref(j) \in Recharge /\ Ref(j) \notin ledger.refs /\ job[j].earned \in Reward
    BY <1>1, <1>2 DEF HandlerInv, LockInv, At, Recharge, JobRecord
  <1>4. ledger'.refs = ledger.refs \cup {Ref(j)}
    BY <1>1, <1>3, RecordedTypes DEF CommitAward
  <1>5. /\ wallet'.points = wallet.points + job[j].earned.points
        /\ wallet'.spins = wallet.spins + job[j].earned.spins
    BY <1>2 DEF CommitAward, LockInv, Holding
  <1>6. wallet'.points >= wallet.points /\ wallet'.spins >= wallet.spins
    BY <1>1, <1>3, <1>5 DEF TypeOK, Wallet, Reward
  <1>7. PICK r : r = Ref(j)
    OBVIOUS
  <1>8. QED
    BY <1>3, <1>4, <1>6, <1>7, RewardStep

LEMMA PushPromise ==
  ASSUME IInv, NEW j \in PushJob, AwardPush(j)
  PROVE  Promise!PromiseNext
  <1>0. PICK p \in Push, c \in Day, e \in Reward : PushAwarded(j, p, c, e)
    BY AwardPushStep
  <1>1. /\ p \in Recharge /\ p \notin ledger.refs
        /\ wallet'.points = wallet.points + e.points
        /\ wallet'.spins = wallet.spins + e.spins
        /\ Recorded(p, e, Fresh(wallet, c).day)
    BY <1>0 DEF PushAwarded
  <1>2. TypeOK
    BY DEF IInv
  <1>3. ledger'.refs = ledger.refs \cup {p}
    BY <1>1, <1>2, RecordedTypes
  <1>4. wallet'.points >= wallet.points /\ wallet'.spins >= wallet.spins
    BY <1>1, <1>2 DEF TypeOK, Wallet, Reward
  <1>5. QED
    BY <1>1, <1>3, <1>4, RewardStep

LEMMA SpinPromise ==
  ASSUME IInv, NEW j \in SpinJob, SpendCredit(j)
  PROVE  Promise!Spin \/ UNCHANGED <<ledger.refs, wallet.points, wallet.spins>>
  <1>1. CASE UNCHANGED <<wallet, ledger, spun, book>>
    BY <1>1
  <1>2. CASE wallet.spins > 0
    <2>1. PICK pts \in Nat : /\ wallet' = [wallet EXCEPT !.spins = @ - 1, !.points = @ + pts]
                             /\ ledger' = [ledger EXCEPT !.prizes = @ + pts]
      BY <1>2, Quantities DEF SpendCredit
    <2>2. wallet \in Wallet /\ ledger \in LedgerRow
      BY DEF IInv, TypeOK, LedgerRow
    <2>3. wallet'.spins = wallet.spins - 1 /\ wallet'.points = wallet.points + pts
      BY <2>1, <2>2 DEF Wallet
    <2>4. ledger'.refs = ledger.refs
      BY <2>1, <2>2 DEF LedgerRow
    <2>5. wallet'.points >= wallet.points
      BY <2>2, <2>3 DEF Wallet
    <2>6. QED
      BY <1>2, <2>3, <2>4, <2>5 DEF Promise!Spin
  <1>3. QED
    BY <1>1, <1>2 DEF SpendCredit

LEMMA StepPromise ==
  ASSUME IInv, [Next]_vars
  PROVE  [Promise!PromiseNext]_(Promise!promiseVars)
  <1>. DEFINE Stutters == UNCHANGED <<ledger.refs, wallet.points, wallet.spins>>
  <1>0. Stutters => [Promise!PromiseNext]_(Promise!promiseVars)
    BY DEF Promise!promiseVars
  <1>1. ASSUME NEW j \in WebhookJob, WebhookStep(j) PROVE Promise!PromiseNext \/ Stutters
    <2>1. CASE CommitAward(j)
      BY <2>1, CommitPromise
    <2>2. CASE FindUser(j) \/ ReadWallet(j) \/ UpdateWallet(j) \/ UpdateStats(j) \/ InsertLedger(j)
      BY <2>2 DEF FindUser, ReadWallet, UpdateWallet, UpdateStats, InsertLedger, data
    <2>3. QED
      BY <1>1, <2>1, <2>2 DEF WebhookStep
  <1>2. ASSUME NEW j \in WebhookJob, RollBack(j) \/ \E r \in Charge : Deliver(j, r)
        PROVE  Stutters
    BY <1>2 DEF RollBack, Deliver, data
  <1>3. ASSUME NEW j \in PushJob, PushStep(j) PROVE Promise!PromiseNext \/ Stutters
    <2>1. CASE AwardPush(j)
      BY <2>1, PushPromise
    <2>2. CASE WriteAudit(j) \/ ResolveUser(j) \/ AfterPush(j)
      BY <2>2 DEF WriteAudit, ResolveUser, AfterPush, data
    <2>3. QED
      BY <1>3, <2>1, <2>2 DEF PushStep
  <1>4. ASSUME NEW j \in PushJob, FailPush(j) \/ \E p \in Push : CheckPush(j, p)
        PROVE  Stutters
    BY <1>4 DEF FailPush, CheckPush
  <1>5. ASSUME NEW j \in SpinJob, SpinStep(j) \/ CheckCredits(j)
        PROVE  Promise!PromiseNext \/ Stutters
    <2>1. CASE SpendCredit(j)
      BY <2>1, SpinPromise DEF Promise!PromiseNext
    <2>2. CASE CheckDailyCap(j) \/ CheckCredits(j)
      BY <2>2 DEF CheckDailyCap, CheckCredits, data
    <2>3. QED
      BY <1>5, <2>1, <2>2 DEF SpinStep
  <1>6. CASE FirstRechargeBonus
    <2>1. ledger \in LedgerRow
      BY DEF IInv, TypeOK, LedgerRow
    <2>2. ledger'.refs = ledger.refs
      BY <1>6, <2>1 DEF FirstRechargeBonus, LedgerRow
    <2>3. Stutters
      BY <1>6, <2>2 DEF FirstRechargeBonus
    <2>4. QED
      BY <1>0, <2>3
  <1>7. CASE Tick \/ Crash \/ UNCHANGED vars
    BY <1>0, <1>7 DEF Tick, Crash, vars, data
  <1>. HIDE DEF Stutters
  <1>8. QED
    BY <1>0, <1>1, <1>2, <1>3, <1>4, <1>5, <1>6, <1>7 DEF Next

\* The handlers keep the programme's promise: a recharge is rewarded at most once and
\* in one step, a spin takes a credit that is there, and nothing else moves a balance.
THEOREM KeepsPromise == Spec => RefinesPromise
  <1>1. Init => Promise!PromiseInit
    BY DEF Init, NewWallet, Promise!PromiseInit
  <1>2. IInv /\ [Next]_vars => [Promise!PromiseNext]_(Promise!promiseVars)
    BY StepPromise
  <1>3. QED
    BY <1>1, <1>2, Inductive, PTL DEF Spec, RefinesPromise, Promise!PromiseSpec

-----------------------------------------------------------------------------
(* Days.                                                                   *)

\* No row, read or about to be committed, is of a day to come, and the row a
\* transaction will commit is not of an older day than the wallet.
DayInv ==
    /\ wallet.day <= clock
    /\ \A j \in WebhookJob :
          /\ job[j].wallet.day <= clock
          /\ job[j].pc \in Holding => wallet.day <= job[j].wallet.day

\* Only the handler that moves can disturb it, unless the wallet gets a later day.
LEMMA DayFrame ==
  ASSUME DayInv, NEW j \in Job, Others(j), clock' = clock,
         wallet'.day <= clock,
         wallet'.day = wallet.day \/ \A u \in WebhookJob \ {j} : job[u].pc \notin Holding,
         j \in WebhookJob => /\ job'[j].wallet.day <= clock
                             /\ job'[j].pc \in Holding => wallet'.day <= job'[j].wallet.day
  PROVE  DayInv'
  <1>1. ASSUME NEW u \in WebhookJob \ {j}
        PROVE  /\ job'[u].wallet.day <= clock
               /\ job'[u].pc \in Holding => wallet'.day <= job'[u].wallet.day
    BY <1>1, Kinds DEF Others, DayInv
  <1>2. QED
    BY <1>1 DEF DayInv

\* A handler is alone to hold the lock.
LEMMA OneHolder ==
  ASSUME IInv, NEW j \in Job, lock \in {NoJob, j}
  PROVE  \A u \in WebhookJob \ {j} : job[u].pc \notin Holding
  BY Kinds DEF IInv, LockInv

LEMMA WebhookDay ==
  ASSUME IInv, DayInv, NEW j \in WebhookJob,
         WebhookStep(j) \/ RollBack(j) \/ \E r \in Charge : Deliver(j, r)
  PROVE  DayInv' /\ wallet'.day >= wallet.day
  <1>1. /\ TypeOK /\ j \in Job /\ job[j] \in JobRecord /\ job \in [Job -> JobRecord]
        /\ wallet \in Wallet /\ clock \in Nat /\ LockInv(j) /\ HandlerInv(j)
        /\ {"user", "wallet", "award", "ledger", "commit"} \subseteq Pc
    BY Kinds DEF IInv, TypeOK, JobRecord, Day, Pc
  <1>2. /\ wallet.day \in Nat /\ job[j].wallet \in Wallet /\ job[j].wallet.day \in Nat
        /\ wallet.day <= clock /\ job[j].wallet.day <= clock
        /\ NewWallet.day <= clock
    BY <1>1 DEF DayInv, Wallet, JobRecord, NewWallet, NoDate
  <1>3. clock' = clock
    BY DEF WebhookStep, FindUser, ReadWallet, UpdateWallet, UpdateStats, InsertLedger,
           CommitAward, RollBack, Deliver
  <1>4. CASE CommitAward(j)
    <2>1. wallet' = job[j].wallet /\ wallet'.day >= wallet.day /\ lock = j
      BY <1>1, <1>2, <1>4 DEF CommitAward, DayInv, Holding, At, LockInv
    <2>2. Others(j) /\ job'[j].pc = "idle" /\ job'[j].wallet = NewWallet
      BY <1>1, <1>4, FinishStep DEF CommitAward
    <2>3. \A u \in WebhookJob \ {j} : job[u].pc \notin Holding
      BY <1>1, <2>1, OneHolder
    <2>4. QED
      BY <1>1, <1>2, <1>3, <2>1, <2>2, <2>3, DayFrame DEF Holding
  <1>5. CASE ~CommitAward(j)
    <2>1. wallet' = wallet
      BY <1>5 DEF WebhookStep, FindUser, ReadWallet, UpdateWallet, UpdateStats, InsertLedger,
                  RollBack, Deliver, data
    <2>2. /\ Others(j) /\ job'[j].wallet.day <= clock
          /\ job'[j].pc \in Holding => wallet.day <= job'[j].wallet.day
      <3>1. CASE \E r \in Charge : Deliver(j, r)
        <4>1. PICK r \in Charge : Deliver(j, r)
          BY <3>1
        <4>2. r \in Recharge
          BY DEF Recharge
        <4>3. CASE UNCHANGED job
          BY <1>2, <4>1, <4>3 DEF Deliver, At, Holding, Others
        <4>4. CASE Start(j, "user", r)
          BY <1>1, <1>2, <4>2, <4>4, StartStep DEF Holding
        <4>5. QED
          BY <4>1, <4>3, <4>4 DEF Deliver
      <3>2. CASE FindUser(j)
        <4>1. job' = [job EXCEPT ![j] = [job[j] EXCEPT !.pc = "wallet", !.user = user]]
          BY <3>2 DEF FindUser
        <4>2. Others(j) /\ job'[j].pc = "wallet" /\ job'[j].wallet = job[j].wallet
          BY <1>1, <4>1 DEF Others, JobRecord
        <4>3. QED
          BY <1>2, <4>2 DEF Holding
      <3>3. CASE ReadWallet(j)
        <4>1. job' = [job EXCEPT ![j] = [job[j] EXCEPT !.pc = "award", !.wallet = wallet]]
          BY <3>3 DEF ReadWallet
        <4>2. Others(j) /\ job'[j].pc = "award" /\ job'[j].wallet = wallet
          BY <1>1, <4>1 DEF Others, JobRecord
        <4>3. QED
          BY <1>2, <4>2 DEF Holding
      <3>4. CASE UpdateWallet(j)
        <4>1. PICK seen : seen = Fresh(job[j].wallet, clock)
          OBVIOUS
        <4>2. /\ seen \in Wallet /\ seen.day <= clock /\ seen.day >= clock
          <5>1. PICK old \in Wallet : old = job[j].wallet
            BY <1>2
          <5>2. /\ Fresh(old, clock) \in Wallet /\ Fresh(old, clock).day >= clock
                /\ Fresh(old, clock).day \in {old.day, clock}
            BY <1>1, FreshType
          <5>3. QED
            BY <1>1, <1>2, <4>1, <5>1, <5>2
        <4>3. PICK e, row : /\ e = Earned(seen, Amount[Ref(j)])
                            /\ row = Awarded(wallet, seen, Amount[Ref(j)])
          OBVIOUS
        <4>4. Amount[Ref(j)] \in Nat
          BY <1>1, <3>4, AmountNat DEF UpdateWallet, HandlerInv, At, Recharge
        <4>5. row.day = seen.day
          BY <1>1, <4>2, <4>3, <4>4, AwardedType
        <4>6. job' = [job EXCEPT ![j] = [job[j] EXCEPT !.pc = "stats", !.wallet = row,
                                                       !.earned = e]]
          BY <3>4, <4>1, <4>3 DEF UpdateWallet
        <4>7. Others(j) /\ job'[j].wallet = row
          BY <1>1, <4>6 DEF Others, JobRecord
        <4>8. seen.day \in Nat
          BY <4>2 DEF Wallet
        <4>9. QED
          BY <1>1, <1>2, <4>2, <4>5, <4>7, <4>8
      <3>5. CASE UpdateStats(j)
        <4>1. Others(j) /\ job'[j].wallet = job[j].wallet
          BY <1>1, <3>5, GotoStep DEF UpdateStats
        <4>2. job[j].pc \in Holding
          BY <3>5 DEF UpdateStats, At, Holding
        <4>3. QED
          BY <1>2, <4>1, <4>2 DEF DayInv
      <3>6. CASE InsertLedger(j)
        <4>1. job[j].pc \in Holding
          BY <3>6 DEF InsertLedger, At, Holding
        <4>2. CASE Finish(j)
          BY <1>1, <1>2, <4>2, FinishStep DEF Holding
        <4>3. CASE Goto(j, "commit")
          <5>1. Others(j) /\ job'[j].wallet = job[j].wallet
            BY <1>1, <4>3, GotoStep
          <5>2. QED
            BY <1>2, <4>1, <5>1 DEF DayInv
        <4>4. QED
          BY <3>6, <4>2, <4>3 DEF InsertLedger
      <3>7. CASE RollBack(j)
        <4>1. Finish(j)
          BY <3>7 DEF RollBack
        <4>2. QED
          BY <1>1, <1>2, <4>1, FinishStep DEF Holding
      <3>8. QED
        BY <1>5, <3>1, <3>2, <3>3, <3>4, <3>5, <3>6, <3>7 DEF WebhookStep
    <2>3. QED
      BY <1>1, <1>2, <1>3, <2>1, <2>2, DayFrame
  <1>6. QED
    BY <1>4, <1>5

LEMMA PushDay ==
  ASSUME IInv, DayInv, NEW j \in PushJob,
         PushStep(j) \/ FailPush(j) \/ \E p \in Push : CheckPush(j, p)
  PROVE  DayInv' /\ wallet'.day >= wallet.day
  <1>1. TypeOK /\ j \in Job /\ j \notin WebhookJob /\ wallet \in Wallet /\ clock \in Nat
    BY Kinds DEF IInv, TypeOK, Day
  <1>2. wallet.day \in Nat /\ wallet.day <= clock
    BY <1>1 DEF DayInv, Wallet
  <1>3. clock' = clock /\ Others(j)
    <2>1. clock' = clock
      BY DEF PushStep, WriteAudit, ResolveUser, AwardPush, AfterPush, FailPush, CheckPush
    <2>2. job \in [Job -> JobRecord]
      BY <1>1 DEF TypeOK, JobRecord
    <2>3. CASE \E p \in Push : CheckPush(j, p)
      BY <2>1, <2>2, <2>3 DEF CheckPush, Start, Others
    <2>4. CASE WriteAudit(j)
      BY <2>1, <2>2, <2>4 DEF WriteAudit, Goto, Finish, Others
    <2>5. CASE ResolveUser(j)
      BY <2>1, <2>2, <2>5 DEF ResolveUser, Others
    <2>6. CASE AwardPush(j)
      BY <2>1, <2>2, <2>6 DEF AwardPush, Others
    <2>7. CASE AfterPush(j) \/ FailPush(j)
      BY <2>1, <2>2, <2>7 DEF AfterPush, FailPush, Finish, Others
    <2>8. QED
      BY <2>3, <2>4, <2>5, <2>6, <2>7 DEF PushStep
  <1>4. CASE AwardPush(j)
    <2>1. PICK p \in Push, c \in Day, e \in Reward : PushAwarded(j, p, c, e)
      BY <1>4, AwardPushStep
    <2>2. c <= clock /\ c \in Nat /\ wallet'.day = Fresh(wallet, c).day /\ lock = NoJob
      BY <2>1 DEF PushAwarded, Day
    <2>3. wallet'.day \in {wallet.day, c} /\ wallet'.day >= wallet.day
      BY <1>1, <2>2, FreshType
    <2>4. wallet'.day <= clock
      BY <1>2, <2>2, <2>3
    <2>5. QED
      BY <1>1, <1>3, <2>2, <2>3, <2>4, OneHolder, DayFrame
  <1>5. CASE ~AwardPush(j)
    <2>1. wallet' = wallet
      BY <1>5 DEF PushStep, WriteAudit, ResolveUser, AfterPush, FailPush, CheckPush, data
    <2>2. QED
      BY <1>1, <1>2, <1>3, <2>1, DayFrame
  <1>6. QED
    BY <1>4, <1>5

LEMMA SpinDay ==
  ASSUME IInv, DayInv, NEW j \in SpinJob, SpinStep(j) \/ CheckCredits(j)
  PROVE  DayInv' /\ wallet'.day >= wallet.day
  <1>1. TypeOK /\ j \in Job /\ j \notin WebhookJob /\ wallet \in Wallet /\ clock \in Nat
    BY Kinds DEF IInv, TypeOK, Day
  <1>2. wallet.day \in Nat /\ wallet.day <= clock
    BY <1>1 DEF DayInv, Wallet
  <1>3. clock' = clock
    BY DEF SpinStep, CheckDailyCap, SpendCredit, CheckCredits
  <1>4. Others(j)
    <2>1. job \in [Job -> JobRecord]
      BY <1>1 DEF TypeOK, JobRecord
    <2>2. QED
      BY <2>1 DEF SpinStep, CheckDailyCap, SpendCredit, CheckCredits, Goto, Finish, Others
  <1>5. wallet'.day = wallet.day
    BY <1>1 DEF SpinStep, CheckDailyCap, SpendCredit, CheckCredits, data, Wallet
  <1>6. QED
    BY <1>1, <1>2, <1>3, <1>4, <1>5, DayFrame

LEMMA StepDay ==
  ASSUME IInv, DayInv, [Next]_vars
  PROVE  DayInv' /\ wallet'.day >= wallet.day
  <1>1. /\ clock \in Nat /\ wallet.day \in Nat
        /\ \A j \in WebhookJob : job[j].wallet.day \in Nat
    <2>1. clock \in Day /\ wallet \in Wallet /\ job \in [Job -> JobRecord]
      BY DEF IInv, TypeOK, JobRecord
    <2>2. \A j \in WebhookJob : job[j].wallet \in Wallet
      BY <2>1, Kinds DEF JobRecord
    <2>3. QED
      BY <2>1, <2>2 DEF Day, Wallet
  <1>2. CASE FirstRechargeBonus \/ UNCHANGED vars
    BY <1>1, <1>2 DEF FirstRechargeBonus, vars, data, DayInv
  <1>3. CASE Tick
    BY <1>1, <1>3 DEF Tick, data, DayInv
  <1>4. CASE Crash
    <2>1. \A j \in WebhookJob : job'[j] = Idle
      BY <1>4, Kinds DEF Crash
    <2>2. QED
      BY <1>1, <1>4, <2>1 DEF Crash, data, DayInv, Idle, NewWallet, NoDate, Holding
  <1>5. QED
    BY <1>2, <1>3, <1>4, WebhookDay, PushDay, SpinDay DEF Next

\* The wallet's daily counters only move to later days, even when an MTN event arrives
\* late or an award commits a row computed from an older one.
THEOREM DaysGoForward == Spec => DayForward
  <1>1. Init => DayInv
    BY Kinds DEF Init, DayInv, Idle, NewWallet, NoDate, Holding
  <1>2. IInv /\ DayInv /\ [Next]_vars => DayInv' /\ [wallet'.day >= wallet.day]_wallet
    BY StepDay
  <1>3. QED
    BY <1>1, <1>2, Inductive, PTL DEF Spec, DayForward

-----------------------------------------------------------------------------
(* Pushes alone.  ProcessMTNPush locks the wallet row before it reads it, so    *)
(* the counters it computes are never stale: without webhooks the cap of the    *)
(* day is kept and no kobo is wasted (with two webhooks at once neither holds). *)

\* The credits awarded for the wallet's day are the ones it counts; none is awarded for
\* a day it has not reached.
CapInv ==
    /\ wallet.dspins <= SpinMaxPerDay
    /\ \A d \in Day : /\ granted[d] <= SpinMaxPerDay
                      /\ d = wallet.day => granted[d] = wallet.dspins
                      /\ d > wallet.day => granted[d] = 0

LEMMA AwardPushCap ==
  ASSUME IInv, CapInv, NEW j \in PushJob, AwardPush(j)
  PROVE  CapInv'
  <1>1. PICK p \in Push, c \in Day, e \in Reward : PushAwarded(j, p, c, e)
    BY AwardPushStep
  <1>2. PICK seen : seen = Fresh(wallet, c)
    OBVIOUS
  <1>3. TypeOK /\ wallet \in Wallet /\ c \in Nat /\ p \in Recharge /\ granted \in [Day -> Nat]
    <2>1. c \in Nat
      BY DEF Day
    <2>2. QED
      BY <1>1, <2>1 DEF IInv, TypeOK, PushAwarded
  <1>4. /\ seen \in Wallet /\ seen.day \in {wallet.day, c} /\ seen.day >= wallet.day
        /\ wallet.day >= c => seen = wallet
        /\ wallet.day < c => seen.dspins = 0 /\ seen.day = c
    <2>1. /\ seen \in Wallet /\ seen.day \in {wallet.day, c} /\ seen.day >= wallet.day
          /\ wallet.day >= c => seen = wallet
          /\ wallet.day < c => seen.dspins = 0 /\ seen.day >= c
      BY <1>2, <1>3, FreshType
    <2>2. QED
      BY <1>3, <2>1 DEF Wallet
  <1>5. seen.dspins <= SpinMaxPerDay
    BY <1>3, <1>4, Quantities DEF CapInv, Wallet
  <1>6. e.spins \in Nat /\ seen.dspins + e.spins <= SpinMaxPerDay
    <2>1. seen.kobo + Amount[p] \in Nat /\ seen.dspins \in Nat
      BY <1>3, <1>4, AmountNat DEF Wallet
    <2>2. e.spins = SpinsDue(seen.kobo + Amount[p], seen.dspins)
      BY <1>1, <1>2 DEF PushAwarded, Earned
    <2>3. QED
      BY <1>5, <2>1, <2>2, SpinsDueBounded
  <1>7. wallet'.day = seen.day /\ wallet'.dspins = seen.dspins + e.spins
    BY <1>1, <1>2 DEF PushAwarded
  <1>8. /\ granted' \in [Day -> Nat]
        /\ seen.day \in Day => granted' = [granted EXCEPT ![seen.day] = granted[seen.day] + e.spins]
    BY <1>1, <1>2, <1>3, RecordedTypes DEF PushAwarded
  <1>9. seen.day \in Day => granted[seen.day] = seen.dspins
    BY <1>3, <1>4 DEF CapInv, Wallet
  <1>10. seen.day \notin Day => granted' = granted
    <2>1. granted' = [granted EXCEPT ![seen.day] = granted[seen.day] + e.spins]
      BY <1>1, <1>2 DEF PushAwarded, Recorded
    <2>2. QED
      BY <1>3, <2>1
  <1>11. ASSUME NEW d \in Day
         PROVE  /\ granted'[d] <= SpinMaxPerDay
                /\ d = wallet'.day => granted'[d] = wallet'.dspins
                /\ d > wallet'.day => granted'[d] = 0
    <2>1. wallet.day \in Nat /\ seen.day \in Nat /\ d \in Nat /\ seen.dspins \in Nat
      BY <1>3, <1>4 DEF Wallet, Day
    <2>2. CASE d = seen.day
      <3>1. granted[d] = seen.dspins /\ granted' = [granted EXCEPT ![d] = granted[d] + e.spins]
        BY <1>8, <1>9, <2>2, Zenon
      <3>2. granted'[d] = seen.dspins + e.spins
        BY <1>3, <3>1
      <3>3. QED
        BY <1>6, <1>7, <2>1, <2>2, <3>2
    <2>3. CASE d # seen.day
      <3>1. granted'[d] = granted[d]
        <4>1. CASE seen.day \in Day
          <5>1. PICK s \in Day : s = seen.day
            BY <4>1
          <5>2. granted' = [granted EXCEPT ![s] = granted[s] + e.spins]
            BY <1>8, <5>1
          <5>3. QED
            BY <1>3, <2>3, <5>1, <5>2
        <4>2. CASE seen.day \notin Day
          BY <1>10, <4>2
        <4>3. QED
          BY <4>1, <4>2
      <3>2. QED
        BY <1>4, <1>7, <2>1, <2>3, <3>1 DEF CapInv
    <2>4. QED
      BY <2>2, <2>3
  <1>12. QED
    BY <1>6, <1>7, <1>11 DEF CapInv

LEMMA AwardPushKobo ==
  ASSUME IInv, NoKoboWasted, NEW j \in PushJob, AwardPush(j)
  PROVE  NoKoboWasted'
  <1>1. PICK p \in Push, c \in Day, e \in Reward : PushAwarded(j, p, c, e)
    BY AwardPushStep
  <1>2. TypeOK /\ wallet \in Wallet /\ c \in Nat /\ p \in Recharge /\ ledger \in LedgerRow
    <2>1. c \in Nat
      BY DEF Day
    <2>2. QED
      BY <1>1, <2>1 DEF IInv, TypeOK, PushAwarded, LedgerRow
  <1>3. PICK n : n = wallet.pulse + Amount[p]
    OBVIOUS
  <1>4. /\ n \in Nat /\ Amount[p] \in Nat /\ wallet.pulse \in Nat
        /\ ledger.points \in Nat /\ ledger.amount \in Nat /\ PulseUnit \in Nat \ {0}
    BY <1>2, <1>3, AmountNat, Quantities DEF Wallet, LedgerRow
  <1>5. e.points = n \div PulseUnit
    <2>1. Fresh(wallet, c).pulse = wallet.pulse
      BY <1>2, FreshType
    <2>2. e.points = (Fresh(wallet, c).pulse + Amount[p]) \div PulseUnit
      BY <1>1 DEF PushAwarded, Earned
    <2>3. QED
      BY <1>3, <2>1, <2>2
  <1>6. /\ wallet'.pulse = n % PulseUnit
        /\ ledger'.points = ledger.points + e.points
        /\ ledger'.amount = ledger.amount + Amount[p]
    BY <1>1, <1>2, <1>3, RecordedTypes DEF PushAwarded
  <1>7. PICK q \in Nat, r \in Nat : q = n \div PulseUnit /\ r = n % PulseUnit /\ PulseUnit * q + r = n
    BY <1>4, Division
  <1>8. PulseUnit * (ledger.points + q) = PulseUnit * ledger.points + PulseUnit * q
    BY <1>4
  <1>9. PulseUnit * ledger.points + wallet.pulse = ledger.amount
    BY DEF NoKoboWasted
  <1>10. PICK a \in Nat, b \in Nat : a = PulseUnit * ledger.points /\ b = PulseUnit * q
    BY <1>4
  <1>11. a + b + r = ledger.amount + Amount[p]
    <2>1. b + r = n
      BY <1>7, <1>10
    <2>2. a + wallet.pulse = ledger.amount
      BY <1>9, <1>10
    <2>3. QED
      BY <1>3, <1>4, <2>1, <2>2
  <1>12. QED
    BY <1>5, <1>6, <1>7, <1>8, <1>10, <1>11 DEF NoKoboWasted

\* Every other step leaves the counters and the sums alone.
LEMMA OtherCounters ==
  ASSUME IInv, WebhookJob = {}, [Next]_vars, \A j \in PushJob : ~AwardPush(j)
  PROVE  /\ wallet'.dspins = wallet.dspins /\ wallet'.day = wallet.day
         /\ wallet'.pulse = wallet.pulse /\ granted' = granted
         /\ ledger'.points = ledger.points /\ ledger'.amount = ledger.amount
  <1>1. wallet \in Wallet /\ ledger \in LedgerRow
    BY DEF IInv, TypeOK, LedgerRow
  <1>2. ASSUME NEW j \in PushJob,
               PushStep(j) \/ FailPush(j) \/ \E p \in Push : CheckPush(j, p)
        PROVE  UNCHANGED <<wallet, granted, ledger>>
    BY <1>2 DEF PushStep, WriteAudit, ResolveUser, AfterPush, FailPush, CheckPush, data
  <1>3. ASSUME NEW j \in SpinJob, CheckDailyCap(j) \/ CheckCredits(j)
        PROVE  UNCHANGED <<wallet, granted, ledger>>
    BY <1>3 DEF CheckDailyCap, CheckCredits, data
  <1>4. ASSUME NEW j \in SpinJob, SpendCredit(j)
        PROVE  /\ wallet'.dspins = wallet.dspins /\ wallet'.day = wallet.day
               /\ wallet'.pulse = wallet.pulse /\ granted' = granted
               /\ ledger'.points = ledger.points /\ ledger'.amount = ledger.amount
    BY <1>1, <1>4 DEF SpendCredit, Wallet, LedgerRow
  <1>5. CASE FirstRechargeBonus
    BY <1>1, <1>5 DEF FirstRechargeBonus, LedgerRow
  <1>6. CASE Tick \/ Crash \/ UNCHANGED vars
    BY <1>6 DEF Tick, Crash, vars, data
  <1>7. QED
    BY <1>2, <1>3, <1>4, <1>5, <1>6 DEF Next, SpinStep

\* Without webhooks no day awards more spin credits than the cap.
THEOREM PushesKeepCap == ASSUME WebhookJob = {} PROVE Spec => []DailySpinCap
  <1>1. Init => CapInv
    BY Quantities DEF Init, CapInv, NewWallet, NoDate, Day
  <1>2. IInv /\ CapInv /\ [Next]_vars => CapInv'
    <2>. SUFFICES ASSUME IInv, CapInv, [Next]_vars PROVE CapInv'
      OBVIOUS
    <2>1. CASE \E j \in PushJob : AwardPush(j)
      BY <2>1, AwardPushCap
    <2>2. CASE \A j \in PushJob : ~AwardPush(j)
      BY <2>2, OtherCounters DEF CapInv
    <2>3. QED
      BY <2>1, <2>2
  <1>3. CapInv => DailySpinCap
    BY DEF CapInv, DailySpinCap
  <1>4. QED
    BY <1>1, <1>2, <1>3, Inductive, PTL DEF Spec

\* Without webhooks every kobo recharged is in the points awarded or in the remainder
\* the wallet carries.
THEOREM PushesWasteNothing == ASSUME WebhookJob = {} PROVE Spec => []NoKoboWasted
  <1>1. Init => NoKoboWasted
    BY Quantities DEF Init, NoKoboWasted, NewWallet
  <1>2. IInv /\ NoKoboWasted /\ [Next]_vars => NoKoboWasted'
    <2>. SUFFICES ASSUME IInv, NoKoboWasted, [Next]_vars PROVE NoKoboWasted'
      OBVIOUS
    <2>1. CASE \E j \in PushJob : AwardPush(j)
      BY <2>1, AwardPushKobo
    <2>2. CASE \A j \in PushJob : ~AwardPush(j)
      BY <2>2, OtherCounters DEF NoKoboWasted
    <2>3. QED
      BY <2>1, <2>2
  <1>3. QED
    BY <1>1, <1>2, Inductive, PTL DEF Spec
-----------------------------------------------------------------------------
(* Draw entries.                                                           *)

\* A pair for each of n things of one handler: n pairs.
LEMMA PairsCounted ==
  ASSUME NEW j, NEW n \in Nat
  PROVE  IsFiniteSet({j} \X (1 .. n)) /\ Cardinality({j} \X (1 .. n)) = n
  <1>1. IsFiniteSet({j}) /\ Cardinality({j}) = 1
    BY FS_Singleton
  <1>2. IsFiniteSet(1 .. n) /\ Cardinality(1 .. n) = n
    BY FS_Interval
  <1>3. /\ IsFiniteSet({j} \X (1 .. n))
        /\ Cardinality({j} \X (1 .. n)) = Cardinality({j}) * Cardinality(1 .. n)
    BY <1>1, <1>2, FS_Product, Zenon
  <1>4. QED
    BY <1>1, <1>2, <1>3

\* What is owed changes only with the handlers of pushes at "post".
LEMMA OwedFrame ==
  ASSUME \A u \in PushJob : job'[u] # job[u] => job[u].pc # "post" /\ job'[u].pc # "post"
  PROVE  Owed' = Owed
  <1>1. \A u \in PushJob : OwedBy(u)' = OwedBy(u)
    BY DEF OwedBy, At
  <1>2. QED
    BY <1>1 DEF Owed

\* One handler comes to owe n entries, or no longer does; the others stay as they are.
LEMMA OwedSplit ==
  ASSUME NEW j \in PushJob, Others(j), PushJob \subseteq Job
  PROVE  /\ ~At(j, "post") => Owed' = Owed \cup OwedBy(j)' /\ Owed \cap OwedBy(j)' = {}
         /\ job'[j].pc # "post" => Owed' = Owed \ OwedBy(j) /\ OwedBy(j) \subseteq Owed
  <1>1. \A u \in PushJob \ {j} : OwedBy(u)' = OwedBy(u)
    BY DEF OwedBy, At, Others
  <1>2. \A u \in PushJob : \A x \in OwedBy(u) : x[1] = u
    BY DEF OwedBy
  <1>3. \A x \in OwedBy(j)' : x[1] = j
    BY DEF OwedBy
  <1>4. CASE ~At(j, "post")
    <2>1. OwedBy(j) = {}
      BY <1>4 DEF OwedBy
    <2>2. Owed' = Owed \cup OwedBy(j)'
      BY <1>1, <2>1 DEF Owed
    <2>3. Owed \cap OwedBy(j)' = {}
      BY <1>2, <1>3, <2>1 DEF Owed
    <2>4. job'[j].pc # "post" => OwedBy(j)' = {}
      BY DEF OwedBy, At
    <2>5. QED
      BY <2>1, <2>2, <2>3, <2>4
  <1>5. CASE At(j, "post")
    <2>1. OwedBy(j) \subseteq Owed
      BY DEF Owed
    <2>2. ASSUME job'[j].pc # "post" PROVE Owed' = Owed \ OwedBy(j)
      <3>1. OwedBy(j)' = {}
        BY <2>2 DEF OwedBy, At
      <3>2. QED
        BY <1>1, <1>2, <3>1 DEF Owed
    <2>3. QED
      BY <1>5, <2>1, <2>2
  <1>6. QED
    BY <1>4, <1>5

LEMMA AwardPushEntries ==
  ASSUME IInv, EntriesInv, NEW j \in PushJob, AwardPush(j)
  PROVE  EntriesInv'
  <1>1. PICK p \in Push, c \in Day, e \in Reward : PushAwarded(j, p, c, e)
    BY AwardPushStep
  <1>2. job \in [Job -> JobRecord] /\ j \in Job /\ PushJob \subseteq Job /\ ledger \in LedgerRow
    BY DEF IInv, TypeOK, JobRecord, Job, LedgerRow
  <1>3. Others(j) /\ job'[j].pc = "post" /\ job'[j].earned = e
    BY <1>1, <1>2 DEF PushAwarded, Others, JobRecord
  <1>4. OwedBy(j)' = {j} \X (1 .. e.entries)
    BY <1>3 DEF OwedBy, At
  <1>5. ~At(j, "post")
    BY DEF AwardPush, At
  <1>6. Owed' = Owed \cup ({j} \X (1 .. e.entries)) /\ Owed \cap ({j} \X (1 .. e.entries)) = {}
    BY <1>2, <1>3, <1>4, <1>5, OwedSplit
  <1>7. e.entries \in Nat
    BY DEF Reward
  <1>8. IsFiniteSet(Owed') /\ Cardinality(Owed') = Cardinality(Owed) + e.entries
    <2>1. IsFiniteSet(Owed) /\ Cardinality(Owed) \in Nat
      BY FS_CardinalityType DEF EntriesInv
    <2>2. /\ IsFiniteSet(Owed \cup ({j} \X (1 .. e.entries)))
          /\ Cardinality(Owed \cup ({j} \X (1 .. e.entries)))
                = Cardinality(Owed) + Cardinality({j} \X (1 .. e.entries))
                  - Cardinality(Owed \cap ({j} \X (1 .. e.entries)))
      BY <1>7, <2>1, PairsCounted, FS_Union
    <2>3. Cardinality({j} \X (1 .. e.entries)) = e.entries /\ Cardinality({}) = 0
      BY <1>7, PairsCounted, FS_EmptySet
    <2>. DEFINE own == {j} \X (1 .. e.entries)
    <2>. HIDE DEF own
    <2>4. Owed \cap own = {} /\ Owed' = Owed \cup own
      BY <1>6 DEF own
    <2>5. /\ Cardinality(own) = e.entries /\ Cardinality(Owed \cap own) = 0
          /\ IsFiniteSet(Owed \cup own)
          /\ Cardinality(Owed \cup own) = Cardinality(Owed) + Cardinality(own)
                                           - Cardinality(Owed \cap own)
      BY <2>2, <2>3, <2>4 DEF own
    <2>6. QED
      BY <1>7, <2>1, <2>4, <2>5
  <1>9. ledger'.entries = ledger.entries + e.entries
    BY <1>1, <1>2 DEF PushAwarded, Recorded, LedgerRow
  <1>10. entries' = entries /\ entries \in Nat /\ ledger.entries \in Nat
    BY <1>2 DEF AwardPush, IInv, TypeOK, LedgerRow
  <1>11. Cardinality(Owed) \in Nat /\ entries + Cardinality(Owed) <= ledger.entries
    BY FS_CardinalityType DEF EntriesInv
  <1>12. QED
    BY <1>7, <1>8, <1>9, <1>10, <1>11 DEF EntriesInv

LEMMA AfterPushEntries ==
  ASSUME IInv, EntriesInv, NEW j \in PushJob, AfterPush(j)
  PROVE  EntriesInv'
  <1> DEFINE n == job[j].earned.entries
  <1>1. TypeOK /\ j \in Job /\ PushJob \subseteq Job /\ n \in Nat
    BY DEF IInv, TypeOK, Job, Reward
  <1>2. Others(j) /\ job'[j].pc = "idle"
    BY <1>1, FinishStep DEF AfterPush
  <1>3. OwedBy(j) = {j} \X (1 .. n)
    BY DEF AfterPush, OwedBy
  <1> HIDE DEF n
  <1>4. Owed' = Owed \ ({j} \X (1 .. n)) /\ Owed \cap ({j} \X (1 .. n)) = {j} \X (1 .. n)
    BY <1>1, <1>2, <1>3, OwedSplit
  <1>5. Cardinality(Owed) \in Nat /\ IsFiniteSet(Owed)
    BY FS_CardinalityType DEF EntriesInv
  <1>6. IsFiniteSet(Owed') /\ Cardinality(Owed') = Cardinality(Owed) - n
    <2>1. IsFiniteSet({j} \X (1 .. n)) /\ Cardinality({j} \X (1 .. n)) = n
      BY <1>1, PairsCounted
    <2>2. /\ IsFiniteSet(Owed \ ({j} \X (1 .. n)))
          /\ Cardinality(Owed \ ({j} \X (1 .. n)))
                = Cardinality(Owed) - Cardinality(Owed \cap ({j} \X (1 .. n)))
      BY <1>5, FS_Difference, Zenon
    <2>3. QED
      BY <1>4, <2>1, <2>2
  <1>7. entries \in Nat /\ ledger.entries \in Nat
    BY <1>1 DEF TypeOK
  <1>8. entries' \in {entries, entries + n} /\ ledger' = ledger
    BY <1>1, <1>7 DEF AfterPush, n
  <1>9. QED
    BY <1>1, <1>5, <1>6, <1>7, <1>8 DEF EntriesInv

LEMMA CommitEntries ==
  ASSUME IInv, EntriesInv, NEW j \in WebhookJob, CommitAward(j)
  PROVE  EntriesInv'
  <1> DEFINE n == job[j].earned.entries
  <1>1. TypeOK /\ j \in Job /\ j \notin PushJob /\ PushJob \subseteq Job /\ n \in Nat
    BY Kinds DEF IInv, TypeOK, Job, Reward
  <1>2. Owed' = Owed
    <2>1. \A u \in PushJob : job'[u] = job[u]
      BY <1>1, FinishStep DEF CommitAward, Others
    <2>2. QED
      BY <2>1, OwedFrame
  <1>3. entries' \in {entries, entries + n}
    BY <1>1 DEF CommitAward, TypeOK
  <1>4. ledger'.entries = ledger.entries + n
    BY <1>1 DEF CommitAward, Recorded, TypeOK
  <1>5. Cardinality(Owed) \in Nat /\ IsFiniteSet(Owed)
    BY FS_CardinalityType DEF EntriesInv
  <1>6. entries \in Nat /\ ledger.entries \in Nat
    BY <1>1 DEF TypeOK
  <1> HIDE DEF n
  <1>7. QED
    BY <1>1, <1>2, <1>3, <1>4, <1>5, <1>6 DEF EntriesInv

\* Every other step writes no draw entry and takes none from the ledger.
LEMMA OtherEntries ==
  ASSUME IInv, EntriesInv, Owed' = Owed, entries' = entries,
         ledger'.entries = ledger.entries
  PROVE  EntriesInv'
  BY DEF EntriesInv

\* A push handler that is not, and does not come to be, after its commit.
LEMMA PusherEntries ==
  ASSUME IInv, EntriesInv, NEW j \in PushJob,
         \/ WriteAudit(j) \/ ResolveUser(j) \/ FailPush(j) \/ \E p \in Push : CheckPush(j, p)
  PROVE  EntriesInv'
  <1>1. job \in [Job -> JobRecord] /\ j \in Job /\ PushJob \subseteq Job
    BY DEF IInv, TypeOK, JobRecord, Job
  <1>2. entries' = entries /\ ledger' = ledger
    BY DEF WriteAudit, ResolveUser, FailPush, CheckPush, data
  <1>3. /\ \A u \in PushJob \ {j} : job'[u] = job[u]
        /\ job'[j] # job[j] => job[j].pc # "post" /\ job'[j].pc # "post"
    <2>1. CASE WriteAudit(j)
      BY <1>1, <2>1 DEF WriteAudit, Goto, Finish, Idle, At, JobRecord
    <2>2. CASE ResolveUser(j)
      BY <1>1, <2>2 DEF ResolveUser, At, JobRecord
    <2>3. CASE FailPush(j)
      BY <1>1, <2>3 DEF FailPush, Finish, Idle, At
    <2>4. CASE \E p \in Push : CheckPush(j, p)
      BY <1>1, <2>4 DEF CheckPush, Start, Idle, At
    <2>5. QED
      BY <2>1, <2>2, <2>3, <2>4
  <1>4. Owed' = Owed
    BY <1>3, OwedFrame
  <1>5. QED
    BY <1>2, <1>4, OtherEntries

\* Webhooks before their commit, and spins.
LEMMA QuietEntries ==
  ASSUME IInv, EntriesInv, NEW j \in WebhookJob \cup SpinJob,
         \/ FindUser(j) \/ ReadWallet(j) \/ UpdateWallet(j) \/ UpdateStats(j) \/ InsertLedger(j)
         \/ RollBack(j) \/ (\E r \in Charge : Deliver(j, r))
         \/ CheckDailyCap(j) \/ SpendCredit(j) \/ CheckCredits(j)
  PROVE  EntriesInv'
  <1>1. job \in [Job -> JobRecord] /\ j \in Job /\ j \notin PushJob /\ PushJob \subseteq Job
    BY Kinds DEF IInv, TypeOK, JobRecord, Job
  <1>2. entries' = entries
    BY DEF FindUser, ReadWallet, UpdateWallet, UpdateStats, InsertLedger, RollBack, Deliver,
           CheckDailyCap, SpendCredit, CheckCredits, data
  <1>3. ledger'.entries = ledger.entries
    BY DEF FindUser, ReadWallet, UpdateWallet, UpdateStats, InsertLedger, RollBack, Deliver,
           CheckDailyCap, SpendCredit, CheckCredits, data, IInv, TypeOK
  <1>4. \A u \in PushJob : job'[u] = job[u]
    BY <1>1 DEF FindUser, ReadWallet, UpdateWallet, UpdateStats, InsertLedger, RollBack, Deliver,
           CheckDailyCap, SpendCredit, CheckCredits, Goto, Finish, Start
  <1>5. QED
    BY <1>2, <1>3, <1>4, OwedFrame, OtherEntries

LEMMA EntriesStep == IInv /\ EntriesInv /\ [Next]_vars => EntriesInv'
  <1>. SUFFICES ASSUME IInv, EntriesInv, [Next]_vars PROVE EntriesInv'
    OBVIOUS
  <1>1. ASSUME NEW j \in WebhookJob,
               WebhookStep(j) \/ RollBack(j) \/ \E r \in Charge : Deliver(j, r)
        PROVE  EntriesInv'
    BY <1>1, CommitEntries, QuietEntries DEF WebhookStep
  <1>2. ASSUME NEW j \in PushJob,
               PushStep(j) \/ FailPush(j) \/ \E p \in Push : CheckPush(j, p)
        PROVE  EntriesInv'
    BY <1>2, AwardPushEntries, AfterPushEntries, PusherEntries DEF PushStep
  <1>3. ASSUME NEW j \in SpinJob, SpinStep(j) \/ CheckCredits(j) PROVE EntriesInv'
    BY <1>3, QuietEntries DEF SpinStep
  <1>4. CASE FirstRechargeBonus
    <2>1. ledger'.entries = ledger.entries
      BY <1>4 DEF FirstRechargeBonus, IInv, TypeOK
    <2>2. QED
      BY <1>4, <2>1, OwedFrame, OtherEntries DEF FirstRechargeBonus
  <1>5. CASE Tick \/ UNCHANGED vars
    BY <1>5, OwedFrame, OtherEntries DEF Tick, vars, data
  <1>6. CASE Crash
    <2>1. \A u \in PushJob : OwedBy(u)' = {}
      BY <1>6, Kinds DEF Crash, OwedBy, At, Idle
    <2>2. Owed' = {}
      BY <2>1 DEF Owed
    <2>3. IsFiniteSet(Owed') /\ Cardinality(Owed') = 0
      BY <2>2, FS_EmptySet
    <2>4. Cardinality(Owed) \in Nat /\ entries \in Nat /\ ledger.entries \in Nat
      BY FS_CardinalityType DEF EntriesInv, IInv, TypeOK
    <2>5. QED
      BY <1>6, <2>3, <2>4 DEF EntriesInv, Crash, data
  <1>7. QED
    BY <1>1, <1>2, <1>3, <1>4, <1>5, <1>6 DEF Next

\* Never more draw entries than the recorded recharges have earned, whichever handlers are
\* between their commit and the insert of the entries, also when the process dies there.
THEOREM EntriesAreBacked == Spec => []EntriesBacked
  <1>1. Init => EntriesInv
    <2>. SUFFICES ASSUME Init PROVE EntriesInv
      OBVIOUS
    <2>1. \A u \in PushJob : OwedBy(u) = {}
      BY Kinds DEF Init, OwedBy, At, Idle
    <2>2. Owed = {}
      BY <2>1 DEF Owed
    <2>3. QED
      BY <2>2, FS_EmptySet DEF Init, EntriesInv
  <1>2. IInv /\ EntriesInv => EntriesBacked
    <2>. SUFFICES ASSUME IInv, EntriesInv PROVE EntriesBacked
      OBVIOUS
    <2>1. Cardinality(Owed) \in Nat /\ entries \in Nat /\ ledger.entries \in Nat
      BY FS_CardinalityType DEF EntriesInv, IInv, TypeOK
    <2>2. QED
      BY <2>1 DEF EntriesInv, EntriesBacked
  <1>3. QED
    BY <1>1, <1>2, EntriesStep, Inductive, PTL DEF Spec
==============================================================================
