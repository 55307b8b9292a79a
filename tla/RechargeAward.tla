---------------------------- MODULE RechargeAward ----------------------------
(***************************************************************************)
(* The wallet of one subscriber and everything that earns or spends its    *)
(* spin credits: Paystack and BSS webhooks (RechargeService), MTN pushes   *)
(* (MTNPushService) and spins (SpinService.PlaySpin).  The handlers run    *)
(* concurrently over one database; deliveries are repeated, the process    *)
(* crashes, statements fail and days go by.                                *)
(*                                                                         *)
(* A subscriber has one wallets row and one users row, and no statement    *)
(* of these handlers reads another subscriber's, so one subscriber is      *)
(* enough.                                                                 *)
(***************************************************************************)
EXTENDS Integers, FiniteSets

CONSTANTS
    Charge,          \* references of Paystack and BSS recharges
    Push,            \* transaction references of MTN pushes
    Amount,          \* the amount of each recharge
    WebhookJob,      \* goroutines that run ProcessRechargeWebhook
    PushJob,         \* requests that run ProcessMTNPush
    SpinJob,         \* requests that run PlaySpin
    MinAmount,       \* min_recharge_naira, mtn_push_min_amount_naira
    PulseUnit,       \* pulse_naira_per_point
    DrawUnit,        \* draw_naira_per_entry
    Tier,            \* active spin_tiers rows: records [min, max, spins]
    SpinMaxPerDay,   \* spin_max_per_day
    BonusPoints,     \* first_recharge_bonus_points
    PrizePoints,     \* points of a Pulse Points prize of the wheel
    NoJob            \* holder of a row lock nobody holds

CONSTANTS            \* bounds of the model
    MaxDeliveries,   \* deliveries of one recharge
    MaxSpins,        \* calls of PlaySpin
    MaxFaults,       \* failing statements
    MaxCrashes,      \* crashes of the process
    MaxDay,          \* last day of the clock
    MaxLag           \* days an MTN event may arrive late

Recharge == Charge \cup Push
Job == WebhookJob \cup PushJob \cup SpinJob
Day == 1 .. MaxDay

ASSUME KindsDiffer ==
    /\ Charge \cap Push = {}
    /\ WebhookJob \cap PushJob = {}
    /\ WebhookJob \cap SpinJob = {}
    /\ PushJob \cap SpinJob = {}
    /\ NoJob \notin Job

ASSUME Quantities ==
    /\ Amount \in [Recharge -> Nat]
    /\ PulseUnit \in Nat \ {0}
    /\ DrawUnit \in Nat \ {0}
    /\ {SpinMaxPerDay, BonusPoints, PrizePoints, MinAmount} \subseteq Nat
    /\ {MaxDeliveries, MaxSpins, MaxFaults, MaxCrashes, MaxLag} \subseteq Nat
    /\ MaxDay \in Nat \ {0}

ASSUME TierBands ==
    /\ \A band \in Tier : band.min \in Nat /\ band.spins \in Nat
    /\ \A b, c \in Tier : b # c => b.max < c.min \/ c.max < b.min

VARIABLES
    wallet,          \* the wallets row
    user,            \* the users row
    ledger,          \* sums over the transactions rows
    book,            \* for each day: what was recharged and spun on it
    spun,            \* spin_results rows
    granted,         \* history: spin credits awarded for each accounting day
    event,           \* status of the mtn_push_events row of each push
    answered,        \* pushes MTN has had a 200 for
    entries,         \* draw_entries written
    job,             \* the handlers
    lock,            \* holder of the row lock of the wallet
    bonusJobs,       \* checkFirstRechargeBonus goroutines that have not run
    clock,           \* the day today
    sent, spinCalls, faults, crashes   \* what has been used of the bounds

data == <<wallet, user, ledger, book, granted, spun, event, answered, entries>>
bounds == <<sent, spinCalls, faults, crashes>>
vars == <<data, job, lock, bonusJobs, clock, bounds>>

------------------------------------------------------------------------------
(* Days.  The code cuts time with In(wat).Truncate(24h), that is at        *)
(* multiples of 24 hours of absolute time whatever the zone: its days      *)
(* begin at 00:00 UTC (01:00 WAT), for the wallet's counters as for the    *)
(* rows counted by PlaySpin.  The clock counts these days.                 *)

\* daily_recharge_date of a wallet that was never recharged.
NoDate == 0

------------------------------------------------------------------------------
(* Rewards of a recharge.                                                  *)

\* spins_per_day of the active tier a daily total falls into.
TierSpins(total) ==
    LET bands == {b \in Tier : b.min <= total /\ total <= b.max}
    IN  IF bands = {} THEN 0 ELSE (CHOOSE b \in bands : TRUE).spins

\* Mutant of SpinsDue: what was awarded earlier in the day is forgotten.
SpinsDueMutant(total, already) ==
    IF TierSpins(total) > SpinMaxPerDay THEN SpinMaxPerDay ELSE TierSpins(total)

\* Spin credits still due for a daily total when some were awarded already.
SpinsDue(total, already) ==
    LET allowed == IF TierSpins(total) > SpinMaxPerDay THEN SpinMaxPerDay
                                                       ELSE TierSpins(total)
    IN  IF allowed > already THEN allowed - already ELSE 0

\* Mutant of Fresh: the remainder of the points is reset with the others.
FreshMutantPulse(w, d) ==
    IF w.day < d THEN [w EXCEPT !.kobo = 0, !.dspins = 0, !.draw = 0, !.pulse = 0, !.day = d]
                 ELSE w

\* Mutant of Fresh: any other date counts as a new day.
FreshMutantDate(w, d) ==
    IF w.day # d THEN [w EXCEPT !.kobo = 0, !.dspins = 0, !.draw = 0, !.day = d] ELSE w

\* The wallet as a handler sees it on day d: counters of an older day are void.
Fresh(w, d) == IF w.day < d THEN [w EXCEPT !.kobo = 0, !.dspins = 0, !.draw = 0, !.day = d]
                            ELSE w

\* What a recharge of the given amount earns, computed from a wallet already made Fresh.
Earned(w, amount) ==
    [points  |-> (w.pulse + amount) \div PulseUnit,
     entries |-> (w.draw + amount) \div DrawUnit,
     spins   |-> SpinsDue(w.kobo + amount, w.dspins)]

\* Mutant of Awarded: the credits are written as a value computed from the row seen.
AwardedMutant(row, seen, amount) ==
    LET e == Earned(seen, amount)
    IN  [row EXCEPT !.points = @ + e.points,
                    !.spins  = seen.spins + e.spins,
                    !.pulse  = (seen.pulse + amount) % PulseUnit,
                    !.draw   = (seen.draw + amount) % DrawUnit,
                    !.kobo   = seen.kobo + amount,
                    !.dspins = seen.dspins + e.spins,
                    !.day    = seen.day]

\* The row an award writes: counters computed from seen, points and credits added to the row.
Awarded(row, seen, amount) ==
    LET e == Earned(seen, amount)
    IN  [row EXCEPT !.points = @ + e.points,
                    !.spins  = @ + e.spins,
                    !.pulse  = (seen.pulse + amount) % PulseUnit,
                    !.draw   = (seen.draw + amount) % DrawUnit,
                    !.kobo   = seen.kobo + amount,
                    !.dspins = seen.dspins + e.spins,
                    !.day    = seen.day]

\* calculateNewStreak, calcStreak: 1 at first, then one more, the same (a grace day) or 1 again.
NewStreaks(u) == IF u.last THEN {u.streak + 1, u.streak, 1} ELSE {1}

\* Save(user) writes every column of the struct that was read earlier.
SavedUser(u, amount) == [u EXCEPT !.total = @ + amount, !.last = TRUE]

\* The transactions rows and the daily sums of an award for accounting day d.
Recorded(r, e, d) ==
    /\ ledger' = [ledger EXCEPT !.refs = @ \cup {r},
                                !.amount = @ + Amount[r],
                                !.points = @ + e.points,
                                !.spins = @ + e.spins,
                                !.entries = @ + e.entries]
    /\ book' = [book EXCEPT ![clock].amount = @ + Amount[r]]
    /\ granted' = [granted EXCEPT ![d] = @ + e.spins]

------------------------------------------------------------------------------
(* State.                                                                  *)

Pc == {"idle", "user", "wallet", "award", "stats", "ledger", "commit",
       "audit", "resolve", "push", "post", "cap", "spend"}

Wallet == [points : Nat, spins : Nat, pulse : Nat, draw : Nat,
           kobo : Nat, dspins : Nat, day : Nat]
Reward == [points : Nat, entries : Nat, spins : Nat]
User == [total : Nat, streak : Nat, last : BOOLEAN]

NewWallet == [points |-> 0, spins |-> 0, pulse |-> 0, draw |-> 0,
              kobo |-> 0, dspins |-> 0, day |-> NoDate]
NewUser == [total |-> 0, streak |-> 0, last |-> FALSE]

Idle == [pc |-> "idle", ref |-> NoJob, wallet |-> NewWallet, user |-> NewUser,
         earned |-> [points |-> 0, entries |-> 0, spins |-> 0]]

TypeOK ==
    /\ wallet \in Wallet
    /\ user \in User
    /\ ledger \in [refs : SUBSET Recharge, amount : Nat, points : Nat, prizes : Nat, bonus : Nat,
                   spins : Nat, entries : Nat]
    /\ book \in [Day -> [amount : Nat, rows : Nat]]
    /\ granted \in [Day -> Nat]
    /\ spun \in Nat
    /\ event \in [Push -> {"none", "RECEIVED", "FAILED", "PROCESSED"}]
    /\ answered \in SUBSET Push
    /\ entries \in Nat
    /\ job \in [Job -> [pc : Pc, ref : Recharge \cup {NoJob}, wallet : Wallet, user : User,
                        earned : Reward]]
    /\ lock \in Job \cup {NoJob}
    /\ bonusJobs \in Nat
    /\ clock \in Day
    /\ sent \in [Recharge -> Nat]
    /\ spinCalls \in Nat
    /\ faults \in Nat
    /\ crashes \in Nat

Init ==
    /\ wallet = NewWallet
    /\ user = NewUser
    /\ ledger = [refs |-> {}, amount |-> 0, points |-> 0, prizes |-> 0, bonus |-> 0,
                 spins |-> 0, entries |-> 0]
    /\ book = [d \in Day |-> [amount |-> 0, rows |-> 0]]
    /\ granted = [d \in Day |-> 0]
    /\ spun = 0
    /\ event = [p \in Push |-> "none"]
    /\ answered = {}
    /\ entries = 0
    /\ job = [j \in Job |-> Idle]
    /\ lock = NoJob
    /\ bonusJobs = 0
    /\ clock = 1
    /\ sent = [r \in Recharge |-> 0]
    /\ spinCalls = 0
    /\ faults = 0
    /\ crashes = 0

Goto(j, pc) == job' = [job EXCEPT ![j].pc = pc]
Finish(j) == job' = [job EXCEPT ![j] = Idle]
Start(j, pc, r) == job' = [job EXCEPT ![j] = [Idle EXCEPT !.pc = pc, !.ref = r]]

At(j, pc) == job[j].pc = pc
Ref(j) == job[j].ref

\* A statement that needs the wallet row waits while a transaction holds it.
Unlocked == lock = NoJob

------------------------------------------------------------------------------
(* Paystack and BSS webhooks: ProcessRechargeWebhook and                   *)
(* processAwardTransaction.  The handler has answered 200 before it starts.*)

\* The webhook arrives; its goroutine looks the reference up.
Deliver(j, r) ==
    /\ At(j, "idle") /\ sent[r] < MaxDeliveries
    /\ sent' = [sent EXCEPT ![r] = @ + 1]
    /\ IF r \in ledger.refs \/ Amount[r] < MinAmount
          THEN UNCHANGED job
          ELSE Start(j, "user", r)
    /\ UNCHANGED <<data, lock, bonusJobs, clock, spinCalls, faults, crashes>>

\* FindByPhoneNumber.
FindUser(j) ==
    /\ At(j, "user")
    /\ job' = [job EXCEPT ![j].pc = "wallet", ![j].user = user]
    /\ UNCHANGED <<data, lock, bonusJobs, clock, bounds>>

\* GetWalletForUpdate is not run on dbTx: the row lock ends with the statement.
ReadWallet(j) ==
    /\ At(j, "wallet") /\ Unlocked
    /\ job' = [job EXCEPT ![j].pc = "award", ![j].wallet = wallet]
    /\ UNCHANGED <<data, lock, bonusJobs, clock, bounds>>

\* Mutant of UpdateWallet: the UPDATE runs on another connection and is committed at once.
UpdateWalletMutant(j) ==
    LET seen == Fresh(job[j].wallet, clock)
        e == Earned(seen, Amount[Ref(j)])
        row == Awarded(wallet, seen, Amount[Ref(j)])
    IN  /\ At(j, "award") /\ Unlocked
        /\ lock' = j
        /\ wallet' = row
        /\ job' = [job EXCEPT ![j].pc = "stats", ![j].wallet = row, ![j].earned = e]
        /\ \E s \in NewStreaks(job[j].user) : user' = [user EXCEPT !.streak = s]
        /\ UNCHANGED <<ledger, book, granted, spun, event, answered, entries>>
        /\ UNCHANGED <<bonusJobs, clock, bounds>>

\* Mutant of UpdateWallet: the draw entries are inserted on another connection.
UpdateWalletMutantEntries(j) ==
    LET seen == Fresh(job[j].wallet, clock)
        e == Earned(seen, Amount[Ref(j)])
        row == Awarded(wallet, seen, Amount[Ref(j)])
    IN  /\ At(j, "award") /\ Unlocked
        /\ lock' = j
        /\ job' = [job EXCEPT ![j].pc = "stats", ![j].wallet = row,
                              ![j].earned = [e EXCEPT !.entries = 0]]
        /\ \E s \in NewStreaks(job[j].user) : user' = [user EXCEPT !.streak = s]
        /\ entries' = entries + e.entries
        /\ UNCHANGED <<wallet, ledger, book, granted, spun, event, answered>>
        /\ UNCHANGED <<bonusJobs, clock, bounds>>

\* Everything is computed from the wallet read before.  The UPDATE takes the row lock
\* and stays invisible until the commit; UpdateStreak, on another connection, does not.
UpdateWallet(j) ==
    LET seen == Fresh(job[j].wallet, clock)
        e == Earned(seen, Amount[Ref(j)])
        row == Awarded(wallet, seen, Amount[Ref(j)])
    IN  /\ At(j, "award") /\ Unlocked
        /\ lock' = j
        /\ job' = [job EXCEPT ![j].pc = "stats", ![j].wallet = row, ![j].earned = e]
        /\ \E s \in NewStreaks(job[j].user) : user' = [user EXCEPT !.streak = s]
        /\ UNCHANGED <<wallet, ledger, book, granted, spun, event, answered, entries>>
        /\ UNCHANGED <<bonusJobs, clock, bounds>>

\* userRepo.Update saves the user read by FindUser, again on another connection.
UpdateStats(j) ==
    /\ At(j, "stats")
    /\ user' = SavedUser(job[j].user, Amount[Ref(j)])
    /\ Goto(j, "ledger")
    /\ UNCHANGED <<wallet, ledger, book, granted, spun, event, answered, entries>>
    /\ UNCHANGED <<lock, bonusJobs, clock, bounds>>

\* Mutant of InsertLedger: reference has no unique index.
InsertLedgerMutant(j) ==
    /\ At(j, "ledger")
    /\ Goto(j, "commit") /\ bonusJobs' = bonusJobs + 1 /\ UNCHANGED lock
    /\ UNCHANGED <<data, clock, bounds>>

\* SaveTx meets the unique index on reference; the bonus goroutine starts
\* before the transaction commits.
InsertLedger(j) ==
    /\ At(j, "ledger")
    /\ IF Ref(j) \in ledger.refs
          THEN Finish(j) /\ lock' = NoJob /\ UNCHANGED bonusJobs
          ELSE Goto(j, "commit") /\ bonusJobs' = bonusJobs + 1 /\ UNCHANGED lock
    /\ UNCHANGED <<data, clock, bounds>>

\* Mutant of CommitAward: the transaction is left open.
CommitAwardMutant(j) ==
    /\ At(j, "commit")
    /\ wallet' = job[j].wallet
    /\ Recorded(Ref(j), job[j].earned, job[j].wallet.day)
    /\ \E open \in BOOLEAN : entries' = entries + (IF open THEN job[j].earned.entries ELSE 0)
    /\ Finish(j)
    /\ UNCHANGED <<user, spun, event, answered, lock, bonusJobs, clock, bounds>>

\* The transaction commits: wallet, ledger rows and draw entries appear together.
CommitAward(j) ==
    /\ At(j, "commit")
    /\ wallet' = job[j].wallet
    /\ Recorded(Ref(j), job[j].earned, job[j].wallet.day)
    /\ \E open \in BOOLEAN : entries' = entries + (IF open THEN job[j].earned.entries ELSE 0)
    /\ Finish(j)
    /\ lock' = NoJob
    /\ UNCHANGED <<user, spun, event, answered, bonusJobs, clock, bounds>>

\* A statement of the transaction fails and it is rolled back; the users row
\* keeps what was written on other connections.
RollBack(j) ==
    /\ job[j].pc \in {"user", "wallet", "award", "stats", "ledger", "commit"}
    /\ faults < MaxFaults
    /\ faults' = faults + 1
    /\ Finish(j)
    /\ lock' = IF lock = j THEN NoJob ELSE lock
    /\ UNCHANGED <<data, bonusJobs, clock, sent, spinCalls, crashes>>

\* checkFirstRechargeBonus: a ledger row when exactly one recharge is visible.
FirstRechargeBonus ==
    /\ bonusJobs > 0
    /\ bonusJobs' = bonusJobs - 1
    /\ ledger' = IF Cardinality(ledger.refs) = 1 THEN [ledger EXCEPT !.bonus = BonusPoints]
                                                  ELSE ledger
    /\ UNCHANGED <<wallet, user, book, granted, spun, event, answered, entries>>
    /\ UNCHANGED <<job, lock, clock, bounds>>

------------------------------------------------------------------------------
(* MTN pushes: ProcessMTNPush.  MTN repeats a push until it gets a 200.    *)

\* A push whose audit row exists is answered as a duplicate whatever its status.
CheckPush(j, p) ==
    /\ At(j, "idle") /\ sent[p] < MaxDeliveries
    /\ sent' = [sent EXCEPT ![p] = @ + 1]
    /\ \/ /\ event[p] # "none"
          /\ answered' = answered \cup {p}
          /\ UNCHANGED job
       \/ /\ event[p] = "none" /\ Amount[p] < MinAmount
          /\ UNCHANGED <<answered, job>>
       \/ /\ event[p] = "none" /\ Amount[p] >= MinAmount
          /\ Start(j, "audit", p)
          /\ UNCHANGED answered
    /\ UNCHANGED <<wallet, user, ledger, book, granted, spun, event, entries>>
    /\ UNCHANGED <<lock, bonusJobs, clock, spinCalls, faults, crashes>>

\* The audit row; transaction_ref is unique, so a second one is refused.
WriteAudit(j) ==
    /\ At(j, "audit")
    /\ IF event[Ref(j)] = "none"
          THEN event' = [event EXCEPT ![Ref(j)] = "RECEIVED"] /\ Goto(j, "resolve")
          ELSE UNCHANGED event /\ Finish(j)
    /\ UNCHANGED <<wallet, user, ledger, book, granted, spun, answered, entries>>
    /\ UNCHANGED <<lock, bonusJobs, clock, bounds>>

ResolveUser(j) ==
    /\ At(j, "resolve")
    /\ job' = [job EXCEPT ![j].pc = "push", ![j].user = user]
    /\ UNCHANGED <<data, lock, bonusJobs, clock, bounds>>

\* The transaction locks the wallet row before it reads it and runs wholly on
\* that connection: one step.  Save(user) undoes the streak it has just written.
AwardPush(j) ==
    LET p == Ref(j) IN
    /\ At(j, "push") /\ Unlocked /\ p \notin ledger.refs
    /\ \E c \in Day :
        LET seen == Fresh(wallet, c)
        IN  /\ c <= clock /\ clock - c <= MaxLag
            /\ wallet' = Awarded(wallet, seen, Amount[p])
            /\ Recorded(p, Earned(seen, Amount[p]), seen.day)
            /\ job' = [job EXCEPT ![j].pc = "post", ![j].earned = Earned(seen, Amount[p])]
    /\ user' = SavedUser(job[j].user, Amount[p])
    /\ answered' = answered \cup {p}
    /\ UNCHANGED <<spun, event, entries, lock, bonusJobs, clock, bounds>>

\* The goroutine after the commit: draw entries, then PROCESSED.
AfterPush(j) ==
    /\ At(j, "post")
    /\ \E open \in BOOLEAN :
         entries' = entries + (IF open THEN job[j].earned.entries ELSE 0)
    /\ event' = [event EXCEPT ![Ref(j)] = "PROCESSED"]
    /\ Finish(j)
    /\ UNCHANGED <<wallet, user, ledger, book, granted, spun, answered>>
    /\ UNCHANGED <<lock, bonusJobs, clock, bounds>>

\* Mutant of FailPush: an error of the work after the commit marks the event failed too.
FailPushMutant(j) ==
    /\ job[j].pc \in {"resolve", "push", "post"}
    /\ faults < MaxFaults
    /\ faults' = faults + 1
    /\ event' = [event EXCEPT ![Ref(j)] = "FAILED"]
    /\ Finish(j)
    /\ UNCHANGED <<wallet, user, ledger, book, granted, spun, answered, entries>>
    /\ UNCHANGED <<lock, bonusJobs, clock, sent, spinCalls, crashes>>

\* User resolution or the transaction fails; markEventFailed may fail too (the
\* request was cancelled), and MTN gets an error.
FailPush(j) ==
    /\ job[j].pc \in {"resolve", "push"}
    /\ faults < MaxFaults
    /\ faults' = faults + 1
    /\ \E marked \in BOOLEAN :
         event' = IF marked THEN [event EXCEPT ![Ref(j)] = "FAILED"] ELSE event
    /\ Finish(j)
    /\ UNCHANGED <<wallet, user, ledger, book, granted, spun, answered, entries>>
    /\ UNCHANGED <<lock, bonusJobs, clock, sent, spinCalls, crashes>>

------------------------------------------------------------------------------
(* Spins: PlaySpin.                                                        *)

\* The wallet is read and must hold a credit.
CheckCredits(j) ==
    /\ At(j, "idle") /\ Unlocked
    /\ spinCalls < MaxSpins
    /\ spinCalls' = spinCalls + 1
    /\ IF wallet.spins < 1 THEN UNCHANGED job ELSE Goto(j, "cap")
    /\ UNCHANGED <<data, lock, bonusJobs, clock, sent, faults, crashes>>

\* The tier reached by what was recharged today, by any channel.
DailyCap == TierSpins(book[clock].amount)

\* With a qualifying recharge today the tier limits the spins of today.
CheckDailyCap(j) ==
    /\ At(j, "cap")
    /\ IF DailyCap > 0 /\ book[clock].rows >= DailyCap THEN Finish(j) ELSE Goto(j, "spend")
    /\ UNCHANGED <<data, lock, bonusJobs, clock, bounds>>

\* The transaction: a guarded decrement, the spin_results row and the points of a
\* points prize with their ledger row.  No credit left rolls it back.
SpendCredit(j) ==
    /\ At(j, "spend") /\ Unlocked
    /\ Finish(j)
    /\ IF wallet.spins > 0
          THEN \E prize \in {"points", "other"} :
                LET pts == IF prize = "points" THEN PrizePoints ELSE 0
                IN  /\ wallet' = [wallet EXCEPT !.spins = @ - 1, !.points = @ + pts]
                    /\ ledger' = [ledger EXCEPT !.prizes = @ + pts]
                    /\ spun' = spun + 1
                    /\ book' = [book EXCEPT ![clock].rows = @ + 1]
          ELSE UNCHANGED <<wallet, ledger, spun, book>>
    /\ UNCHANGED <<user, granted, event, answered, entries, lock, bonusJobs, clock, bounds>>

------------------------------------------------------------------------------
(* Environment.                                                            *)

Tick ==
    /\ clock < MaxDay
    /\ clock' = clock + 1
    /\ UNCHANGED <<data, job, lock, bonusJobs, bounds>>

\* The process dies: handlers and goroutines are gone, open transactions roll back.
Crash ==
    /\ crashes < MaxCrashes
    /\ crashes' = crashes + 1
    /\ job' = [j \in Job |-> Idle]
    /\ lock' = NoJob
    /\ bonusJobs' = 0
    /\ UNCHANGED <<data, clock, sent, spinCalls, faults>>

------------------------------------------------------------------------------
(* Specification.                                                          *)

WebhookStep(j) == \/ FindUser(j) \/ ReadWallet(j) \/ UpdateWallet(j) \/ UpdateStats(j)
                  \/ InsertLedger(j) \/ CommitAward(j)
PushStep(j) == \/ WriteAudit(j) \/ ResolveUser(j) \/ AwardPush(j) \/ AfterPush(j)
SpinStep(j) == \/ CheckDailyCap(j) \/ SpendCredit(j)

Next ==
    \/ \E j \in WebhookJob : WebhookStep(j) \/ RollBack(j) \/ \E r \in Charge : Deliver(j, r)
    \/ \E j \in PushJob : PushStep(j) \/ FailPush(j) \/ \E p \in Push : CheckPush(j, p)
    \/ \E j \in SpinJob : SpinStep(j) \/ CheckCredits(j)
    \/ FirstRechargeBonus \/ Tick \/ Crash

Spec == Init /\ [][Next]_vars

\* A handler that has started goes on: goroutines are scheduled and the database answers.
Fairness ==
    /\ \A j \in WebhookJob : WF_vars(WebhookStep(j))
    /\ \A j \in PushJob : WF_vars(PushStep(j))
    /\ \A j \in SpinJob : WF_vars(SpinStep(j))
    /\ WF_vars(FirstRechargeBonus)

FairSpec == Spec /\ Fairness

------------------------------------------------------------------------------
(* Properties.                                                             *)

\* The spin credits of the wallet are those the ledger awarded, less one for every
\* spin_results row, and never negative: awards computed from a stale wallet, rolled
\* back transactions and concurrent spins neither create nor lose a credit.
CreditsAccounted == wallet.spins + spun = ledger.spins

\* The Pulse Points of the wallet are the points of the ledger's award and prize rows.
PointsAccounted == wallet.points = ledger.points + ledger.prizes

\* Never more draw entries than the recharges recorded in the ledger have earned.
EntriesBacked == entries <= ledger.entries

\* The status of the audit row agrees with the ledger: a processed push is recorded,
\* a failed one is not, and a recorded one that is still RECEIVED has a goroutine that
\* will finish it, unless the process died.
AuditMatchesLedger ==
    \A p \in Push :
        /\ event[p] = "PROCESSED" => p \in ledger.refs
        /\ event[p] \in {"none", "FAILED"} => p \notin ledger.refs
        /\ (event[p] = "RECEIVED" /\ p \in ledger.refs /\ crashes = 0)
              => \E j \in PushJob : At(j, "post") /\ Ref(j) = p

\* The programme keeps its promise: RewardPromise, with the rows of the ledger as the
\* recharges rewarded and the wallet as the balances.
Promise == INSTANCE RewardPromise
               WITH rewarded <- ledger.refs, points <- wallet.points, credits <- wallet.spins
RefinesPromise == Promise!PromiseSpec

\* No accounting day awards more spin credits than the cap (migration 069, "the tier's
\* spins_per_day is the DAILY CAP"; spin_max_per_day).
DailySpinCap == \A d \in Day : granted[d] <= SpinMaxPerDay

\* The kobo remainder of a recharge is carried to the next one and never wasted.
NoKoboWasted == PulseUnit * ledger.points + wallet.pulse = ledger.amount

\* The wallet's daily counters only move to later days.
DayForward == [][wallet'.day >= wallet.day]_wallet

\* A handler that has started finishes.
HandlersFinish == \A j \in Job : ~At(j, "idle") ~> At(j, "idle")

------------------------------------------------------------------------------
(* The inductive invariant.                                                *)

Holding == {"stats", "ledger", "commit"}          \* the transaction has the row lock
Accepted == {"resolve", "push", "post"}           \* the audit row is this handler's

\* Where the handlers of each kind can be, and for which recharge.
HandlerInv(j) ==
    /\ j \in WebhookJob => job[j].pc \in {"idle", "user", "wallet", "award"} \cup Holding
    /\ j \in PushJob => job[j].pc \in {"idle", "audit"} \cup Accepted
    /\ j \in SpinJob => job[j].pc \in {"idle", "cap", "spend"}
    /\ (j \in WebhookJob /\ ~At(j, "idle")) => Ref(j) \in Charge
    /\ (j \in PushJob /\ ~At(j, "idle")) => Ref(j) \in Push

\* The lock is held by the transaction that has updated the wallet; the row it will
\* commit is the wallet plus what it earned, and its reference is new at the commit.
LockInv(j) ==
    /\ lock = j <=> job[j].pc \in Holding
    /\ job[j].pc \in Holding =>
          /\ job[j].wallet.points = wallet.points + job[j].earned.points
          /\ job[j].wallet.spins = wallet.spins + job[j].earned.spins
    /\ At(j, "commit") => Ref(j) \notin ledger.refs

\* The handler that wrote the audit row of a push is the only one that works on it.
OwnerInv ==
    \A j, k \in PushJob :
        (job[j].pc \in Accepted /\ job[k].pc \in Accepted /\ Ref(j) = Ref(k)) => j = k

\* What the audit row says while the push is worked on.
AuditInv(j) ==
    job[j].pc \in Accepted => /\ event[Ref(j)] = "RECEIVED"
                              /\ At(j, "post") <=> Ref(j) \in ledger.refs

IInv ==
    /\ TypeOK
    /\ \A j \in Job : HandlerInv(j) /\ LockInv(j)
    /\ OwnerInv
    /\ \A j \in PushJob : AuditInv(j)
    /\ CreditsAccounted
    /\ PointsAccounted
    /\ AuditMatchesLedger

\* What the draw entries rely on: each that a recorded push earned and its goroutine has yet
\* to write is one element of Owed, so that no sum over the handlers is needed.
OwedBy(j) == IF At(j, "post") THEN {j} \X (1 .. job[j].earned.entries) ELSE {}

Owed == UNION {OwedBy(j) : j \in PushJob}

EntriesInv == IsFiniteSet(Owed) /\ entries + Cardinality(Owed) <= ledger.entries
==============================================================================
