--------------------------- MODULE StudioGeneration ---------------------------
(***************************************************************************)
(* Generations of the AI studio (StudioHandler.Generate, StudioService,    *)
(* the dispatch queue, AIStudioOrchestrator.Dispatch, the website builder  *)
(* and the sweeps of LifecycleWorker) of one user: the price is deducted,  *)
(* the job waits in a bounded queue of this process, a worker asks a       *)
(* provider under a time limit, and what fails is refunded.                *)
(*                                                                         *)
(* Every statement is one step.  The rows a transaction changes appear     *)
(* when it commits; until then the wallet row it has updated is locked.    *)
(* Time is the age of a generation: "fresh", "late" when it has waited     *)
(* longer than its queue allows, "stale" after the ten minutes of the      *)
(* sweep.                                                                  *)
(***************************************************************************)
EXTENDS Integers, FiniteSets

CONSTANTS
    Gen,             \* rows of the ai_generations table
    Thread,          \* handlers, queue workers and sweeps in flight
    Cost,            \* price of a tool that is not free
    RefundPart,      \* what a successful dispute returns of it
    Balances,        \* Pulse Points the wallet may start with
    DailyLimit,      \* studio_daily_gen_limit
    QueueSize,       \* jobs a queue holds
    None             \* no generation, no thread

CONSTANTS            \* bounds of the model
    MaxDisputes,     \* disputes the user sends
    MaxCrashes       \* restarts of the process

ASSUME PriceAssumption == Cost \in Nat \ {0} /\ RefundPart \in 1 .. Cost /\ Balances \subseteq Nat
ASSUME LimitAssumption == DailyLimit \in Nat \ {0} /\ QueueSize \in Nat
ASSUME BoundsAssumption == MaxDisputes \in Nat /\ MaxCrashes \in Nat
ASSUME GenAssumption == IsFiniteSet(Gen)
ASSUME NoneAssumption == None \notin Gen \cup Thread

VARIABLES
    tool,            \* the tool of each generation, "none" before it is inserted
    status,          \* status of the row: "none" before, "gone" once deleted
    age,             \* how long ago the row was created
    refund,          \* refund_granted, and for which reason
    points,          \* pulse_points of the wallet
    lock,            \* thread whose transaction has updated the wallet row
    queue,           \* generations in the queue of this process
    job,             \* what each thread is about to do
    lost,            \* history: the thread died between failing and refunding
    disputes, crashes    \* what has been used of the bounds

rows == <<tool, status, age, refund>>
bounds == <<disputes, crashes>>
vars == <<rows, points, lock, queue, job, lost, bounds>>

Tools == {"free", "paid", "slow", "site"}
Status == {"none", "pending", "processing", "completed", "failed", "gone"}
Ages == {"fresh", "late", "stale"}
Refunds == {"none", "failure", "dispute"}

\* Labels of the request, of the thread the row belongs to, of a sweep, of a dispute.
Asking == {"quota", "wallet", "deduct", "count", "insert"}
Running == {"mark", "route", "complete"}
Holding == {"dispatch", "pick"} \cup Running \cup {"fail"}
Labels == {"idle", "refund", "sweep", "dispute"} \cup Asking \cup Holding

Job == [at : Labels, gen : Gen \cup {None}, tool : Tools]
Idle == [at |-> "idle", gen |-> None, tool |-> "free"]

Price(k) == IF k = "free" THEN 0 ELSE Cost

Init ==
    /\ tool = [g \in Gen |-> "none"]
    /\ status = [g \in Gen |-> "none"]
    /\ age = [g \in Gen |-> "fresh"]
    /\ refund = [g \in Gen |-> "none"]
    /\ points \in Balances
    /\ lock = None
    /\ queue = {}
    /\ job = [t \in Thread |-> Idle]
    /\ lost = {}
    /\ disputes = 0 /\ crashes = 0

At(t, label) == job[t].at = label
Goto(t, label) == job' = [job EXCEPT ![t].at = label]
Finish(t) == job' = [job EXCEPT ![t] = Idle]
Start(t, label, g) == job' = [job EXCEPT ![t] = [at |-> label, gen |-> g, tool |-> "free"]]
SetStatus(g, s) == status' = [status EXCEPT ![g] = s]

\* The user's rows of today.
Created == {g \in Gen : status[g] \notin {"none", "gone"}}
WithinQuota == Cardinality(Created) < DailyLimit

------------------------------------------------------------------------------
(* The request.                                                            *)

\* The row gets its identity in advance; the website builder checks no quota.
Request(t, g, k) ==
    /\ At(t, "idle") /\ status[g] = "none"
    /\ \A u \in Thread : job[u].gen # g
    /\ job' = [job EXCEPT ![t] = [at |-> CASE k = "site" -> "wallet" [] OTHER -> "quota",
                                  gen |-> g, tool |-> k]]
    /\ UNCHANGED <<rows, points, lock, queue, lost, bounds>>

\* The preflight of the handler, outside any transaction.
CheckQuota(t) ==
    /\ At(t, "quota")
    /\ \/ WithinQuota /\ Goto(t, IF job[t].tool = "free" THEN "count" ELSE "wallet")
       \/ ~WithinQuota /\ Finish(t)
    /\ UNCHANGED <<rows, points, lock, queue, lost, bounds>>

\* GetWalletForUpdate runs outside the transaction: a plain read.
CheckWallet(t) ==
    /\ At(t, "wallet")
    /\ \/ points >= Cost /\ Goto(t, "deduct")
       \/ points < Cost /\ Finish(t)
    /\ UNCHANGED <<rows, points, lock, queue, lost, bounds>>

\* Mutant of Deduct: the balance is compared only; no row is locked.
DeductMutantRead(t) ==
    /\ At(t, "deduct") /\ points >= Cost
    /\ Goto(t, IF job[t].tool = "site" THEN "insert" ELSE "count")
    /\ UNCHANGED <<rows, points, lock, queue, lost, bounds>>

\* The conditional UPDATE of the wallet waits for, then takes, the lock of the row.
Deduct(t) ==
    /\ At(t, "deduct") /\ lock = None
    /\ \/ /\ points >= Cost
          /\ lock' = t
          /\ Goto(t, IF job[t].tool = "site" THEN "insert" ELSE "count")
       \/ points < Cost /\ Finish(t) /\ UNCHANGED lock
    /\ UNCHANGED <<rows, points, queue, lost, bounds>>

\* The quota again, inside the transaction; a refusal rolls it back.
Count(t) ==
    /\ At(t, "count")
    /\ \/ WithinQuota /\ Goto(t, "insert") /\ UNCHANGED lock
       \/ ~WithinQuota /\ Finish(t) /\ lock' = IF lock = t THEN None ELSE lock
    /\ UNCHANGED <<rows, points, queue, lost, bounds>>

\* The job is created and the transaction commits.
InsertGeneration(t) ==
    LET g == job[t].gen  k == job[t].tool IN
    /\ At(t, "insert")
    /\ tool' = [tool EXCEPT ![g] = k]
    /\ SetStatus(g, "pending")
    /\ points' = points - Price(k)
    /\ lock' = IF lock = t THEN None ELSE lock
    /\ Goto(t, "dispatch")
    /\ UNCHANGED <<age, refund, queue, lost, bounds>>

------------------------------------------------------------------------------
(* The queue and the provider.                                             *)

\* The website builder goes on in a goroutine of its own; the rest is enqueued
\* without waiting, and a full queue fails the job.
DispatchGeneration(t) ==
    LET g == job[t].gen IN
    /\ At(t, "dispatch")
    /\ \/ tool[g] = "site" /\ Goto(t, "route") /\ UNCHANGED queue
       \/ /\ tool[g] # "site" /\ Cardinality(queue) < QueueSize
          /\ queue' = queue \cup {g} /\ Finish(t)
       \/ /\ tool[g] # "site" /\ Cardinality(queue) >= QueueSize
          /\ Goto(t, "fail") /\ UNCHANGED queue
    /\ UNCHANGED <<rows, points, lock, lost, bounds>>

\* A worker of the queue takes a job (several share it: the order is left open) ...
RunQueue(t, g) ==
    /\ At(t, "idle") /\ g \in queue
    /\ queue' = queue \ {g}
    /\ Start(t, "pick", g)
    /\ UNCHANGED <<rows, points, lock, lost, bounds>>

\* ... and fails it when it has waited longer than its policy allows.
PickJob(t) ==
    /\ At(t, "pick")
    /\ Goto(t, IF age[job[t].gen] = "fresh" THEN "mark" ELSE "fail")
    /\ UNCHANGED <<rows, points, lock, queue, lost, bounds>>

MarkProcessing(t) ==
    /\ At(t, "mark")
    /\ SetStatus(job[t].gen, "processing")
    /\ Goto(t, "route")
    /\ UNCHANGED <<tool, age, refund, points, lock, queue, lost, bounds>>

\* The provider answers or refuses; or the time limit strikes, and then FailGeneration
\* runs under the same expired context and writes nothing.
Route(t) ==
    /\ At(t, "route")
    /\ Goto(t, "complete") \/ Goto(t, "fail") \/ Finish(t)
    /\ UNCHANGED <<rows, points, lock, queue, lost, bounds>>

\* completed is written whatever the status is by now.
CompleteGeneration(t) ==
    LET g == job[t].gen IN
    /\ At(t, "complete")
    /\ SetStatus(g, "completed")
    /\ Finish(t)
    /\ UNCHANGED <<tool, age, refund, points, lock, queue, lost, bounds>>

------------------------------------------------------------------------------
(* Failure, refund and dispute.                                            *)

\* failed is written whatever the status is by now; free generations end here.
FailGeneration(t) ==
    LET g == job[t].gen IN
    /\ At(t, "fail") \/ At(t, "sweep")
    /\ SetStatus(g, "failed")
    /\ IF Price(tool[g]) = 0 THEN Finish(t) ELSE Goto(t, "refund")
    /\ UNCHANGED <<tool, age, refund, points, lock, queue, lost, bounds>>

\* Mutant of GrantRefund: the compare and swap on refund_granted is missing.
GrantRefundMutant(t) ==
    LET g == job[t].gen IN
    /\ At(t, "refund") /\ lock = None
    /\ refund' = [refund EXCEPT ![g] = "failure"]
    /\ points' = points + Cost
    /\ Finish(t)
    /\ UNCHANGED <<tool, status, age, lock, queue, lost, bounds>>

\* The first to set refund_granted credits the wallet, in one transaction.
GrantRefund(t) ==
    LET g == job[t].gen IN
    /\ At(t, "refund") /\ lock = None
    /\ IF refund[g] = "none"
          THEN refund' = [refund EXCEPT ![g] = "failure"] /\ points' = points + Cost
          ELSE UNCHANGED <<refund, points>>
    /\ Finish(t)
    /\ UNCHANGED <<tool, status, age, lock, queue, lost, bounds>>

\* Mutant of ListStale: the threshold is shorter than what a worker may take.
ListStaleMutant(t, g) ==
    /\ At(t, "idle")
    /\ status[g] \in {"pending", "processing"} /\ age[g] \in {"late", "stale"}
    /\ Start(t, "sweep", g)
    /\ UNCHANGED <<rows, points, lock, queue, lost, bounds>>

\* Mutant of ListStale: only pending jobs are listed.
ListStaleMutantPending(t, g) ==
    /\ At(t, "idle")
    /\ status[g] = "pending" /\ age[g] = "stale"
    /\ Start(t, "sweep", g)
    /\ UNCHANGED <<rows, points, lock, queue, lost, bounds>>

\* studioStaleRecovery lists what is unfinished after ten minutes, then fails it.
ListStale(t, g) ==
    /\ At(t, "idle")
    /\ status[g] \in {"pending", "processing"} /\ age[g] = "stale"
    /\ Start(t, "sweep", g)
    /\ UNCHANGED <<rows, points, lock, queue, lost, bounds>>

\* A dispute is checked against a row read outside the transaction ...
DisputeGeneration(t, g) ==
    /\ At(t, "idle") /\ disputes < MaxDisputes
    /\ status[g] = "completed" /\ refund[g] = "none" /\ tool[g] # "free"
    /\ disputes' = disputes + 1
    /\ Start(t, "dispute", g)
    /\ UNCHANGED <<rows, points, lock, queue, lost, crashes>>

\* ... and granted by the same compare and swap as a failure, whatever the status.
GrantDispute(t) ==
    LET g == job[t].gen IN
    /\ At(t, "dispute") /\ lock = None
    /\ IF refund[g] = "none"
          THEN refund' = [refund EXCEPT ![g] = "dispute"] /\ points' = points + RefundPart
          ELSE UNCHANGED <<refund, points>>
    /\ Finish(t)
    /\ UNCHANGED <<tool, status, age, lock, queue, lost, bounds>>

\* assetExpiryJobs deletes a completed generation after days, when nobody is at it.
ExpireAsset(g) ==
    /\ status[g] = "completed" /\ \A t \in Thread : job[t].gen # g
    /\ SetStatus(g, "gone")
    /\ UNCHANGED <<tool, age, refund, points, lock, queue, job, lost, bounds>>

------------------------------------------------------------------------------
(* Time and restarts.                                                      *)

\* A worker may take long over a generation only while the provider does, and the time
\* limit of every tool but the slow ones ends before the row is stale.
MayWait(g) ==
    \A t \in Thread : job[t].gen = g /\ job[t].at \in Holding =>
        /\ At(t, "route")
        /\ age[g] = "fresh" \/ tool[g] = "slow"

Older == [fresh |-> "late", late |-> "stale", stale |-> "stale"]

Age(g) ==
    /\ status[g] \in {"pending", "processing"} /\ age[g] # "stale" /\ MayWait(g)
    /\ age' = [age EXCEPT ![g] = Older[@]]
    /\ UNCHANGED <<tool, status, refund, points, lock, queue, job, lost, bounds>>

\* A restart: threads, their transactions and the queue are gone.
Crash ==
    /\ crashes < MaxCrashes /\ crashes' = crashes + 1
    /\ job' = [t \in Thread |-> Idle]
    /\ lock' = None
    /\ queue' = {}
    /\ lost' = lost \cup {job[t].gen : t \in {u \in Thread : At(u, "refund")}}
    /\ UNCHANGED <<rows, points, disputes>>

------------------------------------------------------------------------------

Progress(t) ==
    \/ CheckQuota(t) \/ CheckWallet(t) \/ Deduct(t) \/ Count(t) \/ InsertGeneration(t)
    \/ DispatchGeneration(t) \/ PickJob(t) \/ MarkProcessing(t) \/ Route(t)
    \/ CompleteGeneration(t) \/ FailGeneration(t) \/ GrantRefund(t) \/ GrantDispute(t)

Arrival(t, g) ==
    \/ RunQueue(t, g) \/ ListStale(t, g) \/ DisputeGeneration(t, g)
    \/ \E k \in Tools : Request(t, g, k)

Next ==
    \/ \E t \in Thread : Progress(t) \/ \E g \in Gen : Arrival(t, g)
    \/ \E g \in Gen : ExpireAsset(g) \/ Age(g)
    \/ Crash

Spec == Init /\ [][Next]_vars

\* Statements and providers end (every call has a time limit), time passes, and the
\* sweep comes round every ten minutes for as long as the row stays unfinished.
Fairness ==
    /\ \A t \in Thread : WF_vars(Progress(t))
    /\ \A g \in Gen : WF_vars(Age(g)) /\ SF_vars(\E t \in Thread : ListStale(t, g))

FairSpec == Spec /\ Fairness

------------------------------------------------------------------------------
(* Properties.                                                             *)

TypeOK ==
    /\ tool \in [Gen -> Tools \cup {"none"}]
    /\ status \in [Gen -> Status]
    /\ age \in [Gen -> Ages]
    /\ refund \in [Gen -> Refunds]
    /\ points \in Nat
    /\ lock \in Thread \cup {None}
    /\ queue \in SUBSET Gen
    /\ job \in [Thread -> Job]
    /\ lost \in SUBSET Gen
    /\ disputes \in Nat /\ crashes \in Nat

\* The promise: charged once when accepted, refunded once at most whether workers,
\* sweeps and disputes race or not, and, for a tool that answers in time, never
\* delivered and refunded, although both statuses are written unconditionally.
Promise == INSTANCE GenerationPromise
RefinesPromise == Promise!PromiseSpec

\* What a timely tool delivered stays charged unless its user disputed it: the sweep
\* never fails, and refunds, a generation whose worker is still about to complete it.
TimelyKeepsCharge ==
    \A g \in Gen : tool[g] # "slow" /\ status[g] \in {"completed", "gone"} => refund[g] # "failure"

\* The daily limit is exact for generations that are paid for, however their requests
\* and the free ones interleave: the wallet row lock makes count and insert one step.
PaidRows == {g \in Created : tool[g] \in {"paid", "slow"}}
PaidQuota == Cardinality(PaidRows) <= DailyLimit

\* No generation hangs: the user gets a result or the price back, across restarts and
\* expired contexts, save where the process died between failing and refunding.
GenerationSettles ==
    \A g \in Gen :
        status[g] = "pending" ~>
            \/ status[g] \in {"completed", "gone"}
            \/ status[g] = "failed" /\ (tool[g] = "free" \/ refund[g] # "none" \/ g \in lost)

------------------------------------------------------------------------------
(* The inductive invariant.                                                *)

Unfinished(g) == status[g] \in {"pending", "processing"}
Timely(g) == tool[g] \in {"free", "paid", "site"}

\* What the row of a generation satisfies, whatever threads are at work.
RowInv(g) ==
    /\ status[g] = "none" <=> tool[g] = "none"
    /\ status[g] = "none" => age[g] = "fresh"
    /\ status[g] = "none" \/ Unfinished(g) \/ tool[g] = "free" => refund[g] = "none"
    /\ Timely(g) /\ status[g] = "failed" => refund[g] # "dispute"
    /\ Timely(g) /\ status[g] \in {"completed", "gone"} => refund[g] # "failure"
    /\ g \in queue => status[g] = "pending" \/ (status[g] = "failed" /\ age[g] = "stale")

\* A transaction that has paid holds the wallet row, and what it has read of the wallet
\* and of the rows that are paid for still stands.
LockInv(t) ==
    LET at == job[t].at  k == job[t].tool IN
    /\ lock = t <=> at \in {"count", "insert"} /\ k # "free"
    /\ lock = t => points >= Cost
    /\ at = "insert" /\ k \in {"paid", "slow"} => Cardinality(PaidRows) < DailyLimit

\* What a thread may rely on about its row at its next step.
ThreadInv(t) ==
    LET g == job[t].gen  at == job[t].at  k == job[t].tool IN
    /\ IF at = "idle" THEN g = None ELSE g \in Gen
    /\ at \in Asking => status[g] = "none"
    /\ at \in {"wallet", "deduct"} => k # "free"
    /\ at = "dispatch" => status[g] = "pending" /\ age[g] = "fresh"
    /\ at = "pick" => status[g] = "pending" \/ (status[g] = "failed" /\ age[g] = "stale")
    /\ at = "mark" => status[g] = "pending" /\ age[g] = "fresh"
    /\ at \in {"route", "complete"} =>
          \/ Unfinished(g) /\ (Timely(g) => age[g] # "stale")
          \/ ~Timely(g) /\ status[g] = "failed"
    /\ at = "fail" => Unfinished(g) \/ status[g] = "failed"
    /\ at = "sweep" => /\ age[g] = "stale"
                       /\ \/ Unfinished(g) \/ status[g] = "failed"
                          \/ ~Timely(g) /\ status[g] = "completed"
    /\ at = "refund" => /\ tool[g] # "free"
                        /\ status[g] = "failed" \/ (~Timely(g) /\ status[g] = "completed")
    /\ at = "dispute" => /\ tool[g] # "free"
                         /\ status[g] = "completed" \/ (~Timely(g) /\ status[g] = "failed")

\* One thread, or the queue, has a generation in hand.
OwnerInv ==
    /\ \A t, u \in Thread :
          (job[t].at \in Asking \cup Holding /\ job[u].at \in Asking \cup Holding
             /\ job[t].gen = job[u].gen) => t = u
    /\ \A t \in Thread : job[t].at \in Asking \cup Holding => job[t].gen \notin queue

IInv ==
    /\ TypeOK
    /\ PaidQuota
    /\ \A g \in Gen : RowInv(g)
    /\ \A t \in Thread : ThreadInv(t) /\ LockInv(t)
    /\ OwnerInv
==============================================================================
