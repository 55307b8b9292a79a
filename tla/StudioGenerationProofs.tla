------------------------ MODULE StudioGenerationProofs ------------------------
(***************************************************************************)
(* Proofs about StudioGeneration for any number of generations and         *)
(* threads, any prices, limits and balances, and any number of restarts.   *)
(***************************************************************************)
EXTENDS StudioGeneration, FiniteSetTheorems, TLAPS

USE PriceAssumption, LimitAssumption, BoundsAssumption, GenAssumption, NoneAssumption

-----------------------------------------------------------------------------
(* Threads.                                                                *)

\* Nothing happens to the threads other than t.
Others(t) == \A u \in Thread \ {t} : job'[u] = job[u]

\* Whoever is at one of these labels has its generation to itself.
Owning == Asking \cup Holding

\* Nobody but t has g in hand after the step.
OwnsAlone(t, g) ==
    /\ g \notin queue'
    /\ \A u \in Thread \ {t} : job[u].at \in Owning => job[u].gen # g

LEMMA IdleJob == Idle \in Job
  BY DEF Idle, Job, Labels, Tools

LEMMA FinishStep ==
  ASSUME TypeOK, NEW t \in Thread, Finish(t)
  PROVE  job' \in [Thread -> Job] /\ job'[t] = Idle /\ Others(t)
  BY IdleJob DEF TypeOK, Finish, Others

LEMMA GotoStep ==
  ASSUME TypeOK, NEW t \in Thread, NEW label \in Labels, Goto(t, label)
  PROVE  /\ job' \in [Thread -> Job] /\ Others(t)
         /\ job'[t].at = label /\ job'[t].gen = job[t].gen /\ job'[t].tool = job[t].tool
  BY DEF TypeOK, Goto, Others, Job

LEMMA StartStep ==
  ASSUME TypeOK, NEW t \in Thread, NEW label \in Labels, NEW g \in Gen, Start(t, label, g)
  PROVE  /\ job' \in [Thread -> Job] /\ Others(t)
         /\ job'[t].at = label /\ job'[t].gen = g /\ job'[t].tool = "free"
  <1>1. [at |-> label, gen |-> g, tool |-> "free"] \in Job
    BY DEF Job, Tools
  <1>2. QED
    BY <1>1 DEF TypeOK, Start, Others

LEMMA IdleThread ==
  ASSUME NEW t \in Thread, job'[t] = Idle, lock' # t
  PROVE  ThreadInv(t)' /\ LockInv(t)' /\ job'[t].at \notin Owning
  BY DEF Idle, ThreadInv, LockInv, Asking, Holding, Running, Owning

LEMMA PaidFinite == IsFiniteSet(PaidRows) /\ Cardinality(PaidRows) \in Nat
  <1>1. PaidRows \subseteq Gen
    BY DEF PaidRows, Created
  <1>2. QED
    BY <1>1, FS_Subset, FS_CardinalityType

LEMMA PaidFiniteNext == IsFiniteSet(PaidRows') /\ Cardinality(PaidRows') \in Nat
  <1>1. PaidRows' \subseteq Gen
    BY DEF PaidRows, Created
  <1>2. QED
    BY <1>1, FS_Subset, FS_CardinalityType

\* The lock has one holder.
LEMMA LockHolder ==
  ASSUME IInv, NEW t \in Thread
  PROVE  /\ lock = t => job[t].at \in {"count", "insert"} /\ job[t].tool # "free" /\ points >= Cost
         /\ job[t].at \in {"count", "insert"} /\ job[t].tool # "free" => lock = t
  BY DEF IInv, LockInv

\* The wallet as the other threads see it: the lock only moves between t and nobody, and
\* what the holder has read stands.
LEMMA LockOthers ==
  ASSUME IInv, NEW t \in Thread, Others(t),
         lock' = lock \/ (lock \in {None, t} /\ lock' \in {None, t}),
         points' \in Nat, points' >= points \/ lock \in {None, t},
         Cardinality(PaidRows') <= Cardinality(PaidRows) \/ lock \in {None, t}
  PROVE  \A u \in Thread \ {t} : LockInv(u)'
  <1>. SUFFICES ASSUME NEW u \in Thread \ {t} PROVE LockInv(u)'
    OBVIOUS
  <1>1. LockInv(u) /\ job'[u] = job[u] /\ u # None
    BY DEF IInv, Others
  <1>2. lock' = u <=> lock = u
    BY <1>1
  <1>3. lock = u => points' >= Cost
    BY <1>1 DEF LockInv, IInv, TypeOK
  <1>4. job[u].at = "insert" /\ job[u].tool \in {"paid", "slow"} => lock = u
    BY <1>1 DEF LockInv
  <1>5. Cardinality(PaidRows) \in Nat
    BY PaidFinite
  <1>6. Cardinality(PaidRows') \in Nat
    BY PaidFiniteNext
  <1>7. lock = u => Cardinality(PaidRows') <= Cardinality(PaidRows)
    BY <1>1
  <1>8. job[u].at = "insert" /\ job[u].tool \in {"paid", "slow"}
          => Cardinality(PaidRows') < DailyLimit
    BY <1>1, <1>4, <1>5, <1>6, <1>7 DEF LockInv
  <1>9. QED
    BY <1>1, <1>2, <1>3, <1>8 DEF LockInv

LEMMA OwnerStep ==
  ASSUME IInv, NEW t \in Thread, Others(t), queue' \subseteq queue,
         job'[t].at \in Owning => OwnsAlone(t, job'[t].gen)
  PROVE  OwnerInv'
  <1>1. ASSUME NEW u \in Thread, NEW v \in Thread, u # v,
               job'[u].at \in Owning, job'[v].at \in Owning
        PROVE  job'[u].gen # job'[v].gen
    <2>1. CASE u = t
      BY <1>1, <2>1 DEF Others, OwnsAlone
    <2>2. CASE v = t
      BY <1>1, <2>2 DEF Others, OwnsAlone
    <2>3. CASE u # t /\ v # t
      BY <1>1, <2>3 DEF Others, IInv, OwnerInv, Owning
    <2>4. QED
      BY <2>1, <2>2, <2>3
  <1>2. ASSUME NEW u \in Thread, job'[u].at \in Owning PROVE job'[u].gen \notin queue'
    <2>1. CASE u = t
      BY <1>2, <2>1 DEF OwnsAlone
    <2>2. CASE u # t
      BY <1>2, <2>2 DEF Others, IInv, OwnerInv, Owning
    <2>3. QED
      BY <2>1, <2>2
  <1>3. QED
    BY <1>1, <1>2 DEF OwnerInv, Owning

\* An owner that goes on with its generation remains alone with it.
LEMMA StaysAlone ==
  ASSUME IInv, NEW t \in Thread, Others(t), queue' \subseteq queue,
         job[t].at \in Owning, job'[t].gen = job[t].gen
  PROVE  OwnsAlone(t, job'[t].gen)
  BY DEF IInv, OwnerInv, OwnsAlone, Owning

\* A step that changes no row: only the thread that takes it is left to show.
LEMMA QuietStep ==
  ASSUME IInv, TypeOK', NEW t \in Thread, Others(t), UNCHANGED <<rows, points>>,
         queue' \subseteq queue,
         lock' = lock \/ (lock \in {None, t} /\ lock' \in {None, t}),
         job'[t].at \in Owning => OwnsAlone(t, job'[t].gen),
         ThreadInv(t)', LockInv(t)'
  PROVE  IInv'
  <1>1. \A g \in Gen : RowInv(g)'
    BY DEF IInv, rows, RowInv, Unfinished, Timely
  <1>2. \A u \in Thread \ {t} : ThreadInv(u)'
    <2>. SUFFICES ASSUME NEW u \in Thread \ {t} PROVE ThreadInv(u)'
      OBVIOUS
    <2>1. job'[u] = job[u] /\ ThreadInv(u)
      BY DEF IInv, Others
    <2>2. QED
      BY <2>1 DEF rows, ThreadInv, Unfinished, Timely
  <1>3. PaidRows' = PaidRows
    BY DEF PaidRows, Created, rows
  <1>4. \A u \in Thread \ {t} : LockInv(u)'
    <2>1. points' \in Nat /\ points' >= points
      BY DEF IInv, TypeOK
    <2>2. Cardinality(PaidRows') <= Cardinality(PaidRows)
      BY <1>3, PaidFinite
    <2>3. QED
      BY <2>1, <2>2, LockOthers
  <1>5. OwnerInv'
    BY OwnerStep
  <1>6. PaidQuota'
    BY <1>3 DEF IInv, PaidQuota
  <1>7. QED
    BY <1>1, <1>2, <1>4, <1>5, <1>6 DEF IInv

-----------------------------------------------------------------------------
(* The initial state, and the steps that change no row.                    *)

LEMMA InitInv == Init => IInv
  <1>. SUFFICES ASSUME Init PROVE IInv
    OBVIOUS
  <1>1. TypeOK
    BY IdleJob DEF Init, TypeOK, Status, Ages, Refunds
  <1>2. PaidQuota
    <2>1. PaidRows = {}
      BY DEF Init, PaidRows, Created
    <2>2. QED
      BY <2>1, FS_EmptySet DEF PaidQuota
  <1>3. \A g \in Gen : RowInv(g)
    BY DEF Init, RowInv, Unfinished, Timely
  <1>4. \A t \in Thread : ThreadInv(t) /\ LockInv(t)
    BY DEF Init, Idle, ThreadInv, LockInv, Asking, Holding, Running
  <1>5. OwnerInv
    BY DEF Init, Idle, OwnerInv, Asking, Holding, Running
  <1>6. QED
    BY <1>1, <1>2, <1>3, <1>4, <1>5 DEF IInv

LEMMA StutterInv == IInv /\ UNCHANGED vars => IInv'
  <1>. SUFFICES ASSUME IInv, UNCHANGED vars PROVE IInv'
    OBVIOUS
  <1>1. PaidRows' = PaidRows
    BY DEF vars, rows, PaidRows, Created
  <1>2. TypeOK' /\ PaidQuota'
    BY <1>1 DEF IInv, vars, rows, bounds, TypeOK, PaidQuota
  <1>3. \A g \in Gen : RowInv(g)'
    BY DEF IInv, vars, rows, RowInv, Unfinished, Timely
  <1>4. \A t \in Thread : ThreadInv(t)'
    BY DEF IInv, vars, rows, ThreadInv, Unfinished, Timely
  <1>5. \A t \in Thread : LockInv(t)'
    BY <1>1 DEF IInv, vars, LockInv
  <1>6. OwnerInv'
    BY DEF IInv, vars, OwnerInv
  <1>7. QED
    BY <1>2, <1>3, <1>4, <1>5, <1>6 DEF IInv

LEMMA RequestInv ==
  ASSUME IInv, NEW t \in Thread, NEW g \in Gen, NEW k \in Tools, Request(t, g, k)
  PROVE  IInv'
  <1>1. PICK label \in {"quota", "wallet"} :
          /\ job' = [job EXCEPT ![t] = [at |-> label, gen |-> g, tool |-> k]]
          /\ label = "wallet" <=> k = "site"
    BY DEF Request
  <1>2. [at |-> label, gen |-> g, tool |-> k] \in Job
    BY DEF Job, Labels, Asking
  <1>3. /\ job' \in [Thread -> Job] /\ Others(t)
        /\ job'[t].at = label /\ job'[t].gen = g /\ job'[t].tool = k
    BY <1>1, <1>2 DEF IInv, TypeOK, Others
  <1>4. TypeOK'
    BY <1>3 DEF IInv, TypeOK, Request, rows, bounds
  <1>5. OwnsAlone(t, g)
    <2>1. g \notin queue
      BY DEF IInv, RowInv, Request
    <2>2. QED
      BY <2>1 DEF Request, OwnsAlone
  <1>6. ThreadInv(t)'
    BY <1>1, <1>3 DEF Request, rows, ThreadInv, Asking, Holding, Running
  <1>7. LockInv(t)'
    BY <1>3, LockHolder DEF Request, At, LockInv
  <1>8. QED
    BY <1>3, <1>4, <1>5, <1>6, <1>7, QuietStep DEF Request

LEMMA CheckQuotaInv ==
  ASSUME IInv, NEW t \in Thread, CheckQuota(t)
  PROVE  IInv'
  <1>1. lock # t
    BY LockHolder DEF CheckQuota, At
  <1>2. ThreadInv(t) /\ job[t].tool \in Tools
    BY DEF IInv, TypeOK, Job
  <1>3. CASE Finish(t)
    <2>1. job' \in [Thread -> Job] /\ job'[t] = Idle /\ Others(t)
      BY <1>3, FinishStep DEF IInv
    <2>2. TypeOK'
      BY <2>1 DEF IInv, TypeOK, CheckQuota, rows, bounds
    <2>3. ThreadInv(t)' /\ LockInv(t)' /\ job'[t].at \notin Owning
      BY <1>1, <2>1, IdleThread DEF CheckQuota
    <2>4. QED
      BY <2>1, <2>2, <2>3, QuietStep DEF CheckQuota
  <1>4. CASE Goto(t, IF job[t].tool = "free" THEN "count" ELSE "wallet")
    <2>1. PICK label \in {"count", "wallet"} :
             Goto(t, label) /\ (label = "count" <=> job[t].tool = "free")
      BY <1>4
    <2>2. /\ job' \in [Thread -> Job] /\ Others(t)
          /\ job'[t].at = label /\ job'[t].gen = job[t].gen /\ job'[t].tool = job[t].tool
      BY <2>1, GotoStep DEF IInv, Labels, Asking
    <2>3. TypeOK'
      BY <2>2 DEF IInv, TypeOK, CheckQuota, rows, bounds
    <2>4. OwnsAlone(t, job'[t].gen)
      BY <2>2, StaysAlone DEF CheckQuota, At, Owning, Asking
    <2>5. ThreadInv(t)'
      BY <1>2, <2>1, <2>2 DEF CheckQuota, At, rows, ThreadInv, Asking, Holding, Running
    <2>6. LockInv(t)'
      BY <1>1, <2>1, <2>2 DEF CheckQuota, LockInv
    <2>7. QED
      BY <2>2, <2>3, <2>4, <2>5, <2>6, QuietStep DEF CheckQuota
  <1>5. QED
    BY <1>3, <1>4 DEF CheckQuota

LEMMA CheckWalletInv ==
  ASSUME IInv, NEW t \in Thread, CheckWallet(t)
  PROVE  IInv'
  <1>1. lock # t
    BY LockHolder DEF CheckWallet, At
  <1>2. ThreadInv(t)
    BY DEF IInv
  <1>3. CASE Finish(t)
    <2>1. job' \in [Thread -> Job] /\ job'[t] = Idle /\ Others(t)
      BY <1>3, FinishStep DEF IInv
    <2>2. TypeOK'
      BY <2>1 DEF IInv, TypeOK, CheckWallet, rows, bounds
    <2>3. ThreadInv(t)' /\ LockInv(t)' /\ job'[t].at \notin Owning
      BY <1>1, <2>1, IdleThread DEF CheckWallet
    <2>4. QED
      BY <2>1, <2>2, <2>3, QuietStep DEF CheckWallet
  <1>4. CASE Goto(t, "deduct")
    <2>1. /\ job' \in [Thread -> Job] /\ Others(t)
          /\ job'[t].at = "deduct" /\ job'[t].gen = job[t].gen /\ job'[t].tool = job[t].tool
      BY <1>4, GotoStep DEF IInv, Labels, Asking
    <2>2. TypeOK'
      BY <2>1 DEF IInv, TypeOK, CheckWallet, rows, bounds
    <2>3. OwnsAlone(t, job'[t].gen)
      BY <2>1, StaysAlone DEF CheckWallet, At, Owning, Asking
    <2>4. ThreadInv(t)'
      BY <1>2, <2>1 DEF CheckWallet, At, rows, ThreadInv, Asking, Holding, Running
    <2>5. LockInv(t)'
      BY <1>1, <2>1 DEF CheckWallet, LockInv
    <2>6. QED
      BY <2>1, <2>2, <2>3, <2>4, <2>5, QuietStep DEF CheckWallet
  <1>5. QED
    BY <1>3, <1>4 DEF CheckWallet

LEMMA DeductInv ==
  ASSUME IInv, NEW t \in Thread, Deduct(t)
  PROVE  IInv'
  <1>1. ThreadInv(t) /\ lock = None /\ None # t
    BY DEF IInv, Deduct
  <1>2. CASE Finish(t) /\ UNCHANGED lock
    <2>1. job' \in [Thread -> Job] /\ job'[t] = Idle /\ Others(t)
      BY <1>2, FinishStep DEF IInv
    <2>2. TypeOK'
      BY <1>2, <2>1 DEF IInv, TypeOK, Deduct, rows, bounds
    <2>3. ThreadInv(t)' /\ LockInv(t)' /\ job'[t].at \notin Owning
      BY <1>1, <1>2, <2>1, IdleThread
    <2>4. QED
      BY <1>2, <2>1, <2>2, <2>3, QuietStep DEF Deduct
  <1>3. CASE /\ points >= Cost /\ lock' = t
             /\ Goto(t, IF job[t].tool = "site" THEN "insert" ELSE "count")
    <2>1. PICK label \in {"count", "insert"} :
             Goto(t, label) /\ (label = "insert" => job[t].tool = "site")
      BY <1>3
    <2>2. /\ job' \in [Thread -> Job] /\ Others(t)
          /\ job'[t].at = label /\ job'[t].gen = job[t].gen /\ job'[t].tool = job[t].tool
      BY <2>1, GotoStep DEF IInv, Labels, Asking
    <2>3. TypeOK'
      BY <1>3, <2>2 DEF IInv, TypeOK, Deduct, rows, bounds
    <2>4. OwnsAlone(t, job'[t].gen)
      BY <2>2, StaysAlone DEF Deduct, At, Owning, Asking
    <2>5. ThreadInv(t)'
      BY <1>1, <2>2 DEF Deduct, At, rows, ThreadInv, Asking, Holding, Running
    <2>6. LockInv(t)'
      BY <1>1, <1>3, <2>1, <2>2 DEF Deduct, At, ThreadInv, LockInv
    <2>7. QED
      BY <1>1, <1>3, <2>2, <2>3, <2>4, <2>5, <2>6, QuietStep DEF Deduct
  <1>4. QED
    BY <1>2, <1>3 DEF Deduct

LEMMA CountInv ==
  ASSUME IInv, NEW t \in Thread, Count(t)
  PROVE  IInv'
  <1>1. ThreadInv(t) /\ LockInv(t)
    BY DEF IInv
  <1>2. CASE Finish(t) /\ lock' = IF lock = t THEN None ELSE lock
    <2>1. job' \in [Thread -> Job] /\ job'[t] = Idle /\ Others(t)
      BY <1>2, FinishStep DEF IInv
    <2>2. lock' # t /\ lock' \in Thread \cup {None}
      BY <1>2 DEF IInv, TypeOK
    <2>3. TypeOK'
      BY <2>1, <2>2 DEF IInv, TypeOK, Count, rows, bounds
    <2>4. ThreadInv(t)' /\ LockInv(t)' /\ job'[t].at \notin Owning
      BY <2>1, <2>2, IdleThread
    <2>5. QED
      BY <1>2, <2>1, <2>3, <2>4, QuietStep DEF Count
  <1>3. CASE WithinQuota /\ Goto(t, "insert") /\ UNCHANGED lock
    <2>1. /\ job' \in [Thread -> Job] /\ Others(t)
          /\ job'[t].at = "insert" /\ job'[t].gen = job[t].gen /\ job'[t].tool = job[t].tool
      BY <1>3, GotoStep DEF IInv, Labels, Asking
    <2>2. TypeOK'
      BY <1>3, <2>1 DEF IInv, TypeOK, Count, rows, bounds
    <2>3. OwnsAlone(t, job'[t].gen)
      BY <2>1, StaysAlone DEF Count, At, Owning, Asking
    <2>4. ThreadInv(t)'
      BY <1>1, <2>1 DEF Count, At, rows, ThreadInv, Asking, Holding, Running
    <2>5. Cardinality(PaidRows') < DailyLimit
      <3>1. PaidRows \subseteq Created /\ IsFiniteSet(Created)
        BY FS_Subset DEF PaidRows, Created
      <3>2. Cardinality(PaidRows) <= Cardinality(Created)
        BY <3>1, FS_Subset
      <3>3. Cardinality(PaidRows) \in Nat /\ Cardinality(Created) \in Nat
        BY <3>1, PaidFinite, FS_CardinalityType
      <3>4. PaidRows' = PaidRows
        BY DEF Count, rows, PaidRows, Created
      <3>5. QED
        BY <1>3, <3>2, <3>3, <3>4 DEF WithinQuota
    <2>6. LockInv(t)'
      BY <1>1, <1>3, <2>1, <2>5 DEF Count, At, LockInv
    <2>7. QED
      BY <1>3, <2>1, <2>2, <2>3, <2>4, <2>6, QuietStep DEF Count
  <1>4. QED
    BY <1>2, <1>3 DEF Count

LEMMA DispatchInv ==
  ASSUME IInv, NEW t \in Thread, DispatchGeneration(t)
  PROVE  IInv'
  <1>1. ThreadInv(t) /\ lock # t
    BY LockHolder DEF IInv, DispatchGeneration, At
  <1>2. PICK g \in Gen : g = job[t].gen
    BY <1>1 DEF ThreadInv, DispatchGeneration, At
  <1>3. status[g] = "pending" /\ RowInv(g) /\ tool[g] # "slow" => Timely(g)
    BY DEF IInv, TypeOK, RowInv, Timely, Tools
  <1>4. CASE queue' = queue \cup {g} /\ Finish(t)
    <2>1. job' \in [Thread -> Job] /\ job'[t] = Idle /\ Others(t)
      BY <1>4, FinishStep DEF IInv
    <2>2. TypeOK'
      BY <1>4, <2>1 DEF IInv, TypeOK, DispatchGeneration, rows, bounds
    <2>3. ThreadInv(t)' /\ LockInv(t)' /\ job'[t].at \notin Owning
      BY <1>1, <2>1, IdleThread DEF DispatchGeneration
    <2>4. \A h \in Gen : RowInv(h)'
      <3>1. status[g] = "pending"
        BY <1>1, <1>2 DEF ThreadInv, DispatchGeneration, At
      <3>2. QED
        BY <1>4, <3>1 DEF IInv, DispatchGeneration, rows, RowInv, Unfinished, Timely
    <2>5. \A u \in Thread \ {t} : ThreadInv(u)'
      <3>. SUFFICES ASSUME NEW u \in Thread \ {t} PROVE ThreadInv(u)'
        OBVIOUS
      <3>1. job'[u] = job[u] /\ ThreadInv(u)
        BY <2>1 DEF IInv, Others
      <3>2. QED
        BY <3>1 DEF DispatchGeneration, rows, ThreadInv, Unfinished, Timely
    <2>6. PaidRows' = PaidRows
      BY DEF DispatchGeneration, PaidRows, Created, rows
    <2>7. \A u \in Thread \ {t} : LockInv(u)'
      <3>1. points' \in Nat /\ points' >= points /\ lock' = lock
        BY DEF IInv, TypeOK, DispatchGeneration
      <3>2. Cardinality(PaidRows') <= Cardinality(PaidRows)
        BY <2>6, PaidFinite
      <3>3. QED
        BY <2>1, <3>1, <3>2, LockOthers
    <2>8. OwnerInv'
      <3>1. \A u \in Thread \ {t} : job[u].at \in Owning => job[u].gen # g
        BY <1>2 DEF IInv, OwnerInv, DispatchGeneration, At, Owning, Holding
      <3>2. QED
        BY <1>4, <2>1, <2>3, <3>1 DEF IInv, OwnerInv, Others, Owning
    <2>9. PaidQuota'
      BY <2>6 DEF IInv, PaidQuota
    <2>10. QED
      BY <2>2, <2>3, <2>4, <2>5, <2>7, <2>8, <2>9 DEF IInv
  <1>5. CASE /\ Goto(t, "fail") \/ (tool[g] = "site" /\ Goto(t, "route"))
             /\ UNCHANGED queue
    <2>1. PICK label \in {"fail", "route"} : Goto(t, label) /\ (label = "route" => tool[g] = "site")
      BY <1>5
    <2>2. /\ job' \in [Thread -> Job] /\ Others(t)
          /\ job'[t].at = label /\ job'[t].gen = g /\ job'[t].tool = job[t].tool
      BY <1>2, <2>1, GotoStep DEF IInv, Labels, Holding, Running
    <2>3. TypeOK'
      BY <1>5, <2>2 DEF IInv, TypeOK, DispatchGeneration, rows, bounds
    <2>4. OwnsAlone(t, g)
      BY <1>2, <1>5, <2>2, StaysAlone DEF DispatchGeneration, At, Owning, Holding
    <2>5. ThreadInv(t)'
      BY <1>1, <1>2, <2>1, <2>2
         DEF DispatchGeneration, At, rows, ThreadInv, Asking, Holding, Running, Unfinished, Timely
    <2>6. LockInv(t)'
      BY <1>1, <2>2 DEF DispatchGeneration, LockInv
    <2>7. QED
      BY <1>5, <2>2, <2>3, <2>4, <2>5, <2>6, QuietStep DEF DispatchGeneration
  <1>6. QED
    BY <1>2, <1>4, <1>5 DEF DispatchGeneration

LEMMA RunQueueInv ==
  ASSUME IInv, NEW t \in Thread, NEW g \in Gen, RunQueue(t, g)
  PROVE  IInv'
  <1>1. /\ job' \in [Thread -> Job] /\ Others(t)
        /\ job'[t].at = "pick" /\ job'[t].gen = g /\ job'[t].tool = "free"
    BY StartStep DEF IInv, RunQueue, Labels, Holding
  <1>2. TypeOK'
    BY <1>1 DEF IInv, TypeOK, RunQueue, rows, bounds
  <1>3. OwnsAlone(t, g)
    BY DEF IInv, OwnerInv, RunQueue, OwnsAlone, Owning
  <1>4. ThreadInv(t)'
    BY <1>1 DEF IInv, RowInv, RunQueue, rows, ThreadInv, Asking, Holding, Running
  <1>5. LockInv(t)'
    BY <1>1, LockHolder DEF RunQueue, At, LockInv
  <1>6. QED
    BY <1>1, <1>2, <1>3, <1>4, <1>5, QuietStep DEF RunQueue

LEMMA ListStaleInv ==
  ASSUME IInv, NEW t \in Thread, NEW g \in Gen, ListStale(t, g)
  PROVE  IInv'
  <1>1. /\ job' \in [Thread -> Job] /\ Others(t)
        /\ job'[t].at = "sweep" /\ job'[t].gen = g /\ job'[t].tool = "free"
    BY StartStep DEF IInv, ListStale, Labels
  <1>2. TypeOK'
    BY <1>1 DEF IInv, TypeOK, ListStale, rows, bounds
  <1>3. ThreadInv(t)' /\ job'[t].at \notin Owning
    BY <1>1 DEF ListStale, rows, ThreadInv, Unfinished, Owning, Asking, Holding, Running
  <1>4. LockInv(t)'
    BY <1>1, LockHolder DEF ListStale, At, LockInv
  <1>5. QED
    BY <1>1, <1>2, <1>3, <1>4, QuietStep DEF ListStale

LEMMA DisputeInv ==
  ASSUME IInv, NEW t \in Thread, NEW g \in Gen, DisputeGeneration(t, g)
  PROVE  IInv'
  <1>1. /\ job' \in [Thread -> Job] /\ Others(t)
        /\ job'[t].at = "dispute" /\ job'[t].gen = g /\ job'[t].tool = "free"
    BY StartStep DEF IInv, DisputeGeneration, Labels
  <1>2. TypeOK'
    BY <1>1 DEF IInv, TypeOK, DisputeGeneration, rows
  <1>3. ThreadInv(t)' /\ job'[t].at \notin Owning
    BY <1>1 DEF DisputeGeneration, rows, ThreadInv, Owning, Asking, Holding, Running
  <1>4. LockInv(t)'
    BY <1>1, LockHolder DEF DisputeGeneration, At, LockInv
  <1>5. QED
    BY <1>1, <1>2, <1>3, <1>4, QuietStep DEF DisputeGeneration

LEMMA PickJobInv ==
  ASSUME IInv, NEW t \in Thread, PickJob(t)
  PROVE  IInv'
  <1>1. ThreadInv(t) /\ lock # t
    BY LockHolder DEF IInv, PickJob, At
  <1>2. PICK label \in {"mark", "fail"} :
          Goto(t, label) /\ (label = "mark" <=> age[job[t].gen] = "fresh")
    BY DEF PickJob
  <1>3. /\ job' \in [Thread -> Job] /\ Others(t)
        /\ job'[t].at = label /\ job'[t].gen = job[t].gen /\ job'[t].tool = job[t].tool
    BY <1>2, GotoStep DEF IInv, Labels, Holding, Running
  <1>4. TypeOK'
    BY <1>3 DEF IInv, TypeOK, PickJob, rows, bounds
  <1>5. OwnsAlone(t, job'[t].gen)
    BY <1>3, StaysAlone DEF PickJob, At, Owning, Holding
  <1>6. ThreadInv(t)'
    BY <1>1, <1>2, <1>3
       DEF PickJob, At, rows, ThreadInv, Asking, Holding, Running, Unfinished, Timely
  <1>7. LockInv(t)'
    BY <1>1, <1>3 DEF PickJob, LockInv
  <1>8. QED
    BY <1>3, <1>4, <1>5, <1>6, <1>7, QuietStep DEF PickJob

LEMMA RouteInv ==
  ASSUME IInv, NEW t \in Thread, Route(t)
  PROVE  IInv'
  <1>1. ThreadInv(t) /\ lock # t
    BY LockHolder DEF IInv, Route, At
  <1>2. CASE Finish(t)
    <2>1. job' \in [Thread -> Job] /\ job'[t] = Idle /\ Others(t)
      BY <1>2, FinishStep DEF IInv
    <2>2. TypeOK'
      BY <2>1 DEF IInv, TypeOK, Route, rows, bounds
    <2>3. ThreadInv(t)' /\ LockInv(t)' /\ job'[t].at \notin Owning
      BY <1>1, <2>1, IdleThread DEF Route
    <2>4. QED
      BY <2>1, <2>2, <2>3, QuietStep DEF Route
  <1>3. CASE Goto(t, "complete") \/ Goto(t, "fail")
    <2>1. PICK label \in {"complete", "fail"} : Goto(t, label)
      BY <1>3
    <2>2. /\ job' \in [Thread -> Job] /\ Others(t)
          /\ job'[t].at = label /\ job'[t].gen = job[t].gen /\ job'[t].tool = job[t].tool
      BY <2>1, GotoStep DEF IInv, Labels, Holding, Running
    <2>3. TypeOK'
      BY <2>2 DEF IInv, TypeOK, Route, rows, bounds
    <2>4. OwnsAlone(t, job'[t].gen)
      BY <2>2, StaysAlone DEF Route, At, Owning, Holding, Running
    <2>5. ThreadInv(t)'
      BY <1>1, <2>2
         DEF Route, At, rows, ThreadInv, Asking, Holding, Running, Unfinished, Timely
    <2>6. LockInv(t)'
      BY <1>1, <2>2 DEF Route, LockInv
    <2>7. QED
      BY <2>2, <2>3, <2>4, <2>5, <2>6, QuietStep DEF Route
  <1>4. QED
    BY <1>2, <1>3 DEF Route

-----------------------------------------------------------------------------
(* The steps that change a row.                                            *)

\* The row of g alone changes, without being created; the threads at it are left to show.
LEMMA RowStep ==
  ASSUME IInv, TypeOK', NEW t \in Thread, Others(t), NEW g \in Gen,
         \A h \in Gen \ {g} : status'[h] = status[h] /\ age'[h] = age[h] /\ refund'[h] = refund[h],
         UNCHANGED <<tool, lock, queue>>,
         status[g] \notin {"none", "gone"}, status'[g] # "none",
         points' \in Nat, points' >= points \/ lock = None,
         job'[t].at \in Owning => job[t].at \in Owning /\ job'[t].gen = job[t].gen,
         RowInv(g)', ThreadInv(t)', LockInv(t)',
         \A u \in Thread \ {t} : job[u].at # "idle" /\ job[u].gen = g => ThreadInv(u)'
  PROVE  IInv'
  <1>1. \A h \in Gen : RowInv(h)'
    <2>. SUFFICES ASSUME NEW h \in Gen \ {g} PROVE RowInv(h)'
      OBVIOUS
    <2>1. RowInv(h)
      BY DEF IInv
    <2>2. QED
      BY <2>1 DEF RowInv, Unfinished, Timely
  <1>2. \A u \in Thread \ {t} : ThreadInv(u)'
    <2>. SUFFICES ASSUME NEW u \in Thread \ {t}, job[u].at = "idle" \/ job[u].gen # g
                  PROVE ThreadInv(u)'
      OBVIOUS
    <2>1. job'[u] = job[u] /\ ThreadInv(u)
      BY DEF IInv, Others
    <2>2. CASE job[u].at = "idle"
      BY <2>1, <2>2 DEF ThreadInv, Asking, Holding, Running
    <2>3. CASE job[u].at # "idle"
      <3>1. job[u].gen \in Gen \ {g}
        BY <2>1, <2>3 DEF ThreadInv
      <3>2. QED
        BY <2>1, <3>1 DEF ThreadInv, Unfinished, Timely
    <2>4. QED
      BY <2>2, <2>3
  <1>3. PaidRows' \subseteq PaidRows \cup {g}
    BY DEF PaidRows, Created
  <1>4. Cardinality(PaidRows') <= Cardinality(PaidRows)
    <2>1. CASE g \in PaidRows
      <3>1. PaidRows' \subseteq PaidRows
        BY <1>3, <2>1
      <3>2. QED
        BY <3>1, PaidFinite, FS_Subset
    <2>2. CASE g \notin PaidRows /\ status[g] # "gone"
      <3>1. PaidRows' \subseteq PaidRows
        BY <1>3, <2>2 DEF PaidRows, Created
      <3>2. QED
        BY <3>1, PaidFinite, FS_Subset
    <2>3. QED
      BY <2>1, <2>2
  <1>5. \A u \in Thread \ {t} : LockInv(u)'
    BY <1>4, LockOthers
  <1>6. OwnerInv'
    <2>1. job'[t].at \in Owning => OwnsAlone(t, job'[t].gen)
      BY StaysAlone
    <2>2. QED
      BY <2>1, OwnerStep
  <1>7. PaidQuota'
    BY <1>4, PaidFinite, PaidFiniteNext DEF IInv, PaidQuota
  <1>8. QED
    BY <1>1, <1>2, <1>5, <1>6, <1>7 DEF IInv

\* The thread that works on a row knows it exists.
LEMMA AtRow ==
  ASSUME IInv, NEW t \in Thread,
         job[t].at \in {"mark", "complete", "fail", "sweep", "refund", "dispute"}
  PROVE  \E g \in Gen : /\ g = job[t].gen /\ ThreadInv(t) /\ RowInv(g) /\ lock # t
                        /\ status[g] \notin {"none", "gone"}
                        /\ tool[g] \in Tools
  <1>1. ThreadInv(t) /\ job[t].gen \in Gen /\ lock # t
    BY LockHolder DEF IInv, ThreadInv
  <1>2. status[job[t].gen] \notin {"none", "gone"}
    BY <1>1 DEF ThreadInv, Unfinished
  <1>3. RowInv(job[t].gen) /\ tool[job[t].gen] \in Tools
    BY <1>1, <1>2 DEF IInv, TypeOK, RowInv
  <1>4. QED
    BY <1>1, <1>2, <1>3

\* A pending row that is fresh has no thread but its owner.
LEMMA MarkInv ==
  ASSUME IInv, NEW t \in Thread, MarkProcessing(t)
  PROVE  IInv'
  <1>1. PICK g \in Gen : /\ g = job[t].gen /\ ThreadInv(t) /\ RowInv(g) /\ lock # t
                         /\ status[g] \notin {"none", "gone"} /\ tool[g] \in Tools
    BY AtRow DEF MarkProcessing, At
  <1>2. status[g] = "pending" /\ age[g] = "fresh"
    BY <1>1 DEF ThreadInv, MarkProcessing, At
  <1>3. /\ job' \in [Thread -> Job] /\ Others(t)
        /\ job'[t].at = "route" /\ job'[t].gen = g /\ job'[t].tool = job[t].tool
    BY <1>1, GotoStep DEF IInv, MarkProcessing, Labels, Holding, Running
  <1>4. /\ status' \in [Gen -> Status] /\ status'[g] = "processing"
        /\ \A h \in Gen \ {g} : status'[h] = status[h]
    BY <1>1 DEF IInv, TypeOK, MarkProcessing, SetStatus, Status
  <1>5. TypeOK'
    BY <1>3, <1>4 DEF IInv, TypeOK, MarkProcessing, bounds
  <1>6. job[t].at \in Owning
    BY DEF MarkProcessing, At, Owning, Holding, Running
  <1>7. RowInv(g)'
    <2>1. g \notin queue
      BY <1>1, <1>6 DEF IInv, OwnerInv, Owning
    <2>2. QED
      BY <1>1, <1>2, <1>4, <2>1 DEF MarkProcessing, RowInv, Unfinished, Timely
  <1>8. ThreadInv(t)'
    BY <1>2, <1>3, <1>4 DEF MarkProcessing, ThreadInv, Asking, Unfinished
  <1>9. LockInv(t)'
    BY <1>1, <1>3 DEF MarkProcessing, LockInv
  <1>10. \A u \in Thread \ {t} : job[u].at # "idle" /\ job[u].gen = g => ThreadInv(u)'
    <2>. SUFFICES ASSUME NEW u \in Thread \ {t}, job[u].at # "idle", job[u].gen = g
                  PROVE FALSE
      OBVIOUS
    <2>1. ThreadInv(u) /\ job[u] \in Job
      BY DEF IInv, TypeOK
    <2>2. job[u].at \notin Owning
      BY <1>1, <1>6 DEF IInv, OwnerInv, Owning
    <2>3. QED
      BY <1>2, <2>1, <2>2 DEF ThreadInv, Job, Labels, Owning, Timely, Unfinished
  <1>11. points' \in Nat /\ points' >= points
    BY DEF IInv, TypeOK, MarkProcessing
  <1>12. job'[t].at \in Owning => job[t].at \in Owning /\ job'[t].gen = job[t].gen
    BY <1>1, <1>3, <1>6
  <1>13. QED
    BY <1>1, <1>3, <1>4, <1>5, <1>7, <1>8, <1>9, <1>10, <1>11, <1>12, RowStep DEF MarkProcessing

\* A timely row is completed before it is stale: no sweep has seen it, so none will fail it.
LEMMA CompleteInv ==
  ASSUME IInv, NEW t \in Thread, CompleteGeneration(t)
  PROVE  IInv'
  <1>1. PICK g \in Gen : /\ g = job[t].gen /\ ThreadInv(t) /\ RowInv(g) /\ lock # t
                         /\ status[g] \notin {"none", "gone"} /\ tool[g] \in Tools
    BY AtRow DEF CompleteGeneration, At
  <1>2. \/ Unfinished(g) /\ (Timely(g) => age[g] # "stale")
        \/ ~Timely(g) /\ status[g] = "failed"
    BY <1>1 DEF ThreadInv, CompleteGeneration, At
  <1>3. job' \in [Thread -> Job] /\ Others(t) /\ job'[t] = Idle
    BY FinishStep DEF IInv, CompleteGeneration
  <1>4. /\ status' \in [Gen -> Status] /\ status'[g] = "completed"
        /\ \A h \in Gen \ {g} : status'[h] = status[h]
    BY <1>1 DEF IInv, TypeOK, CompleteGeneration, SetStatus, Status
  <1>5. TypeOK'
    BY <1>3, <1>4 DEF IInv, TypeOK, CompleteGeneration, bounds
  <1>6. job[t].at \in Owning
    BY DEF CompleteGeneration, At, Owning, Holding, Running
  <1>7. RowInv(g)'
    <2>1. g \notin queue
      BY <1>1, <1>6 DEF IInv, OwnerInv, Owning
    <2>2. QED
      BY <1>1, <1>2, <1>4, <2>1 DEF CompleteGeneration, RowInv, Unfinished, Timely
  <1>8. ThreadInv(t)' /\ LockInv(t)' /\ job'[t].at \notin Owning
    BY <1>1, <1>3, IdleThread DEF CompleteGeneration
  <1>9. \A u \in Thread \ {t} : job[u].at # "idle" /\ job[u].gen = g => ThreadInv(u)'
    <2>. SUFFICES ASSUME NEW u \in Thread \ {t}, job[u].at # "idle", job[u].gen = g
                  PROVE ThreadInv(u)'
      OBVIOUS
    <2>1. ThreadInv(u) /\ job'[u] = job[u] /\ job[u] \in Job
      BY <1>3 DEF IInv, TypeOK, Others
    <2>2. job[u].at \notin Owning
      BY <1>1, <1>6 DEF IInv, OwnerInv, Owning
    <2>3. job[u].at \in {"sweep", "refund", "dispute"}
      BY <2>1, <2>2 DEF Job, Labels, Owning
    <2>4. CASE Timely(g)
      BY <1>2, <2>1, <2>3, <2>4 DEF ThreadInv, Unfinished
    <2>5. CASE ~Timely(g)
      BY <1>4, <2>1, <2>3, <2>5
         DEF CompleteGeneration, ThreadInv, Timely, Unfinished, Asking, Holding, Running
    <2>6. QED
      BY <2>4, <2>5
  <1>10. points' \in Nat /\ points' >= points
    BY DEF IInv, TypeOK, CompleteGeneration
  <1>11. QED
    BY <1>1, <1>3, <1>4, <1>5, <1>7, <1>8, <1>9, <1>10, RowStep DEF CompleteGeneration

\* What fails a timely row is its owner, or a sweep that finds no owner running.
LEMMA FailInv ==
  ASSUME IInv, NEW t \in Thread, FailGeneration(t)
  PROVE  IInv'
  <1>1. PICK g \in Gen : /\ g = job[t].gen /\ ThreadInv(t) /\ RowInv(g) /\ lock # t
                         /\ status[g] \notin {"none", "gone"} /\ tool[g] \in Tools
    BY AtRow DEF FailGeneration, At
  <1>2. Unfinished(g) \/ status[g] = "failed" \/ (~Timely(g) /\ status[g] = "completed")
    BY <1>1 DEF ThreadInv, FailGeneration, At
  <1>3. /\ status' \in [Gen -> Status] /\ status'[g] = "failed"
        /\ \A h \in Gen \ {g} : status'[h] = status[h]
    BY <1>1 DEF IInv, TypeOK, FailGeneration, SetStatus, Status
  <1>4. job[t].at = "fail" \/ (job[t].at = "sweep" /\ age[g] = "stale")
    BY <1>1 DEF ThreadInv, FailGeneration, At
  <1>5. RowInv(g)'
    <2>1. g \in queue => age[g] = "stale"
      BY <1>1, <1>4 DEF IInv, OwnerInv, Holding
    <2>2. Unfinished(g) => refund[g] = "none"
      BY <1>1 DEF RowInv
    <2>3. QED
      BY <1>1, <1>2, <1>3, <2>1, <2>2 DEF FailGeneration, RowInv, Unfinished, Timely
  <1>6. \A u \in Thread \ {t} : job[u].at # "idle" /\ job[u].gen = g /\ job'[u] = job[u]
                                  => ThreadInv(u)'
    <2>. SUFFICES ASSUME NEW u \in Thread \ {t}, job[u].at # "idle", job[u].gen = g,
                         job'[u] = job[u]
                  PROVE ThreadInv(u)'
      OBVIOUS
    <2>1. ThreadInv(u) /\ job[u] \in Job
      BY DEF IInv, TypeOK
    <2>2. job[u].at \notin Asking
      BY <1>1, <2>1 DEF ThreadInv
    <2>3. CASE job[u].at \in Holding
      <3>1. job[t].at = "sweep" /\ age[g] = "stale"
        BY <1>1, <1>4, <2>3 DEF IInv, OwnerInv, Holding
      <3>2. QED
        BY <1>3, <2>1, <2>3, <3>1
           DEF FailGeneration, ThreadInv, Timely, Unfinished, Asking, Holding, Running
    <2>4. CASE job[u].at \in {"sweep", "refund"}
      BY <1>3, <2>1, <2>4 DEF FailGeneration, ThreadInv, Timely, Unfinished, Asking, Holding, Running
    <2>5. CASE job[u].at = "dispute"
      BY <1>2, <1>3, <2>1, <2>5
         DEF FailGeneration, ThreadInv, Timely, Unfinished, Asking, Holding, Running
    <2>6. QED
      BY <2>1, <2>2, <2>3, <2>4, <2>5 DEF Job, Labels
  <1>7. points' \in Nat /\ points' >= points
    BY DEF IInv, TypeOK, FailGeneration
  <1>8. CASE Finish(t)
    <2>1. job' \in [Thread -> Job] /\ Others(t) /\ job'[t] = Idle
      BY <1>8, FinishStep DEF IInv
    <2>2. TypeOK'
      BY <1>3, <2>1 DEF IInv, TypeOK, FailGeneration, bounds
    <2>3. ThreadInv(t)' /\ LockInv(t)' /\ job'[t].at \notin Owning
      BY <1>1, <2>1, IdleThread DEF FailGeneration
    <2>4. \A u \in Thread \ {t} : job[u].at # "idle" /\ job[u].gen = g => ThreadInv(u)'
      BY <1>6, <2>1 DEF Others
    <2>5. QED
      BY <1>1, <1>3, <1>5, <1>7, <2>1, <2>2, <2>3, <2>4, RowStep DEF FailGeneration
  <1>9. CASE Goto(t, "refund") /\ tool[g] # "free"
    <2>1. /\ job' \in [Thread -> Job] /\ Others(t)
          /\ job'[t].at = "refund" /\ job'[t].gen = g /\ job'[t].tool = job[t].tool
      BY <1>1, <1>9, GotoStep DEF IInv, Labels
    <2>2. TypeOK'
      BY <1>3, <2>1 DEF IInv, TypeOK, FailGeneration, bounds
    <2>3. ThreadInv(t)' /\ LockInv(t)' /\ job'[t].at \notin Owning
      BY <1>1, <1>3, <1>9, <2>1
         DEF FailGeneration, ThreadInv, LockInv, Owning, Asking, Holding, Running
    <2>4. \A u \in Thread \ {t} : job[u].at # "idle" /\ job[u].gen = g => ThreadInv(u)'
      BY <1>6, <2>1 DEF Others
    <2>5. QED
      BY <1>1, <1>3, <1>5, <1>7, <2>1, <2>2, <2>3, <2>4, RowStep DEF FailGeneration
  <1>10. QED
    BY <1>1, <1>8, <1>9 DEF FailGeneration, Price

\* Points returned for g by thread t, for either reason.
LEMMA ReturnStep ==
  ASSUME IInv, NEW t \in Thread, NEW g \in Gen, g = job[t].gen,
         NEW why \in {"failure", "dispute"}, NEW amount \in Nat,
         job[t].at = IF why = "failure" THEN "refund" ELSE "dispute",
         lock = None, Finish(t),
         \/ refund[g] = "none" /\ refund' = [refund EXCEPT ![g] = why] /\ points' = points + amount
         \/ refund[g] # "none" /\ UNCHANGED <<refund, points>>,
         UNCHANGED <<tool, status, age, lock, queue, lost, bounds>>
  PROVE  IInv'
  <1>1. /\ ThreadInv(t) /\ RowInv(g) /\ lock # t
        /\ status[g] \notin {"none", "gone"} /\ tool[g] \in Tools
    BY AtRow
  <1>2. tool[g] # "free" /\ status[g] \in {"completed", "failed"}
    BY <1>1 DEF ThreadInv
  <1>3. Timely(g) => status[g] = IF why = "failure" THEN "failed" ELSE "completed"
    BY <1>1 DEF ThreadInv
  <1>4. job' \in [Thread -> Job] /\ Others(t) /\ job'[t] = Idle
    BY FinishStep DEF IInv
  <1>5. /\ refund' \in [Gen -> Refunds]
        /\ refund'[g] = IF refund[g] = "none" THEN why ELSE refund[g]
        /\ \A h \in Gen \ {g} : refund'[h] = refund[h]
    BY DEF IInv, TypeOK, Refunds
  <1>6. points' \in Nat /\ points' >= points
    BY DEF IInv, TypeOK
  <1>7. TypeOK'
    BY <1>4, <1>5, <1>6 DEF IInv, TypeOK, bounds
  <1>8. RowInv(g)'
    BY <1>1, <1>2, <1>3, <1>5 DEF RowInv, Unfinished, Timely
  <1>9. ThreadInv(t)' /\ LockInv(t)' /\ job'[t].at \notin Owning
    BY <1>1, <1>4, IdleThread
  <1>10. \A u \in Thread \ {t} : job[u].at # "idle" /\ job[u].gen = g => ThreadInv(u)'
    <2>. SUFFICES ASSUME NEW u \in Thread \ {t} PROVE ThreadInv(u)'
      OBVIOUS
    <2>1. ThreadInv(u) /\ job'[u] = job[u]
      BY <1>4 DEF IInv, Others
    <2>2. QED
      BY <2>1 DEF ThreadInv, Unfinished, Timely
  <1>11. QED
    BY <1>1, <1>4, <1>5, <1>6, <1>7, <1>8, <1>9, <1>10, RowStep

LEMMA GrantRefundInv ==
  ASSUME IInv, NEW t \in Thread, GrantRefund(t)
  PROVE  IInv'
  <1>1. PICK g \in Gen : g = job[t].gen
    BY AtRow DEF GrantRefund, At
  <1>2. \/ /\ refund[g] = "none" /\ refund' = [refund EXCEPT ![g] = "failure"]
           /\ points' = points + Cost
        \/ refund[g] # "none" /\ UNCHANGED <<refund, points>>
    BY <1>1 DEF GrantRefund
  <1>3. job[t].at = "refund" /\ lock = None /\ Finish(t) /\ Cost \in Nat
        /\ UNCHANGED <<tool, status, age, lock, queue, lost, bounds>>
    BY DEF GrantRefund, At
  <1>4. QED
    BY <1>1, <1>2, <1>3, ReturnStep

LEMMA GrantDisputeInv ==
  ASSUME IInv, NEW t \in Thread, GrantDispute(t)
  PROVE  IInv'
  <1>1. PICK g \in Gen : g = job[t].gen
    BY AtRow DEF GrantDispute, At
  <1>2. \/ /\ refund[g] = "none" /\ refund' = [refund EXCEPT ![g] = "dispute"]
           /\ points' = points + RefundPart
        \/ refund[g] # "none" /\ UNCHANGED <<refund, points>>
    BY <1>1 DEF GrantDispute
  <1>3. job[t].at = "dispute" /\ lock = None /\ Finish(t) /\ RefundPart \in Nat
        /\ UNCHANGED <<tool, status, age, lock, queue, lost, bounds>>
    BY DEF GrantDispute, At
  <1>4. QED
    BY <1>1, <1>2, <1>3, ReturnStep

\* The commit: a paid row is added only by the holder of the wallet row, whose count stands.
LEMMA InsertInv ==
  ASSUME IInv, NEW t \in Thread, InsertGeneration(t)
  PROVE  IInv'
  <1>1. ThreadInv(t) /\ LockInv(t) /\ job[t] \in Job
    BY DEF IInv, TypeOK
  <1>2. PICK g \in Gen : g = job[t].gen
    BY <1>1 DEF ThreadInv, InsertGeneration, At
  <1>3. PICK k \in Tools : k = job[t].tool
    BY <1>1 DEF Job
  <1>4. status[g] = "none" /\ age[g] = "fresh" /\ refund[g] = "none" /\ g \notin queue
    BY <1>1, <1>2 DEF IInv, RowInv, ThreadInv, InsertGeneration, At, Asking
  <1>5. /\ job' \in [Thread -> Job] /\ Others(t)
        /\ job'[t].at = "dispatch" /\ job'[t].gen = g /\ job'[t].tool = k
    BY <1>2, <1>3, GotoStep DEF IInv, InsertGeneration, Labels, Holding
  <1>6. /\ status' \in [Gen -> Status] /\ status'[g] = "pending"
        /\ \A h \in Gen \ {g} : status'[h] = status[h]
    BY <1>2 DEF IInv, TypeOK, InsertGeneration, SetStatus, Status
  <1>7. /\ tool' \in [Gen -> Tools \cup {"none"}] /\ tool'[g] = k
        /\ \A h \in Gen \ {g} : tool'[h] = tool[h]
    BY <1>2, <1>3 DEF IInv, TypeOK, InsertGeneration
  <1>8. k # "free" => lock = t /\ points >= Cost
    BY <1>1, <1>3 DEF LockInv, InsertGeneration, At
  <1>9. points' \in Nat /\ (points' >= points \/ lock = t)
    BY <1>3, <1>8 DEF IInv, TypeOK, InsertGeneration, Price
  <1>10. lock' # t /\ lock' \in Thread \cup {None} /\ (lock' = lock \/ (lock = t /\ lock' = None))
    BY DEF IInv, TypeOK, InsertGeneration
  <1>11. TypeOK'
    BY <1>5, <1>6, <1>7, <1>9, <1>10 DEF IInv, TypeOK, InsertGeneration, bounds
  <1>12. \A h \in Gen : RowInv(h)'
    <2>. SUFFICES ASSUME NEW h \in Gen PROVE RowInv(h)'
      OBVIOUS
    <2>1. CASE h = g
      BY <1>4, <1>6, <1>7, <2>1 DEF InsertGeneration, RowInv, Unfinished, Timely, Tools
    <2>2. CASE h # g
      <3>1. RowInv(h) /\ status'[h] = status[h] /\ tool'[h] = tool[h]
        BY <1>6, <1>7, <2>2 DEF IInv
      <3>2. QED
        BY <3>1 DEF InsertGeneration, RowInv, Unfinished, Timely
    <2>3. QED
      BY <2>1, <2>2
  <1>13. ThreadInv(t)'
    BY <1>4, <1>5, <1>6 DEF InsertGeneration, ThreadInv, Asking, Holding, Running
  <1>14. \A u \in Thread \ {t} : ThreadInv(u)'
    <2>. SUFFICES ASSUME NEW u \in Thread \ {t} PROVE ThreadInv(u)'
      OBVIOUS
    <2>1. ThreadInv(u) /\ job'[u] = job[u] /\ job[u] \in Job
      BY <1>5 DEF IInv, TypeOK, Others
    <2>2. CASE job[u].at = "idle"
      BY <2>1, <2>2 DEF ThreadInv, Asking, Holding, Running
    <2>3. CASE job[u].at # "idle"
      <3>1. job[u].gen \in Gen
        BY <2>1, <2>3 DEF ThreadInv
      <3>2. job[u].gen # g
        <4>1. job[u].gen = g => job[u].at \notin Asking
          BY <1>2 DEF IInv, OwnerInv, InsertGeneration, At, Asking
        <4>2. QED
          BY <1>4, <2>1, <2>3, <4>1 DEF ThreadInv, Job, Labels, Holding, Running, Unfinished
      <3>3. status'[job[u].gen] = status[job[u].gen] /\ tool'[job[u].gen] = tool[job[u].gen]
        BY <1>6, <1>7, <3>1, <3>2
      <3>4. QED
        BY <2>1, <3>3 DEF InsertGeneration, ThreadInv, Unfinished, Timely
    <2>4. QED
      BY <2>2, <2>3
  <1>15. PaidQuota' /\ (lock = t \/ Cardinality(PaidRows') <= Cardinality(PaidRows))
    <2>1. CASE k \in {"paid", "slow"}
      <3>1. lock = t /\ Cardinality(PaidRows) < DailyLimit
        BY <1>1, <1>3, <1>8, <2>1 DEF LockInv, InsertGeneration, At
      <3>2. PaidRows' = PaidRows \cup {g} /\ g \notin PaidRows
        BY <1>4, <1>6, <1>7, <2>1 DEF PaidRows, Created
      <3>3. Cardinality(PaidRows \cup {g}) = Cardinality(PaidRows) + 1
        BY <3>2, PaidFinite, FS_AddElement
      <3>4. QED
        BY <3>1, <3>2, <3>3, PaidFinite DEF PaidQuota
    <2>2. CASE k \in {"free", "site"}
      <3>1. PaidRows' = PaidRows
        BY <1>4, <1>6, <1>7, <2>2 DEF PaidRows, Created
      <3>2. QED
        BY <3>1, PaidFinite DEF IInv, PaidQuota
    <2>3. QED
      BY <2>1, <2>2 DEF Tools
  <1>16. \A u \in Thread \ {t} : LockInv(u)'
    BY <1>5, <1>9, <1>10, <1>15, LockOthers
  <1>17. LockInv(t)'
    BY <1>5, <1>10 DEF LockInv
  <1>18. OwnerInv'
    <2>1. job[t].at \in Owning /\ queue' = queue
      BY DEF InsertGeneration, At, Owning, Asking
    <2>2. OwnsAlone(t, job'[t].gen)
      BY <1>2, <1>5, <2>1, StaysAlone
    <2>3. QED
      BY <1>5, <2>1, <2>2, OwnerStep
  <1>19. QED
    BY <1>11, <1>12, <1>13, <1>14, <1>15, <1>16, <1>17, <1>18 DEF IInv

LEMMA ExpireInv ==
  ASSUME IInv, NEW g \in Gen, ExpireAsset(g)
  PROVE  IInv'
  <1>1. /\ status' \in [Gen -> Status] /\ status'[g] = "gone"
        /\ \A h \in Gen \ {g} : status'[h] = status[h]
    BY DEF IInv, TypeOK, ExpireAsset, SetStatus, Status
  <1>2. TypeOK'
    BY <1>1 DEF IInv, TypeOK, ExpireAsset, bounds
  <1>3. \A h \in Gen : RowInv(h)'
    <2>. SUFFICES ASSUME NEW h \in Gen PROVE RowInv(h)'
      OBVIOUS
    <2>1. RowInv(h)
      BY DEF IInv
    <2>2. CASE h = g
      BY <1>1, <2>1, <2>2 DEF ExpireAsset, RowInv, Unfinished, Timely
    <2>3. CASE h # g
      BY <1>1, <2>1, <2>3 DEF ExpireAsset, RowInv, Unfinished, Timely
    <2>4. QED
      BY <2>2, <2>3
  <1>4. \A t \in Thread : ThreadInv(t)'
    <2>. SUFFICES ASSUME NEW t \in Thread PROVE ThreadInv(t)'
      OBVIOUS
    <2>1. ThreadInv(t) /\ job' = job /\ job[t].gen # g
      BY DEF IInv, ExpireAsset
    <2>2. CASE job[t].at = "idle"
      BY <2>1, <2>2 DEF ThreadInv, Asking, Holding, Running
    <2>3. CASE job[t].at # "idle"
      <3>1. job[t].gen \in Gen \ {g}
        BY <2>1, <2>3 DEF ThreadInv
      <3>2. QED
        BY <1>1, <2>1, <3>1 DEF ExpireAsset, ThreadInv, Unfinished, Timely
    <2>4. QED
      BY <2>2, <2>3
  <1>5. PaidRows' \subseteq PaidRows
    BY <1>1 DEF ExpireAsset, PaidRows, Created
  <1>6. Cardinality(PaidRows') <= Cardinality(PaidRows)
    BY <1>5, PaidFinite, FS_Subset
  <1>7. \A t \in Thread : LockInv(t)'
    BY <1>6, PaidFinite, PaidFiniteNext DEF IInv, ExpireAsset, LockInv
  <1>8. PaidQuota'
    BY <1>6, PaidFinite, PaidFiniteNext DEF IInv, PaidQuota
  <1>9. OwnerInv'
    BY DEF IInv, ExpireAsset, OwnerInv
  <1>10. QED
    BY <1>2, <1>3, <1>4, <1>7, <1>8, <1>9 DEF IInv

\* A timely row does not become stale while its worker is at it.
LEMMA AgeInv ==
  ASSUME IInv, NEW g \in Gen, Age(g)
  PROVE  IInv'
  <1>1. /\ age' \in [Gen -> Ages] /\ age'[g] = Older[age[g]] /\ age'[g] \in {"late", "stale"}
        /\ age'[g] = "stale" => age[g] = "late"
        /\ \A h \in Gen \ {g} : age'[h] = age[h]
    BY DEF IInv, TypeOK, Age, Ages, Older
  <1>2. TypeOK'
    BY <1>1 DEF IInv, TypeOK, Age, bounds
  <1>3. \A h \in Gen : RowInv(h)'
    <2>. SUFFICES ASSUME NEW h \in Gen PROVE RowInv(h)'
      OBVIOUS
    <2>1. RowInv(h)
      BY DEF IInv
    <2>2. CASE h = g
      BY <1>1, <2>1, <2>2 DEF Age, RowInv, Unfinished, Timely
    <2>3. CASE h # g
      BY <1>1, <2>1, <2>3 DEF Age, RowInv, Unfinished, Timely
    <2>4. QED
      BY <2>2, <2>3
  <1>4. \A t \in Thread : ThreadInv(t)'
    <2>. SUFFICES ASSUME NEW t \in Thread PROVE ThreadInv(t)'
      OBVIOUS
    <2>1. ThreadInv(t) /\ job' = job
      BY DEF IInv, Age
    <2>2. CASE job[t].at = "idle"
      BY <2>1, <2>2 DEF ThreadInv, Asking, Holding, Running
    <2>3. CASE job[t].at # "idle" /\ job[t].gen # g
      <3>1. job[t].gen \in Gen \ {g}
        BY <2>1, <2>3 DEF ThreadInv
      <3>2. QED
        BY <1>1, <2>1, <3>1 DEF Age, ThreadInv, Unfinished, Timely
    <2>4. CASE job[t].at # "idle" /\ job[t].gen = g
      <3>1. job[t].at \in Holding =>
              job[t].at = "route" /\ (age[g] = "fresh" \/ tool[g] = "slow")
        BY <2>4 DEF Age, MayWait, At
      <3>2. age[g] # "stale" /\ Unfinished(g)
        BY DEF Age, Unfinished
      <3>3. QED
        BY <1>1, <2>1, <2>4, <3>1, <3>2
           DEF Age, ThreadInv, Unfinished, Timely, Asking, Holding, Running
    <2>5. QED
      BY <2>2, <2>3, <2>4
  <1>5. PaidRows' = PaidRows
    BY DEF Age, PaidRows, Created
  <1>6. \A t \in Thread : LockInv(t)'
    BY <1>5 DEF IInv, Age, LockInv
  <1>7. PaidQuota' /\ OwnerInv'
    BY <1>5 DEF IInv, Age, PaidQuota, OwnerInv
  <1>8. QED
    BY <1>2, <1>3, <1>4, <1>6, <1>7 DEF IInv

LEMMA CrashInv ==
  ASSUME IInv, Crash
  PROVE  IInv'
  <1>1. job' = [t \in Thread |-> Idle] /\ lock' = None /\ queue' = {} /\ UNCHANGED <<rows, points>>
    BY DEF Crash
  <1>2. TypeOK'
    <2>1. lost' \in SUBSET Gen
      <3>1. \A t \in Thread : job[t].at = "refund" => job[t].gen \in Gen
        BY DEF IInv, ThreadInv
      <3>2. QED
        BY <3>1 DEF IInv, TypeOK, Crash, At
    <2>2. job' \in [Thread -> Job]
      BY <1>1, IdleJob
    <2>3. QED
      BY <1>1, <2>1, <2>2 DEF IInv, TypeOK, Crash, rows
  <1>3. \A g \in Gen : RowInv(g)'
    BY <1>1 DEF IInv, rows, RowInv, Unfinished, Timely
  <1>4. \A t \in Thread : ThreadInv(t)' /\ LockInv(t)'
    BY <1>1 DEF Idle, ThreadInv, LockInv, Asking, Holding, Running
  <1>5. PaidRows' = PaidRows
    BY <1>1 DEF PaidRows, Created, rows
  <1>6. PaidQuota'
    BY <1>5 DEF IInv, PaidQuota
  <1>7. OwnerInv'
    BY <1>1 DEF OwnerInv, Idle, Asking, Holding, Running
  <1>8. QED
    BY <1>2, <1>3, <1>4, <1>6, <1>7 DEF IInv

-----------------------------------------------------------------------------
(* Theorems.                                                               *)

LEMMA ProgressInv ==
  ASSUME IInv, NEW t \in Thread, Progress(t)
  PROVE  IInv'
  BY CheckQuotaInv, CheckWalletInv, DeductInv, CountInv, InsertInv, DispatchInv, PickJobInv,
     MarkInv, RouteInv, CompleteInv, FailInv, GrantRefundInv, GrantDisputeInv DEF Progress

LEMMA ArrivalInv ==
  ASSUME IInv, NEW t \in Thread, NEW g \in Gen, Arrival(t, g)
  PROVE  IInv'
  BY RequestInv, RunQueueInv, ListStaleInv, DisputeInv DEF Arrival

LEMMA NextInv == IInv /\ [Next]_vars => IInv'
  BY ProgressInv, ArrivalInv, ExpireInv, AgeInv, CrashInv, StutterInv DEF Next

\* The inductive invariant: rows, threads, the wallet lock and who has a generation in hand
\* agree in every reachable state, whatever statement each handler, worker and sweep is at.
THEOREM Inductive == Spec => []IInv
  <1>1. Init => IInv
    BY InitInv
  <1>2. IInv /\ [Next]_vars => IInv'
    BY NextInv
  <1>3. QED
    BY <1>1, <1>2, PTL DEF Spec

\* Every variable keeps its type; above all the wallet of RequestGeneration never goes
\* below zero.
THEOREM TypeCorrect == Spec => []TypeOK
  <1>1. IInv => TypeOK
    BY DEF IInv
  <1>2. QED
    BY <1>1, Inductive, PTL

\* The daily limit of RequestGeneration is exact for what is paid for.
THEOREM QuotaExact == Spec => []PaidQuota
  <1>1. IInv => PaidQuota
    BY DEF IInv
  <1>2. QED
    BY <1>1, Inductive, PTL

\* FailGeneration never refunds what a tool that answers in time has delivered.
THEOREM ChargeKept == Spec => []TimelyKeepsCharge
  <1>1. IInv => TimelyKeepsCharge
    <2>. SUFFICES ASSUME IInv, NEW g \in Gen, tool[g] # "slow",
                         status[g] \in {"completed", "gone"}
                  PROVE refund[g] # "failure"
      BY DEF TimelyKeepsCharge
    <2>1. RowInv(g) /\ tool[g] \in Tools \cup {"none"}
      BY DEF IInv, TypeOK
    <2>2. Timely(g)
      BY <2>1 DEF RowInv, Timely, Tools
    <2>3. QED
      BY <2>1, <2>2 DEF RowInv
  <1>2. QED
    BY <1>1, Inductive, PTL

LEMMA InitPromise == Init => Promise!PromiseInit
  BY DEF Init, Promise!PromiseInit

\* Writing the status a row has already changes nothing.
LEMMA SameStatus ==
  ASSUME TypeOK, NEW g \in Gen, status' = [status EXCEPT ![g] = status[g]]
  PROVE  status' = status
  BY DEF TypeOK

\* Statements on rows and wallet are steps of the promise; all else is a stutter.
LEMMA StepPromise == IInv /\ [Next]_vars => [Promise!PromiseNext]_(Promise!promiseVars)
  <1>. SUFFICES ASSUME IInv, [Next]_vars
                PROVE  [Promise!PromiseNext]_(Promise!promiseVars)
    OBVIOUS
  <1>. DEFINE still == UNCHANGED <<tool, status, refund, points>>
  <1>1. still => UNCHANGED Promise!promiseVars
    BY DEF Promise!promiseVars
  <1>2. CASE UNCHANGED vars
    BY <1>1, <1>2 DEF vars, rows
  <1>3. ASSUME NEW t \in Thread, InsertGeneration(t)
        PROVE  Promise!PromiseNext
    <2>1. ThreadInv(t) /\ LockInv(t) /\ job[t] \in Job
      BY DEF IInv, TypeOK
    <2>2. PICK g \in Gen : g = job[t].gen
      BY <1>3, <2>1 DEF ThreadInv, InsertGeneration, At
    <2>3. PICK k \in Promise!Tools : k = job[t].tool
      BY <2>1 DEF Job, Tools, Promise!Tools
    <2>4. status[g] = "none"
      BY <1>3, <2>1, <2>2 DEF ThreadInv, InsertGeneration, At, Asking
    <2>5. points >= Promise!Price(k)
      BY <1>3, <2>1, <2>3 DEF IInv, TypeOK, LockInv, InsertGeneration, At, Promise!Price
    <2>6. points' = points - Promise!Price(k)
      BY <1>3, <2>3 DEF InsertGeneration, Price, Promise!Price
    <2>7. Promise!Accept(g, k)
      BY <1>3, <2>2, <2>3, <2>4, <2>5, <2>6 DEF InsertGeneration, SetStatus, Promise!Accept
    <2>8. QED
      BY <2>7 DEF Promise!PromiseNext
  <1>4. ASSUME NEW t \in Thread, MarkProcessing(t)
        PROVE  Promise!PromiseNext
    <2>1. PICK g \in Gen : g = job[t].gen /\ ThreadInv(t)
      BY <1>4, AtRow DEF MarkProcessing, At
    <2>2. Promise!Work(g)
      BY <1>4, <2>1 DEF ThreadInv, MarkProcessing, SetStatus, At, Promise!Work
    <2>3. QED
      BY <2>2 DEF Promise!PromiseNext, Promise!PromiseStep
  <1>5. ASSUME NEW t \in Thread, CompleteGeneration(t)
        PROVE  Promise!PromiseNext
    <2>1. PICK g \in Gen : g = job[t].gen /\ ThreadInv(t) /\ RowInv(g) /\ tool[g] \in Tools
                           /\ status[g] \notin {"none", "gone"}
      BY <1>5, AtRow DEF CompleteGeneration, At
    <2>2. Unfinished(g) \/ (~Timely(g) /\ status[g] = "failed")
      BY <1>5, <2>1 DEF ThreadInv, CompleteGeneration, At
    <2>3. ~Timely(g) => Promise!Slow(g)
      BY <2>1 DEF Timely, Tools, Promise!Slow
    <2>4. Promise!Deliver(g)
      BY <1>5, <2>1, <2>2, <2>3 DEF CompleteGeneration, SetStatus, Unfinished, Promise!Deliver
    <2>5. QED
      BY <2>4 DEF Promise!PromiseNext, Promise!PromiseStep
  <1>6. ASSUME NEW t \in Thread, FailGeneration(t)
        PROVE  still \/ Promise!PromiseNext
    <2>1. PICK g \in Gen : g = job[t].gen /\ ThreadInv(t) /\ tool[g] \in Tools
      BY <1>6, AtRow DEF FailGeneration, At
    <2>2. Unfinished(g) \/ status[g] = "failed" \/ (~Timely(g) /\ status[g] = "completed")
      BY <1>6, <2>1 DEF ThreadInv, FailGeneration, At
    <2>3. ~Timely(g) => Promise!Slow(g)
      BY <2>1 DEF Timely, Tools, Promise!Slow
    <2>4. status' = [status EXCEPT ![g] = "failed"] /\ UNCHANGED <<tool, refund, points>>
      BY <1>6, <2>1 DEF FailGeneration, SetStatus
    <2>5. CASE status[g] = "failed"
      BY <2>4, <2>5, SameStatus DEF IInv
    <2>6. CASE status[g] # "failed"
      <3>1. Promise!GiveUp(g)
        BY <2>2, <2>3, <2>4, <2>6 DEF Unfinished, Promise!GiveUp
      <3>2. QED
        BY <3>1 DEF Promise!PromiseNext, Promise!PromiseStep
    <2>7. QED
      BY <2>5, <2>6
  <1>7. ASSUME NEW t \in Thread, GrantRefund(t)
        PROVE  still \/ Promise!PromiseNext
    <2>1. PICK g \in Gen : g = job[t].gen /\ ThreadInv(t) /\ tool[g] \in Tools
      BY <1>7, AtRow DEF GrantRefund, At
    <2>2. tool[g] # "free" /\ (status[g] = "failed" \/ (~Timely(g) /\ status[g] = "completed"))
      BY <1>7, <2>1 DEF ThreadInv, GrantRefund, At
    <2>3. ~Timely(g) => Promise!Slow(g)
      BY <2>1 DEF Timely, Tools, Promise!Slow
    <2>4. CASE refund[g] = "none"
      <3>1. Promise!Return(g)
        BY <1>7, <2>1, <2>2, <2>3, <2>4 DEF GrantRefund, Promise!Return
      <3>2. QED
        BY <3>1 DEF Promise!PromiseNext, Promise!PromiseStep
    <2>5. CASE refund[g] # "none"
      BY <1>7, <2>1, <2>5 DEF GrantRefund
    <2>6. QED
      BY <2>4, <2>5
  <1>8. ASSUME NEW t \in Thread, GrantDispute(t)
        PROVE  still \/ Promise!PromiseNext
    <2>1. PICK g \in Gen : g = job[t].gen /\ ThreadInv(t) /\ tool[g] \in Tools
      BY <1>8, AtRow DEF GrantDispute, At
    <2>2. tool[g] # "free" /\ (status[g] = "completed" \/ (~Timely(g) /\ status[g] = "failed"))
      BY <1>8, <2>1 DEF ThreadInv, GrantDispute, At
    <2>3. ~Timely(g) => Promise!Slow(g)
      BY <2>1 DEF Timely, Tools, Promise!Slow
    <2>4. CASE refund[g] = "none"
      <3>1. Promise!Concede(g)
        BY <1>8, <2>1, <2>2, <2>3, <2>4 DEF GrantDispute, Promise!Concede
      <3>2. QED
        BY <3>1 DEF Promise!PromiseNext, Promise!PromiseStep
    <2>5. CASE refund[g] # "none"
      BY <1>8, <2>1, <2>5 DEF GrantDispute
    <2>6. QED
      BY <2>4, <2>5
  <1>9. ASSUME NEW t \in Thread, Progress(t)
        PROVE  still \/ Promise!PromiseNext
    <2>1. CASE CheckQuota(t) \/ CheckWallet(t) \/ Deduct(t) \/ Count(t)
      BY <2>1 DEF CheckQuota, CheckWallet, Deduct, Count, rows
    <2>2. CASE DispatchGeneration(t) \/ PickJob(t) \/ Route(t)
      BY <2>2 DEF DispatchGeneration, PickJob, Route, rows
    <2>3. QED
      BY <1>3, <1>4, <1>5, <1>6, <1>7, <1>8, <1>9, <2>1, <2>2 DEF Progress
  <1>10. ASSUME NEW t \in Thread, NEW g \in Gen, Arrival(t, g)
         PROVE  still
    BY <1>10 DEF Arrival, Request, RunQueue, ListStale, DisputeGeneration, rows
  <1>11. ASSUME NEW g \in Gen, ExpireAsset(g)
         PROVE  Promise!PromiseNext
    <2>1. Promise!Discard(g)
      BY <1>11 DEF ExpireAsset, SetStatus, Promise!Discard
    <2>2. QED
      BY <2>1 DEF Promise!PromiseNext, Promise!PromiseStep
  <1>12. ASSUME NEW g \in Gen, Age(g) PROVE still
    BY <1>12 DEF Age
  <1>13. CASE Crash
    BY <1>1, <1>13 DEF Crash, rows
  <1>14. QED
    BY <1>1, <1>2, <1>9, <1>10, <1>11, <1>12, <1>13 DEF Next

\* Handlers, queue, workers, sweeps, disputes and restarts implement the promise.
THEOREM KeepsPromise == Spec => RefinesPromise
  <1>1. Init => Promise!PromiseInit
    BY InitPromise
  <1>2. IInv /\ [Next]_vars => [Promise!PromiseNext]_(Promise!promiseVars)
    BY StepPromise
  <1>3. QED
    BY <1>1, <1>2, Inductive, PTL DEF Spec, RefinesPromise, Promise!PromiseSpec
==============================================================================
