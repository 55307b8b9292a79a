-------------------------- MODULE GenerationPromise --------------------------
(***************************************************************************)
(* What the studio promises for one generation, without handlers, queue,   *)
(* workers, sweeps or restarts: the price is taken when it is accepted;    *)
(* it is worked on, and completed or failed; points come back once at      *)
(* most, for a failure or for a dispute.  A tool that answers in time      *)
(* never both delivers and returns the price.  A slow one may: the sweep   *)
(* gives it up before its worker does.                                     *)
(***************************************************************************)
EXTENDS Integers

CONSTANTS
    Gen,             \* rows of the ai_generations table
    Cost,            \* price of a tool that is not free
    RefundPart,      \* what a successful dispute returns of it
    Balances         \* Pulse Points the wallet may start with

Tools == {"free", "paid", "slow", "site"}

VARIABLES
    tool,            \* the tool of each generation, "none" before it is accepted
    status,          \* status of the row: "none" before, "gone" once deleted
    refund,          \* why points were returned, "none" while they were not
    points           \* the user's Pulse Points

promiseVars == <<tool, status, refund, points>>

Price(k) == IF k = "free" THEN 0 ELSE Cost
Slow(g) == tool[g] = "slow"

PromiseInit ==
    /\ tool = [g \in Gen |-> "none"]
    /\ status = [g \in Gen |-> "none"]
    /\ refund = [g \in Gen |-> "none"]
    /\ points \in Balances

Accept(g, k) ==
    /\ status[g] = "none" /\ points >= Price(k)
    /\ tool' = [tool EXCEPT ![g] = k]
    /\ status' = [status EXCEPT ![g] = "pending"]
    /\ points' = points - Price(k)
    /\ UNCHANGED refund

Work(g) ==
    /\ status[g] = "pending"
    /\ status' = [status EXCEPT ![g] = "processing"]
    /\ UNCHANGED <<tool, refund, points>>

Deliver(g) ==
    /\ status[g] \in {"pending", "processing"} \/ (Slow(g) /\ status[g] = "failed")
    /\ status' = [status EXCEPT ![g] = "completed"]
    /\ UNCHANGED <<tool, refund, points>>

GiveUp(g) ==
    /\ status[g] \in {"pending", "processing"} \/ (Slow(g) /\ status[g] = "completed")
    /\ status' = [status EXCEPT ![g] = "failed"]
    /\ UNCHANGED <<tool, refund, points>>

Return(g) ==
    /\ status[g] = "failed" \/ (Slow(g) /\ status[g] = "completed")
    /\ tool[g] # "free" /\ refund[g] = "none"
    /\ refund' = [refund EXCEPT ![g] = "failure"]
    /\ points' = points + Cost
    /\ UNCHANGED <<tool, status>>

Concede(g) ==
    /\ status[g] = "completed" \/ (Slow(g) /\ status[g] = "failed")
    /\ tool[g] # "free" /\ refund[g] = "none"
    /\ refund' = [refund EXCEPT ![g] = "dispute"]
    /\ points' = points + RefundPart
    /\ UNCHANGED <<tool, status>>

Discard(g) ==
    /\ status[g] = "completed"
    /\ status' = [status EXCEPT ![g] = "gone"]
    /\ UNCHANGED <<tool, refund, points>>

PromiseStep(g) ==
    \/ Work(g) \/ Deliver(g) \/ GiveUp(g) \/ Return(g) \/ Concede(g) \/ Discard(g)

PromiseNext == \E g \in Gen : PromiseStep(g) \/ \E k \in Tools : Accept(g, k)

PromiseSpec == PromiseInit /\ [][PromiseNext]_promiseVars
==============================================================================
