--------------------------- MODULE PurchasePromise ---------------------------
(***************************************************************************)
(* What the platform promises for the money of a direct recharge, without  *)
(* webhooks, callbacks, goroutines, statuses or retries: what is bought is *)
(* paid for and bought once; a reward follows a delivery; and no recharge  *)
(* is both rewarded and refunded.                                          *)
(***************************************************************************)
CONSTANT Recharge

VARIABLES
    paid,       \* the subscriber's payment has succeeded
    tried,      \* the provider has been asked to deliver
    order,      \* where the provider's order stands
    rewarded,   \* the points of the recharge are in the wallet
    refunded    \* the payment has been returned

promiseVars == <<paid, tried, order, rewarded, refunded>>

Orders == {"none", "pending", "delivered", "refused"}

PromiseInit ==
    /\ paid = [r \in Recharge |-> FALSE]
    /\ tried = [r \in Recharge |-> FALSE]
    /\ order = [r \in Recharge |-> "none"]
    /\ rewarded = [r \in Recharge |-> FALSE]
    /\ refunded = [r \in Recharge |-> FALSE]

Pay(r) ==
    /\ paid' = [paid EXCEPT ![r] = TRUE]
    /\ UNCHANGED <<tried, order, rewarded, refunded>>

\* The one attempt to buy; the order may be lost on its way.
Buy(r) ==
    /\ paid[r] /\ ~tried[r]
    /\ tried' = [tried EXCEPT ![r] = TRUE]
    /\ \E o \in Orders : order' = [order EXCEPT ![r] = o]
    /\ UNCHANGED <<paid, rewarded, refunded>>

\* The provider decides on an order it has accepted.
Settle(r) ==
    /\ order[r] = "pending"
    /\ \E o \in {"delivered", "refused"} : order' = [order EXCEPT ![r] = o]
    /\ UNCHANGED <<paid, tried, rewarded, refunded>>

Reward(r) ==
    /\ order[r] = "delivered" /\ ~rewarded[r] /\ ~refunded[r]
    /\ rewarded' = [rewarded EXCEPT ![r] = TRUE]
    /\ UNCHANGED <<paid, tried, order, refunded>>

Refund(r) ==
    /\ tried[r] /\ ~rewarded[r] /\ ~refunded[r]
    /\ refunded' = [refunded EXCEPT ![r] = TRUE]
    /\ UNCHANGED <<paid, tried, order, rewarded>>

PromiseNext ==
    \E r \in Recharge : Pay(r) \/ Buy(r) \/ Settle(r) \/ Reward(r) \/ Refund(r)

PromiseSpec == PromiseInit /\ [][PromiseNext]_promiseVars
==============================================================================
