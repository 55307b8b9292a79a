---------------------------- MODULE RewardPromise ----------------------------
(***************************************************************************)
(* What the loyalty programme promises a subscriber, with the handlers,    *)
(* the row locks and the retries taken away.  Every recharge is rewarded   *)
(* at most once, in one indivisible step; a spin costs one credit, which   *)
(* must be there; points and credits come from nowhere else.               *)
(***************************************************************************)
EXTENDS Integers

CONSTANT Recharge        \* the recharges of the subscriber

VARIABLES
    rewarded,            \* the recharges whose reward has been credited
    points,              \* the subscriber's Pulse Points
    credits              \* the subscriber's spin credits

promiseVars == <<rewarded, points, credits>>

PromiseInit == rewarded = {} /\ points = 0 /\ credits = 0

\* A recharge is rewarded: for the first time, and never with less than nothing.
Reward(r) ==
    /\ r \notin rewarded
    /\ rewarded' = rewarded \cup {r}
    /\ points' >= points
    /\ credits' >= credits

\* A spin uses one credit; the prize may be points.
Spin ==
    /\ credits > 0
    /\ credits' = credits - 1
    /\ points' >= points
    /\ UNCHANGED rewarded

PromiseNext == Spin \/ \E r \in Recharge : Reward(r)

PromiseSpec == PromiseInit /\ [][PromiseNext]_promiseVars
==============================================================================
