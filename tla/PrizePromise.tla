----------------------------- MODULE PrizePromise -----------------------------
(***************************************************************************)
(* What the prize services promise of one prize, without threads, retries  *)
(* or fulfilment statuses: how a claim moves, and when value may leave the *)
(* company for it.                                                         *)
(***************************************************************************)
CONSTANT Prize

VARIABLES
    kind,    \* prize type, "none" until the prize is won
    mode,    \* "AUTO" prizes are provisioned without a claim
    claim,   \* where the claim stands
    linked,  \* the winner has a verified MoMo number
    paid     \* value has reached the winner

vars == <<kind, mode, claim, linked, paid>>

Open    == "PENDING"
Review  == {"PENDING_ADMIN_REVIEW", "APPROVED", "REJECTED"}
Cash    == "momo_cash"
Digital == "digital"

\* A digital prize needs a won claim unless the admin chose AUTO; cash needs a
\* verified wallet or a claim that reached review; nothing else is ever paid.
Authorised(p) ==
    \/ kind[p] = Digital /\ (mode[p] = "AUTO" \/ claim[p] = "CLAIMED")
    \/ kind[p] = Cash /\ (linked \/ claim[p] \in Review)

Init ==
    /\ kind  = [p \in Prize |-> "none"]
    /\ mode  = [p \in Prize |-> "MANUAL"]
    /\ claim = [p \in Prize |-> Open]
    /\ linked \in BOOLEAN
    /\ paid  = [p \in Prize |-> FALSE]

Win(p) ==
    /\ kind[p] = "none"
    /\ \E k \in {Digital, Cash, "physical", "pulse_points", "try_again"},
          m \in {"MANUAL", "AUTO"} :
          /\ kind'  = [kind EXCEPT ![p] = k]
          /\ mode'  = [mode EXCEPT ![p] = m]
          /\ claim' = [claim EXCEPT ![p] =
                          IF k \in {"pulse_points", "try_again"} THEN "CLAIMED" ELSE Open]
    /\ UNCHANGED <<linked, paid>>

\* An open claim is taken once: won, sent to review or expired, for good.
Take(p) ==
    /\ claim[p] = Open
    /\ \/ kind[p] \in {Digital, Cash} /\ claim' = [claim EXCEPT ![p] = "CLAIMED"]
       \/ kind[p] \in {Cash, "physical"}
             /\ claim' = [claim EXCEPT ![p] = "PENDING_ADMIN_REVIEW"]
       \/ claim' = [claim EXCEPT ![p] = "EXPIRED"]
    /\ UNCHANGED <<kind, mode, linked, paid>>

\* A claim in review is decided; two admins at once may overrule each other.
Decide(p) ==
    /\ claim[p] \in Review
    /\ \E verdict \in {"APPROVED", "REJECTED"} : claim' = [claim EXCEPT ![p] = verdict]
    /\ UNCHANGED <<kind, mode, linked, paid>>

Link == linked' = TRUE /\ UNCHANGED <<kind, mode, claim, paid>>

Deliver(p) ==
    /\ Authorised(p)
    /\ paid' = [paid EXCEPT ![p] = TRUE]
    /\ UNCHANGED <<kind, mode, claim, linked>>

Next == Link \/ \E p \in Prize : Win(p) \/ Take(p) \/ Decide(p) \/ Deliver(p)

Spec == Init /\ [][Next]_vars
=============================================================================
