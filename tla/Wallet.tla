------------------------------- MODULE Wallet -------------------------------
(***************************************************************************)
(* What autoscaling promises about money (README.md:18, "transacciones     *)
(* seguras SQL atómicas ... deduct_balance + rollout autoscale"): a boost  *)
(* and its price happen together or not at all, and nobody boosts on       *)
(* credit.                                                                 *)
(***************************************************************************)
EXTENDS Naturals

CONSTANTS Users, Start, Cost, Amounts

VARIABLES
    money,      \* what each user has
    boosts      \* boosts each user has had

Init ==
    /\ money = Start
    /\ boosts = [u \in Users |-> 0]

Pay(u) == \E a \in Amounts :
    /\ money' = [money EXCEPT ![u] = @ + a]
    /\ UNCHANGED boosts

Boost(u) ==
    /\ money[u] >= Cost
    /\ money' = [money EXCEPT ![u] = @ - Cost]
    /\ boosts' = [boosts EXCEPT ![u] = @ + 1]

Next == \E u \in Users : Pay(u) \/ Boost(u)

Spec == Init /\ [][Next]_<<money, boosts>>

=============================================================================
