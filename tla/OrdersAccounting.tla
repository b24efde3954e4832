-------------------------- MODULE OrdersAccounting --------------------------
(***************************************************************************)
(* The books of module Orders in closed form: sums over all orders.        *)
(***************************************************************************)
EXTENDS Orders, Functions, FiniteSets

ASSUME OrdersAreFinite == IsFiniteSet(Orders)

(* The confirmed amount and the fee of m that order o contributes while it *)
(* is completed (a reversed order contributes nothing).                    *)
Contribution(o, m) ==
  LET e == AgreedEntry(o) IN
  IF order[o].status # "completed" THEN 0
  ELSE (IF m = e.giver THEN e.amount ELSE 0) - (IF m = e.receiver THEN e.amount ELSE 0)

FeeContribution(o, m) ==
  IF order[o].status # "completed" THEN 0 ELSE FeeOf(confirmation[o], m)

(* The books add up: every balance is what its manual adjustments and the   *)
(* orders that are completed now come to, whatever was confirmed,          *)
(* corrected, edited and reversed on the way; and a member's profit over   *)
(* all months is the sum of the fees of the completed orders, also when    *)
(* orders are reversed in a later month (effects.go).                      *)
BooksAddUp ==
  \A m \in Members :
    /\ balance[m] = adjusted[m] + SumFunction([o \in Orders |-> Contribution(o, m)])
    /\ SumFunction(profit[m]) = SumFunction([o \in Orders |-> FeeContribution(o, m)])
=============================================================================
