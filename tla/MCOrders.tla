------------------------------ MODULE MCOrders ------------------------------
(***************************************************************************)
(* Instances of module Orders for TLC.                                     *)
(***************************************************************************)
EXTENDS OrdersAccounting, TLC

CONSTANTS own, a, b, c, a2, o1, o2, d1, d2

(* Four memberships of three users: a2 is user A invited again. *)
MCUserOf == own :> "O" @@ a :> "A" @@ b :> "B" @@ a2 :> "A"

(* One membership per user, named alike. *)
MCOneEach == [m \in Members |-> m]

(* Employees, orders and details are interchangeable where every user has  *)
(* one membership: nothing but Owner is told apart.                        *)
Alike == Permutations({a, b, c}) \cup Permutations({o1, o2}) \cup Permutations({d1, d2})

(* A group whose members are settled from the start and stay so: every     *)
(* order operation and every adjustment, on more orders.                   *)
StaffedInit ==
  /\ role = [m \in Members |-> IF m = Owner THEN "manager" ELSE "employee"]
  /\ order = [o \in Orders |-> NoOrder]
  /\ confirmation = [o \in Orders |-> [m \in Members |-> None]]
  /\ cancellation = [o \in Orders |-> NoCancellation]
  /\ balance = [m \in Members |-> 0]
  /\ profit = [m \in Members |-> [k \in Months |-> 0]]
  /\ adjusted = [m \in Members |-> 0]
  /\ month = 1

StaffedSpec == StaffedInit /\ [][OrderStep \/ BalanceStep \/ NextMonth]_vars
=============================================================================
