--------------------------- MODULE MCTransactions ---------------------------
(***************************************************************************)
(* Instances of module Transactions for TLC.                               *)
(***************************************************************************)
EXTENDS Transactions, FiniteSetsExt, TLC

CONSTANTS
  own, a, b, o1, o2, c1, c2, c3, p, q,
  Stages  \* how far an order may have come when the requests arrive

(* One membership per user, named alike. *)
MCUserOf == [m \in Members |-> m]

(* Two ways to name the same two customers, and one. *)
MCDetails == {<<p, q>>, <<q, p>>}
MCOneDetail == {<<p, q>>}

(* Employees, orders and connections are interchangeable. *)
Alike == Permutations({a, b}) \cup Permutations({o1, o2}) \cup Permutations({c1, c2, c3})

ASSUME Stages \subseteq {"absent", "pending", "confirmed", "completed", "requested"}

NoEffects == {"absent", "pending", "confirmed"}

StageOrder(stage, g, r) ==
  IF stage = "absent" THEN NoOrder ELSE
  [status |-> IF stage \in NoEffects THEN "pending" ELSE "completed",
   creator |-> UserOf[Owner], giver |-> g, receiver |-> r, amount |-> 1, details |-> <<p, q>>,
   completedAt |-> IF stage \in NoEffects THEN 0 ELSE 1]

StageConfirmers(stage, g, r) ==
  CASE stage \in {"absent", "pending"} -> {}
    [] stage = "confirmed" -> {g}
    [] stage \in {"completed", "requested"} -> {g, r}

StageMoney(stage, g, r, m) ==
  IF stage \in NoEffects \/ m \notin {g, r} THEN 0 ELSE IF m = g THEN 1 ELSE -1

StageFee(stage, g, r, m) ==
  IF stage \in NoEffects \/ m \notin {g, r} THEN 0 ELSE 1

(* Everyone is employed, each order is at some stage between some parties. *)
SeededInit ==
  /\ Idle
  /\ role = [m \in Members |-> IF m = Owner THEN "manager" ELSE "employee"]
  /\ \E stage \in [Orders -> Stages], giver, receiver \in [Orders -> Members \ {Owner}] :
       /\ \A o \in Orders : giver[o] # receiver[o]
       /\ order = [o \in Orders |-> StageOrder(stage[o], giver[o], receiver[o])]
       /\ confirmation =
            [o \in Orders |->
               [m \in Members |->
                  IF m \in StageConfirmers(stage[o], giver[o], receiver[o])
                  THEN [amount |-> 1, fee |-> 1] ELSE None]]
       /\ cancellation =
            [o \in Orders |-> IF stage[o] = "requested"
                              THEN [status |-> "pending", requester |-> giver[o], responder |-> None]
                              ELSE NoCancellation]
       /\ balance =
            [m \in Members |->
               MapThenSumSet(LAMBDA o : StageMoney(stage[o], giver[o], receiver[o], m), Orders)]
       /\ profit =
            [m \in Members |->
               [k \in Months |->
                  MapThenSumSet(LAMBDA o : StageFee(stage[o], giver[o], receiver[o], m), Orders)]]
  /\ adjusted = [m \in Members |-> 0]
  /\ month = 1

SeededSpec == SeededInit /\ [][TxNext]_allVars

(* The requests that are worth running side by side: all that change one   *)
(* order and the money of its parties, or those that complete, reverse and *)
(* answer for two orders next to those that remove a member.               *)
Alone == \E o \in Orders : order[o].status = "absent"

OrderOps == {"edit", "confirm", "request", "approve", "reject", "adjust"}
MemberOps == {"confirm", "approve", "reject", "remove", "role"}

Chosen ==
  \A c \in Conns : work[c] # None => work[c].in.op \in IF Alone THEN OrderOps ELSE MemberOps

ChosenInit ==
  /\ SeededInit
  /\ \E o \in Orders : order[o].status # "absent"
  /\ ~Alone => \A o \in Orders : \/ Confirmers(confirmation[o]) # {} /\ order[o].status = "pending"
                                 \/ OpenRequest(o)

(* Only a Begin takes up a request. *)
ChosenNext ==
  \E c \in Conns : (Begin(c) /\ Chosen') \/ Work(c) \/ Abort(c) \/ DeadlockVictim(c)

ChosenSpec == ChosenInit /\ [][ChosenNext]_allVars

(* Requests that meet: all orders have come equally far. *)
AlongsideInit == SeededInit /\ \A o, n \in Orders : order[o].status = order[n].status

FairSeededSpec == AlongsideInit /\ [][TxNext]_allVars /\ Fairness
=============================================================================
