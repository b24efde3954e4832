------------------------------- MODULE Ledger -------------------------------
(***************************************************************************)
(* What the order service promises about money, with no word about who     *)
(* confirms, corrects, edits or cancels: every order posts one entry at    *)
(* most once, a posted entry is reversed at most once and by exactly the   *)
(* numbers it was posted with, each fee lands in the month in which the    *)
(* entry is posted or reversed, and nothing else but a manual adjustment   *)
(* moves a balance.  Orders implements this module (OrdersProofs proves    *)
(* it, the runs of MCOrders check it).                                     *)
(***************************************************************************)
EXTENDS Integers

CONSTANTS
  Orders,     \* order ids
  Members,    \* membership ids
  Amounts,    \* whole dollars two parties may agree on
  Fees,       \* whole soums a party may have taken
  Months,     \* Tashkent months
  None        \* no entry

VARIABLES
  entry,      \* the entry an order has posted, or None
  reversed,   \* the orders whose entry has been reversed
  balance,    \* employee_balances.balance_usd
  profit,     \* member_profit_periods.profit_uzs
  month       \* the current month

vars == <<entry, reversed, balance, profit, month>>

Entry == [giver : Members, receiver : Members, amount : Amounts,
          giverFee : Fees, receiverFee : Fees]

(* What entry e adds to the balance and to the profit of member m. *)
BalanceEffect(e, m) ==
  (IF m = e.giver THEN e.amount ELSE 0) - (IF m = e.receiver THEN e.amount ELSE 0)

ProfitEffect(e, m) ==
  (IF m = e.giver THEN e.giverFee ELSE 0) + (IF m = e.receiver THEN e.receiverFee ELSE 0)

Init ==
  /\ entry = [o \in Orders |-> None]
  /\ reversed = {}
  /\ balance = [m \in Members |-> 0]
  /\ profit = [m \in Members |-> [k \in Months |-> 0]]
  /\ month \in Months

Post(o, e) ==
  /\ entry[o] = None
  /\ e.giver # e.receiver
  /\ entry' = [entry EXCEPT ![o] = e]
  /\ balance' = [m \in Members |-> balance[m] + BalanceEffect(e, m)]
  /\ profit' = [m \in Members |->
                  [profit[m] EXCEPT ![month] = @ + ProfitEffect(e, m)]]
  /\ UNCHANGED <<reversed, month>>

Reverse(o) ==
  /\ entry[o] # None
  /\ o \notin reversed
  /\ reversed' = reversed \cup {o}
  /\ balance' = [m \in Members |-> balance[m] - BalanceEffect(entry[o], m)]
  /\ profit' = [m \in Members |->
                  [profit[m] EXCEPT ![month] = @ - ProfitEffect(entry[o], m)]]
  /\ UNCHANGED <<entry, month>>

Adjust(m) ==
  /\ balance' \in [Members -> Int]
  /\ \A n \in Members \ {m} : balance'[n] = balance[n]
  /\ UNCHANGED <<entry, reversed, profit, month>>

NextMonth ==
  /\ month' \in Months
  /\ month' > month
  /\ UNCHANGED <<entry, reversed, balance, profit>>

Next ==
  \/ \E o \in Orders : \/ \E e \in Entry : Post(o, e)
                       \/ Reverse(o)
  \/ \E m \in Members : Adjust(m)
  \/ NextMonth

Spec == Init /\ [][Next]_vars
=============================================================================
