------------------------------- MODULE Orders -------------------------------
(***************************************************************************)
(* The order life cycle of one group (internal/order) together with the    *)
(* membership operations that read or write the same rows                  *)
(* (internal/group: AdjustBalance, RemoveMember, EditMember's role change, *)
(* accepting an invitation).                                               *)
(*                                                                         *)
(* One action is one committed transaction.  That is what the code         *)
(* provides between operations on one order: Confirm, Edit and the two     *)
(* cancellation operations first take the order's row FOR UPDATE           *)
(* (lockOrder), balance and profit rows are only changed by single         *)
(* statements that add to the stored value or under the row's own lock.    *)
(* It is NOT what the code provides between an order operation and a       *)
(* membership operation; Transactions models both statement by statement.  *)
(*                                                                         *)
(* A membership id belongs to one user for ever; a user who was removed    *)
(* and is invited again gets a new membership id.                          *)
(***************************************************************************)
EXTENDS Integers

CONSTANTS
  Members,     \* membership ids (group_members.id)
  UserOf,      \* group_members.user_id, a function of the membership id
  Owner,       \* the membership with is_owner
  Orders,      \* order ids
  Amounts,     \* whole dollars an input may carry
  Fees,        \* whole soums an input may carry
  Details,     \* the fields nothing depends on: customer phones, estimated fee
  Adjustments, \* values of new_balance_usd
  MaxMonth,    \* BOUND: the Tashkent months 1..MaxMonth
  None         \* NULL

ASSUME OrdersAssumption ==
  /\ Owner \in Members
  /\ None \notin Members
  /\ None \notin [amount : Amounts, fee : Fees]
  /\ None \notin [giver : Members, receiver : Members, amount : Amounts,
                  giverFee : Fees, receiverFee : Fees]
  /\ Amounts \subseteq Nat \ {0}
  /\ Fees \subseteq Nat
  /\ Adjustments \subseteq Int
  /\ MaxMonth \in Nat \ {0}

VARIABLES
  role,         \* [Members -> Roles, or "absent" before and "removed" after]
  order,        \* [Orders -> Order]
  confirmation, \* live order_confirmations: [Orders -> [Members -> Confirmation or None]]
  cancellation, \* the order's latest order_cancellations row
  balance,      \* employee_balances.balance_usd
  profit,       \* member_profit_periods.profit_uzs by month
  adjusted,     \* sum of balance_adjustments.amount_usd
  month         \* the current month in Asia/Tashkent

orderVars == <<order, confirmation, cancellation>>
moneyVars == <<balance, profit, adjusted>>
vars == <<role, order, confirmation, cancellation, balance, profit, adjusted, month>>

Users == {UserOf[m] : m \in Members}
Months == 1..MaxMonth
Roles == {"employee", "manager", "investor"}
Confirmation == [amount : Amounts, fee : Fees]

Order == [status : {"absent", "pending", "completed", "cancelled"},
          creator : Users \cup {None},
          giver : Members \cup {None}, receiver : Members \cup {None},
          amount : Amounts \cup {0}, details : Details \cup {None},
          completedAt : Months \cup {0}]   \* 0 is NULL; never cleared once set

NoOrder == [status |-> "absent", creator |-> None, giver |-> None,
            receiver |-> None, amount |-> 0, details |-> None, completedAt |-> 0]

Cancellation == [status : {"none", "pending", "approved", "rejected"},
                 requester : Members \cup {None}, responder : Members \cup {None}]

NoCancellation == [status |-> "none", requester |-> None, responder |-> None]

-----------------------------------------------------------------------------
(* Who may do what. *)

IsActive(m) == role[m] \in Roles

IsManager(m) == m = Owner \/ role[m] = "manager"

IsParty(m, o) == m \in {order[o].giver, order[o].receiver}

CanSee(m, o) == role[m] # "employee" \/ IsParty(m, o)

CanWrite(m, g, r) ==
  \/ IsManager(m)
  \/ role[m] = "employee" /\ UserOf[m] \in {UserOf[g], UserOf[r]}

CanRemove(m, t) ==
  /\ t # Owner
  /\ t # m
  /\ IF role[t] = "employee" THEN IsManager(m) ELSE m = Owner

(* What an order operation finds under the order's row lock. *)
Confirmers(conf) == {m \in Members : conf[m] # None}

OpenRequest(o) == cancellation[o].status = "pending"

Untouched(o) == order[o].status = "pending" /\ Confirmers(confirmation[o]) = {}

(* An order that keeps its parties in the group and in the employee role. *)
ActiveFor(o, m) ==
  /\ IsParty(m, o)
  /\ order[o].status = "pending" \/ OpenRequest(o)

Settled(m) == balance[m] = 0 /\ \A o \in Orders : ~ActiveFor(o, m)

-----------------------------------------------------------------------------
(* The money effects of an order, sign +1 on completion and -1 on reversal. *)

AddToBalances(sign, g, r, amount) ==
  balance' = [m \in Members |->
                balance[m] + sign * (  (IF m = g THEN amount ELSE 0)
                                     - (IF m = r THEN amount ELSE 0))]

FeeOf(conf, m) == IF conf[m] = None THEN 0 ELSE conf[m].fee

AddToProfits(sign, conf) ==
  profit' = [m \in Members |->
               [profit[m] EXCEPT ![month] = @ + sign * FeeOf(conf, m)]]

CompleteOrder(o, conf, amount) ==
  /\ order' = [order EXCEPT ![o] = [@ EXCEPT !.status = "completed", !.completedAt = month]]
  /\ AddToBalances(1, order[o].giver, order[o].receiver, amount)
  /\ AddToProfits(1, conf)

(* Mutant: agreement needs equal fees as well. *)
SettleOnEqualFees(o, conf) ==
  \/ /\ \A first, second \in Confirmers(conf) : first # second => conf[first] # conf[second]
     /\ UNCHANGED <<order, balance, profit>>
  \/ \E first, second \in Confirmers(conf) :
       /\ first # second /\ conf[first] = conf[second]
       /\ CompleteOrder(o, conf, conf[first].amount)

(* The rows come back unordered: any of them may be the first. *)
Settle(o, conf) ==
  \/ /\ ~\E first, second \in Confirmers(conf) : first # second
     /\ UNCHANGED <<order, balance, profit>>
  \/ \E first, second \in Confirmers(conf) :
       /\ first # second
       /\ \/ /\ conf[first].amount # conf[second].amount
             /\ UNCHANGED <<order, balance, profit>>
          \/ /\ conf[first].amount = conf[second].amount
             /\ CompleteOrder(o, conf, conf[first].amount)

(* Mutant: profits are not taken back. *)
ReverseBalancesOnly(o, conf) ==
  \E first \in Confirmers(conf) :
    /\ AddToBalances(-1, order[o].giver, order[o].receiver, conf[first].amount)
    /\ UNCHANGED profit

(* Mutant: the order's own amount is reversed, not the confirmed one. *)
ReverseOrderAmount(o, conf) ==
  /\ AddToBalances(-1, order[o].giver, order[o].receiver, order[o].amount)
  /\ AddToProfits(-1, conf)

ReverseCompletion(o, conf) ==
  \E first, second \in Confirmers(conf) :
    /\ first # second
    /\ Confirmers(conf) = {first, second}
    /\ AddToBalances(-1, order[o].giver, order[o].receiver, conf[first].amount)
    /\ AddToProfits(-1, conf)

MarkCancelled(o) == order' = [order EXCEPT ![o] = [@ EXCEPT !.status = "cancelled"]]

-----------------------------------------------------------------------------
(* The order operations of actor m. *)

Create(m, o, g, r, amount, details) ==
  /\ order[o].status = "absent"
  /\ UserOf[g] # UserOf[r]
  /\ IsActive(m) /\ CanWrite(m, g, r)
  /\ role[g] = "employee" /\ role[r] = "employee"
  /\ order' = [order EXCEPT ![o] =
                 [status |-> "pending", creator |-> UserOf[m], giver |-> g, receiver |-> r,
                  amount |-> amount, details |-> details, completedAt |-> 0]]
  /\ UNCHANGED <<role, confirmation, cancellation, balance, profit, adjusted, month>>

(* Mutant: a new party may be any active member. *)
KeepsOrResolvesAnyone(old, new) ==
  new = old \/ (UserOf[new] # UserOf[old] /\ IsActive(new))

(* A party whose user is unchanged keeps its membership; another user must *)
(* be an active employee now.                                              *)
KeepsOrResolves(old, new) ==
  \/ new = old
  \/ UserOf[new] # UserOf[old] /\ role[new] = "employee"

(* Mutant: the confirmations are not cleared. *)
EditKeepsConfirmations(m, o, g, r, amount, details) ==
  /\ IsActive(m) /\ CanSee(m, o) /\ CanWrite(m, g, r)
  /\ order[o].status = "pending" /\ ~OpenRequest(o)
  /\ UserOf[g] # UserOf[r]
  /\ KeepsOrResolves(order[o].giver, g) /\ KeepsOrResolves(order[o].receiver, r)
  /\ order' = [order EXCEPT ![o] = [@ EXCEPT !.giver = g, !.receiver = r,
                                             !.amount = amount, !.details = details]]
  /\ UNCHANGED <<role, confirmation, cancellation, balance, profit, adjusted, month>>

Edit(m, o, g, r, amount, details) ==
  /\ IsActive(m) /\ CanSee(m, o)
  /\ order[o].status = "pending"
  /\ ~OpenRequest(o)
  /\ UserOf[g] # UserOf[r]
  /\ CanWrite(m, g, r)
  /\ <<g, r, amount, details>> #
       <<order[o].giver, order[o].receiver, order[o].amount, order[o].details>>
  /\ KeepsOrResolves(order[o].giver, g)
  /\ KeepsOrResolves(order[o].receiver, r)
  /\ order' = [order EXCEPT ![o] = [@ EXCEPT !.giver = g, !.receiver = r,
                                             !.amount = amount, !.details = details]]
  /\ confirmation' = [confirmation EXCEPT ![o] = [n \in Members |-> None]]
  /\ UNCHANGED <<role, cancellation, balance, profit, adjusted, month>>

(* Mutant: requireNoOpenCancellation is not called. *)
ConfirmDespiteRequest(m, o, amount, fee) ==
  /\ IsActive(m) /\ IsParty(m, o)
  /\ order[o].status = "pending"
  /\ LET conf == [confirmation[o] EXCEPT ![m] = [amount |-> amount, fee |-> fee]] IN
       /\ confirmation' = [confirmation EXCEPT ![o] = conf]
       /\ Settle(o, conf)
  /\ UNCHANGED <<role, cancellation, adjusted, month>>

Confirm(m, o, amount, fee) ==
  /\ IsActive(m) /\ CanSee(m, o) /\ IsParty(m, o)
  /\ order[o].status = "pending"
  /\ ~OpenRequest(o)
  /\ LET conf == [confirmation[o] EXCEPT ![m] = [amount |-> amount, fee |-> fee]] IN
       /\ confirmation' = [confirmation EXCEPT ![o] = conf]
       /\ Settle(o, conf)
  /\ UNCHANGED <<role, cancellation, adjusted, month>>

(* An untouched order is cancelled at once by a party or by its creator. *)
CancelImmediately(m, o) ==
  /\ IsActive(m) /\ CanSee(m, o)
  /\ Untouched(o)
  /\ ~OpenRequest(o)
  /\ IsParty(m, o) \/ UserOf[m] = order[o].creator
  /\ cancellation' = [cancellation EXCEPT ![o] =
                        [status |-> "approved", requester |-> m, responder |-> m]]
  /\ MarkCancelled(o)
  /\ UNCHANGED <<role, confirmation, balance, profit, adjusted, month>>

(* Mutant: requireActiveParties is not called. *)
RequestOfAnyParty(m, o) ==
  /\ IsActive(m) /\ IsParty(m, o)
  /\ order[o].status \in {"pending", "completed"} /\ ~OpenRequest(o) /\ ~Untouched(o)
  /\ cancellation' = [cancellation EXCEPT ![o] =
                        [status |-> "pending", requester |-> m, responder |-> None]]
  /\ UNCHANGED <<role, order, confirmation, balance, profit, adjusted, month>>

(* Anything else needs a request, and both parties still in the group. *)
OpenCancellationRequest(m, o) ==
  /\ IsActive(m) /\ IsParty(m, o)
  /\ order[o].status \in {"pending", "completed"}
  /\ ~OpenRequest(o)
  /\ ~Untouched(o)
  /\ IsActive(order[o].giver) /\ IsActive(order[o].receiver)
  /\ cancellation' = [cancellation EXCEPT ![o] =
                        [status |-> "pending", requester |-> m, responder |-> None]]
  /\ UNCHANGED <<role, order, confirmation, balance, profit, adjusted, month>>

CloseRequest(o, status, m) ==
  cancellation' = [cancellation EXCEPT ![o] = [@ EXCEPT !.status = status, !.responder = m]]

RejectCancellation(m, o) ==
  /\ IsActive(m) /\ IsParty(m, o)
  /\ OpenRequest(o)
  /\ CloseRequest(o, "rejected", m)
  /\ UNCHANGED <<role, order, confirmation, balance, profit, adjusted, month>>

(* Mutant: the requester may approve his own request. *)
ApproveByAnyParty(m, o) ==
  /\ IsActive(m) /\ IsParty(m, o) /\ OpenRequest(o)
  /\ CloseRequest(o, "approved", m)
  /\ IF order[o].status = "completed" THEN ReverseCompletion(o, confirmation[o])
                                      ELSE UNCHANGED <<balance, profit>>
  /\ MarkCancelled(o)
  /\ UNCHANGED <<role, confirmation, adjusted, month>>

ApproveCancellation(m, o) ==
  /\ IsActive(m) /\ IsParty(m, o)
  /\ OpenRequest(o)
  /\ cancellation[o].requester # m
  /\ CloseRequest(o, "approved", m)
  /\ IF order[o].status = "completed" THEN ReverseCompletion(o, confirmation[o])
                                      ELSE UNCHANGED <<balance, profit>>
  /\ MarkCancelled(o)
  /\ UNCHANGED <<role, confirmation, adjusted, month>>

-----------------------------------------------------------------------------
(* The membership operations of actor m on membership t. *)

(* Mutant: the new value is recorded instead of the difference. *)
AdjustRecordsValue(m, t, value) ==
  /\ IsActive(m) /\ IsManager(m) /\ role[t] = "employee" /\ value # balance[t]
  /\ balance' = [balance EXCEPT ![t] = value]
  /\ adjusted' = [adjusted EXCEPT ![t] = @ + value]
  /\ UNCHANGED <<role, order, confirmation, cancellation, profit, month>>

AdjustBalance(m, t, value) ==
  /\ IsActive(m) /\ IsManager(m)
  /\ role[t] = "employee"
  /\ value # balance[t]
  /\ balance' = [balance EXCEPT ![t] = value]
  /\ adjusted' = [adjusted EXCEPT ![t] = @ + value - balance[t]]
  /\ UNCHANGED <<role, order, confirmation, cancellation, profit, month>>

RemoveMember(m, t) ==
  /\ IsActive(m) /\ IsActive(t)
  /\ CanRemove(m, t)
  /\ Settled(t)
  /\ role' = [role EXCEPT ![t] = "removed"]
  /\ UNCHANGED <<order, confirmation, cancellation, balance, profit, adjusted, month>>

ChangeRole(m, t, r) ==
  /\ m = Owner /\ IsActive(m) /\ IsActive(t)
  /\ t # Owner
  /\ role[t] # r
  /\ role[t] = "employee" => Settled(t)
  /\ role' = [role EXCEPT ![t] = r]
  /\ UNCHANGED <<order, confirmation, cancellation, balance, profit, adjusted, month>>

(* An accepted invitation: one live membership per user, an employee's *)
(* balance row starts at 0.                                            *)
Join(t, r) ==
  /\ role[t] = "absent"
  /\ \A n \in Members : UserOf[n] = UserOf[t] => ~IsActive(n)
  /\ role' = [role EXCEPT ![t] = r]
  /\ UNCHANGED <<order, confirmation, cancellation, balance, profit, adjusted, month>>

NextMonth ==
  /\ month < MaxMonth
  /\ month' = month + 1
  /\ UNCHANGED <<role, order, confirmation, cancellation, balance, profit, adjusted>>

-----------------------------------------------------------------------------
Init ==
  /\ role = [m \in Members |-> IF m = Owner THEN "manager" ELSE "absent"]
  /\ order = [o \in Orders |-> NoOrder]
  /\ confirmation = [o \in Orders |-> [m \in Members |-> None]]
  /\ cancellation = [o \in Orders |-> NoCancellation]
  /\ balance = [m \in Members |-> 0]
  /\ profit = [m \in Members |-> [k \in Months |-> 0]]
  /\ adjusted = [m \in Members |-> 0]
  /\ month = 1

OrderStep ==
  \E m \in Members, o \in Orders :
    \/ \E g, r \in Members, a \in Amounts, d \in Details :
         \/ Create(m, o, g, r, a, d)
         \/ Edit(m, o, g, r, a, d)
    \/ \E a \in Amounts, f \in Fees : Confirm(m, o, a, f)
    \/ CancelImmediately(m, o)
    \/ OpenCancellationRequest(m, o)
    \/ RejectCancellation(m, o)
    \/ ApproveCancellation(m, o)

BalanceStep ==
  \E m, t \in Members, v \in Adjustments : AdjustBalance(m, t, v)

MembershipStep ==
  \E t \in Members :
    \/ \E m \in Members : RemoveMember(m, t)
    \/ \E m \in Members, r \in Roles : ChangeRole(m, t, r)
    \/ \E r \in Roles : Join(t, r)

Next == OrderStep \/ BalanceStep \/ MembershipStep \/ NextMonth

Spec == Init /\ [][Next]_vars

-----------------------------------------------------------------------------
(* Properties. *)

TypeOK ==
  /\ role \in [Members -> Roles \cup {"absent", "removed"}]
  /\ order \in [Orders -> Order]
  /\ confirmation \in [Orders -> [Members -> Confirmation \cup {None}]]
  /\ cancellation \in [Orders -> Cancellation]
  /\ balance \in [Members -> Int]
  /\ profit \in [Members -> [Months -> Int]]
  /\ adjusted \in [Members -> Int]
  /\ month \in Months

(* A completed order rests on exactly two live confirmations, one of each  *)
(* of its two different parties, for the same amount: what completion      *)
(* applied and what reverseCompletion insists on finding.                  *)
CompletedAgreed ==
  \A o \in Orders : order[o].status = "completed" =>
    LET g == order[o].giver
        r == order[o].receiver
    IN /\ g # r
       /\ Confirmers(confirmation[o]) = {g, r}
       /\ confirmation[o][g].amount = confirmation[o][r].amount

(* A pending order never rests on two agreeing confirmations: nobody would *)
(* be asked to act again and it would never complete.                      *)
NoAgreementLeftPending ==
  \A o \in Orders : order[o].status = "pending" =>
    \A m, n \in Confirmers(confirmation[o]) :
      m # n => confirmation[o][m].amount # confirmation[o][n].amount

(* An open cancellation request can still be approved: the order is alive, *)
(* both parties are members and the requester is one of them, so the other *)
(* one may answer (requireActiveParties, and requireSettled of a removal). *)
OpenRequestAnswerable ==
  \A o \in Orders : OpenRequest(o) =>
    /\ order[o].status \in {"pending", "completed"}
    /\ cancellation[o].requester \in {order[o].giver, order[o].receiver}
    /\ IsActive(order[o].giver) /\ IsActive(order[o].receiver)

(* Who left the group holds no money and is in no unfinished order, for    *)
(* good: no later operation of others may reach a removed membership.      *)
LeaversStaySettled ==
  \A m \in Members : role[m] = "removed" => Settled(m)

(* Both parties of an unfinished order can still confirm it: they are      *)
(* employees, not merely members.                                          *)
PendingPartiesAreEmployees ==
  \A o \in Orders : order[o].status = "pending" =>
    role[order[o].giver] = "employee" /\ role[order[o].receiver] = "employee"

(* Once somebody confirmed, an order is only cancelled by both parties:    *)
(* one asked and the other one approved.                                   *)
CancelledByBoth ==
  \A o \in Orders :
    order[o].status = "cancelled" /\ Confirmers(confirmation[o]) # {} =>
      {cancellation[o].requester, cancellation[o].responder} =
        {order[o].giver, order[o].receiver}

(* A confirmation that survives a step speaks of the terms that hold after *)
(* it: every edit of parties, amount or details clears both confirmations. *)
ConfirmationsKeepTheirTerms ==
  [][\A o \in Orders :
       Confirmers(confirmation'[o]) \cap Confirmers(confirmation[o]) # {} =>
         \A field \in {"giver", "receiver", "amount", "details"} :
           order'[o][field] = order[o][field]]_vars

(* While a cancellation request is open nothing happens to the order:      *)
(* neither its terms nor its confirmations change before the answer.       *)
OpenRequestFreezes ==
  [][\A o \in Orders :
       OpenRequest(o) /\ cancellation'[o] = cancellation[o] =>
         order'[o] = order[o] /\ confirmation'[o] = confirmation[o]]_vars

(* Why they hold: what is true of every order on its own ...               *)
OrderOK(o) ==
  LET g == order[o].giver
      r == order[o].receiver
      confirmers == Confirmers(confirmation[o])
  IN /\ order[o].status = "absent" =>
          confirmers = {} /\ cancellation[o].status = "none" /\ order[o].completedAt = 0
     /\ order[o].status # "absent" =>
          g \in Members /\ r \in Members /\ g # r /\ confirmers \subseteq {g, r}
     /\ order[o].status = "pending" =>
          /\ order[o].completedAt = 0
          /\ \A m, n \in confirmers :
               m # n => confirmation[o][m].amount # confirmation[o][n].amount
     /\ order[o].status = "completed" => order[o].completedAt # 0
     /\ order[o].completedAt # 0 =>
          /\ order[o].status \in {"completed", "cancelled"}
          /\ confirmers = {g, r}
          /\ confirmation[o][g].amount = confirmation[o][r].amount
     /\ OpenRequest(o) =>
          order[o].status \in {"pending", "completed"} /\ cancellation[o].requester \in {g, r}
     /\ order[o].status = "cancelled" /\ confirmers # {} =>
          {cancellation[o].requester, cancellation[o].responder} = {g, r}

(* ... and of the members an unfinished order depends on.                  *)
PartiesStay ==
  \A o \in Orders :
    /\ order[o].status = "pending" =>
         role[order[o].giver] = "employee" /\ role[order[o].receiver] = "employee"
    /\ OpenRequest(o) => IsActive(order[o].giver) /\ IsActive(order[o].receiver)

LeaversHoldNothing == \A m \in Members : role[m] = "removed" => balance[m] = 0

(* The inductive invariant of OrdersProofs.                                *)
Inv ==
  /\ TypeOK
  /\ \A o \in Orders : OrderOK(o)
  /\ PartiesStay
  /\ LeaversHoldNothing

(* What the member management rules promise of a role change ("the balance *)
(* row stays at 0"): a member who is not an employee holds no balance.     *)
OnlyEmployeesHoldMoney ==
  \A m \in Members : role[m] \in {"manager", "investor"} => balance[m] = 0

-----------------------------------------------------------------------------
(* The order service keeps the books of module Ledger: an order has posted *)
(* its entry once it is completed, and reversed it once it is cancelled    *)
(* after that.                                                             *)
AgreedEntry(o) ==
  LET g == order[o].giver
      r == order[o].receiver
  IN [giver |-> g, receiver |-> r, amount |-> confirmation[o][g].amount,
      giverFee |-> confirmation[o][g].fee, receiverFee |-> confirmation[o][r].fee]

L == INSTANCE Ledger WITH
       entry <- [o \in Orders |-> IF order[o].completedAt # 0 THEN AgreedEntry(o) ELSE None],
       reversed <- {o \in Orders : order[o].completedAt # 0 /\ order[o].status = "cancelled"}

LedgerSpec == L!Spec
=============================================================================
