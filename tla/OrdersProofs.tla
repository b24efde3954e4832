---------------------------- MODULE OrdersProofs ----------------------------
(***************************************************************************)
(* Proofs about module Orders, for any set of members, orders, amounts,    *)
(* fees and months.                                                        *)
(***************************************************************************)
EXTENDS OrdersAccounting, FoldProofs, TLAPS

-----------------------------------------------------------------------------
(* Type correctness. *)

LEMMA MoneyTyped ==
  ASSUME TypeOK, NEW sign \in {1, -1}, NEW g \in Members, NEW r \in Members,
         NEW amount \in Amounts,
         AddToBalances(sign, g, r, amount)
  PROVE  balance' \in [Members -> Int]
  BY OrdersAssumption DEF TypeOK, AddToBalances

LEMMA ProfitTyped ==
  ASSUME TypeOK, NEW sign \in {1, -1},
         NEW conf \in [Members -> Confirmation \cup {None}],
         AddToProfits(sign, conf)
  PROVE  profit' \in [Members -> [Months -> Int]]
  <1>1. ASSUME NEW m \in Members
        PROVE  FeeOf(conf, m) \in Int
    <2>1. conf[m] \in Confirmation \cup {None}
      OBVIOUS
    <2>2. CASE conf[m] = None
      BY <2>2 DEF FeeOf
    <2>3. CASE conf[m] # None
      <3>1. conf[m].fee \in Fees
        BY <2>1, <2>3 DEF Confirmation
      <3>2. QED
        BY <2>3, <3>1, OrdersAssumption DEF FeeOf
    <2>4. QED
      BY <2>2, <2>3
  <1>2. ASSUME NEW m \in Members
        PROVE  [profit[m] EXCEPT ![month] = @ + sign * FeeOf(conf, m)] \in [Months -> Int]
    <2>1. profit[m] \in [Months -> Int] /\ month \in Months
      BY DEF TypeOK
    <2>2. profit[m][month] + sign * FeeOf(conf, m) \in Int
      BY <1>1, <2>1
    <2>3. QED
      BY <2>1, <2>2
  <1>3. QED
    BY <1>2 DEF AddToProfits

LEMMA InitTyped == Init => TypeOK
  BY OrdersAssumption
  DEF Init, TypeOK, NoOrder, Order, NoCancellation, Cancellation, Roles, Months

LEMMA CompleteTyped ==
  ASSUME TypeOK, NEW o \in Orders, order[o].status # "absent",
         order[o].giver \in Members, order[o].receiver \in Members,
         NEW conf \in [Members -> Confirmation \cup {None}], NEW amount \in Amounts,
         CompleteOrder(o, conf, amount)
  PROVE  /\ order' \in [Orders -> Order]
         /\ balance' \in [Members -> Int]
         /\ profit' \in [Members -> [Months -> Int]]
  <1>1. order' \in [Orders -> Order]
    <2> DEFINE new == [order[o] EXCEPT !.status = "completed", !.completedAt = month]
    <2>1. order[o] \in Order
      BY DEF TypeOK
    <2>2. new \in Order
      BY <2>1, Zenon DEF TypeOK, Order
    <2>3. QED
      BY <2>2 DEF TypeOK, CompleteOrder
  <1>2. QED
    BY <1>1, MoneyTyped, ProfitTyped DEF CompleteOrder

LEMMA MarkCancelledTyped ==
  ASSUME TypeOK, NEW o \in Orders, MarkCancelled(o)
  PROVE  order' \in [Orders -> Order]
  <1> DEFINE new == [order[o] EXCEPT !.status = "cancelled"]
  <1>1. order[o] \in Order
    BY DEF TypeOK
  <1>2. new \in Order
    BY <1>1, Zenon DEF Order
  <1>3. QED
    BY <1>2 DEF TypeOK, MarkCancelled

LEMMA ConfirmTyped ==
  ASSUME TypeOK, NEW m \in Members, NEW o \in Orders, NEW a \in Amounts, NEW f \in Fees,
         order[o].giver \in Members, order[o].receiver \in Members,
         Confirm(m, o, a, f)
  PROVE  TypeOK'
  <1> DEFINE conf == [confirmation[o] EXCEPT ![m] = [amount |-> a, fee |-> f]]
  <1>1. conf \in [Members -> Confirmation \cup {None}]
    BY DEF TypeOK, Confirmation
  <1>2. confirmation' = [confirmation EXCEPT ![o] = conf] /\ Settle(o, conf)
    BY DEF Confirm
  <1>3. confirmation' \in [Orders -> [Members -> Confirmation \cup {None}]]
    BY <1>1, <1>2 DEF TypeOK
  <1> HIDE DEF conf
  <1> DEFINE Typed == /\ order' \in [Orders -> Order]
                      /\ balance' \in [Members -> Int]
                      /\ profit' \in [Members -> [Months -> Int]]
  <1>4. Typed
    <2>1. CASE UNCHANGED <<order, balance, profit>>
      BY <2>1 DEF TypeOK
    <2>2. ASSUME NEW first \in Confirmers(conf), CompleteOrder(o, conf, conf[first].amount)
          PROVE  Typed
      <3>1. conf[first].amount \in Amounts
        BY <1>1 DEF Confirmers, Confirmation
      <3>2. order[o].status # "absent"
        BY DEF Confirm
      <3>3. QED
        BY <1>1, <2>2, <3>1, <3>2, CompleteTyped
    <2>3. QED
      <3> HIDE DEF Typed
      <3> QED
        BY <1>2, <2>1, <2>2 DEF Settle
  <1>5. QED
    BY <1>3, <1>4 DEF TypeOK, Confirm

LEMMA CreateTyped ==
  ASSUME TypeOK, NEW m \in Members, NEW o \in Orders, NEW g \in Members, NEW r \in Members,
         NEW a \in Amounts, NEW d \in Details, Create(m, o, g, r, a, d)
  PROVE  TypeOK'
  <1> DEFINE new == [status |-> "pending", creator |-> UserOf[m], giver |-> g, receiver |-> r,
                     amount |-> a, details |-> d, completedAt |-> 0]
  <1>1. new \in Order
    BY DEF Order, Users
  <1>2. order' = [order EXCEPT ![o] = new]
    BY DEF Create
  <1> HIDE DEF new
  <1>3. order' \in [Orders -> Order]
    BY <1>1, <1>2 DEF TypeOK
  <1>4. QED
    BY <1>3 DEF TypeOK, Create

LEMMA EditTyped ==
  ASSUME TypeOK, NEW m \in Members, NEW o \in Orders, NEW g \in Members, NEW r \in Members,
         NEW a \in Amounts, NEW d \in Details, Edit(m, o, g, r, a, d)
  PROVE  TypeOK'
  <1> DEFINE new == [order[o] EXCEPT !.giver = g, !.receiver = r, !.amount = a, !.details = d]
             none == [n \in Members |-> None]
  <1>1. new \in Order
    <2>1. order[o] \in Order
      BY DEF TypeOK
    <2>2. QED
      BY <2>1, Zenon DEF Order
  <1>2. order' = [order EXCEPT ![o] = new] /\ confirmation' = [confirmation EXCEPT ![o] = none]
    BY DEF Edit
  <1>3. none \in [Members -> Confirmation \cup {None}]
    OBVIOUS
  <1> HIDE DEF new, none
  <1>4. /\ order' \in [Orders -> Order]
        /\ confirmation' \in [Orders -> [Members -> Confirmation \cup {None}]]
    BY <1>1, <1>2, <1>3 DEF TypeOK
  <1>5. QED
    BY <1>4 DEF TypeOK, Edit

LEMMA CancellationTyped ==
  ASSUME TypeOK, NEW m \in Members, NEW o \in Orders,
         \/ CancelImmediately(m, o)
         \/ OpenCancellationRequest(m, o)
         \/ RejectCancellation(m, o)
         \/ ApproveCancellation(m, o)
  PROVE  cancellation' \in [Orders -> Cancellation]
  <1>1. CASE \/ CancelImmediately(m, o)
             \/ OpenCancellationRequest(m, o)
    <2>1. \A x \in Cancellation : [cancellation EXCEPT ![o] = x] \in [Orders -> Cancellation]
      BY DEF TypeOK
    <2>2. /\ [status |-> "approved", requester |-> m, responder |-> m] \in Cancellation
          /\ [status |-> "pending", requester |-> m, responder |-> None] \in Cancellation
      BY DEF Cancellation
    <2>3. QED
      BY <1>1, <2>1, <2>2 DEF CancelImmediately, OpenCancellationRequest
  <1>2. ASSUME NEW status \in {"rejected", "approved"}, CloseRequest(o, status, m)
        PROVE  cancellation' \in [Orders -> Cancellation]
    <2> DEFINE new == [cancellation[o] EXCEPT !.status = status, !.responder = m]
    <2>1. new \in Cancellation
      <3>1. cancellation[o] \in Cancellation
        BY DEF TypeOK
      <3>2. QED
        BY <3>1, Zenon DEF Cancellation
    <2>2. cancellation' = [cancellation EXCEPT ![o] = new]
      BY <1>2 DEF CloseRequest
    <2> HIDE DEF new
    <2>3. QED
      BY <2>1, <2>2 DEF TypeOK
  <1>3. QED
    BY <1>1, <1>2 DEF RejectCancellation, ApproveCancellation

LEMMA ApproveTyped ==
  ASSUME TypeOK, NEW m \in Members, NEW o \in Orders,
         order[o].giver \in Members, order[o].receiver \in Members,
         ApproveCancellation(m, o)
  PROVE  TypeOK'
  <1> DEFINE Typed == balance' \in [Members -> Int] /\ profit' \in [Members -> [Months -> Int]]
  <1>1. Typed
    <2>1. CASE UNCHANGED <<balance, profit>>
      BY <2>1 DEF TypeOK
    <2>2. CASE ReverseCompletion(o, confirmation[o])
      <3>1. confirmation[o] \in [Members -> Confirmation \cup {None}]
        BY DEF TypeOK
      <3>2. PICK first \in Confirmers(confirmation[o]) :
              /\ AddToBalances(-1, order[o].giver, order[o].receiver,
                               confirmation[o][first].amount)
              /\ AddToProfits(-1, confirmation[o])
        BY <2>2 DEF ReverseCompletion
      <3>3. confirmation[o][first].amount \in Amounts
        BY <3>1 DEF Confirmers, Confirmation
      <3>4. QED
        BY <3>1, <3>2, <3>3, MoneyTyped, ProfitTyped
    <2>3. QED
      <3> HIDE DEF Typed
      <3> QED
        BY <2>1, <2>2 DEF ApproveCancellation
  <1>2. order' \in [Orders -> Order]
    BY MarkCancelledTyped DEF ApproveCancellation
  <1>3. QED
    BY <1>1, <1>2, CancellationTyped DEF ApproveCancellation, TypeOK

LEMMA MembershipTyped ==
  ASSUME TypeOK, BalanceStep \/ MembershipStep \/ NextMonth
  PROVE  TypeOK'
  <1>1. ASSUME NEW m \in Members, NEW t \in Members, NEW v \in Adjustments,
               AdjustBalance(m, t, v)
        PROVE  TypeOK'
    BY <1>1, OrdersAssumption DEF AdjustBalance, TypeOK
  <1>2. ASSUME NEW m \in Members, NEW t \in Members, RemoveMember(m, t)
        PROVE  TypeOK'
    BY <1>2 DEF RemoveMember, TypeOK
  <1>3. ASSUME NEW m \in Members, NEW t \in Members, NEW r \in Roles, ChangeRole(m, t, r)
        PROVE  TypeOK'
    BY <1>3 DEF ChangeRole, TypeOK
  <1>4. ASSUME NEW t \in Members, NEW r \in Roles, Join(t, r)
        PROVE  TypeOK'
    BY <1>4 DEF Join, TypeOK
  <1>5. CASE NextMonth
    BY <1>5, OrdersAssumption DEF NextMonth, TypeOK, Months
  <1>6. QED
    BY <1>1, <1>2, <1>3, <1>4, <1>5 DEF BalanceStep, MembershipStep

LEMMA TypeStep ==
  ASSUME TypeOK, \A o \in Orders : OrderOK(o), [Next]_vars
  PROVE  TypeOK'
  <1>1. ASSUME NEW m \in Members, NEW o \in Orders, NEW g \in Members, NEW r \in Members,
               NEW a \in Amounts, NEW d \in Details,
               Create(m, o, g, r, a, d) \/ Edit(m, o, g, r, a, d)
        PROVE  TypeOK'
    BY <1>1, CreateTyped, EditTyped
  <1>2. ASSUME NEW m \in Members, NEW o \in Orders, NEW a \in Amounts, NEW f \in Fees,
               Confirm(m, o, a, f)
        PROVE  TypeOK'
    <2>1. order[o].giver \in Members /\ order[o].receiver \in Members
      BY <1>2 DEF Confirm, OrderOK
    <2>2. QED
      BY <1>2, <2>1, ConfirmTyped
  <1>3. ASSUME NEW m \in Members, NEW o \in Orders, CancelImmediately(m, o)
        PROVE  TypeOK'
    <2>1. order' \in [Orders -> Order] /\ cancellation' \in [Orders -> Cancellation]
      BY <1>3, MarkCancelledTyped, CancellationTyped DEF CancelImmediately
    <2>2. QED
      BY <1>3, <2>1 DEF CancelImmediately, TypeOK
  <1>4. ASSUME NEW m \in Members, NEW o \in Orders,
               OpenCancellationRequest(m, o) \/ RejectCancellation(m, o)
        PROVE  TypeOK'
    <2>1. cancellation' \in [Orders -> Cancellation]
      BY <1>4, CancellationTyped
    <2>2. QED
      BY <1>4, <2>1 DEF OpenCancellationRequest, RejectCancellation, TypeOK
  <1>5. ASSUME NEW m \in Members, NEW o \in Orders, ApproveCancellation(m, o)
        PROVE  TypeOK'
    <2>1. order[o].giver \in Members /\ order[o].receiver \in Members
      BY <1>5 DEF ApproveCancellation, OrderOK
    <2>2. QED
      BY <1>5, <2>1, ApproveTyped
  <1>6. CASE UNCHANGED vars
    BY <1>6 DEF vars, TypeOK
  <1>7. QED
    BY <1>1, <1>2, <1>3, <1>4, <1>5, <1>6, MembershipTyped DEF Next, OrderStep

-----------------------------------------------------------------------------
(* What is true of every order on its own. *)

Rows(o) == <<order[o], confirmation[o], cancellation[o]>>

LEMMA OrderUntouched ==
  ASSUME NEW p \in Orders, OrderOK(p), UNCHANGED Rows(p)
  PROVE  OrderOK(p)'
  BY DEF OrderOK, Rows, OpenRequest, Confirmers

LEMMA OtherOrders ==
  ASSUME TypeOK, NEW o \in Orders, NEW p \in Orders, p # o, NEW m \in Members,
         \/ \E g, r \in Members, a \in Amounts, d \in Details :
              Create(m, o, g, r, a, d) \/ Edit(m, o, g, r, a, d)
         \/ \E a \in Amounts, f \in Fees : Confirm(m, o, a, f)
         \/ CancelImmediately(m, o) \/ OpenCancellationRequest(m, o)
         \/ RejectCancellation(m, o) \/ ApproveCancellation(m, o)
  PROVE  UNCHANGED Rows(p)
  <1>1. ASSUME NEW g \in Members, NEW r \in Members, NEW a \in Amounts, NEW d \in Details,
               Create(m, o, g, r, a, d) \/ Edit(m, o, g, r, a, d)
        PROVE  UNCHANGED Rows(p)
    BY <1>1 DEF Create, Edit, Rows, TypeOK
  <1>2. ASSUME NEW a \in Amounts, NEW f \in Fees, Confirm(m, o, a, f)
        PROVE  UNCHANGED Rows(p)
    <2>1. order'[p] = order[p]
      <3>1. \/ UNCHANGED order
            \/ \E x : order' = [order EXCEPT ![o] = x]
        BY <1>2, Zenon DEF Confirm, Settle, CompleteOrder
      <3>2. QED
        BY <3>1 DEF TypeOK
    <2>2. QED
      BY <1>2, <2>1 DEF Confirm, Rows, TypeOK
  <1>3. CASE CancelImmediately(m, o) \/ OpenCancellationRequest(m, o)
    BY <1>3 DEF CancelImmediately, OpenCancellationRequest, MarkCancelled, Rows, TypeOK
  <1>4. CASE RejectCancellation(m, o) \/ ApproveCancellation(m, o)
    <2>1. cancellation'[p] = cancellation[p]
      BY <1>4 DEF RejectCancellation, ApproveCancellation, CloseRequest, TypeOK
    <2>2. QED
      BY <1>4, <2>1 DEF RejectCancellation, ApproveCancellation, MarkCancelled, Rows, TypeOK
  <1>5. QED
    BY <1>1, <1>2, <1>3, <1>4

LEMMA CreateOK ==
  ASSUME TypeOK, NEW m \in Members, NEW o \in Orders, NEW g \in Members, NEW r \in Members,
         NEW a \in Amounts, NEW d \in Details, OrderOK(o), Create(m, o, g, r, a, d)
  PROVE  OrderOK(o)'
  <1>1. /\ order'[o] = [status |-> "pending", creator |-> UserOf[m], giver |-> g,
                        receiver |-> r, amount |-> a, details |-> d, completedAt |-> 0]
        /\ UNCHANGED <<confirmation, cancellation>>
    BY DEF Create, TypeOK
  <1>2. Confirmers(confirmation[o]) = {} /\ cancellation[o].status = "none" /\ g # r
    BY DEF OrderOK, Create
  <1>3. QED
    BY <1>1, <1>2 DEF OrderOK, OpenRequest

LEMMA EditOK ==
  ASSUME TypeOK, NEW m \in Members, NEW o \in Orders, NEW g \in Members, NEW r \in Members,
         NEW a \in Amounts, NEW d \in Details, OrderOK(o), Edit(m, o, g, r, a, d)
  PROVE  OrderOK(o)'
  <1>1. /\ order[o].status = "pending"
        /\ order'[o] = [order[o] EXCEPT !.giver = g, !.receiver = r,
                                        !.amount = a, !.details = d]
        /\ confirmation'[o] = [n \in Members |-> None]
        /\ UNCHANGED cancellation
        /\ ~OpenRequest(o)
        /\ g # r
    BY DEF Edit, TypeOK
  <1>2. Confirmers(confirmation'[o]) = {}
    BY <1>1 DEF Confirmers
  <1>3. /\ order'[o].status = "pending" /\ order'[o].completedAt = 0
        /\ order'[o].giver = g /\ order'[o].receiver = r
    BY <1>1 DEF OrderOK, TypeOK, Order
  <1>4. QED
    BY <1>1, <1>2, <1>3 DEF OrderOK, OpenRequest

LEMMA ConfirmOK ==
  ASSUME TypeOK, NEW m \in Members, NEW o \in Orders, NEW a \in Amounts, NEW f \in Fees,
         OrderOK(o), Confirm(m, o, a, f)
  PROVE  OrderOK(o)'
  <1> DEFINE conf == [confirmation[o] EXCEPT ![m] = [amount |-> a, fee |-> f]]
             g == order[o].giver
             r == order[o].receiver
  <1>1. /\ order[o].status = "pending"
        /\ m \in {g, r} /\ g \in Members /\ r \in Members /\ g # r
        /\ Confirmers(confirmation[o]) \subseteq {g, r}
        /\ order[o].completedAt = 0
        /\ ~OpenRequest(o)
        /\ UNCHANGED cancellation
    BY DEF Confirm, OrderOK, IsParty
  <1>2. confirmation'[o] = conf /\ Settle(o, conf)
    BY DEF Confirm, TypeOK
  <1>3. Confirmers(conf) \subseteq {g, r}
    BY <1>1 DEF Confirmers, TypeOK
  <1> HIDE DEF conf
  <1>4. CASE UNCHANGED order /\ \A x, y \in Confirmers(conf) :
                                  x # y => conf[x].amount # conf[y].amount
    BY <1>1, <1>2, <1>3, <1>4 DEF OrderOK, OpenRequest
  <1>5. ASSUME NEW first \in Confirmers(conf), NEW second \in Confirmers(conf),
               first # second, conf[first].amount # conf[second].amount, UNCHANGED order
        PROVE  \A x, y \in Confirmers(conf) : x # y => conf[x].amount # conf[y].amount
    BY <1>3, <1>5
  <1>6. ASSUME NEW first \in Confirmers(conf), NEW second \in Confirmers(conf),
               first # second, conf[first].amount = conf[second].amount,
               CompleteOrder(o, conf, conf[first].amount)
        PROVE  OrderOK(o)'
    <2>1. /\ order'[o].status = "completed" /\ order'[o].completedAt # 0
          /\ order'[o].giver = g /\ order'[o].receiver = r
      BY <1>6 DEF CompleteOrder, TypeOK, Order, Months
    <2>2. Confirmers(conf) = {g, r} /\ conf[g].amount = conf[r].amount
      BY <1>3, <1>6
    <2>3. QED
      BY <1>1, <1>2, <2>1, <2>2 DEF OrderOK, OpenRequest
  <1>7. QED
    BY <1>2, <1>4, <1>5, <1>6 DEF Settle

LEMMA ClosedRow ==
  ASSUME TypeOK, NEW o \in Orders, NEW m \in Members, NEW status \in {"approved", "rejected"},
         CloseRequest(o, status, m)
  PROVE  /\ cancellation'[o].status = status
         /\ cancellation'[o].requester = cancellation[o].requester
         /\ cancellation'[o].responder = m
  <1>1. cancellation[o] \in Cancellation
    BY DEF TypeOK
  <1>2. cancellation'[o] = [cancellation[o] EXCEPT !.status = status, !.responder = m]
    BY DEF CloseRequest, TypeOK
  <1>3. QED
    BY <1>1, <1>2 DEF Cancellation

LEMMA CancelOK ==
  ASSUME TypeOK, NEW m \in Members, NEW o \in Orders, OrderOK(o),
         \/ CancelImmediately(m, o)
         \/ ApproveCancellation(m, o)
  PROVE  OrderOK(o)'
  <1> DEFINE g == order[o].giver
             r == order[o].receiver
  <1>1. /\ order'[o].status = "cancelled" /\ order'[o].completedAt = order[o].completedAt
        /\ order'[o].giver = g /\ order'[o].receiver = r
        /\ UNCHANGED confirmation
    <2>1. order'[o] = [order[o] EXCEPT !.status = "cancelled"] /\ order[o] \in Order
      BY DEF CancelImmediately, ApproveCancellation, MarkCancelled, TypeOK
    <2>2. QED
      BY <2>1 DEF CancelImmediately, ApproveCancellation, Order
  <1>2. cancellation'[o].status = "approved" /\ ~OpenRequest(o)'
    <2>1. CASE CancelImmediately(m, o)
      BY <2>1 DEF CancelImmediately, OpenRequest, TypeOK
    <2>2. CASE ApproveCancellation(m, o)
      BY <2>2, ClosedRow DEF ApproveCancellation, OpenRequest
    <2>3. QED
      BY <2>1, <2>2
  <1>3. CASE CancelImmediately(m, o)
    <2>1. Confirmers(confirmation[o]) = {} /\ order[o].status = "pending"
      BY <1>3 DEF CancelImmediately, Untouched
    <2>2. QED
      BY <1>1, <1>2, <2>1 DEF OrderOK
  <1>4. CASE ApproveCancellation(m, o)
    <2>1. /\ m \in {g, r} /\ cancellation[o].requester \in {g, r}
          /\ cancellation[o].requester # m
          /\ order[o].status \in {"pending", "completed"}
      BY <1>4 DEF ApproveCancellation, OrderOK, IsParty
    <2>2. cancellation'[o].requester = cancellation[o].requester /\ cancellation'[o].responder = m
      BY <1>4, ClosedRow DEF ApproveCancellation
    <2>3. {cancellation'[o].requester, cancellation'[o].responder} = {g, r}
      BY <2>1, <2>2
    <2>4. QED
      BY <1>1, <1>2, <2>1, <2>3 DEF OrderOK
  <1>5. QED
    BY <1>3, <1>4

LEMMA RequestOK ==
  ASSUME TypeOK, NEW m \in Members, NEW o \in Orders, OrderOK(o),
         \/ OpenCancellationRequest(m, o)
         \/ RejectCancellation(m, o)
  PROVE  OrderOK(o)'
  <1>1. UNCHANGED <<order, confirmation>>
    BY DEF OpenCancellationRequest, RejectCancellation
  <1>2. order[o].status \in {"pending", "completed"}
    BY DEF OpenCancellationRequest, RejectCancellation, OrderOK
  <1>3. OpenRequest(o)' => cancellation'[o].requester \in {order[o].giver, order[o].receiver}
    <2>1. CASE OpenCancellationRequest(m, o)
      BY <2>1 DEF OpenCancellationRequest, TypeOK, IsParty
    <2>2. CASE RejectCancellation(m, o)
      BY <2>2, ClosedRow DEF RejectCancellation, OpenRequest
    <2>3. QED
      BY <2>1, <2>2
  <1>4. QED
    BY <1>1, <1>2, <1>3 DEF OrderOK, OpenRequest

LEMMA OrdersStep ==
  ASSUME TypeOK, \A o \in Orders : OrderOK(o), [Next]_vars, NEW p \in Orders
  PROVE  OrderOK(p)'
  <1>1. ASSUME NEW o \in Orders, NEW m \in Members, NEW g \in Members, NEW r \in Members,
               NEW a \in Amounts, NEW d \in Details,
               Create(m, o, g, r, a, d) \/ Edit(m, o, g, r, a, d)
        PROVE  OrderOK(p)'
    <2>1. CASE p = o
      BY <1>1, <2>1, CreateOK, EditOK
    <2>2. CASE p # o
      <3>1. UNCHANGED Rows(p)
        BY <1>1, <2>2, OtherOrders
      <3>2. QED
        BY <3>1, OrderUntouched
    <2>3. QED
      BY <2>1, <2>2
  <1>2. ASSUME NEW o \in Orders, NEW m \in Members, NEW a \in Amounts, NEW f \in Fees,
               Confirm(m, o, a, f)
        PROVE  OrderOK(p)'
    <2>1. CASE p = o
      BY <1>2, <2>1, ConfirmOK
    <2>2. CASE p # o
      <3>1. UNCHANGED Rows(p)
        BY <1>2, <2>2, OtherOrders
      <3>2. QED
        BY <3>1, OrderUntouched
    <2>3. QED
      BY <2>1, <2>2
  <1>3. ASSUME NEW o \in Orders, NEW m \in Members,
               \/ CancelImmediately(m, o) \/ OpenCancellationRequest(m, o)
               \/ RejectCancellation(m, o) \/ ApproveCancellation(m, o)
        PROVE  OrderOK(p)'
    <2>1. CASE p = o
      BY <1>3, <2>1, CancelOK, RequestOK
    <2>2. CASE p # o
      <3>1. UNCHANGED Rows(p)
        BY <1>3, <2>2, OtherOrders
      <3>2. QED
        BY <3>1, OrderUntouched
    <2>3. QED
      BY <2>1, <2>2
  <1>4. CASE BalanceStep \/ MembershipStep \/ NextMonth \/ UNCHANGED vars
    <2>1. UNCHANGED <<order, confirmation, cancellation>>
      BY <1>4 DEF BalanceStep, MembershipStep, NextMonth, AdjustBalance, RemoveMember,
                  ChangeRole, Join, vars
    <2>2. QED
      BY <2>1, OrderUntouched DEF Rows
  <1>5. QED
    BY <1>1, <1>2, <1>3, <1>4 DEF Next, OrderStep

-----------------------------------------------------------------------------
(* What the orders and the membership rows promise each other. *)

(* The operations on orders leave the membership rows alone, and the ones  *)
(* that move no money the balances.                                        *)
LEMMA OrderOperationsKeepRoles ==
  ASSUME NEW m \in Members, NEW o \in Orders
  PROVE  /\ \A g, r \in Members, a \in Amounts, d \in Details :
              Create(m, o, g, r, a, d) \/ Edit(m, o, g, r, a, d) => UNCHANGED <<role, balance>>
         /\ \A a \in Amounts, f \in Fees : Confirm(m, o, a, f) => UNCHANGED role
         /\ CancelImmediately(m, o) \/ OpenCancellationRequest(m, o) \/ RejectCancellation(m, o)
              => UNCHANGED <<role, balance>>
         /\ ApproveCancellation(m, o) => UNCHANGED role
  <1>1. ASSUME NEW g \in Members, NEW r \in Members, NEW a \in Amounts, NEW d \in Details
        PROVE  /\ Create(m, o, g, r, a, d) => UNCHANGED <<role, balance>>
               /\ Edit(m, o, g, r, a, d) => UNCHANGED <<role, balance>>
    <2>1. Create(m, o, g, r, a, d) => UNCHANGED <<role, balance>>
      BY DEF Create
    <2>2. Edit(m, o, g, r, a, d) => UNCHANGED <<role, balance>>
      BY DEF Edit
    <2>3. QED
      BY <2>1, <2>2
  <1>2. \A a \in Amounts, f \in Fees : Confirm(m, o, a, f) => UNCHANGED role
    BY DEF Confirm
  <1>3. CancelImmediately(m, o) => UNCHANGED <<role, balance>>
    BY DEF CancelImmediately
  <1>4. OpenCancellationRequest(m, o) => UNCHANGED <<role, balance>>
    BY DEF OpenCancellationRequest
  <1>5. RejectCancellation(m, o) => UNCHANGED <<role, balance>>
    BY DEF RejectCancellation
  <1>6. ApproveCancellation(m, o) => UNCHANGED role
    BY DEF ApproveCancellation
  <1>7. QED
    BY <1>1, <1>2, <1>3, <1>4, <1>5, <1>6

LEMMA PartiesOrderStep ==
  ASSUME TypeOK, \A o \in Orders : OrderOK(o), PartiesStay, OrderStep
  PROVE  PartiesStay'
  <1>1. PICK m \in Members, o \in Orders :
          \/ \E g, r \in Members, a \in Amounts, d \in Details :
               Create(m, o, g, r, a, d) \/ Edit(m, o, g, r, a, d)
          \/ \E a \in Amounts, f \in Fees : Confirm(m, o, a, f)
          \/ CancelImmediately(m, o) \/ OpenCancellationRequest(m, o)
          \/ RejectCancellation(m, o) \/ ApproveCancellation(m, o)
    BY DEF OrderStep
  <1>2. UNCHANGED role
    BY <1>1, OrderOperationsKeepRoles
  <1> SUFFICES ASSUME NEW p \in Orders
               PROVE  /\ order'[p].status = "pending" =>
                           /\ role[order'[p].giver] = "employee"
                           /\ role[order'[p].receiver] = "employee"
                      /\ OpenRequest(p)' =>
                           IsActive(order'[p].giver) /\ IsActive(order'[p].receiver)
    BY <1>2 DEF PartiesStay, OpenRequest, IsActive
  <1> DEFINE Stay == /\ order'[p].status = "pending" =>
                          /\ role[order'[p].giver] = "employee"
                          /\ role[order'[p].receiver] = "employee"
                     /\ OpenRequest(p)' =>
                          IsActive(order'[p].giver) /\ IsActive(order'[p].receiver)
  <1>3. CASE p # o
    <2>1. UNCHANGED Rows(p)
      BY <1>1, <1>3, OtherOrders
    <2>2. QED
      BY <2>1 DEF Rows, PartiesStay, OpenRequest, IsActive
  <1>4. ASSUME p = o, NEW g \in Members, NEW r \in Members, NEW a \in Amounts, NEW d \in Details,
               Create(m, o, g, r, a, d)
        PROVE  Stay
    <2>1. order'[p].giver = g /\ order'[p].receiver = r /\ ~OpenRequest(p)'
      BY <1>4 DEF Create, TypeOK, OrderOK, OpenRequest
    <2>2. QED
      BY <1>4, <2>1 DEF Create
  <1>5. ASSUME p = o, NEW g \in Members, NEW r \in Members, NEW a \in Amounts, NEW d \in Details,
               Edit(m, o, g, r, a, d)
        PROVE  Stay
    <2>1. order[o] \in Order
      BY DEF TypeOK
    <2>2. order'[p].giver = g /\ order'[p].receiver = r /\ ~OpenRequest(p)'
      BY <1>5, <2>1 DEF Edit, TypeOK, OpenRequest, Order
    <2>3. role[order[o].giver] = "employee" /\ role[order[o].receiver] = "employee"
      BY <1>5 DEF Edit, PartiesStay
    <2>4. QED
      BY <1>5, <2>2, <2>3 DEF Edit, KeepsOrResolves
  <1>6. ASSUME p = o, NEW a \in Amounts, NEW f \in Fees, Confirm(m, o, a, f)
        PROVE  Stay
    <2>1. order'[p].giver = order[p].giver /\ order'[p].receiver = order[p].receiver
      <3>1. \/ UNCHANGED order
            \/ order' = [order EXCEPT ![o] = [@ EXCEPT !.status = "completed",
                                                       !.completedAt = month]]
        BY <1>6, Zenon DEF Confirm, Settle, CompleteOrder
      <3>2. order[o] \in Order
        BY DEF TypeOK
      <3>3. CASE order' = [order EXCEPT ![o] = [@ EXCEPT !.status = "completed",
                                                         !.completedAt = month]]
        <4>1. order'[o] = [order[o] EXCEPT !.status = "completed", !.completedAt = month]
          BY <3>3 DEF TypeOK
        <4>2. QED
          BY <1>6, <3>2, <4>1 DEF Order
      <3>4. QED
        BY <3>1, <3>3
    <2>2. order[p].status = "pending" /\ ~OpenRequest(p)'
      BY <1>6 DEF Confirm, OpenRequest
    <2>3. QED
      BY <2>1, <2>2 DEF PartiesStay
  <1>7. ASSUME p = o, CancelImmediately(m, o) \/ ApproveCancellation(m, o)
        PROVE  Stay
    <2>1. order'[p].status = "cancelled"
      <3>1. order[o] \in Order /\ order'[o] = [order[o] EXCEPT !.status = "cancelled"]
        BY <1>7 DEF CancelImmediately, ApproveCancellation, MarkCancelled, TypeOK
      <3>2. QED
        BY <1>7, <3>1 DEF Order
    <2>2. ~OpenRequest(p)'
      <3>1. CASE CancelImmediately(m, o)
        BY <1>7, <3>1 DEF CancelImmediately, OpenRequest, TypeOK
      <3>2. CASE ApproveCancellation(m, o)
        BY <1>7, <3>2, ClosedRow DEF ApproveCancellation, OpenRequest
      <3>3. QED
        BY <1>7, <3>1, <3>2
    <2>3. QED
      BY <2>1, <2>2
  <1>8. ASSUME p = o, OpenCancellationRequest(m, o)
        PROVE  Stay
    BY <1>8 DEF OpenCancellationRequest, PartiesStay, IsActive
  <1>9. ASSUME p = o, RejectCancellation(m, o)
        PROVE  Stay
    BY <1>9, ClosedRow DEF RejectCancellation, PartiesStay, OpenRequest
  <1>10. QED
    BY <1>1, <1>3, <1>4, <1>5, <1>6, <1>7, <1>8, <1>9

LEMMA PartiesMembershipStep ==
  ASSUME TypeOK, \A o \in Orders : OrderOK(o), PartiesStay, MembershipStep
  PROVE  PartiesStay'
  <1>1. UNCHANGED <<order, confirmation, cancellation>>
    BY DEF MembershipStep, RemoveMember, ChangeRole, Join
  <1> SUFFICES ASSUME NEW p \in Orders
               PROVE  /\ order[p].status = "pending" =>
                           /\ role'[order[p].giver] = "employee"
                           /\ role'[order[p].receiver] = "employee"
                      /\ OpenRequest(p) =>
                           IsActive(order[p].giver)' /\ IsActive(order[p].receiver)'
    BY <1>1 DEF PartiesStay, IsActive, OpenRequest
  <1>2. /\ order[p].status = "pending" =>
             role[order[p].giver] = "employee" /\ role[order[p].receiver] = "employee"
        /\ OpenRequest(p) => IsActive(order[p].giver) /\ IsActive(order[p].receiver)
        /\ order[p].status = "pending" \/ OpenRequest(p) =>
             order[p].giver \in Members /\ order[p].receiver \in Members
    BY DEF PartiesStay, OrderOK, OpenRequest
  <1>3. ASSUME NEW m \in Members, NEW t \in Members, RemoveMember(m, t)
        PROVE  order[p].status = "pending" \/ OpenRequest(p) =>
                 t # order[p].giver /\ t # order[p].receiver
    BY <1>3 DEF RemoveMember, Settled, ActiveFor, IsParty
  <1>4. ASSUME NEW t \in Members, NEW r \in Roles \cup {"removed"},
               role' = [role EXCEPT ![t] = r],
               order[p].status = "pending" => t # order[p].giver /\ t # order[p].receiver,
               OpenRequest(p) => r \in Roles \/ (t # order[p].giver /\ t # order[p].receiver)
        PROVE  /\ order[p].status = "pending" =>
                    role'[order[p].giver] = "employee" /\ role'[order[p].receiver] = "employee"
               /\ OpenRequest(p) => IsActive(order[p].giver)' /\ IsActive(order[p].receiver)'
    BY <1>1, <1>2, <1>4 DEF TypeOK, IsActive
  <1>5. ASSUME NEW m \in Members, NEW t \in Members, NEW r \in Roles, ChangeRole(m, t, r)
        PROVE  order[p].status = "pending" => t # order[p].giver /\ t # order[p].receiver
    BY <1>2, <1>5 DEF ChangeRole, Settled, ActiveFor, IsParty
  <1>6. ASSUME NEW t \in Members, NEW r \in Roles, Join(t, r)
        PROVE  order[p].status = "pending" => t # order[p].giver /\ t # order[p].receiver
    BY <1>2, <1>6 DEF Join
  <1>7. PICK t \in Members : \/ \E m \in Members : RemoveMember(m, t)
                             \/ \E m \in Members, r \in Roles : ChangeRole(m, t, r)
                             \/ \E r \in Roles : Join(t, r)
    BY DEF MembershipStep
  <1>8. CASE \E m \in Members : RemoveMember(m, t)
    BY <1>3, <1>4, <1>8 DEF RemoveMember
  <1>9. CASE \E m \in Members, r \in Roles : ChangeRole(m, t, r)
    BY <1>4, <1>5, <1>9 DEF ChangeRole
  <1>10. CASE \E r \in Roles : Join(t, r)
    BY <1>4, <1>6, <1>10 DEF Join
  <1>11. QED
    BY <1>7, <1>8, <1>9, <1>10

LEMMA PartiesStep ==
  ASSUME TypeOK, \A o \in Orders : OrderOK(o), PartiesStay, [Next]_vars
  PROVE  PartiesStay'
  <1>1. CASE BalanceStep \/ NextMonth \/ UNCHANGED vars
    <2>1. UNCHANGED <<role, order, cancellation>>
      BY <1>1 DEF BalanceStep, AdjustBalance, NextMonth, vars
    <2>2. QED
      BY <2>1 DEF PartiesStay, OpenRequest, IsActive
  <1>2. QED
    BY <1>1, PartiesOrderStep, PartiesMembershipStep DEF Next

LEMMA LeaversStep ==
  ASSUME TypeOK, \A o \in Orders : OrderOK(o), PartiesStay, LeaversHoldNothing, [Next]_vars
  PROVE  LeaversHoldNothing'
  <1> SUFFICES ASSUME NEW n \in Members, role'[n] = "removed"
               PROVE  balance'[n] = 0
    BY DEF LeaversHoldNothing
  <1>1. ASSUME NEW sign \in {1, -1}, NEW o \in Orders, NEW amount \in Amounts,
               IsActive(order[o].giver), IsActive(order[o].receiver), UNCHANGED role,
               AddToBalances(sign, order[o].giver, order[o].receiver, amount)
        PROVE  balance'[n] = 0
    <2>1. n # order[o].giver /\ n # order[o].receiver /\ role[n] = "removed"
      BY <1>1 DEF IsActive, Roles
    <2>2. balance'[n] = balance[n] + sign * (0 - 0)
      BY <1>1, <2>1 DEF AddToBalances
    <2>3. balance[n] = 0
      BY <2>1 DEF LeaversHoldNothing
    <2>4. QED
      BY <2>2, <2>3
  <1>2. CASE UNCHANGED <<role, balance>>
    BY <1>2 DEF LeaversHoldNothing
  <1>3. ASSUME NEW m \in Members, NEW o \in Orders, NEW a \in Amounts, NEW f \in Fees,
               Confirm(m, o, a, f)
        PROVE  balance'[n] = 0
    <2> DEFINE conf == [confirmation[o] EXCEPT ![m] = [amount |-> a, fee |-> f]]
    <2>1. /\ UNCHANGED role /\ Settle(o, conf)
          /\ IsActive(order[o].giver) /\ IsActive(order[o].receiver)
      BY <1>3 DEF Confirm, PartiesStay, IsActive, Roles
    <2>2. conf \in [Members -> Confirmation \cup {None}]
      BY DEF TypeOK, Confirmation
    <2> HIDE DEF conf
    <2>3. ASSUME NEW first \in Confirmers(conf), CompleteOrder(o, conf, conf[first].amount)
          PROVE  balance'[n] = 0
      <3>1. conf[first].amount \in Amounts
        BY <2>2 DEF Confirmers, Confirmation
      <3>2. QED
        BY <1>1, <2>1, <2>3, <3>1 DEF CompleteOrder
    <2>4. QED
      BY <1>2, <2>1, <2>3 DEF Settle
  <1>4. ASSUME NEW m \in Members, NEW o \in Orders, ApproveCancellation(m, o)
        PROVE  balance'[n] = 0
    <2>1. /\ UNCHANGED role
          /\ IsActive(order[o].giver) /\ IsActive(order[o].receiver)
      BY <1>4 DEF ApproveCancellation, PartiesStay
    <2>2. CASE ReverseCompletion(o, confirmation[o])
      <3>1. PICK first \in Confirmers(confirmation[o]) :
              AddToBalances(-1, order[o].giver, order[o].receiver,
                            confirmation[o][first].amount)
        BY <2>2 DEF ReverseCompletion
      <3>2. confirmation[o][first].amount \in Amounts
        BY DEF TypeOK, Confirmers, Confirmation
      <3>3. QED
        BY <1>1, <2>1, <3>1, <3>2
    <2>3. QED
      BY <1>2, <1>4, <2>1, <2>2 DEF ApproveCancellation
  <1>5. ASSUME NEW m \in Members, NEW t \in Members, NEW v \in Adjustments,
               AdjustBalance(m, t, v)
        PROVE  balance'[n] = 0
    BY <1>5 DEF AdjustBalance, TypeOK, LeaversHoldNothing
  <1>6. ASSUME NEW m \in Members, NEW t \in Members, RemoveMember(m, t)
        PROVE  balance'[n] = 0
    BY <1>6 DEF RemoveMember, Settled, TypeOK, LeaversHoldNothing
  <1>7. ASSUME NEW t \in Members, NEW r \in Roles, Join(t, r) \/ \E m \in Members : ChangeRole(m, t, r)
        PROVE  balance'[n] = 0
    <2>1. UNCHANGED balance /\ role' = [role EXCEPT ![t] = r] /\ r # "removed"
      BY <1>7 DEF Join, ChangeRole, Roles
    <2>2. QED
      BY <2>1 DEF TypeOK, LeaversHoldNothing
  <1>8. QED
    <2>1. ASSUME OrderStep
          PROVE  balance'[n] = 0
      <3>1. PICK m \in Members, o \in Orders :
              \/ \E g, r \in Members, a \in Amounts, d \in Details :
                   Create(m, o, g, r, a, d) \/ Edit(m, o, g, r, a, d)
              \/ \E a \in Amounts, f \in Fees : Confirm(m, o, a, f)
              \/ CancelImmediately(m, o) \/ OpenCancellationRequest(m, o)
              \/ RejectCancellation(m, o) \/ ApproveCancellation(m, o)
        BY <2>1 DEF OrderStep
      <3>2. CASE UNCHANGED <<role, balance>>
        BY <1>2, <3>2
      <3>3. QED
        <4>1. CASE \E a \in Amounts, f \in Fees : Confirm(m, o, a, f)
          BY <1>3, <4>1
        <4>2. CASE ApproveCancellation(m, o)
          BY <1>4, <4>2
        <4>3. QED
          BY <3>1, <3>2, <4>1, <4>2, OrderOperationsKeepRoles
    <2>2. ASSUME BalanceStep
          PROVE  balance'[n] = 0
      BY <1>5, <2>2 DEF BalanceStep
    <2>3. ASSUME MembershipStep
          PROVE  balance'[n] = 0
      BY <1>6, <1>7, <2>3 DEF MembershipStep
    <2>4. ASSUME NextMonth \/ UNCHANGED vars
          PROVE  balance'[n] = 0
      BY <1>2, <2>4 DEF NextMonth, vars
    <2>5. QED
      BY <2>1, <2>2, <2>3, <2>4 DEF Next

-----------------------------------------------------------------------------
(* The invariant, and what follows from it. *)

LEMMA InvInit == Init => Inv
  <1> SUFFICES ASSUME Init PROVE Inv
    OBVIOUS
  <1>1. \A o \in Orders : order[o] = NoOrder /\ Confirmers(confirmation[o]) = {}
                          /\ cancellation[o].status = "none"
    BY DEF Init, Confirmers, NoCancellation
  <1>2. \A o \in Orders : OrderOK(o)
    BY <1>1 DEF OrderOK, OpenRequest, NoOrder
  <1>3. PartiesStay
    BY <1>1 DEF PartiesStay, OpenRequest, NoOrder
  <1>4. LeaversHoldNothing
    BY DEF Init, LeaversHoldNothing
  <1>5. QED
    BY <1>2, <1>3, <1>4, InitTyped DEF Inv

LEMMA InvStep == Inv /\ [Next]_vars => Inv'
  <1> SUFFICES ASSUME Inv, [Next]_vars PROVE Inv'
    OBVIOUS
  <1>1. TypeOK' /\ \A p \in Orders : OrderOK(p)'
    BY TypeStep, OrdersStep DEF Inv
  <1>2. PartiesStay' /\ LeaversHoldNothing'
    BY PartiesStep, LeaversStep DEF Inv
  <1>3. QED
    BY <1>1, <1>2 DEF Inv

(* The inductive invariant holds in every reachable state: what each order  *)
(* row promises, and what order and membership rows promise each other.    *)
THEOREM InvHolds == Spec => []Inv
  BY InvInit, InvStep, PTL DEF Spec

(* Rows, confirmations, balances and profits keep their types through every *)
(* operation, whatever amounts and fees are confirmed.                      *)
THEOREM TypeCorrect == Spec => []TypeOK
  <1>1. Inv => TypeOK
    BY DEF Inv
  <1>2. QED
    BY <1>1, InvHolds, PTL

(* settle completes an order only on the agreement of both parties, and no  *)
(* later edit, request or answer disturbs what reverseCompletion relies on. *)
THEOREM CompletedOrdersAreAgreed == Spec => []CompletedAgreed
  <1>1. Inv => CompletedAgreed
    BY DEF Inv, OrderOK, CompletedAgreed
  <1>2. QED
    BY <1>1, InvHolds, PTL

(* Two agreeing confirmations never wait: the second Confirm completes.    *)
THEOREM AgreementsComplete == Spec => []NoAgreementLeftPending
  <1>1. Inv => NoAgreementLeftPending
    BY DEF Inv, OrderOK, NoAgreementLeftPending
  <1>2. QED
    BY <1>1, InvHolds, PTL

(* A request never outlives the membership of a party who could answer it: *)
(* openCancellationRequest and requireSettled close both ways.             *)
THEOREM RequestsStayAnswerable == Spec => []OpenRequestAnswerable
  <1>1. Inv => OpenRequestAnswerable
    BY DEF Inv, OrderOK, PartiesStay, OpenRequestAnswerable
  <1>2. QED
    BY <1>1, InvHolds, PTL

(* requireSettled holds for ever after a removal: no completion, reversal,  *)
(* edit or adjustment reaches a removed membership again.                   *)
THEOREM RemovedStaySettled == Spec => []LeaversStaySettled
  <1>1. ASSUME Inv PROVE LeaversStaySettled
    <2> SUFFICES ASSUME NEW m \in Members, role[m] = "removed"
                 PROVE  balance[m] = 0 /\ \A o \in Orders : ~ActiveFor(o, m)
      BY DEF LeaversStaySettled, Settled
    <2>1. balance[m] = 0
      BY <1>1 DEF Inv, LeaversHoldNothing
    <2>2. \A o \in Orders : ~ActiveFor(o, m)
      BY <1>1 DEF Inv, PartiesStay, ActiveFor, IsParty, IsActive, Roles
    <2>3. QED
      BY <2>1, <2>2
  <1>2. QED
    BY <1>1, InvHolds, PTL

(* The parties of a pending order stay employees: resolveEmployee, Edit and *)
(* requireSettled together.                                                 *)
THEOREM PendingPartiesStayEmployees == Spec => []PendingPartiesAreEmployees
  <1>1. Inv => PendingPartiesAreEmployees
    BY DEF Inv, PartiesStay, PendingPartiesAreEmployees
  <1>2. QED
    BY <1>1, InvHolds, PTL

(* Nobody cancels a touched order alone: CancelImmediately needs isUntouched *)
(* and ApproveCancellation an approver other than the requester.             *)
THEOREM CancellationNeedsBoth == Spec => []CancelledByBoth
  <1>1. Inv => CancelledByBoth
    BY DEF Inv, OrderOK, CancelledByBoth
  <1>2. QED
    BY <1>1, InvHolds, PTL

-----------------------------------------------------------------------------
(* What no step may do. *)

(* Edit clears both confirmations whenever it changes parties, amount or    *)
(* details, and nothing else changes them: no confirmation of either party  *)
(* ever comes to stand for terms its author did not see.                    *)
THEOREM ConfirmationsKeepTerms == Spec => ConfirmationsKeepTheirTerms
  <1> DEFINE Kept == \A o \in Orders :
       Confirmers(confirmation'[o]) \cap Confirmers(confirmation[o]) # {} =>
         \A field \in {"giver", "receiver", "amount", "details"} :
           order'[o][field] = order[o][field]
  <1>1. ASSUME Inv, [Next]_vars PROVE Kept
    <2> SUFFICES ASSUME NEW p \in Orders,
                        Confirmers(confirmation'[p]) \cap Confirmers(confirmation[p]) # {},
                        NEW field \in {"giver", "receiver", "amount", "details"}
                 PROVE  order'[p][field] = order[p][field]
      OBVIOUS
    <2>1. TypeOK /\ OrderOK(p) /\ order[p] \in Order
      BY <1>1 DEF Inv, TypeOK
    <2>2. CASE UNCHANGED order
      BY <2>2
    <2>3. ASSUME NEW m \in Members, NEW o \in Orders,
                 \/ \E g, r \in Members, a \in Amounts, d \in Details :
                      Create(m, o, g, r, a, d) \/ Edit(m, o, g, r, a, d)
                 \/ \E a \in Amounts, f \in Fees : Confirm(m, o, a, f)
                 \/ CancelImmediately(m, o) \/ OpenCancellationRequest(m, o)
                 \/ RejectCancellation(m, o) \/ ApproveCancellation(m, o)
          PROVE  order'[p][field] = order[p][field]
      <3>1. CASE p # o
        BY <2>1, <2>3, <3>1, OtherOrders DEF Rows
      <3>2. CASE p = o
        <4>1. ASSUME NEW g \in Members, NEW r \in Members, NEW a \in Amounts, NEW d \in Details,
                     Create(m, o, g, r, a, d) \/ Edit(m, o, g, r, a, d)
              PROVE  FALSE
          <5>1. CASE Create(m, o, g, r, a, d)
            BY <2>1, <3>2, <5>1 DEF Create, OrderOK
          <5>2. CASE Edit(m, o, g, r, a, d)
            BY <2>1, <3>2, <5>2 DEF Edit, TypeOK, Confirmers
          <5>3. QED
            BY <4>1, <5>1, <5>2
        <4>2. ASSUME NEW s, order' = [order EXCEPT ![o] = [@ EXCEPT !.status = s]]
              PROVE  order'[p][field] = order[p][field]
          <5>1. order'[o] = [order[o] EXCEPT !.status = s]
            BY <2>1, <4>2 DEF TypeOK
          <5>2. QED
            BY <2>1, <3>2, <5>1 DEF Order
        <4>3. ASSUME order' = [order EXCEPT ![o] = [@ EXCEPT !.status = "completed",
                                                             !.completedAt = month]]
              PROVE  order'[p][field] = order[p][field]
          <5>1. order'[o] = [order[o] EXCEPT !.status = "completed", !.completedAt = month]
            BY <2>1, <4>3 DEF TypeOK
          <5>2. QED
            BY <2>1, <3>2, <5>1 DEF Order
        <4>4. ASSUME NEW a \in Amounts, NEW f \in Fees, Confirm(m, o, a, f)
              PROVE  \/ UNCHANGED order
                     \/ order' = [order EXCEPT ![o] = [@ EXCEPT !.status = "completed",
                                                                !.completedAt = month]]
          BY <4>4, Zenon DEF Confirm, Settle, CompleteOrder
        <4>5. QED
          BY <2>2, <2>3, <4>1, <4>2, <4>3, <4>4
             DEF CancelImmediately, ApproveCancellation, MarkCancelled,
                 OpenCancellationRequest, RejectCancellation
      <3>3. QED
        BY <3>1, <3>2
    <2>4. CASE OrderStep
      BY <2>3, <2>4 DEF OrderStep
    <2>5. CASE BalanceStep \/ MembershipStep \/ NextMonth \/ UNCHANGED vars
      BY <2>2, <2>5 DEF BalanceStep, MembershipStep, NextMonth, AdjustBalance, RemoveMember,
                        ChangeRole, Join, vars
    <2>6. QED
      BY <1>1, <2>4, <2>5 DEF Next
  <1>2. QED
    BY <1>1, InvHolds, PTL DEF Spec, ConfirmationsKeepTheirTerms

(* Edit, Confirm and CancelImmediately refuse while a request is open, so   *)
(* the order the other party answers for is the order it was asked about.   *)
THEOREM OpenRequestsFreeze == Spec => OpenRequestFreezes
  <1> DEFINE Frozen == \A o \in Orders :
       OpenRequest(o) /\ cancellation'[o] = cancellation[o] =>
         order'[o] = order[o] /\ confirmation'[o] = confirmation[o]
  <1>1. ASSUME Inv, [Next]_vars PROVE Frozen
    <2> SUFFICES ASSUME NEW p \in Orders, OpenRequest(p), cancellation'[p] = cancellation[p]
                 PROVE  order'[p] = order[p] /\ confirmation'[p] = confirmation[p]
      OBVIOUS
    <2>1. TypeOK /\ OrderOK(p)
      BY <1>1 DEF Inv
    <2>2. ASSUME NEW m \in Members, NEW o \in Orders,
                 \/ \E g, r \in Members, a \in Amounts, d \in Details :
                      Create(m, o, g, r, a, d) \/ Edit(m, o, g, r, a, d)
                 \/ \E a \in Amounts, f \in Fees : Confirm(m, o, a, f)
                 \/ CancelImmediately(m, o) \/ OpenCancellationRequest(m, o)
                 \/ RejectCancellation(m, o) \/ ApproveCancellation(m, o)
          PROVE  order'[p] = order[p] /\ confirmation'[p] = confirmation[p]
      <3>1. CASE p # o
        BY <2>1, <2>2, <3>1, OtherOrders DEF Rows
      <3>2. CASE p = o
        <4>1. ASSUME NEW status \in {"approved", "rejected"}, CloseRequest(o, status, m)
              PROVE  FALSE
          BY <2>1, <3>2, <4>1, ClosedRow DEF OpenRequest
        <4>2. ASSUME NEW g \in Members, NEW r \in Members, NEW a \in Amounts, NEW d \in Details,
                     Create(m, o, g, r, a, d) \/ Edit(m, o, g, r, a, d)
              PROVE  FALSE
          BY <2>1, <3>2, <4>2 DEF Create, Edit, OrderOK, OpenRequest
        <4>3. ASSUME NEW a \in Amounts, NEW f \in Fees, Confirm(m, o, a, f)
              PROVE  FALSE
          BY <3>2, <4>3 DEF Confirm
        <4>4. ~CancelImmediately(m, o) /\ ~OpenCancellationRequest(m, o)
          BY <3>2 DEF CancelImmediately, OpenCancellationRequest
        <4>5. QED
          BY <2>2, <4>1, <4>2, <4>3, <4>4 DEF RejectCancellation, ApproveCancellation
      <3>3. QED
        BY <3>1, <3>2
    <2>3. CASE OrderStep
      BY <2>2, <2>3 DEF OrderStep
    <2>4. CASE BalanceStep \/ MembershipStep \/ NextMonth \/ UNCHANGED vars
      BY <2>4 DEF BalanceStep, MembershipStep, NextMonth, AdjustBalance, RemoveMember,
                  ChangeRole, Join, vars
    <2>5. QED
      BY <1>1, <2>3, <2>4 DEF Next
  <1>2. QED
    BY <1>1, InvHolds, PTL DEF Spec, OpenRequestFreezes

-----------------------------------------------------------------------------
(* The order service implements the books of module Ledger. *)

EntryOf(o) == IF order[o].completedAt # 0 THEN AgreedEntry(o) ELSE None
ReversedOrders == {o \in Orders : order[o].completedAt # 0 /\ order[o].status = "cancelled"}

LEMMA LedgerInit == Init => L!Init
  BY OrdersAssumption DEF Init, L!Init, NoOrder, Months

(* A step that keeps the money, the month and every completed order keeps   *)
(* the books.                                                               *)
LEMMA BooksKept ==
  ASSUME UNCHANGED <<balance, profit, month>>,
         \A o \in Orders : /\ order'[o].completedAt = order[o].completedAt
                           /\ order[o].completedAt # 0 =>
                                UNCHANGED <<order[o], confirmation[o]>>
  PROVE  UNCHANGED L!vars
  <1>1. \A o \in Orders : EntryOf(o)' = EntryOf(o)
    BY DEF EntryOf, AgreedEntry
  <1>2. ReversedOrders' = ReversedOrders
    BY DEF ReversedOrders
  <1>3. QED
    BY <1>1, <1>2 DEF L!vars, EntryOf, ReversedOrders

LEMMA NumbersAreIntegers == Amounts \subseteq Int /\ Fees \subseteq Int
  BY OrdersAssumption

LEMMA CompletionPosts ==
  ASSUME TypeOK, NEW m \in Members, NEW o \in Orders, OrderOK(o), OrderOK(o)',
         order[o].completedAt = 0, order[o].giver # order[o].receiver,
         order[o].giver \in Members, order[o].receiver \in Members,
         NEW conf \in [Members -> Confirmation \cup {None}],
         Confirmers(conf) \subseteq {order[o].giver, order[o].receiver},
         NEW first \in Confirmers(conf), NEW second \in Confirmers(conf),
         first # second, conf[first].amount = conf[second].amount,
         confirmation' = [confirmation EXCEPT ![o] = conf],
         CompleteOrder(o, conf, conf[first].amount), UNCHANGED month
  PROVE  \E e \in L!Entry : L!Post(o, e)
  <1> DEFINE g == order[o].giver
             r == order[o].receiver
  <1>0. PICK e : e = [giver |-> g, receiver |-> r, amount |-> conf[g].amount,
                      giverFee |-> conf[g].fee, receiverFee |-> conf[r].fee]
    OBVIOUS
  <1>1. Confirmers(conf) = {g, r} /\ conf[first].amount = conf[g].amount
    OBVIOUS
  <1>2. conf[g] \in Confirmation /\ conf[r] \in Confirmation /\ conf[g] # None /\ conf[r] # None
    BY <1>1 DEF Confirmers
  <1>3. /\ conf[g].amount \in Amounts /\ conf[g].fee \in Fees
        /\ conf[r].amount \in Amounts /\ conf[r].fee \in Fees
    BY <1>2 DEF Confirmation
  <1>4. /\ order'[o] = [order[o] EXCEPT !.status = "completed", !.completedAt = month]
        /\ confirmation'[o] = conf
        /\ \A p \in Orders \ {o} : UNCHANGED <<order[p], confirmation[p]>>
    BY DEF CompleteOrder, TypeOK
  <1>5. /\ order'[o].status = "completed" /\ order'[o].completedAt # 0
        /\ order'[o].giver = g /\ order'[o].receiver = r
    <2>1. order[o] \in Order /\ month # 0
      BY DEF TypeOK, Months
    <2>2. QED
      BY <1>4, <2>1 DEF Order
  <1>6. EntryOf(o) = None /\ EntryOf(o)' = e
    BY <1>0, <1>4, <1>5 DEF EntryOf, AgreedEntry
  <1>7. \A p \in Orders \ {o} : EntryOf(p)' = EntryOf(p)
    BY <1>4 DEF EntryOf, AgreedEntry
  <1>8. ReversedOrders' = ReversedOrders
    BY <1>4, <1>5 DEF ReversedOrders
  <1>9. balance' = [n \in Members |-> balance[n] + L!BalanceEffect(e, n)]
    <2>1. conf[first].amount \in Int
      BY <1>1, <1>3, NumbersAreIntegers
    <2>2. ASSUME NEW n \in Members
          PROVE  balance[n] + 1 * (  (IF n = g THEN conf[first].amount ELSE 0)
                                   - (IF n = r THEN conf[first].amount ELSE 0))
                 = balance[n] + L!BalanceEffect(e, n)
      BY <1>0, <1>1, <2>1 DEF L!BalanceEffect, TypeOK
    <2>3. QED
      BY <2>2 DEF CompleteOrder, AddToBalances
  <1>10. profit' = [n \in Members |->
                      [profit[n] EXCEPT ![month] = @ + L!ProfitEffect(e, n)]]
    <2>1. ASSUME NEW n \in Members
          PROVE  1 * FeeOf(conf, n) = L!ProfitEffect(e, n)
      <3>1. conf[g].fee \in Int /\ conf[r].fee \in Int
        BY <1>3, NumbersAreIntegers
      <3>2. n \notin {g, r} => conf[n] = None
        BY <1>1 DEF Confirmers
      <3>3. QED
        BY <1>0, <1>2, <3>1, <3>2 DEF FeeOf, L!ProfitEffect
    <2>2. QED
      BY <2>1 DEF CompleteOrder, AddToProfits
  <1>11. e.giver # e.receiver /\ e \in L!Entry
    BY <1>0, <1>3 DEF L!Entry
  <1>12. [p \in Orders |-> EntryOf(p)]' = [[p \in Orders |-> EntryOf(p)] EXCEPT ![o] = e]
    BY <1>6, <1>7
  <1>13. L!Post(o, e)
    BY <1>6, <1>8, <1>9, <1>10, <1>11, <1>12 DEF L!Post, EntryOf, ReversedOrders
  <1>14. QED
    BY <1>11, <1>13

LEMMA CancelledRow ==
  ASSUME TypeOK, NEW o \in Orders, MarkCancelled(o)
  PROVE  /\ order'[o].status = "cancelled" /\ order'[o].completedAt = order[o].completedAt
         /\ order'[o].giver = order[o].giver /\ order'[o].receiver = order[o].receiver
         /\ \A p \in Orders \ {o} : order'[p] = order[p]
  <1>1. order[o] \in Order /\ order'[o] = [order[o] EXCEPT !.status = "cancelled"]
    BY DEF TypeOK, MarkCancelled
  <1>2. \A p \in Orders \ {o} : order'[p] = order[p]
    BY DEF TypeOK, MarkCancelled
  <1>3. QED
    BY <1>1, <1>2 DEF Order

LEMMA ReversalReverses ==
  ASSUME TypeOK, NEW o \in Orders, OrderOK(o), order[o].status = "completed",
         ReverseCompletion(o, confirmation[o]), MarkCancelled(o),
         UNCHANGED <<confirmation, month>>
  PROVE  L!Reverse(o)
  <1> DEFINE g == order[o].giver
             r == order[o].receiver
             conf == confirmation[o]
  <1>1. PICK e : e = AgreedEntry(o)
    OBVIOUS
  <1>2. /\ order[o].completedAt # 0 /\ g \in Members /\ r \in Members /\ g # r
        /\ Confirmers(conf) = {g, r} /\ conf[g].amount = conf[r].amount
    BY DEF OrderOK
  <1>3. /\ conf[g] # None /\ conf[r] # None
        /\ conf[g].amount \in Amounts /\ conf[g].fee \in Fees /\ conf[r].fee \in Fees
    <2>1. conf[g] \in Confirmation \cup {None} /\ conf[r] \in Confirmation \cup {None}
      BY <1>2 DEF TypeOK
    <2>2. conf[g] # None /\ conf[r] # None
      BY <1>2 DEF Confirmers
    <2>3. QED
      BY <2>1, <2>2 DEF Confirmation
  <1>4. /\ order'[o].status = "cancelled" /\ order'[o].completedAt = order[o].completedAt
        /\ order'[o].giver = g /\ order'[o].receiver = r
        /\ \A p \in Orders \ {o} : order'[p] = order[p]
    BY CancelledRow
  <1>5. \A p \in Orders : EntryOf(p)' = EntryOf(p)
    BY <1>4 DEF EntryOf, AgreedEntry
  <1>6. ReversedOrders' = ReversedOrders \cup {o} /\ o \notin ReversedOrders
    BY <1>2, <1>4 DEF ReversedOrders
  <1>7. EntryOf(o) = e /\ EntryOf(o) # None
    <2>1. e = [giver |-> g, receiver |-> r, amount |-> conf[g].amount,
               giverFee |-> conf[g].fee, receiverFee |-> conf[r].fee]
      BY <1>1 DEF AgreedEntry
    <2>2. e # None
      BY <1>2, <1>3, <2>1, OrdersAssumption
    <2>3. QED
      BY <1>1, <1>2, <2>2 DEF EntryOf
  <1>8. balance' = [n \in Members |-> balance[n] - L!BalanceEffect(e, n)]
    <2>1. PICK first \in Confirmers(conf) : AddToBalances(-1, g, r, conf[first].amount)
      BY DEF ReverseCompletion
    <2>2. conf[first].amount = conf[g].amount /\ conf[g].amount \in Int
      BY <1>2, <1>3, NumbersAreIntegers
    <2>3. ASSUME NEW n \in Members
          PROVE  balance[n] + (-1) * (  (IF n = g THEN conf[first].amount ELSE 0)
                                    - (IF n = r THEN conf[first].amount ELSE 0))
                 = balance[n] - L!BalanceEffect(e, n)
      BY <1>1, <2>2 DEF L!BalanceEffect, TypeOK, AgreedEntry
    <2>4. balance' = [n \in Members |->
                        balance[n] + (-1) * (  (IF n = g THEN conf[first].amount ELSE 0)
                                           - (IF n = r THEN conf[first].amount ELSE 0))]
      BY <2>1, Zenon DEF AddToBalances
    <2>5. QED
      BY <2>3, <2>4, Zenon
  <1>9. profit' = [n \in Members |->
                     [profit[n] EXCEPT ![month] = @ - L!ProfitEffect(e, n)]]
    <2>1. ASSUME NEW n \in Members
          PROVE  FeeOf(conf, n) = L!ProfitEffect(e, n) /\ FeeOf(conf, n) \in Int
      <3>1. conf[g].fee \in Int /\ conf[r].fee \in Int
        BY <1>3, NumbersAreIntegers
      <3>2. n \notin {g, r} => conf[n] = None
        BY <1>2 DEF Confirmers
      <3>3. FeeOf(conf, n) \in Int
        BY <1>2, <1>3, <3>1, <3>2 DEF FeeOf
      <3>4. FeeOf(conf, n) = L!ProfitEffect(e, n)
        BY <1>1, <1>2, <1>3, <3>1, <3>2 DEF FeeOf, L!ProfitEffect, AgreedEntry
      <3>5. QED
        BY <3>3, <3>4
    <2>2. ASSUME NEW n \in Members
          PROVE  [profit[n] EXCEPT ![month] = @ + (-1) * FeeOf(conf, n)]
                 = [profit[n] EXCEPT ![month] = @ - L!ProfitEffect(e, n)]
      <3>1. profit[n] \in [Months -> Int] /\ month \in Months
        BY DEF TypeOK
      <3>2. profit[n][month] + (-1) * FeeOf(conf, n) = profit[n][month] - L!ProfitEffect(e, n)
        BY <2>1, <3>1
      <3>3. QED
        BY <3>1, <3>2
    <2>3. profit' = [n \in Members |-> [profit[n] EXCEPT ![month] = @ + (-1) * FeeOf(conf, n)]]
      BY Zenon DEF ReverseCompletion, AddToProfits
    <2>4. QED
      BY <2>2, <2>3, Zenon
  <1>10. [p \in Orders |-> EntryOf(p)]' = [p \in Orders |-> EntryOf(p)]
    BY <1>5
  <1>11. QED
    BY <1>6, <1>7, <1>8, <1>9, <1>10 DEF L!Reverse, EntryOf, ReversedOrders

(* Whatever moves money without an adjustment is a posting or a reversal.  *)
LEMMA OrderEffects ==
  ASSUME Inv, Inv', [Next]_vars
  PROVE  \/ BalanceStep
         \/ /\ UNCHANGED adjusted
            /\ \/ UNCHANGED L!vars
               \/ L!NextMonth
               \/ \E o \in Orders : L!Reverse(o) \/ \E e \in L!Entry : L!Post(o, e)
  <1>1. TypeOK /\ \A o \in Orders : OrderOK(o) /\ OrderOK(o)'
    BY DEF Inv
  <1>2. ASSUME NEW m \in Members, NEW o \in Orders,
               \/ \E g, r \in Members, a \in Amounts, d \in Details :
                    Create(m, o, g, r, a, d) \/ Edit(m, o, g, r, a, d)
               \/ \E a \in Amounts, f \in Fees : Confirm(m, o, a, f)
               \/ CancelImmediately(m, o) \/ OpenCancellationRequest(m, o)
               \/ RejectCancellation(m, o) \/ ApproveCancellation(m, o),
               UNCHANGED <<balance, profit, month>>,
               order'[o].completedAt = order[o].completedAt,
               order[o].completedAt # 0 => UNCHANGED <<order[o], confirmation[o]>>
        PROVE  UNCHANGED L!vars
    <2>1. \A p \in Orders \ {o} : UNCHANGED Rows(p)
      BY <1>1, <1>2, OtherOrders
    <2>2. \A p \in Orders : /\ order'[p].completedAt = order[p].completedAt
                            /\ order[p].completedAt # 0 =>
                                 UNCHANGED <<order[p], confirmation[p]>>
      BY <1>2, <2>1 DEF Rows
    <2>3. QED
      BY <1>2, <2>2, BooksKept
  <1>3. UNCHANGED <<order, confirmation, balance, profit, month>> => UNCHANGED L!vars
    BY BooksKept
  <1>4. ASSUME NEW m \in Members, NEW o \in Orders, NEW g \in Members, NEW r \in Members,
               NEW a \in Amounts, NEW d \in Details,
               Create(m, o, g, r, a, d) \/ Edit(m, o, g, r, a, d)
        PROVE  UNCHANGED L!vars
    <2>1. /\ UNCHANGED <<balance, profit, month>> /\ order[o].completedAt = 0
      BY <1>1, <1>4 DEF Create, Edit, OrderOK
    <2>2. order'[o].completedAt = 0
      <3>1. CASE Create(m, o, g, r, a, d)
        BY <1>1, <3>1 DEF Create, TypeOK
      <3>2. CASE Edit(m, o, g, r, a, d)
        <4>1. /\ order[o] \in Order
              /\ order'[o] = [order[o] EXCEPT !.giver = g, !.receiver = r,
                                              !.amount = a, !.details = d]
          BY <1>1, <3>2 DEF Edit, TypeOK
        <4>2. QED
          BY <2>1, <4>1 DEF Order
      <3>3. QED
        BY <1>4, <3>1, <3>2
    <2>3. QED
      BY <1>2, <1>4, <2>1, <2>2
  <1>5. ASSUME NEW m \in Members, NEW o \in Orders, NEW a \in Amounts, NEW f \in Fees,
               Confirm(m, o, a, f)
        PROVE  UNCHANGED L!vars \/ \E e \in L!Entry : L!Post(o, e)
    <2> DEFINE conf == [confirmation[o] EXCEPT ![m] = [amount |-> a, fee |-> f]]
    <2>1. /\ confirmation' = [confirmation EXCEPT ![o] = conf] /\ UNCHANGED month
          /\ Settle(o, conf)
      BY <1>5 DEF Confirm
    <2>2. /\ order[o].status = "pending" /\ order[o].completedAt = 0
          /\ order[o].giver \in Members /\ order[o].receiver \in Members
          /\ order[o].giver # order[o].receiver
          /\ Confirmers(confirmation[o]) \subseteq {order[o].giver, order[o].receiver}
          /\ m \in {order[o].giver, order[o].receiver}
      BY <1>1, <1>5 DEF Confirm, OrderOK, IsParty
    <2>3. /\ conf \in [Members -> Confirmation \cup {None}]
          /\ Confirmers(conf) \subseteq {order[o].giver, order[o].receiver}
      BY <1>1, <2>2 DEF TypeOK, Confirmers, Confirmation
    <2>4. CASE UNCHANGED <<order, balance, profit>>
      BY <1>2, <1>5, <2>1, <2>2, <2>4
    <2> HIDE DEF conf
    <2>5. ASSUME NEW first \in Confirmers(conf), NEW second \in Confirmers(conf),
                 first # second, conf[first].amount = conf[second].amount,
                 CompleteOrder(o, conf, conf[first].amount)
          PROVE  \E e \in L!Entry : L!Post(o, e)
      BY <1>1, <2>1, <2>2, <2>3, <2>5, CompletionPosts
    <2>6. QED
      BY <2>1, <2>4, <2>5 DEF Settle
  <1>6. ASSUME NEW m \in Members, NEW o \in Orders, CancelImmediately(m, o)
        PROVE  UNCHANGED L!vars
    <2>1. UNCHANGED <<balance, profit, month>> /\ order[o].completedAt = 0
      BY <1>1, <1>6 DEF CancelImmediately, Untouched, OrderOK
    <2>2. order'[o].completedAt = 0
      BY <1>1, <1>6, <2>1, CancelledRow DEF CancelImmediately
    <2>3. QED
      BY <1>2, <1>6, <2>1, <2>2
  <1>7. ASSUME NEW m \in Members, NEW o \in Orders, ApproveCancellation(m, o)
        PROVE  UNCHANGED L!vars \/ L!Reverse(o)
    <2>1. CASE order[o].status = "completed"
      BY <1>1, <1>7, <2>1, ReversalReverses DEF ApproveCancellation
    <2>2. CASE order[o].status # "completed"
      <3>1. UNCHANGED <<balance, profit, month>> /\ order[o].completedAt = 0
        BY <1>1, <1>7, <2>2 DEF ApproveCancellation, OrderOK
      <3>2. order'[o].completedAt = 0
        BY <1>1, <1>7, <3>1, CancelledRow DEF ApproveCancellation
      <3>3. QED
        BY <1>2, <1>7, <3>1, <3>2
    <2>3. QED
      BY <2>1, <2>2
  <1>9. CASE NextMonth
    <2>1. \A p \in Orders : EntryOf(p)' = EntryOf(p)
      BY <1>9 DEF NextMonth, EntryOf, AgreedEntry
    <2>2. ReversedOrders' = ReversedOrders /\ UNCHANGED <<balance, profit>>
      BY <1>9 DEF NextMonth, ReversedOrders
    <2>3. month' \in Months /\ month' > month
      BY <1>9, <1>1, OrdersAssumption DEF NextMonth, TypeOK, Months
    <2>4. L!NextMonth
      BY <2>1, <2>2, <2>3 DEF L!NextMonth, EntryOf, ReversedOrders
    <2>5. QED
      BY <1>9, <2>4 DEF NextMonth
  <1>10. CASE OrderStep
    <2>1. PICK m \in Members, o \in Orders :
            \/ \E g, r \in Members, a \in Amounts, d \in Details :
                 Create(m, o, g, r, a, d) \/ Edit(m, o, g, r, a, d)
            \/ \E a \in Amounts, f \in Fees : Confirm(m, o, a, f)
            \/ CancelImmediately(m, o) \/ OpenCancellationRequest(m, o)
            \/ RejectCancellation(m, o) \/ ApproveCancellation(m, o)
      BY <1>10 DEF OrderStep
    <2>2. OpenCancellationRequest(m, o) \/ RejectCancellation(m, o) => UNCHANGED L!vars
      BY <1>3 DEF OpenCancellationRequest, RejectCancellation
    <2>3. UNCHANGED L!vars \/ \E p \in Orders : L!Reverse(p) \/ \E e \in L!Entry : L!Post(p, e)
      BY <1>4, <1>5, <1>6, <1>7, <2>1, <2>2, Zenon
    <2>4. UNCHANGED adjusted
      BY <2>1, Zenon
      DEF Create, Edit, Confirm, CancelImmediately, OpenCancellationRequest, RejectCancellation,
          ApproveCancellation
    <2>5. QED
      BY <2>3, <2>4
  <1>12. CASE MembershipStep \/ UNCHANGED vars
    BY <1>3, <1>12 DEF MembershipStep, RemoveMember, ChangeRole, Join, vars
  <1>13. QED
    BY <1>9, <1>10, <1>12 DEF Next

LEMMA LedgerStep ==
  ASSUME Inv, Inv', [Next]_vars
  PROVE  [L!Next]_(L!vars)
  <1>1. ASSUME NEW m \in Members, NEW t \in Members, NEW v \in Adjustments,
               AdjustBalance(m, t, v)
        PROVE  L!Adjust(t)
    <2>1. \A p \in Orders : EntryOf(p)' = EntryOf(p)
      BY <1>1 DEF AdjustBalance, EntryOf, AgreedEntry
    <2>2. ReversedOrders' = ReversedOrders
      BY <1>1 DEF AdjustBalance, ReversedOrders
    <2>3. balance' \in [Members -> Int] /\ \A n \in Members \ {t} : balance'[n] = balance[n]
      BY <1>1 DEF Inv, TypeOK, AdjustBalance
    <2>4. UNCHANGED <<profit, month>>
      BY <1>1 DEF AdjustBalance
    <2>5. QED
      BY <2>1, <2>2, <2>3, <2>4 DEF L!Adjust, EntryOf, ReversedOrders
  <1>2. CASE BalanceStep
    BY <1>1, <1>2 DEF BalanceStep, L!Next
  <1>3. QED
    BY <1>2, OrderEffects DEF L!Next

(* The money of the group is the ledger's, whatever way orders are edited,  *)
(* confirmed, corrected, cancelled and settled: every order posts at most   *)
(* one entry, reversed at most once and by the same numbers, and only       *)
(* completeOrder, reverseCompletion and AdjustBalance move anything.        *)
THEOREM OrdersImplementLedger == Spec => LedgerSpec
  <1>1. Spec => []Inv
    BY InvHolds
  <1>2. Init => L!Init
    BY LedgerInit
  <1>3. Inv /\ Inv' /\ [Next]_vars => [L!Next]_(L!vars)
    BY LedgerStep
  <1>4. QED
    BY <1>1, <1>2, <1>3, PTL DEF Spec, LedgerSpec, L!Spec

-----------------------------------------------------------------------------
(* The books in closed form.  Seen from the ledger, an order stands for    *)
(* what its entry moved, until that is reversed.                           *)

Stands(o) == EntryOf(o) # None /\ o \notin ReversedOrders
StandingAmount(o, m) == IF Stands(o) THEN L!BalanceEffect(EntryOf(o), m) ELSE 0
StandingFee(o, m) == IF Stands(o) THEN L!ProfitEffect(EntryOf(o), m) ELSE 0

LEMMA CompletedEntry ==
  ASSUME Inv, NEW o \in Orders, order[o].completedAt # 0
  PROVE  EntryOf(o) = AgreedEntry(o) /\ AgreedEntry(o) \in L!Entry /\ EntryOf(o) # None
  <1> DEFINE g == order[o].giver
             r == order[o].receiver
             conf == confirmation[o]
  <1>1. /\ g \in Members /\ r \in Members /\ Confirmers(conf) = {g, r}
        /\ conf \in [Members -> Confirmation \cup {None}]
    BY DEF Inv, OrderOK, TypeOK
  <1>2. conf[g] \in Confirmation /\ conf[r] \in Confirmation
    BY <1>1 DEF Confirmers
  <1>3. AgreedEntry(o) \in [giver : Members, receiver : Members, amount : Amounts,
                            giverFee : Fees, receiverFee : Fees]
    BY <1>1, <1>2 DEF AgreedEntry, Confirmation
  <1>4. QED
    BY <1>3, OrdersAssumption DEF EntryOf, L!Entry

LEMMA EffectsAreIntegers ==
  ASSUME NEW e \in L!Entry, NEW m \in Members
  PROVE  L!BalanceEffect(e, m) \in Int /\ L!ProfitEffect(e, m) \in Int
  <1>1. e.amount \in Int /\ e.giverFee \in Int /\ e.receiverFee \in Int
    BY NumbersAreIntegers DEF L!Entry
  <1>2. QED
    BY <1>1 DEF L!BalanceEffect, L!ProfitEffect

StandingOK ==
  \A p \in Orders, n \in Members : StandingAmount(p, n) \in Int /\ StandingFee(p, n) \in Int

LEMMA StandingIsInteger == Inv => StandingOK
  <1> SUFFICES ASSUME Inv, NEW p \in Orders, NEW n \in Members
               PROVE  StandingAmount(p, n) \in Int /\ StandingFee(p, n) \in Int
    BY DEF StandingOK
  <1>1. Stands(p) => EntryOf(p) \in L!Entry
    BY CompletedEntry DEF Stands, EntryOf
  <1>2. QED
    BY <1>1, EffectsAreIntegers DEF StandingAmount, StandingFee

(* The contributions of module OrdersAccounting are what stands. *)
LEMMA ContributionsStand ==
  ASSUME Inv, NEW o \in Orders, NEW m \in Members
  PROVE  Contribution(o, m) = StandingAmount(o, m) /\ FeeContribution(o, m) = StandingFee(o, m)
  <1> DEFINE g == order[o].giver
             r == order[o].receiver
             conf == confirmation[o]
  <1>1. OrderOK(o) /\ TypeOK
    BY DEF Inv
  <1>2. CASE order[o].status = "completed"
    <2>1. order[o].completedAt # 0
      BY <1>1, <1>2 DEF OrderOK
    <2>2. Stands(o) /\ EntryOf(o) = AgreedEntry(o)
      BY <1>2, <2>1, CompletedEntry DEF Stands, ReversedOrders
    <2>3. Contribution(o, m) = StandingAmount(o, m)
      BY <1>2, <2>2 DEF Contribution, StandingAmount, L!BalanceEffect
    <2>4. g # r /\ g \in Members /\ r \in Members /\ Confirmers(conf) = {g, r}
      BY <1>1, <1>2, <2>1 DEF OrderOK
    <2>5. /\ conf[g] # None /\ conf[r] # None /\ (m \notin {g, r} => conf[m] = None)
          /\ conf[g].fee \in Int /\ conf[r].fee \in Int
      <3>1. conf[g] # None /\ conf[r] # None /\ (m \notin {g, r} => conf[m] = None)
        BY <2>4 DEF Confirmers
      <3>2. conf[g] \in Confirmation /\ conf[r] \in Confirmation
        BY <1>1, <2>4, <3>1 DEF TypeOK
      <3>3. QED
        BY <3>1, <3>2, NumbersAreIntegers DEF Confirmation
    <2>6. FeeOf(conf, m) = L!ProfitEffect(AgreedEntry(o), m)
      BY <2>4, <2>5 DEF FeeOf, L!ProfitEffect, AgreedEntry
    <2>7. QED
      BY <1>2, <2>2, <2>3, <2>6 DEF FeeContribution, StandingFee
  <1>3. CASE order[o].status # "completed"
    <2>1. ~Stands(o)
      BY <1>1, <1>3 DEF OrderOK, Stands, EntryOf, ReversedOrders
    <2>2. QED
      BY <1>3, <2>1 DEF Contribution, FeeContribution, StandingAmount, StandingFee
  <1>4. QED
    BY <1>2, <1>3

StandingAmounts(m) == [o \in Orders |-> StandingAmount(o, m)]
StandingFees(m) == [o \in Orders |-> StandingFee(o, m)]

(* The books of one member, by what stands. *)
Balanced(m) ==
  /\ balance[m] = adjusted[m] + SumFunction(StandingAmounts(m))
  /\ SumFunction(profit[m]) = SumFunction(StandingFees(m))

LEMMA BooksBalance ==
  Inv => (BooksAddUp <=> \A m \in Members : Balanced(m))
  <1> SUFFICES ASSUME Inv
               PROVE  BooksAddUp <=> \A m \in Members : Balanced(m)
    OBVIOUS
  <1>1. ASSUME NEW m \in Members
        PROVE  /\ [o \in Orders |-> Contribution(o, m)] = StandingAmounts(m)
               /\ [o \in Orders |-> FeeContribution(o, m)] = StandingFees(m)
    BY ContributionsStand DEF StandingAmounts, StandingFees
  <1>2. QED
    BY <1>1 DEF BooksAddUp, Balanced

LEMMA MonthsAreFinite == IsFiniteSet(Months)
  BY FS_Interval, OrdersAssumption DEF Months

(* When one order changes what it stands for, and the balance and the      *)
(* profit of this month change as much, the books still balance.           *)
LEMMA BooksChange ==
  ASSUME Inv, Inv', NEW m \in Members, Balanced(m), NEW o \in Orders, UNCHANGED adjusted,
         \A p \in Orders \ {o} : UNCHANGED <<StandingAmount(p, m), StandingFee(p, m)>>,
         balance'[m] = balance[m] + (StandingAmount(o, m)' - StandingAmount(o, m)),
         profit'[m] = [profit[m] EXCEPT ![month] = @ + (StandingFee(o, m)' - StandingFee(o, m))]
  PROVE  Balanced(m)'
  <1>1. /\ StandingAmounts(m) \in [Orders -> Int] /\ StandingAmounts(m)' \in [Orders -> Int]
        /\ StandingFees(m) \in [Orders -> Int] /\ StandingFees(m)' \in [Orders -> Int]
    <2>1. StandingOK
      BY StandingIsInteger
    <2>2. (Inv => StandingOK)'
      BY StandingIsInteger, PTL
    <2>3. QED
      BY <2>1, <2>2 DEF StandingOK, StandingAmounts, StandingFees
  <1>2. SumFunction(StandingAmounts(m)')
          = SumFunction(StandingAmounts(m)) + (StandingAmount(o, m)' - StandingAmount(o, m))
    <2> DEFINE f == StandingAmounts(m)
               h == StandingAmounts(m)'
    <2>1. \A p \in Orders \ {o} : h[p] = f[p]
      BY DEF StandingAmounts
    <2>2. h[o] = StandingAmount(o, m)' /\ f[o] = StandingAmount(o, m)
      BY DEF StandingAmounts
    <2> HIDE DEF f, h
    <2>3. SumFunction(h) = SumFunction(f) + (h[o] - f[o])
      BY <1>1, <2>1, OrdersAreFinite, SumChange DEF f, h
    <2>4. QED
      BY <2>2, <2>3 DEF f, h
  <1>3. SumFunction(StandingFees(m)')
          = SumFunction(StandingFees(m)) + (StandingFee(o, m)' - StandingFee(o, m))
    <2> DEFINE f == StandingFees(m)
               h == StandingFees(m)'
    <2>1. \A p \in Orders \ {o} : h[p] = f[p]
      BY DEF StandingFees
    <2>2. h[o] = StandingFee(o, m)' /\ f[o] = StandingFee(o, m)
      BY DEF StandingFees
    <2> HIDE DEF f, h
    <2>3. SumFunction(h) = SumFunction(f) + (h[o] - f[o])
      BY <1>1, <2>1, OrdersAreFinite, SumChange DEF f, h
    <2>4. QED
      BY <2>2, <2>3 DEF f, h
  <1>4. StandingFee(o, m)' - StandingFee(o, m) \in Int
    BY <1>1 DEF StandingFees
  <1>5. SumFunction(profit'[m])
          = SumFunction(profit[m]) + (StandingFee(o, m)' - StandingFee(o, m))
    <2> DEFINE d == StandingFee(o, m)' - StandingFee(o, m)
    <2>1. profit[m] \in [Months -> Int] /\ month \in Months
      BY DEF Inv, TypeOK
    <2>2. profit'[m] \in [Months -> Int]
      BY DEF Inv, TypeOK
    <2>3. \A k \in Months \ {month} : profit'[m][k] = profit[m][k]
      BY <2>1
    <2>4. profit'[m][month] = profit[m][month] + d
      BY <2>1
    <2>5. SumFunction(profit'[m])
            = SumFunction(profit[m]) + (profit'[m][month] - profit[m][month])
      BY <2>1, <2>2, <2>3, MonthsAreFinite, SumChange
    <2> HIDE DEF d
    <2>6. profit'[m][month] - profit[m][month] = d
      BY <2>1, <2>4, <1>4 DEF d
    <2>7. QED
      BY <2>5, <2>6 DEF d
  <1>6. SumFunction(StandingAmounts(m)) \in Int /\ adjusted[m] \in Int
    BY <1>1, OrdersAreFinite, SumIsInteger DEF Inv, TypeOK
  <1>7. StandingAmount(o, m)' - StandingAmount(o, m) \in Int
    BY <1>1 DEF StandingAmounts
  <1>8. balance'[m] = adjusted'[m] + SumFunction(StandingAmounts(m)')
    BY <1>2, <1>6, <1>7 DEF Balanced
  <1>9. SumFunction(profit'[m]) = SumFunction(StandingFees(m)')
    BY <1>3, <1>5 DEF Balanced
  <1>10. QED
    BY <1>8, <1>9 DEF Balanced

LEMMA BooksInit == Init => BooksAddUp
  <1> SUFFICES ASSUME Init, NEW m \in Members
               PROVE  Balanced(m)
    BY InvInit, BooksBalance
  <1>1. Inv
    BY InvInit
  <1>2. \A o \in Orders : StandingAmount(o, m) = 0 /\ StandingFee(o, m) = 0
    BY DEF Init, NoOrder, StandingAmount, StandingFee, Stands, EntryOf
  <1>3. /\ StandingAmounts(m) = [o \in Orders |-> 0] /\ StandingFees(m) = [o \in Orders |-> 0]
        /\ profit[m] = [k \in Months |-> 0] /\ balance[m] = 0 /\ adjusted[m] = 0
    BY <1>2 DEF StandingAmounts, StandingFees, Init
  <1>4. QED
    BY <1>3, SumOfZeros, OrdersAreFinite, MonthsAreFinite DEF Balanced

LEMMA PostingBalances ==
  ASSUME Inv, Inv', NEW m \in Members, Balanced(m), UNCHANGED adjusted,
         NEW o \in Orders, NEW e \in L!Entry, L!Post(o, e)
  PROVE  Balanced(m)'
  <1>1. /\ EntryOf(o) = None /\ EntryOf(o)' = e /\ e # None
        /\ \A p \in Orders \ {o} : EntryOf(p)' = EntryOf(p)
        /\ ReversedOrders' = ReversedOrders
    BY OrdersAssumption DEF L!Post, L!Entry, EntryOf, ReversedOrders
  <1>2. o \notin ReversedOrders
    BY <1>1, CompletedEntry DEF ReversedOrders
  <1>3. /\ StandingAmount(o, m) = 0 /\ StandingAmount(o, m)' = L!BalanceEffect(e, m)
        /\ StandingFee(o, m) = 0 /\ StandingFee(o, m)' = L!ProfitEffect(e, m)
    BY <1>1, <1>2 DEF StandingAmount, StandingFee, Stands
  <1>4. \A p \in Orders \ {o} : UNCHANGED <<StandingAmount(p, m), StandingFee(p, m)>>
    BY <1>1 DEF StandingAmount, StandingFee, Stands
  <1>5. L!BalanceEffect(e, m) \in Int /\ L!ProfitEffect(e, m) \in Int
    BY EffectsAreIntegers
  <1>6. /\ balance'[m] = balance[m] + (L!BalanceEffect(e, m) - 0)
        /\ profit'[m] = [profit[m] EXCEPT ![month] = @ + (L!ProfitEffect(e, m) - 0)]
    BY <1>5 DEF L!Post
  <1>7. QED
    BY <1>3, <1>4, <1>6, BooksChange

LEMMA ReversalBalances ==
  ASSUME Inv, Inv', NEW m \in Members, Balanced(m), UNCHANGED adjusted,
         NEW o \in Orders, L!Reverse(o)
  PROVE  Balanced(m)'
  <1>1. /\ EntryOf(o) # None /\ o \notin ReversedOrders
        /\ \A p \in Orders : EntryOf(p)' = EntryOf(p)
        /\ ReversedOrders' = ReversedOrders \cup {o}
    BY DEF L!Reverse, EntryOf, ReversedOrders
  <1> DEFINE e == EntryOf(o)
  <1>2. e \in L!Entry
    BY <1>1, CompletedEntry DEF EntryOf
  <1>3. /\ StandingAmount(o, m) = L!BalanceEffect(e, m) /\ StandingAmount(o, m)' = 0
        /\ StandingFee(o, m) = L!ProfitEffect(e, m) /\ StandingFee(o, m)' = 0
    BY <1>1 DEF StandingAmount, StandingFee, Stands
  <1>4. \A p \in Orders \ {o} : UNCHANGED <<StandingAmount(p, m), StandingFee(p, m)>>
    BY <1>1 DEF StandingAmount, StandingFee, Stands
  <1>5. L!BalanceEffect(e, m) \in Int /\ L!ProfitEffect(e, m) \in Int
    BY <1>2, EffectsAreIntegers
  <1>6. /\ balance'[m] = balance[m] - L!BalanceEffect(e, m)
        /\ profit'[m] = [profit[m] EXCEPT ![month] = @ - L!ProfitEffect(e, m)]
    BY DEF L!Reverse, EntryOf
  <1>7. /\ balance[m] - L!BalanceEffect(e, m) = balance[m] + (0 - L!BalanceEffect(e, m))
        /\ profit[m][month] - L!ProfitEffect(e, m) = profit[m][month] + (0 - L!ProfitEffect(e, m))
    BY <1>5 DEF Inv, TypeOK
  <1>8. /\ balance'[m] = balance[m] + (0 - L!BalanceEffect(e, m))
        /\ profit'[m] = [profit[m] EXCEPT ![month] = @ + (0 - L!ProfitEffect(e, m))]
    BY <1>6, <1>7
  <1> HIDE DEF e
  <1>9. QED
    BY <1>3, <1>4, <1>8, BooksChange

LEMMA AdjustmentBalances ==
  ASSUME Inv, Inv', NEW m \in Members, Balanced(m), BalanceStep
  PROVE  Balanced(m)'
  <1>1. PICK a \in Members, t \in Members, v \in Adjustments : AdjustBalance(a, t, v)
    BY DEF BalanceStep
  <1>2. /\ \A p \in Orders : EntryOf(p)' = EntryOf(p)
        /\ ReversedOrders' = ReversedOrders /\ UNCHANGED profit
    BY <1>1 DEF AdjustBalance, EntryOf, AgreedEntry, ReversedOrders
  <1>3. UNCHANGED <<StandingAmounts(m), StandingFees(m), profit>>
    BY <1>2 DEF StandingAmounts, StandingFees, StandingAmount, StandingFee, Stands
  <1>4. SumFunction(StandingAmounts(m)) \in Int
    <2>1. StandingAmounts(m) \in [Orders -> Int]
      BY StandingIsInteger DEF StandingOK, StandingAmounts
    <2>2. QED
      BY <2>1, OrdersAreFinite, SumIsInteger
  <1>5. balance[m] \in Int /\ adjusted[m] \in Int /\ v \in Int
    BY OrdersAssumption DEF Inv, TypeOK
  <1>6. balance'[m] - balance[m] = adjusted'[m] - adjusted[m]
        /\ balance'[m] \in Int /\ adjusted'[m] \in Int
    BY <1>1, <1>5 DEF AdjustBalance, Inv, TypeOK
  <1>7. balance'[m] = adjusted'[m] + SumFunction(StandingAmounts(m))
    BY <1>4, <1>5, <1>6 DEF Balanced
  <1>8. QED
    BY <1>3, <1>7 DEF Balanced

LEMMA BooksStep == Inv /\ Inv' /\ BooksAddUp /\ [Next]_vars => BooksAddUp'
  <1> SUFFICES ASSUME Inv, Inv', \A m \in Members : Balanced(m), [Next]_vars, NEW m \in Members
               PROVE  Balanced(m)'
    <2>1. Inv => (BooksAddUp <=> \A m \in Members : Balanced(m))
      BY BooksBalance
    <2>2. (Inv => (BooksAddUp <=> \A m \in Members : Balanced(m)))'
      BY BooksBalance, PTL
    <2>3. QED
      BY <2>1, <2>2
  <1>1. CASE UNCHANGED adjusted /\ (UNCHANGED L!vars \/ L!NextMonth)
    <2>1. /\ \A p \in Orders : EntryOf(p)' = EntryOf(p)
          /\ ReversedOrders' = ReversedOrders /\ UNCHANGED <<balance, profit>>
      BY <1>1 DEF L!vars, L!NextMonth, EntryOf, ReversedOrders
    <2>2. UNCHANGED <<StandingAmounts(m), StandingFees(m), balance, profit, adjusted>>
      BY <1>1, <2>1 DEF StandingAmounts, StandingFees, StandingAmount, StandingFee, Stands
    <2>3. QED
      BY <2>2 DEF Balanced
  <1>2. ASSUME UNCHANGED adjusted, NEW o \in Orders, NEW e \in L!Entry, L!Post(o, e)
        PROVE  Balanced(m)'
    BY <1>2, PostingBalances
  <1>3. ASSUME UNCHANGED adjusted, NEW o \in Orders, L!Reverse(o)
        PROVE  Balanced(m)'
    BY <1>3, ReversalBalances
  <1>4. CASE BalanceStep
    BY <1>4, AdjustmentBalances
  <1>5. QED
    BY <1>1, <1>2, <1>3, <1>4, OrderEffects, Zenon

(* The books add up, for any number of orders and members: each balance is *)
(* its adjustments and the completed orders, each profit the fees of the   *)
(* completed orders, whatever was confirmed, corrected, edited and         *)
(* reversed on the way, in whichever months (effects.go).                  *)
THEOREM MoneyIsAccountedFor == Spec => []BooksAddUp
  <1>1. Spec => []Inv
    BY InvHolds
  <1>2. Init => BooksAddUp
    BY BooksInit
  <1>3. Inv /\ Inv' /\ BooksAddUp /\ [Next]_vars => BooksAddUp'
    BY BooksStep
  <1>4. QED
    BY <1>1, <1>2, <1>3, PTL DEF Spec
=============================================================================
