----------------------------- MODULE DebtsProofs -----------------------------
(***************************************************************************)
(* Module Debts keeps its books for any debts, connections and amounts.    *)
(***************************************************************************)
EXTENDS Debts, TLAPS

(* One step of the request on connection c. *)
RequestStep(c) ==
  \/ \E op \in {"repay", "complete"}, d \in Debts, amount \in Payments \cup {0} :
       Begin(c, op, d, amount)
  \/ Lock(c) \/ Rollback(c) \/ CommitRepay(c) \/ CommitComplete(c) \/ Respond(c)

(* The conjuncts of Inv but its type, the part of TypeOK each step needs   *)
(* proved apart.                                                           *)
Books == RepaymentsAddUp /\ ActiveDebtsOwe /\ DeletedDebtsExisted

Current == LockedRequestsAreCurrent /\ CommittedRequestsAreCounted

(* None is no request.                                                     *)
LEMMA NoneIsNoRequest == None \notin Request
  BY DebtsAssumption DEF Request

LEMMA AmountsAreIntegers == Payments \cup {0} \subseteq Int /\ Originals \cup {0} \subseteq Int
  BY DebtsAssumption

(* Nobody owes, asks or was answered anything at first.                    *)
LEMMA InitInv == Init => Inv
<1> SUFFICES ASSUME Init PROVE Inv
  OBVIOUS
<1>1. TypeOK
  BY DEF Init, TypeOK, NoDebt, Debt
<1>2. Books
  BY DEF Init, Books, RepaymentsAddUp, ActiveDebtsOwe, DeletedDebtsExisted, NoDebt
<1>3. Current /\ AnswersShowTheRequest
  BY DEF Init, Current, LockedRequestsAreCurrent, CommittedRequestsAreCounted,
         AnswersShowTheRequest
<1> QED
  BY <1>1, <1>2, <1>3 DEF Inv, Books, Current

(* A deletion or a creation: debt d changes while nobody has its lock. *)
LEMMA FreeDebtInv ==
  ASSUME Inv, NEW d \in Debts, NEW new \in Debt,
         debt' = [debt EXCEPT ![d] = new], UNCHANGED <<request, answer>>,
         Free(d) \/ debt[d].status = "none",
         new.remaining + new.repaid = new.original, new.remaining >= 0, new.repaid >= 0,
         new.status = "active" => new.remaining >= 1,
         new.deleted => new.status # "none",
         debt[d].status = "none" \/ (new.status = debt[d].status /\ new.remaining = debt[d].remaining)
  PROVE  Inv'
<1>1. TypeOK'
  BY DEF TypeOK, Inv
<1>2. \A e \in Debts : debt'[e] = IF e = d THEN new ELSE debt[e]
  BY DEF TypeOK, Inv
<1>3. Books'
  BY <1>2 DEF Inv, Books, RepaymentsAddUp, ActiveDebtsOwe, DeletedDebtsExisted
<1>4. LockedRequestsAreCurrent'
  <2> SUFFICES ASSUME NEW c \in Conns, request[c] # None, request[c].at = "locked"
               PROVE  /\ Found(request[c].debt)' /\ debt'[request[c].debt].status = "active"
                      /\ request[c].remaining = debt'[request[c].debt].remaining
                      /\ request[c].op = "repay" =>
                           ValidRepayment(request[c].amount, request[c].debt)'
                      /\ \A other \in Conns \ {c} : ~Holds(other, request[c].debt)'
    BY DEF LockedRequestsAreCurrent, Found, ValidRepayment, Holds
  <2>1. request[c].debt \in Debts
    BY DEF Inv, TypeOK, Request
  <2>2. Found(request[c].debt) /\ ~Free(request[c].debt)
    BY DEF Inv, LockedRequestsAreCurrent, Free, Holds
  <2>3. debt'[request[c].debt] = debt[request[c].debt]
    BY <1>2, <2>1, <2>2 DEF Found
  <2> QED
    BY <2>3 DEF Inv, LockedRequestsAreCurrent, Found, ValidRepayment, Holds
<1>5. CommittedRequestsAreCounted'
  <2> SUFFICES ASSUME NEW c \in Conns, request[c] # None, request[c].at = "committed"
               PROVE  /\ debt'[request[c].debt].status # "none"
                      /\ debt'[request[c].debt].remaining <= request[c].remaining
    BY DEF CommittedRequestsAreCounted
  <2>1. request[c].debt \in Debts
    BY DEF Inv, TypeOK, Request
  <2> QED
    BY <1>2, <2>1 DEF Inv, CommittedRequestsAreCounted
<1>6. AnswersShowTheRequest'
  BY DEF Inv, AnswersShowTheRequest
<1> QED
  BY <1>1, <1>3, <1>4, <1>5, <1>6 DEF Inv, Books

LEMMA CreateInv ==
  ASSUME Inv, NEW d \in Debts, NEW amount \in Originals, Create(d, amount)
  PROVE  Inv'
<1> DEFINE new == [status |-> "active", deleted |-> FALSE, original |-> amount,
                   remaining |-> amount, repaid |-> 0]
<1>1. amount \in Nat /\ amount >= 1
  BY DebtsAssumption
<1>2. new \in Debt
  BY <1>1 DEF Debt
<1>3. /\ debt[d].status = "none" /\ debt' = [debt EXCEPT ![d] = new]
      /\ UNCHANGED <<request, answer>>
  BY DEF Create
<1>4. /\ new.remaining + new.repaid = new.original /\ new.remaining >= 0 /\ new.repaid >= 0
      /\ new.status = "active" => new.remaining >= 1
      /\ ~new.deleted
  BY <1>1
<1> HIDE DEF new
<1> QED
  BY <1>2, <1>3, <1>4, FreeDebtInv

LEMMA DeleteInv ==
  ASSUME Inv, NEW d \in Debts, Delete(d)
  PROVE  Inv'
<1> DEFINE new == [debt[d] EXCEPT !.deleted = TRUE]
<1>1. debt[d] \in Debt
  BY DEF Inv, TypeOK
<1>2. new \in Debt
  BY <1>1, Zenon DEF Debt
<1>3. /\ new.status = debt[d].status /\ new.remaining = debt[d].remaining
      /\ new.repaid = debt[d].repaid /\ new.original = debt[d].original
  BY <1>1 DEF Debt
<1>4. /\ debt[d].remaining + debt[d].repaid = debt[d].original
      /\ debt[d].remaining >= 0 /\ debt[d].repaid >= 0
      /\ debt[d].status = "active" => debt[d].remaining >= 1
  BY DEF Inv, RepaymentsAddUp, ActiveDebtsOwe
<1>5. /\ debt' = [debt EXCEPT ![d] = new] /\ UNCHANGED <<request, answer>>
      /\ Free(d) /\ debt[d].status # "none"
  BY DEF Delete, Found
<1> HIDE DEF new
<1> QED
  BY <1>2, <1>3, <1>4, <1>5, FreeDebtInv

(* A request begins, is refused, or takes the lock.                        *)
LEMMA RequestChangeInv ==
  ASSUME Inv, NEW c \in Conns, NEW r \in Request \cup {None},
         request' = [request EXCEPT ![c] = r], UNCHANGED <<debt, answer>>,
         r # None => r.at \in {"begun", "locked"},
         r # None /\ r.at = "locked" =>
           /\ Found(r.debt) /\ debt[r.debt].status = "active"
           /\ r.remaining = debt[r.debt].remaining
           /\ r.op = "repay" => ValidRepayment(r.amount, r.debt)
           /\ Free(r.debt)
  PROVE  Inv'
<1>1. TypeOK'
  BY DEF Inv, TypeOK
<1>2. \A e \in Conns : request'[e] = IF e = c THEN r ELSE request[e]
  BY DEF Inv, TypeOK
<1>3. Books'
  BY DEF Inv, Books, RepaymentsAddUp, ActiveDebtsOwe, DeletedDebtsExisted
<1>4. LockedRequestsAreCurrent'
  <2> SUFFICES ASSUME NEW e \in Conns, request'[e] # None, request'[e].at = "locked"
               PROVE  /\ Found(request'[e].debt) /\ debt[request'[e].debt].status = "active"
                      /\ request'[e].remaining = debt[request'[e].debt].remaining
                      /\ request'[e].op = "repay" =>
                           ValidRepayment(request'[e].amount, request'[e].debt)
                      /\ \A other \in Conns \ {e} :
                           ~(/\ request'[other] # None
                             /\ request'[other].debt = request'[e].debt
                             /\ request'[other].at = "locked")
    BY DEF LockedRequestsAreCurrent, Found, ValidRepayment, Holds
  <2>1. CASE e = c
    BY <1>2, <2>1 DEF Free, Holds
  <2>2. CASE e # c
    <3>1. request'[e] = request[e]
      BY <1>2, <2>2
    <3>2. Holds(e, request[e].debt)
      BY <3>1 DEF Holds
    <3> QED
      BY <1>2, <2>2, <3>1, <3>2 DEF Inv, LockedRequestsAreCurrent, Free, Holds
  <2> QED
    BY <2>1, <2>2
<1>5. CommittedRequestsAreCounted'
  BY <1>2 DEF Inv, CommittedRequestsAreCounted
<1>6. AnswersShowTheRequest'
  BY DEF Inv, AnswersShowTheRequest
<1> QED
  BY <1>1, <1>3, <1>4, <1>5, <1>6 DEF Inv, Books

LEMMA BeginInv ==
  ASSUME Inv, NEW c \in Conns, NEW op \in {"repay", "complete"}, NEW d \in Debts,
         NEW amount \in Payments \cup {0}, Begin(c, op, d, amount)
  PROVE  Inv'
<1> DEFINE r == [op |-> op, debt |-> d, amount |-> amount, at |-> "begun", remaining |-> 0]
<1>1. r \in Request
  BY DEF Request
<1> QED
  BY <1>1, RequestChangeInv DEF Begin

LEMMA LockInv ==
  ASSUME Inv, NEW c \in Conns, Lock(c)
  PROVE  Inv'
<1> DEFINE r == [request[c] EXCEPT !.at = "locked", !.remaining = debt[request[c].debt].remaining]
<1>1. request[c] \in Request
  BY DEF Inv, TypeOK, Lock
<1>2. request[c].debt \in Debts
  BY <1>1 DEF Request
<1>3. debt[request[c].debt].remaining \in Nat
  BY <1>2 DEF Inv, TypeOK, Debt, RepaymentsAddUp
<1>4. r \in Request
  BY <1>1, <1>3, Zenon DEF Request
<1>5. /\ r.at = "locked" /\ r.remaining = debt[request[c].debt].remaining
      /\ r.op = request[c].op /\ r.amount = request[c].amount /\ r.debt = request[c].debt
  BY <1>1 DEF Request
<1>6. /\ request' = [request EXCEPT ![c] = r] /\ UNCHANGED <<debt, answer>>
      /\ Free(request[c].debt) /\ May(request[c])
  BY DEF Lock
<1> HIDE DEF r
<1> QED
  BY <1>4, <1>5, <1>6, RequestChangeInv DEF May

LEMMA RollbackInv ==
  ASSUME Inv, NEW c \in Conns, Rollback(c)
  PROVE  Inv'
  BY RequestChangeInv DEF Rollback

(* What a request may do that holds the lock: the debt shrinks, or closes. *)
LEMMA CommitInv ==
  ASSUME Inv, NEW c \in Conns, request[c] # None, request[c].at = "locked",
         NEW new \in Debt, NEW r \in Request,
         debt' = [debt EXCEPT ![request[c].debt] = new],
         request' = [request EXCEPT ![c] = r], answer' = answer,
         r.at = "committed", r.debt = request[c].debt, r.remaining = new.remaining,
         new.status \in {"active", "completed"},
         new.remaining <= debt[request[c].debt].remaining,
         new.remaining + new.repaid = new.original, new.remaining >= 0, new.repaid >= 0,
         new.status = "active" => new.remaining >= 1
  PROVE  Inv'
<1> DEFINE d == request[c].debt
<1>1. d \in Debts
  BY DEF Inv, TypeOK, Request
<1>2. TypeOK'
  BY DEF Inv, TypeOK
<1>3. \A e \in Debts : debt'[e] = IF e = d THEN new ELSE debt[e]
  BY DEF Inv, TypeOK
<1>4. \A e \in Conns : request'[e] = IF e = c THEN r ELSE request[e]
  BY DEF Inv, TypeOK
<1>5. Holds(c, d)
  BY DEF Holds
<1>6. \A e \in Conns : request[e] # None => request[e].debt \in Debts
  BY DEF Inv, TypeOK, Request
<1>7. Books'
  BY <1>3 DEF Inv, Books, RepaymentsAddUp, ActiveDebtsOwe, DeletedDebtsExisted
<1>8. LockedRequestsAreCurrent'
  <2> SUFFICES ASSUME NEW e \in Conns, request'[e] # None, request'[e].at = "locked"
               PROVE  LET row == debt'[request'[e].debt] IN
                      /\ row.status # "none" /\ ~row.deleted /\ row.status = "active"
                      /\ request'[e].remaining = row.remaining
                      /\ request'[e].op = "repay" =>
                           request'[e].amount >= 1 /\ request'[e].amount <= row.remaining
                      /\ \A other \in Conns \ {e} :
                           ~(/\ request'[other] # None
                             /\ request'[other].debt = request'[e].debt
                             /\ request'[other].at = "locked")
    BY DEF LockedRequestsAreCurrent, Found, ValidRepayment, Holds
  <2>1. e # c /\ request'[e] = request[e]
    BY <1>4
  <2>2. request[e].debt # d
    BY <1>5, <2>1 DEF Inv, LockedRequestsAreCurrent
  <2>3. debt'[request[e].debt] = debt[request[e].debt]
    BY <1>3, <1>6, <2>1, <2>2
  <2>4. \A other \in Conns \ {e} : ~Holds(other, request[e].debt)
    BY <2>1 DEF Inv, LockedRequestsAreCurrent
  <2>5. \A other \in Conns \ {e} :
          ~(/\ request'[other] # None
            /\ request'[other].debt = request'[e].debt
            /\ request'[other].at = "locked")
    BY <1>4, <2>1, <2>4 DEF Holds
  <2> QED
    BY <2>1, <2>3, <2>5 DEF Inv, LockedRequestsAreCurrent, Found, ValidRepayment
<1>9. CommittedRequestsAreCounted'
  <2> SUFFICES ASSUME NEW e \in Conns, request'[e] # None, request'[e].at = "committed"
               PROVE  /\ debt'[request'[e].debt].status # "none"
                      /\ debt'[request'[e].debt].remaining <= request'[e].remaining
    BY DEF CommittedRequestsAreCounted
  <2>1. CASE e = c
    BY <1>1, <1>3, <1>4, <2>1 DEF Debt
  <2>2. CASE e # c
    <3>1. request'[e] = request[e] /\ request[e] \in Request
      BY <1>4, <2>2 DEF Inv, TypeOK
    <3>2. /\ debt[request[e].debt].status # "none"
          /\ debt[request[e].debt].remaining <= request[e].remaining
      BY <3>1 DEF Inv, CommittedRequestsAreCounted
    <3>3. /\ debt[d] \in Debt /\ request[e].debt \in Debts /\ request[e].remaining \in Nat
          /\ debt[d].remaining \in Int /\ new.remaining \in Int
      BY <1>1, <3>1 DEF Inv, TypeOK, Request, Debt
    <3> QED
      BY <1>3, <3>1, <3>2, <3>3
  <2> QED
    BY <2>1, <2>2
<1>10. AnswersShowTheRequest'
  BY DEF Inv, AnswersShowTheRequest
<1> QED
  BY <1>2, <1>7, <1>8, <1>9, <1>10 DEF Inv, Books

(* What is known of the debt of a request that holds its lock.             *)
LEMMA LockedDebt ==
  ASSUME Inv, NEW c \in Conns, request[c] # None, request[c].at = "locked"
  PROVE  LET r == request[c]
             row == debt[r.debt]
         IN /\ r \in Request /\ r.debt \in Debts /\ row \in Debt
            /\ row.status = "active" /\ row.remaining = r.remaining
            /\ row.remaining \in Int /\ row.repaid \in Int /\ row.original \in Int
            /\ row.remaining + row.repaid = row.original
            /\ row.remaining >= 1 /\ row.repaid >= 0
            /\ r.op = "repay" => r.amount \in Int /\ r.amount >= 1 /\ r.amount <= row.remaining
<1>1. request[c] \in Request /\ request[c].debt \in Debts
  BY DEF Inv, TypeOK, Request
<1>2. debt[request[c].debt] \in Debt
  BY <1>1 DEF Inv, TypeOK
<1>3. request[c].amount \in Payments \cup {0} /\ debt[request[c].debt].original \in Originals \cup {0}
  BY <1>1, <1>2 DEF Request, Debt
<1>4. request[c].amount \in Int /\ debt[request[c].debt].original \in Int
  BY <1>3, AmountsAreIntegers
<1> QED
  BY <1>1, <1>2, <1>4
  DEF Inv, LockedRequestsAreCurrent, RepaymentsAddUp, ActiveDebtsOwe, ValidRepayment, Debt

LEMMA CommitRepayInv ==
  ASSUME Inv, NEW c \in Conns, CommitRepay(c)
  PROVE  Inv'
<1> DEFINE old == debt[request[c].debt]
           pay == request[c].amount
           new == [old EXCEPT !.repaid = old.repaid + pay, !.remaining = old.remaining - pay,
                              !.status = IF pay = request[c].remaining THEN "completed"
                                                                      ELSE old.status]
           r == [request[c] EXCEPT !.at = "committed", !.remaining = request[c].remaining - pay]
<1>1. request[c] # None /\ request[c].at = "locked" /\ request[c].op = "repay"
  BY DEF CommitRepay
<1>2. /\ request[c] \in Request /\ request[c].debt \in Debts /\ old \in Debt
      /\ old.status = "active" /\ old.remaining = request[c].remaining
      /\ old.remaining \in Int /\ old.repaid \in Int /\ old.original \in Int
      /\ old.remaining + old.repaid = old.original
      /\ old.repaid >= 0 /\ pay \in Int /\ pay >= 1 /\ pay <= old.remaining
  BY <1>1, LockedDebt
<1>3. old.repaid + pay \in Int /\ old.remaining - pay \in Int /\ request[c].remaining - pay \in Nat
  BY <1>2
<1>4. new \in Debt
  BY <1>2, <1>3, Zenon DEF Debt
<1>5. r \in Request
  BY <1>2, <1>3, Zenon DEF Request
<1>6. /\ new.repaid = old.repaid + pay /\ new.remaining = old.remaining - pay
      /\ new.original = old.original
      /\ new.status = IF pay = request[c].remaining THEN "completed" ELSE "active"
  BY <1>2 DEF Debt
<1>7. /\ r.at = "committed" /\ r.debt = request[c].debt
      /\ r.remaining = request[c].remaining - pay
  BY <1>2 DEF Request
<1>8. /\ debt' = [debt EXCEPT ![request[c].debt] = new]
      /\ request' = [request EXCEPT ![c] = r] /\ answer' = answer
  BY Zenon DEF CommitRepay
<1>9. /\ r.remaining = new.remaining
      /\ new.remaining + new.repaid = new.original /\ new.remaining >= 0 /\ new.repaid >= 0
      /\ new.remaining <= old.remaining
      /\ new.status = "active" => new.remaining >= 1
  BY <1>2, <1>6, <1>7
<1>10. new.status \in {"active", "completed"}
  BY <1>6
<1> HIDE DEF old, pay, new, r
<1> QED
  BY <1>1, <1>4, <1>5, <1>7, <1>8, <1>9, <1>10, CommitInv DEF old

LEMMA CommitCompleteInv ==
  ASSUME Inv, NEW c \in Conns, CommitComplete(c)
  PROVE  Inv'
<1> DEFINE old == debt[request[c].debt]
           new == [old EXCEPT !.status = "completed"]
           r == [request[c] EXCEPT !.at = "committed"]
<1>1. request[c] # None /\ request[c].at = "locked"
  BY DEF CommitComplete
<1>2. /\ request[c] \in Request /\ old \in Debt /\ old.remaining = request[c].remaining
      /\ old.remaining \in Int /\ old.remaining + old.repaid = old.original
      /\ old.remaining >= 1 /\ old.repaid >= 0
  BY <1>1, LockedDebt
<1>3. new \in Debt
  BY <1>2, Zenon DEF Debt
<1>4. r \in Request
  BY <1>2, Zenon DEF Request
<1>5. /\ new.repaid = old.repaid /\ new.remaining = old.remaining
      /\ new.original = old.original /\ new.status = "completed"
  BY <1>2 DEF Debt
<1>6. r.at = "committed" /\ r.debt = request[c].debt /\ r.remaining = request[c].remaining
  BY <1>2 DEF Request
<1>7. /\ debt' = [debt EXCEPT ![request[c].debt] = new]
      /\ request' = [request EXCEPT ![c] = r] /\ answer' = answer
  BY DEF CommitComplete
<1>8. new.remaining <= old.remaining /\ new.remaining >= 0
  BY <1>2, <1>5
<1> HIDE DEF old, new, r
<1> QED
  BY <1>1, <1>2, <1>3, <1>4, <1>5, <1>6, <1>7, <1>8, CommitInv DEF old

LEMMA RespondInv ==
  ASSUME Inv, NEW c \in Conns, Respond(c)
  PROVE  Inv'
<1> DEFINE d == request[c].debt
           given == IF Found(d) THEN [left |-> request[c].remaining, shown |-> debt[d].remaining]
                                ELSE None
<1>1. request[c] # None /\ request[c].at = "committed"
  BY DEF Respond
<1>2. request[c] \in Request /\ d \in Debts /\ request[c].remaining \in Int
  BY <1>1 DEF Inv, TypeOK, Request
<1>3. debt[d].remaining \in Int /\ debt[d].remaining <= request[c].remaining
  BY <1>1, <1>2 DEF Inv, TypeOK, CommittedRequestsAreCounted, Debt
<1>4. given \in Answer \cup {None}
  BY <1>2, <1>3 DEF Answer
<1>5. /\ answer' = [answer EXCEPT ![c] = given]
      /\ request' = [request EXCEPT ![c] = None] /\ debt' = debt
  BY DEF Respond
<1>6. \A e \in Conns : /\ answer'[e] = IF e = c THEN given ELSE answer[e]
                       /\ request'[e] = IF e = c THEN None ELSE request[e]
  BY <1>5 DEF Inv, TypeOK
<1>7. TypeOK'
  BY <1>4, <1>5 DEF Inv, TypeOK
<1>8. Books'
  BY <1>5 DEF Inv, Books, RepaymentsAddUp, ActiveDebtsOwe, DeletedDebtsExisted
<1>9. LockedRequestsAreCurrent' /\ CommittedRequestsAreCounted'
  BY <1>5, <1>6 DEF Inv, LockedRequestsAreCurrent, CommittedRequestsAreCounted,
                    Found, ValidRepayment, Holds
<1>10. AnswersShowTheRequest'
  <2>1. given # None => given.shown <= given.left
    BY <1>3
  <2> QED
    BY <1>6, <2>1 DEF Inv, AnswersShowTheRequest
<1> QED
  BY <1>7, <1>8, <1>9, <1>10 DEF Inv, Books

LEMMA NextCases ==
  Next => \/ \E e \in Debts : Delete(e) \/ \E amount \in Originals : Create(e, amount)
          \/ \E c \in Conns : RequestStep(c)
  BY Zenon DEF Next, RequestStep

LEMMA NextInv == Inv /\ [Next]_vars => Inv'
<1> SUFFICES ASSUME Inv, [Next]_vars PROVE Inv'
  OBVIOUS
<1>1. ASSUME NEW d \in Debts, Delete(d) PROVE Inv'
  BY <1>1, DeleteInv
<1>2. ASSUME NEW d \in Debts, NEW amount \in Originals, Create(d, amount) PROVE Inv'
  BY <1>2, CreateInv
<1>3. ASSUME NEW c \in Conns, RequestStep(c) PROVE Inv'
  BY <1>3, BeginInv, LockInv, RollbackInv, CommitRepayInv, CommitCompleteInv, RespondInv
  DEF RequestStep
<1>4. CASE UNCHANGED vars
  BY <1>4 DEF vars, Inv, TypeOK, RepaymentsAddUp, ActiveDebtsOwe, DeletedDebtsExisted,
              LockedRequestsAreCurrent,
              CommittedRequestsAreCounted, AnswersShowTheRequest, Found, ValidRepayment, Holds
<1> QED
  BY <1>1, <1>2, <1>3, <1>4 DEF Next, RequestStep

(* The inductive invariant holds in every reachable state.                 *)
THEOREM InvHolds == Spec => []Inv
<1> QED
  BY InitInv, NextInv, PTL DEF Spec

(* However many repayments, completions and deletions run at once, what    *)
(* was repaid and what remains add up to the debt (Repay's row lock).      *)
THEOREM RepaymentsNeverExceed == Spec => []RepaymentsAddUp
<1>1. Inv => RepaymentsAddUp
  BY DEF Inv
<1> QED
  BY <1>1, InvHolds, PTL

(* An active debt has something left to repay.                             *)
THEOREM ActiveDebtsOweSomething == Spec => []ActiveDebtsOwe
<1>1. Inv => ActiveDebtsOwe
  BY DEF Inv
<1> QED
  BY <1>1, InvHolds, PTL

(* The debt an operation returns is never older than the operation.        *)
THEOREM AnswersAreFresh == Spec => []AnswersShowTheRequest
<1>1. Inv => AnswersShowTheRequest
  BY DEF Inv
<1> QED
  BY <1>1, InvHolds, PTL

(* A completed or deleted debt never changes, also under requests that     *)
(* began before it was closed.                                             *)
THEOREM ClosedDebtsNeverChange == Spec => ClosedDebtsStay
<1> DEFINE Stay == \A d \in Debts :
                     debt[d].status = "completed" \/ debt[d].deleted =>
                       /\ debt'[d].status = debt[d].status
                       /\ debt'[d].remaining = debt[d].remaining
                       /\ debt'[d].repaid = debt[d].repaid
<1>1. Inv /\ [Next]_vars => [Stay]_vars
  <2> SUFFICES ASSUME Inv, [Next]_vars, NEW d \in Debts,
                      debt[d].status = "completed" \/ debt[d].deleted
               PROVE  /\ debt'[d].status = debt[d].status
                      /\ debt'[d].remaining = debt[d].remaining
                      /\ debt'[d].repaid = debt[d].repaid
    OBVIOUS
  <2>1. debt \in [Debts -> Debt] /\ debt[d] \in Debt
    BY DEF Inv, TypeOK
  <2> DEFINE Kept == /\ debt'[d].status = debt[d].status
                     /\ debt'[d].remaining = debt[d].remaining
                     /\ debt'[d].repaid = debt[d].repaid
  <2>2. ASSUME NEW e \in Debts, Delete(e) PROVE Kept
    <3>1. debt'[d] = IF d = e THEN [debt[d] EXCEPT !.deleted = TRUE] ELSE debt[d]
      BY <2>1, <2>2 DEF Delete
    <3> QED
      BY <2>1, <3>1 DEF Debt
  <2>3. ASSUME NEW e \in Debts, NEW amount \in Originals, Create(e, amount) PROVE Kept
    <3>1. debt[e].status = "none"
      BY <2>3 DEF Create
    <3>2. d # e
      BY <3>1 DEF Inv, DeletedDebtsExisted
    <3> QED
      BY <2>1, <2>3, <3>2 DEF Create
  <2>4. ASSUME NEW c \in Conns, CommitRepay(c) \/ CommitComplete(c) PROVE Kept
    <3>1. request[c] # None /\ request[c].at = "locked"
      BY <2>4 DEF CommitRepay, CommitComplete
    <3>2. d # request[c].debt
      BY <3>1 DEF Inv, LockedRequestsAreCurrent, Found
    <3> QED
      BY <2>1, <2>4, <3>2 DEF CommitRepay, CommitComplete
  <2>5. ASSUME NEW c \in Conns, RequestStep(c), ~CommitRepay(c), ~CommitComplete(c)
        PROVE  Kept
    BY <2>5 DEF RequestStep, Begin, Lock, Rollback, Respond
  <2>6. CASE UNCHANGED vars
    BY <2>6 DEF vars
  <2>7. CASE \E e \in Debts : Delete(e) \/ \E amount \in Originals : Create(e, amount)
    BY <2>2, <2>3, <2>7
  <2>8. CASE \E c \in Conns : RequestStep(c)
    BY <2>4, <2>5, <2>8
  <2> QED
    BY <2>6, <2>7, <2>8, NextCases
<1> QED
  BY <1>1, InvHolds, PTL DEF Spec, ClosedDebtsStay
=============================================================================
