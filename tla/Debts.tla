-------------------------------- MODULE Debts --------------------------------
(***************************************************************************)
(* The private debts of one user (internal/debt), statement by statement:  *)
(* several of the owner's devices serve requests on database connections   *)
(* at the same time.                                                       *)
(*                                                                         *)
(* Repay and Complete load the debt FOR UPDATE, decide on what they read,  *)
(* write, commit, and then load the debt once more to answer.  Creation,   *)
(* deletion and the last load are statements of their own.  Requests of    *)
(* another user find no row and leave no trace.                            *)
(***************************************************************************)
EXTENDS Integers

CONSTANTS
  Debts,     \* debt ids
  Conns,     \* connections serving requests at the same time
  Originals, \* amounts a debt may be created with
  Payments,  \* amounts a repayment may ask for, invalid ones included
  None       \* no request

ASSUME DebtsAssumption ==
  /\ Originals \subseteq Nat \ {0}
  /\ Payments \subseteq Int
  /\ None \notin [op : {"repay", "complete"}, debt : Debts, amount : Payments \cup {0},
                  at : {"begun", "locked", "committed"}, remaining : Nat]

VARIABLES
  debt,    \* the debts rows; repaid is the sum of the debt_repayments rows
  request, \* [Conns -> the request being served, or None]
  answer   \* [Conns -> the last debt returned, next to what its request left]

vars == <<debt, request, answer>>

Debt == [status : {"none", "active", "completed"}, deleted : BOOLEAN,
         original : Originals \cup {0}, remaining : Int, repaid : Int]

NoDebt == [status |-> "none", deleted |-> FALSE, original |-> 0, remaining |-> 0, repaid |-> 0]

(* remaining is what the request read under the lock, and what it left     *)
(* once it committed.                                                      *)
Request == [op : {"repay", "complete"}, debt : Debts, amount : Payments \cup {0},
            at : {"begun", "locked", "committed"}, remaining : Nat]

Answer == [left : Int, shown : Int]

Init ==
  /\ debt = [d \in Debts |-> NoDebt]
  /\ request = [c \in Conns |-> None]
  /\ answer = [c \in Conns |-> None]

(* What loadDebt finds. *)
Found(d) == debt[d].status # "none" /\ ~debt[d].deleted

Holds(c, d) == request[c] # None /\ request[c].debt = d /\ request[c].at = "locked"

(* Mutant: the debt is loaded without FOR UPDATE. *)
FreeAlways(d) == d \in Debts

Free(d) == \A c \in Conns : ~Holds(c, d)

Create(d, amount) ==
  /\ debt[d].status = "none"
  /\ debt' = [debt EXCEPT ![d] = [status |-> "active", deleted |-> FALSE, original |-> amount,
                                  remaining |-> amount, repaid |-> 0]]
  /\ UNCHANGED <<request, answer>>

(* One UPDATE, which waits for the row. *)
Delete(d) ==
  /\ Found(d) /\ Free(d)
  /\ debt' = [debt EXCEPT ![d] = [@ EXCEPT !.deleted = TRUE]]
  /\ UNCHANGED <<request, answer>>

Begin(c, op, d, amount) ==
  /\ request[c] = None
  /\ op = "complete" => amount = 0
  /\ request' = [request EXCEPT ![c] = [op |-> op, debt |-> d, amount |-> amount,
                                        at |-> "begun", remaining |-> 0]]
  /\ UNCHANGED <<debt, answer>>

ValidRepayment(amount, d) == amount >= 1 /\ amount <= debt[d].remaining

(* Mutant: a completed debt may be repaid. *)
MayRepayCompleted(r) == Found(r.debt) /\ (r.op = "repay" => ValidRepayment(r.amount, r.debt))

May(r) ==
  /\ Found(r.debt) /\ debt[r.debt].status = "active"
  /\ r.op = "repay" => ValidRepayment(r.amount, r.debt)

(* The row lock is granted and the request is checked against the row.     *)
Lock(c) ==
  /\ request[c] # None /\ request[c].at = "begun"
  /\ Free(request[c].debt)
  /\ May(request[c])
  /\ request' = [request EXCEPT ![c] = [@ EXCEPT !.at = "locked",
                                                 !.remaining = debt[request[c].debt].remaining]]
  /\ UNCHANGED <<debt, answer>>

(* Not found, already completed, an invalid amount; or the connection is   *)
(* lost before the commit.                                                 *)
Rollback(c) ==
  /\ request[c] # None /\ request[c].at \in {"begun", "locked"}
  /\ request' = [request EXCEPT ![c] = None]
  /\ UNCHANGED <<debt, answer>>

(* Mutant: a debt repaid in full stays active. *)
CommitRepayOnly(c) ==
  LET r == request[c] IN
  /\ r # None /\ r.op = "repay" /\ r.at = "locked"
  /\ debt' = [debt EXCEPT ![r.debt].repaid = @ + r.amount, ![r.debt].remaining = @ - r.amount]
  /\ request' = [request EXCEPT ![c].at = "committed", ![c].remaining = @ - r.amount]
  /\ UNCHANGED answer

(* The repayment row, the relative update and markCompleted, made visible. *)
CommitRepay(c) ==
  LET r == request[c]
      row == debt[r.debt]
  IN /\ r # None /\ r.op = "repay" /\ r.at = "locked"
     /\ debt' = [debt EXCEPT ![r.debt] =
                   [row EXCEPT !.repaid = row.repaid + r.amount,
                               !.remaining = row.remaining - r.amount,
                               !.status = IF r.amount = r.remaining THEN "completed"
                                                                    ELSE row.status]]
     /\ request' = [request EXCEPT ![c] = [r EXCEPT !.at = "committed",
                                                    !.remaining = r.remaining - r.amount]]
     /\ UNCHANGED answer

CommitComplete(c) ==
  LET r == request[c] IN
  /\ r # None /\ r.op = "complete" /\ r.at = "locked"
  /\ debt' = [debt EXCEPT ![r.debt] = [@ EXCEPT !.status = "completed"]]
  /\ request' = [request EXCEPT ![c] = [@ EXCEPT !.at = "committed"]]
  /\ UNCHANGED answer

(* Mutant: the answer is read before the commit. *)
RespondUncommitted(c) ==
  /\ request[c] # None /\ request[c].at = "locked"
  /\ answer' = [answer EXCEPT ![c] = [left |-> request[c].remaining - request[c].amount,
                                      shown |-> debt[request[c].debt].remaining]]
  /\ UNCHANGED <<debt, request>>

(* s.Get after the commit: the debt as it is by now, or not found.         *)
Respond(c) ==
  /\ request[c] # None /\ request[c].at = "committed"
  /\ answer' = [answer EXCEPT ![c] =
                  IF Found(request[c].debt)
                  THEN [left |-> request[c].remaining, shown |-> debt[request[c].debt].remaining]
                  ELSE None]
  /\ request' = [request EXCEPT ![c] = None]
  /\ UNCHANGED debt

Next ==
  \/ \E d \in Debts : Delete(d) \/ \E amount \in Originals : Create(d, amount)
  \/ \E c \in Conns :
       \/ \E op \in {"repay", "complete"}, d \in Debts, amount \in Payments \cup {0} :
            Begin(c, op, d, amount)
       \/ Lock(c) \/ Rollback(c) \/ CommitRepay(c) \/ CommitComplete(c) \/ Respond(c)

Spec == Init /\ [][Next]_vars

-----------------------------------------------------------------------------
(* Properties. *)

TypeOK ==
  /\ debt \in [Debts -> Debt]
  /\ request \in [Conns -> Request \cup {None}]
  /\ answer \in [Conns -> Answer \cup {None}]

(* Whatever repayments run at the same moment, together they never exceed  *)
(* the debt, and nothing is repaid without being deducted (the table's     *)
(* check constraint and the history of repayments).                        *)
RepaymentsAddUp ==
  \A d \in Debts :
    /\ debt[d].remaining + debt[d].repaid = debt[d].original
    /\ debt[d].remaining >= 0 /\ debt[d].repaid >= 0

(* The summary of active debts never lists one that is repaid already: the *)
(* repayment that brings the rest to zero completes the debt.              *)
ActiveDebtsOwe == \A d \in Debts : debt[d].status = "active" => debt[d].remaining >= 1

(* A debt that was completed or deleted is history: nothing is paid into   *)
(* it later, not even by a request that began before.                      *)
ClosedDebtsStay ==
  [][\A d \in Debts :
       debt[d].status = "completed" \/ debt[d].deleted =>
         /\ debt'[d].status = debt[d].status
         /\ debt'[d].remaining = debt[d].remaining
         /\ debt'[d].repaid = debt[d].repaid]_vars

(* The answer is read after the commit, from a debt others may have        *)
(* changed since: it never shows more than what the request itself left.   *)
AnswersShowTheRequest ==
  \A c \in Conns : answer[c] # None => answer[c].shown <= answer[c].left

(* Only a debt that was created can have been deleted.                     *)
DeletedDebtsExisted == \A d \in Debts : debt[d].deleted => debt[d].status # "none"

(* The inductive invariant: what a request decided on still holds while it *)
(* has the lock, and debts only shrink after it.                           *)
LockedRequestsAreCurrent ==
  \A c \in Conns : request[c] # None /\ request[c].at = "locked" =>
    LET d == request[c].debt IN
    /\ Found(d) /\ debt[d].status = "active"
    /\ request[c].remaining = debt[d].remaining
    /\ request[c].op = "repay" => ValidRepayment(request[c].amount, d)
    /\ \A other \in Conns \ {c} : ~Holds(other, d)

CommittedRequestsAreCounted ==
  \A c \in Conns : request[c] # None /\ request[c].at = "committed" =>
    LET d == request[c].debt IN
    debt[d].status # "none" /\ debt[d].remaining <= request[c].remaining

Inv ==
  /\ TypeOK
  /\ RepaymentsAddUp
  /\ ActiveDebtsOwe
  /\ DeletedDebtsExisted
  /\ LockedRequestsAreCurrent
  /\ CommittedRequestsAreCounted
  /\ AnswersShowTheRequest
=============================================================================
