---------------------------- MODULE Transactions ----------------------------
(***************************************************************************)
(* The operations of module Orders statement by statement: requests on     *)
(* several database connections, each in a READ COMMITTED transaction.     *)
(*                                                                         *)
(* A transaction reads what is committed when the statement starts, holds  *)
(* the rows it locked or wrote until it ends, and makes its row versions   *)
(* visible by its commit.  A statement that needs a row another            *)
(* transaction holds waits.  What was read without a lock (the viewer, an  *)
(* employee to resolve, the target of an adjustment, the numbers of a      *)
(* removal) may be stale when it is used.                                  *)
(*                                                                         *)
(* Consecutive statements are one step here when only the first can wait   *)
(* and the others read or write rows the transaction already holds.        *)
(***************************************************************************)
EXTENDS Orders, Sequences

CONSTANTS
  Conns,   \* BOUND: connections serving requests at the same time
  Ops      \* the operations the clients of an instance use

ASSUME TransactionsAssumption ==
  Ops \subseteq {"create", "edit", "confirm", "request", "approve", "reject",
                 "adjust", "remove", "role"}

VARIABLES
  work,   \* [Conns -> the request being served and what it read, or None]
  todo,   \* [Conns -> the statements it still has to run]
  rows,   \* [Conns -> its uncommitted row versions]: rows locked FOR UPDATE
  shares  \* [Conns -> membership rows locked FOR KEY SHARE by foreign keys]

txVars == <<work, todo, rows, shares>>
allVars == <<role, order, confirmation, cancellation, balance, profit, adjusted, month,
             work, todo, rows, shares>>

OrderRow(o) == <<"order", o>>       \* with its confirmations and cancellations
BalanceRow(m) == <<"balance", m>>   \* with the adjustments recorded for it
ProfitRow(m) == <<"profit", m>>     \* the row of the current month
CustomerRow(p) == <<"customer", p>>
MemberRow(m) == <<"member", m>>

Inputs ==
  {in \in [op : {"create", "edit"}, m : Members, o : Orders, g : Members, r : Members,
           amount : Amounts, details : Details]
          \cup [op : {"confirm"}, m : Members, o : Orders, amount : Amounts, fee : Fees]
          \cup [op : {"request", "approve", "reject"}, m : Members, o : Orders]
          \cup [op : {"adjust"}, m : Members, t : Members, value : Adjustments]
          \cup [op : {"remove"}, m : Members, t : Members]
          \cup [op : {"role"}, m : Members, t : Members, r : Roles] : in.op \in Ops}

-----------------------------------------------------------------------------
(* Statements and locks. *)

Statement(do, row, delta) == [do |-> do, row |-> row, delta |-> delta]
Add(row, delta) == Statement("add", row, delta)
KeyOf(m) == Statement("key", MemberRow(m), 0)

Holds(d, row) == row \in DOMAIN rows[d]

(* The connections the next statement of c waits for. *)
WaitsFor(c) ==
  IF todo[c] = <<>> THEN {}
  ELSE LET next == Head(todo[c])
       IN {d \in Conns \ {c} : \/ Holds(d, next.row)
                               \/ next.do # "key" /\ next.row \in shares[d]}

(* Mutants: the order is read without FOR UPDATE, and so is the balance. *)
RunsWithoutOrderLock(c, do) ==
  /\ todo[c] # <<>> /\ Head(todo[c]).do = do
  /\ do = "order" \/ WaitsFor(c) = {}

RunsWithoutBalanceLock(c, do) ==
  /\ todo[c] # <<>> /\ Head(todo[c]).do = do
  /\ do = "balance" \/ WaitsFor(c) = {}

Runs(c, do) ==
  /\ todo[c] # <<>>
  /\ Head(todo[c]).do = do
  /\ WaitsFor(c) = {}

Put(held, row, version) ==
  [x \in DOMAIN held \cup {row} |-> IF x = row THEN version ELSE held[x]]

(* Statement done: the transaction holds row and goes on with more. *)
Continue(c, row, version, more) ==
  /\ rows' = [rows EXCEPT ![c] = Put(@, row, version)]
  /\ todo' = [todo EXCEPT ![c] = more \o Tail(@)]
  /\ UNCHANGED <<work, shares>>

(* Mutant: the transaction is left open, its locks stay. *)
ReleaseNoLocks(c) ==
  /\ work' = [work EXCEPT ![c] = None]
  /\ todo' = [todo EXCEPT ![c] = <<>>]
  /\ UNCHANGED <<rows, shares>>

Release(c) ==
  /\ work' = [work EXCEPT ![c] = None]
  /\ todo' = [todo EXCEPT ![c] = <<>>]
  /\ rows' = [rows EXCEPT ![c] = <<>>]
  /\ shares' = [shares EXCEPT ![c] = {}]

(* Every early return runs the deferred rollback. *)
Refuse(c) == Release(c) /\ UNCHANGED vars

-----------------------------------------------------------------------------
(* The first reads of a request, which take no lock, and the first         *)
(* statement that may wait.  A request refused here leaves no trace.       *)

Start(c, in, saw, statement) ==
  /\ work' = [work EXCEPT ![c] = [in |-> in, as |-> role[in.m], saw |-> saw]]
  /\ todo' = [todo EXCEPT ![c] = <<statement>>]
  /\ UNCHANGED <<role, order, confirmation, cancellation, balance, profit, adjusted, month>>
  /\ UNCHANGED <<rows, shares>>

(* The viewer's rights are those of the role loadViewer found. *)
ManagesAs(m, as) == m = Owner \/ as = "manager"

Joined(o) == <<order[o].giver, order[o].receiver, order[o].details>>

(* loadViewer, then lockOrder begins with the joined rows it sees now.     *)
BeginOnOrder(c, in) ==
  /\ in.op \in {"edit", "confirm", "request", "approve", "reject"}
  /\ IsActive(in.m)
  /\ order[in.o].status # "absent"
  /\ Start(c, in, Joined(in.o), Statement("order", OrderRow(in.o), 0))

Serves(d, op) == work[d] # None /\ work[d].in.op = op

(* The id is fresh: no other Create has it. *)
BeginCreate(c, in) ==
  /\ in.op = "create"
  /\ order[in.o].status = "absent"
  /\ in.o \notin {work[d].in.o : d \in {d \in Conns : Serves(d, "create")}}
  /\ UserOf[in.g] # UserOf[in.r]
  /\ IsActive(in.m) /\ CanWrite(in.m, in.g, in.r)
  /\ Start(c, in, None, Statement("resolve", OrderRow(in.o), 0))

(* loadActor and loadMember without a lock.                                *)
BeginAdjust(c, in) ==
  /\ in.op = "adjust"
  /\ IsActive(in.m) /\ IsManager(in.m)
  /\ role[in.t] = "employee"
  /\ Start(c, in, None, Statement("balance", BalanceRow(in.t), 0))

(* Mutants: a removal asks for one of the two conditions only. *)
BeginOnMemberByBalance(c, in) ==
  /\ in.op \in {"remove", "role"} /\ IsActive(in.m) /\ IsActive(in.t)
  /\ Start(c, in, balance[in.t] = 0, Statement("member", MemberRow(in.t), 0))

BeginOnMemberByOrders(c, in) ==
  /\ in.op \in {"remove", "role"} /\ IsActive(in.m) /\ IsActive(in.t)
  /\ Start(c, in, \A o \in Orders : ~ActiveFor(o, in.t),
           Statement("member", MemberRow(in.t), 0))

(* loadActor, then loadMember FOR UPDATE OF members: the sums and counts   *)
(* it returns are those of the moment the statement began.                 *)
BeginOnMember(c, in) ==
  /\ in.op \in {"remove", "role"}
  /\ IsActive(in.m) /\ IsActive(in.t)
  /\ Start(c, in, Settled(in.t), Statement("member", MemberRow(in.t), 0))

Begin(c) ==
  /\ work[c] = None
  /\ \E in \in Inputs : \/ BeginOnOrder(c, in)
                        \/ BeginCreate(c, in)
                        \/ BeginAdjust(c, in)
                        \/ BeginOnMember(c, in)

-----------------------------------------------------------------------------
(* What an order operation does once it holds the order's row: everything  *)
(* it decides is decided here, the other rows follow one by one.           *)

Version(o) == [order |-> order[o], confirmation |-> confirmation[o],
               cancellation |-> cancellation[o]]

(* The statements that add amount for the two parties and both fees, which *)
(* come in the order the confirmations are read.                           *)
Money(o, sign, amount, conf, first, second) ==
  LET fees == SelectSeq(<<first, second>>, LAMBDA m : conf[m].fee # 0)
  IN <<Add(BalanceRow(order[o].giver), sign * amount),
       Add(BalanceRow(order[o].receiver), -sign * amount)>>
     \o [i \in DOMAIN fees |-> Add(ProfitRow(fees[i]), sign * conf[fees[i]].fee)]

Customers(phones) == [i \in DOMAIN phones |-> Add(CustomerRow(phones[i]), 0)]

MayConfirm(in) == IsParty(in.m, in.o) /\ order[in.o].status = "pending" /\ ~OpenRequest(in.o)

ConfirmLocked(c, in) ==
  LET o == in.o
      conf == [confirmation[o] EXCEPT ![in.m] = [amount |-> in.amount, fee |-> in.fee]]
      keys == IF confirmation[o][in.m] = None THEN <<KeyOf(in.m)>> ELSE <<>>
      confirmed == [Version(o) EXCEPT !.confirmation = conf]
  IN /\ MayConfirm(in)
     /\ \/ /\ \A m, n \in Confirmers(conf) : m # n => conf[m].amount # conf[n].amount
           /\ Continue(c, OrderRow(o), confirmed, keys)
        \/ \E first, second \in Confirmers(conf) :
             /\ first # second /\ conf[first].amount = conf[second].amount
             /\ Continue(c, OrderRow(o),
                         [confirmed EXCEPT !.order.status = "completed",
                                           !.order.completedAt = month],
                         keys \o Money(o, 1, conf[first].amount, conf, first, second))

MayEdit(in, as) ==
  LET old == order[in.o] IN
  /\ old.status = "pending" /\ ~OpenRequest(in.o)
  /\ UserOf[in.g] # UserOf[in.r]
  /\ \/ ManagesAs(in.m, as)
     \/ as = "employee" /\ UserOf[in.m] \in {UserOf[in.g], UserOf[in.r]}
  /\ <<in.g, in.r, in.amount, in.details>> # <<old.giver, old.receiver, old.amount, old.details>>
  /\ KeepsOrResolves(old.giver, in.g) /\ KeepsOrResolves(old.receiver, in.r)

EditLocked(c, in) ==
  LET o == in.o
      keys(new, old) == IF new = old THEN <<>> ELSE <<KeyOf(new)>>
  IN /\ MayEdit(in, work[c].as)
     /\ Continue(c, OrderRow(o),
                 [Version(o) EXCEPT !.order.giver = in.g, !.order.receiver = in.r,
                                    !.order.amount = in.amount, !.order.details = in.details,
                                    !.confirmation = [m \in Members |-> None]],
                 Customers(in.details) \o keys(in.g, order[o].giver)
                                       \o keys(in.r, order[o].receiver))

MayCancelAtOnce(in) ==
  /\ Untouched(in.o) /\ ~OpenRequest(in.o)
  /\ IsParty(in.m, in.o) \/ UserOf[in.m] = order[in.o].creator

(* requireActiveParties counts the parties' memberships without a lock.    *)
MayAsk(in) ==
  /\ order[in.o].status \in {"pending", "completed"}
  /\ ~OpenRequest(in.o) /\ ~Untouched(in.o)
  /\ IsParty(in.m, in.o)
  /\ IsActive(order[in.o].giver) /\ IsActive(order[in.o].receiver)

RequestLocked(c, in) ==
  \/ /\ MayCancelAtOnce(in)
     /\ Continue(c, OrderRow(in.o),
                 [Version(in.o) EXCEPT !.order.status = "cancelled",
                    !.cancellation = [status |-> "approved", requester |-> in.m,
                                      responder |-> in.m]],
                 <<KeyOf(in.m)>>)
  \/ /\ MayAsk(in)
     /\ Continue(c, OrderRow(in.o),
                 [Version(in.o) EXCEPT !.cancellation = [status |-> "pending", requester |-> in.m,
                                                         responder |-> None]],
                 <<KeyOf(in.m)>>)

MayAnswer(in) ==
  /\ IsParty(in.m, in.o) /\ OpenRequest(in.o)
  /\ in.op = "approve" => cancellation[in.o].requester # in.m

AnswerLocked(c, in) ==
  LET o == in.o
      conf == confirmation[o]
      closed(status) == [Version(o) EXCEPT !.cancellation.status = status,
                                           !.cancellation.responder = in.m]
      cancelled == [closed("approved") EXCEPT !.order.status = "cancelled"]
  IN /\ MayAnswer(in)
     /\ \/ /\ in.op = "reject"
           /\ Continue(c, OrderRow(o), closed("rejected"), <<KeyOf(in.m)>>)
        \/ /\ in.op = "approve" /\ order[o].status = "pending"
           /\ Continue(c, OrderRow(o), cancelled, <<KeyOf(in.m)>>)
        \/ /\ in.op = "approve" /\ order[o].status = "completed"
           /\ \E first, second \in Confirmers(conf) :
                /\ first # second
                /\ Continue(c, OrderRow(o), cancelled,
                            <<KeyOf(in.m)>>
                            \o Money(o, -1, conf[first].amount, conf, first, second))

(* The lock is granted on the row as it is now.  If its parties or its     *)
(* customers changed since the statement began, the rows joined then no    *)
(* longer match and the order is reported as not found.                    *)
LockOrder(c) ==
  /\ Runs(c, "order")
  /\ LET in == work[c].in
         found == /\ work[c].saw = Joined(in.o)
                  /\ work[c].as # "employee" \/ IsParty(in.m, in.o)
         may == CASE in.op = "confirm" -> MayConfirm(in)
                  [] in.op = "edit" -> MayEdit(in, work[c].as)
                  [] in.op = "request" -> MayCancelAtOnce(in) \/ MayAsk(in)
                  [] in.op \in {"approve", "reject"} -> MayAnswer(in)
     IN \/ ~(found /\ may) /\ Refuse(c)
        \/ /\ found
           /\ \/ in.op = "confirm" /\ ConfirmLocked(c, in)
              \/ in.op = "edit" /\ EditLocked(c, in)
              \/ in.op = "request" /\ RequestLocked(c, in)
              \/ in.op \in {"approve", "reject"} /\ AnswerLocked(c, in)
           /\ UNCHANGED vars

-----------------------------------------------------------------------------
(* The other statements. *)

(* Create reads its two parties without a lock, then writes.               *)
ResolveParties(c) ==
  /\ Runs(c, "resolve")
  /\ LET in == work[c].in
         new == [status |-> "pending", creator |-> UserOf[in.m], giver |-> in.g,
                 receiver |-> in.r, amount |-> in.amount, details |-> in.details,
                 completedAt |-> 0]
     IN IF role[in.g] = "employee" /\ role[in.r] = "employee"
        THEN /\ Continue(c, OrderRow(in.o), [Version(in.o) EXCEPT !.order = new],
                         Customers(in.details) \o <<KeyOf(in.g), KeyOf(in.r)>>)
             /\ UNCHANGED vars
        ELSE Refuse(c)

(* lockBalance, the new value, and the foreign key of the adjustment.      *)
LockBalance(c) ==
  /\ Runs(c, "balance")
  /\ LET in == work[c].in
     IN IF in.value # balance[in.t]
        THEN /\ Continue(c, BalanceRow(in.t),
                         [balance |-> in.value, adjusted |-> adjusted[in.t] + in.value - balance[in.t]],
                         <<KeyOf(in.t)>>)
             /\ UNCHANGED vars
        ELSE Refuse(c)

(* The membership row is locked and current, the numbers are the ones of   *)
(* the statement's start.                                                  *)
LockMember(c) ==
  /\ Runs(c, "member")
  /\ LET in == work[c].in
         settled == work[c].saw
         may == /\ IsActive(in.t) /\ in.t # Owner
                /\ \/ /\ in.op = "remove" /\ in.t # in.m
                      /\ IF role[in.t] = "employee" THEN ManagesAs(in.m, work[c].as) ELSE in.m = Owner
                      /\ settled
                   \/ /\ in.op = "role" /\ in.m = Owner /\ role[in.t] # in.r
                      /\ role[in.t] = "employee" => settled
         new == IF in.op = "remove" THEN "removed" ELSE in.r
     IN IF may THEN Continue(c, MemberRow(in.t), new, <<>>) /\ UNCHANGED vars
               ELSE Refuse(c)

(* addBalance, addProfit and upsertCustomer add to the row as it is when   *)
(* they hold it.                                                           *)
AddToRow(c) ==
  /\ Runs(c, "add")
  /\ LET row == Head(todo[c]).row
         delta == Head(todo[c]).delta
         new == CASE row[1] = "balance" -> [balance |-> balance[row[2]] + delta,
                                            adjusted |-> adjusted[row[2]]]
                  [] row[1] = "profit" -> [profit[row[2]] EXCEPT ![month] = @ + delta]
                  [] row[1] = "customer" -> None
     IN Continue(c, row, new, <<>>)
  /\ UNCHANGED vars

(* A foreign key locks the membership it names; that the membership was    *)
(* removed meanwhile does not matter to it, the row is still there.        *)
CheckKey(c) ==
  /\ Runs(c, "key")
  /\ shares' = [shares EXCEPT ![c] = @ \cup {Head(todo[c]).row}]
  /\ todo' = [todo EXCEPT ![c] = Tail(@)]
  /\ UNCHANGED <<work, rows>>
  /\ UNCHANGED vars

-----------------------------------------------------------------------------
(* The end of a transaction. *)

Written(c, row, committed) == IF Holds(c, row) THEN rows[c][row] ELSE committed

WrittenOrder(c, o) == Written(c, OrderRow(o), Version(o))

WrittenBalance(c, m) ==
  Written(c, BalanceRow(m), [balance |-> balance[m], adjusted |-> adjusted[m]])

Commit(c) ==
  /\ work[c] # None /\ todo[c] = <<>>
  /\ order' = [o \in Orders |-> WrittenOrder(c, o).order]
  /\ confirmation' = [o \in Orders |-> WrittenOrder(c, o).confirmation]
  /\ cancellation' = [o \in Orders |-> WrittenOrder(c, o).cancellation]
  /\ balance' = [m \in Members |-> WrittenBalance(c, m).balance]
  /\ adjusted' = [m \in Members |-> WrittenBalance(c, m).adjusted]
  /\ profit' = [m \in Members |-> Written(c, ProfitRow(m), profit[m])]
  /\ role' = [m \in Members |-> Written(c, MemberRow(m), role[m])]
  /\ UNCHANGED month
  /\ Release(c)

(* The connection, the client or the server is gone before the commit.     *)
Abort(c) == work[c] # None /\ Release(c) /\ UNCHANGED vars

(* PostgreSQL fails one statement of every cycle of waiting transactions.  *)
InDeadlock(c) ==
  \E cycle \in SUBSET Conns :
    /\ c \in cycle
    /\ \A d \in cycle : WaitsFor(d) \cap cycle # {}
    /\ \A part \in SUBSET cycle \ {{}, cycle} : \E d \in part : WaitsFor(d) \cap part = {}

DeadlockVictim(c) == InDeadlock(c) /\ Refuse(c)

Work(c) ==
  \/ LockOrder(c) \/ ResolveParties(c) \/ LockBalance(c) \/ LockMember(c)
  \/ AddToRow(c) \/ CheckKey(c) \/ Commit(c)

TxNext == \E c \in Conns : Begin(c) \/ Work(c) \/ Abort(c) \/ DeadlockVictim(c)

Idle ==
  /\ work = [c \in Conns |-> None]
  /\ todo = [c \in Conns |-> <<>>]
  /\ rows = [c \in Conns |-> <<>>]
  /\ shares = [c \in Conns |-> {}]

TxInit == Init /\ Idle

TxSpec == TxInit /\ [][TxNext]_allVars

(* Lock queues are first come, first served, so a statement that can run   *)
(* again and again does run.                                               *)
Fairness == \A c \in Conns : SF_allVars(Work(c)) /\ WF_allVars(DeadlockVictim(c))

-----------------------------------------------------------------------------
(* Properties. *)

(* What the rest of this project takes one transaction to be: whatever the *)
(* statements of concurrent order operations and adjustments do in         *)
(* between, every commit is one step of module Orders.  (That most steps   *)
(* change nothing committed is said first, for TLC's sake.)                *)
OrderOperationsAreAtomic == [][UNCHANGED vars \/ Next]_vars

(* Every request ends, answered, refused or failed: waiting transactions   *)
(* never wait for ever.                                                    *)
RequestsEnd == \A c \in Conns : work[c] # None ~> work[c] = None
=============================================================================
