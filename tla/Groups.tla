------------------------------- MODULE Groups -------------------------------
(***************************************************************************)
(* The life of one group (package group): invitations and their answers,   *)
(* roles and removal of members, locations and who holds them, and the     *)
(* deletion of the whole group, statement by statement.                    *)
(*                                                                         *)
(* As in module Transactions a request reads what is committed when a      *)
(* statement starts, keeps the rows it locked or wrote until it ends, and  *)
(* shows its row versions by its commit.  Here statements also wait for    *)
(* each other on the unique indexes, and an UPDATE of many rows takes them *)
(* one by one.  Balances and orders, which may forbid that a member        *)
(* leaves, are in modules Orders and Transactions.                         *)
(***************************************************************************)
EXTENDS Naturals, FiniteSets, SequencesExt

CONSTANTS
  Users, Members,         \* a membership is a row: who comes back has another
  UserOf,                 \* [Members -> Users]
  Owner,                  \* the membership of the owner
  Invitations, Locations,
  Conns,                  \* BOUND: connections serving requests at the same time
  None

Roles == {"employee", "manager", "investor"}

(* What a request asks for. *)
Inputs ==
  [op : {"invite"}, user : Users, role : Roles]
    \cup [op : {"respond"}, status : {"accepted", "rejected"}]
    \cup [op : {"edit"}, a : Members, t : Members, role : Roles \cup {None},
          to : Locations \cup {None, "nowhere"}]
    \cup [op : {"remove"}, a : Members, as : Roles \cup {None}, t : Members]
    \cup [op : {"create"}, t : Members \cup {None}]
    \cup [op : {"drop"}, l : Locations]
    \cup [op : {"delete"}]

ASSUME GroupsAssumption ==
  /\ UserOf \in [Members -> Users] /\ Owner \in Members
  /\ None \notin Members \cup Invitations /\ None \notin Inputs
  /\ None \notin {"pending", "accepted", "rejected", "revoked"}

(* A table has finitely many rows, whatever their number. *)
ASSUME RowsAreFinite ==
  IsFiniteSet(Members) /\ IsFiniteSet(Invitations) /\ IsFiniteSet(Locations)

VARIABLES
  db,      \* [Rows -> the committed version of the row]
  lapsed,  \* invitations whose expires_at has passed
  tx       \* [Conns -> the transaction of the connection]

vars == <<db, lapsed, tx>>

GroupRow == <<"group", None>>
MemberRow(m) == <<"member", m>>
InvitationRow(i) == <<"invitation", i>>
LocationRow(l) == <<"location", l>>
Table(name) ==
  {name} \X (CASE name = "member" -> Members [] name = "invitation" -> Invitations
               [] name = "location" -> Locations)
Rows == {GroupRow} \cup Table("member") \cup Table("invitation") \cup Table("location")

(* What an absent row will be before it is inserted.  HISTORY: the         *)
(* invitation that a member accepted, and whether EditMember chose the     *)
(* holder of a location.                                                   *)
Absent(x) ==
  CASE x[1] = "member" -> [is |-> "absent", role |-> None, by |-> None]
    [] x[1] = "invitation" -> [is |-> "absent", user |-> None, role |-> None, status |-> None]
    [] x[1] = "location" -> [is |-> "absent", holder |-> None, assigned |-> FALSE]

(* The group as Create leaves it. *)
Created ==
  [x \in Rows |->
     CASE x = GroupRow -> [is |-> "live"]
       [] x = MemberRow(Owner) -> [is |-> "live", role |-> "manager", by |-> None]
       [] OTHER -> Absent(x)]

Idle == [in |-> None, saw |-> None, todo |-> <<>>, rows |-> <<>>, strong |-> {}, shares |-> {}]

Init == db = Created /\ lapsed = {} /\ tx = [c \in Conns |-> Idle]

Live(x) == db[x].is = "live"
Active(m) == Live(GroupRow) /\ Live(MemberRow(m))
Manager(m) == Active(m) /\ db[MemberRow(m)].role = "manager"
Seen(c, x) == IF x \in DOMAIN tx[c].rows THEN tx[c].rows[x] ELSE db[x]
HeldBy(m) == {l \in Locations : Live(LocationRow(l)) /\ db[LocationRow(l)].holder = m}

-----------------------------------------------------------------------------
(* Statements and what they wait for. *)

Do(what, x) == [do |-> what, row |-> x]
First(c) == Head(tx[c].todo)
Busy(c) == tx[c].todo # <<>>

ForUpdate == {"answer", "close", "member", "take", "drop"}
Update == {"revoke", "erase", "free"}
Insert == {"invite", "join", "create", "put"}

(* Another version that the unique index of the table does not suffer      *)
(* beside the row that the statement writes.                               *)
Clashes(c, y, v) ==
  LET x == First(c).row
      in == tx[c].in
  IN /\ y[1] = x[1] /\ y # x /\ v.is = "live"
     /\ CASE x[1] = "member" -> UserOf[y[2]] = UserOf[x[2]]
          [] x[1] = "invitation" -> v.user = in.user /\ v.status = "pending"
          [] x[1] = "location" -> in.t # None /\ v.holder = in.t

WaitsFor(c) ==
  IF ~Busy(c) THEN {} ELSE
  LET x == First(c).row
      do == First(c).do
  IN {d \in Conns \ {c} :
        \/ do \in ForUpdate \cup Update /\ x \in DOMAIN tx[d].rows
        \/ do \in ForUpdate /\ x \in tx[d].shares
        \/ do = "share" /\ x \in tx[d].strong
        \/ do \in Insert /\ \E y \in DOMAIN tx[d].rows :
                              Clashes(c, y, db[y]) \/ Clashes(c, y, tx[d].rows[y])}

Runs(c, what) == Busy(c) /\ First(c).do = what /\ WaitsFor(c) = {}
Unique(c) == \A y \in Rows : ~Clashes(c, y, Seen(c, y))

Put(held, x, v) == [y \in DOMAIN held \cup {x} |-> IF y = x THEN v ELSE held[y]]

(* The statement wrote version v of its row, or locked it as it is.        *)
Continue(c, v, more) ==
  LET st == First(c) IN
  /\ tx' = [tx EXCEPT ![c].rows = Put(@, st.row, v), ![c].todo = more \o Tail(@),
                      ![c].strong = IF st.do \in ForUpdate THEN @ \cup {st.row} ELSE @]
  /\ UNCHANGED <<db, lapsed>>

(* It touched no row, and others follow. *)
Then(c, more) ==
  /\ tx' = [tx EXCEPT ![c].todo = more \o Tail(@)]
  /\ UNCHANGED <<db, lapsed>>

(* Every early return runs the deferred rollback. *)
Refuse(c) == tx' = [tx EXCEPT ![c] = Idle] /\ UNCHANGED <<db, lapsed>>

Begin(c, in, saw, todo) ==
  /\ tx[c].in = None
  /\ tx' = [tx EXCEPT ![c].in = in, ![c].saw = saw, ![c].todo = todo]
  /\ UNCHANGED <<db, lapsed>>

(* BOUND: a request begins while there is a new row for it and for those    *)
(* before it.                                                              *)
Spare(new, ops) ==
  Cardinality({x \in new : db[x].is = "absent"})
    > Cardinality({d \in Conns : tx[d].in # None /\ tx[d].in.op \in ops})

Commit(c) ==
  /\ tx[c].in # None /\ ~Busy(c)
  /\ db' = [x \in Rows |-> Seen(c, x)]
  /\ tx' = [tx EXCEPT ![c] = Idle]
  /\ UNCHANGED lapsed

(* A foreign key locks the row it names, live or not. *)
Share(c) ==
  /\ Runs(c, "share")
  /\ tx' = [tx EXCEPT ![c].shares = @ \cup {First(c).row}, ![c].todo = Tail(@)]
  /\ UNCHANGED <<db, lapsed>>

ShareGroup == <<Do("share", GroupRow)>>
Audit == ShareGroup  \* the log names the group

-----------------------------------------------------------------------------
(* Invite *)

Invite(c, a, u, r) ==
  /\ Manager(a) /\ Spare(Table("invitation"), {"invite"})
  /\ Begin(c, [op |-> "invite", user |-> u, role |-> r], None, <<Do("expired", None)>>)

(* The expired invitation of the recipient, which nothing closed so far.   *)
Outdated(u) ==
  {i \in lapsed : LET v == db[InvitationRow(i)] IN
                  v.is = "live" /\ v.user = u /\ v.status = "pending"}

FindExpired(c) ==
  /\ Runs(c, "expired")
  /\ Then(c, SetToSeq({Do("revoke", InvitationRow(i)) : i \in Outdated(tx[c].in.user)})
             \o <<Do("absent", None)>>)

Revoke(c) ==
  /\ Runs(c, "revoke")
  /\ LET v == db[First(c).row] IN
     \/ v.is = "live" /\ v.status = "pending" /\ Continue(c, [v EXCEPT !.status = "revoked"], <<>>)
     \/ ~(v.is = "live" /\ v.status = "pending") /\ Then(c, <<>>)

(* An id that nobody else draws. *)
Fresh(x) ==
  /\ db[x].is = "absent"
  /\ \A d \in Conns : x \notin DOMAIN tx[d].rows /\ (Busy(d) => First(d).row # x)

(* The INSERT asks first whether the recipient is a member. *)
CheckAbsent(c) ==
  /\ Runs(c, "absent")
  /\ LET member == \E m \in Members : Live(MemberRow(m)) /\ UserOf[m] = tx[c].in.user IN
     \/ member /\ Refuse(c)
     \/ /\ ~member
        /\ \E i \in Invitations : Fresh(InvitationRow(i))
                                  /\ Then(c, <<Do("invite", InvitationRow(i))>>)

InsertInvitation(c) ==
  /\ Runs(c, "invite")
  /\ \/ ~Unique(c) /\ Refuse(c)
     \/ /\ Unique(c)
        /\ Continue(c, [is |-> "live", user |-> tx[c].in.user, role |-> tx[c].in.role,
                        status |-> "pending"], ShareGroup)

-----------------------------------------------------------------------------
(* respond *)

Respond(c, i, status) ==
  /\ Live(InvitationRow(i))
  /\ Spare({MemberRow(m) : m \in {n \in Members : UserOf[n] = db[InvitationRow(i)].user}}, {"respond"})
  /\ Begin(c, [op |-> "respond", status |-> status], None, <<Do("answer", InvitationRow(i))>>)

Answered(c, v) ==
  \/ tx[c].in.status = "rejected" /\ Continue(c, v, <<>>)
  \/ /\ tx[c].in.status = "accepted"
     /\ \E m \in Members : /\ Fresh(MemberRow(m)) /\ UserOf[m] = v.user
                           /\ Continue(c, v, <<Do("join", MemberRow(m))>>)

(* Mutant: the status is the one of before the lock. *)
AnswerStale(c) ==
  /\ Runs(c, "answer")
  /\ LET v == db[First(c).row] IN Answered(c, [v EXCEPT !.status = tx[c].in.status])

(* The invitation is locked and current.  Its group is not looked at.      *)
Answer(c) ==
  /\ Runs(c, "answer")
  /\ LET x == First(c).row
         v == db[x]
         open == v.is = "live" /\ v.status = "pending" /\ x[2] \notin lapsed
     IN \/ ~open /\ Refuse(c)
        \/ open /\ Answered(c, [v EXCEPT !.status = tx[c].in.status])

AcceptedHere(c) == {x \in DOMAIN tx[c].rows : x[1] = "invitation"}

(* The membership, and the balance of an employee with it. *)
InsertMember(c) ==
  /\ Runs(c, "join")
  /\ \/ ~Unique(c) /\ Refuse(c)
     \/ /\ Unique(c)
        /\ \E x \in AcceptedHere(c) :
             Continue(c, [is |-> "live", role |-> tx[c].rows[x].role, by |-> x[2]], ShareGroup)

-----------------------------------------------------------------------------
(* EditMember and RemoveMember *)

LocationOf(t) == CHOOSE l \in Locations \cup {None} : HeldBy(t) = IF l = None THEN {} ELSE {l}

(* The member is read with its location, and locked by the same statement. *)
EditMember(c, a, t, r, l) ==
  /\ Manager(a) /\ Live(MemberRow(t))
  /\ Begin(c, [op |-> "edit", a |-> a, t |-> t, role |-> r, to |-> l], LocationOf(t),
           <<Do("member", MemberRow(t))>>)

RemoveMember(c, a, t) ==
  /\ Active(a) /\ Live(MemberRow(t))
  /\ Begin(c, [op |-> "remove", a |-> a, as |-> db[MemberRow(a)].role, t |-> t], None,
           <<Do("member", MemberRow(t))>>)

Unassign == <<Do("unassign", None)>>

MayRemove(in, v) ==
  /\ in.t # Owner /\ in.t # in.a
  /\ \/ in.a = Owner
     \/ in.as = "manager" /\ v.role = "employee"

(* changeLocation: nothing to do for the location that was seen. *)
ToLocation(in, at) ==
  IF in.to = None THEN <<>>
  ELSE IF in.to = "nowhere" THEN Unassign
  ELSE IF in.to = at THEN <<>>
  ELSE <<Do("take", LocationRow(in.to))>>

(* Mutant: who leaves the employee role keeps the location. *)
LockMemberOnly(c) ==
  /\ Runs(c, "member")
  /\ LET in == tx[c].in
         v == db[First(c).row] IN
     \/ Refuse(c)
     \/ /\ v.is = "live" /\ in.op = "remove" /\ MayRemove(in, v)
        /\ Continue(c, [v EXCEPT !.is = "gone"], Unassign \o Audit)
     \/ /\ v.is = "live" /\ in.op = "edit" /\ in.a = Owner /\ in.t # Owner
        /\ in.role # None /\ in.to = None
        /\ Continue(c, [v EXCEPT !.role = in.role], Audit)
     \/ /\ v.is = "live" /\ in.op = "edit" /\ in.role = None /\ v.role = "employee"
        /\ Continue(c, v, ToLocation(in, tx[c].saw))

(* The membership is locked and current.  Who is not settled does not      *)
(* leave.                                                                  *)
LockMember(c) ==
  /\ Runs(c, "member")
  /\ LET in == tx[c].in
         v == db[First(c).row]
         role == IF in.op = "edit" /\ in.role # None THEN in.role ELSE v.role
         leaves == role # v.role /\ v.role = "employee"
         at == IF leaves THEN None ELSE tx[c].saw
     IN \/ ~(v.is = "live" /\ in.op = "edit" /\ role = v.role /\ in.to = None) /\ Refuse(c)
        \/ /\ v.is = "live" /\ in.op = "remove" /\ MayRemove(in, v)
           /\ Continue(c, [v EXCEPT !.is = "gone"], Unassign \o Audit)
        \/ /\ v.is = "live" /\ in.op = "edit"
           /\ role # v.role => in.a = Owner /\ in.t # Owner
           /\ in.to # None => role = "employee"
           /\ Continue(c, [v EXCEPT !.role = role],
                       (IF leaves THEN Unassign ELSE <<>>)
                       \o (IF role # v.role THEN Audit ELSE <<>>) \o ToLocation(in, at))

(* One UPDATE: it finds the locations of the member, then takes them.      *)
FindHeld(c) ==
  /\ Runs(c, "unassign")
  /\ LET t == tx[c].in.t
         held == {x \in Table("location") : Seen(c, x).is = "live" /\ Seen(c, x).holder = t}
     IN Then(c, SetToSeq({Do("free", x) : x \in held}))

Free(c) ==
  /\ Runs(c, "free")
  /\ LET x == First(c).row
         v == Seen(c, x) IN
     \/ v.is = "live" /\ v.holder = tx[c].in.t /\ Continue(c, [v EXCEPT !.holder = None], <<>>)
     \/ ~(v.is = "live" /\ v.holder = tx[c].in.t) /\ Then(c, <<>>)

TakeLocation(c) ==
  /\ Runs(c, "take")
  /\ LET x == First(c).row
         v == Seen(c, x) IN
     \/ (v.is # "live" \/ v.holder # None) /\ Refuse(c)
     \/ v.is = "live" /\ v.holder = None /\ Continue(c, v, Unassign \o <<Do("put", x)>>)

PutMember(c) ==
  /\ Runs(c, "put")
  /\ \/ ~Unique(c) /\ Refuse(c)
     \/ Unique(c) /\ Continue(c, [is |-> "live", holder |-> tx[c].in.t, assigned |-> TRUE], <<>>)

-----------------------------------------------------------------------------
(* CreateLocation and DeleteLocation *)

(* The employee is read after the manager, and neither is locked. *)
CreateLocation(c, a, t) ==
  /\ Manager(a) /\ Spare(Table("location"), {"create"})
  /\ Begin(c, [op |-> "create", t |-> t], None, <<Do("resolve", None)>>)

ResolveEmployee(c) ==
  /\ Runs(c, "resolve")
  /\ LET t == tx[c].in.t
         found == t # None => Live(MemberRow(t)) /\ db[MemberRow(t)].role = "employee" IN
     \/ ~found /\ Refuse(c)
     \/ /\ found
        /\ \E l \in Locations : Fresh(LocationRow(l)) /\ Then(c, <<Do("create", LocationRow(l))>>)

InsertLocation(c) ==
  /\ Runs(c, "create")
  /\ LET t == tx[c].in.t IN
     \/ ~Unique(c) /\ Refuse(c)
     \/ /\ Unique(c)
        /\ Continue(c, [is |-> "live", holder |-> t, assigned |-> FALSE],
                    (IF t = None THEN <<>> ELSE <<Do("share", MemberRow(t))>>) \o ShareGroup)

DeleteLocation(c, a, l) ==
  /\ Manager(a)
  /\ Begin(c, [op |-> "drop", l |-> l], None, <<Do("drop", LocationRow(l))>>)

DropLocation(c) ==
  /\ Runs(c, "drop")
  /\ LET v == db[First(c).row] IN
     \/ (v.is # "live" \/ v.holder # None) /\ Refuse(c)
     \/ v.is = "live" /\ v.holder = None /\ Continue(c, [v EXCEPT !.is = "gone"], <<>>)

-----------------------------------------------------------------------------
(* Delete *)

Sweep == [k \in 1..3 |-> Do("sweep", <<<<"invitation", "location", "member">>[k], None>>)]

Delete(c) ==
  /\ Active(Owner)
  /\ Begin(c, [op |-> "delete"], None, <<Do("close", GroupRow)>>)

(* Mutant: the group is read without FOR UPDATE. *)
CloseUnlocked(c) ==
  /\ Busy(c) /\ First(c).do = "close"
  /\ IF Live(GroupRow)
     THEN tx' = [tx EXCEPT ![c].rows = Put(@, GroupRow, [is |-> "gone"]), ![c].todo = Sweep]
          /\ UNCHANGED <<db, lapsed>>
     ELSE Refuse(c)

CloseGroup(c) ==
  /\ Runs(c, "close")
  /\ \/ ~Live(GroupRow) /\ Refuse(c)
     \/ Live(GroupRow) /\ Continue(c, [is |-> "gone"], Sweep)

(* One UPDATE per table: it finds the rows that are live, then takes them. *)
SweepTable(c) ==
  /\ Runs(c, "sweep")
  /\ \E rows \in SetToSeqs({Do("erase", x) : x \in {y \in Table(First(c).row[1]) : Live(y)}}) :
       Then(c, rows)

Erase(c) ==
  /\ Runs(c, "erase")
  /\ LET x == First(c).row
         v == db[x] IN
     \/ v.is # "live" /\ Then(c, <<>>)
     \/ /\ v.is = "live" /\ x[1] = "invitation" /\ v.status = "pending"
        /\ Continue(c, [v EXCEPT !.is = "gone", !.status = "revoked"], <<>>)
     \/ /\ v.is = "live" /\ ~(x[1] = "invitation" /\ v.status = "pending")
        /\ Continue(c, [v EXCEPT !.is = "gone"], <<>>)

-----------------------------------------------------------------------------
(* PostgreSQL fails one statement of every cycle of waiting transactions.  *)
InDeadlock(c) ==
  \E cycle \in SUBSET Conns :
    /\ c \in cycle
    /\ \A d \in cycle : WaitsFor(d) \cap cycle # {}
    /\ \A part \in SUBSET cycle \ {{}, cycle} : \E d \in part : WaitsFor(d) \cap part = {}

DeadlockVictim(c) == InDeadlock(c) /\ Refuse(c)

(* Seven days pass. *)
Lapse(i) ==
  /\ db[InvitationRow(i)].status = "pending" /\ i \notin lapsed
  /\ lapsed' = lapsed \cup {i}
  /\ UNCHANGED <<db, tx>>

Request(c) ==
  \/ \E a \in Members :
       \/ \E u \in Users, r \in Roles : Invite(c, a, u, r)
       \/ \E t \in Members : \/ RemoveMember(c, a, t)
                             \/ \E r \in Roles : EditMember(c, a, t, r, None)
                             \/ \E r \in Roles \cup {None}, l \in Locations \cup {"nowhere"} :
                                  EditMember(c, a, t, r, l)
       \/ \E t \in Members \cup {None} : CreateLocation(c, a, t)
       \/ \E l \in Locations : DeleteLocation(c, a, l)
  \/ \E i \in Invitations, status \in {"accepted", "rejected"} : Respond(c, i, status)
  \/ Delete(c)

Statement(c) ==
  \/ FindExpired(c) \/ Revoke(c) \/ CheckAbsent(c) \/ InsertInvitation(c)
  \/ Answer(c) \/ InsertMember(c)
  \/ LockMember(c) \/ FindHeld(c) \/ Free(c) \/ TakeLocation(c) \/ PutMember(c)
  \/ ResolveEmployee(c) \/ InsertLocation(c) \/ DropLocation(c)
  \/ CloseGroup(c) \/ SweepTable(c) \/ Erase(c)
  \/ Share(c) \/ Commit(c)

Next ==
  \/ \E c \in Conns : Request(c) \/ Statement(c) \/ DeadlockVictim(c)
  \/ \E i \in Invitations : Lapse(i)

Spec == Init /\ [][Next]_vars

-----------------------------------------------------------------------------
(* Properties. *)

(* Whoever is or was a member accepted an invitation of his own, and an    *)
(* accepted invitation made one membership: however many answers meet,     *)
(* and whoever is removed and invited again (invitations.go, respond).     *)
MembershipsAreAccepted ==
  /\ \A m \in Members \ {Owner} : db[MemberRow(m)].is # "absent" =>
       LET v == db[InvitationRow(db[MemberRow(m)].by)] IN
       v.status = "accepted" /\ v.user = UserOf[m]
  /\ \A i \in Invitations : db[InvitationRow(i)].status = "accepted" =>
       Cardinality({m \in Members : db[MemberRow(m)].by = i}) = 1

(* Whoever EditMember gave a location is an employee of the group for as   *)
(* long as he holds it ("Only employees have a location").  CreateLocation *)
(* does not lock the employee it names.                                    *)
HoldersAreEmployees ==
  Live(GroupRow) => \A l \in Locations :
    LET v == db[LocationRow(l)] IN
    v.is = "live" /\ v.assigned /\ v.holder # None =>
      Live(MemberRow(v.holder)) /\ db[MemberRow(v.holder)].role = "employee"

(* The step that deletes the group leaves no member, no open invitation    *)
(* and no location, although Delete takes them table by table while other  *)
(* requests add some (service.go, Delete).                                 *)
DeletionIsComplete == [][Live(GroupRow) /\ ~Live(GroupRow)' => \A x \in Rows : ~Live(x)']_vars
=============================================================================
