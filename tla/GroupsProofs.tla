---------------------------- MODULE GroupsProofs ----------------------------
(***************************************************************************)
(* Proofs about the life of a group, for any number of users, memberships, *)
(* invitations, locations and connections.                                 *)
(***************************************************************************)
EXTENDS Groups, FiniteSetTheorems, TLAPS

-----------------------------------------------------------------------------
(* The inductive invariant: what the rows hold, how far each request has   *)
(* come with the rows it keeps, and which requests exclude each other.     *)

MemberRows == {MemberRow(m) : m \in Members}
InvitationRows == {InvitationRow(i) : i \in Invitations}
LocationRows == {LocationRow(l) : l \in Locations}
TableNames == {"member", "invitation", "location"}

Life == {"absent", "live", "gone"}
MemberVersions == [is : Life, role : Roles \cup {None}, by : Invitations \cup {None}]
InvitationVersions ==
  [is : Life, user : Users \cup {None}, role : Roles \cup {None},
   status : {"pending", "accepted", "rejected", "revoked", None}]
LocationVersions == [is : Life, holder : Members \cup {None}, assigned : BOOLEAN]

(* Version v fits the table of row x. *)
Fits(x, v) ==
  /\ x = GroupRow => v \in [is : {"live", "gone"}]
  /\ x \in MemberRows => v \in MemberVersions
  /\ x \in InvitationRows => v \in InvitationVersions
  /\ x \in LocationRows => v \in LocationVersions

(* Nothing happened to a row before it is inserted, and the owner's        *)
(* membership came with the group.                                         *)
RowsOK ==
  /\ db = [x \in Rows |-> db[x]] /\ \A x \in Rows : Fits(x, db[x])
  /\ \A m \in Members : db[MemberRow(m)].is = "absent" => db[MemberRow(m)].by = None
  /\ \A i \in Invitations : db[InvitationRow(i)].is = "absent" => db[InvitationRow(i)].status = None
  /\ db[MemberRow(Owner)].is # "absent" /\ db[MemberRow(Owner)].by = None
  /\ \A m \in Members \ {Owner} :
       db[MemberRow(m)].is # "absent" => db[MemberRow(m)].by \in Invitations

Statements ==
  {"expired", "revoke", "absent", "invite", "answer", "join", "member", "unassign", "free", "take",
   "put", "resolve", "create", "drop", "close", "sweep", "erase", "share"}
Steps == [do : Statements, row : Rows \cup {None} \cup (TableNames \X {None})]
Of(c) == DOMAIN tx[c].rows
Plan(c) == ToSet(tx[c].todo)
Inserting == {"invite", "join", "create"}

(* A row version in hand is never one of an absent row, and a row is       *)
(* inserted by the next statement or by none.                              *)
TxOK(c) ==
  /\ tx[c] = [in |-> tx[c].in, saw |-> tx[c].saw, todo |-> tx[c].todo, rows |-> tx[c].rows,
              strong |-> tx[c].strong, shares |-> tx[c].shares]
  /\ tx[c].todo \in Seq(Steps)
  /\ Busy(c) => \A st \in ToSet(Tail(tx[c].todo)) : st.do \notin Inserting
  /\ tx[c].rows = [x \in Of(c) |-> tx[c].rows[x]] /\ Of(c) \subseteq Rows
  /\ \A x \in Of(c) : Fits(x, tx[c].rows[x]) /\ tx[c].rows[x].is # "absent"

Linked(c) == GroupRow \in tx[c].shares \/ Do("share", GroupRow) \in Plan(c)

InviteStage(c) ==
  /\ Of(c) \subseteq InvitationRows
  /\ \A x \in Of(c) : /\ tx[c].rows[x].status \in {"pending", "revoked"}
                      /\ db[x].status # "accepted"
                      /\ Live(x) \/ Linked(c)
  /\ Plan(c) \subseteq {Do("expired", None), Do("absent", None), Do("share", GroupRow)}
       \cup {Do("revoke", x) : x \in InvitationRows} \cup {Do("invite", x) : x \in InvitationRows}

(* The invitation as its answer leaves it. *)
AnswerIs(c, i, status) ==
  /\ db[InvitationRow(i)].is = "live" /\ db[InvitationRow(i)].status = "pending"
  /\ tx[c].rows[InvitationRow(i)].status = status

(* The member who joins is the user who was invited. *)
Joins(c, i, m) ==
  AnswerIs(c, i, "accepted") /\ tx[c].rows[InvitationRow(i)].user = UserOf[m]

Unanswered(c) ==
  Of(c) = {} /\ \E i \in Invitations : tx[c].todo = <<Do("answer", InvitationRow(i))>>
Rejected(c) ==
  tx[c].todo = <<>> /\ \E i \in Invitations : Of(c) = {InvitationRow(i)} /\ AnswerIs(c, i, "rejected")
Joining(c) ==
  \E i \in Invitations, m \in Members :
    /\ Of(c) = {InvitationRow(i)} /\ Joins(c, i, m)
    /\ tx[c].todo = <<Do("join", MemberRow(m))>>
Joined(c) ==
  \E i \in Invitations, m \in Members :
    /\ Of(c) = {InvitationRow(i), MemberRow(m)} /\ Joins(c, i, m)
    /\ tx[c].rows[MemberRow(m)].by = i /\ db[MemberRow(m)].is = "absent"
    /\ Plan(c) \subseteq {Do("share", GroupRow)} /\ Linked(c)

RespondStage(c) == Unanswered(c) \/ Rejected(c) \/ Joining(c) \/ Joined(c)

(* The row of the member that an edit or a removal is about.               *)
Subject(c) == MemberRow(tx[c].in.t)
Employed(v) == v.is = "live" /\ v.role = "employee"
Assigned(v) == v.is = "live" /\ v.assigned /\ v.holder # None
Stays(c) == Employed(tx[c].rows[Subject(c)])

(* Who leaves: every location that EditMember gave him will be freed.      *)
LeavesNothing(c) ==
  ~Stays(c) /\ Live(GroupRow) =>
    \A x \in LocationRows :
      Assigned(Seen(c, x)) /\ Seen(c, x).holder = tx[c].in.t =>
        Do("unassign", None) \in Plan(c) \/ Do("free", x) \in Plan(c)

MemberUnread(c) == Of(c) = {} /\ tx[c].todo = <<Do("member", Subject(c))>>
MemberLocked(c) ==
  /\ Subject(c) \in Of(c) /\ Of(c) \subseteq {Subject(c)} \cup LocationRows
  /\ \A x \in Of(c) : Live(x)
  /\ tx[c].rows[Subject(c)].by = db[Subject(c)].by
  /\ Plan(c) \subseteq {Do("unassign", None), Do("share", GroupRow)}
       \cup {Do("free", x) : x \in LocationRows} \cup {Do("take", x) : x \in LocationRows}
       \cup {Do("put", x) : x \in Of(c) \cap LocationRows}
  /\ \A x \in LocationRows : Do("take", x) \in Plan(c) \/ Do("put", x) \in Plan(c) => Stays(c)
  /\ \A x \in Of(c) \cap LocationRows :
       Assigned(tx[c].rows[x]) => tx[c].rows[x].holder = tx[c].in.t /\ Stays(c)
  /\ LeavesNothing(c)

MemberStage(c) == MemberUnread(c) \/ MemberLocked(c)

Uncreated(c) ==
  /\ Of(c) = {}
  /\ \E st \in {Do("resolve", None)} \cup {Do("create", x) : x \in LocationRows} : tx[c].todo = <<st>>
CreatedHere(c) ==
  /\ Of(c) \subseteq LocationRows /\ \A x \in Of(c) : ~tx[c].rows[x].assigned
  /\ Plan(c) \subseteq {Do("share", x) : x \in {GroupRow} \cup MemberRows} /\ Linked(c)

CreateStage(c) == Uncreated(c) \/ CreatedHere(c)

DropStage(c) ==
  /\ Of(c) \subseteq LocationRows /\ \A x \in Of(c) : tx[c].rows[x].is = "gone"
  /\ Plan(c) \subseteq {Do("drop", x) : x \in LocationRows}

(* Every live row that the deletion has not taken will be.                 *)
Covered(c) ==
  \A x \in Rows \ Of(c) : Live(x) =>
    Do("sweep", <<x[1], None>>) \in Plan(c) \/ Do("erase", x) \in Plan(c)

Unclosed(c) == Of(c) = {} /\ tx[c].todo = <<Do("close", GroupRow)>>
Closed(c) ==
  /\ GroupRow \in Of(c) /\ GroupRow \in tx[c].strong
  /\ \A x \in Of(c) : tx[c].rows[x].is = "gone" /\ Live(x)
  /\ \A x \in Of(c) \cap InvitationRows :
       /\ tx[c].rows[x].user = db[x].user
       /\ tx[c].rows[x].status = "accepted" <=> db[x].status = "accepted"
  /\ \A x \in Of(c) \cap MemberRows : tx[c].rows[x].by = db[x].by
  /\ Plan(c) \subseteq {Do("sweep", <<t, None>>) : t \in TableNames}
       \cup {Do("erase", x) : x \in Rows \ {GroupRow}}
  /\ Covered(c)

DeleteStage(c) == Unclosed(c) \/ Closed(c)

StageOK(c) ==
  \/ tx[c] = Idle
  \/ /\ tx[c].in \in Inputs
     /\ \/ tx[c].in.op = "invite" /\ InviteStage(c)
        \/ tx[c].in.op = "respond" /\ RespondStage(c)
        \/ tx[c].in.op \in {"edit", "remove"} /\ MemberStage(c)
        \/ tx[c].in.op = "create" /\ CreateStage(c)
        \/ tx[c].in.op = "drop" /\ DropStage(c)
        \/ tx[c].in.op = "delete" /\ DeleteStage(c)

(* The row that the next statement inserts. *)
Inserts(c) == IF Busy(c) /\ First(c).do \in Inserting THEN {First(c).row} ELSE {}

(* No two requests keep the same row, a new row is everybody else's to     *)
(* avoid, and nobody links a row to a group that is being deleted.         *)
ApartOK ==
  /\ \A c, d \in Conns : c # d =>
       /\ Of(c) \cap Of(d) = {}
       /\ Inserts(c) \cap Inserts(d) = {}
       /\ GroupRow \in Of(c) => GroupRow \notin tx[d].shares
  /\ \A c, d \in Conns : Inserts(c) \cap Of(d) = {}
  /\ \A c \in Conns : \A x \in Inserts(c) : x \in Rows /\ db[x].is = "absent"

Inv ==
  /\ RowsOK /\ MembershipsAreAccepted /\ HoldersAreEmployees
  /\ tx = [c \in Conns |-> tx[c]] /\ lapsed \subseteq Invitations
  /\ \A c \in Conns : TxOK(c) /\ StageOK(c)
  /\ ApartOK

-----------------------------------------------------------------------------
(* What a request has left to do, as a set. *)

LEMMA ItemsOfConcatenation ==
  ASSUME NEW S, NEW s \in Seq(S), NEW t \in Seq(S)
  PROVE  s \o t \in Seq(S) /\ ToSet(s \o t) = ToSet(s) \cup ToSet(t)
  <1>1. /\ s \o t \in Seq(S) /\ Len(s \o t) = Len(s) + Len(t)
        /\ Len(s) \in Nat /\ Len(t) \in Nat
        /\ DOMAIN s = 1..Len(s) /\ DOMAIN t = 1..Len(t) /\ DOMAIN (s \o t) = 1..Len(s \o t)
    OBVIOUS
  <1>2. \A k \in 1..Len(s \o t) : (s \o t)[k] = IF k <= Len(s) THEN s[k] ELSE t[k - Len(s)]
    OBVIOUS
  <1>3. ToSet(s \o t) \subseteq ToSet(s) \cup ToSet(t)
    <2> SUFFICES ASSUME NEW k \in 1..Len(s \o t)
                 PROVE  (s \o t)[k] \in ToSet(s) \cup ToSet(t)
      BY <1>1 DEF ToSet
    <2>1. CASE k <= Len(s)
      BY <1>1, <1>2, <2>1 DEF ToSet
    <2>2. CASE ~(k <= Len(s))
      <3>1. k - Len(s) \in 1..Len(t)
        BY <1>1, <2>2
      <3>2. QED
        BY <1>1, <1>2, <2>2, <3>1 DEF ToSet
    <2>3. QED
      BY <2>1, <2>2
  <1>4. \A k \in 1..Len(s) : s[k] \in ToSet(s \o t)
    BY <1>1, <1>2 DEF ToSet
  <1>5. ASSUME NEW k \in 1..Len(t)
        PROVE  t[k] \in ToSet(s \o t)
    <2>1. k + Len(s) \in 1..Len(s \o t) /\ ~(k + Len(s) <= Len(s)) /\ (k + Len(s)) - Len(s) = k
      BY <1>1
    <2>2. (s \o t)[k + Len(s)] = t[k]
      BY <1>2, <2>1
    <2>3. QED
      BY <1>1, <2>1, <2>2 DEF ToSet
  <1>6. QED
    BY <1>1, <1>3, <1>4, <1>5 DEF ToSet

LEMMA ItemsOfTail ==
  ASSUME NEW S, NEW s \in Seq(S), s # <<>>
  PROVE  /\ Tail(s) \in Seq(S) /\ Head(s) \in S
         /\ ToSet(s) = {Head(s)} \cup ToSet(Tail(s))
  <1>1. /\ Tail(s) \in Seq(S) /\ Head(s) \in S /\ Len(Tail(s)) = Len(s) - 1 /\ Len(s) \in Nat \ {0}
        /\ DOMAIN s = 1..Len(s) /\ DOMAIN Tail(s) = 1..Len(Tail(s)) /\ Head(s) = s[1]
        /\ \A k \in 1..Len(Tail(s)) : Tail(s)[k] = s[k + 1]
    OBVIOUS
  <1>2. \A k \in 1..Len(Tail(s)) : Tail(s)[k] \in ToSet(s)
    BY <1>1 DEF ToSet
  <1>3. ASSUME NEW k \in 1..Len(s)
        PROVE  s[k] \in {Head(s)} \cup ToSet(Tail(s))
    <2>1. CASE k = 1
      BY <1>1, <2>1
    <2>2. CASE k # 1
      <3>1. k - 1 \in 1..Len(Tail(s)) /\ (k - 1) + 1 = k
        BY <1>1, <2>2
      <3>2. QED
        BY <1>1, <3>1 DEF ToSet
    <2>3. QED
      BY <2>1, <2>2
  <1>4. Head(s) \in ToSet(s)
    BY <1>1 DEF ToSet
  <1>5. QED
    BY <1>1, <1>2, <1>3, <1>4 DEF ToSet

LEMMA ItemsOfList ==
  /\ ToSet(<<>>) = {}
  /\ \A x : ToSet(<<x>>) = {x} /\ Head(<<x>>) = x /\ Tail(<<x>>) = <<>> /\ <<x>> # <<>>
  /\ \A x, y : ToSet(<<x, y>>) = {x, y} /\ Head(<<x, y>>) = x /\ Tail(<<x, y>>) = <<y>>
  BY DEF ToSet

(* A finite set can be listed, and the list is all of it. *)
LEMMA ListsCover ==
  ASSUME NEW S, IsFiniteSet(S), NEW f \in SetToSeqs(S)
  PROVE  f \in Seq(S) /\ ToSet(f) = S
  <1> DEFINE n == Cardinality(S)
  <1>1. n \in Nat
    BY FS_CardinalityType
  <1>2. f \in [1..n -> S] /\ f \in Injection(1..n, S)
    BY DEF SetToSeqs, Injection, IsInjective
  <1>3. IsFiniteSet(1..n) /\ Cardinality(1..n) = n
    BY <1>1, FS_Interval
  <1> HIDE DEF n
  <1>4. f \in Surjection(1..n, S)
    BY <1>2, <1>3, FS_Injection DEF n
  <1>5. \A x \in S : \E k \in 1..n : f[k] = x
    BY <1>4 DEF Surjection
  <1>6. f \in Seq(S)
    BY <1>1, <1>2
  <1>7. QED
    BY <1>2, <1>5, <1>6 DEF ToSet

LEMMA ListCovers ==
  ASSUME NEW S, IsFiniteSet(S)
  PROVE  SetToSeq(S) \in Seq(S) /\ ToSet(SetToSeq(S)) = S
  <1> DEFINE n == Cardinality(S)
  <1>1. ExistsBijection(1..n, S)
    BY FS_CardinalityType
  <1>2. PICK f : f \in [1..n -> S] /\ IsInjective(f)
    BY <1>1 DEF ExistsBijection, Bijection, Injection
  <1>3. SetToSeq(S) \in [1..n -> S] /\ IsInjective(SetToSeq(S))
    BY <1>2 DEF SetToSeq
  <1>4. SetToSeq(S) \in SetToSeqs(S)
    BY <1>3 DEF SetToSeqs, IsInjective
  <1>5. QED
    BY <1>4, ListsCover

LEMMA ItemsOfRest ==
  ASSUME NEW S, NEW s \in Seq(S), NEW t \in Seq(S), s # <<>>
  PROVE  ToSet(Tail(s \o t)) \subseteq ToSet(Tail(s)) \cup ToSet(t)
  <1>1. /\ s \o t \in Seq(S) /\ Len(s \o t) = Len(s) + Len(t)
        /\ Len(s) \in Nat \ {0} /\ Len(t) \in Nat
        /\ DOMAIN t = 1..Len(t) /\ Len(Tail(s)) = Len(s) - 1
        /\ DOMAIN Tail(s) = 1..Len(Tail(s)) /\ Tail(s \o t) \in Seq(S)
        /\ Len(Tail(s \o t)) = Len(s \o t) - 1 /\ DOMAIN Tail(s \o t) = 1..Len(Tail(s \o t))
    OBVIOUS
  <1>2. \A k \in 1..Len(s \o t) : (s \o t)[k] = IF k <= Len(s) THEN s[k] ELSE t[k - Len(s)]
    OBVIOUS
  <1>3. \A k \in 1..Len(Tail(s)) : Tail(s)[k] = s[k + 1]
    BY <1>1
  <1>4. \A k \in 1..Len(Tail(s \o t)) : Tail(s \o t)[k] = (s \o t)[k + 1]
    BY <1>1
  <1> SUFFICES ASSUME NEW k \in 1..Len(Tail(s \o t))
               PROVE  Tail(s \o t)[k] \in ToSet(Tail(s)) \cup ToSet(t)
    BY <1>1 DEF ToSet
  <1>5. k + 1 \in 1..Len(s \o t) /\ Tail(s \o t)[k] = (s \o t)[k + 1]
    BY <1>1, <1>4
  <1>6. CASE k + 1 <= Len(s)
    <2>1. k \in 1..Len(Tail(s)) /\ (s \o t)[k + 1] = Tail(s)[k]
      BY <1>1, <1>2, <1>3, <1>5, <1>6
    <2>2. QED
      BY <1>1, <1>5, <2>1 DEF ToSet
  <1>7. CASE ~(k + 1 <= Len(s))
    <2>1. (k + 1) - Len(s) \in 1..Len(t) /\ (s \o t)[k + 1] = t[(k + 1) - Len(s)]
      BY <1>1, <1>2, <1>5, <1>7
    <2>2. QED
      BY <1>1, <1>5, <2>1 DEF ToSet
  <1>8. QED
    BY <1>6, <1>7

-----------------------------------------------------------------------------
(* The rows of the group and its tables. *)

LEMMA RowKinds ==
  /\ Rows = {GroupRow} \cup MemberRows \cup InvitationRows \cup LocationRows
  /\ GroupRow \notin MemberRows \cup InvitationRows \cup LocationRows
  /\ MemberRows \cap InvitationRows = {} /\ MemberRows \cap LocationRows = {}
  /\ InvitationRows \cap LocationRows = {}
  /\ \A m, n : MemberRow(m) = MemberRow(n) => m = n
  /\ \A i, k : InvitationRow(i) = InvitationRow(k) => i = k
  <1>1. /\ Table("member") = MemberRows /\ Table("invitation") = InvitationRows
        /\ Table("location") = LocationRows
    BY DEF Table, MemberRows, InvitationRows, LocationRows, MemberRow, InvitationRow, LocationRow
  <1>2. Rows = {GroupRow} \cup MemberRows \cup InvitationRows \cup LocationRows
    BY <1>1, Zenon DEF Rows
  <1>3. /\ \A x \in MemberRows : x[1] = "member"
        /\ \A x \in InvitationRows : x[1] = "invitation"
        /\ \A x \in LocationRows : x[1] = "location"
        /\ GroupRow[1] = "group"
    BY DEF MemberRows, InvitationRows, LocationRows, MemberRow, InvitationRow, LocationRow, GroupRow
  <1>4. /\ \A m, n : MemberRow(m) = MemberRow(n) => m = n
        /\ \A i, k : InvitationRow(i) = InvitationRow(k) => i = k
    BY DEF MemberRow, InvitationRow
  <1>5. GroupRow \notin MemberRows \cup InvitationRows \cup LocationRows
    BY <1>3
  <1>6. /\ MemberRows \cap InvitationRows = {} /\ MemberRows \cap LocationRows = {}
        /\ InvitationRows \cap LocationRows = {}
    BY <1>3
  <1>7. QED
    BY <1>2, <1>4, <1>5, <1>6

LEMMA Tables ==
  /\ Table("member") = MemberRows /\ Table("invitation") = InvitationRows
  /\ Table("location") = LocationRows
  /\ IsFiniteSet(MemberRows) /\ IsFiniteSet(InvitationRows) /\ IsFiniteSet(LocationRows)
  /\ \A x \in MemberRows : x[1] = "member" /\ \E m \in Members : x = MemberRow(m) /\ x[2] = m
  /\ \A x \in InvitationRows :
       x[1] = "invitation" /\ \E i \in Invitations : x = InvitationRow(i) /\ x[2] = i
  /\ \A x \in LocationRows : x[1] = "location"
  <1>1. /\ Table("member") = MemberRows /\ Table("invitation") = InvitationRows
        /\ Table("location") = LocationRows
    BY DEF Table, MemberRows, InvitationRows, LocationRows, MemberRow, InvitationRow, LocationRow
  <1>2. /\ Table("member") = {"member"} \X Members
        /\ Table("invitation") = {"invitation"} \X Invitations
        /\ Table("location") = {"location"} \X Locations
    BY DEF Table
  <1>3. IsFiniteSet(MemberRows) /\ IsFiniteSet(InvitationRows) /\ IsFiniteSet(LocationRows)
    <2>1. IsFiniteSet({"member"}) /\ IsFiniteSet({"invitation"}) /\ IsFiniteSet({"location"})
      BY FS_Singleton
    <2>2. /\ IsFiniteSet({"member"} \X Members) /\ IsFiniteSet({"invitation"} \X Invitations)
          /\ IsFiniteSet({"location"} \X Locations)
      BY <2>1, RowsAreFinite, FS_Product
    <2>3. QED
      BY <1>1, <1>2, <2>2
  <1>4. /\ \A x \in MemberRows : x[1] = "member" /\ \E m \in Members : x = MemberRow(m) /\ x[2] = m
        /\ \A x \in InvitationRows :
             x[1] = "invitation" /\ \E i \in Invitations : x = InvitationRow(i) /\ x[2] = i
        /\ \A x \in LocationRows : x[1] = "location"
    BY DEF MemberRows, InvitationRows, LocationRows, MemberRow, InvitationRow, LocationRow
  <1>5. QED
    BY <1>1, <1>3, <1>4

-----------------------------------------------------------------------------
(* What a statement does to the request that runs it. *)

(* Only the request of c changes. *)
Alone(c) == UNCHANGED <<db, lapsed>> /\ tx' = [tx EXCEPT ![c] = tx'[c]]

(* A list to put before the rest may begin with an INSERT only. *)
Steady(more) ==
  more \in Seq(Steps) /\ (more # <<>> => \A st \in ToSet(Tail(more)) : st.do \notin Inserting)

LEMMA Steadies ==
  /\ Steady(<<>>)
  /\ \A x \in Steps : Steady(<<x>>)
  /\ \A s \in Seq(Steps) : (\A st \in ToSet(s) : st.do \notin Inserting) => Steady(s)
  <1>1. Steady(<<>>)
    BY DEF Steady
  <1>2. ASSUME NEW x \in Steps
        PROVE  Steady(<<x>>)
    BY ItemsOfList DEF Steady
  <1>3. ASSUME NEW s \in Seq(Steps), \A st \in ToSet(s) : st.do \notin Inserting
        PROVE  Steady(s)
    BY <1>3, ItemsOfTail DEF Steady
  <1>4. QED
    BY <1>1, <1>2, <1>3

(* What may be written of a row, or kept as it is. *)
Storable(x, v) == x \in Rows /\ Fits(x, v) /\ v.is # "absent"

(* The rest of the list under new statements. *)
LEMMA TodoEffect ==
  ASSUME NEW c \in Conns, TxOK(c), Busy(c), NEW more, Steady(more),
         tx'[c].todo = more \o Tail(tx[c].todo)
  PROVE  /\ tx'[c].todo \in Seq(Steps) /\ Plan(c) = {First(c)} \cup ToSet(Tail(tx[c].todo))
         /\ Plan(c)' = ToSet(more) \cup ToSet(Tail(tx[c].todo)) /\ First(c) \in Steps
         /\ Busy(c)' => \A st \in ToSet(Tail(tx'[c].todo)) : st.do \notin Inserting
         /\ Inserts(c)' \subseteq {st.row : st \in {s \in ToSet(more) : s.do \in Inserting}}
  <1> DEFINE old == tx[c].todo
             rest == Tail(old)
             new == tx'[c].todo
  <1>1. old \in Seq(Steps) /\ old # <<>>
    BY DEF TxOK, Busy
  <1>2. rest \in Seq(Steps) /\ Head(old) \in Steps /\ ToSet(old) = {Head(old)} \cup ToSet(rest)
    BY <1>1, ItemsOfTail
  <1>3. \A st \in ToSet(rest) : st.do \notin Inserting
    BY DEF TxOK
  <1>4. more \in Seq(Steps)
    BY DEF Steady
  <1>5. new \in Seq(Steps) /\ ToSet(new) = ToSet(more) \cup ToSet(rest)
    <2> HIDE DEF rest
    <2>1. more \o rest \in Seq(Steps) /\ ToSet(more \o rest) = ToSet(more) \cup ToSet(rest)
      BY <1>2, <1>4, ItemsOfConcatenation
    <2>2. QED
      BY <2>1 DEF rest
  <1>6. new # <<>> => \A st \in ToSet(Tail(new)) : st.do \notin Inserting
    <2> SUFFICES ASSUME new # <<>>
                 PROVE  \A st \in ToSet(Tail(new)) : st.do \notin Inserting
      OBVIOUS
    <2>1. CASE more = <<>>
      <3>1. new = rest
        BY <1>2, <2>1
      <3>2. ToSet(Tail(new)) \subseteq ToSet(rest)
        BY <1>2, <3>1, ItemsOfTail
      <3>3. QED
        BY <1>3, <3>2
    <2>2. CASE more # <<>>
      <3>1. ToSet(Tail(new)) \subseteq ToSet(Tail(more)) \cup ToSet(rest)
        BY <1>2, <1>4, <2>2, ItemsOfRest
      <3>2. QED
        BY <1>3, <2>2, <3>1 DEF Steady
    <2>3. QED
      BY <2>1, <2>2
  <1>7. Inserts(c)' \subseteq {st.row : st \in {s \in ToSet(more) : s.do \in Inserting}}
    <2> SUFFICES ASSUME new # <<>>, Head(new).do \in Inserting
                 PROVE  Head(new).row \in {st.row : st \in {s \in ToSet(more) : s.do \in Inserting}}
      BY DEF Inserts, Busy, First
    <2>1. Head(new) \in ToSet(new)
      BY <1>5, ItemsOfTail
    <2>2. Head(new) \in ToSet(more)
      BY <1>3, <1>5, <2>1
    <2>3. QED
      BY <2>2
  <1>8. QED
    BY <1>1, <1>2, <1>5, <1>6, <1>7 DEF Plan, First, Busy

LEMMA ContinueEffect ==
  ASSUME NEW c \in Conns, tx = [d \in Conns |-> tx[d]], TxOK(c), Busy(c),
         NEW v, NEW more, Steady(more), Continue(c, v, more),
         Storable(First(c).row, v)
  PROVE  /\ Alone(c) /\ TxOK(c)'
         /\ tx'[c].in = tx[c].in /\ tx'[c].shares = tx[c].shares
         /\ tx'[c].todo = more \o Tail(tx[c].todo)
         /\ tx[c].strong \subseteq tx'[c].strong
         /\ First(c).do \in ForUpdate => First(c).row \in tx'[c].strong
         /\ Of(c)' = Of(c) \cup {First(c).row} /\ tx'[c].rows[First(c).row] = v
         /\ \A x \in Of(c) : x # First(c).row => tx'[c].rows[x] = tx[c].rows[x]
  <1> DEFINE x0 == First(c).row
             strong == IF First(c).do \in ForUpdate THEN tx[c].strong \cup {x0} ELSE tx[c].strong
             old == tx[c]
  <1>1. old = [in |-> old.in, saw |-> old.saw, todo |-> old.todo, rows |-> old.rows,
               strong |-> old.strong, shares |-> old.shares]
    BY DEF TxOK
  <1>2. tx' = [tx EXCEPT ![c] = [old EXCEPT !.rows = Put(old.rows, x0, v),
                                            !.todo = more \o Tail(old.todo), !.strong = strong]]
    BY DEF Continue
  <1>3. tx'[c] = [old EXCEPT !.rows = Put(old.rows, x0, v), !.todo = more \o Tail(old.todo),
                             !.strong = strong]
    BY <1>2
  <1>4. tx'[c] = [in |-> old.in, saw |-> old.saw, todo |-> more \o Tail(old.todo),
                  rows |-> Put(old.rows, x0, v), strong |-> strong, shares |-> old.shares]
    BY <1>1, <1>3
  <1>5. Alone(c)
    BY <1>2, <1>3 DEF Alone, Continue
  <1>6. /\ tx'[c].rows = [y \in Of(c) \cup {x0} |-> IF y = x0 THEN v ELSE old.rows[y]]
        /\ Of(c)' = Of(c) \cup {x0}
    BY <1>4 DEF Put, Of
  <1>7. /\ tx'[c].todo \in Seq(Steps)
        /\ Busy(c)' => \A st \in ToSet(Tail(tx'[c].todo)) : st.do \notin Inserting
    <2>1. tx'[c].todo = more \o Tail(tx[c].todo)
      BY <1>4
    <2>2. QED
      BY <2>1, TodoEffect
  <1>8. TxOK(c)'
    <2>1. (tx[c] = [in |-> tx[c].in, saw |-> tx[c].saw, todo |-> tx[c].todo, rows |-> tx[c].rows,
                    strong |-> tx[c].strong, shares |-> tx[c].shares])'
      BY <1>4
    <2>2. /\ tx'[c].rows = [x \in Of(c)' |-> tx'[c].rows[x]] /\ Of(c)' \subseteq Rows
          /\ \A x \in Of(c)' : Fits(x, tx'[c].rows[x]) /\ tx'[c].rows[x].is # "absent"
      BY <1>6 DEF TxOK, Storable
    <2>3. QED
      BY <1>7, <2>1, <2>2 DEF TxOK, Fits
  <1>9. QED
    BY <1>4, <1>5, <1>6, <1>8

LEMMA ThenEffect ==
  ASSUME NEW c \in Conns, tx = [d \in Conns |-> tx[d]], TxOK(c), Busy(c),
         NEW more, Steady(more), Then(c, more)
  PROVE  /\ Alone(c) /\ TxOK(c)'
         /\ tx'[c].in = tx[c].in /\ tx'[c].shares = tx[c].shares
         /\ tx'[c].todo = more \o Tail(tx[c].todo)
         /\ tx'[c].strong = tx[c].strong /\ tx'[c].rows = tx[c].rows
  <1> DEFINE old == tx[c]
  <1>1. old = [in |-> old.in, saw |-> old.saw, todo |-> old.todo, rows |-> old.rows,
               strong |-> old.strong, shares |-> old.shares]
    BY DEF TxOK
  <1>2. tx' = [tx EXCEPT ![c] = [old EXCEPT !.todo = more \o Tail(old.todo)]]
    BY DEF Then
  <1>3. tx'[c] = [in |-> old.in, saw |-> old.saw, todo |-> more \o Tail(old.todo),
                  rows |-> old.rows, strong |-> old.strong, shares |-> old.shares]
    BY <1>1, <1>2
  <1>4. Alone(c)
    BY <1>2, <1>3 DEF Alone, Then
  <1>5. /\ tx'[c].todo \in Seq(Steps)
        /\ Busy(c)' => \A st \in ToSet(Tail(tx'[c].todo)) : st.do \notin Inserting
    <2>1. tx'[c].todo = more \o Tail(tx[c].todo)
      BY <1>3
    <2>2. QED
      BY <2>1, TodoEffect
  <1>6. (tx[c] = [in |-> tx[c].in, saw |-> tx[c].saw, todo |-> tx[c].todo, rows |-> tx[c].rows,
                  strong |-> tx[c].strong, shares |-> tx[c].shares])'
    BY <1>3
  <1>7. tx'[c].rows = old.rows
    BY <1>3
  <1>8. TxOK(c)'
    BY <1>5, <1>6, <1>7 DEF TxOK, Of, Fits
  <1>9. QED
    BY <1>3, <1>4, <1>8

IdleFacts ==
  \A c \in Conns : tx[c] = Idle =>
    TxOK(c) /\ StageOK(c) /\ Of(c) = {} /\ Plan(c) = {} /\ Inserts(c) = {} /\ ~Busy(c)

LEMMA IdleIsOK == IdleFacts
  <1> SUFFICES ASSUME NEW c \in Conns, tx[c] = Idle
               PROVE  TxOK(c) /\ StageOK(c) /\ Of(c) = {} /\ Plan(c) = {} /\ Inserts(c) = {} /\ ~Busy(c)
    BY DEF IdleFacts
  <1>1. /\ tx[c] = [in |-> None, saw |-> None, todo |-> <<>>, rows |-> <<>>, strong |-> {}, shares |-> {}]
        /\ tx[c].todo = <<>> /\ tx[c].rows = <<>>
    BY DEF Idle
  <1>2. Of(c) = {} /\ ~Busy(c)
    BY <1>1 DEF Of, Busy
  <1>3. tx[c].rows = [x \in Of(c) |-> tx[c].rows[x]]
    BY <1>1, <1>2
  <1>4. Plan(c) = {} /\ Inserts(c) = {} /\ StageOK(c)
    BY <1>1, <1>2, ItemsOfList DEF Plan, Inserts, StageOK
  <1>5. TxOK(c)
    BY <1>1, <1>2, <1>3 DEF TxOK
  <1>6. QED
    BY <1>2, <1>4, <1>5

LEMMA RefuseEffect ==
  ASSUME NEW c \in Conns, tx = [d \in Conns |-> tx[d]], Refuse(c)
  PROVE  Alone(c) /\ tx'[c] = Idle
  BY DEF Refuse, Alone

LEMMA BeginEffect ==
  ASSUME NEW c \in Conns, tx = [d \in Conns |-> tx[d]], TxOK(c), StageOK(c),
         NEW in \in Inputs, NEW saw, NEW st \in Steps, Begin(c, in, saw, <<st>>)
  PROVE  /\ Alone(c) /\ TxOK(c)' /\ tx'[c].in = in /\ tx'[c].todo = <<st>>
         /\ Of(c)' = {} /\ Plan(c)' = {st} /\ tx'[c].shares = {}
  <1>1. tx[c] = Idle
    BY GroupsAssumption DEF Begin, StageOK
  <1>2. Of(c) = {} /\ tx[c].rows = <<>>
    BY <1>1, IdleIsOK DEF IdleFacts, Idle
  <1>3. tx' = [tx EXCEPT ![c] = [Idle EXCEPT !.in = in, !.saw = saw, !.todo = <<st>>]]
    BY <1>1 DEF Begin
  <1>4. tx'[c] = [in |-> in, saw |-> saw, todo |-> <<st>>, rows |-> <<>>, strong |-> {}, shares |-> {}]
    BY <1>3 DEF Idle
  <1>5. Alone(c)
    BY <1>3, <1>4 DEF Alone, Begin
  <1>6. Of(c)' = {} /\ tx'[c].rows = [x \in Of(c)' |-> tx'[c].rows[x]]
    BY <1>4 DEF Of
  <1>7. Plan(c)' = {st} /\ tx'[c].todo \in Seq(Steps) /\ ToSet(Tail(tx'[c].todo)) = {}
    BY <1>4, ItemsOfList DEF Plan
  <1>8. TxOK(c)'
    BY <1>4, <1>6, <1>7 DEF TxOK
  <1>9. QED
    BY <1>4, <1>5, <1>6, <1>7, <1>8

LEMMA ShareEffect ==
  ASSUME NEW c \in Conns, tx = [d \in Conns |-> tx[d]], TxOK(c), Share(c)
  PROVE  /\ Alone(c) /\ TxOK(c)' /\ tx'[c].in = tx[c].in /\ tx'[c].rows = tx[c].rows
         /\ tx'[c].shares = tx[c].shares \cup {First(c).row}
         /\ tx'[c].todo = Tail(tx[c].todo) /\ tx'[c].strong = tx[c].strong
         /\ Plan(c) = {First(c)} \cup Plan(c)' /\ Inserts(c)' = {} /\ Busy(c)
  <1> DEFINE old == tx[c]
  <1>1. old = [in |-> old.in, saw |-> old.saw, todo |-> old.todo, rows |-> old.rows,
               strong |-> old.strong, shares |-> old.shares] /\ Busy(c)
    BY DEF TxOK, Share, Runs
  <1>2. tx' = [tx EXCEPT ![c] = [old EXCEPT !.todo = Tail(old.todo),
                                            !.shares = old.shares \cup {First(c).row}]]
    BY DEF Share
  <1>3. tx'[c] = [in |-> old.in, saw |-> old.saw, todo |-> Tail(old.todo), rows |-> old.rows,
                  strong |-> old.strong, shares |-> old.shares \cup {First(c).row}]
    BY <1>1, <1>2
  <1>4. Alone(c)
    BY <1>2, <1>3 DEF Alone, Share
  <1>5. tx'[c].todo = <<>> \o Tail(old.todo)
    <2>1. Tail(old.todo) \in Seq(Steps)
      BY <1>1, ItemsOfTail DEF TxOK, Busy
    <2>2. QED
      BY <1>3, <2>1
  <1>6. /\ tx'[c].todo \in Seq(Steps) /\ Plan(c) = {First(c)} \cup ToSet(Tail(tx[c].todo))
        /\ Busy(c)' => \A st \in ToSet(Tail(tx'[c].todo)) : st.do \notin Inserting
        /\ Inserts(c)' = {} /\ Plan(c)' = ToSet(Tail(tx[c].todo))
    <2>1. /\ tx'[c].todo \in Seq(Steps) /\ Plan(c) = {First(c)} \cup ToSet(Tail(tx[c].todo))
          /\ Plan(c)' = ToSet(<<>>) \cup ToSet(Tail(tx[c].todo))
          /\ Busy(c)' => \A st \in ToSet(Tail(tx'[c].todo)) : st.do \notin Inserting
          /\ Inserts(c)' \subseteq {st.row : st \in {s \in ToSet(<<>>) : s.do \in Inserting}}
      <3>1. Steady(<<>>)
        BY Steadies
      <3>2. QED
        BY <1>1, <1>5, <3>1, TodoEffect
    <2>2. ToSet(<<>>) = {}
      BY ItemsOfList
    <2>3. QED
      BY <2>1, <2>2
  <1>7. TxOK(c)'
    BY <1>3, <1>6 DEF TxOK, Of, Fits
  <1>8. QED
    BY <1>1, <1>3, <1>4, <1>6, <1>7

-----------------------------------------------------------------------------
(* What the others do does not disturb a request. *)

QuietFor(d) ==
  /\ tx'[d] = tx[d]
  /\ \A x \in Of(d) : db'[x] = db[x]
  /\ Live(GroupRow)' => Live(GroupRow)
  /\ \A x \in LocationRows \ Of(d) :
       Assigned(db'[x]) => db'[x] = db[x] \/ MemberRow(db'[x].holder) \notin Of(d)
  /\ GroupRow \in Of(d) => \A x \in Rows : Live(x)' => Live(x)

LEMMA Undisturbed ==
  ASSUME NEW d \in Conns, TxOK(d), StageOK(d), QuietFor(d)
  PROVE  TxOK(d)' /\ StageOK(d)'
  <1>1. /\ tx'[d] = tx[d] /\ Of(d)' = Of(d) /\ Plan(d)' = Plan(d) /\ (Busy(d)' <=> Busy(d))
        /\ (Linked(d)' <=> Linked(d)) /\ Subject(d)' = Subject(d) /\ (Stays(d)' <=> Stays(d))
    BY DEF QuietFor, Of, Plan, Busy, Linked, Subject, Stays, Employed
  <1>2. TxOK(d)'
    BY <1>1 DEF TxOK, Fits
  <1>3. \A x \in Of(d) : db'[x] = db[x] /\ (Live(x)' <=> Live(x))
    BY DEF QuietFor, Live
  <1>4. InviteStage(d) => InviteStage(d)'
    BY <1>1, <1>3 DEF InviteStage
  <1>5. RespondStage(d) => RespondStage(d)'
    <2>1. \A status : \A i \in Invitations : InvitationRow(i) \in Of(d) =>
            (AnswerIs(d, i, status)' <=> AnswerIs(d, i, status))
      BY <1>1, <1>3 DEF AnswerIs
    <2>2. \A i \in Invitations, m \in Members : InvitationRow(i) \in Of(d) =>
            (Joins(d, i, m)' <=> Joins(d, i, m))
      BY <1>1, <2>1 DEF Joins
    <2>3. Unanswered(d) => Unanswered(d)'
      BY <1>1 DEF Unanswered
    <2>4. Rejected(d) => Rejected(d)'
      BY <1>1, <2>1 DEF Rejected
    <2>5. Joining(d) => Joining(d)'
      BY <1>1, <2>2 DEF Joining
    <2>6. Joined(d) => Joined(d)'
      BY <1>1, <1>3, <2>2 DEF Joined
    <2>7. QED
      BY <2>3, <2>4, <2>5, <2>6 DEF RespondStage
  <1>6. MemberStage(d) => MemberStage(d)'
    <2>1. MemberUnread(d) => MemberUnread(d)'
      BY <1>1 DEF MemberUnread
    <2>2. ASSUME MemberLocked(d)
          PROVE  MemberLocked(d)'
      <3>1. Subject(d) \in Of(d)
        BY <2>2 DEF MemberLocked
      <3>2. ASSUME NEW x \in LocationRows, Assigned(Seen(d, x)'), (Seen(d, x)').holder = tx[d].in.t
            PROVE  Seen(d, x)' = Seen(d, x)
        <4>1. CASE x \in Of(d)
          BY <1>1, <4>1 DEF Seen, Of
        <4>2. CASE x \notin Of(d)
          <5>1. Seen(d, x)' = db'[x] /\ Seen(d, x) = db[x]
            BY <1>1, <4>2 DEF Seen, Of
          <5>2. QED
            BY <3>1, <3>2, <4>2, <5>1 DEF QuietFor, Subject
        <4>3. QED
          BY <4>1, <4>2
      <3>3. LeavesNothing(d)'
        <4>1. LeavesNothing(d) /\ (Live(GroupRow)' => Live(GroupRow))
          BY <2>2 DEF MemberLocked, QuietFor
        <4>2. QED
          BY <1>1, <3>2, <4>1 DEF LeavesNothing, Assigned
      <3>4. QED
        BY <1>1, <1>3, <2>2, <3>1, <3>3 DEF MemberLocked, Assigned
    <2>3. QED
      BY <2>1, <2>2 DEF MemberStage
  <1>7. CreateStage(d) => CreateStage(d)'
    BY <1>1 DEF CreateStage, Uncreated, CreatedHere
  <1>8. DropStage(d) => DropStage(d)'
    BY <1>1 DEF DropStage
  <1>9. DeleteStage(d) => DeleteStage(d)'
    <2>1. Unclosed(d) => Unclosed(d)'
      BY <1>1 DEF Unclosed
    <2>2. ASSUME Closed(d)
          PROVE  Closed(d)'
      <3>1. GroupRow \in Of(d) /\ Covered(d)
        BY <2>2 DEF Closed
      <3>2. Covered(d)'
        BY <1>1, <3>1 DEF Covered, QuietFor
      <3>3. QED
        BY <1>1, <1>3, <2>2, <3>2 DEF Closed
    <2>3. QED
      BY <2>1, <2>2 DEF DeleteStage
  <1>10. QED
    BY <1>1, <1>2, <1>4, <1>5, <1>6, <1>7, <1>8, <1>9 DEF StageOK

-----------------------------------------------------------------------------
(* A statement of one request keeps the invariant when it leaves its own   *)
(* request in order and takes nothing that others keep.                    *)

Yields(c) ==
  /\ \A d \in Conns \ {c} : \A x \in Of(c)' \ Of(c) :
       x \notin Of(d) /\ x \notin Inserts(d) /\ (x = GroupRow => GroupRow \notin tx[d].shares)
  /\ \A x \in Inserts(c)' :
       /\ x \in Rows /\ db[x].is = "absent" /\ x \notin Of(c)'
       /\ \A d \in Conns \ {c} : x \notin Of(d) /\ x \notin Inserts(d)
  /\ GroupRow \in tx'[c].shares \ tx[c].shares => \A d \in Conns \ {c} : GroupRow \notin Of(d)

LEMMA LocalStep ==
  ASSUME Inv, NEW c \in Conns, Alone(c), TxOK(c)', StageOK(c)', Yields(c)
  PROVE  Inv'
  <1>1. /\ tx = [d \in Conns |-> tx[d]] /\ tx' = [tx EXCEPT ![c] = tx'[c]] /\ UNCHANGED <<db, lapsed>>
        /\ \A d \in Conns \ {c} : tx'[d] = tx[d]
    BY DEF Inv, Alone
  <1>2. tx' = [d \in Conns |-> tx'[d]] /\ lapsed' \subseteq Invitations
    BY <1>1 DEF Inv
  <1>3. RowsOK' /\ MembershipsAreAccepted' /\ HoldersAreEmployees'
    <2>1. db' = db /\ RowsOK /\ MembershipsAreAccepted /\ HoldersAreEmployees
      BY <1>1 DEF Inv
    <2>2. RowsOK'
      BY <2>1 DEF RowsOK, Fits
    <2>3. HoldersAreEmployees'
      BY <2>1 DEF HoldersAreEmployees, Live
    <2>4. MembershipsAreAccepted'
      BY <2>1 DEF MembershipsAreAccepted
    <2>5. QED
      BY <2>2, <2>3, <2>4
  <1>4. ASSUME NEW d \in Conns
        PROVE  TxOK(d)' /\ StageOK(d)'
    <2>1. CASE d # c
      <3>1. QuietFor(d)
        BY <1>1, <2>1 DEF QuietFor, Live
      <3>2. QED
        BY <3>1, Undisturbed DEF Inv
    <2>2. QED
      BY <2>1
  <1>5. ApartOK'
    <2>1. \A d \in Conns \ {c} : Of(d)' = Of(d) /\ Inserts(d)' = Inserts(d)
      BY <1>1 DEF Of, Inserts, Busy, First
    <2>2. ApartOK
      BY DEF Inv
    <2>3. ASSUME NEW e \in Conns, NEW d \in Conns, e # d
          PROVE  /\ Of(e)' \cap Of(d)' = {} /\ Inserts(e)' \cap Inserts(d)' = {}
                 /\ GroupRow \in Of(e)' => GroupRow \notin tx'[d].shares
      <3>1. CASE e # c /\ d # c
        BY <1>1, <2>1, <2>2, <2>3, <3>1 DEF ApartOK
      <3>2. CASE e = c
        <4>1. Of(d)' = Of(d) /\ Inserts(d)' = Inserts(d) /\ tx'[d] = tx[d]
          BY <1>1, <2>1, <2>3, <3>2
        <4>2. Of(c) \cap Of(d) = {} /\ (GroupRow \in Of(c) => GroupRow \notin tx[d].shares)
          BY <2>2, <2>3, <3>2 DEF ApartOK
        <4>3. \A x \in Of(c)' \ Of(c) : x \notin Of(d) /\ (x = GroupRow => GroupRow \notin tx[d].shares)
          BY <2>3, <3>2 DEF Yields
        <4>4. \A x \in Inserts(c)' : x \notin Inserts(d)
          BY <2>3, <3>2 DEF Yields
        <4>5. QED
          BY <3>2, <4>1, <4>2, <4>3, <4>4
      <3>3. CASE d = c
        <4>1. Of(e)' = Of(e) /\ Inserts(e)' = Inserts(e) /\ tx'[e] = tx[e]
          BY <1>1, <2>1, <2>3, <3>3
        <4>2. Of(c) \cap Of(e) = {} /\ (GroupRow \in Of(e) => GroupRow \notin tx[c].shares)
          BY <2>2, <2>3, <3>3 DEF ApartOK
        <4>3. \A x \in Of(c)' \ Of(c) : x \notin Of(e)
          BY <2>3, <3>3 DEF Yields
        <4>4. \A x \in Inserts(c)' : x \notin Inserts(e)
          BY <2>3, <3>3 DEF Yields
        <4>5. GroupRow \in tx'[c].shares \ tx[c].shares => GroupRow \notin Of(e)
          BY <2>3, <3>3 DEF Yields
        <4>6. QED
          BY <3>3, <4>1, <4>2, <4>3, <4>4, <4>5
      <3>4. QED
        BY <3>1, <3>2, <3>3
    <2>4. ASSUME NEW e \in Conns, NEW d \in Conns
          PROVE  Inserts(e)' \cap Of(d)' = {}
      <3>1. Inserts(e) \cap Of(d) = {}
        BY <2>2 DEF ApartOK
      <3>2. CASE e # c /\ d # c
        BY <2>1, <3>1, <3>2
      <3>3. CASE e = c /\ d = c
        BY <3>3 DEF Yields
      <3>4. CASE e = c /\ d # c
        BY <2>1, <3>4 DEF Yields
      <3>5. CASE e # c /\ d = c
        BY <2>1, <3>1, <3>5 DEF Yields
      <3>6. QED
        BY <3>2, <3>3, <3>4, <3>5
    <2>5. ASSUME NEW e \in Conns, NEW x \in Inserts(e)'
          PROVE  x \in Rows /\ db'[x].is = "absent"
      <3>1. CASE e = c
        BY <1>1, <2>5, <3>1 DEF Yields
      <3>2. CASE e # c
        BY <1>1, <2>1, <2>2, <2>5, <3>2 DEF ApartOK
      <3>3. QED
        BY <3>1, <3>2
    <2>6. QED
      BY <2>3, <2>4, <2>5 DEF ApartOK
  <1>6. QED
    BY <1>2, <1>3, <1>4, <1>5 DEF Inv

(* Nothing new is kept, inserted next or shared. *)
LEMMA KeepingYields ==
  ASSUME NEW c \in Conns, Of(c)' \subseteq Of(c), Inserts(c)' = {},
         tx'[c].shares \subseteq tx[c].shares
  PROVE  Yields(c)
  BY DEF Yields

(* A statement that waited for its row finds nobody else keeping it.       *)
LEMMA LockingYields ==
  ASSUME Inv, NEW c \in Conns, NEW what \in ForUpdate \cup Update, Runs(c, what),
         First(c).row \in Rows, Live(First(c).row), what \in ForUpdate \/ First(c).row # GroupRow,
         Of(c)' = Of(c) \cup {First(c).row}, Inserts(c)' = {}, tx'[c].shares = tx[c].shares
  PROVE  Yields(c)
  <1> DEFINE x0 == First(c).row
  <1>1. \A d \in Conns \ {c} : x0 \notin Of(d) /\ (what \in ForUpdate => x0 \notin tx[d].shares)
    BY DEF Runs, WaitsFor, Of
  <1>2. \A d \in Conns : x0 \notin Inserts(d)
    BY DEF Inv, ApartOK, Live
  <1>3. QED
    BY <1>1, <1>2 DEF Yields

(* An INSERT keeps the row that was its own to insert. *)
LEMMA InsertingYields ==
  ASSUME Inv, NEW c \in Conns, Busy(c), First(c).do \in Inserting,
         Of(c)' = Of(c) \cup {First(c).row}, Inserts(c)' = {}, tx'[c].shares = tx[c].shares
  PROVE  Yields(c)
  <1>1. First(c).row \in Inserts(c)
    BY DEF Inserts
  <1>2. db[First(c).row].is = "absent" /\ \A d \in Conns \ {c} :
          First(c).row \notin Of(d) /\ First(c).row \notin Inserts(d)
    BY <1>1 DEF Inv, ApartOK
  <1>3. db[GroupRow].is # "absent"
    BY RowKinds DEF Inv, RowsOK, Fits
  <1>4. QED
    BY <1>2, <1>3 DEF Yields

LEMMA RefusalKeepsInv ==
  ASSUME Inv, NEW c \in Conns, Refuse(c)
  PROVE  Inv'
  <1>1. Alone(c) /\ tx'[c] = Idle
    BY RefuseEffect DEF Inv
  <1>2. IdleFacts'
    BY IdleIsOK, PTL
  <1>3. TxOK(c)' /\ StageOK(c)' /\ Of(c)' = {} /\ Inserts(c)' = {} /\ tx'[c].shares = {}
    <2>1. TxOK(c)' /\ StageOK(c)' /\ Of(c)' = {} /\ Inserts(c)' = {}
      BY <1>1, <1>2 DEF IdleFacts
    <2>2. QED
      BY <1>1, <2>1 DEF Idle
  <1>4. QED
    BY <1>1, <1>3, KeepingYields, LocalStep

-----------------------------------------------------------------------------
(* How far a request is, by the statement it runs next. *)

LEMMA StageOfStatement ==
  ASSUME NEW c \in Conns, TxOK(c), StageOK(c), Busy(c)
  PROVE  /\ tx[c].in \in Inputs /\ First(c) \in Plan(c)
         /\ First(c).do \in {"expired", "revoke", "absent", "invite"} =>
              tx[c].in.op = "invite" /\ InviteStage(c)
         /\ First(c).do = "answer" => tx[c].in.op = "respond" /\ Unanswered(c)
         /\ First(c).do = "join" => tx[c].in.op = "respond" /\ Joining(c)
         /\ First(c).do = "member" => tx[c].in.op \in {"edit", "remove"} /\ MemberUnread(c)
         /\ First(c).do \in {"unassign", "free", "take", "put"} =>
              tx[c].in.op \in {"edit", "remove"} /\ MemberLocked(c)
         /\ First(c).do \in {"resolve", "create"} => tx[c].in.op = "create" /\ Uncreated(c)
         /\ First(c).do = "drop" => tx[c].in.op = "drop" /\ DropStage(c)
         /\ First(c).do = "close" => tx[c].in.op = "delete" /\ Unclosed(c)
         /\ First(c).do \in {"sweep", "erase"} => tx[c].in.op = "delete" /\ Closed(c)
  <1> DEFINE st == First(c)
  <1>1. tx[c].todo \in Seq(Steps) /\ tx[c].todo # <<>>
    BY DEF TxOK, Busy
  <1>2. st \in Plan(c)
    BY <1>1, ItemsOfTail DEF First, Plan
  <1>3. tx[c] # Idle /\ tx[c].in \in Inputs
    BY <1>1 DEF StageOK, Idle
  <1>4. \A x : tx[c].todo = <<x>> => st = x
    BY ItemsOfList DEF First
  <1>5. InviteStage(c) => st.do \in {"expired", "absent", "share", "revoke", "invite"}
    BY <1>2 DEF InviteStage, Do
  <1>6. /\ Unanswered(c) => st.do = "answer"
        /\ Joining(c) => st.do = "join"
        /\ ~Rejected(c)
        /\ Joined(c) => st.do = "share"
    <2>1. Unanswered(c) => st.do = "answer"
      BY <1>4 DEF Unanswered, Do
    <2>2. Joining(c) => st.do = "join"
      BY <1>4 DEF Joining, Do
    <2>3. ~Rejected(c)
      BY <1>1 DEF Rejected
    <2>4. Joined(c) => st.do = "share"
      BY <1>2 DEF Joined, Do
    <2>5. QED
      BY <2>1, <2>2, <2>3, <2>4
  <1>7. /\ MemberUnread(c) => st.do = "member"
        /\ MemberLocked(c) => st.do \in {"unassign", "share", "free", "take", "put"}
    BY <1>2, <1>4 DEF MemberUnread, MemberLocked, Do
  <1>8. /\ Uncreated(c) => st.do \in {"resolve", "create"}
        /\ CreatedHere(c) => st.do = "share"
    BY <1>2, <1>4 DEF Uncreated, CreatedHere, Do
  <1>9. DropStage(c) => st.do = "drop"
    BY <1>2 DEF DropStage, Do
  <1>10. /\ Unclosed(c) => st.do = "close"
         /\ Closed(c) => st.do \in {"sweep", "erase"}
    BY <1>2, <1>4 DEF Unclosed, Closed, Do
  <1> HIDE DEF st
  <1>11. \/ tx[c].in.op = "invite" /\ InviteStage(c)
         \/ tx[c].in.op = "respond" /\ (Unanswered(c) \/ Joining(c) \/ Joined(c))
         \/ tx[c].in.op \in {"edit", "remove"} /\ (MemberUnread(c) \/ MemberLocked(c))
         \/ tx[c].in.op = "create" /\ (Uncreated(c) \/ CreatedHere(c))
         \/ tx[c].in.op = "drop" /\ DropStage(c)
         \/ tx[c].in.op = "delete" /\ (Unclosed(c) \/ Closed(c))
    BY <1>3, <1>6 DEF StageOK, RespondStage, MemberStage, CreateStage, DeleteStage
  <1>12. QED
    BY <1>2, <1>3, <1>5, <1>6, <1>7, <1>8, <1>9, <1>10, <1>11 DEF st

LEMMA InputShapes ==
  ASSUME NEW in \in Inputs
  PROVE  /\ in.op = "invite" => in.user \in Users /\ in.role \in Roles
         /\ in.op = "respond" => in.status \in {"accepted", "rejected"}
         /\ in.op \in {"edit", "remove"} => in.t \in Members
         /\ in.op = "edit" => in.role \in Roles \cup {None} /\ in.to \in Locations \cup {None, "nowhere"}
         /\ in.op = "create" => in.t \in Members \cup {None}
  BY DEF Inputs

-----------------------------------------------------------------------------
(* The requests. *)

LEMMA BeginningKeepsInv ==
  ASSUME Inv, NEW c \in Conns, NEW in \in Inputs, NEW saw, NEW st \in Steps, st.do \notin Inserting,
         Begin(c, in, saw, <<st>>), StageOK(c)'
  PROVE  Inv'
  <1>1. /\ Alone(c) /\ TxOK(c)' /\ tx'[c].todo = <<st>>
        /\ Of(c)' = {} /\ tx'[c].shares = {}
    BY BeginEffect DEF Inv
  <1>2. Inserts(c)' = {}
    BY <1>1, ItemsOfList DEF Inserts, First
  <1>3. QED
    BY <1>1, <1>2, KeepingYields, LocalStep

LEMMA RequestKeepsInv ==
  ASSUME Inv, NEW c \in Conns, Request(c)
  PROVE  Inv'
  <1>1. TxOK(c) /\ StageOK(c) /\ tx = [d \in Conns |-> tx[d]] /\ RowsOK
    BY DEF Inv
  <1>2. ASSUME NEW a \in Members, NEW u \in Users, NEW r \in Roles, Invite(c, a, u, r)
        PROVE  Inv'
    <2> DEFINE in == [op |-> "invite", user |-> u, role |-> r]
               st == Do("expired", None)
    <2>1. in \in Inputs /\ st \in Steps /\ st.do \notin Inserting
      <3>1. in \in Inputs
        BY DEF Inputs
      <3>2. QED
        BY <3>1 DEF Do, Steps, Statements, Inserting
    <2>2. Begin(c, in, None, <<st>>)
      BY <1>2 DEF Invite
    <2>3. tx'[c].in = in /\ Of(c)' = {} /\ Plan(c)' = {st}
      BY <1>1, <2>1, <2>2, BeginEffect
    <2>4. StageOK(c)'
      BY <2>1, <2>3 DEF StageOK, InviteStage
    <2> HIDE DEF in, st
    <2>5. QED
      BY <2>1, <2>2, <2>4, BeginningKeepsInv
  <1>3. ASSUME NEW a \in Members, NEW t \in Members, RemoveMember(c, a, t)
        PROVE  Inv'
    <2> DEFINE in == [op |-> "remove", a |-> a, as |-> db[MemberRow(a)].role, t |-> t]
               st == Do("member", MemberRow(t))
    <2>1. MemberRow(a) \in MemberRows /\ MemberRow(t) \in MemberRows
      BY DEF MemberRows
    <2>2. MemberRow(t) \in Rows /\ db[MemberRow(a)] \in MemberVersions
      BY <1>1, <2>1, RowKinds DEF RowsOK, Fits
    <2>3. in \in Inputs
      BY <2>2 DEF Inputs, MemberVersions
    <2>4. st \in Steps /\ st.do \notin Inserting
      BY <2>2 DEF Do, Steps, Statements, Inserting
    <2>5. Begin(c, in, None, <<st>>)
      BY <1>3 DEF RemoveMember
    <2>6. tx'[c].in = in /\ Of(c)' = {} /\ tx'[c].todo = <<st>>
      BY <1>1, <2>3, <2>4, <2>5, BeginEffect
    <2>7. StageOK(c)'
      BY <2>3, <2>6 DEF StageOK, MemberStage, MemberUnread, Subject
    <2> HIDE DEF in, st
    <2>8. QED
      BY <2>3, <2>4, <2>5, <2>7, BeginningKeepsInv
  <1>4. ASSUME NEW a \in Members, NEW t \in Members, NEW r \in Roles \cup {None},
               NEW l \in Locations \cup {None, "nowhere"}, EditMember(c, a, t, r, l)
        PROVE  Inv'
    <2> DEFINE in == [op |-> "edit", a |-> a, t |-> t, role |-> r, to |-> l]
               st == Do("member", MemberRow(t))
    <2>1. MemberRow(t) \in Rows
      BY RowKinds DEF MemberRows
    <2>2. in \in Inputs
      BY DEF Inputs
    <2>3. st \in Steps /\ st.do \notin Inserting
      BY <2>1 DEF Do, Steps, Statements, Inserting
    <2>4. Begin(c, in, LocationOf(t), <<st>>)
      BY <1>4 DEF EditMember
    <2>5. tx'[c].in = in /\ Of(c)' = {} /\ tx'[c].todo = <<st>>
      BY <1>1, <2>2, <2>3, <2>4, BeginEffect
    <2>6. StageOK(c)'
      BY <2>2, <2>5 DEF StageOK, MemberStage, MemberUnread, Subject
    <2> HIDE DEF in, st
    <2>7. QED
      BY <2>2, <2>3, <2>4, <2>6, BeginningKeepsInv
  <1>5. ASSUME NEW a \in Members, NEW t \in Members \cup {None}, CreateLocation(c, a, t)
        PROVE  Inv'
    <2> DEFINE in == [op |-> "create", t |-> t]
               st == Do("resolve", None)
    <2>1. in \in Inputs /\ st \in Steps /\ st.do \notin Inserting
      <3>1. in \in Inputs
        BY DEF Inputs
      <3>2. QED
        BY <3>1 DEF Do, Steps, Statements, Inserting
    <2>2. Begin(c, in, None, <<st>>)
      BY <1>5 DEF CreateLocation
    <2>3. tx'[c].in = in /\ Of(c)' = {} /\ tx'[c].todo = <<st>>
      BY <1>1, <2>1, <2>2, BeginEffect
    <2>4. StageOK(c)'
      BY <2>1, <2>3 DEF StageOK, CreateStage, Uncreated
    <2> HIDE DEF in, st
    <2>5. QED
      BY <2>1, <2>2, <2>4, BeginningKeepsInv
  <1>6. ASSUME NEW a \in Members, NEW l \in Locations, DeleteLocation(c, a, l)
        PROVE  Inv'
    <2> DEFINE in == [op |-> "drop", l |-> l]
               st == Do("drop", LocationRow(l))
    <2>1. LocationRow(l) \in Rows /\ LocationRow(l) \in LocationRows
      BY RowKinds DEF LocationRows
    <2>2. in \in Inputs /\ st \in Steps /\ st.do \notin Inserting
      <3>1. in \in Inputs
        BY DEF Inputs
      <3>2. QED
        BY <2>1, <3>1 DEF Do, Steps, Statements, Inserting
    <2>3. Begin(c, in, None, <<st>>)
      BY <1>6 DEF DeleteLocation
    <2>4. tx'[c].in = in /\ Of(c)' = {} /\ Plan(c)' = {st}
      BY <1>1, <2>2, <2>3, BeginEffect
    <2>5. StageOK(c)'
      BY <2>1, <2>2, <2>4 DEF StageOK, DropStage
    <2> HIDE DEF in, st
    <2>6. QED
      BY <2>2, <2>3, <2>5, BeginningKeepsInv
  <1>7. ASSUME NEW i \in Invitations, NEW status \in {"accepted", "rejected"}, Respond(c, i, status)
        PROVE  Inv'
    <2> DEFINE in == [op |-> "respond", status |-> status]
               st == Do("answer", InvitationRow(i))
    <2>1. InvitationRow(i) \in Rows
      BY RowKinds DEF InvitationRows
    <2>2. in \in Inputs /\ st \in Steps /\ st.do \notin Inserting
      <3>1. in \in Inputs
        BY DEF Inputs
      <3>2. QED
        BY <2>1, <3>1 DEF Do, Steps, Statements, Inserting
    <2>3. Begin(c, in, None, <<st>>)
      BY <1>7 DEF Respond
    <2>4. tx'[c].in = in /\ Of(c)' = {} /\ tx'[c].todo = <<st>>
      BY <1>1, <2>2, <2>3, BeginEffect
    <2>5. StageOK(c)'
      BY <2>2, <2>4 DEF StageOK, RespondStage, Unanswered
    <2> HIDE DEF in, st
    <2>6. QED
      BY <2>2, <2>3, <2>5, BeginningKeepsInv
  <1>8. ASSUME Delete(c)
        PROVE  Inv'
    <2> DEFINE in == [op |-> "delete"]
               st == Do("close", GroupRow)
    <2>1. in \in Inputs /\ st \in Steps /\ st.do \notin Inserting
      <3>1. in \in Inputs
        BY DEF Inputs
      <3>2. QED
        BY RowKinds, <3>1 DEF Do, Steps, Statements, Inserting
    <2>2. Begin(c, in, None, <<st>>)
      BY <1>8 DEF Delete
    <2>3. tx'[c].in = in /\ Of(c)' = {} /\ tx'[c].todo = <<st>>
      BY <1>1, <2>1, <2>2, BeginEffect
    <2>4. StageOK(c)'
      BY <2>1, <2>3 DEF StageOK, DeleteStage, Unclosed
    <2> HIDE DEF in, st
    <2>5. QED
      BY <2>1, <2>2, <2>4, BeginningKeepsInv
  <1>9. QED
    BY <1>2, <1>3, <1>4, <1>5, <1>6, <1>7, <1>8 DEF Request

-----------------------------------------------------------------------------
(* The statements.  Those of invitations first. *)

Moves(c, more) ==
  /\ UNCHANGED db /\ tx'[c].in = tx[c].in /\ tx'[c].shares = tx[c].shares
  /\ tx[c].strong \subseteq tx'[c].strong
  /\ tx'[c].todo = more \o Tail(tx[c].todo)
  /\ Plan(c) = {First(c)} \cup ToSet(Tail(tx[c].todo))
  /\ Plan(c)' = ToSet(more) \cup ToSet(Tail(tx[c].todo))

Writes(c, v, more) ==
  /\ Moves(c, more)
  /\ Of(c)' = Of(c) \cup {First(c).row} /\ tx'[c].rows[First(c).row] = v
  /\ \A x \in Of(c) : x # First(c).row => tx'[c].rows[x] = tx[c].rows[x]
  /\ First(c).do \in ForUpdate => First(c).row \in tx'[c].strong

LEMMA ContinueWrites ==
  ASSUME Inv, NEW c \in Conns, Busy(c), NEW v, NEW more, Steady(more), Continue(c, v, more),
         Storable(First(c).row, v)
  PROVE  Writes(c, v, more)
  <1>1. TxOK(c) /\ tx = [d \in Conns |-> tx[d]]
    BY DEF Inv
  <1>2. /\ Alone(c) /\ tx'[c].in = tx[c].in /\ tx'[c].shares = tx[c].shares
        /\ tx'[c].todo = more \o Tail(tx[c].todo) /\ tx[c].strong \subseteq tx'[c].strong
        /\ First(c).do \in ForUpdate => First(c).row \in tx'[c].strong
        /\ Of(c)' = Of(c) \cup {First(c).row} /\ tx'[c].rows[First(c).row] = v
        /\ \A x \in Of(c) : x # First(c).row => tx'[c].rows[x] = tx[c].rows[x]
    BY <1>1, ContinueEffect
  <1>3. /\ Plan(c) = {First(c)} \cup ToSet(Tail(tx[c].todo))
        /\ Plan(c)' = ToSet(more) \cup ToSet(Tail(tx[c].todo))
    BY <1>1, <1>2, TodoEffect
  <1>4. QED
    BY <1>2, <1>3 DEF Writes, Moves, Alone

LEMMA ContinueKeepsInv ==
  ASSUME Inv, NEW c \in Conns, NEW what, Runs(c, what), NEW v, NEW more, Steady(more),
         \A st \in ToSet(more) : st.do \notin Inserting, Continue(c, v, more),
         Storable(First(c).row, v),
         \/ what \in Inserting
         \/ /\ what \in ForUpdate \cup Update /\ Live(First(c).row)
            /\ what \in ForUpdate \/ First(c).row # GroupRow
         \/ First(c).row \in Of(c),
         StageOK(c)'
  PROVE  Inv'
  <1>1. TxOK(c) /\ tx = [d \in Conns |-> tx[d]] /\ Busy(c) /\ First(c).do = what
    BY DEF Inv, Runs
  <1>2. /\ Alone(c) /\ TxOK(c)' /\ tx'[c].shares = tx[c].shares
        /\ tx'[c].todo = more \o Tail(tx[c].todo) /\ Of(c)' = Of(c) \cup {First(c).row}
    BY <1>1, ContinueEffect
  <1>3. Inserts(c)' = {}
    BY <1>1, <1>2, TodoEffect
  <1>4. Yields(c)
    <2>1. CASE what \in Inserting
      BY <1>1, <1>2, <1>3, <2>1, InsertingYields
    <2>2. CASE /\ what \in ForUpdate \cup Update /\ Live(First(c).row)
               /\ what \in ForUpdate \/ First(c).row # GroupRow
      BY <1>1, <1>2, <1>3, <2>2, LockingYields DEF Storable
    <2>3. CASE First(c).row \in Of(c)
      BY <1>2, <1>3, <2>3, KeepingYields
    <2>4. QED
      BY <2>1, <2>2, <2>3
  <1>5. QED
    BY <1>2, <1>4, LocalStep

LEMMA ThenMoves ==
  ASSUME Inv, NEW c \in Conns, Busy(c), NEW more, Steady(more), Then(c, more)
  PROVE  Moves(c, more) /\ tx'[c].rows = tx[c].rows /\ Of(c)' = Of(c)
  <1>1. TxOK(c) /\ tx = [d \in Conns |-> tx[d]]
    BY DEF Inv
  <1>2. /\ Alone(c) /\ tx'[c].in = tx[c].in /\ tx'[c].shares = tx[c].shares
        /\ tx'[c].todo = more \o Tail(tx[c].todo) /\ tx'[c].rows = tx[c].rows
        /\ tx'[c].strong = tx[c].strong
    BY <1>1, ThenEffect
  <1>3. /\ Plan(c) = {First(c)} \cup ToSet(Tail(tx[c].todo))
        /\ Plan(c)' = ToSet(more) \cup ToSet(Tail(tx[c].todo))
    BY <1>1, <1>2, TodoEffect
  <1>4. QED
    BY <1>2, <1>3 DEF Moves, Alone, Of

(* Statements follow that insert nothing, or the INSERT of a row that is   *)
(* nobody else's.                                                          *)
LEMMA ThenKeepsInv ==
  ASSUME Inv, NEW c \in Conns, Busy(c), NEW more, Steady(more), Then(c, more), StageOK(c)',
         \A st \in ToSet(more) : st.do \in Inserting => st.row \in Rows /\ Fresh(st.row)
  PROVE  Inv'
  <1>1. TxOK(c) /\ tx = [d \in Conns |-> tx[d]]
    BY DEF Inv
  <1>2. /\ Alone(c) /\ TxOK(c)' /\ tx'[c].shares = tx[c].shares
        /\ tx'[c].todo = more \o Tail(tx[c].todo) /\ tx'[c].rows = tx[c].rows
    BY <1>1, ThenEffect
  <1>3. Inserts(c)' \subseteq {st.row : st \in {s \in ToSet(more) : s.do \in Inserting}}
    BY <1>1, <1>2, TodoEffect
  <1>4. \A x \in Inserts(c)' : x \in Rows /\ Fresh(x)
    BY <1>3
  <1>5. \A x, d : Fresh(x) /\ d \in Conns => db[x].is = "absent" /\ x \notin Of(d) /\ x \notin Inserts(d)
    BY DEF Fresh, Of, Inserts
  <1>6. Of(c)' = Of(c)
    BY <1>2 DEF Of
  <1>7. Yields(c)
    BY <1>2, <1>4, <1>5, <1>6 DEF Yields
  <1>8. QED
    BY <1>2, <1>7, LocalStep

LEMMA ImagesAreFinite ==
  ASSUME NEW D, IsFiniteSet(D), NEW f, f = [x \in D |-> f[x]]
  PROVE  IsFiniteSet({f[x] : x \in D})
  <1> DEFINE T == {f[x] : x \in D}
  <1>1. f \in Surjection(D, T)
    BY DEF Surjection
  <1>2. QED
    BY <1>1, FS_Surjection

(* One statement for each of finitely many rows, in whichever order. *)
LEMMA StatementsForRows ==
  ASSUME NEW D, D \subseteq Rows, IsFiniteSet(D), NEW what \in Statements \ Inserting
  PROVE  /\ IsFiniteSet({Do(what, x) : x \in D})
         /\ {Do(what, x) : x \in D} \subseteq Steps
         /\ \A s \in SetToSeqs({Do(what, x) : x \in D}) \cup {SetToSeq({Do(what, x) : x \in D})} :
              s \in Seq(Steps) /\ ToSet(s) = {Do(what, x) : x \in D} /\ Steady(s)
  <1> DEFINE f == [x \in D |-> Do(what, x)]
             S == {Do(what, x) : x \in D}
  <1>1. f = [x \in D |-> f[x]] /\ S = {f[x] : x \in D}
    OBVIOUS
  <1>2. IsFiniteSet({f[x] : x \in D})
    <2> HIDE DEF f
    <2>1. QED
      BY <1>1, ImagesAreFinite
  <1>3. IsFiniteSet(S)
    BY <1>1, <1>2
  <1>4. S \subseteq Steps /\ \A st \in S : st.do \notin Inserting
    BY DEF Do, Steps
  <1> HIDE DEF S
  <1>5. ASSUME NEW s \in SetToSeqs(S) \cup {SetToSeq(S)}
        PROVE  s \in Seq(Steps) /\ ToSet(s) = S /\ Steady(s)
    <2>1. s \in Seq(S) /\ ToSet(s) = S
      BY <1>3, <1>5, ListsCover, ListCovers
    <2>2. s \in Seq(Steps)
      BY <1>4, <2>1
    <2>3. QED
      BY <1>4, <2>1, <2>2, Steadies
  <1>6. QED
    BY <1>3, <1>4, <1>5 DEF S

LEMMA FindExpiredKeepsInv ==
  ASSUME Inv, NEW c \in Conns, FindExpired(c)
  PROVE  Inv'
  <1> DEFINE D == {InvitationRow(i) : i \in Outdated(tx[c].in.user)}
             absent == Do("absent", None)
  <1>1. /\ TxOK(c) /\ StageOK(c) /\ Busy(c) /\ First(c).do = "expired"
        /\ Outdated(tx[c].in.user) \subseteq lapsed
    BY DEF Inv, FindExpired, Runs, Outdated
  <1>2. tx[c].in \in Inputs /\ tx[c].in.op = "invite" /\ InviteStage(c)
    BY <1>1, StageOfStatement
  <1> DEFINE S == {Do("revoke", x) : x \in D}
  <1>3. S = {Do("revoke", InvitationRow(i)) : i \in Outdated(tx[c].in.user)}
    OBVIOUS
  <1>4. D \subseteq InvitationRows /\ D \subseteq Rows /\ IsFiniteSet(D)
    <2>1. D \subseteq InvitationRows
      BY DEF Inv, Outdated, InvitationRows
    <2>2. QED
      BY <2>1, RowKinds, Tables, FS_Subset
  <1>5. /\ SetToSeq(S) \in Seq(Steps) /\ ToSet(SetToSeq(S)) = S
        /\ S \subseteq {Do("revoke", x) : x \in InvitationRows}
    <2>1. S \subseteq {Do("revoke", x) : x \in InvitationRows}
      BY <1>4
    <2>2. "revoke" \in Statements \ Inserting
      BY DEF Statements, Inserting
    <2>3. QED
      BY <1>4, <2>1, <2>2, StatementsForRows
  <1> HIDE DEF S, D
  <1> DEFINE more == SetToSeq(S) \o <<absent>>
  <1>6. absent \in Steps /\ <<absent>> \in Seq(Steps) /\ ToSet(<<absent>>) = {absent}
    BY ItemsOfList DEF Do, Steps, Statements
  <1> HIDE DEF absent
  <1>7. more \in Seq(Steps) /\ ToSet(more) = S \cup {absent}
    BY <1>5, <1>6, ItemsOfConcatenation
  <1>8. \A st \in ToSet(more) : st.do \notin Inserting
    BY <1>5, <1>7 DEF Do, Inserting, absent
  <1>9. Then(c, more)
    BY <1>3 DEF FindExpired, absent
  <1> HIDE DEF more
  <1>10. Steady(more)
    BY <1>7, <1>8, Steadies
  <1>11. Moves(c, more) /\ tx'[c].rows = tx[c].rows /\ Of(c)' = Of(c)
    BY <1>1, <1>9, <1>10, ThenMoves
  <1>12. StageOK(c)'
    <2>1. Plan(c)' \subseteq Plan(c) \cup S \cup {Do("absent", None)}
      BY <1>7, <1>11 DEF Moves, absent
    <2>2. Linked(c) => Linked(c)'
      BY <1>1, <1>11 DEF Moves, Linked, Do
    <2>3. InviteStage(c)'
      BY <1>2, <1>5, <1>11, <2>1, <2>2 DEF InviteStage, Moves, Live
    <2>4. QED
      BY <1>2, <1>11, <2>3 DEF StageOK, Moves
  <1>13. QED
    BY <1>1, <1>8, <1>9, <1>10, <1>12, ThenKeepsInv

LEMMA RevokeKeepsInv ==
  ASSUME Inv, NEW c \in Conns, Revoke(c)
  PROVE  Inv'
  <1> DEFINE x0 == First(c).row
             v == db[x0]
             w == [v EXCEPT !.status = "revoked"]
  <1>1. /\ TxOK(c) /\ StageOK(c) /\ Busy(c) /\ First(c).do = "revoke" /\ RowsOK
        /\ Runs(c, "revoke")
    BY DEF Inv, Revoke, Runs
  <1>2. tx[c].in \in Inputs /\ tx[c].in.op = "invite" /\ InviteStage(c) /\ First(c) \in Plan(c)
    BY <1>1, StageOfStatement
  <1>3. x0 \in InvitationRows
    BY <1>1, <1>2 DEF InviteStage, Do
  <1>4. x0 \in Rows /\ v \in InvitationVersions /\ x0 # GroupRow
    BY <1>1, <1>3, RowKinds DEF RowsOK, Fits
  <1>5. Steady(<<>>) /\ ToSet(<<>>) = {}
    BY Steadies, ItemsOfList
  <1>6. CASE v.is = "live" /\ v.status = "pending" /\ Continue(c, w, <<>>)
    <2>1. w \in InvitationVersions /\ w.status = "revoked" /\ w.is = "live"
      BY <1>4, <1>6 DEF InvitationVersions
    <2>2. Storable(x0, w)
      BY <1>3, <1>4, <2>1, RowKinds DEF Storable, Fits
    <2> HIDE DEF w
    <2>3. Writes(c, w, <<>>)
      BY <1>1, <1>5, <1>6, <2>2, ContinueWrites
    <2>4. /\ UNCHANGED db /\ Of(c)' = Of(c) \cup {x0} /\ tx'[c].rows[x0] = w
          /\ \A x \in Of(c) : x # x0 => tx'[c].rows[x] = tx[c].rows[x]
          /\ Plan(c)' \subseteq Plan(c) /\ tx'[c].in = tx[c].in
      BY <1>5, <2>3 DEF Writes, Moves
    <2>5. Linked(c) => Linked(c)'
      BY <1>1, <2>3 DEF Writes, Moves, Linked, Do
    <2>6. Live(x0) /\ v.status # "accepted"
      BY <1>6 DEF Live
    <2> HIDE DEF x0, v
    <2>7. InviteStage(c)'
      BY <1>2, <1>3, <2>1, <2>4, <2>5, <2>6 DEF InviteStage, Live, v
    <2>8. StageOK(c)'
      BY <1>2, <2>4, <2>7 DEF StageOK
    <2>9. QED
      BY <1>1, <1>4, <1>5, <1>6, <2>2, <2>6, <2>8, ContinueKeepsInv DEF Update, x0
  <1>7. CASE Then(c, <<>>)
    <2>1. Moves(c, <<>>) /\ tx'[c].rows = tx[c].rows /\ Of(c)' = Of(c)
      BY <1>1, <1>5, <1>7, ThenMoves
    <2>2. /\ UNCHANGED db /\ Plan(c)' \subseteq Plan(c) /\ tx'[c].in = tx[c].in
          /\ (Linked(c) => Linked(c)')
      BY <1>1, <1>5, <2>1 DEF Moves, Linked, Do
    <2>3. InviteStage(c)'
      BY <1>2, <2>1, <2>2 DEF InviteStage, Live
    <2>4. StageOK(c)'
      BY <1>2, <2>2, <2>3 DEF StageOK
    <2>5. QED
      BY <1>1, <1>5, <1>7, <2>4, ThenKeepsInv
  <1>8. QED
    BY <1>6, <1>7 DEF Revoke

LEMMA CheckAbsentKeepsInv ==
  ASSUME Inv, NEW c \in Conns, CheckAbsent(c)
  PROVE  Inv'
  <1>1. /\ TxOK(c) /\ StageOK(c) /\ Busy(c) /\ First(c).do = "absent"
    BY DEF Inv, CheckAbsent, Runs
  <1>2. tx[c].in \in Inputs /\ tx[c].in.op = "invite" /\ InviteStage(c)
    BY <1>1, StageOfStatement
  <1>3. ASSUME NEW i \in Invitations, Fresh(InvitationRow(i)),
               Then(c, <<Do("invite", InvitationRow(i))>>)
        PROVE  Inv'
    <2> DEFINE st == Do("invite", InvitationRow(i))
    <2>1. InvitationRow(i) \in InvitationRows /\ InvitationRow(i) \in Rows
      BY RowKinds DEF InvitationRows
    <2>2. /\ st \in Steps /\ st.row = InvitationRow(i)
          /\ st \in {Do("invite", x) : x \in InvitationRows}
      BY <2>1 DEF Do, Steps, Statements
    <2> HIDE DEF st
    <2>3. Steady(<<st>>) /\ ToSet(<<st>>) = {st} /\ Then(c, <<st>>)
      BY <1>3, <2>2, Steadies, ItemsOfList DEF st
    <2>4. Moves(c, <<st>>) /\ tx'[c].rows = tx[c].rows /\ Of(c)' = Of(c)
      BY <1>1, <2>3, ThenMoves
    <2>5. /\ UNCHANGED db /\ Plan(c)' \subseteq Plan(c) \cup {st} /\ tx'[c].in = tx[c].in
          /\ (Linked(c) => Linked(c)')
      BY <1>1, <2>3, <2>4 DEF Moves, Linked, Do
    <2>6. InviteStage(c)'
      BY <1>2, <2>2, <2>4, <2>5 DEF InviteStage, Live
    <2>7. StageOK(c)'
      BY <1>2, <2>5, <2>6 DEF StageOK
    <2>8. QED
      BY <1>1, <1>3, <2>1, <2>2, <2>3, <2>7, ThenKeepsInv
  <1>4. CASE Refuse(c)
    BY <1>4, RefusalKeepsInv
  <1>5. QED
    BY <1>3, <1>4 DEF CheckAbsent

LEMMA InsertInvitationKeepsInv ==
  ASSUME Inv, NEW c \in Conns, InsertInvitation(c)
  PROVE  Inv'
  <1> DEFINE x0 == First(c).row
             v == [is |-> "live", user |-> tx[c].in.user, role |-> tx[c].in.role, status |-> "pending"]
  <1>1. /\ TxOK(c) /\ StageOK(c) /\ Busy(c) /\ First(c).do = "invite" /\ RowsOK
        /\ Runs(c, "invite")
    BY DEF Inv, InsertInvitation, Runs
  <1>2. tx[c].in \in Inputs /\ tx[c].in.op = "invite" /\ InviteStage(c) /\ First(c) \in Plan(c)
    BY <1>1, StageOfStatement
  <1>3. x0 \in InvitationRows
    BY <1>1, <1>2 DEF InviteStage, Do
  <1>4. x0 \in Rows /\ x0 # GroupRow /\ x0 \notin MemberRows \cup LocationRows
    BY <1>3, RowKinds
  <1>5. v \in InvitationVersions
    BY <1>2, InputShapes DEF InvitationVersions, Life
  <1>6. Storable(x0, v) /\ v.status = "pending"
    BY <1>4, <1>5 DEF Storable, Fits
  <1>7. db[x0].status # "accepted"
    <2>1. x0 \in Inserts(c)
      BY <1>1 DEF Inserts, Inserting
    <2>2. db[x0].is = "absent"
      BY <2>1 DEF Inv, ApartOK
    <2>3. QED
      BY <1>1, <1>3, <2>2, GroupsAssumption DEF RowsOK, InvitationRows
  <1>8. /\ Steady(ShareGroup) /\ ToSet(ShareGroup) = {Do("share", GroupRow)}
        /\ \A st \in ToSet(ShareGroup) : st.do \notin Inserting
    <2>1. Do("share", GroupRow) \in Steps /\ Do("share", GroupRow).do \notin Inserting
      BY RowKinds DEF Do, Steps, Statements, Inserting
    <2>2. QED
      BY <2>1, Steadies, ItemsOfList DEF ShareGroup
  <1> HIDE DEF v
  <1>9. CASE Continue(c, v, ShareGroup)
    <2>1. Writes(c, v, ShareGroup)
      BY <1>1, <1>6, <1>8, <1>9, ContinueWrites
    <2>2. /\ UNCHANGED db /\ Of(c)' = Of(c) \cup {x0} /\ tx'[c].rows[x0] = v
          /\ \A x \in Of(c) : x # x0 => tx'[c].rows[x] = tx[c].rows[x]
          /\ Plan(c)' \subseteq Plan(c) \cup {Do("share", GroupRow)} /\ tx'[c].in = tx[c].in
          /\ Linked(c)'
      BY <1>8, <2>1 DEF Writes, Moves, Linked
    <2> HIDE DEF x0
    <2>3. InviteStage(c)'
      BY <1>2, <1>3, <1>6, <1>7, <2>2 DEF InviteStage, Live
    <2>4. StageOK(c)'
      BY <1>2, <2>2, <2>3 DEF StageOK
    <2>5. QED
      BY <1>1, <1>6, <1>8, <1>9, <2>4, ContinueKeepsInv DEF Inserting, x0
  <1>10. QED
    BY <1>9, RefusalKeepsInv DEF InsertInvitation, v

LEMMA AnswerKeepsInv ==
  ASSUME Inv, NEW c \in Conns, Answer(c)
  PROVE  Inv'
  <1> DEFINE x0 == First(c).row
             v == db[x0]
             w == [v EXCEPT !.status = tx[c].in.status]
  <1>1. /\ TxOK(c) /\ StageOK(c) /\ Busy(c) /\ First(c).do = "answer" /\ RowsOK
        /\ Runs(c, "answer") /\ tx = [d \in Conns |-> tx[d]]
    BY DEF Inv, Answer, Runs
  <1>2. tx[c].in \in Inputs /\ tx[c].in.op = "respond" /\ Unanswered(c)
    BY <1>1, StageOfStatement
  <1>3. PICK i \in Invitations : tx[c].todo = <<Do("answer", InvitationRow(i))>>
    BY <1>2 DEF Unanswered
  <1>4. x0 = InvitationRow(i) /\ Tail(tx[c].todo) = <<>> /\ Of(c) = {} /\ x0 \in InvitationRows
    BY <1>2, <1>3, ItemsOfList DEF Unanswered, First, Do, InvitationRows
  <1>5. x0 \in Rows /\ v \in InvitationVersions /\ x0 # GroupRow /\ x0 \notin MemberRows \cup LocationRows
    BY <1>1, <1>4, RowKinds DEF RowsOK, Fits
  <1>6. ASSUME v.is = "live", v.status = "pending", Answered(c, w)
        PROVE  Inv'
    <2>1. /\ w \in InvitationVersions /\ w.status = tx[c].in.status /\ w.is = "live"
          /\ w.user = v.user /\ tx[c].in.status \in {"accepted", "rejected"}
      <3>1. tx[c].in.status \in {"accepted", "rejected"}
        BY <1>2, InputShapes
      <3>2. QED
        BY <1>5, <1>6, <3>1 DEF InvitationVersions
    <2>2. Storable(x0, w)
      BY <1>5, <2>1 DEF Storable, Fits
    <2> HIDE DEF w
    <2>3. ASSUME tx[c].in.status = "rejected", Continue(c, w, <<>>)
          PROVE  Inv'
      <3>1. Steady(<<>>) /\ ToSet(<<>>) = {}
        BY Steadies, ItemsOfList
      <3>2. Writes(c, w, <<>>)
        BY <1>1, <2>2, <2>3, <3>1, ContinueWrites
      <3>3. /\ tx'[c].todo = <<>> /\ Of(c)' = {x0} /\ tx'[c].rows[x0] = w /\ UNCHANGED db
            /\ tx'[c].in = tx[c].in
        <4>1. <<>> \o <<>> = <<>>
          OBVIOUS
        <4>2. QED
          BY <1>4, <3>2, <4>1 DEF Writes, Moves
      <3> HIDE DEF x0, v
      <3>4. AnswerIs(c, i, "rejected")'
        BY <1>4, <1>6, <2>1, <2>3, <3>3 DEF AnswerIs, v
      <3>5. Rejected(c)'
        BY <1>4, <3>3, <3>4 DEF Rejected
      <3>6. StageOK(c)'
        BY <1>2, <3>3, <3>5 DEF StageOK, RespondStage
      <3>7. QED
        BY <1>1, <1>6, <2>2, <2>3, <3>1, <3>6, ContinueKeepsInv DEF ForUpdate, Live, x0, v
    <2>4. ASSUME tx[c].in.status = "accepted", NEW m \in Members, Fresh(MemberRow(m)),
                 UserOf[m] = v.user, Continue(c, w, <<Do("join", MemberRow(m))>>)
          PROVE  Inv'
      <3> DEFINE st == Do("join", MemberRow(m))
      <3>1. MemberRow(m) \in MemberRows /\ MemberRow(m) \in Rows /\ MemberRow(m) # x0
        BY <1>5, RowKinds DEF MemberRows
      <3>2. st \in Steps /\ st.row = MemberRow(m) /\ st.do = "join"
        BY <3>1 DEF Do, Steps, Statements
      <3> HIDE DEF st
      <3>3. Steady(<<st>>) /\ ToSet(<<st>>) = {st} /\ Continue(c, w, <<st>>)
        BY <2>4, <3>2, Steadies, ItemsOfList DEF st
      <3>4. Writes(c, w, <<st>>)
        BY <1>1, <2>2, <3>3, ContinueWrites
      <3>5. /\ tx'[c].todo = <<st>> /\ Of(c)' = {x0} /\ tx'[c].rows[x0] = w /\ UNCHANGED db
            /\ tx'[c].in = tx[c].in
        <4>1. <<st>> \o <<>> = <<st>>
          BY <3>2
        <4>2. QED
          BY <1>4, <3>4, <4>1 DEF Writes, Moves
      <3>6. Inserts(c)' \subseteq {MemberRow(m)}
        BY <3>2, <3>5, ItemsOfList DEF Inserts, First
      <3>7. Yields(c)
        <4>1. \A d \in Conns \ {c} : x0 \notin Of(d) /\ x0 \notin Inserts(d)
          <5>1. \A d \in Conns \ {c} : x0 \notin Of(d)
            BY <1>1 DEF Runs, WaitsFor, Of, ForUpdate
          <5>2. \A d \in Conns : x0 \notin Inserts(d)
            BY <1>6 DEF Inv, ApartOK
          <5>3. QED
            BY <5>1, <5>2
        <4>2. \A d \in Conns : MemberRow(m) \notin Of(d) /\ MemberRow(m) \notin Inserts(d)
          BY <2>4 DEF Fresh, Of, Inserts
        <4>3. db[MemberRow(m)].is = "absent"
          BY <2>4 DEF Fresh
        <4>4. tx'[c].shares = tx[c].shares
          BY <3>4 DEF Writes, Moves
        <4> HIDE DEF x0
        <4>5. QED
          BY <1>4, <1>5, <3>1, <3>5, <3>6, <4>1, <4>2, <4>3, <4>4 DEF Yields
      <3>8. Alone(c) /\ TxOK(c)'
        BY <1>1, <2>2, <3>3, ContinueEffect
      <3> HIDE DEF x0, v
      <3>9. Joins(c, i, m)'
        BY <1>4, <1>6, <2>1, <2>4, <3>5 DEF Joins, AnswerIs, v
      <3>10. Joining(c)'
        BY <1>4, <3>5, <3>9 DEF Joining, st
      <3>11. StageOK(c)'
        BY <1>2, <3>5, <3>10 DEF StageOK, RespondStage
      <3>12. QED
        BY <3>7, <3>8, <3>11, LocalStep
    <2>5. QED
      BY <1>6, <2>1, <2>3, <2>4 DEF Answered
  <1>7. QED
    BY <1>6, RefusalKeepsInv DEF Answer

LEMMA InsertMemberKeepsInv ==
  ASSUME Inv, NEW c \in Conns, InsertMember(c)
  PROVE  Inv'
  <1> DEFINE x0 == First(c).row
  <1>1. /\ TxOK(c) /\ StageOK(c) /\ Busy(c) /\ First(c).do = "join" /\ RowsOK
        /\ Runs(c, "join")
    BY DEF Inv, InsertMember, Runs
  <1>2. tx[c].in \in Inputs /\ tx[c].in.op = "respond" /\ Joining(c)
    BY <1>1, StageOfStatement
  <1>3. PICK i \in Invitations, m \in Members :
          /\ Of(c) = {InvitationRow(i)} /\ Joins(c, i, m)
          /\ tx[c].todo = <<Do("join", MemberRow(m))>>
    BY <1>2 DEF Joining
  <1>4. x0 = MemberRow(m) /\ Tail(tx[c].todo) = <<>> /\ x0 \in MemberRows
    BY <1>3, ItemsOfList DEF First, Do, MemberRows
  <1>5. /\ InvitationRow(i) \in InvitationRows /\ x0 # InvitationRow(i) /\ x0 \in Rows
        /\ x0 # GroupRow /\ x0 \notin InvitationRows \cup LocationRows
    BY <1>4, RowKinds DEF InvitationRows
  <1>6. AcceptedHere(c) \subseteq {InvitationRow(i)} /\ InvitationRow(i)[2] = i
    BY <1>3 DEF AcceptedHere, Of, InvitationRow
  <1> DEFINE v == [is |-> "live", role |-> tx[c].rows[InvitationRow(i)].role, by |-> i]
  <1>7. v \in MemberVersions
    <2>1. tx[c].rows[InvitationRow(i)] \in InvitationVersions
      BY <1>1, <1>3, <1>5 DEF TxOK, Fits
    <2>2. QED
      BY <2>1 DEF InvitationVersions, MemberVersions, Life
  <1>8. Storable(x0, v) /\ v.by = i
    BY <1>5, <1>7 DEF Storable, Fits
  <1>9. db[x0].is = "absent"
    <2>1. x0 \in Inserts(c)
      BY <1>1 DEF Inserts, Inserting
    <2>2. QED
      BY <2>1 DEF Inv, ApartOK
  <1>10. /\ Steady(ShareGroup) /\ ToSet(ShareGroup) = {Do("share", GroupRow)}
         /\ \A st \in ToSet(ShareGroup) : st.do \notin Inserting
    <2>1. Do("share", GroupRow) \in Steps /\ Do("share", GroupRow).do \notin Inserting
      BY RowKinds DEF Do, Steps, Statements, Inserting
    <2>2. QED
      BY <2>1, Steadies, ItemsOfList DEF ShareGroup
  <1> HIDE DEF v
  <1>11. ASSUME Continue(c, v, ShareGroup)
         PROVE  Inv'
    <2>1. Writes(c, v, ShareGroup)
      BY <1>1, <1>8, <1>10, <1>11, ContinueWrites
    <2>2. /\ UNCHANGED db /\ Of(c)' = {InvitationRow(i), MemberRow(m)}
          /\ tx'[c].rows[MemberRow(m)] = v
          /\ tx'[c].rows[InvitationRow(i)] = tx[c].rows[InvitationRow(i)]
          /\ Plan(c)' = {Do("share", GroupRow)} /\ tx'[c].in = tx[c].in
      BY <1>3, <1>4, <1>5, <1>10, <2>1, ItemsOfList DEF Writes, Moves
    <2>3. Linked(c)'
      BY <2>2 DEF Linked
    <2>4. Joins(c, i, m)'
      BY <1>3, <2>2 DEF Joins, AnswerIs
    <2>5. Joined(c)'
      BY <1>4, <1>8, <1>9, <2>2, <2>3, <2>4 DEF Joined
    <2>6. StageOK(c)'
      BY <1>2, <2>2, <2>5 DEF StageOK, RespondStage
    <2>7. QED
      BY <1>1, <1>8, <1>10, <1>11, <2>6, ContinueKeepsInv DEF Inserting
  <1>12. CASE Refuse(c)
    BY <1>12, RefusalKeepsInv
  <1>13. QED
    BY <1>6, <1>11, <1>12 DEF InsertMember, v

-----------------------------------------------------------------------------
(* The statements of edits and removals. *)

(* The lists that these requests put before the rest. *)
LEMMA MemberLists ==
  /\ Steady(Unassign) /\ ToSet(Unassign) = {Do("unassign", None)}
  /\ Steady(ShareGroup) /\ ToSet(ShareGroup) = {Do("share", GroupRow)}
  /\ \A x \in LocationRows :
       /\ Steady(<<Do("take", x)>>) /\ ToSet(<<Do("take", x)>>) = {Do("take", x)}
       /\ Unassign \o <<Do("put", x)>> \in Seq(Steps)
       /\ ToSet(Unassign \o <<Do("put", x)>>) = {Do("unassign", None), Do("put", x)}
  <1> DEFINE u == Do("unassign", None)
             g == Do("share", GroupRow)
  <1>1. u \in Steps /\ g \in Steps
    BY RowKinds DEF Do, Steps, Statements
  <1>2. ASSUME NEW x \in LocationRows
        PROVE  Do("take", x) \in Steps /\ Do("put", x) \in Steps
    BY RowKinds DEF Do, Steps, Statements
  <1> HIDE DEF u, g
  <1>3. Steady(<<u>>) /\ ToSet(<<u>>) = {u} /\ Steady(<<g>>) /\ ToSet(<<g>>) = {g}
    BY <1>1, Steadies, ItemsOfList
  <1>4. ASSUME NEW x \in LocationRows
        PROVE  /\ Steady(<<Do("take", x)>>) /\ ToSet(<<Do("take", x)>>) = {Do("take", x)}
               /\ <<u>> \o <<Do("put", x)>> \in Seq(Steps)
               /\ ToSet(<<u>> \o <<Do("put", x)>>) = {u, Do("put", x)}
    <2> DEFINE t == Do("take", x)
               p == Do("put", x)
    <2>1. t \in Steps /\ p \in Steps
      BY <1>2
    <2> HIDE DEF t, p
    <2>2. Steady(<<t>>) /\ ToSet(<<t>>) = {t} /\ ToSet(<<p>>) = {p}
      BY <2>1, Steadies, ItemsOfList
    <2>3. <<u>> \in Seq(Steps) /\ <<p>> \in Seq(Steps)
      BY <1>1, <2>1
    <2>4. <<u>> \o <<p>> \in Seq(Steps) /\ ToSet(<<u>> \o <<p>>) = ToSet(<<u>>) \cup ToSet(<<p>>)
      BY <2>3, ItemsOfConcatenation
    <2>5. QED
      BY <1>3, <2>2, <2>4 DEF t, p
  <1>5. QED
    BY <1>3, <1>4 DEF Unassign, ShareGroup, u, g

EditList(in, leaves, changed, at) ==
  (IF leaves THEN Unassign ELSE <<>>) \o (IF changed THEN Audit ELSE <<>>) \o ToLocation(in, at)

LEMMA EditLists ==
  ASSUME NEW in \in Inputs, in.op = "edit", NEW leaves \in BOOLEAN, NEW changed \in BOOLEAN, NEW at
  PROVE  /\ EditList(in, leaves, changed, at) \in Seq(Steps)
         /\ ToSet(EditList(in, leaves, changed, at))
              \subseteq {Do("unassign", None), Do("share", GroupRow)}
                        \cup {Do("take", x) : x \in LocationRows}
         /\ leaves => Do("unassign", None) \in ToSet(EditList(in, leaves, changed, at))
         /\ \A x \in LocationRows :
              Do("take", x) \in ToSet(EditList(in, leaves, changed, at)) => in.to # None
  <1> DEFINE a == IF leaves THEN Unassign ELSE <<>>
             b == IF changed THEN Audit ELSE <<>>
             t == ToLocation(in, at)
  <1>1. /\ Unassign \in Seq(Steps) /\ ToSet(Unassign) = {Do("unassign", None)}
        /\ Audit \in Seq(Steps) /\ ToSet(Audit) = {Do("share", GroupRow)}
        /\ <<>> \in Seq(Steps) /\ ToSet(<<>>) = {}
    <2>1. Audit = ShareGroup
      BY DEF Audit
    <2>2. Steady(<<>>) /\ ToSet(<<>>) = {}
      BY Steadies, ItemsOfList
    <2>3. QED
      BY <2>1, <2>2, MemberLists DEF Steady
  <1>2. /\ a \in Seq(Steps) /\ ToSet(a) \subseteq {Do("unassign", None)}
        /\ leaves => Do("unassign", None) \in ToSet(a)
    <2>1. CASE leaves
      BY <1>1, <2>1
    <2>2. CASE ~leaves
      BY <1>1, <2>2
    <2>3. QED
      BY <2>1, <2>2
  <1>3. b \in Seq(Steps) /\ ToSet(b) \subseteq {Do("share", GroupRow)}
    <2>1. CASE changed
      BY <1>1, <2>1
    <2>2. CASE ~changed
      BY <1>1, <2>2
    <2>3. QED
      BY <2>1, <2>2
  <1>4. /\ t \in Seq(Steps)
        /\ ToSet(t) \subseteq {Do("unassign", None)} \cup {Do("take", x) : x \in LocationRows}
        /\ in.to = None => ToSet(t) = {}
    <2>1. in.to \in Locations \cup {None, "nowhere"}
      BY InputShapes
    <2>2. CASE t = <<>>
      BY <1>1, <2>2
    <2>3. CASE t = Unassign /\ in.to # None
      BY <1>1, <2>3
    <2>4. ASSUME t = <<Do("take", LocationRow(in.to))>>, in.to \in Locations, in.to # None
          PROVE  /\ t \in Seq(Steps)
                 /\ ToSet(t) \subseteq {Do("unassign", None)} \cup {Do("take", x) : x \in LocationRows}
                 /\ in.to = None => ToSet(t) = {}
      <3>1. PICK y \in LocationRows : y = LocationRow(in.to)
        BY <2>4 DEF LocationRows
      <3>2. Steady(<<Do("take", y)>>) /\ ToSet(<<Do("take", y)>>) = {Do("take", y)}
        BY MemberLists
      <3>3. t \in Seq(Steps) /\ ToSet(t) = {Do("take", y)}
        BY <2>4, <3>1, <3>2 DEF Steady
      <3>4. QED
        BY <2>4, <3>3
    <2>5. QED
      BY <2>1, <2>2, <2>3, <2>4 DEF ToLocation
  <1> HIDE DEF a, b, t
  <1>5. a \o b \in Seq(Steps) /\ ToSet(a \o b) = ToSet(a) \cup ToSet(b)
    BY <1>2, <1>3, ItemsOfConcatenation
  <1> DEFINE ab == a \o b
  <1>6. ab \in Seq(Steps) /\ ToSet(ab) = ToSet(a) \cup ToSet(b)
    BY <1>5
  <1> HIDE DEF ab
  <1>7. ab \o t \in Seq(Steps) /\ ToSet(ab \o t) = ToSet(ab) \cup ToSet(t)
    BY <1>4, <1>6, ItemsOfConcatenation
  <1>8. EditList(in, leaves, changed, at) = ab \o t
    BY DEF EditList, a, b, t, ab
  <1>9. \A x \in LocationRows : Do("take", x) \in ToSet(ab) \cup ToSet(t) => in.to # None
    <2>1. \A x : Do("take", x) \notin ToSet(ab)
      BY <1>2, <1>3, <1>6 DEF Do
    <2>2. QED
      BY <1>4, <2>1
  <1>10. QED
    BY <1>2, <1>3, <1>4, <1>6, <1>7, <1>8, <1>9

(* The member is locked, with the version that he will have.               *)
LEMMA LockedMemberKeepsInv ==
  ASSUME Inv, NEW c \in Conns, Runs(c, "member"), Live(First(c).row), NEW w, NEW more \in Seq(Steps),
         w \in MemberVersions, w.is # "absent", w.by = db[First(c).row].by, Continue(c, w, more),
         ToSet(more) \subseteq {Do("unassign", None), Do("share", GroupRow)}
                               \cup {Do("take", x) : x \in LocationRows},
         \A x \in LocationRows : Do("take", x) \in ToSet(more) => Employed(w),
         Employed(db[First(c).row]) /\ ~Employed(w) => Do("unassign", None) \in ToSet(more)
  PROVE  Inv'
  <1> DEFINE x0 == First(c).row
             t == tx[c].in.t
  <1>1. /\ TxOK(c) /\ StageOK(c) /\ Busy(c) /\ First(c).do = "member" /\ RowsOK /\ HoldersAreEmployees
    BY DEF Inv, Runs
  <1>2. /\ tx[c].in \in Inputs /\ tx[c].in.op \in {"edit", "remove"} /\ MemberUnread(c)
    BY <1>1, StageOfStatement
  <1>3. /\ x0 = MemberRow(t) /\ x0 = Subject(c) /\ Tail(tx[c].todo) = <<>> /\ Of(c) = {}
        /\ t \in Members /\ x0 \in MemberRows
    <2>1. t \in Members
      BY <1>2, InputShapes
    <2>2. QED
      BY <1>2, <2>1, ItemsOfList DEF MemberUnread, First, Do, Subject, MemberRows
  <1>4. x0 \in Rows /\ x0 # GroupRow /\ x0 \notin InvitationRows \cup LocationRows
    BY <1>3, RowKinds
  <1>5. Storable(x0, w)
    BY <1>4 DEF Storable, Fits
  <1>6. \A st \in ToSet(more) : st.do \notin Inserting
    BY DEF Do, Inserting
  <1>7. Steady(more)
    BY <1>6, Steadies
  <1>8. Writes(c, w, more)
    BY <1>1, <1>5, <1>7, ContinueWrites
  <1>9. /\ UNCHANGED db /\ tx'[c].in = tx[c].in /\ Of(c)' = {x0} /\ tx'[c].rows[x0] = w
        /\ Plan(c)' = ToSet(more) /\ Subject(c)' = x0 /\ (Stays(c)' <=> Employed(w))
    <2>1. /\ UNCHANGED db /\ tx'[c].in = tx[c].in /\ Of(c)' = {x0} /\ tx'[c].rows[x0] = w
      BY <1>3, <1>8 DEF Writes, Moves
    <2>2. Plan(c)' = ToSet(more)
      BY <1>3, <1>8, ItemsOfList DEF Writes, Moves
    <2>3. QED
      BY <1>3, <2>1, <2>2 DEF Subject, Stays, Employed
  <1>10. MemberLocked(c)'
    <2>1. \A x \in LocationRows : (Seen(c, x))' = db[x] /\ x \notin Of(c)'
      BY <1>4, <1>9 DEF Seen, Of
    <2>2. LeavesNothing(c)'
      <3> SUFFICES ASSUME ~Employed(w), Live(GroupRow), NEW x \in LocationRows,
                          Assigned(db[x]), db[x].holder = t
                   PROVE  Do("unassign", None) \in ToSet(more)
        BY <1>9, <2>1 DEF LeavesNothing, Live
      <3>1. PICK l \in Locations : x = LocationRow(l)
        BY DEF LocationRows
      <3>2. Employed(db[x0])
        BY <1>1, <1>3, <3>1 DEF HoldersAreEmployees, Assigned, Employed, Live
      <3>3. QED
        BY <3>2
    <2>3. \A x : Do("put", x) \notin ToSet(more)
      BY DEF Do
    <2> HIDE DEF x0
    <2>4. /\ Subject(c)' \in Of(c)' /\ Of(c)' \subseteq {Subject(c)'} \cup LocationRows
          /\ \A x \in Of(c)' : Live(x)'
          /\ tx'[c].rows[Subject(c)'].by = db'[Subject(c)'].by
      BY <1>9 DEF Live, x0
    <2>5. QED
      BY <1>9, <2>1, <2>2, <2>3, <2>4 DEF MemberLocked
  <1>11. StageOK(c)'
    BY <1>2, <1>9, <1>10 DEF StageOK, MemberStage
  <1>12. QED
    BY <1>5, <1>6, <1>7, <1>11, ContinueKeepsInv DEF ForUpdate

LEMMA LockMemberKeepsInv ==
  ASSUME Inv, NEW c \in Conns, LockMember(c)
  PROVE  Inv'
  <1> DEFINE x0 == First(c).row
             in == tx[c].in
             v == db[x0]
  <1>1. /\ TxOK(c) /\ StageOK(c) /\ Busy(c) /\ First(c).do = "member" /\ RowsOK /\ Runs(c, "member")
    BY DEF Inv, LockMember, Runs
  <1>2. in \in Inputs /\ in.op \in {"edit", "remove"} /\ MemberUnread(c) /\ in.t \in Members
    BY <1>1, StageOfStatement, InputShapes
  <1>3. x0 \in MemberRows
    BY <1>2, ItemsOfList DEF MemberUnread, First, Do, Subject, MemberRows
  <1>4. v \in MemberVersions
    BY <1>1, <1>3, RowKinds DEF RowsOK, Fits
  <1>5. ASSUME v.is = "live", Continue(c, [v EXCEPT !.is = "gone"], Unassign \o Audit)
        PROVE  Inv'
    <2> DEFINE w == [v EXCEPT !.is = "gone"]
               more == Unassign \o Audit
    <2>1. /\ w \in MemberVersions /\ w.is = "gone" /\ w.by = v.by
      BY <1>4 DEF MemberVersions, Life
    <2>2. /\ more \in Seq(Steps) /\ ToSet(more) = {Do("unassign", None), Do("share", GroupRow)}
      <3>1. Unassign \in Seq(Steps) /\ Audit \in Seq(Steps)
        BY MemberLists DEF Steady, Audit
      <3>2. more \in Seq(Steps) /\ ToSet(more) = ToSet(Unassign) \cup ToSet(Audit)
        BY <3>1, ItemsOfConcatenation
      <3>3. QED
        BY <3>2, MemberLists DEF Audit
    <2>3. \A x : Do("take", x) \notin ToSet(more)
      BY <2>2 DEF Do
    <2> HIDE DEF w, more
    <2>4. Continue(c, w, more)
      BY <1>5 DEF w, more
    <2>5. QED
      BY <1>1, <1>5, <2>1, <2>2, <2>3, <2>4, LockedMemberKeepsInv DEF Live
  <1>6. ASSUME v.is = "live", in.op = "edit", NEW role,
               role = (IF in.role # None THEN in.role ELSE v.role), in.to # None => role = "employee",
               Continue(c, [v EXCEPT !.role = role],
                        EditList(in, role # v.role /\ v.role = "employee", role # v.role,
                                 IF role # v.role /\ v.role = "employee" THEN None ELSE tx[c].saw))
        PROVE  Inv'
    <2> DEFINE w == [v EXCEPT !.role = role]
               more == EditList(in, role # v.role /\ v.role = "employee", role # v.role,
                                IF role # v.role /\ v.role = "employee" THEN None ELSE tx[c].saw)
    <2>1. role \in Roles \cup {None}
      BY <1>2, <1>4, <1>6, InputShapes DEF MemberVersions
    <2>2. /\ w \in MemberVersions /\ w.is = "live" /\ w.by = v.by /\ w.role = role
      BY <1>4, <1>6, <2>1 DEF MemberVersions
    <2>3. /\ more \in Seq(Steps)
          /\ ToSet(more) \subseteq {Do("unassign", None), Do("share", GroupRow)}
                                   \cup {Do("take", x) : x \in LocationRows}
          /\ role # v.role /\ v.role = "employee" => Do("unassign", None) \in ToSet(more)
          /\ \A x \in LocationRows : Do("take", x) \in ToSet(more) => in.to # None
      BY <1>2, <1>6, EditLists
    <2> HIDE DEF w, more, in
    <2>4. /\ \A x \in LocationRows : Do("take", x) \in ToSet(more) => Employed(w)
          /\ Employed(v) /\ ~Employed(w) => Do("unassign", None) \in ToSet(more)
      BY <1>6, <2>2, <2>3 DEF Employed
    <2>5. Continue(c, w, more)
      BY <1>6 DEF w, more, in
    <2>6. QED
      BY <1>1, <1>6, <2>2, <2>3, <2>4, <2>5, LockedMemberKeepsInv DEF Live
  <1>7. CASE Refuse(c)
    BY <1>7, RefusalKeepsInv
  <1>8. QED
    BY <1>5, <1>6, <1>7 DEF LockMember, EditList

LEMMA MemberMoves ==
  ASSUME Inv, NEW c \in Conns, Busy(c), First(c).do \in {"unassign", "free"}, NEW more,
         Moves(c, more), tx'[c].rows = tx[c].rows, Of(c)' = Of(c),
         ToSet(more) \subseteq {Do("free", x) : x \in LocationRows}, LeavesNothing(c)'
  PROVE  StageOK(c)'
  <1>1. tx[c].in \in Inputs /\ tx[c].in.op \in {"edit", "remove"} /\ MemberLocked(c)
    BY StageOfStatement DEF Inv
  <1>2. /\ UNCHANGED db /\ tx'[c].in = tx[c].in /\ Subject(c)' = Subject(c) /\ (Stays(c)' <=> Stays(c))
        /\ Plan(c)' \subseteq Plan(c) \cup {Do("free", x) : x \in LocationRows}
    BY DEF Moves, Subject, Stays, Employed
  <1>3. \A x : Do("take", x) \in Plan(c)' \/ Do("put", x) \in Plan(c)' =>
                 Do("take", x) \in Plan(c) \/ Do("put", x) \in Plan(c)
    BY <1>2 DEF Do
  <1>4. MemberLocked(c)'
    <2>1. /\ Subject(c)' \in Of(c)' /\ Of(c)' \subseteq {Subject(c)'} \cup LocationRows
          /\ \A x \in Of(c)' : Live(x)'
          /\ tx'[c].rows[Subject(c)'].by = db'[Subject(c)'].by
      BY <1>1, <1>2 DEF MemberLocked, Live
    <2>2. Plan(c)' \subseteq {Do("unassign", None), Do("share", GroupRow)}
            \cup {Do("free", x) : x \in LocationRows} \cup {Do("take", x) : x \in LocationRows}
            \cup {Do("put", x) : x \in Of(c) \cap LocationRows}
      BY <1>1, <1>2 DEF MemberLocked
    <2>3. /\ \A x \in LocationRows : Do("take", x) \in Plan(c)' \/ Do("put", x) \in Plan(c)' => Stays(c)'
          /\ \A x \in Of(c)' \cap LocationRows :
               Assigned(tx'[c].rows[x]) => tx'[c].rows[x].holder = tx'[c].in.t /\ Stays(c)'
      BY <1>1, <1>2, <1>3 DEF MemberLocked
    <2>4. QED
      BY <2>1, <2>2, <2>3 DEF MemberLocked
  <1>5. QED
    BY <1>1, <1>2, <1>4 DEF StageOK, MemberStage

(* A location is written: it stays with nobody, or goes to the member who  *)
(* stays.                                                                  *)
LEMMA MemberWrites ==
  ASSUME Inv, NEW c \in Conns, Busy(c), First(c).do \in {"free", "take", "put"}, NEW w, NEW more,
         Writes(c, w, more), First(c).row \in LocationRows, Live(First(c).row),
         ToSet(more) \subseteq {Do("unassign", None), Do("put", First(c).row)},
         Do("put", First(c).row) \in ToSet(more) => Stays(c),
         Assigned(w) => w.holder = tx[c].in.t /\ Stays(c)
  PROVE  StageOK(c)'
  <1> DEFINE x0 == First(c).row
  <1>1. tx[c].in \in Inputs /\ tx[c].in.op \in {"edit", "remove"} /\ MemberLocked(c)
    BY StageOfStatement DEF Inv
  <1>2. Subject(c) \in Of(c) /\ Subject(c) # x0
    <2>1. Subject(c) \in MemberRows
      BY <1>1, InputShapes DEF Subject, MemberRows
    <2>2. QED
      BY <1>1, <2>1, RowKinds DEF MemberLocked
  <1>3. /\ UNCHANGED db /\ tx'[c].in = tx[c].in /\ Of(c)' = Of(c) \cup {x0} /\ tx'[c].rows[x0] = w
        /\ \A x \in Of(c) : x # x0 => tx'[c].rows[x] = tx[c].rows[x]
        /\ Plan(c) \subseteq {First(c)} \cup Plan(c)' /\ Plan(c)' \subseteq Plan(c) \cup ToSet(more)
    BY DEF Writes, Moves
  <1>4. Subject(c)' = Subject(c) /\ (Stays(c)' <=> Stays(c))
    BY <1>2, <1>3 DEF Subject, Stays, Employed
  <1> HIDE DEF x0
  <1>5. MemberLocked(c)'
    <2>1. /\ Subject(c)' \in Of(c)' /\ Of(c)' \subseteq {Subject(c)'} \cup LocationRows
          /\ \A x \in Of(c)' : Live(x)'
          /\ tx'[c].rows[Subject(c)'].by = db'[Subject(c)'].by
      BY <1>1, <1>2, <1>3, <1>4 DEF MemberLocked, Live, x0
    <2>2. Plan(c)' \subseteq {Do("unassign", None), Do("share", GroupRow)}
            \cup {Do("free", x) : x \in LocationRows} \cup {Do("take", x) : x \in LocationRows}
            \cup {Do("put", x) : x \in Of(c)' \cap LocationRows}
      BY <1>1, <1>3 DEF MemberLocked, x0
    <2>3. \A x \in LocationRows : Do("take", x) \in Plan(c)' \/ Do("put", x) \in Plan(c)' => Stays(c)'
      <3>1. \A x : Do("take", x) \notin ToSet(more)
        BY DEF Do
      <3>2. \A x : Do("put", x) \in ToSet(more) => Do("put", x0) \in ToSet(more)
        BY DEF Do, x0
      <3>3. QED
        BY <1>1, <1>3, <1>4, <3>1, <3>2 DEF MemberLocked, x0
    <2>4. \A x \in Of(c)' \cap LocationRows :
            Assigned(tx'[c].rows[x]) => tx'[c].rows[x].holder = tx'[c].in.t /\ Stays(c)'
      BY <1>1, <1>3, <1>4 DEF MemberLocked
    <2>5. LeavesNothing(c)'
      <3> SUFFICES ASSUME ~Stays(c), Live(GroupRow), NEW x \in LocationRows,
                          Assigned((Seen(c, x))'), (Seen(c, x))'.holder = tx[c].in.t
                   PROVE  Do("unassign", None) \in Plan(c)' \/ Do("free", x) \in Plan(c)'
        BY <1>3, <1>4 DEF LeavesNothing, Live
      <3>1. x # x0
        BY <1>3 DEF Seen, Of
      <3>2. (Seen(c, x))' = Seen(c, x)
        BY <1>3, <3>1 DEF Seen, Of
      <3>3. Do("unassign", None) \in Plan(c) \/ Do("free", x) \in Plan(c)
        BY <1>1, <3>2 DEF MemberLocked, LeavesNothing
      <3>4. Do("unassign", None) # First(c) /\ Do("free", x) # First(c)
        BY <3>1 DEF Do, x0
      <3>5. QED
        BY <1>3, <3>3, <3>4
    <2>6. QED
      BY <2>1, <2>2, <2>3, <2>4, <2>5 DEF MemberLocked
  <1>6. QED
    BY <1>1, <1>3, <1>5 DEF StageOK, MemberStage

LEMMA FindHeldKeepsInv ==
  ASSUME Inv, NEW c \in Conns, FindHeld(c)
  PROVE  Inv'
  <1> DEFINE t == tx[c].in.t
             held == {x \in Table("location") : Seen(c, x).is = "live" /\ Seen(c, x).holder = t}
             S == {Do("free", x) : x \in held}
             more == SetToSeq(S)
  <1>1. /\ Busy(c) /\ First(c).do = "unassign" /\ Then(c, more)
    BY DEF Inv, FindHeld, Runs
  <1>2. MemberLocked(c)
    BY <1>1, StageOfStatement DEF Inv
  <1>3. held \subseteq LocationRows /\ held \subseteq Rows /\ IsFiniteSet(held)
    <2>1. held \subseteq LocationRows
      BY Tables
    <2>2. QED
      BY <2>1, RowKinds, Tables, FS_Subset
  <1>4. \A x \in LocationRows : Seen(c, x).is = "live" /\ Seen(c, x).holder = t => x \in held
    BY Tables
  <1> HIDE DEF held
  <1>5. more \in Seq(Steps) /\ ToSet(more) = S /\ Steady(more)
    <2>1. "free" \in Statements \ Inserting
      BY DEF Statements, Inserting
    <2>2. QED
      BY <1>3, <2>1, StatementsForRows
  <1>6. S \subseteq {Do("free", x) : x \in LocationRows} /\ \A st \in S : st.do \notin Inserting
    BY <1>3 DEF Do, Inserting
  <1>7. \A x \in held : Do("free", x) \in S
    OBVIOUS
  <1> HIDE DEF S, more
  <1>8. Moves(c, more) /\ tx'[c].rows = tx[c].rows /\ Of(c)' = Of(c)
    BY <1>1, <1>5, ThenMoves
  <1>9. LeavesNothing(c)'
    <2> SUFFICES ASSUME NEW x \in LocationRows, Assigned((Seen(c, x))'), (Seen(c, x))'.holder = t
                 PROVE  Do("free", x) \in Plan(c)'
      BY <1>8 DEF LeavesNothing, Moves
    <2>1. (Seen(c, x))' = Seen(c, x)
      BY <1>8 DEF Seen, Moves
    <2>2. x \in held
      BY <1>4, <2>1 DEF Assigned
    <2>3. QED
      BY <1>5, <1>7, <1>8, <2>2 DEF Moves
  <1>10. StageOK(c)'
    BY <1>1, <1>5, <1>6, <1>8, <1>9, MemberMoves
  <1>11. QED
    BY <1>1, <1>5, <1>6, <1>10, ThenKeepsInv

LEMMA LocationSeen ==
  ASSUME Inv, NEW c \in Conns, NEW x \in LocationRows
  PROVE  /\ x \in Rows /\ Seen(c, x) \in LocationVersions
         /\ \A w \in LocationVersions : w.is # "absent" => Storable(x, w)
  <1>1. x \in Rows /\ x # GroupRow /\ x \notin MemberRows \cup InvitationRows
    BY RowKinds
  <1>2. Fits(x, Seen(c, x))
    <2>1. Fits(x, db[x]) /\ (x \in Of(c) => Fits(x, tx[c].rows[x]))
      BY <1>1 DEF Inv, RowsOK, TxOK
    <2>2. QED
      BY <2>1 DEF Seen, Of
  <1>3. QED
    BY <1>1, <1>2 DEF Fits, Storable

LEMMA FreeKeepsInv ==
  ASSUME Inv, NEW c \in Conns, Free(c)
  PROVE  Inv'
  <1> DEFINE x0 == First(c).row
             v == Seen(c, x0)
             w == [v EXCEPT !.holder = None]
  <1>1. Busy(c) /\ First(c).do = "free" /\ Runs(c, "free")
    BY DEF Free, Runs
  <1>2. MemberLocked(c) /\ First(c) \in Plan(c)
    BY <1>1, StageOfStatement DEF Inv
  <1>3. x0 \in LocationRows /\ First(c) = Do("free", x0)
    BY <1>1, <1>2 DEF MemberLocked, Do
  <1>4. x0 \in Rows /\ v \in LocationVersions /\ x0 # GroupRow
    BY <1>3, LocationSeen, RowKinds
  <1>5. Steady(<<>>) /\ ToSet(<<>>) = {}
    BY Steadies, ItemsOfList
  <1>6. CASE v.is = "live" /\ Continue(c, w, <<>>)
    <2>1. w \in LocationVersions /\ w.holder = None /\ w.is = "live"
      BY <1>4, <1>6 DEF LocationVersions
    <2>2. Storable(x0, w) /\ ~Assigned(w)
      BY <1>3, <2>1, LocationSeen DEF Assigned
    <2>3. Live(x0)
      BY <1>2, <1>6 DEF MemberLocked, Seen, Of, Live
    <2> HIDE DEF w
    <2>4. Writes(c, w, <<>>)
      BY <1>1, <1>5, <1>6, <2>2, ContinueWrites
    <2>5. StageOK(c)'
      BY <1>1, <1>3, <1>5, <2>2, <2>3, <2>4, MemberWrites
    <2>6. QED
      BY <1>1, <1>4, <1>5, <1>6, <2>2, <2>3, <2>5, ContinueKeepsInv DEF Update
  <1>7. CASE ~(v.is = "live" /\ v.holder = tx[c].in.t) /\ Then(c, <<>>)
    <2>1. Moves(c, <<>>) /\ tx'[c].rows = tx[c].rows /\ Of(c)' = Of(c)
      BY <1>1, <1>5, <1>7, ThenMoves
    <2>2. LeavesNothing(c)'
      <3> SUFFICES ASSUME ~Stays(c)', Live(GroupRow)', NEW x \in LocationRows,
                          Assigned((Seen(c, x))'), (Seen(c, x))'.holder = tx'[c].in.t
                   PROVE  Do("unassign", None) \in Plan(c)' \/ Do("free", x) \in Plan(c)'
        BY DEF LeavesNothing
      <3>1. /\ (Seen(c, x))' = Seen(c, x) /\ tx'[c].in.t = tx[c].in.t
            /\ ~Stays(c) /\ Live(GroupRow)
        BY <2>1 DEF Seen, Moves, Stays, Subject, Employed, Live
      <3>2. x # x0
        BY <1>7, <3>1 DEF Assigned
      <3>3. Do("unassign", None) \in Plan(c) \/ Do("free", x) \in Plan(c)
        BY <1>2, <3>1 DEF MemberLocked, LeavesNothing
      <3>4. Do("unassign", None) # First(c) /\ Do("free", x) # First(c)
        BY <1>1, <3>2 DEF Do
      <3>5. QED
        BY <2>1, <3>3, <3>4 DEF Moves
    <2>3. StageOK(c)'
      BY <1>1, <1>5, <2>1, <2>2, MemberMoves
    <2>4. QED
      BY <1>1, <1>5, <1>7, <2>3, ThenKeepsInv
  <1>8. QED
    BY <1>6, <1>7 DEF Free

LEMMA TakeLocationKeepsInv ==
  ASSUME Inv, NEW c \in Conns, TakeLocation(c)
  PROVE  Inv'
  <1> DEFINE x0 == First(c).row
             v == Seen(c, x0)
             more == Unassign \o <<Do("put", x0)>>
  <1>1. Busy(c) /\ First(c).do = "take" /\ Runs(c, "take")
    BY DEF TakeLocation, Runs
  <1>2. MemberLocked(c) /\ First(c) \in Plan(c)
    BY <1>1, StageOfStatement DEF Inv
  <1>3. x0 \in LocationRows /\ First(c) = Do("take", x0)
    BY <1>1, <1>2 DEF MemberLocked, Do
  <1>4. x0 \in Rows /\ v \in LocationVersions /\ x0 # GroupRow
    BY <1>3, LocationSeen, RowKinds
  <1>5. ASSUME v.is = "live", v.holder = None, Continue(c, v, more)
        PROVE  Inv'
    <2>1. Storable(x0, v) /\ ~Assigned(v)
      BY <1>3, <1>4, <1>5, LocationSeen DEF Assigned
    <2>2. Live(x0)
      BY <1>2, <1>5 DEF MemberLocked, Seen, Of, Live
    <2>3. /\ more \in Seq(Steps) /\ ToSet(more) = {Do("unassign", None), Do("put", x0)}
          /\ \A st \in {Do("unassign", None), Do("put", x0)} : st.do \notin Inserting
      <3>1. more \in Seq(Steps) /\ ToSet(more) = {Do("unassign", None), Do("put", x0)}
        BY <1>3, MemberLists
      <3>2. QED
        BY <3>1 DEF Do, Inserting
    <2> HIDE DEF more, v
    <2>4. Steady(more)
      BY <2>3, Steadies
    <2>5. Writes(c, v, more)
      BY <1>1, <1>5, <2>1, <2>4, ContinueWrites
    <2>6. Stays(c)
      BY <1>2, <1>3 DEF MemberLocked
    <2>7. StageOK(c)'
      BY <1>1, <1>3, <2>1, <2>2, <2>3, <2>5, <2>6, MemberWrites
    <2>8. QED
      BY <1>1, <1>5, <2>1, <2>2, <2>3, <2>4, <2>7, ContinueKeepsInv DEF ForUpdate
  <1>6. QED
    BY <1>5, RefusalKeepsInv DEF TakeLocation

LEMMA PutMemberKeepsInv ==
  ASSUME Inv, NEW c \in Conns, PutMember(c)
  PROVE  Inv'
  <1> DEFINE x0 == First(c).row
             w == [is |-> "live", holder |-> tx[c].in.t, assigned |-> TRUE]
  <1>1. Busy(c) /\ First(c).do = "put" /\ Runs(c, "put")
    BY DEF PutMember, Runs
  <1>2. /\ MemberLocked(c) /\ First(c) \in Plan(c) /\ tx[c].in \in Inputs
        /\ tx[c].in.op \in {"edit", "remove"}
    BY <1>1, StageOfStatement DEF Inv
  <1>3. x0 \in LocationRows /\ First(c) = Do("put", x0) /\ x0 \in Of(c) /\ Live(x0)
    BY <1>1, <1>2 DEF MemberLocked, Do
  <1>4. w \in LocationVersions /\ w.is # "absent" /\ w.holder = tx[c].in.t
    BY <1>2, InputShapes DEF LocationVersions, Life
  <1>5. Storable(x0, w) /\ Stays(c)
    BY <1>2, <1>3, <1>4, LocationSeen DEF MemberLocked
  <1>6. Steady(<<>>) /\ ToSet(<<>>) = {}
    BY Steadies, ItemsOfList
  <1> HIDE DEF w
  <1>7. CASE Continue(c, w, <<>>)
    <2>1. Writes(c, w, <<>>)
      BY <1>1, <1>5, <1>6, <1>7, ContinueWrites
    <2>2. StageOK(c)'
      BY <1>1, <1>3, <1>4, <1>5, <1>6, <2>1, MemberWrites
    <2>3. QED
      BY <1>1, <1>3, <1>5, <1>6, <1>7, <2>2, ContinueKeepsInv
  <1>8. QED
    BY <1>7, RefusalKeepsInv DEF PutMember, w

-----------------------------------------------------------------------------
(* The statements of locations. *)

LEMMA ResolveEmployeeKeepsInv ==
  ASSUME Inv, NEW c \in Conns, ResolveEmployee(c)
  PROVE  Inv'
  <1>1. Busy(c) /\ First(c).do = "resolve" /\ TxOK(c)
    BY DEF Inv, ResolveEmployee, Runs
  <1>2. tx[c].in \in Inputs /\ tx[c].in.op = "create" /\ Uncreated(c)
    BY <1>1, StageOfStatement DEF Inv
  <1>3. Of(c) = {} /\ Tail(tx[c].todo) = <<>>
    BY <1>2, ItemsOfList DEF Uncreated
  <1>4. ASSUME NEW l \in Locations, Fresh(LocationRow(l)),
               Then(c, <<Do("create", LocationRow(l))>>)
        PROVE  Inv'
    <2> DEFINE st == Do("create", LocationRow(l))
    <2>1. LocationRow(l) \in LocationRows /\ LocationRow(l) \in Rows
      BY RowKinds DEF LocationRows
    <2>2. /\ st \in Steps /\ st.row = LocationRow(l)
          /\ st \in {Do("create", x) : x \in LocationRows}
      BY <2>1 DEF Do, Steps, Statements
    <2> HIDE DEF st
    <2>3. /\ Steady(<<st>>) /\ ToSet(<<st>>) = {st} /\ Then(c, <<st>>) /\ <<st>> \o <<>> = <<st>>
      BY <1>4, <2>2, Steadies, ItemsOfList DEF st
    <2>4. /\ tx'[c].todo = <<st>> /\ Of(c)' = {} /\ tx'[c].in = tx[c].in
      BY <1>1, <1>3, <2>3, ThenMoves DEF Moves
    <2>5. Uncreated(c)'
      BY <2>2, <2>4 DEF Uncreated
    <2>6. StageOK(c)'
      BY <1>2, <2>4, <2>5 DEF StageOK, CreateStage
    <2>7. QED
      BY <1>1, <1>4, <2>1, <2>2, <2>3, <2>6, ThenKeepsInv
  <1>5. QED
    BY <1>4, RefusalKeepsInv DEF ResolveEmployee

LEMMA InsertLocationKeepsInv ==
  ASSUME Inv, NEW c \in Conns, InsertLocation(c)
  PROVE  Inv'
  <1> DEFINE x0 == First(c).row
             t == tx[c].in.t
             v == [is |-> "live", holder |-> t, assigned |-> FALSE]
             link == IF t = None THEN <<>> ELSE <<Do("share", MemberRow(t))>>
             more == link \o ShareGroup
             shares == {Do("share", x) : x \in {GroupRow} \cup MemberRows}
  <1>1. Busy(c) /\ First(c).do = "create" /\ TxOK(c) /\ Runs(c, "create")
    BY DEF Inv, InsertLocation, Runs
  <1>2. tx[c].in \in Inputs /\ tx[c].in.op = "create" /\ Uncreated(c)
    BY <1>1, StageOfStatement DEF Inv
  <1>3. t \in Members \cup {None}
    BY <1>2, InputShapes
  <1>4. PICK st \in {Do("resolve", None)} \cup {Do("create", x) : x \in LocationRows} :
          tx[c].todo = <<st>>
    BY <1>2 DEF Uncreated
  <1>5. First(c) = st /\ Of(c) = {} /\ Tail(tx[c].todo) = <<>>
    BY <1>2, <1>4, ItemsOfList DEF Uncreated, First
  <1>6. x0 \in LocationRows
    BY <1>1, <1>4, <1>5 DEF Do
  <1>7. v \in LocationVersions /\ v.is # "absent" /\ ~v.assigned
    BY <1>3 DEF LocationVersions, Life
  <1>8. Storable(x0, v)
    BY <1>6, <1>7, LocationSeen
  <1>9. link \in Seq(Steps) /\ ToSet(link) \subseteq shares
    <2>1. CASE t = None
      BY <2>1, ItemsOfList
    <2>2. CASE t # None
      <3> DEFINE s == Do("share", MemberRow(t))
      <3>1. MemberRow(t) \in MemberRows
        BY <1>3, <2>2 DEF MemberRows
      <3>2. s \in Steps /\ s \in shares
        BY <3>1, RowKinds DEF Do, Steps, Statements
      <3> HIDE DEF s
      <3>3. <<s>> \in Seq(Steps) /\ ToSet(<<s>>) = {s}
        BY <3>2, ItemsOfList
      <3>4. link = <<s>>
        BY <2>2 DEF s
      <3>5. QED
        BY <3>2, <3>3, <3>4
    <2>3. QED
      BY <2>1, <2>2
  <1> HIDE DEF link
  <1>10. more \in Seq(Steps) /\ ToSet(more) \subseteq shares /\ Do("share", GroupRow) \in ToSet(more)
    <2>1. ShareGroup \in Seq(Steps) /\ ToSet(ShareGroup) = {Do("share", GroupRow)}
      BY MemberLists DEF Steady
    <2>2. more \in Seq(Steps) /\ ToSet(more) = ToSet(link) \cup ToSet(ShareGroup)
      BY <1>9, <2>1, ItemsOfConcatenation
    <2>3. QED
      BY <1>9, <2>1, <2>2
  <1>11. \A st2 \in ToSet(more) : st2.do \notin Inserting
    BY <1>10 DEF Do, Inserting
  <1>12. CASE Continue(c, v, more)
    <2> HIDE DEF more, v, shares
    <2>1. Steady(more)
      BY <1>10, <1>11, Steadies
    <2>2. Writes(c, v, more)
      BY <1>1, <1>8, <1>12, <2>1, ContinueWrites
    <2>3. /\ Of(c)' = {x0} /\ tx'[c].rows[x0] = v /\ tx'[c].in = tx[c].in
          /\ Plan(c)' = ToSet(more)
      BY <1>5, <2>2, ItemsOfList DEF Writes, Moves
    <2> HIDE DEF x0
    <2>4. CreatedHere(c)'
      BY <1>6, <1>7, <1>10, <2>3 DEF CreatedHere, Linked, shares
    <2>5. StageOK(c)'
      BY <1>2, <2>3, <2>4 DEF StageOK, CreateStage
    <2>6. QED
      BY <1>1, <1>8, <1>11, <1>12, <2>1, <2>5, ContinueKeepsInv DEF Inserting, x0
  <1>13. QED
    BY <1>12, RefusalKeepsInv DEF InsertLocation, link

LEMMA DropLocationKeepsInv ==
  ASSUME Inv, NEW c \in Conns, DropLocation(c)
  PROVE  Inv'
  <1> DEFINE x0 == First(c).row
             v == db[x0]
             w == [v EXCEPT !.is = "gone"]
  <1>1. Busy(c) /\ First(c).do = "drop" /\ Runs(c, "drop")
    BY DEF DropLocation, Runs
  <1>2. tx[c].in \in Inputs /\ tx[c].in.op = "drop" /\ DropStage(c) /\ First(c) \in Plan(c)
    BY <1>1, StageOfStatement DEF Inv
  <1>3. x0 \in LocationRows
    BY <1>2 DEF DropStage, Do
  <1>4. x0 \in Rows /\ v \in LocationVersions
    BY <1>3, RowKinds DEF Inv, RowsOK, Fits
  <1>5. w \in LocationVersions /\ w.is = "gone"
    BY <1>4 DEF LocationVersions, Life
  <1>6. Storable(x0, w)
    BY <1>3, <1>5, LocationSeen
  <1>7. Steady(<<>>) /\ ToSet(<<>>) = {}
    BY Steadies, ItemsOfList
  <1>8. CASE v.is = "live" /\ Continue(c, w, <<>>)
    <2> HIDE DEF w
    <2>1. Writes(c, w, <<>>)
      BY <1>1, <1>6, <1>7, <1>8, ContinueWrites
    <2>2. /\ Of(c)' = Of(c) \cup {x0} /\ tx'[c].rows[x0] = w /\ tx'[c].in = tx[c].in
          /\ \A x \in Of(c) : x # x0 => tx'[c].rows[x] = tx[c].rows[x]
          /\ Plan(c)' \subseteq Plan(c)
      BY <1>7, <2>1 DEF Writes, Moves
    <2>3. Live(x0)
      BY <1>8 DEF Live
    <2> HIDE DEF x0
    <2>4. DropStage(c)'
      BY <1>2, <1>3, <1>5, <2>2 DEF DropStage
    <2>5. StageOK(c)'
      BY <1>2, <2>2, <2>4 DEF StageOK
    <2>6. QED
      BY <1>1, <1>6, <1>7, <1>8, <2>3, <2>5, ContinueKeepsInv DEF ForUpdate, x0
  <1>9. QED
    BY <1>8, RefusalKeepsInv DEF DropLocation

-----------------------------------------------------------------------------
(* The statements of the deletion. *)

LEMMA Sweeps ==
  /\ Sweep \in Seq(Steps) /\ Steady(Sweep)
  /\ ToSet(Sweep) = {Do("sweep", <<t, None>>) : t \in TableNames}
  /\ \A x \in Rows \ {GroupRow} : x[1] \in TableNames /\ x \in Table(x[1])
  /\ \A t \in TableNames : Table(t) \subseteq Rows \ {GroupRow} /\ IsFiniteSet(Table(t))
  <1> DEFINE name == [k \in 1..3 |-> <<"invitation", "location", "member">>[k]]
  <1>1. \A t : t \in TableNames => Do("sweep", <<t, None>>) \in Steps
    BY DEF Do, Steps, Statements, TableNames
  <1>2. /\ DOMAIN Sweep = 1..3 /\ 1..3 = {1, 2, 3}
        /\ Sweep[1] = Do("sweep", <<"invitation", None>>)
        /\ Sweep[2] = Do("sweep", <<"location", None>>)
        /\ Sweep[3] = Do("sweep", <<"member", None>>)
    BY DEF Sweep
  <1>3. Sweep = [k \in 1..3 |-> Sweep[k]]
    BY DEF Sweep
  <1>4. \A k \in 1..3 : Sweep[k] \in Steps
    BY <1>1, <1>2 DEF TableNames
  <1>5. Sweep \in Seq(Steps)
    BY <1>3, <1>4
  <1>6. ToSet(Sweep) = {Sweep[1], Sweep[2], Sweep[3]}
    BY <1>2 DEF ToSet
  <1>7. ToSet(Sweep) = {Do("sweep", <<t, None>>) : t \in TableNames}
    BY <1>2, <1>6, Zenon DEF TableNames
  <1>8. \A st \in ToSet(Sweep) : st.do \notin Inserting
    BY <1>7 DEF Do, Inserting
  <1>9. ASSUME NEW x \in Rows \ {GroupRow}
        PROVE  x[1] \in TableNames /\ x \in Table(x[1])
    BY Tables, RowKinds DEF TableNames
  <1>10. ASSUME NEW t \in TableNames
         PROVE  Table(t) \subseteq Rows \ {GroupRow} /\ IsFiniteSet(Table(t))
    BY Tables, RowKinds DEF TableNames
  <1>11. QED
    BY <1>5, <1>7, <1>8, <1>9, <1>10, Steadies

LEMMA CloseGroupKeepsInv ==
  ASSUME Inv, NEW c \in Conns, CloseGroup(c)
  PROVE  Inv'
  <1> DEFINE v == [is |-> "gone"]
  <1>1. Busy(c) /\ First(c).do = "close" /\ Runs(c, "close") /\ TxOK(c)
    BY DEF Inv, CloseGroup, Runs
  <1>2. tx[c].in \in Inputs /\ tx[c].in.op = "delete" /\ Unclosed(c)
    BY <1>1, StageOfStatement DEF Inv
  <1>3. First(c).row = GroupRow /\ Tail(tx[c].todo) = <<>> /\ Of(c) = {}
    BY <1>2, ItemsOfList DEF Unclosed, First, Do
  <1>4. Storable(GroupRow, v) /\ v.is = "gone"
    BY RowKinds DEF Storable, Fits
  <1>5. \A st \in ToSet(Sweep) : st.do \notin Inserting
    BY Sweeps DEF Do, Inserting
  <1> HIDE DEF v
  <1>6. CASE Live(GroupRow) /\ Continue(c, v, Sweep)
    <2>1. Writes(c, v, Sweep)
      BY <1>1, <1>3, <1>4, <1>6, Sweeps, ContinueWrites
    <2>2. /\ Of(c)' = {GroupRow} /\ tx'[c].rows[GroupRow] = v /\ tx'[c].in = tx[c].in
          /\ Plan(c)' = ToSet(Sweep) /\ GroupRow \in tx'[c].strong /\ UNCHANGED db
      BY <1>1, <1>3, <2>1, ItemsOfList DEF Writes, Moves, ForUpdate
    <2>3. Covered(c)'
      <3>1. \A x \in Rows \ {GroupRow} : Do("sweep", <<x[1], None>>) \in ToSet(Sweep)
        BY Sweeps
      <3>2. QED
        BY <2>2, <3>1 DEF Covered
    <2>4. Of(c)' \cap InvitationRows = {} /\ Of(c)' \cap MemberRows = {}
      BY <2>2, RowKinds
    <2>5. Closed(c)'
      BY <1>4, <1>6, <2>2, <2>3, <2>4, Sweeps DEF Closed, Live
    <2>6. StageOK(c)'
      BY <1>2, <2>2, <2>5 DEF StageOK, DeleteStage
    <2>7. QED
      BY <1>1, <1>3, <1>4, <1>5, <1>6, <2>6, Sweeps, ContinueKeepsInv DEF ForUpdate
  <1>7. QED
    BY <1>6, RefusalKeepsInv DEF CloseGroup, v

LEMMA SweepTableKeepsInv ==
  ASSUME Inv, NEW c \in Conns, SweepTable(c)
  PROVE  Inv'
  <1> DEFINE t == First(c).row[1]
             D == {y \in Table(t) : Live(y)}
             S == {Do("erase", x) : x \in D}
  <1>1. Busy(c) /\ First(c).do = "sweep" /\ Runs(c, "sweep")
    BY DEF SweepTable, Runs
  <1>2. tx[c].in \in Inputs /\ tx[c].in.op = "delete" /\ Closed(c) /\ First(c) \in Plan(c)
    BY <1>1, StageOfStatement DEF Inv
  <1>3. t \in TableNames /\ First(c) = Do("sweep", <<t, None>>)
    BY <1>1, <1>2 DEF Closed, Do
  <1>4. D \subseteq Rows \ {GroupRow} /\ IsFiniteSet(D)
    BY <1>3, Sweeps, FS_Subset
  <1>5. \A x \in Rows \ {GroupRow} : x[1] = t /\ Live(x) => x \in D
    BY Sweeps
  <1>6. PICK more \in SetToSeqs(S) : Then(c, more)
    BY DEF SweepTable
  <1> HIDE DEF D
  <1>7. ToSet(more) = S /\ Steady(more)
    <2>1. "erase" \in Statements \ Inserting
      BY DEF Statements, Inserting
    <2>2. QED
      BY <1>4, <1>6, <2>1, StatementsForRows
  <1>8. S \subseteq {Do("erase", x) : x \in Rows \ {GroupRow}} /\ \A st \in S : st.do \notin Inserting
    BY <1>4 DEF Do, Inserting
  <1>9. \A x \in D : Do("erase", x) \in S
    OBVIOUS
  <1> HIDE DEF S
  <1>10. Moves(c, more) /\ tx'[c].rows = tx[c].rows /\ Of(c)' = Of(c)
    BY <1>1, <1>6, <1>7, ThenMoves
  <1>11. /\ UNCHANGED db /\ tx'[c].in = tx[c].in /\ Plan(c)' \subseteq Plan(c) \cup S
         /\ Plan(c) \subseteq {First(c)} \cup Plan(c)' /\ S \subseteq Plan(c)'
         /\ tx[c].strong \subseteq tx'[c].strong
    BY <1>7, <1>10 DEF Moves
  <1>12. Covered(c)'
    <2> SUFFICES ASSUME NEW x \in Rows \ Of(c), Live(x)
                 PROVE  Do("sweep", <<x[1], None>>) \in Plan(c)' \/ Do("erase", x) \in Plan(c)'
      BY <1>10, <1>11 DEF Covered, Live
    <2>1. Do("sweep", <<x[1], None>>) \in Plan(c) \/ Do("erase", x) \in Plan(c)
      BY <1>2 DEF Closed, Covered
    <2>2. x # GroupRow
      BY <1>2 DEF Closed
    <2>3. CASE x[1] = t
      BY <1>5, <1>9, <1>11, <2>2, <2>3
    <2>4. CASE x[1] # t
      <3>1. Do("sweep", <<x[1], None>>) # First(c) /\ Do("erase", x) # First(c)
        BY <1>3, <2>4 DEF Do
      <3>2. QED
        BY <1>11, <2>1, <3>1
    <2>5. QED
      BY <2>3, <2>4
  <1>13. Closed(c)'
    BY <1>2, <1>8, <1>10, <1>11, <1>12 DEF Closed, Live
  <1>14. StageOK(c)'
    BY <1>2, <1>11, <1>13 DEF StageOK, DeleteStage
  <1>15. QED
    BY <1>1, <1>6, <1>7, <1>8, <1>14, ThenKeepsInv

LEMMA EraseKeepsInv ==
  ASSUME Inv, NEW c \in Conns, Erase(c)
  PROVE  Inv'
  <1> DEFINE x0 == First(c).row
             v == db[x0]
  <1>1. Busy(c) /\ First(c).do = "erase" /\ Runs(c, "erase")
    BY DEF Erase, Runs
  <1>2. tx[c].in \in Inputs /\ tx[c].in.op = "delete" /\ Closed(c) /\ First(c) \in Plan(c)
    BY <1>1, StageOfStatement DEF Inv
  <1>3. x0 \in Rows \ {GroupRow} /\ First(c) = Do("erase", x0)
    BY <1>1, <1>2 DEF Closed, Do
  <1>4. Fits(x0, v)
    BY <1>3 DEF Inv, RowsOK
  <1>5. Steady(<<>>) /\ ToSet(<<>>) = {}
    BY Steadies, ItemsOfList
  <1>6. x0[1] = "invitation" <=> x0 \in InvitationRows
    BY <1>3, Tables, RowKinds
  <1>7. ASSUME NEW w, v.is = "live", Continue(c, w, <<>>), Storable(x0, w), w.is = "gone",
               x0 \in MemberRows => w.by = v.by,
               x0 \in InvitationRows =>
                 w.user = v.user /\ (w.status = "accepted" <=> v.status = "accepted")
        PROVE  Inv'
    <2>1. Writes(c, w, <<>>)
      BY <1>1, <1>5, <1>7, ContinueWrites
    <2>2. /\ UNCHANGED db /\ tx'[c].in = tx[c].in /\ Of(c)' = Of(c) \cup {x0}
          /\ tx'[c].rows[x0] = w /\ Plan(c)' \subseteq Plan(c)
          /\ \A x \in Of(c) : x # x0 => tx'[c].rows[x] = tx[c].rows[x]
          /\ Plan(c) \subseteq {First(c)} \cup Plan(c)' /\ tx[c].strong \subseteq tx'[c].strong
      BY <1>5, <2>1 DEF Writes, Moves
    <2>3. Live(x0)
      BY <1>7 DEF Live
    <2>4. Covered(c)'
      <3> SUFFICES ASSUME NEW x \in Rows \ Of(c)', Live(x)
                   PROVE  Do("sweep", <<x[1], None>>) \in Plan(c)' \/ Do("erase", x) \in Plan(c)'
        BY <2>2 DEF Covered, Live
      <3>1. Do("sweep", <<x[1], None>>) \in Plan(c) \/ Do("erase", x) \in Plan(c)
        BY <1>2, <2>2 DEF Closed, Covered
      <3>2. Do("sweep", <<x[1], None>>) # First(c) /\ Do("erase", x) # First(c)
        BY <1>3, <2>2 DEF Do
      <3>3. QED
        BY <2>2, <3>1, <3>2
    <2> HIDE DEF x0
    <2>5. Closed(c)'
      BY <1>2, <1>7, <2>2, <2>3, <2>4 DEF Closed, Live
    <2>6. StageOK(c)'
      BY <1>2, <2>2, <2>5 DEF StageOK, DeleteStage
    <2>7. QED
      BY <1>1, <1>3, <1>5, <1>7, <2>3, <2>6, ContinueKeepsInv DEF Update, x0
  <1>8. CASE v.is # "live" /\ Then(c, <<>>)
    <2>1. Moves(c, <<>>) /\ tx'[c].rows = tx[c].rows /\ Of(c)' = Of(c)
      BY <1>1, <1>5, <1>8, ThenMoves
    <2>2. /\ UNCHANGED db /\ tx'[c].in = tx[c].in /\ Plan(c)' \subseteq Plan(c)
          /\ Plan(c) \subseteq {First(c)} \cup Plan(c)' /\ tx[c].strong \subseteq tx'[c].strong
      BY <1>5, <2>1 DEF Moves
    <2>3. Covered(c)'
      <3> SUFFICES ASSUME NEW x \in Rows \ Of(c), Live(x)
                   PROVE  Do("sweep", <<x[1], None>>) \in Plan(c)' \/ Do("erase", x) \in Plan(c)'
        BY <2>1, <2>2 DEF Covered, Live
      <3>1. Do("sweep", <<x[1], None>>) \in Plan(c) \/ Do("erase", x) \in Plan(c)
        BY <1>2 DEF Closed, Covered
      <3>2. Do("sweep", <<x[1], None>>) # First(c) /\ Do("erase", x) # First(c)
        BY <1>3, <1>8 DEF Do, Live
      <3>3. QED
        BY <2>2, <3>1, <3>2
    <2>4. Closed(c)'
      BY <1>2, <2>1, <2>2, <2>3 DEF Closed, Live
    <2>5. StageOK(c)'
      BY <1>2, <2>2, <2>4 DEF StageOK, DeleteStage
    <2>6. QED
      BY <1>1, <1>5, <1>8, <2>5, ThenKeepsInv
  <1>9. ASSUME v.is = "live", x0 \in InvitationRows, v.status = "pending",
               Continue(c, [v EXCEPT !.is = "gone", !.status = "revoked"], <<>>)
        PROVE  Inv'
    <2> DEFINE w == [v EXCEPT !.is = "gone", !.status = "revoked"]
    <2>1. v \in InvitationVersions /\ x0 \notin MemberRows \cup LocationRows
      BY <1>4, <1>9, RowKinds DEF Fits
    <2>2. w \in InvitationVersions /\ w.is = "gone" /\ w.user = v.user /\ w.status = "revoked"
      BY <2>1 DEF InvitationVersions, Life
    <2>3. Storable(x0, w)
      BY <1>3, <2>1, <2>2 DEF Storable, Fits
    <2> HIDE DEF w, x0, v
    <2>4. QED
      BY <1>7, <1>9, <2>1, <2>2, <2>3 DEF w
  <1>10. ASSUME v.is = "live", Continue(c, [v EXCEPT !.is = "gone"], <<>>)
         PROVE  Inv'
    <2> DEFINE w == [v EXCEPT !.is = "gone"]
    <2>1. CASE x0 \in MemberRows
      <3>1. v \in MemberVersions /\ x0 \notin InvitationRows \cup LocationRows
        BY <1>4, <2>1, RowKinds DEF Fits
      <3>2. w \in MemberVersions /\ w.is = "gone" /\ w.by = v.by
        BY <3>1 DEF MemberVersions, Life
      <3>3. Storable(x0, w)
        BY <1>3, <3>1, <3>2 DEF Storable, Fits
      <3> HIDE DEF w, x0, v
      <3>4. QED
        BY <1>7, <1>10, <3>1, <3>2, <3>3 DEF w
    <2>2. CASE x0 \in InvitationRows
      <3>1. v \in InvitationVersions /\ x0 \notin MemberRows \cup LocationRows
        BY <1>4, <2>2, RowKinds DEF Fits
      <3>2. w \in InvitationVersions /\ w.is = "gone" /\ w.user = v.user /\ w.status = v.status
        BY <3>1 DEF InvitationVersions, Life
      <3>3. Storable(x0, w)
        BY <1>3, <3>1, <3>2 DEF Storable, Fits
      <3> HIDE DEF w, x0, v
      <3>4. QED
        BY <1>7, <1>10, <3>1, <3>2, <3>3 DEF w
    <2>3. CASE x0 \in LocationRows
      <3>1. v \in LocationVersions /\ x0 \notin MemberRows \cup InvitationRows
        BY <1>4, <2>3, RowKinds DEF Fits
      <3>2. w \in LocationVersions /\ w.is = "gone"
        BY <3>1 DEF LocationVersions, Life
      <3>3. Storable(x0, w)
        BY <2>3, <3>2, LocationSeen
      <3> HIDE DEF w, x0, v
      <3>4. QED
        BY <1>7, <1>10, <3>1, <3>2, <3>3 DEF w
    <2>4. QED
      BY <1>3, <2>1, <2>2, <2>3, RowKinds
  <1>11. QED
    BY <1>6, <1>8, <1>9, <1>10 DEF Erase

-----------------------------------------------------------------------------
(* Foreign keys, time and the first state. *)

(* Only a deletion keeps the group, and it locked it. *)
LEMMA GroupKeepers ==
  ASSUME Inv, NEW c \in Conns, GroupRow \in Of(c)
  PROVE  tx[c].in \in Inputs /\ tx[c].in.op = "delete" /\ Closed(c)
  <1>1. StageOK(c)
    BY DEF Inv
  <1>2. tx[c] # Idle
    BY IdleIsOK DEF IdleFacts
  <1>3. ~InviteStage(c) /\ ~DropStage(c) /\ ~CreateStage(c)
    BY RowKinds DEF InviteStage, DropStage, CreateStage, Uncreated, CreatedHere
  <1>4. ~RespondStage(c)
    <2>1. \A i, m : GroupRow # InvitationRow(i) /\ GroupRow # MemberRow(m)
      BY DEF GroupRow, InvitationRow, MemberRow
    <2>2. QED
      BY <2>1 DEF RespondStage, Unanswered, Rejected, Joining, Joined
  <1>5. ~MemberStage(c)
    <2>1. \A m : GroupRow # MemberRow(m)
      BY DEF GroupRow, MemberRow
    <2>2. QED
      BY <2>1, RowKinds DEF MemberStage, MemberUnread, MemberLocked, Subject
  <1>6. ~Unclosed(c)
    BY DEF Unclosed
  <1>7. QED
    BY <1>1, <1>2, <1>3, <1>4, <1>5, <1>6 DEF StageOK, DeleteStage

LEMMA ShareKeepsInv ==
  ASSUME Inv, NEW c \in Conns, Share(c)
  PROVE  Inv'
  <1>1. TxOK(c) /\ StageOK(c) /\ Busy(c) /\ First(c).do = "share" /\ tx = [d \in Conns |-> tx[d]]
    BY DEF Inv, Share, Runs
  <1>2. /\ Alone(c) /\ TxOK(c)' /\ tx'[c].in = tx[c].in /\ tx'[c].rows = tx[c].rows
        /\ tx'[c].shares = tx[c].shares \cup {First(c).row}
        /\ Plan(c) = {First(c)} \cup Plan(c)' /\ Inserts(c)' = {}
    BY <1>1, ShareEffect
  <1>3. /\ Of(c)' = Of(c) /\ UNCHANGED db /\ tx[c].in \in Inputs /\ First(c) \in Plan(c)
        /\ Subject(c)' = Subject(c) /\ (Stays(c)' <=> Stays(c))
    BY <1>1, <1>2, StageOfStatement DEF Of, Alone, Subject, Stays, Employed
  <1>4. Linked(c) => Linked(c)'
    BY <1>2 DEF Linked, Do
  <1>5. InviteStage(c) => InviteStage(c)'
    BY <1>2, <1>3, <1>4 DEF InviteStage, Live
  <1>6. Joined(c) => Joined(c)'
    <2>1. \A i \in Invitations, m \in Members : Joins(c, i, m)' <=> Joins(c, i, m)
      BY <1>2, <1>3 DEF Joins, AnswerIs
    <2>2. QED
      BY <1>2, <1>3, <1>4, <2>1 DEF Joined
  <1>7. MemberLocked(c) => MemberLocked(c)'
    <2> SUFFICES ASSUME MemberLocked(c)
                 PROVE  MemberLocked(c)'
      OBVIOUS
    <2>1. LeavesNothing(c)'
      <3>1. \A x : (Seen(c, x))' = Seen(c, x)
        BY <1>2, <1>3 DEF Seen
      <3>2. \A x : /\ Do("unassign", None) \in Plan(c) => Do("unassign", None) \in Plan(c)'
                   /\ Do("free", x) \in Plan(c) => Do("free", x) \in Plan(c)'
        BY <1>1, <1>2 DEF Do
      <3>3. QED
        BY <1>2, <1>3, <3>1, <3>2 DEF MemberLocked, LeavesNothing, Live
    <2>2. QED
      BY <1>2, <1>3, <2>1 DEF MemberLocked, Live
  <1>8. CreatedHere(c) => CreatedHere(c)'
    BY <1>2, <1>3, <1>4 DEF CreatedHere
  <1>9. StageOK(c)'
    <2>1. /\ ~DropStage(c) /\ ~Closed(c)
      BY <1>1, <1>3 DEF DropStage, Closed, Do
    <2>2. \A x : tx[c].todo = <<x>> => First(c) = x
      BY ItemsOfList DEF First
    <2>3. /\ ~Unanswered(c) /\ ~Joining(c) /\ ~Rejected(c) /\ ~MemberUnread(c) /\ ~Uncreated(c)
          /\ ~Unclosed(c)
      <3>1. \A what, x : tx[c].todo = <<Do(what, x)>> => what = "share"
        BY <1>1, <2>2 DEF Do
      <3>2. ~Unanswered(c) /\ ~Joining(c)
        BY <3>1 DEF Unanswered, Joining
      <3>3. ~MemberUnread(c) /\ ~Unclosed(c)
        BY <3>1 DEF MemberUnread, Unclosed
      <3>4. ~Uncreated(c)
        BY <3>1 DEF Uncreated
      <3>5. ~Rejected(c)
        BY <1>1 DEF Rejected, Busy
      <3>6. QED
        BY <3>2, <3>3, <3>4, <3>5
    <2>4. tx[c] # Idle
      BY <1>1 DEF Busy, Idle
    <2>5. \/ tx[c].in.op = "invite" /\ InviteStage(c)
          \/ tx[c].in.op = "respond" /\ Joined(c)
          \/ tx[c].in.op \in {"edit", "remove"} /\ MemberLocked(c)
          \/ tx[c].in.op = "create" /\ CreatedHere(c)
      BY <1>1, <2>1, <2>3, <2>4 DEF StageOK, RespondStage, MemberStage, CreateStage, DeleteStage
    <2>6. QED
      BY <1>2, <1>3, <1>5, <1>6, <1>7, <1>8, <2>5 DEF StageOK, RespondStage, MemberStage, CreateStage
  <1>10. Yields(c)
    <2>1. ASSUME First(c).row = GroupRow, NEW d \in Conns \ {c}
          PROVE  GroupRow \notin Of(d)
      <3>1. GroupRow \notin tx[d].strong
        BY <2>1 DEF Share, Runs, WaitsFor
      <3>2. QED
        BY <3>1, GroupKeepers DEF Closed
    <2>2. QED
      BY <1>2, <1>3, <2>1 DEF Yields
  <1>11. QED
    BY <1>2, <1>9, <1>10, LocalStep

LEMMA LapseKeepsInv ==
  ASSUME Inv, NEW i \in Invitations, Lapse(i)
  PROVE  Inv'
  <1>1. db' = db /\ tx' = tx /\ lapsed' \subseteq Invitations
    BY DEF Inv, Lapse
  <1>2. ASSUME NEW d \in Conns
        PROVE  TxOK(d)' /\ StageOK(d)'
    <2>1. QuietFor(d)
      BY <1>1 DEF QuietFor, Live
    <2>2. QED
      BY <2>1, Undisturbed DEF Inv
  <1>3. RowsOK' /\ MembershipsAreAccepted' /\ HoldersAreEmployees' /\ ApartOK'
    <2>1. RowsOK' /\ MembershipsAreAccepted'
      BY <1>1 DEF Inv, RowsOK, Fits, MembershipsAreAccepted
    <2>2. HoldersAreEmployees'
      BY <1>1 DEF Inv, HoldersAreEmployees, Live
    <2>3. ApartOK'
      BY <1>1 DEF Inv, ApartOK, Of, Inserts, Busy, First
    <2>4. QED
      BY <2>1, <2>2, <2>3
  <1>4. QED
    BY <1>1, <1>2, <1>3 DEF Inv

LEMMA StutterKeepsInv ==
  ASSUME Inv, UNCHANGED vars
  PROVE  Inv'
  <1>1. db' = db /\ tx' = tx /\ lapsed' = lapsed
    BY DEF vars
  <1>2. ASSUME NEW d \in Conns
        PROVE  TxOK(d)' /\ StageOK(d)'
    <2>1. QuietFor(d)
      BY <1>1 DEF QuietFor, Live
    <2>2. QED
      BY <2>1, Undisturbed DEF Inv
  <1>3. RowsOK' /\ MembershipsAreAccepted' /\ HoldersAreEmployees' /\ ApartOK'
    <2>1. RowsOK' /\ MembershipsAreAccepted'
      BY <1>1 DEF Inv, RowsOK, Fits, MembershipsAreAccepted
    <2>2. HoldersAreEmployees'
      BY <1>1 DEF Inv, HoldersAreEmployees, Live
    <2>3. ApartOK'
      BY <1>1 DEF Inv, ApartOK, Of, Inserts, Busy, First
    <2>4. QED
      BY <2>1, <2>2, <2>3
  <1>4. QED
    BY <1>1, <1>2, <1>3 DEF Inv

LEMMA InvInit == Init => Inv
  <1> SUFFICES ASSUME Init
               PROVE  Inv
    OBVIOUS
  <1>1. /\ db = Created /\ lapsed = {} /\ tx = [c \in Conns |-> Idle]
        /\ \A c \in Conns : tx[c] = Idle
    BY DEF Init
  <1>2. \A x \in Rows : db[x] = CASE x = GroupRow -> [is |-> "live"]
                                  [] x = MemberRow(Owner) -> [is |-> "live", role |-> "manager", by |-> None]
                                  [] OTHER -> Absent(x)
    BY <1>1 DEF Created
  <1>3. db[GroupRow] = [is |-> "live"]
    <2>1. GroupRow \in Rows /\ GroupRow # MemberRow(Owner)
      BY RowKinds, GroupsAssumption DEF MemberRows
    <2>2. QED
      BY <1>2, <2>1
  <1>4. /\ MemberRow(Owner) \in MemberRows
        /\ db[MemberRow(Owner)] = [is |-> "live", role |-> "manager", by |-> None]
    <2>1. MemberRow(Owner) \in MemberRows
      BY GroupsAssumption DEF MemberRows
    <2>2. QED
      BY <1>2, <2>1, RowKinds
  <1>5. \A x \in MemberRows \ {MemberRow(Owner)} :
          db[x] = [is |-> "absent", role |-> None, by |-> None]
    BY <1>2, RowKinds, Tables DEF Absent
  <1>6. \A x \in InvitationRows :
          db[x] = [is |-> "absent", user |-> None, role |-> None, status |-> None]
    BY <1>2, <1>4, RowKinds, Tables DEF Absent
  <1>7. \A x \in LocationRows : db[x] = [is |-> "absent", holder |-> None, assigned |-> FALSE]
    BY <1>2, <1>4, RowKinds, Tables DEF Absent
  <1>8. RowsOK
    <2>1. \A x \in Rows : Fits(x, db[x])
      <3>1. \A x \in MemberRows : db[x] \in MemberVersions
        BY <1>4, <1>5 DEF MemberVersions, Life, Roles
      <3>2. \A x \in InvitationRows : db[x] \in InvitationVersions
        BY <1>6 DEF InvitationVersions, Life
      <3>3. \A x \in LocationRows : db[x] \in LocationVersions
        <4> SUFFICES ASSUME NEW x \in LocationRows
                     PROVE  db[x] \in LocationVersions
          OBVIOUS
        <4>1. db[x] = [is |-> "absent", holder |-> None, assigned |-> FALSE]
          BY <1>7
        <4>2. QED
          BY <4>1 DEF LocationVersions, Life
      <3>4. QED
        BY <1>3, <3>1, <3>2, <3>3 DEF Fits
    <2>2. db = [x \in Rows |-> db[x]]
      BY <1>1 DEF Created
    <2>3. \A m \in Members : MemberRow(m) \in MemberRows
      BY DEF MemberRows
    <2>4. \A i \in Invitations : InvitationRow(i) \in InvitationRows
      BY DEF InvitationRows
    <2>5. \A m \in Members \ {Owner} : db[MemberRow(m)].is = "absent"
      BY <1>5, <2>3, RowKinds
    <2>6. QED
      BY <1>4, <1>5, <1>6, <2>1, <2>2, <2>3, <2>4, <2>5 DEF RowsOK
  <1>9. MembershipsAreAccepted
    <2>1. \A m \in Members \ {Owner} : db[MemberRow(m)].is = "absent"
      BY <1>5, RowKinds DEF MemberRows
    <2>2. \A i \in Invitations : db[InvitationRow(i)].status = None
      BY <1>6 DEF InvitationRows
    <2>3. QED
      BY <2>1, <2>2, GroupsAssumption DEF MembershipsAreAccepted
  <1>10. HoldersAreEmployees
    BY <1>7 DEF HoldersAreEmployees, LocationRows
  <1>11. \A c \in Conns : TxOK(c) /\ StageOK(c) /\ Of(c) = {} /\ Inserts(c) = {}
    BY <1>1, IdleIsOK DEF IdleFacts
  <1>12. ApartOK
    BY <1>11 DEF ApartOK
  <1>13. QED
    BY <1>1, <1>8, <1>9, <1>10, <1>11, <1>12 DEF Inv

-----------------------------------------------------------------------------
(* The commit: what the request kept becomes what is committed. *)

(* What a request that is done has done to the rows it kept. *)
Kept(c) ==
  /\ \A x \in Of(c) \cap InvitationRows : db[x].status = "accepted" =>
       tx[c].rows[x].status = "accepted" /\ tx[c].rows[x].user = db[x].user
  /\ \A x \in Of(c) \cap InvitationRows :
       tx[c].rows[x].status = "accepted" => db[x].status = "accepted" \/ Joined(c)
  /\ \A x \in Of(c) \cap MemberRows : db[x].is # "absent" => tx[c].rows[x].by = db[x].by
  /\ \A x \in Of(c) \cap MemberRows : db[x].is = "absent" => Joined(c)
  /\ \A x \in Of(c) \cap MemberRows : Live(x) =>
       (MemberLocked(c) /\ x = Subject(c)) \/ GroupRow \in Of(c)
  /\ \A x \in Of(c) \cap LocationRows : Assigned(tx[c].rows[x]) =>
       tx[c].rows[x].holder = tx[c].in.t /\ Subject(c) \in Of(c) /\ Stays(c)
  /\ GroupRow \in Of(c) => tx[c].rows[GroupRow].is = "gone"
  /\ \A x \in Of(c) : tx[c].rows[x].is = "live" => Live(x) \/ GroupRow \in tx[c].shares

LEMMA StageOfCommit ==
  ASSUME Inv, NEW c \in Conns, tx[c].in # None, ~Busy(c)
  PROVE  /\ Plan(c) = {} /\ tx[c].in \in Inputs
         /\ \/ InviteStage(c) \/ Rejected(c) \/ Joined(c)
            \/ tx[c].in.op \in {"edit", "remove"} /\ MemberLocked(c)
            \/ CreatedHere(c) \/ DropStage(c) \/ (tx[c].in.op = "delete" /\ Closed(c))
  <1>1. tx[c].todo = <<>> /\ StageOK(c) /\ tx[c] # Idle
    BY DEF Inv, Busy, Idle
  <1>2. Plan(c) = {} /\ \A x : tx[c].todo # <<x>>
    BY <1>1, ItemsOfList DEF Plan
  <1>3. ~Unanswered(c) /\ ~Joining(c) /\ ~MemberUnread(c)
    BY <1>2 DEF Unanswered, Joining, MemberUnread
  <1>4. ~Uncreated(c) /\ ~Unclosed(c)
    BY <1>2 DEF Uncreated, Unclosed
  <1>5. QED
    BY <1>1, <1>2, <1>3, <1>4 DEF StageOK, RespondStage, MemberStage, CreateStage, DeleteStage

LEMMA RowsAreKept ==
  ASSUME Inv, NEW c \in Conns, tx[c].in # None, ~Busy(c)
  PROVE  Kept(c)
  <1>1. Plan(c) = {} /\ tx[c].in \in Inputs
    BY StageOfCommit
  <1>2. Linked(c) => GroupRow \in tx[c].shares
    BY <1>1 DEF Linked
  <1>3. ASSUME InviteStage(c)
        PROVE  Kept(c)
    <2>1. Of(c) \cap MemberRows = {} /\ Of(c) \cap LocationRows = {} /\ GroupRow \notin Of(c)
      BY <1>3, RowKinds DEF InviteStage
    <2>2. QED
      BY <1>2, <1>3, <2>1 DEF InviteStage, Kept
  <1>4. ASSUME Rejected(c)
        PROVE  Kept(c)
    <2>1. PICK i \in Invitations : Of(c) = {InvitationRow(i)} /\ AnswerIs(c, i, "rejected")
      BY <1>4 DEF Rejected
    <2>2. InvitationRow(i) \in InvitationRows
      BY DEF InvitationRows
    <2>3. Of(c) \cap MemberRows = {} /\ Of(c) \cap LocationRows = {} /\ GroupRow \notin Of(c)
      BY <2>1, <2>2, RowKinds
    <2>4. /\ tx[c].rows[InvitationRow(i)].status = "rejected" /\ Live(InvitationRow(i))
          /\ db[InvitationRow(i)].status = "pending"
      BY <2>1 DEF AnswerIs, Live
    <2>5. QED
      BY <2>1, <2>3, <2>4 DEF Kept
  <1>5. ASSUME Joined(c)
        PROVE  Kept(c)
    <2>1. PICK i \in Invitations, m \in Members :
            /\ Of(c) = {InvitationRow(i), MemberRow(m)} /\ Joins(c, i, m)
            /\ db[MemberRow(m)].is = "absent" /\ Linked(c)
      BY <1>5 DEF Joined
    <2>2. InvitationRow(i) \in InvitationRows /\ MemberRow(m) \in MemberRows
      BY DEF InvitationRows, MemberRows
    <2>3. /\ Of(c) \cap LocationRows = {} /\ GroupRow \notin Of(c)
          /\ Of(c) \cap InvitationRows = {InvitationRow(i)} /\ Of(c) \cap MemberRows = {MemberRow(m)}
      BY <2>1, <2>2, RowKinds
    <2>4. db[InvitationRow(i)].status = "pending" /\ ~Live(MemberRow(m))
      BY <2>1 DEF Joins, AnswerIs, Live
    <2>5. QED
      BY <1>2, <1>5, <2>1, <2>3, <2>4 DEF Kept
  <1>6. ASSUME tx[c].in.op \in {"edit", "remove"}, MemberLocked(c)
        PROVE  Kept(c)
    <2>1. Subject(c) \in MemberRows
      BY <1>1, <1>6, InputShapes DEF Subject, MemberRows
    <2>2. /\ Of(c) \cap InvitationRows = {} /\ Of(c) \cap MemberRows = {Subject(c)}
          /\ GroupRow \notin Of(c)
      BY <1>6, <2>1, RowKinds DEF MemberLocked
    <2>3. db[Subject(c)].is # "absent"
      BY <1>6 DEF MemberLocked, Live
    <2>4. QED
      BY <1>6, <2>2, <2>3 DEF MemberLocked, Kept
  <1>7. ASSUME CreatedHere(c)
        PROVE  Kept(c)
    <2>1. Of(c) \cap MemberRows = {} /\ Of(c) \cap InvitationRows = {} /\ GroupRow \notin Of(c)
      BY <1>7, RowKinds DEF CreatedHere
    <2>2. QED
      BY <1>2, <1>7, <2>1 DEF CreatedHere, Kept, Assigned
  <1>8. ASSUME DropStage(c)
        PROVE  Kept(c)
    <2>1. Of(c) \cap MemberRows = {} /\ Of(c) \cap InvitationRows = {} /\ GroupRow \notin Of(c)
      BY <1>8, RowKinds DEF DropStage
    <2>2. QED
      BY <1>8, <2>1 DEF DropStage, Kept, Assigned
  <1>9. ASSUME Closed(c)
        PROVE  Kept(c)
    <2>1. \A x \in Of(c) : db[x].is # "absent" /\ tx[c].rows[x].is # "live" /\ tx[c].rows[x].is = "gone"
      BY <1>9 DEF Closed, Live
    <2>2. QED
      BY <1>9, <2>1 DEF Closed, Kept, Assigned
  <1>10. QED
    BY <1>3, <1>4, <1>5, <1>6, <1>7, <1>8, <1>9, StageOfCommit

(* The committed rows. *)
LEMMA CommitEffect ==
  ASSUME Inv, NEW c \in Conns, Commit(c)
  PROVE  /\ tx[c].in # None /\ ~Busy(c) /\ lapsed' = lapsed
         /\ \A x \in Rows : x \in Of(c) => db'[x] = tx[c].rows[x]
         /\ \A x \in Rows : x \notin Of(c) => db'[x] = db[x]
         /\ db' = [x \in Rows |-> db'[x]] /\ tx' = [d \in Conns |-> tx'[d]]
         /\ tx'[c] = Idle /\ \A d \in Conns \ {c} : tx'[d] = tx[d]
  <1>1. db' = [x \in Rows |-> Seen(c, x)] /\ tx' = [tx EXCEPT ![c] = Idle]
    BY DEF Commit
  <1>2. \A x \in Rows : db'[x] = Seen(c, x)
    BY <1>1
  <1>3. db' = [x \in Rows |-> db'[x]]
    BY <1>1
  <1>4. /\ \A x \in Rows : x \in Of(c) => db'[x] = tx[c].rows[x]
        /\ \A x \in Rows : x \notin Of(c) => db'[x] = db[x]
    BY <1>2 DEF Seen, Of
  <1>5. tx = [d \in Conns |-> tx[d]]
    BY DEF Inv
  <1>6. tx'[c] = Idle /\ (\A d \in Conns \ {c} : tx'[d] = tx[d]) /\ tx' = [d \in Conns |-> tx'[d]]
    BY <1>1, <1>5
  <1>7. QED
    BY <1>3, <1>4, <1>6 DEF Commit

LEMMA CommitKeepsRows ==
  ASSUME Inv, NEW c \in Conns, Commit(c)
  PROVE  RowsOK'
  <1>1. Kept(c) /\ RowsOK /\ TxOK(c)
    BY CommitEffect, RowsAreKept DEF Inv
  <1>2. ASSUME NEW x \in Rows
        PROVE  Fits(x, db'[x]) /\ (db'[x].is = "absent" => db'[x] = db[x])
    BY <1>1, CommitEffect DEF RowsOK, TxOK
  <1>3. /\ \A m \in Members : MemberRow(m) \in Rows /\ MemberRow(m) \in MemberRows
        /\ \A i \in Invitations : InvitationRow(i) \in Rows
    BY RowKinds DEF MemberRows, InvitationRows
  <1>4. \A m \in Members : db[MemberRow(m)].is # "absent" =>
          db'[MemberRow(m)].is # "absent" /\ db'[MemberRow(m)].by = db[MemberRow(m)].by
    BY <1>1, <1>2, <1>3, CommitEffect DEF Kept
  <1>5. db'[MemberRow(Owner)].is # "absent" /\ db'[MemberRow(Owner)].by = None
    BY <1>1, <1>4, GroupsAssumption DEF RowsOK
  <1>6. /\ \A m \in Members : db'[MemberRow(m)].is = "absent" => db'[MemberRow(m)].by = None
        /\ \A i \in Invitations :
             db'[InvitationRow(i)].is = "absent" => db'[InvitationRow(i)].status = None
    BY <1>1, <1>2, <1>3 DEF RowsOK
  <1>7. ASSUME NEW m \in Members \ {Owner}, db'[MemberRow(m)].is # "absent"
        PROVE  db'[MemberRow(m)].by \in Invitations
    <2>1. CASE db[MemberRow(m)].is # "absent"
      BY <1>1, <1>4, <2>1 DEF RowsOK
    <2>2. CASE db[MemberRow(m)].is = "absent"
      <3>1. MemberRow(m) \in Of(c)
        BY <1>3, <1>7, <2>2, CommitEffect
      <3>2. Joined(c)
        BY <1>1, <1>3, <2>2, <3>1 DEF Kept
      <3>3. PICK i \in Invitations, n \in Members :
              Of(c) = {InvitationRow(i), MemberRow(n)} /\ tx[c].rows[MemberRow(n)].by = i
        BY <3>2 DEF Joined
      <3>4. MemberRow(m) = MemberRow(n)
        BY <3>1, <3>3 DEF InvitationRow, MemberRow
      <3>5. QED
        BY <1>3, <3>1, <3>3, <3>4, CommitEffect
    <2>3. QED
      BY <2>1, <2>2
  <1>8. QED
    BY <1>2, <1>5, <1>6, <1>7, CommitEffect DEF RowsOK, Fits

LEMMA CommitKeepsMemberships ==
  ASSUME Inv, NEW c \in Conns, Commit(c)
  PROVE  MembershipsAreAccepted'
  <1>1. Kept(c) /\ RowsOK /\ TxOK(c) /\ RowsOK' /\ MembershipsAreAccepted
    BY CommitEffect, RowsAreKept, CommitKeepsRows DEF Inv
  <1>2. /\ \A m \in Members : MemberRow(m) \in Rows /\ MemberRow(m) \in MemberRows
        /\ \A i \in Invitations : InvitationRow(i) \in Rows /\ InvitationRow(i) \in InvitationRows
    BY RowKinds DEF MemberRows, InvitationRows
  <1>3. \A m \in Members : db[MemberRow(m)].is # "absent" =>
          db'[MemberRow(m)].is # "absent" /\ db'[MemberRow(m)].by = db[MemberRow(m)].by
    BY <1>1, <1>2, CommitEffect DEF Kept, TxOK
  <1>4. \A i \in Invitations : db[InvitationRow(i)].status = "accepted" =>
          /\ db'[InvitationRow(i)].status = "accepted"
          /\ db'[InvitationRow(i)].user = db[InvitationRow(i)].user
    BY <1>1, <1>2, CommitEffect DEF Kept
  <1>5. ASSUME Joined(c)
        PROVE  \E i \in Invitations, m \in Members :
                 /\ Of(c) = {InvitationRow(i), MemberRow(m)} /\ db'[MemberRow(m)].by = i
                 /\ db[MemberRow(m)].is = "absent" /\ db[InvitationRow(i)].status = "pending"
                 /\ db'[InvitationRow(i)].status = "accepted"
                 /\ db'[InvitationRow(i)].user = UserOf[m]
    <2>1. PICK i \in Invitations, m \in Members :
            /\ Of(c) = {InvitationRow(i), MemberRow(m)} /\ Joins(c, i, m)
            /\ tx[c].rows[MemberRow(m)].by = i /\ db[MemberRow(m)].is = "absent"
      BY <1>5 DEF Joined
    <2>2. /\ db'[MemberRow(m)] = tx[c].rows[MemberRow(m)]
          /\ db'[InvitationRow(i)] = tx[c].rows[InvitationRow(i)]
      BY <1>2, <2>1, CommitEffect
    <2>3. QED
      BY <2>1, <2>2 DEF Joins, AnswerIs
  <1>6. ASSUME NEW m \in Members \ {Owner}, db'[MemberRow(m)].is # "absent"
        PROVE  /\ db'[InvitationRow(db'[MemberRow(m)].by)].status = "accepted"
               /\ db'[InvitationRow(db'[MemberRow(m)].by)].user = UserOf[m]
    <2>1. CASE db[MemberRow(m)].is # "absent"
      <3>1. /\ db[MemberRow(m)].by \in Invitations
            /\ db[InvitationRow(db[MemberRow(m)].by)].status = "accepted"
            /\ db[InvitationRow(db[MemberRow(m)].by)].user = UserOf[m]
        BY <1>1, <2>1 DEF RowsOK, MembershipsAreAccepted
      <3>2. QED
        BY <1>3, <1>4, <2>1, <3>1
    <2>2. CASE db[MemberRow(m)].is = "absent"
      <3>1. MemberRow(m) \in Of(c)
        BY <1>2, <1>6, <2>2, CommitEffect
      <3>2. Joined(c)
        BY <1>1, <1>2, <2>2, <3>1 DEF Kept
      <3>3. PICK i \in Invitations, n \in Members :
              /\ Of(c) = {InvitationRow(i), MemberRow(n)} /\ db'[MemberRow(n)].by = i
              /\ db'[InvitationRow(i)].status = "accepted"
              /\ db'[InvitationRow(i)].user = UserOf[n]
        BY <1>5, <3>2
      <3>4. MemberRow(m) = MemberRow(n) /\ m = n
        BY <3>1, <3>3 DEF InvitationRow, MemberRow
      <3>5. QED
        BY <3>3, <3>4
    <2>3. QED
      BY <2>1, <2>2
  <1>7. ASSUME NEW i \in Invitations, db'[InvitationRow(i)].status = "accepted"
        PROVE  Cardinality({m \in Members : db'[MemberRow(m)].by = i}) = 1
    <2>1. CASE db[InvitationRow(i)].status = "accepted"
      <3>1. ASSUME NEW m \in Members
            PROVE  db'[MemberRow(m)].by = i <=> db[MemberRow(m)].by = i
        <4>1. CASE db[MemberRow(m)].is # "absent"
          BY <1>3, <4>1
        <4>2. CASE db[MemberRow(m)].is = "absent"
          <5>1. db[MemberRow(m)].by = None /\ i # None
            BY <1>1, <4>2, GroupsAssumption DEF RowsOK
          <5>2. CASE MemberRow(m) \notin Of(c)
            BY <1>2, <5>2, CommitEffect
          <5>3. CASE MemberRow(m) \in Of(c)
            <6>1. Joined(c)
              BY <1>1, <1>2, <4>2, <5>3 DEF Kept
            <6>2. PICK k \in Invitations, n \in Members :
                    /\ Of(c) = {InvitationRow(k), MemberRow(n)} /\ db'[MemberRow(n)].by = k
                    /\ db[InvitationRow(k)].status = "pending"
              BY <1>5, <6>1
            <6>3. m = n
              BY <5>3, <6>2 DEF InvitationRow, MemberRow
            <6>4. k # i
              BY <2>1, <6>2
            <6>5. QED
              BY <5>1, <6>2, <6>3, <6>4
          <5>4. QED
            BY <5>2, <5>3
        <4>3. QED
          BY <4>1, <4>2
      <3>2. {m \in Members : db'[MemberRow(m)].by = i} = {m \in Members : db[MemberRow(m)].by = i}
        BY <3>1
      <3>3. Cardinality({m \in Members : db[MemberRow(m)].by = i}) = 1
        BY <1>1, <2>1 DEF MembershipsAreAccepted
      <3>4. QED
        BY <3>2, <3>3
    <2>2. CASE db[InvitationRow(i)].status # "accepted"
      <3>1. InvitationRow(i) \in Of(c)
        BY <1>2, <1>7, <2>2, CommitEffect
      <3>2. Joined(c)
        BY <1>1, <1>2, <1>7, <2>2, <3>1, CommitEffect DEF Kept
      <3>3. PICK k \in Invitations, m \in Members :
              /\ Of(c) = {InvitationRow(k), MemberRow(m)} /\ db'[MemberRow(m)].by = k
        BY <1>5, <3>2
      <3>4. k = i
        BY <3>1, <3>3 DEF InvitationRow, MemberRow
      <3>5. ASSUME NEW n \in Members, n # m
            PROVE  db'[MemberRow(n)].by # i
        <4>1. MemberRow(n) \notin Of(c)
          BY <3>3, <3>5 DEF InvitationRow, MemberRow
        <4>2. db'[MemberRow(n)] = db[MemberRow(n)]
          BY <1>2, <4>1, CommitEffect
        <4>3. CASE db[MemberRow(n)].is = "absent" \/ n = Owner
          BY <1>1, <4>2, <4>3, GroupsAssumption DEF RowsOK
        <4>4. CASE db[MemberRow(n)].is # "absent" /\ n # Owner
          BY <1>1, <2>2, <4>2, <4>4 DEF MembershipsAreAccepted
        <4>5. QED
          BY <4>3, <4>4
      <3>6. {n \in Members : db'[MemberRow(n)].by = i} = {m}
        BY <3>3, <3>4, <3>5
      <3>7. QED
        BY <3>6, FS_Singleton
    <2>3. QED
      BY <2>1, <2>2
  <1>8. QED
    BY <1>6, <1>7 DEF MembershipsAreAccepted

LEMMA CommitKeepsGroup ==
  ASSUME Inv, NEW c \in Conns, Commit(c), Live(GroupRow)'
  PROVE  Live(GroupRow) /\ GroupRow \notin Of(c)
  <1>1. GroupRow \in Rows /\ Kept(c)
    BY RowKinds, CommitEffect, RowsAreKept
  <1>2. QED
    BY <1>1, CommitEffect DEF Kept, Live

LEMMA CommitKeepsHolders ==
  ASSUME Inv, NEW c \in Conns, Commit(c)
  PROVE  HoldersAreEmployees'
  <1>1. Kept(c) /\ RowsOK /\ TxOK(c) /\ RowsOK' /\ HoldersAreEmployees
    BY CommitEffect, RowsAreKept, CommitKeepsRows DEF Inv
  <1>2. /\ \A m \in Members : MemberRow(m) \in Rows /\ MemberRow(m) \in MemberRows
        /\ \A l \in Locations : LocationRow(l) \in Rows /\ LocationRow(l) \in LocationRows
    BY RowKinds DEF MemberRows, LocationRows
  <1> SUFFICES ASSUME Live(GroupRow)', NEW l \in Locations, Assigned(db'[LocationRow(l)])
               PROVE  Employed(db'[MemberRow(db'[LocationRow(l)].holder)])
    BY DEF HoldersAreEmployees, Assigned, Employed, Live
  <1> DEFINE x == LocationRow(l)
             m == db'[x].holder
  <1>3. x \in Rows /\ x \in LocationRows
    BY <1>2
  <1>4. m \in Members
    <2>1. db'[x] \in LocationVersions
      BY <1>1, <1>3 DEF RowsOK, Fits
    <2>2. QED
      BY <2>1 DEF LocationVersions, Assigned
  <1> HIDE DEF x
  <1>5. CASE x \in Of(c)
    <2>1. /\ db'[x] = tx[c].rows[x] /\ Assigned(tx[c].rows[x])
      BY <1>3, <1>5, CommitEffect DEF x
    <2>2. m = tx[c].in.t /\ Subject(c) \in Of(c) /\ Stays(c)
      BY <1>1, <1>3, <1>5, <2>1 DEF Kept
    <2>3. MemberRow(m) = Subject(c)
      BY <2>2 DEF Subject
    <2>4. db'[MemberRow(m)] = tx[c].rows[Subject(c)]
      BY <1>2, <1>4, <2>2, <2>3, CommitEffect
    <2>5. QED
      BY <2>2, <2>4 DEF Stays, x
  <1>6. CASE x \notin Of(c)
    <2>1. db'[x] = db[x] /\ Assigned(db[x]) /\ Live(GroupRow) /\ GroupRow \notin Of(c)
      BY <1>3, <1>6, CommitEffect, CommitKeepsGroup DEF x
    <2>2. Employed(db[MemberRow(m)])
      BY <1>1, <2>1 DEF HoldersAreEmployees, Assigned, Employed, Live, x
    <2>3. CASE MemberRow(m) \notin Of(c)
      BY <1>2, <1>4, <2>2, <2>3, CommitEffect DEF x
    <2>4. CASE MemberRow(m) \in Of(c)
      <3>1. MemberLocked(c) /\ MemberRow(m) = Subject(c)
        BY <1>1, <1>2, <1>4, <2>1, <2>2, <2>4 DEF Kept, Employed, Live
      <3>2. m = tx[c].in.t
        BY <3>1 DEF Subject, MemberRow
      <3>3. Seen(c, x) = db[x]
        BY <1>6 DEF Seen, Of
      <3>4. Plan(c) = {}
        BY CommitEffect, StageOfCommit
      <3>5. Stays(c)
        BY <1>3, <2>1, <3>1, <3>2, <3>3, <3>4 DEF MemberLocked, LeavesNothing
      <3>6. QED
        BY <1>2, <1>4, <2>4, <3>1, <3>5, CommitEffect DEF Stays, x
    <2>5. QED
      BY <2>3, <2>4
  <1>7. QED
    BY <1>5, <1>6

LEMMA CommitIsQuiet ==
  ASSUME Inv, NEW c \in Conns, Commit(c), NEW d \in Conns \ {c}
  PROVE  QuietFor(d)
  <1>1. Kept(c) /\ RowsOK /\ TxOK(c) /\ TxOK(d) /\ ApartOK
    BY CommitEffect, RowsAreKept DEF Inv
  <1>2. tx'[d] = tx[d] /\ Of(c) \cap Of(d) = {} /\ Of(c) \subseteq Rows /\ Of(d) \subseteq Rows
    BY <1>1, CommitEffect DEF ApartOK, TxOK
  <1>3. \A x \in Of(d) : db'[x] = db[x]
    BY <1>2, CommitEffect
  <1>4. Live(GroupRow)' => Live(GroupRow)
    BY CommitKeepsGroup
  <1>5. ASSUME NEW x \in LocationRows \ Of(d), Assigned(db'[x])
        PROVE  db'[x] = db[x] \/ MemberRow(db'[x].holder) \notin Of(d)
    <2>1. x \in Rows
      BY RowKinds
    <2>2. CASE x \notin Of(c)
      BY <2>1, <2>2, CommitEffect
    <2>3. CASE x \in Of(c)
      <3>1. db'[x] = tx[c].rows[x]
        BY <2>1, <2>3, CommitEffect
      <3>2. db'[x].holder = tx[c].in.t /\ Subject(c) \in Of(c)
        BY <1>1, <1>5, <2>3, <3>1 DEF Kept
      <3>3. QED
        BY <1>2, <3>2 DEF Subject
    <2>4. QED
      BY <2>2, <2>3
  <1>6. ASSUME GroupRow \in Of(d), NEW x \in Rows, Live(x)'
        PROVE  Live(x)
    <2>1. GroupRow \notin tx[c].shares
      BY <1>1, <1>6 DEF ApartOK
    <2>2. CASE x \notin Of(c)
      BY <1>6, <2>2, CommitEffect DEF Live
    <2>3. CASE x \in Of(c)
      <3>1. tx[c].rows[x].is = "live"
        BY <1>6, <2>3, CommitEffect DEF Live
      <3>2. QED
        BY <1>1, <2>1, <2>3, <3>1 DEF Kept
    <2>4. QED
      BY <2>2, <2>3
  <1>7. QED
    BY <1>2, <1>3, <1>4, <1>5, <1>6 DEF QuietFor

LEMMA CommitKeepsInv ==
  ASSUME Inv, NEW c \in Conns, Commit(c)
  PROVE  Inv'
  <1>1. RowsOK' /\ MembershipsAreAccepted' /\ HoldersAreEmployees'
    BY CommitKeepsRows, CommitKeepsMemberships, CommitKeepsHolders
  <1>2. IdleFacts'
    BY IdleIsOK, PTL
  <1>3. /\ TxOK(c)' /\ StageOK(c)' /\ Of(c)' = {} /\ Inserts(c)' = {} /\ tx'[c].shares = {}
    <2>1. tx'[c] = Idle
      BY CommitEffect
    <2>2. TxOK(c)' /\ StageOK(c)' /\ Of(c)' = {} /\ Inserts(c)' = {}
      BY <1>2, <2>1 DEF IdleFacts
    <2>3. QED
      BY <2>1, <2>2 DEF Idle
  <1>4. \A d \in Conns \ {c} : TxOK(d)' /\ StageOK(d)'
    BY CommitIsQuiet, Undisturbed DEF Inv
  <1>5. \A d \in Conns \ {c} :
          tx'[d] = tx[d] /\ Of(d)' = Of(d) /\ Inserts(d)' = Inserts(d)
    BY CommitEffect DEF Of, Inserts, Busy, First
  <1>6. ApartOK'
    <2>1. ApartOK
      BY DEF Inv
    <2>2. ASSUME NEW d \in Conns, NEW x \in Inserts(d)'
          PROVE  x \in Rows /\ db'[x].is = "absent"
      <3>1. d # c /\ x \in Inserts(d)
        BY <1>3, <1>5, <2>2
      <3>2. x \in Rows /\ db[x].is = "absent" /\ x \notin Of(c)
        BY <2>1, <3>1 DEF ApartOK
      <3>3. QED
        BY <3>2, CommitEffect
    <2>3. \A e, d \in Conns : e # d =>
            /\ Of(e)' \cap Of(d)' = {}
            /\ Inserts(e)' \cap Inserts(d)' = {}
            /\ GroupRow \in Of(e)' => GroupRow \notin tx'[d].shares
      BY <1>3, <1>5, <2>1 DEF ApartOK
    <2>4. \A e, d \in Conns : Inserts(e)' \cap Of(d)' = {}
      BY <1>3, <1>5, <2>1 DEF ApartOK
    <2>5. QED
      BY <2>2, <2>3, <2>4 DEF ApartOK
  <1>7. QED
    BY <1>1, <1>3, <1>4, <1>6, CommitEffect DEF Inv

-----------------------------------------------------------------------------
LEMMA NextKeepsInv == Inv /\ [Next]_vars => Inv'
  <1> SUFFICES ASSUME Inv, [Next]_vars
               PROVE  Inv'
    OBVIOUS
  <1>1. ASSUME NEW c \in Conns, Statement(c)
        PROVE  Inv'
    <2>1. FindExpired(c) \/ Revoke(c) \/ CheckAbsent(c) \/ InsertInvitation(c) => Inv'
      BY FindExpiredKeepsInv, RevokeKeepsInv, CheckAbsentKeepsInv, InsertInvitationKeepsInv
    <2>2. Answer(c) \/ InsertMember(c) => Inv'
      BY AnswerKeepsInv, InsertMemberKeepsInv
    <2>3. LockMember(c) \/ FindHeld(c) \/ Free(c) \/ TakeLocation(c) \/ PutMember(c) => Inv'
      BY LockMemberKeepsInv, FindHeldKeepsInv, FreeKeepsInv, TakeLocationKeepsInv, PutMemberKeepsInv
    <2>4. ResolveEmployee(c) \/ InsertLocation(c) \/ DropLocation(c) => Inv'
      BY ResolveEmployeeKeepsInv, InsertLocationKeepsInv, DropLocationKeepsInv
    <2>5. CloseGroup(c) \/ SweepTable(c) \/ Erase(c) => Inv'
      BY CloseGroupKeepsInv, SweepTableKeepsInv, EraseKeepsInv
    <2>6. Share(c) \/ Commit(c) => Inv'
      BY ShareKeepsInv, CommitKeepsInv
    <2>7. QED
      BY <1>1, <2>1, <2>2, <2>3, <2>4, <2>5, <2>6 DEF Statement
  <1>2. ASSUME NEW c \in Conns, DeadlockVictim(c)
        PROVE  Inv'
    BY <1>2, RefusalKeepsInv DEF DeadlockVictim
  <1>3. QED
    BY <1>1, <1>2, RequestKeepsInv, LapseKeepsInv, StutterKeepsInv DEF Next

(* What every group, with any number of members, invitations, locations    *)
(* and requests, keeps at every step.                                      *)
THEOREM GroupsStayInOrder == Spec => []Inv
  BY InvInit, NextKeepsInv, PTL DEF Spec

(* However many answers, invitations, removals and deletions meet: nobody  *)
(* is or was a member without an invitation of his own that he accepted,   *)
(* and one accepted invitation made one membership.                        *)
THEOREM EveryMemberAccepted == Spec => []MembershipsAreAccepted
  <1>1. Inv => MembershipsAreAccepted
    BY DEF Inv
  <1>2. QED
    BY <1>1, GroupsStayInOrder, PTL

(* Whoever EditMember gave a location stays an employee until the location *)
(* is taken from him, whatever edits, removals and locations meet.         *)
THEOREM EveryHolderIsAnEmployee == Spec => []HoldersAreEmployees
  <1>1. Inv => HoldersAreEmployees
    BY DEF Inv
  <1>2. QED
    BY <1>1, GroupsStayInOrder, PTL

(* Only a commit changes what is committed. *)
LEMMA DeletingStep ==
  ASSUME Inv, [Next]_vars, Live(GroupRow), ~Live(GroupRow)'
  PROVE  \A x \in Rows : ~Live(x)'
  <1>1. db' # db
    BY DEF Live
  <1>2. PICK c \in Conns : Commit(c)
    <2>1. \A c : Request(c) \/ DeadlockVictim(c) => UNCHANGED db
      <3>1. \A c, in, saw, todo : Begin(c, in, saw, todo) => UNCHANGED db
        BY DEF Begin
      <3>2. \A c, a : /\ \A u, r : Invite(c, a, u, r) => UNCHANGED db
                      /\ \A t : RemoveMember(c, a, t) \/ CreateLocation(c, a, t) => UNCHANGED db
                      /\ \A t, r, l : EditMember(c, a, t, r, l) => UNCHANGED db
                      /\ \A l : DeleteLocation(c, a, l) => UNCHANGED db
        BY <3>1, Zenon DEF Invite, RemoveMember, CreateLocation, EditMember, DeleteLocation
      <3>3. \A c : /\ \A i, status : Respond(c, i, status) => UNCHANGED db
                   /\ Delete(c) => UNCHANGED db
        BY <3>1, Zenon DEF Respond, Delete
      <3>4. \A c : Request(c) => UNCHANGED db
        BY <3>2, <3>3, Zenon DEF Request
      <3>5. QED
        BY <3>4 DEF DeadlockVictim, Refuse
    <2>2. \A c : /\ \A v, more : Continue(c, v, more) => UNCHANGED db
                 /\ \A more : Then(c, more) => UNCHANGED db
                 /\ Refuse(c) => UNCHANGED db
      BY DEF Continue, Then, Refuse
    <2>3. \A c : FindExpired(c) \/ Revoke(c) \/ CheckAbsent(c) \/ InsertInvitation(c) => UNCHANGED db
      BY <2>2, Zenon DEF FindExpired, Revoke, CheckAbsent, InsertInvitation
    <2>4. \A c : Answer(c) \/ InsertMember(c) \/ LockMember(c) => UNCHANGED db
      BY <2>2, Zenon DEF Answer, Answered, InsertMember, LockMember
    <2>5. \A c : FindHeld(c) \/ Free(c) \/ TakeLocation(c) \/ PutMember(c) => UNCHANGED db
      BY <2>2, Zenon DEF FindHeld, Free, TakeLocation, PutMember
    <2>6. \A c : ResolveEmployee(c) \/ InsertLocation(c) \/ DropLocation(c) => UNCHANGED db
      BY <2>2, Zenon DEF ResolveEmployee, InsertLocation, DropLocation
    <2>7. \A c : CloseGroup(c) \/ SweepTable(c) \/ Erase(c) \/ Share(c) => UNCHANGED db
      BY <2>2, Zenon DEF CloseGroup, SweepTable, Erase, Share
    <2>8. \A i : Lapse(i) => UNCHANGED db
      BY DEF Lapse
    <2>9. QED
      BY <1>1, <2>1, <2>3, <2>4, <2>5, <2>6, <2>7, <2>8 DEF Next, Statement, vars
  <1>3. GroupRow \in Rows
    BY RowKinds
  <1>4. GroupRow \in Of(c)
    BY <1>2, <1>3, CommitEffect DEF Live
  <1>5. Closed(c) /\ Plan(c) = {} /\ Of(c) \subseteq Rows
    BY <1>2, <1>4, GroupKeepers, CommitEffect, StageOfCommit DEF Inv, TxOK
  <1>6. QED
    BY <1>2, <1>5, CommitEffect DEF Closed, Covered, Live

(* The step that deletes the group leaves nothing of it, whatever the      *)
(* other requests were adding meanwhile.                                   *)
THEOREM NothingOutlivesItsGroup == Spec => DeletionIsComplete
  <1>1. Inv /\ [Next]_vars => [Live(GroupRow) /\ ~Live(GroupRow)' => \A x \in Rows : ~Live(x)']_vars
    BY DeletingStep
  <1>2. QED
    BY <1>1, GroupsStayInOrder, PTL DEF Spec, DeletionIsComplete
=============================================================================
