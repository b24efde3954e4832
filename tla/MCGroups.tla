------------------------------ MODULE MCGroups ------------------------------
(***************************************************************************)
(* The instance of module Groups for TLC.  Every run starts in one of      *)
(* three scenes, each with the requests that meet in it.                   *)
(***************************************************************************)
EXTENDS Groups, TLC

CONSTANTS own, a1, a2, b1, o, a, b, i1, i2, l1, l2, c1, c2

VARIABLE scene
allVars == <<vars, scene>>

Symmetry == Permutations(Conns)

MCUserOf == own :> o @@ a1 :> a @@ a2 :> a @@ b1 :> b

Member(r) == [is |-> "live", role |-> r, by |-> i1]
Invitation(u, status) == [is |-> "live", user |-> u, role |-> "employee", status |-> status]
Location(m) == [is |-> "live", holder |-> m, assigned |-> m # None]

(* a was invited, or accepted and may be removed and invited again.        *)
Invited == InvitationRow(i1) :> Invitation(a, "pending")
Joined == MemberRow(a1) :> Member("employee") @@ InvitationRow(i1) :> Invitation(a, "accepted")

(* Besides, b is a member, and there are two locations.                    *)
Staff(r, m) ==
  MemberRow(b1) :> [Member(r) EXCEPT !.by = i2] @@ InvitationRow(i2) :> Invitation(b, "accepted")
    @@ LocationRow(l1) :> Location(m) @@ LocationRow(l2) :> Location(None)

SceneInit ==
  /\ lapsed = {} /\ tx = [c \in Conns |-> Idle]
  /\ \/ scene = "answers" /\ db \in {Invited @@ Created, Joined @@ Created}
     \/ scene = "locations" /\ \/ db = Joined @@ Staff("employee", a1) @@ Created
                                 \/ db = Joined @@ Staff("manager", None) @@ Created
     \/ scene = "deletion" /\ \E m \in {None, a1} :
          db = LocationRow(l1) :> Location(m) @@ Joined @@ Created

(* Who is asked for what: user a is invited, as an employee; locations are *)
(* given to a or taken, and created for a.                                 *)
Asked(in) ==
  /\ in.op = "invite" => in.user = a /\ in.role = "employee"
  /\ in.op = "edit" => <<in.t, in.role, in.to>> \in
       {<<b1, None, l1>>, <<a1, None, l1>>, <<a1, None, l2>>, <<a1, None, "nowhere">>,
        <<a1, "manager", None>>, <<a1, "employee", l1>>}
  /\ in.op = "remove" => in.t \in {a1, a2}
  /\ in.op = "drop" => in.l = l1
  /\ in.op = "create" => in.t = a1

Serves(ops) == \A c \in Conns : tx[c].in # None => tx[c].in.op \in ops /\ Asked(tx[c].in)

Meet ==
  \/ scene = "answers" /\ Serves({"invite", "respond", "remove", "delete"})
  \/ scene = "locations" /\ Serves({"edit", "remove", "drop"})
  \/ scene = "deletion" /\ Serves({"edit", "remove", "create", "drop", "delete"})

MeetNext == Next /\ scene' = scene /\ Meet'

SceneSpec == SceneInit /\ [][MeetNext]_allVars
=============================================================================
