----------------------------- MODULE MCAccounts -----------------------------
(***************************************************************************)
(* The instance of module Accounts for TLC.  Every run starts in one of    *)
(* four scenes, each with the requests that meet in it.                    *)
(***************************************************************************)
EXTENDS Accounts, TLC

CONSTANTS c1, c2, e1, e2, e3, u1, u2, u3, m1, m2, m3

VARIABLE scene
allVars == <<vars, scene>>

Account(e, m) == [email |-> e, name |-> m]

TwoAccounts(a, b) == [u \in Users |-> CASE u = u1 -> a [] u = u2 -> b [] OTHER -> None]

Empty(accounts) ==
  /\ CodesInit
  /\ user = accounts
  /\ task = [c \in Requests |-> NoTask]
  /\ via = [u \in Users |-> IF accounts[u] = None THEN Wrong ELSE Default]
  /\ granted = [n \in Codes |-> None]

(* u1 asked for a reset, and then left its address to u2. *)
Moved ==
  LET k == <<"password_reset", e1>> IN
  /\ stored = [j \in Keys |-> IF j = k THEN 1 ELSE Wrong]
  /\ subject = [j \in Keys |-> IF j = k THEN [user |-> u1, code |-> 1] ELSE NoSubject]
  /\ attempts = [j \in Keys |-> NoAttempts] /\ cooldown = [j \in Keys |-> FALSE]
  /\ made = 1 /\ mailed = {1}
  /\ req = [c \in Requests |-> NoRequest]
  /\ sentFor = [n \in Codes |-> IF n = 1 THEN [key |-> k, user |-> u1] ELSE None]
  /\ accepted = [n \in Codes |-> 0] /\ tries = [n \in Codes |-> 0]
  /\ user = TwoAccounts(Account(e2, m1), Account(e1, m2))
  /\ task = [c \in Requests |-> NoTask]
  /\ via = [u \in Users |-> IF user[u] = None THEN Wrong ELSE Default]
  /\ granted = [n \in Codes |-> None]

SceneInit ==
  \/ scene = "codes" /\ Empty(TwoAccounts(Account(e1, m1), Account(e2, m2)))
  \/ scene = "names" /\ Empty(TwoAccounts(Account(e1, m1), None))
  \/ scene = "addresses" /\ Empty(TwoAccounts(Account(e1, m1), Account(e2, m2)))
  \/ scene = "resets" /\ Moved

(* What meets in a scene; Redis fails in two of them.                      *)
InScene(ops, purposes, emails, names, presented) ==
  \A c \in Requests :
    /\ task[c].op \in ops \cup {"none"}
    /\ task[c].email \in emails \cup {None} /\ task[c].name \in names \cup {None}
    /\ req[c].key \in (purposes \X emails) \cup {None}
    /\ req[c].at = "present" => req[c].code \in presented

Calm == \A c \in Requests : req[c].at \notin {"undoCode", "undoCooldown"}

Meet ==
  \/ /\ scene = "codes"
     /\ InScene({"change"}, {"email_change"}, {e3}, {}, Codes \cup {Wrong})
  \/ /\ scene = "names" /\ Calm /\ made = 0
     /\ InScene({"register", "rename"}, {"registration"}, {e2, e3}, {m1, m2}, {Default})
  \/ /\ scene = "addresses" /\ Calm
     /\ InScene({"register", "change"}, {"registration", "email_change"}, {e3}, {m3}, Codes)
  \/ /\ scene = "resets"
     /\ InScene({"reset"}, {"password_reset"}, {e1}, {}, Codes \cup {Wrong, Default})

SceneSpec == SceneInit /\ [][Next /\ scene' = scene /\ Meet']_allVars

Alike == Permutations({c1, c2})
=============================================================================
