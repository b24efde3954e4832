------------------------------ MODULE Accounts ------------------------------
(***************************************************************************)
(* The operations of the account service that a one-time code guards:      *)
(* registration, the change of an address and the reset of a password,     *)
(* and the change of a username, which competes with registrations for     *)
(* names.                                                                  *)
(*                                                                         *)
(* Each checks first, then waits for Redis, then writes; the unique        *)
(* indexes of table users decide.  One query or Redis command is one step, *)
(* and a request may end between any two of them.  A row that a            *)
(* transaction has written and not committed is that of its request.       *)
(***************************************************************************)
EXTENDS Codes

CONSTANT Names
ASSUME NoneIsNoIdentity == None \notin Emails \cup Names
ASSUME IdentitiesDiffer ==
  Users \cap Emails = {} /\ Users \cap Names = {} /\ Emails \cap Names = {}
ASSUME NoneIsNoAccount == None \notin [email : Emails, name : Names]

VARIABLES
  user,     \* [Users -> the address and the name of the account, or None]
  task,     \* [Requests -> the operation that the request performs]
  via,      \* HISTORY: [Users -> the code that gave the account its address]
  granted   \* HISTORY: [Codes -> the account whose password it may reset]

accountVars == <<user, task, via, granted>>
vars == <<codeVars, accountVars>>

NoTask == [op |-> "none", at |-> "idle", user |-> None, email |-> None, name |-> None]
Ops == {"register", "change", "rename", "reset"}
TaskStages == {"idle", "lookup", "subject", "code", "save", "session", "sync", "commit", "forget"}

Init ==
  /\ CodesInit
  /\ user = [u \in Users |-> None] /\ task = [c \in Requests |-> NoTask]
  /\ via = [u \in Users |-> Wrong] /\ granted = [n \in Codes |-> None]

Free(c) == req[c].at = "idle" /\ task[c].at = "idle"
Starts(c, op, stage, u, e, m) ==
  /\ Free(c)
  /\ task' = [task EXCEPT ![c] = [op |-> op, at |-> stage, user |-> u, email |-> e, name |-> m]]
At(c, op, stage) == task[c].op = op /\ task[c].at = stage
Turns(c, stage) == task' = [task EXCEPT ![c].at = stage]
Leaves(c) == task' = [task EXCEPT ![c] = NoTask]
Accepted(c) == task[c].at = "code" /\ req[c].at = "accepted"

-----------------------------------------------------------------------------
(* The table: what is committed, and what a transaction holds.             *)

NameOf(u) == IF user[u] = None THEN None ELSE user[u].name
EmailOf(u) == IF user[u] = None THEN None ELSE user[u].email

Taken(u, x) == \E v \in Users \ {u} : user[v] # None /\ {EmailOf(v), NameOf(v)} \cap x # {}

Writing(c) == task[c].at \in {"session", "sync", "commit"}

(* A row lock, the keys of the new row, and the name that is given up.     *)
Holds(c) == {task[c].user, task[c].email, task[c].name, NameOf(task[c].user)} \ {None}
Waits(c, x) == \E d \in Requests \ {c} : Writing(d) /\ Holds(d) \cap x # {}

-----------------------------------------------------------------------------
(* SendOTP and SendEmailChangeOTP                                          *)

SendRegistration(c, e) ==
  /\ Free(c) /\ ~Taken(None, {e})
  /\ Send(c, <<"registration", e>>, None)
  /\ UNCHANGED accountVars

SendPasswordReset(c, u) ==
  /\ Free(c) /\ user[u] # None
  /\ Send(c, <<"password_reset", EmailOf(u)>>, u)
  /\ UNCHANGED accountVars

NewEmailFor(u, e) == user[u] # None /\ EmailOf(u) # e /\ ~Taken(u, {e})

SendEmailChange(c, u, e) ==
  /\ Free(c) /\ NewEmailFor(u, e)
  /\ Send(c, <<"email_change", e>>, u)
  /\ UNCHANGED accountVars

-----------------------------------------------------------------------------
(* Register                                                                *)

StartRegister(c, u, e, m) ==
  /\ user[u] = None /\ \A d \in Requests : task[d].user # u
  /\ Starts(c, "register", "lookup", u, e, m)
  /\ UNCHANGED <<codeVars, user, via, granted>>

(* The transaction begins; FOR UPDATE waits for who is writing the row.    *)
Lookup(c, n) ==
  LET t == task[c] IN
  /\ At(c, "register", "lookup")
  /\ \/ /\ Taken(None, {t.email, t.name}) /\ Leaves(c) /\ UNCHANGED codeVars
     \/ /\ ~Taken(None, {t.email, t.name})
        /\ Present(c, <<"registration", t.email>>, None, n) /\ Turns(c, "code")
  /\ UNCHANGED <<user, via, granted>>

(* Mutant: what the lookup saw is relied on. *)
InsertAnyway(c) ==
  /\ At(c, "register", "code") /\ Accepted(c)
  /\ Turns(c, "session")
  /\ UNCHANGED <<codeVars, user, via, granted>>

(* The unique indexes make the insert wait for a row that another          *)
(* transaction is writing, and fail on one that is there.                  *)
Insert(c) ==
  LET t == task[c] IN
  /\ At(c, "register", "code") /\ Accepted(c)
  /\ ~Waits(c, {t.email, t.name})
  /\ \/ Taken(t.user, {t.email, t.name}) /\ Leaves(c) /\ Use(c)
     \/ ~Taken(t.user, {t.email, t.name}) /\ Turns(c, "session") /\ UNCHANGED codeVars
  /\ UNCHANGED <<user, via, granted>>

(* The session is created in Redis before the account is committed.        *)
CreateSession(c) ==
  /\ At(c, "register", "session")
  /\ Turns(c, "commit")
  /\ UNCHANGED <<codeVars, user, via, granted>>

CommitRegistration(c) ==
  LET t == task[c] IN
  /\ At(c, "register", "commit")
  /\ user' = [user EXCEPT ![t.user] = [email |-> t.email, name |-> t.name]]
  /\ via' = [via EXCEPT ![t.user] = req[c].code]
  /\ Leaves(c) /\ Use(c)
  /\ UNCHANGED granted

-----------------------------------------------------------------------------
(* ChangeEmail                                                             *)

StartChange(c, u, e) ==
  /\ NewEmailFor(u, e)
  /\ Starts(c, "change", "subject", u, e, None)
  /\ UNCHANGED <<codeVars, user, via, granted>>

(* Mutant: whose code it is goes unnoticed. *)
PresentAnyCode(c, n) ==
  /\ At(c, "change", "subject")
  /\ Present(c, <<"email_change", task[c].email>>, None, n) /\ Turns(c, "code")
  /\ UNCHANGED <<user, via, granted>>

(* The account of the code is read before the code is presented.           *)
CheckSubject(c, n) ==
  LET k == <<"email_change", task[c].email>> IN
  /\ At(c, "change", "subject")
  /\ \/ subject[k].user # task[c].user /\ Leaves(c) /\ UNCHANGED codeVars
     \/ /\ subject[k].user = task[c].user
        /\ Present(c, k, None, n) /\ Turns(c, "code")
  /\ UNCHANGED <<user, via, granted>>

(* One statement, which is its own transaction.                            *)
SaveEmail(c) ==
  LET t == task[c] IN
  /\ At(c, "change", "code") /\ Accepted(c)
  /\ ~Waits(c, {t.user, t.email})
  /\ \/ Taken(t.user, {t.email}) /\ Leaves(c) /\ Use(c) /\ UNCHANGED <<user, via>>
     \/ /\ ~Taken(t.user, {t.email})
        /\ user' = [user EXCEPT ![t.user].email = t.email]
        /\ via' = [via EXCEPT ![t.user] = req[c].code]
        /\ Turns(c, "forget") /\ Use(c)
  /\ UNCHANGED granted

ForgetRequest(c) ==
  /\ At(c, "change", "forget")
  /\ Leaves(c)
  /\ ForgetSubject(<<"email_change", task[c].email>>) \/ UNCHANGED codeVars
  /\ UNCHANGED <<user, via, granted>>

-----------------------------------------------------------------------------
(* UpdateCurrentUser, with a username                                      *)

StartRename(c, u, m) ==
  /\ user[u] # None /\ ~Taken(u, {m})
  /\ Starts(c, "rename", "save", u, None, m)
  /\ UNCHANGED <<codeVars, user, via, granted>>

UpdateProfile(c) ==
  LET t == task[c] IN
  /\ At(c, "rename", "save")
  /\ ~Waits(c, {t.user, t.name})
  /\ \/ Taken(t.user, {t.name}) /\ Leaves(c)
     \/ ~Taken(t.user, {t.name}) /\ Turns(c, "sync")
  /\ UNCHANGED <<codeVars, user, via, granted>>

(* SyncMemberUsername: the copies in group_members are in no module.       *)
SyncMembers(c) ==
  /\ At(c, "rename", "sync") /\ Turns(c, "commit")
  /\ UNCHANGED <<codeVars, user, via, granted>>

CommitProfile(c) ==
  LET t == task[c] IN
  /\ At(c, "rename", "commit")
  /\ user' = [user EXCEPT ![t.user].name = t.name]
  /\ Leaves(c)
  /\ UNCHANGED <<codeVars, via, granted>>

-----------------------------------------------------------------------------
(* VerifyPasswordOTP                                                       *)

StartReset(c, e, n) ==
  /\ Starts(c, "reset", "code", None, e, None)
  /\ Present(c, <<"password_reset", e>>, None, n)
  /\ UNCHANGED <<user, via, granted>>

Grants(c, u) ==
  /\ granted' = IF req[c].code \in Codes THEN [granted EXCEPT ![req[c].code] = u] ELSE granted
  /\ Leaves(c) /\ Use(c)

(* The account of the code is read after the code was consumed; the        *)
(* built-in code falls back to the account of the address.                 *)
ReadSubject(c) ==
  LET s == subject[<<"password_reset", task[c].email>>]
      found == {u \in Users : EmailOf(u) = task[c].email} IN
  /\ At(c, "reset", "code") /\ Accepted(c)
  /\ \/ s.user # None /\ Grants(c, s.user)
     \/ /\ s.user = None /\ req[c].code = Default
        /\ \E u \in found : Grants(c, u)
     \/ /\ s.user = None /\ (req[c].code # Default \/ found = {})
        /\ Leaves(c) /\ Use(c) /\ UNCHANGED granted
  /\ UNCHANGED <<user, via>>

-----------------------------------------------------------------------------
(* The code was refused, or presenting it failed.                          *)
Refuse(c) ==
  /\ task[c].at = "code" /\ req[c].at = "idle"
  /\ Leaves(c)
  /\ UNCHANGED <<codeVars, user, via, granted>>

(* The request ends where it is: a query or Redis failed, its deadline     *)
(* passed, or its process ended.  What it wrote is rolled back.            *)
Abandon(c) ==
  /\ \/ req[c].at # "idle" /\ GiveUp(c)
     \/ req[c].at = "idle" /\ task[c].at # "idle" /\ UNCHANGED codeVars
  /\ Leaves(c)
  /\ UNCHANGED <<user, via, granted>>

Presented == mailed \cup {Wrong, Default}

AccountStep(c) ==
  \/ \E n \in Presented : Lookup(c, n) \/ CheckSubject(c, n)
  \/ Insert(c) \/ CreateSession(c) \/ CommitRegistration(c)
  \/ SaveEmail(c) \/ ForgetRequest(c)
  \/ UpdateProfile(c) \/ SyncMembers(c) \/ CommitProfile(c)
  \/ ReadSubject(c)
  \/ Refuse(c) \/ Abandon(c)

Begin(c) ==
  \/ \E e \in Emails : SendRegistration(c, e) \/ \E n \in Presented : StartReset(c, e, n)
  \/ \E u \in Users : SendPasswordReset(c, u)
  \/ \E u \in Users, e \in Emails : SendEmailChange(c, u, e) \/ StartChange(c, u, e)
  \/ \E u \in Users, e \in Emails, m \in Names : StartRegister(c, u, e, m)
  \/ \E u \in Users, m \in Names : StartRename(c, u, m)

Next ==
  \/ \E c \in Requests :
       \/ Begin(c) \/ AccountStep(c)
       \/ CodeStep(c) /\ UNCHANGED accountVars
  \/ Expire /\ UNCHANGED accountVars

Spec == Init /\ [][Next]_vars

-----------------------------------------------------------------------------
(* Properties. *)

TypeOK ==
  /\ CodesTypeOK
  /\ user \in [Users -> [email : Emails, name : Names] \cup {None}]
  /\ task \in [Requests -> [op : Ops \cup {"none"}, at : TaskStages, user : Users \cup {None},
                            email : Emails \cup {None}, name : Names \cup {None}]]
  /\ via \in [Users -> {Wrong, Default} \cup Codes]
  /\ granted \in [Codes -> Users \cup {None}]

Inv == TypeOK /\ OneSenderAtATime

(* No two accounts share an address or a name, although every check comes  *)
(* before the write and other requests write in between (Register,         *)
(* ChangeEmail and UpdateCurrentUser in service.go).                       *)
IdentitiesAreUnique == \A u, v \in Users : u # v /\ user[u] # None => ~Taken(u, {EmailOf(u), NameOf(u)})

(* An account has an address that a code was mailed to: one for            *)
(* registering it, or one that this very account asked for (ChangeEmail:   *)
(* "an OTP requested by someone else for the same address does not work"). *)
AddressesAreProven ==
  \A u \in Users : user[u] # None =>
    \/ via[u] = Default
    \/ /\ via[u] \in mailed
       /\ sentFor[via[u]] \in {[key |-> <<"registration", EmailOf(u)>>, user |-> None],
                               [key |-> <<"email_change", EmailOf(u)>>, user |-> u]}

(* A code resets the password of the account it was sent for, although     *)
(* VerifyPasswordOTP reads the account after it consumed the code, or of   *)
(* one that a later code for the same address was sent for.                *)
ResetsMatch ==
  \A n \in Codes : granted[n] # None =>
    \E m \in n..MaxCodes :
      sentFor[m] = [key |-> sentFor[n].key, user |-> granted[n]]
=============================================================================
