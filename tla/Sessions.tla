------------------------------ MODULE Sessions ------------------------------
(***************************************************************************)
(* The session of one account (internal/auth/session) and the requests     *)
(* that open, rotate and end it (Login, Refresh, Logout, ResetPassword and *)
(* ChangePassword of internal/auth/service), call by call.                 *)
(*                                                                         *)
(* Redis keeps the account's session under one key and a locator under the *)
(* hash of its refresh token.  A Lua script is one atomic step; everything *)
(* between two Redis or PostgreSQL calls may interleave.  Tokens, session  *)
(* ids and hashes are random and never repeat, so a fresh number stands    *)
(* for them: a session is named by the first refresh token it was given.   *)
(***************************************************************************)
EXTENDS Integers

CONSTANTS
  Conns,      \* requests served at the same time
  Passwords,  \* passwords the account may have
  Resets,     \* password reset tokens that were sent
  MaxTokens,  \* BOUND: refresh tokens ever issued
  None        \* no key, no request

Tokens == 1..MaxTokens

Session == [id : Tokens, hash : Tokens]

Stages == {"checked", "located", "loaded", "rotated", "valid", "taken", "updated", "revoking",
           "read", "done"}

(* token is the refresh token presented or the one issued; session is the  *)
(* session the request found; before the one a reset has to end.           *)
Request == [op : {"login", "refresh", "logout", "reset", "change"}, at : Stages,
            token : Tokens \cup {None}, session : Session \cup {None},
            id : Tokens \cup {None}, before : Tokens \cup {None},
            password : Passwords \cup {None}]

ASSUME SessionsAssumption ==
  /\ MaxTokens \in Nat
  /\ None \notin Tokens
  /\ None \notin Session
  /\ None \notin Request

VARIABLES
  session,   \* the account's session key: id and refresh_token_hash, or None
  locator,   \* [Tokens -> the session id a refresh key points to, or None]
  password,  \* users.password_hash
  unused,    \* reset tokens not taken yet
  issued,    \* how many refresh tokens were ever made
  ended,     \* session ids that were revoked, replaced or expired
  heirs,     \* [Tokens -> the refresh tokens Rotate returned for it]
  request    \* [Conns -> the request being served, or None]

vars == <<session, locator, password, unused, issued, ended, heirs, request>>
storeVars == <<session, locator, issued, ended, heirs>>

Idle(c) == request[c] = None

At(c, op, stage) == ~Idle(c) /\ request[c].op = op /\ request[c].at = stage

Blank == [op |-> "login", at |-> "done", token |-> None, session |-> None,
          id |-> None, before |-> None, password |-> None]

Serve(c, new) == request' = [request EXCEPT ![c] = new]

Ids(s) == IF s = None THEN {} ELSE {s.id}

(* The locators but the one of the session's refresh token. *)
WithoutKeyOf(s) == [t \in Tokens |-> IF s # None /\ t = s.hash THEN None ELSE locator[t]]

-----------------------------------------------------------------------------
(* Login: the password is checked, the login recorded, then a session      *)
(* replaces whatever session there is (Create).                            *)

CheckPassword(c, p) ==
  /\ Idle(c)
  /\ p = password
  /\ Serve(c, [Blank EXCEPT !.op = "login", !.at = "checked", !.password = p])
  /\ UNCHANGED <<storeVars, password, unused>>

(* Mutant: the refresh key of the replaced session is not deleted. *)
CreateOnly(c) ==
  LET new == issued + 1 IN
  /\ At(c, "login", "checked") /\ issued < MaxTokens
  /\ issued' = new
  /\ session' = [id |-> new, hash |-> new]
  /\ locator' = [locator EXCEPT ![new] = new]
  /\ ended' = ended \cup Ids(session)
  /\ Serve(c, [request[c] EXCEPT !.at = "done", !.token = new, !.id = new])
  /\ UNCHANGED <<password, unused, heirs>>

Create(c) ==
  LET new == issued + 1 IN
  /\ At(c, "login", "checked")
  /\ issued < MaxTokens
  /\ issued' = new
  /\ session' = [id |-> new, hash |-> new]
  /\ locator' = [WithoutKeyOf(session) EXCEPT ![new] = new]
  /\ ended' = ended \cup Ids(session)
  /\ Serve(c, [request[c] EXCEPT !.at = "done", !.token = new, !.id = new])
  /\ UNCHANGED <<password, unused, heirs>>

-----------------------------------------------------------------------------
(* Refresh: the locator, the session it points to, the comparison, and the *)
(* script that swaps the token if the session's hash is still the same.    *)

Locate(c, t) ==
  /\ Idle(c)
  /\ locator[t] # None
  /\ Serve(c, [Blank EXCEPT !.op = "refresh", !.at = "located", !.token = t, !.id = locator[t]])
  /\ UNCHANGED <<storeVars, password, unused>>

LoadLocated(c) ==
  /\ At(c, "refresh", "located")
  /\ session # None
  /\ session.id = request[c].id
  /\ session.hash = request[c].token
  /\ Serve(c, [request[c] EXCEPT !.at = "loaded", !.session = session])
  /\ UNCHANGED <<storeVars, password, unused>>

(* Mutant: the script compares nothing, it trusts what was loaded before. *)
RotateBlindly(c) ==
  LET new == issued + 1
      old == request[c].token
  IN /\ At(c, "refresh", "loaded") /\ issued < MaxTokens
     /\ session # None
     /\ issued' = new
     /\ session' = [id |-> request[c].session.id, hash |-> new]
     /\ locator' = [locator EXCEPT ![old] = None, ![new] = request[c].id]
     /\ heirs' = [heirs EXCEPT ![old] = @ \cup {new}]
     /\ Serve(c, [request[c] EXCEPT !.at = "rotated", !.token = new])
     /\ UNCHANGED <<password, unused, ended>>

Rotate(c) ==
  LET new == issued + 1
      old == request[c].token
  IN /\ At(c, "refresh", "loaded")
     /\ issued < MaxTokens
     /\ locator[old] # None /\ session # None /\ session.hash = old
     /\ issued' = new
     /\ session' = [id |-> request[c].session.id, hash |-> new]
     /\ locator' = [locator EXCEPT ![old] = None, ![new] = request[c].id]
     /\ heirs' = [heirs EXCEPT ![old] = @ \cup {new}]
     /\ Serve(c, [request[c] EXCEPT !.at = "rotated", !.token = new])
     /\ UNCHANGED <<password, unused, ended>>

(* The user is loaded and the new pair returned.                           *)
AnswerRefresh(c) ==
  /\ At(c, "refresh", "rotated")
  /\ Serve(c, [request[c] EXCEPT !.at = "done"])
  /\ UNCHANGED <<storeVars, password, unused>>

-----------------------------------------------------------------------------
(* Logout with an access token of session id: the middleware validates the *)
(* session, then it is revoked.                                            *)

Validate(c, id) ==
  /\ Idle(c)
  /\ session # None /\ session.id = id
  /\ Serve(c, [Blank EXCEPT !.op = "logout", !.at = "valid", !.id = id])
  /\ UNCHANGED <<storeVars, password, unused>>

(* Mutant: a session whose token was rotated is taken for another one. *)
RevokeUnrotated(id) ==
  IF session # None /\ session.id = id /\ session.hash = id
  THEN /\ session' = None /\ locator' = WithoutKeyOf(session) /\ ended' = ended \cup {id}
       /\ UNCHANGED <<issued, heirs>>
  ELSE UNCHANGED storeVars

(* The script of Revoke: only the session it was asked to end.             *)
Revoke(id) ==
  \/ /\ id \in Ids(session)
     /\ session' = None
     /\ locator' = WithoutKeyOf(session)
     /\ ended' = ended \cup {id}
     /\ UNCHANGED <<issued, heirs>>
  \/ /\ id \notin Ids(session)
     /\ UNCHANGED storeVars

Logout(c) ==
  /\ At(c, "logout", "valid")
  /\ Revoke(request[c].id)
  /\ Serve(c, [request[c] EXCEPT !.at = "done"])
  /\ UNCHANGED <<password, unused>>

-----------------------------------------------------------------------------
(* ResetPassword: take the token, store the password, load the account's   *)
(* session (RevokeUser), and revoke that session.                          *)

TakeToken(c, r, p) ==
  /\ Idle(c)
  /\ r \in unused
  /\ unused' = unused \ {r}
  /\ Serve(c, [Blank EXCEPT !.op = "reset", !.at = "taken", !.password = p])
  /\ UNCHANGED <<storeVars, password>>

StorePassword(c) ==
  /\ At(c, "reset", "taken")
  /\ password' = request[c].password
  /\ Serve(c, [request[c] EXCEPT !.at = "updated",
                                 !.before = IF session = None THEN None ELSE session.id])
  /\ UNCHANGED <<storeVars, unused>>

LoadUser(c) ==
  /\ At(c, "reset", "updated")
  /\ IF session = None
     THEN Serve(c, [request[c] EXCEPT !.at = "done"])
     ELSE Serve(c, [request[c] EXCEPT !.at = "revoking", !.id = session.id])
  /\ UNCHANGED <<storeVars, password, unused>>

RevokeLoaded(c) ==
  /\ At(c, "reset", "revoking")
  /\ Revoke(request[c].id)
  /\ Serve(c, [request[c] EXCEPT !.at = "done"])
  /\ UNCHANGED <<password, unused>>

-----------------------------------------------------------------------------
(* ChangePassword: check the current one, store the new one; the session   *)
(* stays.                                                                  *)

CheckCurrent(c, new) ==
  /\ Idle(c)
  /\ session # None
  /\ new # password
  /\ Serve(c, [Blank EXCEPT !.op = "change", !.at = "read", !.password = new])
  /\ UNCHANGED <<storeVars, password, unused>>

StoreChanged(c) ==
  /\ At(c, "change", "read")
  /\ password' = request[c].password
  /\ Serve(c, [request[c] EXCEPT !.at = "done"])
  /\ UNCHANGED <<storeVars, unused>>

-----------------------------------------------------------------------------
(* An answered request, one refused by a check above, one whose Redis or   *)
(* database call failed, or whose client went away: what it did stays.     *)
End(c) ==
  /\ ~Idle(c)
  /\ Serve(c, None)
  /\ UNCHANGED <<storeVars, password, unused>>

(* Both keys are set with the same lifetime by the same script.            *)
Expire ==
  /\ session # None
  /\ session' = None
  /\ locator' = WithoutKeyOf(session)
  /\ ended' = ended \cup {session.id}
  /\ UNCHANGED <<issued, heirs, password, unused, request>>

Init ==
  /\ session = None
  /\ locator = [t \in Tokens |-> None]
  /\ password \in Passwords
  /\ unused = Resets
  /\ issued = 0
  /\ ended = {}
  /\ heirs = [t \in Tokens |-> {}]
  /\ request = [c \in Conns |-> None]

RefreshStep(c) ==
  \/ \E t \in Tokens : Locate(c, t)
  \/ LoadLocated(c) \/ Rotate(c) \/ AnswerRefresh(c)

PasswordStep(c) ==
  \/ \E p \in Passwords : \/ CheckPassword(c, p)
                          \/ CheckCurrent(c, p)
                          \/ \E r \in Resets : TakeToken(c, r, p)
  \/ Create(c) \/ StorePassword(c) \/ LoadUser(c) \/ RevokeLoaded(c) \/ StoreChanged(c)

LogoutStep(c) == Logout(c) \/ \E id \in Tokens : Validate(c, id)

Next ==
  \/ \E c \in Conns : RefreshStep(c) \/ PasswordStep(c) \/ LogoutStep(c) \/ End(c)
  \/ Expire

Spec == Init /\ [][Next]_vars

-----------------------------------------------------------------------------
(* Properties. *)

TypeOK ==
  /\ session \in Session \cup {None}
  /\ locator \in [Tokens -> Tokens \cup {None}]
  /\ password \in Passwords
  /\ unused \subseteq Resets
  /\ issued \in 0..MaxTokens
  /\ ended \subseteq Tokens
  /\ heirs \in [Tokens -> SUBSET Tokens]
  /\ request \in [Conns -> Request \cup {None}]

(* The only refresh key in Redis is the one of the session's own token,    *)
(* and it points to that session: no other token can be exchanged.         *)
OneRefreshKey ==
  \A t \in Tokens :
    locator[t] = IF session # None /\ session.hash = t THEN session.id ELSE None

(* "Rotate invalidates the supplied refresh token exactly once": however   *)
(* many requests present it at once, one of them gets a new token.         *)
RotatedOnce == \A t \in Tokens : \A first, second \in heirs[t] : first = second

(* A session that was logged out, replaced, reset or that expired does not *)
(* come back, not by a refresh that was under way either.                  *)
EndedForGood == session # None => session.id \notin ended

(* When a password reset is answered, the session there was when the       *)
(* password changed is over, even if it was rotated or replaced meanwhile. *)
ResetEndsSession ==
  \A c \in Conns : At(c, "reset", "done") /\ request[c].before # None =>
    request[c].before \in ended

(* Why they hold: numbers up to issued are used up ...                     *)
OnlyIssued ==
  /\ session # None => session.id <= issued /\ session.hash <= issued
  /\ \A id \in ended : id <= issued
  /\ \A t \in Tokens : heirs[t] # {} => t <= issued
  /\ \A t \in Tokens : heirs[t] # {} => session = None \/ session.hash # t
  /\ \A c \in Conns : ~Idle(c) /\ request[c].token # None => request[c].token <= issued

(* ... a refresh carries the session it loaded, with the hash it presents, *)
(* a reset the session that is left to be revoked, both kinds of password  *)
(* request the new password.                                               *)
RequestsRemember ==
  \A c \in Conns :
    /\ ~Idle(c) /\ request[c].op \in {"reset", "change"} => request[c].password \in Passwords
    /\ At(c, "refresh", "located") \/ At(c, "refresh", "loaded") =>
         request[c].token # None /\ request[c].id # None
    /\ At(c, "refresh", "loaded") =>
         /\ request[c].session # None
         /\ request[c].session.id = request[c].id
         /\ session # None /\ session.hash = request[c].token => session.id = request[c].id
    /\ At(c, "reset", "updated") =>
         request[c].before = None \/ request[c].before \in ended \cup Ids(session)
    /\ At(c, "reset", "revoking") =>
         /\ request[c].id \in ended \cup Ids(session)
         /\ request[c].before = None \/ request[c].before \in ended \cup {request[c].id}

Inv ==
  /\ TypeOK
  /\ OneRefreshKey
  /\ RotatedOnce
  /\ EndedForGood
  /\ ResetEndsSession
  /\ OnlyIssued
  /\ RequestsRemember
=============================================================================
