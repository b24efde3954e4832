--------------------------- MODULE RequestsProofs ---------------------------
(***************************************************************************)
(* Proofs about the session of an account, and about the requests that are *)
(* served beside it, for any number of requests, users, tokens and         *)
(* languages.                                                              *)
(***************************************************************************)
EXTENDS Requests, FoldProofs, NaturalsInduction, TLAPS

-----------------------------------------------------------------------------
(* The session store and the requests that use it. *)

LEMMA TokensAreNaturals == Tokens \subseteq Nat \ {0} /\ 0..MaxTokens \subseteq Nat
  BY SessionsAssumption DEF Tokens

LEMMA NoneIsNothing == None \notin Tokens /\ None \notin Session /\ None \notin Request
  BY SessionsAssumption

LEMMA InitInv == Init => Inv
<1> SUFFICES ASSUME Init PROVE Inv
  OBVIOUS
<1>1. TypeOK
  BY SessionsAssumption DEF Init, TypeOK
<1> QED
  BY <1>1 DEF Init, Inv, OneRefreshKey, RotatedOnce, EndedForGood, ResetEndsSession,
              OnlyIssued, RequestsRemember, At, Idle

(* What the new request has to remember. *)
Remembers(new) ==
  /\ new.op \in {"reset", "change"} => new.password \in Passwords
  /\ new.token # None => new.token <= issued
  /\ new.op = "refresh" /\ new.at \in {"located", "loaded"} =>
       new.token # None /\ new.id # None
  /\ new.op = "refresh" /\ new.at = "loaded" =>
       /\ new.session # None /\ new.session.id = new.id
       /\ session # None /\ session.hash = new.token => session.id = new.id
  /\ new.op = "reset" /\ new.at = "updated" =>
       new.before = None \/ new.before \in ended \cup Ids(session)
  /\ new.op = "reset" /\ new.at = "revoking" =>
       /\ new.id \in ended \cup Ids(session)
       /\ new.before = None \/ new.before \in ended \cup {new.id}
  /\ new.op = "reset" /\ new.at = "done" /\ new.before # None => new.before \in ended

(* All requests remember what they should.                                 *)
AllRemember == \A c \in Conns : request[c] # None => Remembers(request[c])

LEMMA RememberAll ==
  Inv <=> /\ TypeOK /\ OneRefreshKey /\ RotatedOnce /\ EndedForGood /\ AllRemember
          /\ session # None => session.id <= issued /\ session.hash <= issued
          /\ \A id \in ended : id <= issued
          /\ \A t \in Tokens : heirs[t] # {} => t <= issued /\ (session = None \/ session.hash # t)
  BY DEF Inv, OnlyIssued, RequestsRemember, ResetEndsSession, AllRemember, Remembers, At, Idle

(* What holds of the store alone. *)
StoreInv ==
  /\ OneRefreshKey
  /\ RotatedOnce
  /\ EndedForGood
  /\ session # None => session.id <= issued /\ session.hash <= issued
  /\ \A id \in ended : id <= issued
  /\ \A t \in Tokens : heirs[t] # {} => t <= issued /\ (session = None \/ session.hash # t)

LEMMA SplitInv == Inv <=> TypeOK /\ StoreInv /\ AllRemember
  BY RememberAll DEF StoreInv

(* How a step may change the store: numbers are never given twice, what    *)
(* ended stays so, and no session takes over a number already given.       *)
Onward ==
  /\ issued <= issued'
  /\ ended \subseteq ended'
  /\ ended \cup Ids(session) \subseteq ended' \cup Ids(session')
  /\ session' # None /\ session'.hash <= issued => session' = session

LEMMA StillRemembers ==
  ASSUME TypeOK, TypeOK', Onward, NEW r \in Request, Remembers(r)
  PROVE  Remembers(r)'
<1>1. issued \in Nat /\ issued' \in Nat /\ (r.token # None => r.token \in Nat)
  BY TokensAreNaturals DEF TypeOK, Request
<1>8. r.op \in {"reset", "change"} => r.password \in Passwords
  BY DEF Remembers
<1>2. r.token # None => r.token <= issued'
  BY <1>1 DEF Remembers, Onward
<1>3. r.op = "refresh" /\ r.at \in {"located", "loaded"} => r.token # None /\ r.id # None
  BY DEF Remembers
<1>4. ASSUME r.op = "refresh", r.at = "loaded"
      PROVE  /\ r.session # None /\ r.session.id = r.id
             /\ session' # None /\ session'.hash = r.token => session'.id = r.id
  BY <1>4 DEF Remembers, Onward
<1>5. r.op = "reset" /\ r.at = "updated" =>
        r.before = None \/ r.before \in ended' \cup Ids(session')
  BY DEF Remembers, Onward
<1>6. r.op = "reset" /\ r.at = "revoking" =>
        /\ r.id \in ended' \cup Ids(session')
        /\ r.before = None \/ r.before \in ended' \cup {r.id}
  BY DEF Remembers, Onward
<1>7. r.op = "reset" /\ r.at = "done" /\ r.before # None => r.before \in ended'
  BY DEF Remembers, Onward
<1> QED
  BY <1>2, <1>3, <1>4, <1>5, <1>6, <1>7, <1>8 DEF Remembers, Ids

(* A step of one request keeps the invariant if it keeps what holds of the *)
(* store and the request remembers what it should.                         *)
LEMMA Served ==
  ASSUME Inv, TypeOK', StoreInv', Onward, NEW c \in Conns,
         \A d \in Conns \ {c} : request'[d] = request[d],
         NEW r, r = request'[c], r # None => Remembers(r)'
  PROVE  Inv'
<1>1. TypeOK /\ AllRemember
  BY SplitInv
<1>2. ASSUME NEW d \in Conns, NEW q, q = request'[d], q # None
      PROVE  Remembers(q)'
  <2>1. CASE d = c
    BY <2>1, <1>2
  <2>2. CASE d # c
    <3>1. q = request[d] /\ q \in Request /\ Remembers(q)
      BY <1>1, <1>2, <2>2 DEF TypeOK, AllRemember
    <3> QED
      BY <3>1, <1>1, StillRemembers
  <2> QED
    BY <2>1, <2>2
<1>3. AllRemember'
  BY <1>2 DEF AllRemember, Remembers
<1> QED
  BY <1>3, TypeOK', StoreInv' DEF Inv, StoreInv, OnlyIssued, RequestsRemember, ResetEndsSession,
     AllRemember, Remembers, At, Idle

(* A step of a request that leaves the store alone.                        *)
LEMMA StoreKept ==
  ASSUME Inv, UNCHANGED storeVars
  PROVE  StoreInv' /\ Onward
<1>1. StoreInv /\ TypeOK /\ issued \in Nat
  BY SplitInv, TokensAreNaturals DEF TypeOK
<1> QED
  BY <1>1 DEF storeVars, StoreInv, OneRefreshKey, RotatedOnce, EndedForGood, Onward, Ids

LEMMA ServeKeepsType ==
  ASSUME TypeOK, NEW c \in Conns, NEW new \in Request \cup {None}, Serve(c, new)
  PROVE  /\ request' \in [Conns -> Request \cup {None}]
         /\ request'[c] = new
         /\ \A d \in Conns \ {c} : request'[d] = request[d]
  BY DEF TypeOK, Serve

LEMMA ReadOnly ==
  ASSUME Inv, UNCHANGED storeVars, password' \in Passwords, unused' \subseteq Resets,
         NEW c \in Conns, NEW new \in Request \cup {None}, Serve(c, new),
         new # None => Remembers(new)
  PROVE  Inv'
<1>1. TypeOK
  BY SplitInv
<1>2. /\ request' \in [Conns -> Request \cup {None}]
      /\ request'[c] = new
      /\ \A d \in Conns \ {c} : request'[d] = request[d]
  BY <1>1, ServeKeepsType
<1>3. TypeOK'
  BY <1>1, <1>2 DEF TypeOK, storeVars
<1>4. new # None => Remembers(new)'
  BY DEF Remembers, storeVars, Ids
<1> QED
  BY <1>2, <1>3, <1>4, StoreKept, Served

(* The request a connection is serving, with its stage moved on.           *)
LEMMA Loaded ==
  ASSUME Inv, NEW c \in Conns, ~Idle(c)
  PROVE  request[c] \in Request /\ Remembers(request[c])
  BY SplitInv DEF AllRemember, Idle, TypeOK

LEMMA BlankIsRequest == Blank \in Request
  BY DEF Blank, Request, Stages

LEMMA BeginKeeps ==
  ASSUME Inv, NEW c \in Conns, NEW p \in Passwords,
         CheckPassword(c, p) \/ CheckCurrent(c, p) \/ \E r \in Resets : TakeToken(c, r, p)
  PROVE  Inv'
<1>1. TypeOK
  BY SplitInv
<1>2. CASE CheckPassword(c, p)
  <2> DEFINE new == [Blank EXCEPT !.op = "login", !.at = "checked", !.password = p]
  <2>1. new \in Request /\ Remembers(new)
    BY DEF Blank, Request, Stages, Remembers
  <2> QED
    BY <1>1, <1>2, <2>1, ReadOnly DEF CheckPassword, TypeOK
<1>3. CASE CheckCurrent(c, p)
  <2> DEFINE new == [Blank EXCEPT !.op = "change", !.at = "read", !.password = p]
  <2>1. new \in Request /\ Remembers(new)
    BY DEF Blank, Request, Stages, Remembers
  <2> QED
    BY <1>1, <1>3, <2>1, ReadOnly DEF CheckCurrent, TypeOK
<1>4. ASSUME NEW r \in Resets, TakeToken(c, r, p)
      PROVE  Inv'
  <2> DEFINE new == [Blank EXCEPT !.op = "reset", !.at = "taken", !.password = p]
  <2>1. new \in Request /\ Remembers(new)
    BY DEF Blank, Request, Stages, Remembers
  <2> QED
    BY <1>1, <1>4, <2>1, ReadOnly DEF TakeToken, TypeOK
<1> QED
  BY <1>2, <1>3, <1>4

LEMMA PresentKeeps ==
  ASSUME Inv, NEW c \in Conns, NEW t \in Tokens, Locate(c, t) \/ Validate(c, t)
  PROVE  Inv'
<1>1. TypeOK /\ OneRefreshKey /\ StoreInv
  BY SplitInv DEF StoreInv
<1>2. CASE Locate(c, t)
  <2> DEFINE new == [Blank EXCEPT !.op = "refresh", !.at = "located", !.token = t,
                                  !.id = locator[t]]
  <2>1. locator[t] \in Tokens /\ t <= issued /\ t # None
    BY <1>1, <1>2, NoneIsNothing DEF Locate, TypeOK, OneRefreshKey, StoreInv
  <2>2. new \in Request /\ Remembers(new)
    BY <2>1, NoneIsNothing DEF Blank, Request, Stages, Remembers
  <2> QED
    BY <1>1, <1>2, <2>2, ReadOnly DEF Locate, TypeOK
<1>3. CASE Validate(c, t)
  <2> DEFINE new == [Blank EXCEPT !.op = "logout", !.at = "valid", !.id = t]
  <2>1. new \in Request /\ Remembers(new)
    BY DEF Blank, Request, Stages, Remembers
  <2> QED
    BY <1>1, <1>3, <2>1, ReadOnly DEF Validate, TypeOK
<1> QED
  BY <1>2, <1>3

LEMMA LoadKeeps ==
  ASSUME Inv, NEW c \in Conns, LoadLocated(c) \/ AnswerRefresh(c) \/ StoreChanged(c) \/ End(c)
  PROVE  Inv'
<1>1. TypeOK /\ request[c] \in Request /\ Remembers(request[c])
  BY SplitInv, Loaded DEF LoadLocated, AnswerRefresh, StoreChanged, End, At
<1>2. CASE LoadLocated(c)
  <2> DEFINE new == [request[c] EXCEPT !.at = "loaded", !.session = session]
  <2>1. session \in Session /\ session # None
    BY <1>1, <1>2 DEF LoadLocated, TypeOK
  <2>2. new \in Request
    BY <1>1, <2>1 DEF Request, Stages
  <2>3. /\ new.op = "refresh" /\ new.at = "loaded" /\ new.session = session
        /\ new.token = request[c].token /\ new.id = request[c].id
    BY <1>1, <1>2 DEF Request, LoadLocated, At
  <2>4. Remembers(new)
    BY <1>1, <1>2, <2>1, <2>3 DEF Remembers, LoadLocated, At
  <2> HIDE DEF new
  <2>5. Serve(c, new) /\ UNCHANGED <<storeVars, password, unused>>
    BY <1>2 DEF LoadLocated, new
  <2> QED
    BY <1>1, <2>2, <2>4, <2>5, ReadOnly DEF TypeOK
<1>3. CASE AnswerRefresh(c)
  <2> DEFINE new == [request[c] EXCEPT !.at = "done"]
  <2>2. new \in Request
    BY <1>1 DEF Request, Stages
  <2>3. new.op = "refresh" /\ new.at = "done" /\ new.token = request[c].token
    BY <1>1, <1>3 DEF Request, AnswerRefresh, At
  <2>4. Remembers(new)
    BY <1>1, <2>3 DEF Remembers
  <2> HIDE DEF new
  <2>5. Serve(c, new) /\ UNCHANGED <<storeVars, password, unused>>
    BY <1>3 DEF AnswerRefresh, new
  <2> QED
    BY <1>1, <2>2, <2>4, <2>5, ReadOnly DEF TypeOK
<1>4. CASE StoreChanged(c)
  <2> DEFINE new == [request[c] EXCEPT !.at = "done"]
  <2>2. new \in Request
    BY <1>1 DEF Request, Stages
  <2>3. /\ new.op = "change" /\ new.at = "done" /\ new.token = request[c].token
        /\ new.password = request[c].password /\ new.password \in Passwords
    BY <1>1, <1>4 DEF Request, StoreChanged, At, Remembers
  <2>4. Remembers(new)
    BY <1>1, <2>3 DEF Remembers
  <2> HIDE DEF new
  <2>5. Serve(c, new) /\ UNCHANGED storeVars /\ unused' = unused /\ password' = request[c].password
    BY <1>4 DEF StoreChanged, new
  <2> QED
    BY <1>1, <2>3, <2>2, <2>4, <2>5, ReadOnly DEF TypeOK
<1>5. CASE End(c)
  BY <1>1, <1>5, ReadOnly DEF End, TypeOK
<1> QED
  BY <1>2, <1>3, <1>4, <1>5

LEMMA ResetReadsKeep ==
  ASSUME Inv, NEW c \in Conns, StorePassword(c) \/ LoadUser(c)
  PROVE  Inv'
<1>1. /\ TypeOK /\ request[c] \in Request /\ Remembers(request[c])
      /\ session # None => session.id \in Tokens /\ session.id # None
  BY SplitInv, Loaded, NoneIsNothing DEF StorePassword, LoadUser, At, TypeOK, Session
<1>2. CASE StorePassword(c)
  <2> DEFINE new == [request[c] EXCEPT !.at = "updated",
                                       !.before = IF session = None THEN None ELSE session.id]
  <2>1. new \in Request
    BY <1>1 DEF Request, Stages
  <2>2. /\ new.op = "reset" /\ new.at = "updated"
        /\ new.token = request[c].token /\ new.password = request[c].password
        /\ new.before = IF session = None THEN None ELSE session.id
    BY <1>1, <1>2 DEF Request, StorePassword, At
  <2>3. new.password \in Passwords /\ Remembers(new)
    BY <1>1, <1>2, <2>2 DEF Remembers, Ids, StorePassword, At
  <2> HIDE DEF new
  <2>4. Serve(c, new) /\ UNCHANGED <<storeVars, unused>> /\ password' = request[c].password
    BY <1>2 DEF StorePassword, new
  <2> QED
    BY <1>1, <2>1, <2>2, <2>3, <2>4, ReadOnly DEF TypeOK
<1>3. CASE LoadUser(c) /\ session = None
  <2> DEFINE new == [request[c] EXCEPT !.at = "done"]
  <2>1. new \in Request
    BY <1>1 DEF Request, Stages
  <2>2. /\ new.op = "reset" /\ new.at = "done"
        /\ new.token = request[c].token /\ new.password = request[c].password
        /\ new.before = request[c].before
    BY <1>1, <1>3 DEF Request, LoadUser, At
  <2>3. Remembers(new)
    BY <1>1, <1>3, <2>2 DEF Remembers, Ids, LoadUser, At
  <2> HIDE DEF new
  <2>4. Serve(c, new) /\ UNCHANGED <<storeVars, password, unused>>
    BY <1>3 DEF LoadUser, new
  <2> QED
    BY <1>1, <2>1, <2>3, <2>4, ReadOnly DEF TypeOK
<1>4. CASE LoadUser(c) /\ session # None
  <2> DEFINE new == [request[c] EXCEPT !.at = "revoking", !.id = session.id]
  <2>1. new \in Request
    BY <1>1, <1>4 DEF Request, Stages
  <2>2. /\ new.op = "reset" /\ new.at = "revoking" /\ new.id = session.id
        /\ new.token = request[c].token /\ new.password = request[c].password
        /\ new.before = request[c].before
    BY <1>1, <1>4 DEF Request, LoadUser, At
  <2>3. Remembers(new)
    BY <1>1, <1>4, <2>2 DEF Remembers, Ids, LoadUser, At
  <2> HIDE DEF new
  <2>4. Serve(c, new) /\ UNCHANGED <<storeVars, password, unused>>
    BY <1>4 DEF LoadUser, new
  <2> QED
    BY <1>1, <2>1, <2>3, <2>4, ReadOnly DEF TypeOK
<1> QED
  BY <1>2, <1>3, <1>4

(* Create: the new number is beyond all there are, so the session it names *)
(* never ended and no request knows its token.                             *)
LEMMA CreateKeeps ==
  ASSUME Inv, NEW c \in Conns, Create(c)
  PROVE  Inv'
<1> DEFINE new == issued + 1
           next == [request[c] EXCEPT !.at = "done", !.token = new, !.id = new]
<1>1. TypeOK /\ StoreInv /\ request[c] \in Request /\ Remembers(request[c])
  BY SplitInv, Loaded DEF Create, At
<1>2. issued \in Nat /\ new \in Nat /\ new \in Tokens /\ new # None /\ new > issued
  BY <1>1, SessionsAssumption, NoneIsNothing, TokensAreNaturals DEF TypeOK, Create, Tokens
<1>3. next \in Request /\ next.op = "login" /\ next.at = "done" /\ next.token = new
  BY <1>1, <1>2 DEF Request, Stages, Create, At
<1>4. /\ session' = [id |-> new, hash |-> new] /\ session' \in Session /\ session' # None
      /\ session'.id = new /\ session'.hash = new /\ issued' = new
      /\ ended' = ended \cup Ids(session) /\ heirs' = heirs
  BY <1>2, NoneIsNothing DEF Create, Session
<1>5. \A t \in Tokens : locator'[t] = IF t = new THEN new ELSE WithoutKeyOf(session)[t]
  BY <1>2 DEF Create, WithoutKeyOf
<1>6. locator' \in [Tokens -> Tokens \cup {None}]
  BY <1>1, <1>2 DEF Create, WithoutKeyOf, TypeOK
<1>7. Ids(session) \subseteq Tokens /\ \A id \in Ids(session) : id \in Nat /\ id <= issued
  BY <1>1, TokensAreNaturals DEF Ids, TypeOK, Session, StoreInv
<1> HIDE DEF new, next
<1>8. Serve(c, next) /\ password' = password /\ unused' = unused
  BY DEF Create, new, next
<1>9. /\ request' \in [Conns -> Request \cup {None}] /\ request'[c] = next
      /\ \A d \in Conns \ {c} : request'[d] = request[d]
  BY <1>1, <1>3, <1>8, ServeKeepsType
<1>10. TypeOK'
  <2>1. issued' \in 0..MaxTokens
    BY <1>1, <1>2, <1>4, SessionsAssumption DEF TypeOK, Tokens
  <2> QED
    BY <1>1, <1>4, <1>6, <1>7, <1>8, <1>9, <2>1 DEF TypeOK
<1>11. OneRefreshKey'
  <2> SUFFICES ASSUME NEW t \in Tokens
               PROVE  locator'[t] = IF t = new THEN new ELSE None
    BY <1>4 DEF OneRefreshKey
  <2> QED
    BY <1>1, <1>5 DEF WithoutKeyOf, OneRefreshKey, StoreInv
<1>12. \A id \in ended' : id \in Nat /\ id <= issued
  BY <1>1, <1>4, <1>7, TokensAreNaturals DEF StoreInv, TypeOK
<1>13. EndedForGood'
  BY <1>2, <1>4, <1>12 DEF EndedForGood
<1>14. \A t \in Tokens : heirs[t] # {} => t \in Nat /\ t <= issued
  BY <1>1, TokensAreNaturals DEF StoreInv
<1>15. StoreInv'
  <2>1. RotatedOnce'
    BY <1>1, <1>4 DEF RotatedOnce, StoreInv
  <2>2. session'.id <= issued' /\ session'.hash <= issued'
    BY <1>2, <1>4
  <2>3. \A id \in ended' : id <= issued'
    BY <1>2, <1>4, <1>12
  <2>4. \A t \in Tokens : heirs'[t] # {} => t <= issued' /\ session'.hash # t
    BY <1>2, <1>4, <1>14
  <2> QED
    BY <1>11, <1>13, <2>1, <2>2, <2>3, <2>4 DEF StoreInv
<1>16. Onward
  BY <1>2, <1>4 DEF Onward, Ids
<1>17. ASSUME NEW r, r = next
       PROVE  Remembers(r)'
  BY <1>17, <1>2, <1>3, <1>4 DEF Remembers
<1> QED
  BY <1>9, <1>10, <1>15, <1>16, <1>17, Served

(* Rotate: the hash the script compares belongs to the session the request *)
(* loaded, and nobody got a token for it yet.                              *)
LEMMA RotateKeeps ==
  ASSUME Inv, NEW c \in Conns, Rotate(c)
  PROVE  Inv'
<1> DEFINE new == issued + 1
           old == request[c].token
           next == [request[c] EXCEPT !.at = "rotated", !.token = new]
<1>1. TypeOK /\ StoreInv /\ request[c] \in Request /\ Remembers(request[c])
  BY SplitInv, Loaded DEF Rotate, At
<1>2. issued \in Nat /\ new \in Nat /\ new \in Tokens /\ new # None /\ new > issued
  BY <1>1, SessionsAssumption, NoneIsNothing, TokensAreNaturals DEF TypeOK, Rotate, Tokens
<1>3. next \in Request /\ next.op = "refresh" /\ next.at = "rotated" /\ next.token = new
  BY <1>1, <1>2 DEF Request, Stages, Rotate, At
<1>4. /\ old \in Tokens /\ session # None /\ session \in Session /\ session.hash = old
      /\ session.id = request[c].id /\ request[c].session.id = session.id
  BY <1>1 DEF Rotate, At, Remembers, Request, TypeOK
<1>5. /\ session.id \in Tokens /\ session.id \in Nat /\ session.id <= issued
      /\ old \in Nat /\ old <= issued /\ session.id \notin ended /\ heirs[old] = {}
  BY <1>1, <1>4, TokensAreNaturals DEF Session, StoreInv, EndedForGood
<1>6. /\ session' = [id |-> session.id, hash |-> new] /\ session' \in Session /\ session' # None
      /\ session'.id = session.id /\ session'.hash = new /\ issued' = new
      /\ ended' = ended
  BY <1>2, <1>4, <1>5, NoneIsNothing DEF Rotate, Session
<1>7. \A t \in Tokens : locator'[t] = IF t = new THEN session.id
                                      ELSE IF t = old THEN None ELSE locator[t]
  BY <1>1, <1>2, <1>4 DEF Rotate, TypeOK
<1>8. locator' \in [Tokens -> Tokens \cup {None}]
  BY <1>1, <1>2, <1>4, <1>5 DEF Rotate, TypeOK
<1>9. /\ heirs' \in [Tokens -> SUBSET Tokens]
      /\ \A t \in Tokens : heirs'[t] = IF t = old THEN {new} ELSE heirs[t]
  <2>1. heirs' = [heirs EXCEPT ![old] = heirs[old] \cup {new}]
    BY DEF Rotate
  <2> QED
    BY <1>1, <1>2, <1>4, <1>5, <2>1 DEF TypeOK
<1> HIDE DEF new, old, next
<1>10. Serve(c, next) /\ password' = password /\ unused' = unused
  BY DEF Rotate, new, old, next
<1>11. /\ request' \in [Conns -> Request \cup {None}] /\ request'[c] = next
       /\ \A d \in Conns \ {c} : request'[d] = request[d]
  BY <1>1, <1>3, <1>10, ServeKeepsType
<1>12. TypeOK'
  <2>1. issued' \in 0..MaxTokens
    BY <1>1, <1>2, <1>6, SessionsAssumption DEF TypeOK, Tokens
  <2> QED
    BY <1>1, <1>6, <1>8, <1>9, <1>10, <1>11, <2>1 DEF TypeOK
<1>13. OneRefreshKey'
  <2> SUFFICES ASSUME NEW t \in Tokens
               PROVE  locator'[t] = IF t = new THEN session.id ELSE None
    BY <1>6 DEF OneRefreshKey
  <2> QED
    BY <1>1, <1>4, <1>7 DEF OneRefreshKey, StoreInv
<1>14. RotatedOnce'
  BY <1>1, <1>9 DEF RotatedOnce, StoreInv
<1>15. EndedForGood'
  BY <1>5, <1>6 DEF EndedForGood
<1>16. StoreInv'
  <2>1. session'.id <= issued' /\ session'.hash <= issued'
    BY <1>2, <1>5, <1>6
  <2>2. \A id \in ended' : id <= issued'
    BY <1>1, <1>2, <1>6, TokensAreNaturals DEF StoreInv, TypeOK
  <2>3. \A t \in Tokens : heirs'[t] # {} => t \in Nat /\ t <= issued
    BY <1>1, <1>5, <1>9, TokensAreNaturals DEF StoreInv
  <2>4. \A t \in Tokens : heirs'[t] # {} => t <= issued' /\ session'.hash # t
    BY <1>2, <1>6, <2>3
  <2> QED
    BY <1>13, <1>14, <1>15, <2>1, <2>2, <2>4 DEF StoreInv
<1>17. Onward
  BY <1>2, <1>6 DEF Onward, Ids
<1>18. ASSUME NEW r, r = next
       PROVE  Remembers(r)'
  BY <1>18, <1>2, <1>3, <1>6 DEF Remembers
<1> QED
  BY <1>11, <1>12, <1>16, <1>17, <1>18, Served

(* Revoke: the session that is there is ended, or the one asked for is not *)
(* there any more.                                                         *)
LEMMA RevokeKeepsStore ==
  ASSUME Inv, NEW id \in Tokens \cup {None}, Revoke(id)
  PROVE  /\ StoreInv' /\ Onward
         /\ session' \in Session \cup {None} /\ issued' = issued /\ ended' \subseteq Tokens
         /\ locator' \in [Tokens -> Tokens \cup {None}] /\ heirs' = heirs
         /\ id \in ended \cup Ids(session) => id \in ended'
<1>1. TypeOK /\ StoreInv /\ issued \in Nat
  BY SplitInv, TokensAreNaturals DEF TypeOK
<1>2. CASE id \in Ids(session)
  <2>1. /\ session # None /\ session \in Session /\ session.id = id /\ id \in Tokens
        /\ session' = None /\ locator' = WithoutKeyOf(session) /\ ended' = ended \cup {id}
        /\ issued' = issued /\ heirs' = heirs
    BY <1>1, <1>2 DEF Revoke, Ids, TypeOK, Session
  <2>2. \A t \in Tokens : locator'[t] = None
    BY <1>1, <2>1 DEF WithoutKeyOf, OneRefreshKey, StoreInv
  <2>3. locator' \in [Tokens -> Tokens \cup {None}]
    BY <1>1, <2>1 DEF WithoutKeyOf, TypeOK
  <2>4. StoreInv'
    BY <1>1, <2>1, <2>2 DEF StoreInv, OneRefreshKey, RotatedOnce, EndedForGood
  <2>5. Onward
    BY <1>1, <2>1 DEF Onward, Ids
  <2> QED
    BY <1>1, <2>1, <2>3, <2>4, <2>5 DEF TypeOK
<1>3. CASE id \notin Ids(session)
  <2>1. UNCHANGED storeVars
    BY <1>3 DEF Revoke
  <2>2. StoreInv' /\ Onward
    BY <2>1, StoreKept
  <2> QED
    BY <1>1, <1>3, <2>1, <2>2 DEF storeVars, TypeOK
<1> QED
  BY <1>2, <1>3

LEMMA RevokeKeeps ==
  ASSUME Inv, NEW c \in Conns, Logout(c) \/ RevokeLoaded(c)
  PROVE  Inv'
<1> DEFINE next == [request[c] EXCEPT !.at = "done"]
<1>1. TypeOK /\ request[c] \in Request /\ Remembers(request[c])
  BY SplitInv, Loaded DEF Logout, RevokeLoaded, At
<1>2. /\ next \in Request /\ next.op = request[c].op /\ next.at = "done"
      /\ next.token = request[c].token /\ next.password = request[c].password
      /\ next.before = request[c].before
      /\ request[c].id \in Tokens \cup {None}
  BY <1>1 DEF Request, Stages
<1>3. Revoke(request[c].id) /\ request[c].op \in {"logout", "reset"}
  BY DEF Logout, RevokeLoaded, At
<1>4. /\ StoreInv' /\ Onward
      /\ session' \in Session \cup {None} /\ issued' = issued /\ ended' \subseteq Tokens
      /\ locator' \in [Tokens -> Tokens \cup {None}] /\ heirs' = heirs
      /\ request[c].id \in ended \cup Ids(session) => request[c].id \in ended'
  BY <1>2, <1>3, RevokeKeepsStore
<1>5. Serve(c, next) /\ password' = password /\ unused' = unused
  BY DEF Logout, RevokeLoaded
<1> HIDE DEF next
<1>6. /\ request' \in [Conns -> Request \cup {None}] /\ request'[c] = next
      /\ \A d \in Conns \ {c} : request'[d] = request[d]
  BY <1>1, <1>2, <1>5, ServeKeepsType
<1>7. TypeOK'
  BY <1>1, <1>4, <1>5, <1>6 DEF TypeOK
<1>8. next.op = "reset" /\ next.before # None => next.before \in ended'
  <2>1. CASE request[c].op = "reset" /\ request[c].at = "revoking"
    BY <1>1, <1>2, <1>4, <2>1 DEF Remembers, Onward
  <2>2. CASE request[c].op = "logout"
    BY <1>2, <2>2
  <2> QED
    BY <2>1, <2>2 DEF Logout, RevokeLoaded, At
<1>9. ASSUME NEW r, r = next
      PROVE  Remembers(r)'
  BY <1>9, <1>1, <1>2, <1>3, <1>4, <1>8 DEF Remembers
<1> QED
  BY <1>4, <1>6, <1>7, <1>9, Served

LEMMA ExpireKeeps ==
  ASSUME Inv, Expire
  PROVE  Inv'
<1>1. TypeOK /\ AllRemember
  BY SplitInv
<1>2. session # None /\ session \in Session /\ session.id \in Tokens
  BY <1>1 DEF Expire, TypeOK, Session
<1>3. Revoke(session.id)
  BY <1>2 DEF Expire, Revoke, Ids
<1>4. /\ StoreInv' /\ Onward
      /\ session' \in Session \cup {None} /\ issued' = issued /\ ended' \subseteq Tokens
      /\ locator' \in [Tokens -> Tokens \cup {None}] /\ heirs' = heirs
  BY <1>2, <1>3, RevokeKeepsStore
<1>5. TypeOK'
  BY <1>1, <1>4 DEF Expire, TypeOK
<1>6. request' = request
  BY DEF Expire
<1>7. ASSUME NEW d \in Conns, NEW q, q = request[d], q # None
      PROVE  Remembers(q)'
  <2>1. q \in Request /\ Remembers(q)
    BY <1>1, <1>7 DEF TypeOK, AllRemember
  <2> QED
    BY <2>1, <1>1, <1>4, <1>5, StillRemembers
<1>8. AllRemember'
  BY <1>6, <1>7 DEF AllRemember, Remembers
<1> QED
  BY <1>4, <1>5, <1>8 DEF Inv, StoreInv, OnlyIssued, RequestsRemember, ResetEndsSession,
     AllRemember, Remembers, At, Idle

LEMMA NextInv == Inv /\ [Next]_vars => Inv'
<1> SUFFICES ASSUME Inv, [Next]_vars PROVE Inv'
  OBVIOUS
<1>1. ASSUME NEW c \in Conns, RefreshStep(c)
      PROVE  Inv'
  BY <1>1, PresentKeeps, LoadKeeps, RotateKeeps DEF RefreshStep
<1>2. ASSUME NEW c \in Conns, PasswordStep(c)
      PROVE  Inv'
  BY <1>2, BeginKeeps, CreateKeeps, ResetReadsKeep, RevokeKeeps, LoadKeeps DEF PasswordStep
<1>3. ASSUME NEW c \in Conns, LogoutStep(c) \/ End(c)
      PROVE  Inv'
  BY <1>3, PresentKeeps, RevokeKeeps, LoadKeeps DEF LogoutStep
<1>4. CASE Expire
  BY <1>4, ExpireKeeps
<1>5. CASE UNCHANGED vars
  BY <1>5 DEF vars, Inv, TypeOK, OneRefreshKey, RotatedOnce, EndedForGood, ResetEndsSession,
              OnlyIssued, RequestsRemember, At, Idle, Ids
<1> QED
  BY <1>1, <1>2, <1>3, <1>4, <1>5 DEF Next

(* The invariant of the session store and of the requests that use it:     *)
(* every number in use was issued, and what a request carries still names  *)
(* the session it found.                                                   *)
THEOREM InvHolds == Spec => []Inv
<1> QED
  BY InitInv, NextInv, PTL DEF Spec

(* However many requests rotate, replace, revoke and expire the session at *)
(* once, no refresh key but that of its own token is ever in Redis.        *)
THEOREM OneKeyPerSession == Spec => []OneRefreshKey
<1>1. Inv => OneRefreshKey
  BY DEF Inv
<1> QED
  BY <1>1, InvHolds, PTL

(* A refresh token presented many times at once is exchanged at most once. *)
THEOREM TokensRotateOnce == Spec => []RotatedOnce
<1>1. Inv => RotatedOnce
  BY DEF Inv
<1> QED
  BY <1>1, InvHolds, PTL

(* An ended session never comes back.                                      *)
THEOREM EndedStayEnded == Spec => []EndedForGood
<1>1. Inv => EndedForGood
  BY DEF Inv
<1> QED
  BY <1>1, InvHolds, PTL

(* An answered password reset has ended the session it found.              *)
THEOREM ResetsEndTheSession == Spec => []ResetEndsSession
<1>1. Inv => ResetEndsSession
  BY DEF Inv
<1> QED
  BY <1>1, InvHolds, PTL

-----------------------------------------------------------------------------
(* What a request carries on its way. *)

Users == {Account, Other}

Fields == {"route", "bearer", "sid", "header", "left", "keys", "known", "late", "missed",
           "since", "live", "answer"}

IsCall(r) == r = [f \in Fields |-> r[f]]

(* The steps up to the service, and those after it. *)
BeforeSteps == {"cache", "load", "token", "session", "limit", "user", "purpose", "id", "page",
                "query", "input", "body", "recall", "serve"}

AfterSteps == {"remember", "forget", "store", "invalidate", "end"}

Whose(r) == IF r.bearer = None THEN "public" ELSE r.bearer

Language(r) == RequestLanguage(r.header)

KeysOf(r) == {<<v, Whose(r), r.route, Language(r)>> : v \in 0..version}

Touching(commands, route) == {m \in commands : Touches(m, route)}

-----------------------------------------------------------------------------
(* The commands whose Incr was executed: no entry that is made from now on *)
(* may lack one of them.                                                   *)

Landed(r) ==
  /\ r # None
  /\ ToSet(r.left) \cap {"serve", "invalidate"} = {}
  /\ r.answer.status < 400
  /\ ~r.missed

Landing == {c \in Clients : Landed(call[c])}

Settled == {m \in acknowledged \cup {call[c].route : c \in Landing} : Routes[m].writes # {}}

(* A request that holds a key of generation v. *)
Holds(r, v) == r # None /\ \E key \in ToSet(r.keys) : key[1] = v

(* What may be shown under a key of generation v. *)
Good(v, route, shown) ==
  /\ v = version => Touching(Settled, route) \subseteq shown
  /\ \A c \in Clients : Holds(call[c], v) => Touching(call[c].since, route) \subseteq shown

EntryOK(key, a) ==
  /\ key[1] \in 0..version
  /\ key[3] \in DOMAIN Routes
  /\ a.status < 400
  /\ a.language = key[4]
  /\ key[3] \in DOMAIN Private => key[2] \in Users /\ a.of = key[2]
  /\ key[3] # "check" => Good(key[1], key[3], a.shown)

-----------------------------------------------------------------------------
(* The invariant. *)

(* The errors an answer may be made of. *)
Errors == {
  {"noRows"}, {"pg23505"}, {"pg23503"}, {"pg23514"}, {"pgValue"}, {"other"}, {"deadline"},
  {"InvalidData"}, {"InvalidData", "reason"}, {"InvalidData", "other"}, {"InvalidData", "http422"},
  {"InvalidID"}, {"InvalidOTP"}, {"InvalidResetToken"}, {"RecordNotFound"},
  {"RecordNotFound", "reason"}, {"Conflict"}, {"Conflict", "reason"}, {"AlreadyExists"},
  {"AlreadyExists", "reason"}, {"RegistrationIdentityExists"},
  {"RegistrationIdentityExists", "pg23505"}, {"Forbidden"}, {"Forbidden", "reason"},
  {"Unauthorized"}, {"SessionRevoked"}, {"InvalidCredentials"}, {"InvalidCredentials", "reason"},
  {"LimitExceeded"}, {"LimitExceeded", "reason"}, {"EmailUnavailable", "other"},
  {"EmailUnavailable", "deadline"}, {"Timeout"}}

Fixed(r) ==
  /\ IsCall(r)
  /\ r.route \in DOMAIN Routes
  /\ r.header \in Headers
  /\ r.keys \in Seq(KeysOf(r))
  /\ r.since \subseteq acknowledged

(* Whom the request is known to come from. *)
Known(r) ==
  /\ r.known \in {None, r.bearer}
  /\ r.known # None => r.known \in Users
  /\ r.known = Account => r.live
  /\ r.live \/ r.sid \in ended
  /\ r.keys # <<>> => Routes[r.route].get /\ r.bearer \in {None, r.known}

(* The steps of S, with last as the last one only. *)
EndsIn(steps, S, last) ==
  /\ steps \in Seq(S)
  /\ steps # <<>>
  /\ \A i \in DOMAIN steps : steps[i] = last <=> i = Len(steps)

(* The service is asked last. *)
Open(steps) == EndsIn(steps, BeforeSteps, "serve")

(* The answer is sent last. *)
Closed(steps) == EndsIn(steps, AfterSteps, "end")

Asking(r) ==
  /\ Open(r.left)
  /\ r.route \in DOMAIN Private /\ r.known = None => "token" \in ToSet(r.left)
  /\ "load" \in ToSet(r.left) => r.keys # <<>>
  /\ "recall" \in ToSet(r.left) => r.route = "check"

Refused(r) == \E err \in Errors : r.answer = Failure(err, Language(r))

Fulfilled(r) ==
  /\ r.answer.status < 400
  /\ r.answer.language = Language(r)
  /\ r.route \in DOMAIN Private =>
       /\ r.answer.of = r.bearer
       /\ r.bearer \in Users
       /\ r.bearer = Account => r.live
  /\ ~Routes[r.route].get => r.route \in written
  /\ Routes[r.route].get /\ r.route # "check" =>
       Touching(r.since, r.route) \subseteq r.answer.shown

Answering(r) ==
  /\ r.left = <<>> \/ Closed(r.left)
  /\ Refused(r) \/ Fulfilled(r)
  /\ "store" \in ToSet(r.left) => \A key \in ToSet(r.keys) : EntryOK(key, r.answer)

CallOK(r) == Fixed(r) /\ Known(r) /\ (Asking(r) \/ Answering(r))

SharedOK ==
  /\ version \in Nat
  /\ Settled \subseteq written
  /\ acknowledged \subseteq DOMAIN Routes
  /\ \A key \in DOMAIN entry : EntryOK(key, entry[key])

CallsOK == \A c \in Clients : call[c] # None => CallOK(call[c])

HttpInv == SharedOK /\ CallsOK /\ DOMAIN call = Clients

ServerInv == Inv /\ HttpInv

-----------------------------------------------------------------------------
(* Sequences and the steps in them. *)

LEMMA ToSetOfTail ==
  ASSUME NEW S, NEW s \in Seq(S), s # <<>>
  PROVE  /\ Head(s) \in S
         /\ Tail(s) \in Seq(S)
         /\ ToSet(s) = {Head(s)} \cup ToSet(Tail(s))
<1>1. Len(s) \in Nat \ {0} /\ DOMAIN s = 1..Len(s) /\ Head(s) = s[1]
  OBVIOUS
<1>2. /\ Head(s) \in S
      /\ Tail(s) \in Seq(S)
      /\ Len(Tail(s)) = Len(s) - 1
      /\ \A i \in 1..Len(s) - 1 : Tail(s)[i] = s[i + 1]
  OBVIOUS
<1>3. DOMAIN Tail(s) = 1..Len(s) - 1
  BY <1>2
<1> DEFINE t == Tail(s)
<1> HIDE DEF t
<1>4. ASSUME NEW x \in ToSet(s)
      PROVE  x \in {Head(s)} \cup ToSet(t)
  <2>1. PICK i \in 1..Len(s) : x = s[i]
    BY <1>1 DEF ToSet
  <2>2. CASE i = 1
    BY <1>1, <2>1, <2>2
  <2>3. CASE i # 1
    <3>1. i - 1 \in DOMAIN t /\ t[i - 1] = x
      BY <1>1, <1>2, <1>3, <2>1, <2>3 DEF t
    <3> QED
      BY <3>1 DEF ToSet
  <2> QED
    BY <2>2, <2>3
<1>5. ASSUME NEW x \in ToSet(t)
      PROVE  x \in ToSet(s)
  <2>1. PICK i \in 1..Len(s) - 1 : x = t[i]
    BY <1>3 DEF ToSet, t
  <2>2. i + 1 \in DOMAIN s /\ s[i + 1] = x
    BY <1>1, <1>2, <2>1 DEF t
  <2> QED
    BY <2>2 DEF ToSet
<1>6. Head(s) \in ToSet(s)
  BY <1>1 DEF ToSet
<1> QED
  BY <1>2, <1>4, <1>5, <1>6 DEF t

LEMMA ToSetOfConcat ==
  ASSUME NEW S, NEW s \in Seq(S), NEW t \in Seq(S)
  PROVE  s \o t \in Seq(S) /\ ToSet(s \o t) = ToSet(s) \cup ToSet(t)
<1>1. Len(s) \in Nat /\ DOMAIN s = 1..Len(s) /\ Len(t) \in Nat /\ DOMAIN t = 1..Len(t)
  OBVIOUS
<1> DEFINE u == s \o t
<1>2. /\ u \in Seq(S)
      /\ DOMAIN u = 1..Len(s) + Len(t)
      /\ \A i \in 1..Len(s) : u[i] = s[i]
      /\ \A i \in 1..Len(t) : u[Len(s) + i] = t[i]
  OBVIOUS
<1> HIDE DEF u
<1>3. ASSUME NEW x \in ToSet(u)
      PROVE  x \in ToSet(s) \cup ToSet(t)
  <2>1. PICK i \in 1..Len(s) + Len(t) : x = u[i]
    BY <1>2 DEF ToSet
  <2>2. CASE i <= Len(s)
    BY <1>1, <1>2, <2>1, <2>2 DEF ToSet
  <2>3. CASE i > Len(s)
    <3>1. i - Len(s) \in 1..Len(t) /\ Len(s) + (i - Len(s)) = i
      BY <1>1, <2>3
    <3>2. x = t[i - Len(s)]
      BY <1>2, <2>1, <3>1
    <3> QED
      BY <1>1, <3>1, <3>2 DEF ToSet
  <2> QED
    BY <1>1, <2>2, <2>3
<1>4. ASSUME NEW x \in ToSet(s)
      PROVE  x \in ToSet(u)
  <2>1. PICK i \in 1..Len(s) : x = s[i]
    BY <1>1 DEF ToSet
  <2>2. i \in DOMAIN u /\ u[i] = x
    BY <1>1, <1>2, <2>1
  <2> QED
    BY <2>2 DEF ToSet
<1>5. ASSUME NEW x \in ToSet(t)
      PROVE  x \in ToSet(u)
  <2>1. PICK i \in 1..Len(t) : x = t[i]
    BY <1>1 DEF ToSet
  <2>2. Len(s) + i \in DOMAIN u /\ u[Len(s) + i] = x
    BY <1>1, <1>2, <2>1
  <2> QED
    BY <2>2 DEF ToSet
<1> QED
  BY <1>2, <1>3, <1>4, <1>5 DEF u

LEMMA ToSetOfOne ==
  ASSUME NEW S, NEW x \in S
  PROVE  <<x>> \in Seq(S) /\ ToSet(<<x>>) = {x}
  BY DEF ToSet

LEMMA ToSetOfNone ==
  ASSUME NEW S
  PROVE  <<>> \in Seq(S) /\ ToSet(<<>>) = {}
  BY DEF ToSet

LEMMA ToSetOfSeq ==
  ASSUME NEW S, NEW s \in Seq(S)
  PROVE  /\ ToSet(s) \subseteq S
         /\ s # <<>> => Last(s) \in ToSet(s)
<1>1. Len(s) \in Nat /\ DOMAIN s = 1..Len(s) /\ (\A i \in 1..Len(s) : s[i] \in S)
  OBVIOUS
<1>2. s # <<>> => Len(s) \in 1..Len(s)
  BY <1>1
<1>3. ToSet(s) = {s[i] : i \in 1..Len(s)}
  BY <1>1 DEF ToSet
<1>4. s # <<>> => Last(s) \in ToSet(s)
  BY <1>2, <1>3 DEF Last
<1> QED
  BY <1>1, <1>3, <1>4

LEMMA ToSetOfAppend ==
  ASSUME NEW S, NEW s \in Seq(S), NEW x \in S
  PROVE  Append(s, x) \in Seq(S) /\ ToSet(Append(s, x)) = ToSet(s) \cup {x}
<1>1. Append(s, x) = s \o <<x>>
  OBVIOUS
<1>2. <<x>> \in Seq(S) /\ ToSet(<<x>>) = {x}
  BY ToSetOfOne
<1> DEFINE one == <<x>>
<1>3. one \in Seq(S) /\ ToSet(one) = {x} /\ Append(s, x) = s \o one
  BY <1>1, <1>2
<1> HIDE DEF one
<1> QED
  BY <1>3, ToSetOfConcat

LEMMA EndsInSteps ==
  ASSUME NEW S, NEW last, NEW s, EndsIn(s, S, last)
  PROVE  /\ s # <<>> /\ Head(s) \in S
         /\ ToSet(s) = {Head(s)} \cup ToSet(Tail(s))
         /\ ToSet(s) \subseteq S
         /\ Head(s) = last => ToSet(s) = {last}
         /\ Head(s) # last => EndsIn(Tail(s), S, last)
<1>1. s \in Seq(S) /\ s # <<>>
  BY DEF EndsIn
<1>2. Len(s) \in Nat \ {0} /\ DOMAIN s = 1..Len(s) /\ Head(s) = s[1]
  BY <1>1
<1>3. /\ Head(s) \in S
      /\ Tail(s) \in Seq(S)
      /\ ToSet(s) = {Head(s)} \cup ToSet(Tail(s))
      /\ ToSet(s) \subseteq S
  BY <1>1, ToSetOfTail, ToSetOfSeq
<1>4. ASSUME Head(s) = last
      PROVE  ToSet(s) = {last}
  <2>1. Len(s) = 1
    BY <1>2, <1>4 DEF EndsIn
  <2> QED
    BY <1>2, <1>4, <2>1 DEF ToSet
<1>5. ASSUME Head(s) # last
      PROVE  EndsIn(Tail(s), S, last)
  <2> DEFINE t == Tail(s)
  <2>1. s[Len(s)] = last /\ Len(s) # 1
    BY <1>2, <1>5 DEF EndsIn
  <2>2. Len(t) = Len(s) - 1 /\ DOMAIN t = 1..Len(t) /\ \A i \in 1..Len(t) : t[i] = s[i + 1]
    BY <1>1, <1>2
  <2>3. t # <<>>
    BY <1>2, <2>1, <2>2
  <2>4. ASSUME NEW i \in DOMAIN t
        PROVE  t[i] = last <=> i = Len(t)
    <3>1. i + 1 \in DOMAIN s /\ t[i] = s[i + 1]
      BY <1>2, <2>2
    <3>2. s[i + 1] = last <=> i + 1 = Len(s)
      BY <3>1 DEF EndsIn
    <3> QED
      BY <1>2, <2>2, <3>1, <3>2
  <2> HIDE DEF t
  <2>5. t \in Seq(S)
    BY <1>3 DEF t
  <2>6. EndsIn(t, S, last)
    BY <2>3, <2>4, <2>5 DEF EndsIn
  <2> QED
    BY <2>6 DEF t
<1> QED
  BY <1>1, <1>3, <1>4, <1>5

LEMMA EndsInAdded ==
  ASSUME NEW S, NEW last \in S, NEW s \in Seq(S), last \notin ToSet(s)
  PROVE  EndsIn(s \o <<last>>, S, last) /\ ToSet(s \o <<last>>) = ToSet(s) \cup {last}
<1> DEFINE one == <<last>>
           t == s \o one
<1>2. one \in Seq(S) /\ ToSet(one) = {last}
  BY ToSetOfOne
<1>3. Len(s) \in Nat /\ DOMAIN s = 1..Len(s)
  OBVIOUS
<1>4. /\ Len(t) = Len(s) + 1
      /\ DOMAIN t = 1..Len(s) + 1
      /\ \A i \in 1..Len(s) : t[i] = s[i]
      /\ t[Len(s) + 1] = last
  OBVIOUS
<1>5. \A i \in 1..Len(s) : s[i] # last
  BY <1>3 DEF ToSet
<1>6. ASSUME NEW i \in DOMAIN t
      PROVE  t[i] = last <=> i = Len(t)
  BY <1>3, <1>4, <1>5
<1> HIDE DEF one
<1>7. t \in Seq(S) /\ ToSet(t) = ToSet(s) \cup {last}
  BY <1>2, ToSetOfConcat
<1>8. t # <<>>
  BY <1>3, <1>4
<1> HIDE DEF t
<1>9. EndsIn(t, S, last)
  BY <1>6, <1>7, <1>8 DEF EndsIn
<1> QED
  BY <1>7, <1>9 DEF t, one

LEMMA EndsInLonger ==
  ASSUME NEW S, NEW last, NEW x \in S, NEW s, x # last, EndsIn(s, S, last)
  PROVE  EndsIn(<<x>> \o s, S, last) /\ ToSet(<<x>> \o s) = {x} \cup ToSet(s)
<1> DEFINE one == <<x>>
           t == one \o s
<1>1. one \in Seq(S) /\ ToSet(one) = {x} /\ s \in Seq(S) /\ s # <<>>
  BY ToSetOfOne DEF EndsIn
<1>2. Len(s) \in Nat \ {0} /\ DOMAIN s = 1..Len(s)
  BY <1>1
<1>3. /\ Len(t) = Len(s) + 1
      /\ DOMAIN t = 1..Len(s) + 1
      /\ t[1] = x
      /\ \A i \in 1..Len(s) : t[i + 1] = s[i]
  BY <1>1
<1>4. ASSUME NEW i \in DOMAIN t
      PROVE  t[i] = last <=> i = Len(t)
  <2>1. CASE i = 1
    BY <1>2, <1>3, <2>1
  <2>2. CASE i # 1
    <3>1. i - 1 \in 1..Len(s) /\ (i - 1) + 1 = i
      BY <1>2, <1>3, <2>2
    <3>2. t[i] = s[i - 1]
      BY <1>3, <3>1
    <3>3. s[i - 1] = last <=> i - 1 = Len(s)
      BY <1>2, <3>1 DEF EndsIn
    <3> QED
      BY <1>2, <1>3, <3>1, <3>2, <3>3
  <2> QED
    BY <2>1, <2>2
<1>5. t # <<>>
  BY <1>2, <1>3
<1> HIDE DEF one
<1>6. t \in Seq(S) /\ ToSet(t) = {x} \cup ToSet(s)
  BY <1>1, ToSetOfConcat
<1> HIDE DEF t
<1>7. EndsIn(t, S, last)
  BY <1>4, <1>5, <1>6 DEF EndsIn
<1> QED
  BY <1>6, <1>7 DEF t, one

-----------------------------------------------------------------------------
(* The handlers and the routes. *)

PlainChecks == {"user", "purpose", "id", "page", "query", "input", "body"}

CheckLists == {
  <<"body">>, <<"body", "purpose">>, <<"user">>, <<"user", "body">>, <<"query">>,
  <<"user", "page">>, <<"user", "id">>, <<"user", "id", "body">>, <<"user", "id", "page">>,
  <<"user", "id", "body", "input">>, <<"user", "id", "id">>, <<"user", "id", "id", "body">>,
  <<"user", "id", "id", "body", "input">>, <<"user", "id", "id", "page">>}

ErrorSets == {{}, Invalid, OrderErrors, GroupErrors, DebtErrors, AuthErrors}

(* What Query and Command make of a handler of a private route. *)
Plain(h) ==
  /\ h.get => h.writes = {}
  /\ h.status \in {200, 201}
  /\ \E errors \in ErrorSets : h.errors = errors \cup Unexpected
  /\ h.checks \in CheckLists

LEMMA QueryIsPlain ==
  ASSUME NEW checks \in CheckLists, NEW errors \in ErrorSets, NEW reads
  PROVE  Plain(Query(checks, errors, reads))
  BY DEF Plain, Query

LEMMA CommandIsPlain ==
  ASSUME NEW checks \in CheckLists, NEW status \in {200, 201}, NEW errors \in ErrorSets, NEW writes
  PROVE  Plain(Command(checks, status, errors, writes))
  BY DEF Plain, Command

LEMMA AuthHandlers ==
  \A h \in {Register, SendOTP, Login, Refresh, VerifyPassword, ResetPassword, CurrentUser,
            UpdateCurrentUser, ChangeEmail, ChangeLogin, EndLogin, Lookup, Notifications} : Plain(h)
  BY QueryIsPlain, CommandIsPlain
     DEF CheckLists, ErrorSets, Register, SendOTP, Login, Refresh, VerifyPassword,
         ResetPassword, CurrentUser, UpdateCurrentUser, ChangeEmail, ChangeLogin, EndLogin,
         Lookup, Notifications

LEMMA DebtHandlers ==
  \A h \in {DebtSummary, DebtList, DebtCreate, DebtGet, DebtRepay, DebtRepayments, DebtComplete,
            DebtDelete} : Plain(h)
  BY QueryIsPlain, CommandIsPlain
     DEF CheckLists, ErrorSets, DebtSummary, DebtList, DebtCreate, DebtGet, DebtRepay,
         DebtRepayments, DebtComplete, DebtDelete

LEMMA GroupHandlers ==
  \A h \in {GroupCreate, GroupList, GroupDelete, GroupInvite, GroupAction, MemberList, MemberGet,
            MemberEdit, MemberRemove, BalanceAdjust, BalanceHistory, LocationList, LocationCreate,
            LocationDelete, CustomerList} : Plain(h)
  BY QueryIsPlain, CommandIsPlain
     DEF CheckLists, ErrorSets, GroupCreate, GroupList, GroupDelete, GroupInvite, GroupAction,
         MemberList, MemberGet, MemberEdit, MemberRemove, BalanceAdjust, BalanceHistory,
         LocationList, LocationCreate, LocationDelete, CustomerList

LEMMA OrderHandlers ==
  \A h \in {OrderCreate, OrderList, OrderGet, OrderEdit, OrderConfirm, OrderEvents, OrderCancel,
            OrderRespond} : Plain(h)
  BY QueryIsPlain, CommandIsPlain
     DEF CheckLists, ErrorSets, OrderCreate, OrderList, OrderGet, OrderEdit, OrderConfirm,
         OrderEvents, OrderCancel, OrderRespond

AuthRoutes == {Register, SendOTP, Login, Refresh, VerifyPassword, ResetPassword, CurrentUser,
               UpdateCurrentUser, ChangeEmail, ChangeLogin, EndLogin, Lookup, Notifications}

LEMMA PrivateIsPlain ==
  ASSUME NEW r \in DOMAIN Private
  PROVE  Plain(Private[r])
<1> DEFINE Handlers ==
  {CurrentUser, UpdateCurrentUser, ChangeEmail, ChangeLogin, EndLogin, Lookup, Notifications}
  \cup {DebtSummary, DebtList, DebtCreate, DebtGet, DebtRepay, DebtRepayments, DebtComplete,
        DebtDelete}
  \cup {GroupCreate, GroupList, GroupDelete, GroupInvite, GroupAction, MemberList, MemberGet,
        MemberEdit, MemberRemove, BalanceAdjust, BalanceHistory, LocationList, LocationCreate,
        LocationDelete, CustomerList}
  \cup {OrderCreate, OrderList, OrderGet, OrderEdit, OrderConfirm, OrderEvents, OrderCancel,
        OrderRespond}
<1>1. Private[r] \in Handlers
  BY DEF Private
<1>2. \A h \in Handlers : Plain(h)
  BY AuthHandlers, DebtHandlers, GroupHandlers, OrderHandlers
<1> HIDE DEF Handlers
<1> QED
  BY <1>1, <1>2

LEMMA PublicIsPlain ==
  ASSUME NEW r \in DOMAIN Public, r # "check"
  PROVE  Plain(Public[r])
<1>1. Public[r] \in {Register, SendOTP, Login, Refresh, VerifyPassword, ResetPassword}
  BY DEF Public
<1> QED
  BY <1>1, AuthHandlers

LEMMA RouteIsPrivateOrPublic ==
  ASSUME NEW r \in DOMAIN Routes
  PROVE  \/ r \in DOMAIN Private /\ r \notin DOMAIN Public /\ Routes[r] = Private[r]
         \/ r \in DOMAIN Public /\ r \notin DOMAIN Private /\ Routes[r] = Public[r]
  BY DEF Routes, Private, Public

LEMMA CheckRoute ==
  /\ "check" \in DOMAIN Public /\ "check" \notin DOMAIN Private
  /\ Routes["check"] = Query(<<"query", "recall">>, {}, {"users"})
  BY DEF Routes, Private, Public, CheckUsername

LEMMA RouteIsPlain ==
  ASSUME NEW r \in DOMAIN Routes, r # "check"
  PROVE  Plain(Routes[r])
  BY RouteIsPrivateOrPublic, PrivateIsPlain, PublicIsPlain

LEMMA ErrorsKnown ==
  ASSUME NEW errors \in ErrorSets
  PROVE  errors \cup Unexpected \subseteq Errors
<1>1. Unexpected \subseteq Errors
  BY DEF Errors, Unexpected
<1>2. Invalid \subseteq Errors /\ NotFound \subseteq Errors
  BY DEF Errors, Invalid, NotFound
<1>3. OrderErrors \subseteq Errors
  BY <1>2 DEF OrderErrors, Errors
<1>4. GroupErrors \subseteq Errors
  BY <1>3 DEF GroupErrors, Errors
<1>5. DebtErrors \subseteq Errors
  BY <1>2 DEF DebtErrors, Errors
<1>6. CodeErrors \subseteq Errors
  BY DEF CodeErrors, Errors
<1>7. AuthErrors \subseteq Errors
  BY <1>2, <1>6 DEF AuthErrors, ProfileErrors, Errors
<1> QED
  BY <1>1, <1>2, <1>3, <1>4, <1>5, <1>7 DEF ErrorSets

(* A list of checks is a sequence of plain ones. *)
LEMMA ListsAreSequences ==
  ASSUME NEW s \in CheckLists
  PROVE  s \in Seq(PlainChecks)
<1>1. \A a, b, c, d, e \in PlainChecks :
        /\ <<a>> \in Seq(PlainChecks)
        /\ <<a, b>> \in Seq(PlainChecks)
        /\ <<a, b, c>> \in Seq(PlainChecks)
        /\ <<a, b, c, d>> \in Seq(PlainChecks)
        /\ <<a, b, c, d, e>> \in Seq(PlainChecks)
  OBVIOUS
<1>2. {"user", "purpose", "id", "page", "query", "input", "body"} \subseteq PlainChecks
  BY DEF PlainChecks
<1>3. /\ <<"body">> \in Seq(PlainChecks)
      /\ <<"user">> \in Seq(PlainChecks)
      /\ <<"query">> \in Seq(PlainChecks)
  BY <1>1, <1>2
<1>4. /\ <<"body", "purpose">> \in Seq(PlainChecks)
      /\ <<"user", "body">> \in Seq(PlainChecks)
      /\ <<"user", "page">> \in Seq(PlainChecks)
      /\ <<"user", "id">> \in Seq(PlainChecks)
  BY <1>1, <1>2
<1>5. /\ <<"user", "id", "body">> \in Seq(PlainChecks)
      /\ <<"user", "id", "page">> \in Seq(PlainChecks)
      /\ <<"user", "id", "id">> \in Seq(PlainChecks)
  BY <1>1, <1>2
<1>6. /\ <<"user", "id", "body", "input">> \in Seq(PlainChecks)
      /\ <<"user", "id", "id", "body">> \in Seq(PlainChecks)
      /\ <<"user", "id", "id", "page">> \in Seq(PlainChecks)
      /\ <<"user", "id", "id", "body", "input">> \in Seq(PlainChecks)
  BY <1>1, <1>2
<1>7. \A t \in CheckLists : t \in Seq(PlainChecks)
  BY <1>3, <1>4, <1>5, <1>6 DEF CheckLists
<1> QED
  BY <1>7

Checks == PlainChecks \cup {"recall"}

LEMMA RouteFacts ==
  ASSUME NEW r \in DOMAIN Routes
  PROVE  /\ Routes[r].get => Routes[r].writes = {}
         /\ Routes[r].status \in {200, 201}
         /\ Routes[r].errors \subseteq Errors
         /\ Routes[r].checks \in Seq(Checks)
         /\ "recall" \in ToSet(Routes[r].checks) => r = "check"
<1>1. CASE r = "check"
  <2>1. /\ Routes[r].writes = {}
        /\ Routes[r].status = 200
        /\ Routes[r].errors = {} \cup Unexpected
        /\ Routes[r].checks = <<"query", "recall">>
    BY <1>1, CheckRoute DEF Query
  <2>2. {} \cup Unexpected \subseteq Errors
    BY ErrorsKnown DEF ErrorSets
  <2>3. <<"query", "recall">> \in Seq(Checks)
    <3>1. "query" \in Checks /\ "recall" \in Checks
      BY DEF Checks, PlainChecks
    <3> QED
      BY <3>1
  <2> QED
    BY <1>1, <2>1, <2>2, <2>3
<1>2. CASE r # "check"
  <2>1. Plain(Routes[r])
    BY <1>2, RouteIsPlain
  <2>2. Routes[r].checks \in Seq(PlainChecks)
    BY <2>1, ListsAreSequences DEF Plain
  <2>3. ToSet(Routes[r].checks) \subseteq PlainChecks
    BY <2>2, ToSetOfSeq
  <2>4. "recall" \notin PlainChecks
    BY DEF PlainChecks
  <2>5. Routes[r].checks \in Seq(Checks)
    BY <2>2 DEF Checks
  <2>6. Routes[r].errors \subseteq Errors
    BY <2>1, ErrorsKnown DEF Plain
  <2> QED
    BY <2>1, <2>3, <2>4, <2>5, <2>6 DEF Plain
<1> QED
  BY <1>1, <1>2

(* A command that writes a table is registered with Invalidate. *)
LEMMA WritersInvalidate ==
  ASSUME NEW r \in DOMAIN Routes, Routes[r].writes # {}
  PROVE  r \in Invalidating
<1>1. ~Routes[r].get
  BY RouteFacts
<1>2. CASE r \in DOMAIN Private /\ Routes[r] = Private[r]
  <2>1. r # "logout"
    BY <1>2 DEF Private, EndLogin, Command
  <2> QED
    BY <1>1, <1>2, <2>1 DEF Invalidating
<1>3. CASE r \in DOMAIN Public /\ Routes[r] = Public[r]
  <2>1. r \notin {"send", "refresh", "verify", "check"}
    BY <1>3 DEF Public, SendOTP, Refresh, VerifyPassword, CheckUsername, Command, Query
  <2>2. r \in {"register", "send", "check", "login", "refresh", "verify", "reset"}
    BY <1>3 DEF Public
  <2>3. r \in {"register", "login", "reset"}
    BY <2>1, <2>2
  <2> QED
    BY <2>3 DEF Invalidating
<1> QED
  BY <1>2, <1>3, RouteIsPrivateOrPublic

LEMMA BeforeFacts ==
  ASSUME NEW r \in DOMAIN Routes
  PROVE  /\ Before(r) \in Seq({"cache", "token", "limit", "session"})
         /\ r \in DOMAIN Private => "token" \in ToSet(Before(r))
<1> DEFINE S == {"cache", "token", "limit", "session"}
<1>1. "cache" \in S /\ "token" \in S /\ "limit" \in S /\ "session" \in S
  OBVIOUS
<1> HIDE DEF S
<1>2. /\ <<"cache", "token", "cache">> \in Seq(S)
      /\ <<"cache", "limit", "session">> \in Seq(S)
      /\ <<"cache", "limit">> \in Seq(S)
      /\ <<"cache", "limit", "limit">> \in Seq(S)
      /\ <<"cache">> \in Seq(S)
  BY <1>1
<1>3. "token" \in ToSet(<<"cache", "token", "cache">>)
  BY DEF ToSet
<1>4. CASE r \in DOMAIN Private
  <2>1. r \notin {"send", "check", "login"}
    BY <1>4 DEF Private
  <2>2. Before(r) = <<"cache", "token", "cache">>
    BY <1>4, <2>1 DEF Before
  <2> QED
    BY <1>2, <1>3, <2>2 DEF S
<1>5. CASE r \notin DOMAIN Private
  <2>1. CASE r = "send"
    <3>1. Before(r) = <<"cache", "limit", "session">>
      BY <1>5, <2>1 DEF Before
    <3> QED
      BY <3>1, <1>2, <1>5 DEF S
  <2>2. CASE r = "check"
    <3>1. Before(r) = <<"cache", "limit">>
      BY <1>5, <2>2 DEF Before
    <3> QED
      BY <3>1, <1>2, <1>5 DEF S
  <2>3. CASE r = "login"
    <3>1. Before(r) = <<"cache", "limit", "limit">>
      BY <1>5, <2>3 DEF Before
    <3> QED
      BY <3>1, <1>2, <1>5 DEF S
  <2>4. CASE r \notin {"send", "check", "login"}
    <3>1. Before(r) = <<"cache">>
      BY <1>5, <2>4 DEF Before
    <3> QED
      BY <3>1, <1>2, <1>5 DEF S
  <2> QED
    BY <2>1, <2>2, <2>3, <2>4
<1> QED
  BY <1>4, <1>5

LEMMA ChainFacts ==
  ASSUME NEW r \in DOMAIN Routes
  PROVE  /\ Open(Chain(r))
         /\ "load" \notin ToSet(Chain(r))
         /\ r \in DOMAIN Private => "token" \in ToSet(Chain(r))
         /\ "recall" \in ToSet(Chain(r)) => r = "check"
<1> DEFINE checks == Routes[r].checks
           S == {"cache", "token", "limit", "session"}
<1>1. /\ Before(r) \in Seq(S)
      /\ r \in DOMAIN Private => "token" \in ToSet(Before(r))
  BY BeforeFacts
<1>2. checks \in Seq(Checks) /\ ("recall" \in ToSet(checks) => r = "check")
  BY RouteFacts
<1>4. Chain(r) = (Before(r) \o checks) \o <<"serve">>
  BY DEF Chain
<1>10. S \subseteq BeforeSteps /\ Checks \subseteq BeforeSteps /\ "serve" \in BeforeSteps
  BY DEF BeforeSteps, Checks, PlainChecks
<1>11. {"load", "recall", "serve"} \cap S = {} /\ {"load", "serve"} \cap Checks = {}
  BY DEF Checks, PlainChecks
<1> HIDE DEF checks, S
<1>5. Before(r) \in Seq(BeforeSteps) /\ checks \in Seq(BeforeSteps)
  BY <1>1, <1>2, <1>10
<1>6. /\ Before(r) \o checks \in Seq(BeforeSteps)
      /\ ToSet(Before(r) \o checks) = ToSet(Before(r)) \cup ToSet(checks)
  BY <1>5, ToSetOfConcat
<1>8. ToSet(Before(r)) \subseteq S /\ ToSet(checks) \subseteq Checks
  BY <1>1, <1>2, ToSetOfSeq
<1>7. /\ Open(Chain(r))
      /\ ToSet(Chain(r)) = (ToSet(Before(r)) \cup ToSet(checks)) \cup {"serve"}
  <2> DEFINE front == Before(r) \o checks
  <2>1. /\ front \in Seq(BeforeSteps) /\ Chain(r) = front \o <<"serve">>
        /\ "serve" \notin ToSet(front)
    BY <1>4, <1>6, <1>8, <1>11
  <2> HIDE DEF front
  <2>2. /\ EndsIn(front \o <<"serve">>, BeforeSteps, "serve")
        /\ ToSet(front \o <<"serve">>) = ToSet(front) \cup {"serve"}
    BY <1>10, <2>1, EndsInAdded, Zenon
  <2>3. Open(Chain(r)) /\ ToSet(Chain(r)) = ToSet(front) \cup {"serve"}
    BY <2>1, <2>2 DEF Open
  <2> QED
    BY <1>6, <2>3 DEF front
<1> QED
  BY <1>1, <1>2, <1>7, <1>8, <1>11

LEMMA AfterFacts ==
  ASSUME NEW r \in DOMAIN Routes
  PROVE  /\ After(r) \in Seq(AfterSteps)
         /\ "store" \notin ToSet(After(r)) /\ "end" \notin ToSet(After(r))
         /\ Routes[r].writes # {} => "invalidate" \in ToSet(After(r))
<1> DEFINE forget == IF r \in {"register", "patch_me"} THEN <<"forget">> ELSE <<>>
           invalidate == IF r \in Invalidating THEN <<"invalidate">> ELSE <<>>
<1>1. "forget" \in AfterSteps /\ "invalidate" \in AfterSteps
  BY DEF AfterSteps
<1>2. forget \in Seq(AfterSteps) /\ ToSet(forget) \subseteq {"forget"}
  BY <1>1, ToSetOfOne, ToSetOfNone
<1>3. /\ invalidate \in Seq(AfterSteps)
      /\ ToSet(invalidate) \subseteq {"invalidate"}
      /\ r \in Invalidating => ToSet(invalidate) = {"invalidate"}
  BY <1>1, ToSetOfOne, ToSetOfNone
<1>4. After(r) = forget \o invalidate
  BY DEF After
<1> HIDE DEF forget, invalidate
<1>5. After(r) \in Seq(AfterSteps) /\ ToSet(After(r)) = ToSet(forget) \cup ToSet(invalidate)
  BY <1>2, <1>3, <1>4, ToSetOfConcat
<1> QED
  BY <1>2, <1>3, <1>5, WritersInvalidate

-----------------------------------------------------------------------------
(* Errors: the first row of a table that the error hits. *)

(* Row k is chosen by the error. *)
Hits(err, rows, k) == rows[k][1] \cap err # {}

MatchFrom(err, rows, otherwise, k) ==
  LET hits == {i \in k..Len(rows) : Hits(err, rows, i)}
  IN IF hits = {} THEN otherwise ELSE rows[Min(hits)][2]

LEMMA MinOfSome ==
  ASSUME NEW S \in SUBSET Nat, S # {}
  PROVE  Min(S) \in S /\ \A i \in S : Min(S) <= i
<1>1. \E m \in S : \A i \in S : ~(<<i, m>> \in OpToRel(<, Nat))
  BY NatLessThanWellFounded, WFMin
<1>3. \A i, m \in Nat : i < m => <<i, m>> \in OpToRel(<, Nat)
  BY DEF OpToRel
<1>2. \E m \in S : \A i \in S : m <= i
  <2>1. PICK m \in S : \A i \in S : ~(<<i, m>> \in OpToRel(<, Nat))
    BY <1>1
  <2>2. \A i \in S : ~(i < m)
    BY <1>3, <2>1
  <2> QED
    BY <2>2
<1> QED
  BY <1>2 DEF Min

LEMMA MatchFromFirst ==
  ASSUME NEW err, NEW rows, NEW otherwise, Len(rows) \in Nat
  PROVE  FirstMatch(err, rows, otherwise) = MatchFrom(err, rows, otherwise, 1)
<1> DEFINE hits == {i \in 1..Len(rows) : Hits(err, rows, i)}
<1>1. SelectInSeq(rows, LAMBDA row : row[1] \cap err # {}) = IF hits # {} THEN Min(hits) ELSE 0
  BY DEF SelectInSeq, Hits
<1>2. ASSUME hits # {}
      PROVE  Min(hits) # 0
  <2>1. hits \in SUBSET Nat /\ 0 \notin hits
    OBVIOUS
  <2> HIDE DEF hits
  <2> QED
    BY <1>2, <2>1, MinOfSome
<1> HIDE DEF hits
<1>3. FirstMatch(err, rows, otherwise) = IF hits # {} THEN rows[Min(hits)][2] ELSE otherwise
  BY <1>1, <1>2 DEF FirstMatch
<1> QED
  BY <1>3 DEF MatchFrom, hits

LEMMA MatchFromNext ==
  ASSUME NEW err, NEW rows, NEW otherwise, Len(rows) \in Nat, NEW k \in 1..Len(rows)
  PROVE  MatchFrom(err, rows, otherwise, k) =
           IF Hits(err, rows, k) THEN rows[k][2] ELSE MatchFrom(err, rows, otherwise, k + 1)
<1> DEFINE hits(n) == {i \in n..Len(rows) : Hits(err, rows, i)}
<1>1. CASE Hits(err, rows, k)
  <2>1. k \in hits(k) /\ \A i \in hits(k) : k <= i /\ i \in Int
    BY <1>1
  <2>2. Min(hits(k)) = k
    BY <2>1 DEF Min
  <2> QED
    BY <1>1, <2>1, <2>2 DEF MatchFrom
<1>2. CASE ~Hits(err, rows, k)
  <2>1. hits(k) = hits(k + 1)
    BY <1>2
  <2> QED
    BY <1>2, <2>1 DEF MatchFrom
<1> QED
  BY <1>1, <1>2

LEMMA MatchFromLast ==
  ASSUME NEW err, NEW rows, NEW otherwise, NEW k, Len(rows) \in Nat, k = Len(rows) + 1
  PROVE  MatchFrom(err, rows, otherwise, k) = otherwise
  BY DEF MatchFrom

(* The tables, row by row. *)
LEMMA KindIs ==
  ASSUME NEW err, NEW otherwise
  PROVE  FirstMatch(err, KindRows, otherwise) =
    IF "EmailUnavailable" \in err THEN {} ELSE
    IF "noRows" \in err THEN {"RecordNotFound"} ELSE
    IF "deadline" \in err THEN {"Timeout"} ELSE
    IF "pg23505" \in err THEN {"DuplicatedKey"} ELSE
    IF "pg23503" \in err THEN {"ForeignKeyViolated"} ELSE
    IF "pg23514" \in err THEN {"CheckConstraintViolated"} ELSE
    IF "pgValue" \in err THEN {"InvalidData"} ELSE
    IF "http422" \in err THEN {"Unprocessable"} ELSE
    otherwise
<1> DEFINE m(k) == MatchFrom(err, KindRows, otherwise, k)
           hit(k) == Hits(err, KindRows, k)
           row(k) == KindRows[k][2]
<1>1. Len(KindRows) = 8
  BY DEF KindRows
<1>2. Len(KindRows) \in Nat /\ 9 = Len(KindRows) + 1 /\ 1..Len(KindRows) = 1..8
  BY <1>1
<1>3. FirstMatch(err, KindRows, otherwise) = m(1)
  BY <1>2, MatchFromFirst
<1>4. m(9) = otherwise
  BY <1>2, MatchFromLast, Zenon
<1>5. ASSUME NEW k \in 1..8
      PROVE  m(k) = IF hit(k) THEN row(k) ELSE m(k + 1)
  <2>1. k \in 1..Len(KindRows)
    BY <1>2
  <2> QED
    BY <1>2, <2>1, MatchFromNext, Zenon
<1>6. /\ hit(1) <=> "EmailUnavailable" \in err
      /\ hit(2) <=> "noRows" \in err
      /\ hit(3) <=> "deadline" \in err
      /\ hit(4) <=> "pg23505" \in err
      /\ hit(5) <=> "pg23503" \in err
      /\ hit(6) <=> "pg23514" \in err
      /\ hit(7) <=> "pgValue" \in err
      /\ hit(8) <=> "http422" \in err
  BY DEF Hits, KindRows
<1>7. /\ row(1) = {}
      /\ row(2) = {"RecordNotFound"}
      /\ row(3) = {"Timeout"}
      /\ row(4) = {"DuplicatedKey"}
      /\ row(5) = {"ForeignKeyViolated"}
      /\ row(6) = {"CheckConstraintViolated"}
      /\ row(7) = {"InvalidData"}
      /\ row(8) = {"Unprocessable"}
  BY DEF KindRows
<1> HIDE DEF m, hit, row
<1>8. /\ m(1) = IF hit(1) THEN row(1) ELSE m(2)
      /\ m(2) = IF hit(2) THEN row(2) ELSE m(3)
      /\ m(3) = IF hit(3) THEN row(3) ELSE m(4)
      /\ m(4) = IF hit(4) THEN row(4) ELSE m(5)
      /\ m(5) = IF hit(5) THEN row(5) ELSE m(6)
      /\ m(6) = IF hit(6) THEN row(6) ELSE m(7)
      /\ m(7) = IF hit(7) THEN row(7) ELSE m(8)
      /\ m(8) = IF hit(8) THEN row(8) ELSE m(9)
  BY <1>5
<1> QED
  BY <1>3, <1>4, <1>6, <1>7, <1>8

LEMMA StatusIs ==
  ASSUME NEW err, NEW otherwise
  PROVE  FirstMatch(err, StatusRows, otherwise) =
    IF "http422" \in err THEN 422 ELSE
    IF "InternalServer" \in err THEN 500 ELSE
    IF "Timeout" \in err THEN 504 ELSE
    IF "EmailUnavailable" \in err THEN 503 ELSE
    IF ("Unauthorized" \in err \/ "InvalidCredentials" \in err \/
        "InvalidResetToken" \in err \/ "SessionRevoked" \in err) THEN 401 ELSE
    IF "Forbidden" \in err THEN 403 ELSE
    IF "RecordNotFound" \in err THEN 404 ELSE
    IF ("DuplicatedKey" \in err \/ "Conflict" \in err \/
        "AlreadyExists" \in err \/ "RegistrationIdentityExists" \in err) THEN 409 ELSE
    IF ("ForeignKeyViolated" \in err \/ "CheckConstraintViolated" \in err) THEN 400 ELSE
    IF ("InvalidData" \in err \/ "InvalidID" \in err \/ "InvalidFormat" \in err) THEN 400 ELSE
    IF "Unprocessable" \in err THEN 422 ELSE
    IF "LimitExceeded" \in err THEN 429 ELSE
    IF "InvalidOTP" \in err THEN 400 ELSE
    otherwise
<1> DEFINE m(k) == MatchFrom(err, StatusRows, otherwise, k)
           hit(k) == Hits(err, StatusRows, k)
           row(k) == StatusRows[k][2]
<1>1. Len(StatusRows) = 13
  BY DEF StatusRows
<1>2. Len(StatusRows) \in Nat /\ 14 = Len(StatusRows) + 1 /\ 1..Len(StatusRows) = 1..13
  BY <1>1
<1>3. FirstMatch(err, StatusRows, otherwise) = m(1)
  BY <1>2, MatchFromFirst
<1>4. m(14) = otherwise
  BY <1>2, MatchFromLast, Zenon
<1>5. ASSUME NEW k \in 1..13
      PROVE  m(k) = IF hit(k) THEN row(k) ELSE m(k + 1)
  <2>1. k \in 1..Len(StatusRows)
    BY <1>2
  <2> QED
    BY <1>2, <2>1, MatchFromNext, Zenon
<1>6. /\ hit(1) <=> "http422" \in err
      /\ hit(2) <=> "InternalServer" \in err
      /\ hit(3) <=> "Timeout" \in err
      /\ hit(4) <=> "EmailUnavailable" \in err
      /\ hit(5) <=> \/ "Unauthorized" \in err \/ "InvalidCredentials" \in err
                    \/ "InvalidResetToken" \in err \/ "SessionRevoked" \in err
      /\ hit(6) <=> "Forbidden" \in err
      /\ hit(7) <=> "RecordNotFound" \in err
      /\ hit(8) <=> \/ "DuplicatedKey" \in err \/ "Conflict" \in err
                    \/ "AlreadyExists" \in err \/ "RegistrationIdentityExists" \in err
      /\ hit(9) <=> "ForeignKeyViolated" \in err \/ "CheckConstraintViolated" \in err
      /\ hit(10) <=> "InvalidData" \in err \/ "InvalidID" \in err \/ "InvalidFormat" \in err
      /\ hit(11) <=> "Unprocessable" \in err
      /\ hit(12) <=> "LimitExceeded" \in err
      /\ hit(13) <=> "InvalidOTP" \in err
  BY DEF Hits, StatusRows
<1>7. /\ row(1) = 422
      /\ row(2) = 500
      /\ row(3) = 504
      /\ row(4) = 503
      /\ row(5) = 401
      /\ row(6) = 403
      /\ row(7) = 404
      /\ row(8) = 409
      /\ row(9) = 400
      /\ row(10) = 400
      /\ row(11) = 422
      /\ row(12) = 429
      /\ row(13) = 400
  BY DEF StatusRows
<1> HIDE DEF m, hit, row
<1>8. /\ m(1) = IF hit(1) THEN row(1) ELSE m(2)
      /\ m(2) = IF hit(2) THEN row(2) ELSE m(3)
      /\ m(3) = IF hit(3) THEN row(3) ELSE m(4)
      /\ m(4) = IF hit(4) THEN row(4) ELSE m(5)
      /\ m(5) = IF hit(5) THEN row(5) ELSE m(6)
      /\ m(6) = IF hit(6) THEN row(6) ELSE m(7)
      /\ m(7) = IF hit(7) THEN row(7) ELSE m(8)
      /\ m(8) = IF hit(8) THEN row(8) ELSE m(9)
      /\ m(9) = IF hit(9) THEN row(9) ELSE m(10)
      /\ m(10) = IF hit(10) THEN row(10) ELSE m(11)
      /\ m(11) = IF hit(11) THEN row(11) ELSE m(12)
      /\ m(12) = IF hit(12) THEN row(12) ELSE m(13)
      /\ m(13) = IF hit(13) THEN row(13) ELSE m(14)
  BY <1>5
<1> QED
  BY <1>3, <1>4, <1>6, <1>7, <1>8

LEMMA CodeIs ==
  ASSUME NEW err, NEW otherwise
  PROVE  FirstMatch(err, CodeRows, otherwise) =
    IF ("Unauthorized" \in err \/ "InvalidCredentials" \in err \/
        "InvalidResetToken" \in err \/ "SessionRevoked" \in err) THEN 1401 ELSE
    IF "Forbidden" \in err THEN 1403 ELSE
    IF "RecordNotFound" \in err THEN 1404 ELSE
    IF ("AlreadyExists" \in err \/ "RegistrationIdentityExists" \in err \/
        "Conflict" \in err \/ "DuplicatedKey" \in err) THEN 1409 ELSE
    IF "LimitExceeded" \in err THEN 1429 ELSE
    IF "InvalidOTP" \in err THEN 1400 ELSE
    IF "EmailUnavailable" \in err THEN 1503 ELSE
    IF ("InvalidData" \in err \/ "InvalidFormat" \in err) THEN 1400 ELSE
    otherwise
<1> DEFINE m(k) == MatchFrom(err, CodeRows, otherwise, k)
           hit(k) == Hits(err, CodeRows, k)
           row(k) == CodeRows[k][2]
<1>1. Len(CodeRows) = 8
  BY DEF CodeRows
<1>2. Len(CodeRows) \in Nat /\ 9 = Len(CodeRows) + 1 /\ 1..Len(CodeRows) = 1..8
  BY <1>1
<1>3. FirstMatch(err, CodeRows, otherwise) = m(1)
  BY <1>2, MatchFromFirst
<1>4. m(9) = otherwise
  BY <1>2, MatchFromLast, Zenon
<1>5. ASSUME NEW k \in 1..8
      PROVE  m(k) = IF hit(k) THEN row(k) ELSE m(k + 1)
  <2>1. k \in 1..Len(CodeRows)
    BY <1>2
  <2> QED
    BY <1>2, <2>1, MatchFromNext, Zenon
<1>6. /\ hit(1) <=> \/ "Unauthorized" \in err \/ "InvalidCredentials" \in err
                    \/ "InvalidResetToken" \in err \/ "SessionRevoked" \in err
      /\ hit(2) <=> "Forbidden" \in err
      /\ hit(3) <=> "RecordNotFound" \in err
      /\ hit(4) <=> \/ "AlreadyExists" \in err \/ "RegistrationIdentityExists" \in err
                    \/ "Conflict" \in err \/ "DuplicatedKey" \in err
      /\ hit(5) <=> "LimitExceeded" \in err
      /\ hit(6) <=> "InvalidOTP" \in err
      /\ hit(7) <=> "EmailUnavailable" \in err
      /\ hit(8) <=> "InvalidData" \in err \/ "InvalidFormat" \in err
  BY DEF Hits, CodeRows
<1>7. /\ row(1) = 1401
      /\ row(2) = 1403
      /\ row(3) = 1404
      /\ row(4) = 1409
      /\ row(5) = 1429
      /\ row(6) = 1400
      /\ row(7) = 1503
      /\ row(8) = 1400
  BY DEF CodeRows
<1> HIDE DEF m, hit, row
<1>8. /\ m(1) = IF hit(1) THEN row(1) ELSE m(2)
      /\ m(2) = IF hit(2) THEN row(2) ELSE m(3)
      /\ m(3) = IF hit(3) THEN row(3) ELSE m(4)
      /\ m(4) = IF hit(4) THEN row(4) ELSE m(5)
      /\ m(5) = IF hit(5) THEN row(5) ELSE m(6)
      /\ m(6) = IF hit(6) THEN row(6) ELSE m(7)
      /\ m(7) = IF hit(7) THEN row(7) ELSE m(8)
      /\ m(8) = IF hit(8) THEN row(8) ELSE m(9)
  BY <1>5
<1> QED
  BY <1>3, <1>4, <1>6, <1>7, <1>8

LEMMA SlugIs ==
  ASSUME NEW err, NEW otherwise
  PROVE  FirstMatch(err, SlugRows, otherwise) =
    IF "Unauthorized" \in err THEN "unauthorized" ELSE
    IF "InvalidCredentials" \in err THEN "invalid_credentials" ELSE
    IF "InvalidResetToken" \in err THEN "invalid_or_expired_reset_token" ELSE
    IF "SessionRevoked" \in err THEN "session_revoked" ELSE
    IF "Forbidden" \in err THEN "forbidden" ELSE
    IF "RecordNotFound" \in err THEN "not_found" ELSE
    IF "RegistrationIdentityExists" \in err THEN "email_or_username_exists" ELSE
    IF ("AlreadyExists" \in err \/ "Conflict" \in err \/ "DuplicatedKey" \in err)
    THEN "conflict" ELSE
    IF "LimitExceeded" \in err THEN "rate_limit_exceeded" ELSE
    IF "InvalidOTP" \in err THEN "invalid_or_expired_otp" ELSE
    IF "EmailUnavailable" \in err THEN "email_delivery_unavailable" ELSE
    IF ("InvalidData" \in err \/ "InvalidFormat" \in err) THEN "invalid_data" ELSE
    IF "InvalidID" \in err THEN "invalid_id" ELSE
    IF "ForeignKeyViolated" \in err THEN "foreign_key_violation" ELSE
    IF "CheckConstraintViolated" \in err THEN "check_constraint_violation" ELSE
    IF "Timeout" \in err THEN "timeout" ELSE
    IF "Unprocessable" \in err THEN "unprocessable_entity" ELSE
    otherwise
<1> DEFINE m(k) == MatchFrom(err, SlugRows, otherwise, k)
           hit(k) == Hits(err, SlugRows, k)
           row(k) == SlugRows[k][2]
<1>1. Len(SlugRows) = 17
  BY DEF SlugRows
<1>2. Len(SlugRows) \in Nat /\ 18 = Len(SlugRows) + 1 /\ 1..Len(SlugRows) = 1..17
  BY <1>1
<1>3. FirstMatch(err, SlugRows, otherwise) = m(1)
  BY <1>2, MatchFromFirst
<1>4. m(18) = otherwise
  BY <1>2, MatchFromLast, Zenon
<1>5. ASSUME NEW k \in 1..17
      PROVE  m(k) = IF hit(k) THEN row(k) ELSE m(k + 1)
  <2>1. k \in 1..Len(SlugRows)
    BY <1>2
  <2> QED
    BY <1>2, <2>1, MatchFromNext, Zenon
<1>6. /\ hit(1) <=> "Unauthorized" \in err
      /\ hit(2) <=> "InvalidCredentials" \in err
      /\ hit(3) <=> "InvalidResetToken" \in err
      /\ hit(4) <=> "SessionRevoked" \in err
      /\ hit(5) <=> "Forbidden" \in err
      /\ hit(6) <=> "RecordNotFound" \in err
      /\ hit(7) <=> "RegistrationIdentityExists" \in err
      /\ hit(8) <=> "AlreadyExists" \in err \/ "Conflict" \in err \/ "DuplicatedKey" \in err
      /\ hit(9) <=> "LimitExceeded" \in err
      /\ hit(10) <=> "InvalidOTP" \in err
      /\ hit(11) <=> "EmailUnavailable" \in err
      /\ hit(12) <=> "InvalidData" \in err \/ "InvalidFormat" \in err
      /\ hit(13) <=> "InvalidID" \in err
      /\ hit(14) <=> "ForeignKeyViolated" \in err
      /\ hit(15) <=> "CheckConstraintViolated" \in err
      /\ hit(16) <=> "Timeout" \in err
      /\ hit(17) <=> "Unprocessable" \in err
  BY DEF Hits, SlugRows
<1>7. /\ row(1) = "unauthorized"
      /\ row(2) = "invalid_credentials"
      /\ row(3) = "invalid_or_expired_reset_token"
      /\ row(4) = "session_revoked"
      /\ row(5) = "forbidden"
      /\ row(6) = "not_found"
      /\ row(7) = "email_or_username_exists"
      /\ row(8) = "conflict"
      /\ row(9) = "rate_limit_exceeded"
      /\ row(10) = "invalid_or_expired_otp"
      /\ row(11) = "email_delivery_unavailable"
      /\ row(12) = "invalid_data"
      /\ row(13) = "invalid_id"
      /\ row(14) = "foreign_key_violation"
      /\ row(15) = "check_constraint_violation"
      /\ row(16) = "timeout"
      /\ row(17) = "unprocessable_entity"
  BY DEF SlugRows
<1> HIDE DEF m, hit, row
<1>8. /\ m(1) = IF hit(1) THEN row(1) ELSE m(2)
      /\ m(2) = IF hit(2) THEN row(2) ELSE m(3)
      /\ m(3) = IF hit(3) THEN row(3) ELSE m(4)
      /\ m(4) = IF hit(4) THEN row(4) ELSE m(5)
      /\ m(5) = IF hit(5) THEN row(5) ELSE m(6)
      /\ m(6) = IF hit(6) THEN row(6) ELSE m(7)
      /\ m(7) = IF hit(7) THEN row(7) ELSE m(8)
      /\ m(8) = IF hit(8) THEN row(8) ELSE m(9)
      /\ m(9) = IF hit(9) THEN row(9) ELSE m(10)
      /\ m(10) = IF hit(10) THEN row(10) ELSE m(11)
      /\ m(11) = IF hit(11) THEN row(11) ELSE m(12)
      /\ m(12) = IF hit(12) THEN row(12) ELSE m(13)
      /\ m(13) = IF hit(13) THEN row(13) ELSE m(14)
      /\ m(14) = IF hit(14) THEN row(14) ELSE m(15)
      /\ m(15) = IF hit(15) THEN row(15) ELSE m(16)
      /\ m(16) = IF hit(16) THEN row(16) ELSE m(17)
      /\ m(17) = IF hit(17) THEN row(17) ELSE m(18)
  BY <1>5
<1> QED
  BY <1>3, <1>4, <1>6, <1>7, <1>8

(* What an answer tells of an error. *)
Told(err, status, slug) ==
  StatusCode(err) = status /\ Code(err) = 1000 + status /\ Slug(err) = slug

(* Status, code and slug of an error agree. *)
Agrees(err) ==
  /\ StatusCode(err) \in Nat /\ StatusCode(err) >= 400
  /\ Code(err) = 1000 + StatusCode(err)
  /\ \/ <<Slug(err), Code(err), StatusCode(err)>> \in Documented
     \/ Slug(err) \in {"foreign_key_violation", "check_constraint_violation"}

LEMMA ErrorsAgreeButOne ==
  ASSUME NEW err \in Errors \ {{"InvalidData", "http422"}}
  PROVE  Agrees(err)
<1>1. CASE err \in {{"noRows"}, {"RecordNotFound"}, {"RecordNotFound", "reason"}}
  <2>1. Told(err, 404, "not_found")
    BY <1>1, KindIs, StatusIs, CodeIs, SlugIs DEF Told, Normalize, StatusCode, Code, Slug
  <2> QED
    BY <2>1 DEF Told, Agrees, Documented
<1>2. CASE err \in {{"pg23505"}, {"Conflict"}, {"Conflict", "reason"}, {"AlreadyExists"},
                   {"AlreadyExists", "reason"}}
  <2>1. Told(err, 409, "conflict")
    BY <1>2, KindIs, StatusIs, CodeIs, SlugIs DEF Told, Normalize, StatusCode, Code, Slug
  <2> QED
    BY <2>1 DEF Told, Agrees, Documented
<1>3. CASE err \in {{"RegistrationIdentityExists"}, {"RegistrationIdentityExists", "pg23505"}}
  <2>1. Told(err, 409, "email_or_username_exists")
    BY <1>3, KindIs, StatusIs, CodeIs, SlugIs DEF Told, Normalize, StatusCode, Code, Slug
  <2> QED
    BY <2>1 DEF Told, Agrees, Documented
<1>4. CASE err \in {{"pg23503"}}
  <2>1. Told(err, 400, "foreign_key_violation")
    BY <1>4, KindIs, StatusIs, CodeIs, SlugIs DEF Told, Normalize, StatusCode, Code, Slug
  <2> QED
    BY <2>1 DEF Told, Agrees, Documented
<1>5. CASE err \in {{"pg23514"}}
  <2>1. Told(err, 400, "check_constraint_violation")
    BY <1>5, KindIs, StatusIs, CodeIs, SlugIs DEF Told, Normalize, StatusCode, Code, Slug
  <2> QED
    BY <2>1 DEF Told, Agrees, Documented
<1>6. CASE err \in {{"pgValue"}, {"InvalidData"}, {"InvalidData", "reason"},
                   {"InvalidData", "other"}}
  <2>1. Told(err, 400, "invalid_data")
    BY <1>6, KindIs, StatusIs, CodeIs, SlugIs DEF Told, Normalize, StatusCode, Code, Slug
  <2> QED
    BY <2>1 DEF Told, Agrees, Documented
<1>7. CASE err \in {{"other"}}
  <2>1. Told(err, 500, "internal_error")
    BY <1>7, KindIs, StatusIs, CodeIs, SlugIs DEF Told, Normalize, StatusCode, Code, Slug
  <2> QED
    BY <2>1 DEF Told, Agrees, Documented
<1>8. CASE err \in {{"deadline"}, {"Timeout"}}
  <2>1. Told(err, 504, "timeout")
    BY <1>8, KindIs, StatusIs, CodeIs, SlugIs DEF Told, Normalize, StatusCode, Code, Slug
  <2> QED
    BY <2>1 DEF Told, Agrees, Documented
<1>9. CASE err \in {{"InvalidID"}}
  <2>1. Told(err, 400, "invalid_id")
    BY <1>9, KindIs, StatusIs, CodeIs, SlugIs DEF Told, Normalize, StatusCode, Code, Slug
  <2> QED
    BY <2>1 DEF Told, Agrees, Documented
<1>10. CASE err \in {{"InvalidOTP"}}
  <2>1. Told(err, 400, "invalid_or_expired_otp")
    BY <1>10, KindIs, StatusIs, CodeIs, SlugIs DEF Told, Normalize, StatusCode, Code, Slug
  <2> QED
    BY <2>1 DEF Told, Agrees, Documented
<1>11. CASE err \in {{"InvalidResetToken"}}
  <2>1. Told(err, 401, "invalid_or_expired_reset_token")
    BY <1>11, KindIs, StatusIs, CodeIs, SlugIs DEF Told, Normalize, StatusCode, Code, Slug
  <2> QED
    BY <2>1 DEF Told, Agrees, Documented
<1>12. CASE err \in {{"Forbidden"}, {"Forbidden", "reason"}}
  <2>1. Told(err, 403, "forbidden")
    BY <1>12, KindIs, StatusIs, CodeIs, SlugIs DEF Told, Normalize, StatusCode, Code, Slug
  <2> QED
    BY <2>1 DEF Told, Agrees, Documented
<1>13. CASE err \in {{"Unauthorized"}}
  <2>1. Told(err, 401, "unauthorized")
    BY <1>13, KindIs, StatusIs, CodeIs, SlugIs DEF Told, Normalize, StatusCode, Code, Slug
  <2> QED
    BY <2>1 DEF Told, Agrees, Documented
<1>14. CASE err \in {{"SessionRevoked"}}
  <2>1. Told(err, 401, "session_revoked")
    BY <1>14, KindIs, StatusIs, CodeIs, SlugIs DEF Told, Normalize, StatusCode, Code, Slug
  <2> QED
    BY <2>1 DEF Told, Agrees, Documented
<1>15. CASE err \in {{"InvalidCredentials"}, {"InvalidCredentials", "reason"}}
  <2>1. Told(err, 401, "invalid_credentials")
    BY <1>15, KindIs, StatusIs, CodeIs, SlugIs DEF Told, Normalize, StatusCode, Code, Slug
  <2> QED
    BY <2>1 DEF Told, Agrees, Documented
<1>16. CASE err \in {{"LimitExceeded"}, {"LimitExceeded", "reason"}}
  <2>1. Told(err, 429, "rate_limit_exceeded")
    BY <1>16, KindIs, StatusIs, CodeIs, SlugIs DEF Told, Normalize, StatusCode, Code, Slug
  <2> QED
    BY <2>1 DEF Told, Agrees, Documented
<1>17. CASE err \in {{"EmailUnavailable", "other"}, {"EmailUnavailable", "deadline"}}
  <2>1. Told(err, 503, "email_delivery_unavailable")
    BY <1>17, KindIs, StatusIs, CodeIs, SlugIs DEF Told, Normalize, StatusCode, Code, Slug
  <2> QED
    BY <2>1 DEF Told, Agrees, Documented
<1> QED
  BY <1>1, <1>2, <1>3, <1>4, <1>5, <1>6, <1>7, <1>8, <1>9, <1>10, <1>11, <1>12, <1>13,
     <1>14, <1>15, <1>16, <1>17 DEF Errors

LEMMA BadBody ==
  StatusCode({"InvalidData", "http422"}) = 422
<1> DEFINE err == {"InvalidData", "http422"}
<1>1. Normalize(err) = {"InvalidData", "http422", "Unprocessable"}
  BY KindIs DEF Normalize
<1> QED
  BY <1>1, StatusIs DEF StatusCode

LEMMA ErrorFacts ==
  ASSUME NEW err \in Errors
  PROVE  /\ StatusCode(err) \in Nat
         /\ StatusCode(err) >= 400
         /\ "http422" \notin err => Agrees(err)
         /\ "http422" \in err => StatusCode(err) = 422
<1>1. CASE err = {"InvalidData", "http422"}
  BY <1>1, BadBody
<1>2. CASE err # {"InvalidData", "http422"}
  <2>1. "http422" \notin err
    BY <1>2 DEF Errors
  <2>2. Agrees(err)
    BY <1>2, ErrorsAgreeButOne
  <2> QED
    BY <2>1, <2>2 DEF Agrees
<1> QED
  BY <1>1, <1>2

-----------------------------------------------------------------------------
(* The language: a fold that takes the ranges of the header in order.      *)

LEMMA MaxOfSome ==
  ASSUME NEW n \in Nat, NEW S \in SUBSET (1..n), S # {}
  PROVE  Max(S) \in S /\ \A i \in S : i <= Max(S)
<1> DEFINE T == {n - i : i \in S}
<1>0. \A i \in S : n - i \in Nat
  OBVIOUS
<1>1. T \in SUBSET Nat /\ T # {}
  BY <1>0
<1>2. \E m \in T : \A j \in T : m <= j
  <2> HIDE DEF T
  <2> QED
    BY <1>1, MinOfSome
<1>3. PICK k \in S : \A j \in T : n - k <= j
  BY <1>2
<1>4. \A i \in S : k >= i
  <2> SUFFICES ASSUME NEW i \in S PROVE k >= i
    OBVIOUS
  <2>1. n - k <= n - i
    BY <1>3
  <2> QED
    BY <2>1
<1>5. \E x \in S : \A y \in S : x >= y
  BY <1>4
<1>6. Max(S) \in S /\ \A y \in S : Max(S) >= y
  BY <1>5 DEF Max
<1> QED
  BY <1>6

Ranges == [lang : STRING \cup Languages, q : Nat]

NoBest == [lang |-> "en", q |-> 0]

Latest(D) == [s \in SUBSET D |-> Max(s)]

Betters(accept) ==
  [p \in (DOMAIN accept) \X Ranges |-> Better(p[2], accept[p[1]])]

(* The recursive function behind FoldLeft. *)
BestLoop(accept, h) ==
  [s \in SUBSET DOMAIN accept |->
     IF s = {} THEN NoBest ELSE Better(h[s \ {Max(s)}], accept[Max(s)])]

Best(accept) == CHOOSE h : h = BestLoop(accept, h)

LEMMA FoldLeftIsBest ==
  ASSUME NEW accept
  PROVE  FoldLeft(Better, NoBest, accept) = Best(accept)[DOMAIN accept]
  BY DEF FoldLeft, MapThenFoldSet, Best, BestLoop

LEMMA BestExists ==
  ASSUME NEW accept \in Seq(Ranges)
  PROVE  Best(accept) = BestLoop(accept, Best(accept))
<1> DEFINE D == DOMAIN accept
<1>1. Len(accept) \in Nat /\ D = 1..Len(accept) /\ \A i \in D : accept[i] \in Ranges
  OBVIOUS
<1>2. IsFiniteSet(D)
  BY <1>1, FS_Interval
<1>3. Picks(Latest(D), D)
  BY <1>1, MaxOfSome DEF Picks, Latest
<1>4. NoBest \in Ranges
  BY DEF NoBest, Ranges, Languages
<1>5. Betters(accept) \in [D \X Ranges -> Ranges]
  BY <1>1 DEF Betters, Better, Ranges
<1> HIDE DEF D
<1>6. PICK h \in [SUBSET D -> Ranges] : IsFold(h, D, NoBest, Latest(D), Betters(accept))
  BY <1>2, <1>3, <1>4, <1>5, FoldExists, Zenon
<1>7. h = BestLoop(accept, h)
  <2>1. ASSUME NEW s \in SUBSET D
        PROVE  Combined(h, NoBest, Latest(D), Betters(accept), s) =
                 IF s = {} THEN NoBest ELSE Better(h[s \ {Max(s)}], accept[Max(s)])
    <3>1. CASE s = {}
      BY <3>1 DEF Combined
    <3>2. CASE s # {}
      <4>1. Latest(D)[s] = Max(s) /\ Max(s) \in D
        BY <3>2, <1>3 DEF Latest, Picks
      <4>2. h[s \ {Max(s)}] \in Ranges
        OBVIOUS
      <4>3. Betters(accept)[<<Max(s), h[s \ {Max(s)}]>>] = Better(h[s \ {Max(s)}], accept[Max(s)])
        BY <4>1, <4>2 DEF Betters, D, Ranges
      <4> QED
        BY <3>2, <4>1, <4>3 DEF Combined
    <3> QED
      BY <3>1, <3>2
  <2> QED
    BY <1>6, <2>1 DEF IsFold, BestLoop, D
<1> QED
  BY <1>7 DEF Best

LEMMA WiderSeq ==
  ASSUME NEW S, NEW T, S \subseteq T, NEW s \in Seq(S)
  PROVE  s \in Seq(T)
  OBVIOUS

(* What ResolveAcceptLanguage has found in the ranges numbered in S.       *)
Finds(accept, S, best) ==
  LET wanted == {i \in S : accept[i].lang \in Languages /\ accept[i].q > 0}
  IN IF wanted = {} THEN best = NoBest
     ELSE \E i \in wanted :
            /\ best = accept[i]
            /\ \A j \in wanted : \/ accept[i].q > accept[j].q
                                 \/ accept[i].q = accept[j].q /\ i <= j

LEMMA FindsNext ==
  ASSUME NEW accept \in Seq(Ranges), NEW S \in SUBSET DOMAIN accept, NEW m \in DOMAIN accept,
         m \notin S, \A i \in S : i <= m, NEW best, Finds(accept, S, best)
  PROVE  Finds(accept, S \cup {m}, Better(best, accept[m]))
<1> DEFINE wanted(T) == {i \in T : accept[i].lang \in Languages /\ accept[i].q > 0}
           U == S \cup {m}
<1>1. DOMAIN accept \subseteq Nat /\ \A i \in DOMAIN accept : accept[i] \in Ranges
  OBVIOUS
<1>2. \A i \in DOMAIN accept : accept[i].q \in Nat
  BY <1>1 DEF Ranges
<1>3. CASE m \notin wanted(U)
  <2>1. wanted(U) = wanted(S)
    BY <1>3
  <2>2. Better(best, accept[m]) = best
    <3>1. best.q \in Nat
      BY <1>2 DEF Finds, NoBest
    <3> QED
      BY <1>2, <1>3, <3>1 DEF Better
  <2> QED
    BY <2>1, <2>2 DEF Finds
<1>4. CASE m \in wanted(U)
  <2>1. CASE wanted(S) = {}
    <3>1. best = NoBest /\ wanted(U) = {m}
      BY <1>4, <2>1 DEF Finds
    <3>2. Better(best, accept[m]) = accept[m]
      BY <1>4, <3>1 DEF Better, NoBest
    <3> QED
      BY <1>1, <1>4, <3>1, <3>2 DEF Finds
  <2>2. CASE wanted(S) # {}
    <3>1. PICK i \in wanted(S) :
             /\ best = accept[i]
             /\ \A j \in wanted(S) : \/ accept[i].q > accept[j].q
                                     \/ accept[i].q = accept[j].q /\ i <= j
      BY <2>2 DEF Finds
    <3>2. wanted(U) = wanted(S) \cup {m} /\ i \in wanted(U) /\ i <= m
      BY <1>4
    <3>3. CASE accept[m].q > accept[i].q
      <4>1. Better(best, accept[m]) = accept[m]
        BY <1>4, <3>1, <3>3 DEF Better
      <4>2. \A j \in wanted(U) : \/ accept[m].q > accept[j].q
                                 \/ accept[m].q = accept[j].q /\ m <= j
        BY <1>1, <1>2, <3>1, <3>2, <3>3
      <4> QED
        BY <1>4, <4>1, <4>2 DEF Finds
    <3>4. CASE ~(accept[m].q > accept[i].q)
      <4>1. Better(best, accept[m]) = accept[i]
        BY <3>1, <3>4 DEF Better
      <4>2. \A j \in wanted(U) : \/ accept[i].q > accept[j].q
                                 \/ accept[i].q = accept[j].q /\ i <= j
        BY <1>1, <1>2, <3>1, <3>2, <3>4
      <4> QED
        BY <3>2, <4>1, <4>2 DEF Finds
    <3> QED
      BY <3>3, <3>4
  <2> QED
    BY <2>1, <2>2
<1> QED
  BY <1>3, <1>4

LEMMA BestIsFound ==
  ASSUME NEW accept \in Seq(Ranges)
  PROVE  Finds(accept, DOMAIN accept, Best(accept)[DOMAIN accept])
<1> DEFINE D == DOMAIN accept
           best == Best(accept)
           P == {S \in SUBSET D : Finds(accept, S, best[S])}
<1>1. Len(accept) \in Nat /\ D = 1..Len(accept)
  OBVIOUS
<1>2. IsFiniteSet(D)
  BY <1>1, FS_Interval
<1>3. best = BestLoop(accept, best)
  BY BestExists
<1> HIDE DEF best
<1>4. ASSUME NEW S \in SUBSET D, \A T \in SUBSET S : T # S => T \in P
      PROVE  S \in P
  <2>1. CASE S = {}
    <3>1. best[S] = NoBest
      BY <1>3, <2>1 DEF BestLoop
    <3> QED
      BY <2>1, <3>1 DEF Finds
  <2>2. CASE S # {}
    <3> DEFINE m == Max(S)
               T == S \ {m}
    <3>1. m \in S /\ \A i \in S : i <= m
      BY <1>1, <2>2, MaxOfSome
    <3>2. best[S] = Better(best[T], accept[m])
      BY <1>3, <2>2 DEF BestLoop
    <3> HIDE DEF m
    <3>3. Finds(accept, T, best[T])
      BY <1>4, <3>1
    <3>4. Finds(accept, T \cup {m}, Better(best[T], accept[m]))
      BY <3>1, <3>3, FindsNext
    <3>5. T \cup {m} = S
      BY <3>1
    <3> QED
      BY <3>2, <3>4, <3>5
  <2> QED
    BY <2>1, <2>2
<1> HIDE DEF P, D
<1>5. SUBSET D \subseteq P
  BY <1>2, <1>4, PartsInduction
<1> QED
  BY <1>5 DEF P, D, best

(* The language of a request is the one its header asks for. *)
LEMMA LanguageIsAskedFor ==
  ASSUME NEW header \in Headers
  PROVE  Asks(header, RequestLanguage(header))
<1> DEFINE accept == header.accept
           best == Best(accept)[DOMAIN accept]
<1>1. accept \in Seq(Ranges)
  <2>1. accept \in Seq([lang : STRING, q : Nat])
    BY HeadersAssumption
  <2>2. [lang : STRING, q : Nat] \subseteq Ranges
    BY DEF Ranges
  <2> HIDE DEF accept
  <2> QED
    BY <2>1, <2>2, WiderSeq
<1>2. Finds(accept, DOMAIN accept, best)
  BY <1>1, BestIsFound
<1>3. ResolveAcceptLanguage(accept) = best.lang
  BY FoldLeftIsBest DEF ResolveAcceptLanguage, NoBest
<1> HIDE DEF best
<1>4. CASE header.app \in Languages
  BY <1>4 DEF Asks, RequestLanguage
<1>5. CASE header.app \notin Languages
  <2>1. RequestLanguage(header) = best.lang
    BY <1>3, <1>5 DEF RequestLanguage
  <2> QED
    BY <1>2, <1>5, <2>1 DEF Asks, Finds, NoBest
<1> QED
  BY <1>4, <1>5

-----------------------------------------------------------------------------
(* How a step may change what entries and answers are judged by.           *)

(* The commands that must be shown only grow with the generation, and a    *)
(* key that a request comes to hold is of the current one.                 *)
Forward ==
  /\ \/ version' = version /\ Settled' \subseteq Settled
     \/ version' = version + 1
  /\ \A c \in Clients, v \in 0..version :
       Holds(call'[c], v) =>
         \/ Holds(call[c], v) /\ call'[c].since = call[c].since
         \/ v = version /\ call'[c].since \subseteq acknowledged

(* A command that touches a route writes something. *)
LEMMA AcknowledgedAreSettled ==
  ASSUME NEW since \in SUBSET acknowledged, NEW route
  PROVE  Touching(since, route) \subseteq Touching(Settled, route)
  BY DEF Touching, Touches, Settled

LEMMA GoodStays ==
  ASSUME SharedOK, Forward, NEW v \in 0..version, NEW route, NEW shown, Good(v, route, shown)
  PROVE  Good(v, route, shown)'
<1>1. version \in Nat
  BY DEF SharedOK
<1>2. ASSUME v = version'
      PROVE  Touching(Settled', route) \subseteq shown
  <2>1. version' = version /\ Settled' \subseteq Settled
    BY <1>1, <1>2 DEF Forward
  <2> QED
    BY <1>2, <2>1 DEF Good, Touching
<1>3. ASSUME NEW c \in Clients, Holds(call'[c], v)
      PROVE  Touching(call'[c].since, route) \subseteq shown
  <2>1. CASE Holds(call[c], v) /\ call'[c].since = call[c].since
    BY <2>1 DEF Good
  <2>2. CASE v = version /\ call'[c].since \subseteq acknowledged
    <3>1. Touching(call'[c].since, route) \subseteq Touching(Settled, route)
      BY <2>2, AcknowledgedAreSettled
    <3> QED
      BY <2>2, <3>1 DEF Good
  <2> QED
    BY <1>3, <2>1, <2>2 DEF Forward
<1> QED
  BY <1>2, <1>3 DEF Good, Touching, Touches, Holds

LEMMA EntryStays ==
  ASSUME SharedOK, Forward, NEW key, NEW a, EntryOK(key, a)
  PROVE  EntryOK(key, a)'
<1>1. key[1] \in 0..version /\ version \in Nat /\ version <= version'
  BY DEF EntryOK, SharedOK, Forward
<1>2. key[3] # "check" => Good(key[1], key[3], a.shown)'
  BY <1>1, GoodStays DEF EntryOK
<1>3. key[1] \in 0..version' /\ version' \in Nat
  BY <1>1 DEF Forward
<1> QED
  BY <1>2, <1>3 DEF EntryOK

(* What only grows. *)
Grows == /\ written \subseteq written'
         /\ acknowledged \subseteq acknowledged'
         /\ ended \subseteq ended'

LEMMA CallStays ==
  ASSUME SharedOK, Forward, Grows, NEW r, CallOK(r)
  PROVE  CallOK(r)'
<1>1. Fixed(r)'
  <2>1. 0..version \subseteq 0..version'
    BY DEF Forward, SharedOK
  <2>2. KeysOf(r) \subseteq KeysOf(r)'
    BY <2>1 DEF KeysOf
  <2>3. r.keys \in Seq(KeysOf(r)')
    BY <2>2, WiderSeq DEF CallOK, Fixed
  <2>4. r.keys \in Seq(KeysOf(r))'
    BY <2>3
  <2> QED
    BY <2>4 DEF CallOK, Fixed, Grows
<1>2. Known(r)'
  BY DEF CallOK, Known, Grows
<1>3. CASE Asking(r)
  BY <1>1, <1>2, <1>3 DEF CallOK, Asking
<1>4. CASE Answering(r)
  <2>1. Refused(r) => Refused(r)'
    BY DEF Refused
  <2>2. Fulfilled(r) => Fulfilled(r)'
    BY DEF Fulfilled, Grows, Touching
  <2>3. "store" \in ToSet(r.left) => \A key \in ToSet(r.keys) : EntryOK(key, r.answer)'
    BY <1>4, EntryStays DEF Answering
  <2>4. Answering(r)'
    BY <1>4, <2>1, <2>2, <2>3 DEF Answering
  <2> QED
    BY <1>1, <1>2, <2>4 DEF CallOK
<1> QED
  BY <1>3, <1>4 DEF CallOK

LEMMA Becomes ==
  ASSUME HttpInv, NEW c \in Clients, NEW new, Become(c, new)
  PROVE  /\ DOMAIN call' = Clients
         /\ call'[c] = new
         /\ \A d \in Clients \ {c} : call'[d] = call[d]
  BY DEF HttpInv, Become

(* A step of one request keeps the invariant.                              *)
LEMMA Stepped ==
  ASSUME HttpInv, NEW c \in Clients, NEW new, Become(c, new), Forward, Grows,
         Settled' \subseteq written', acknowledged' \subseteq DOMAIN Routes,
         \A key \in DOMAIN entry' : \/ key \in DOMAIN entry /\ entry'[key] = entry[key]
                                    \/ EntryOK(key, entry[key])',
         new # None => CallOK(new)'
  PROVE  HttpInv'
<1>1. SharedOK /\ CallsOK
  BY DEF HttpInv
<1>2. /\ DOMAIN call' = Clients
      /\ call'[c] = new
      /\ \A d \in Clients \ {c} : call'[d] = call[d]
  BY Becomes
<1>3. version' \in Nat
  BY <1>1 DEF Forward, SharedOK
<1>4. ASSUME NEW key, NEW a, key \in DOMAIN entry', a = entry'[key]
      PROVE  EntryOK(key, a)'
  <2>1. CASE key \in DOMAIN entry /\ a = entry[key]
    <3>1. EntryOK(key, a)
      BY <1>1, <2>1 DEF SharedOK
    <3> QED
      BY <1>1, <3>1, EntryStays
  <2>2. CASE EntryOK(key, entry[key])'
    BY <1>4, <2>2
  <2> QED
    BY <1>4, <2>1, <2>2
<1>5. SharedOK'
  <2>1. \A key \in DOMAIN entry' : EntryOK(key, entry[key])'
    BY <1>4
  <2> QED
    BY <1>3, <2>1 DEF SharedOK
<1>6. ASSUME NEW d \in Clients, NEW r, r = call'[d], r # None
      PROVE  CallOK(r)'
  <2>1. CASE d = c
    BY <1>2, <1>6, <2>1
  <2>2. CASE d # c
    <3>1. CallOK(r)
      BY <1>1, <1>2, <1>6, <2>2 DEF CallsOK
    <3> QED
      BY <1>1, <3>1, CallStays
  <2> QED
    BY <2>1, <2>2
<1>7. CallsOK'
  BY <1>6 DEF CallsOK
<1> QED
  BY <1>2, <1>5, <1>7 DEF HttpInv

(* What a request may become while the generation stays. *)
Follows(r, new) ==
  new # None =>
    /\ new.since \subseteq acknowledged
    /\ Landed(new) => new.route \in Settled \/ Routes[new.route].writes = {}
    /\ \A v \in 0..version : Holds(new, v) =>
         v = version \/ (Holds(r, v) /\ new.since = r.since)

LEMMA FollowingIsForward ==
  ASSUME HttpInv, NEW c \in Clients, NEW new, Become(c, new), Follows(call[c], new),
         version' = version,
         \A m \in acknowledged' : m \in acknowledged \cup Settled \/ Routes[m].writes = {}
  PROVE  Forward
<1>1. /\ call'[c] = new
      /\ \A d \in Clients \ {c} : call'[d] = call[d]
  BY Becomes
<1>2. ASSUME NEW m \in Settled'
      PROVE  m \in Settled
  <2>1. m \in acknowledged' \/ \E d \in Clients : Landed(call'[d]) /\ m = call'[d].route
    BY DEF Settled, Landing
  <2>2. Routes[m].writes # {}
    BY DEF Settled
  <2>3. CASE m \in acknowledged'
    BY <2>2, <2>3 DEF Settled
  <2>4. ASSUME NEW d \in Clients, Landed(call'[d]), m = call'[d].route
        PROVE  m \in Settled
    <3>1. CASE d = c
      BY <1>1, <2>2, <2>4, <3>1 DEF Follows, Landed
    <3>2. CASE d # c
      BY <1>1, <2>2, <2>4, <3>2 DEF Settled, Landing
    <3> QED
      BY <3>1, <3>2
  <2> QED
    BY <2>1, <2>3, <2>4
<1>3. ASSUME NEW d \in Clients, NEW v \in 0..version, Holds(call'[d], v)
      PROVE  \/ Holds(call[d], v) /\ call'[d].since = call[d].since
             \/ v = version /\ call'[d].since \subseteq acknowledged
  <2>1. CASE d = c
    <3>1. new # None
      BY <1>1, <1>3, <2>1 DEF Holds
    <3> QED
      BY <1>1, <1>3, <2>1, <3>1 DEF Follows
  <2>2. CASE d # c
    BY <1>1, <1>3, <2>2
  <2> QED
    BY <2>1, <2>2
<1> QED
  BY <1>2, <1>3 DEF Forward

(* A step that leaves generation and answered commands alone. *)
LEMMA Moved ==
  ASSUME HttpInv, NEW c \in Clients, NEW new, Become(c, new), Follows(call[c], new),
         new # None => CallOK(new),
         UNCHANGED <<version, acknowledged, ended>>, written \subseteq written',
         \A key \in DOMAIN entry' : \/ key \in DOMAIN entry /\ entry'[key] = entry[key]
                                    \/ EntryOK(key, entry'[key])
  PROVE  HttpInv'
<1>1. SharedOK
  BY DEF HttpInv
<1>2. Forward
  BY FollowingIsForward
<1>3. Grows
  BY DEF Grows
<1>4. Settled' \subseteq written' /\ acknowledged' \subseteq DOMAIN Routes
  BY <1>1, <1>2 DEF SharedOK, Forward
<1>5. ASSUME NEW key, NEW a, key \in DOMAIN entry', a = entry'[key]
      PROVE  \/ key \in DOMAIN entry /\ entry'[key] = entry[key]
             \/ EntryOK(key, entry[key])'
  <2>1. CASE EntryOK(key, a)
    <3>1. EntryOK(key, a)'
      BY <1>1, <1>2, <2>1, EntryStays
    <3> QED
      BY <1>5, <3>1
  <2>2. CASE key \in DOMAIN entry /\ entry'[key] = entry[key]
    BY <2>2
  <2> QED
    BY <1>5, <2>1, <2>2
<1>6. ASSUME new # None
      PROVE  CallOK(new)'
  BY <1>1, <1>2, <1>3, <1>6, CallStays
<1> QED
  BY <1>2, <1>3, <1>4, <1>5, <1>6, Stepped

-----------------------------------------------------------------------------
(* What is left to do. *)

LEMMA ClosedSteps ==
  ASSUME NEW s, Closed(s)
  PROVE  /\ s # <<>> /\ Head(s) \in AfterSteps
         /\ ToSet(s) = {Head(s)} \cup ToSet(Tail(s))
         /\ ToSet(s) \subseteq AfterSteps
         /\ Head(s) = "end" => ToSet(s) = {"end"}
         /\ Head(s) # "end" => Closed(Tail(s))
  BY EndsInSteps, Zenon DEF Closed

LEMMA ClosedByEnd ==
  ASSUME NEW s \in Seq(AfterSteps), "end" \notin ToSet(s)
  PROVE  Closed(s \o <<"end">>) /\ ToSet(s \o <<"end">>) = ToSet(s) \cup {"end"}
<1>1. "end" \in AfterSteps
  BY DEF AfterSteps
<1> QED
  BY <1>1, EndsInAdded, Zenon DEF Closed

-----------------------------------------------------------------------------
(* One request: what it asked for stays.                                   *)

Alike(r, new) ==
  /\ IsCall(new)
  /\ new.route = r.route /\ new.bearer = r.bearer /\ new.sid = r.sid
  /\ new.header = r.header /\ new.since = r.since /\ new.live = r.live

LEMMA LeftChanged ==
  ASSUME NEW r, IsCall(r), NEW left, NEW new, new = [r EXCEPT !.left = left]
  PROVE  /\ Alike(r, new)
         /\ new.left = left /\ new.keys = r.keys /\ new.known = r.known
         /\ new.answer = r.answer /\ new.missed = r.missed
  BY DEF IsCall, Fields, Alike

LEMMA Passed ==
  ASSUME NEW r, IsCall(r), NEW new, new = [r EXCEPT !.left = Tail(@)]
  PROVE  /\ Alike(r, new)
         /\ new.left = Tail(r.left) /\ new.keys = r.keys /\ new.known = r.known
         /\ new.answer = r.answer /\ new.missed = r.missed
  BY DEF IsCall, Fields, Alike

LEMMA AnswerChanged ==
  ASSUME NEW r, IsCall(r), NEW left, NEW answer, NEW new,
         new = [r EXCEPT !.answer = answer, !.left = left]
  PROVE  /\ Alike(r, new)
         /\ new.left = left /\ new.keys = r.keys /\ new.known = r.known
         /\ new.answer = answer /\ new.missed = r.missed
  BY DEF IsCall, Fields, Alike

LEMMA KeysChanged ==
  ASSUME NEW r, IsCall(r), NEW left, NEW keys, NEW new,
         new = [r EXCEPT !.left = left, !.keys = keys]
  PROVE  /\ Alike(r, new)
         /\ new.left = left /\ new.keys = keys /\ new.known = r.known
         /\ new.answer = r.answer /\ new.missed = r.missed
  BY DEF IsCall, Fields, Alike

LEMMA KnownChanged ==
  ASSUME NEW r, IsCall(r), NEW left, NEW known, NEW new,
         new = [r EXCEPT !.known = known, !.left = left]
  PROVE  /\ Alike(r, new)
         /\ new.left = left /\ new.keys = r.keys /\ new.known = known
         /\ new.answer = r.answer /\ new.missed = r.missed
  BY DEF IsCall, Fields, Alike

LEMMA MissedChanged ==
  ASSUME NEW r, IsCall(r), NEW left, NEW new,
         new = [r EXCEPT !.missed = TRUE, !.left = left]
  PROVE  /\ Alike(r, new)
         /\ new.left = left /\ new.keys = r.keys /\ new.known = r.known
         /\ new.answer = r.answer /\ new.missed
  BY DEF IsCall, Fields, Alike

LEMMA LateChanged ==
  ASSUME NEW r, IsCall(r), NEW new, new = [r EXCEPT !.late = TRUE]
  PROVE  /\ Alike(r, new)
         /\ new.left = r.left /\ new.keys = r.keys /\ new.known = r.known
         /\ new.answer = r.answer /\ new.missed = r.missed
  BY DEF IsCall, Fields, Alike

(* With the same keys and identity the rest depends on the steps left.     *)
LEMMA StillKnown ==
  ASSUME NEW r, Fixed(r), Known(r), NEW new, Alike(r, new), new.keys = r.keys, new.known = r.known
  PROVE  Fixed(new) /\ Known(new)
<1>1. KeysOf(new) = KeysOf(r)
  BY DEF Alike, KeysOf, Whose, Language
<1> QED
  BY <1>1 DEF Alike, Fixed, Known

LEMMA StillFollows ==
  ASSUME NEW c \in Clients, NEW r, r = call[c], r # None, Fixed(r),
         NEW new, Alike(r, new), new.keys = r.keys,
         Landed(new) => Landed(r) \/ Routes[r.route].writes = {}
  PROVE  Follows(r, new)
<1>1. Landed(r) => r.route \in Settled \/ Routes[r.route].writes = {}
  BY DEF Settled, Landing, Fixed
<1>2. \A v : Holds(new, v) => Holds(r, v)
  BY DEF Holds
<1> QED
  BY <1>1, <1>2 DEF Follows, Alike, Fixed

LEMMA OpenSteps ==
  ASSUME NEW s, Open(s)
  PROVE  /\ s # <<>> /\ Head(s) \in BeforeSteps
         /\ ToSet(s) = {Head(s)} \cup ToSet(Tail(s))
         /\ "serve" \in ToSet(s)
         /\ Head(s) = "serve" => ToSet(s) = {"serve"}
         /\ Head(s) # "serve" => Open(Tail(s))
<1>1. /\ s # <<>> /\ Head(s) \in BeforeSteps
      /\ ToSet(s) = {Head(s)} \cup ToSet(Tail(s))
      /\ Head(s) = "serve" => ToSet(s) = {"serve"}
      /\ Head(s) # "serve" => Open(Tail(s))
  BY EndsInSteps, Zenon DEF Open
<1>2. "serve" \in ToSet(s)
  <2>1. s \in Seq(BeforeSteps) /\ s # <<>>
    BY DEF Open, EndsIn
  <2>2. Len(s) \in DOMAIN s
    BY <2>1
  <2>3. s[Len(s)] = "serve"
    BY <2>2 DEF Open, EndsIn
  <2> QED
    BY <2>2, <2>3 DEF ToSet
<1> QED
  BY <1>1, <1>2

LEMMA AskingSteps ==
  ASSUME NEW r, CallOK(r), r.left # <<>>, Head(r.left) \in BeforeSteps
  PROVE  /\ Fixed(r) /\ Known(r) /\ Asking(r)
         /\ ToSet(r.left) = {Head(r.left)} \cup ToSet(Tail(r.left))
         /\ Head(r.left) = "serve" => ToSet(r.left) = {"serve"}
         /\ Head(r.left) # "serve" => Open(Tail(r.left)) /\ "serve" \in ToSet(Tail(r.left))
<1>1. Head(r.left) \notin AfterSteps
  BY DEF BeforeSteps, AfterSteps
<1>2. ~Answering(r)
  BY <1>1, ClosedSteps DEF Answering
<1>3. Asking(r) /\ Open(r.left)
  BY <1>2 DEF CallOK, Asking
<1> QED
  BY <1>3, OpenSteps DEF CallOK

LEMMA AnsweringSteps ==
  ASSUME NEW r, CallOK(r), r.left # <<>>, Head(r.left) \in AfterSteps
  PROVE  Fixed(r) /\ Known(r) /\ Answering(r) /\ Closed(r.left)
<1>1. Head(r.left) \notin BeforeSteps
  BY DEF BeforeSteps, AfterSteps
<1>2. ~Asking(r)
  BY <1>1, OpenSteps DEF Asking
<1> QED
  BY <1>2 DEF CallOK, Answering

(* A step before the service is passed. *)
LEMMA PassAsking ==
  ASSUME NEW c \in Clients, NEW r, r = call[c], r # None, CallOK(r), r.left # <<>>,
         Head(r.left) \in BeforeSteps \ {"serve", "token"},
         NEW new, Alike(r, new), new.left = Tail(r.left), new.keys = r.keys, new.known = r.known
  PROVE  Follows(r, new) /\ CallOK(new)
<1>1. /\ Fixed(r) /\ Known(r) /\ Asking(r)
      /\ Open(new.left)
      /\ ToSet(r.left) = {Head(r.left)} \cup ToSet(new.left)
  BY AskingSteps
<1>2. "serve" \in ToSet(new.left)
  BY <1>1, OpenSteps
<1>3. ~Landed(new)
  BY <1>2 DEF Landed
<1>4. Follows(r, new)
  BY <1>1, <1>3, StillFollows
<1>5. Fixed(new) /\ Known(new)
  BY <1>1, StillKnown
<1>6. Asking(new)
  BY <1>1, <1>2 DEF Asking, Alike
<1> QED
  BY <1>4, <1>5, <1>6 DEF CallOK

(* A step after it is passed. *)
LEMMA PassAnswering ==
  ASSUME NEW c \in Clients, NEW r, r = call[c], r # None, CallOK(r), r.left # <<>>,
         Head(r.left) \in AfterSteps \ {"end"},
         NEW new, Alike(r, new), new.left = Tail(r.left), new.keys = r.keys,
         new.known = r.known, new.answer = r.answer
  PROVE  /\ CallOK(new)
         /\ Head(r.left) # "invalidate" /\ new.missed = r.missed => Follows(r, new)
         /\ new.missed => Follows(r, new)
<1>1. /\ Fixed(r) /\ Known(r) /\ Answering(r)
      /\ ToSet(r.left) = {Head(r.left)} \cup ToSet(Tail(r.left))
      /\ ToSet(r.left) \subseteq AfterSteps
      /\ Closed(new.left)
  BY AnsweringSteps, ClosedSteps
<1>2. Fixed(new) /\ Known(new)
  BY <1>1, StillKnown
<1>3. Refused(r) => Refused(new)
  BY DEF Refused, Alike, Language
<1>4. Fulfilled(r) => Fulfilled(new)
  BY DEF Fulfilled, Alike, Language
<1>5. Answering(new)
  BY <1>1, <1>3, <1>4 DEF Answering
<1>6. CallOK(new)
  BY <1>2, <1>5 DEF CallOK
<1>7. ASSUME Head(r.left) # "invalidate", new.missed = r.missed
      PROVE  Follows(r, new)
  <2>1. Landed(new) => Landed(r)
    <3>1. "serve" \notin AfterSteps
      BY DEF AfterSteps
    <3> QED
      BY <1>1, <1>7, <3>1 DEF Landed
  <2> QED
    BY <1>1, <2>1, StillFollows
<1>8. ASSUME new.missed
      PROVE  Follows(r, new)
  <2>1. ~Landed(new)
    BY <1>8 DEF Landed
  <2> QED
    BY <1>1, <2>1, StillFollows
<1> QED
  BY <1>6, <1>7, <1>8

LEMMA Serving ==
  ASSUME HttpInv, NEW c \in Clients, NEW step, Doing(c, step), NEW r, r = call[c]
  PROVE  r # None /\ CallOK(r) /\ r.left # <<>> /\ Head(r.left) = step /\ IsCall(r)
  BY DEF HttpInv, CallsOK, Doing, CallOK, Fixed

LEMMA AskingPasses ==
  ASSUME HttpInv, NEW c \in Clients, NEW step \in BeforeSteps \ {"serve", "token"},
         Doing(c, step), Pass(c), UNCHANGED shared, UNCHANGED ended
  PROVE  HttpInv'
<1> DEFINE old == call[c]
           next == [old EXCEPT !.left = Tail(@)]
<1>1. Become(c, next)
  BY DEF Pass
<1> SUFFICES ASSUME NEW r, r = old, NEW new, new = next, Become(c, new)
             PROVE  HttpInv'
  BY <1>1
<1>2. r # None /\ CallOK(r) /\ r.left # <<>> /\ Head(r.left) = step /\ IsCall(r)
  BY Serving
<1>3. new = [r EXCEPT !.left = Tail(@)]
  OBVIOUS
<1> HIDE DEF old, next
<1>4. /\ Alike(r, new)
      /\ new.left = Tail(r.left) /\ new.keys = r.keys /\ new.known = r.known
  BY <1>2, <1>3, Passed
<1>5. Follows(r, new) /\ CallOK(new)
  BY <1>2, <1>4, PassAsking DEF old
<1> QED
  BY <1>5, Moved DEF shared, old

-----------------------------------------------------------------------------
(* Answers. *)

(* What a reply leaves of the request. *)
Replies(r, new, answer, left) ==
  /\ Alike(r, new)
  /\ Fixed(new) /\ Known(new)
  /\ Closed(new.left) /\ ToSet(new.left) = ToSet(left) \cup {"end"}
  /\ new.keys = r.keys /\ new.known = r.known /\ new.missed = r.missed
  /\ new.answer = answer

LEMMA ReplyIs ==
  ASSUME HttpInv, NEW c \in Clients, NEW step, Doing(c, step), NEW r, r = call[c],
         NEW left \in Seq(AfterSteps), "end" \notin ToSet(left), NEW answer,
         Reply(c, answer, left)
  PROVE  \E new : Become(c, new) /\ Replies(r, new, answer, left)
<1> DEFINE after == left \o <<"end">>
           next == [r EXCEPT !.answer = answer, !.left = after]
<1>1. Become(c, next)
  BY DEF Reply
<1> SUFFICES ASSUME NEW new, new = next, Become(c, new)
             PROVE  Replies(r, new, answer, left)
  BY <1>1
<1>2. r # None /\ CallOK(r) /\ IsCall(r) /\ Fixed(r) /\ Known(r)
  BY Serving DEF CallOK
<1>3. Closed(after) /\ ToSet(after) = ToSet(left) \cup {"end"}
  BY ClosedByEnd
<1>6. new = [r EXCEPT !.answer = answer, !.left = after]
  OBVIOUS
<1> HIDE DEF after, next
<1>4. /\ Alike(r, new) /\ new.left = after /\ new.keys = r.keys /\ new.known = r.known
      /\ new.answer = answer /\ new.missed = r.missed
  BY <1>2, <1>6 DEF IsCall, Fields, Alike
<1>5. Fixed(new) /\ Known(new)
  BY <1>2, <1>4, StillKnown
<1> QED
  BY <1>3, <1>4, <1>5 DEF Replies

LEMMA ReplyFollows ==
  ASSUME NEW c \in Clients, NEW r, r = call[c], r # None, CallOK(r), NEW left, NEW answer,
         NEW new, Replies(r, new, answer, left),
         \/ Routes[r.route].writes = {}
         \/ ~(answer.status < 400)
         \/ "invalidate" \in ToSet(left)
  PROVE  Follows(r, new)
<1>1. Landed(new) => Routes[r.route].writes = {}
  BY DEF Landed, Replies
<1> QED
  BY <1>1, StillFollows DEF Replies, CallOK

LEMMA Refuses ==
  ASSUME HttpInv, NEW c \in Clients, NEW step, Doing(c, step), NEW err \in Errors, Refuse(c, err),
         UNCHANGED <<version, acknowledged, entry, ended>>, written \subseteq written'
  PROVE  HttpInv'
<1> SUFFICES ASSUME NEW r, r = call[c]
             PROVE  HttpInv'
  OBVIOUS
<1> DEFINE answer == Failure(err, LanguageOf(c))
           left == <<>>
<1>1. r # None /\ CallOK(r)
  BY Serving
<1>2. left \in Seq(AfterSteps) /\ ToSet(left) = {}
  BY ToSetOfNone
<1>3. Reply(c, answer, left)
  BY DEF Refuse
<1>4. answer = Failure(err, Language(r)) /\ ~(answer.status < 400)
  <2>1. StatusCode(err) \in Nat /\ StatusCode(err) >= 400
    BY ErrorFacts
  <2> QED
    BY <2>1 DEF LanguageOf, Language, Failure
<1> HIDE DEF answer, left
<1>5. PICK new : Become(c, new) /\ Replies(r, new, answer, left)
  BY <1>2, <1>3, ReplyIs
<1>6. Follows(call[c], new)
  BY <1>1, <1>4, <1>5, ReplyFollows
<1>7. CallOK(new)
  <2>1. Refused(new)
    BY <1>4, <1>5 DEF Refused, Replies, Alike, Language
  <2>2. Answering(new)
    BY <1>2, <1>5, <2>1 DEF Answering, Replies
  <2> QED
    BY <1>5, <2>2 DEF CallOK, Replies
<1> QED
  BY <1>5, <1>6, <1>7, Moved

-----------------------------------------------------------------------------
(* The cache before the handler. *)

(* Of a request with an identity to cache for, it is whose it is. *)
LEMMA CachedForCaller ==
  ASSUME NEW c \in Clients, NEW r, r = call[c], Known(r), NEW identity \in CacheIdentity(c)
  PROVE  identity = Whose(r) /\ r.bearer \in {None, r.known}
<1>1. None \notin Users
  BY CallersAssumption DEF Users
<1>2. CASE r.known # None
  BY <1>1, <1>2 DEF Known, CacheIdentity, Whose
<1>3. CASE r.known = None
  BY <1>3 DEF CacheIdentity, Whose
<1> QED
  BY <1>2, <1>3

LEMMA OpensWithLoad ==
  ASSUME NEW s, Open(s)
  PROVE  Open(<<"load">> \o s) /\ ToSet(<<"load">> \o s) = {"load"} \cup ToSet(s)
<1>1. "load" \in BeforeSteps
  BY DEF BeforeSteps
<1>2. ASSUME NEW x \in BeforeSteps, NEW last, x # last, EndsIn(s, BeforeSteps, last)
      PROVE  EndsIn(<<x>> \o s, BeforeSteps, last) /\ ToSet(<<x>> \o s) = {x} \cup ToSet(s)
  BY <1>2, EndsInLonger
<1> QED
  BY <1>1, <1>2 DEF Open

LEMMA ReadKeyKeeps ==
  ASSUME HttpInv, NEW c \in Clients, ReadKey(c), UNCHANGED ended
  PROVE  HttpInv'
<1> SUFFICES ASSUME NEW r, r = call[c]
             PROVE  HttpInv'
  OBVIOUS
<1>1. Doing(c, "cache") /\ "cache" \in BeforeSteps
  BY DEF ReadKey, BeforeSteps
<1>2. r # None /\ CallOK(r) /\ r.left # <<>> /\ Head(r.left) = "cache" /\ IsCall(r)
  BY <1>1, Serving
<1>3. /\ Fixed(r) /\ Known(r) /\ Asking(r)
      /\ ToSet(r.left) = {Head(r.left)} \cup ToSet(Tail(r.left))
      /\ Open(Tail(r.left)) /\ "serve" \in ToSet(Tail(r.left))
  BY <1>1, <1>2, AskingSteps
<1>4. PICK identity \in CacheIdentity(c) :
        Become(c, [call[c] EXCEPT !.left = <<"load">> \o Tail(@),
                                  !.keys = Append(@, ResponseKey(identity, c))])
  BY DEF ReadKey
<1> DEFINE key == ResponseKey(identity, c)
           rest == Tail(r.left)
           left == <<"load">> \o rest
           keys == Append(r.keys, key)
<1>5. identity = Whose(r) /\ r.bearer \in {None, r.known}
  BY <1>3, CachedForCaller
<1>6. key \in KeysOf(r) /\ key[1] = version
  <2>1. version \in Nat
    BY DEF HttpInv, SharedOK
  <2>2. version \in 0..version
    BY <2>1
  <2> QED
    BY <1>5, <2>2 DEF ResponseKey, KeysOf, Language, LanguageOf
<1>7. Open(left) /\ ToSet(left) = {"load"} \cup ToSet(rest)
  BY <1>3, OpensWithLoad
<1>8. keys \in Seq(KeysOf(r)) /\ ToSet(keys) = ToSet(r.keys) \cup {key} /\ keys # <<>>
  <2> HIDE DEF key
  <2>1. r.keys \in Seq(KeysOf(r))
    BY <1>3 DEF Fixed
  <2>2. keys \in Seq(KeysOf(r)) /\ ToSet(keys) = ToSet(r.keys) \cup {key}
    BY <1>6, <2>1, ToSetOfAppend
  <2>3. keys # <<>>
    BY <2>2, ToSetOfNone
  <2> QED
    BY <2>2, <2>3
<1>9. Become(c, [r EXCEPT !.left = left, !.keys = keys])
  BY <1>4
<1> HIDE DEF key, rest, left, keys
<1> SUFFICES ASSUME NEW new, new = [r EXCEPT !.left = left, !.keys = keys], Become(c, new)
             PROVE  HttpInv'
  BY <1>9
<1>10. /\ Alike(r, new)
       /\ new.left = left /\ new.keys = keys /\ new.known = r.known
  BY <1>2 DEF IsCall, Fields, Alike
<1>11. "serve" \in ToSet(left)
  BY <1>3, <1>7 DEF rest
<1>12. Follows(r, new)
  <2>1. ~Landed(new)
    BY <1>10, <1>11 DEF Landed
  <2>2. ASSUME NEW v, Holds(new, v)
        PROVE  v = version \/ Holds(r, v)
    BY <1>2, <1>6, <1>8, <1>10, <2>2 DEF Holds
  <2> QED
    BY <1>3, <1>10, <2>1, <2>2 DEF Follows, Alike, Fixed
<1>13. Fixed(new)
  <2>1. KeysOf(new) = KeysOf(r)
    BY <1>10 DEF Alike, KeysOf, Whose, Language
  <2> QED
    BY <1>3, <1>8, <1>10, <2>1 DEF Fixed, Alike
<1>14. Known(new)
  <2>1. Routes[r.route].get
    BY DEF ReadKey
  <2> QED
    BY <1>3, <1>5, <1>10, <2>1 DEF Known, Alike
<1>15. Asking(new)
  BY <1>2, <1>3, <1>7, <1>8, <1>10, <1>11 DEF Asking, Alike, rest
<1>16. CallOK(new)
  BY <1>13, <1>14, <1>15 DEF CallOK
<1>17. UNCHANGED shared
  BY DEF ReadKey
<1> QED
  BY <1>12, <1>16, <1>17, Moved DEF shared

-----------------------------------------------------------------------------
(* The token. *)

(* A session that is there has not ended.                                  *)
LEMMA ValidIsLive ==
  ASSUME Inv, NEW c \in Clients, NEW r, r = call[c], Known(r), Valid(c)
  PROVE  /\ r.bearer \in Users /\ r.bearer # None
         /\ r.bearer = Account => r.live
<1>1. r.bearer \in Users /\ r.bearer # None
  BY CallersAssumption DEF Valid, Users
<1>2. ASSUME r.bearer = Account
      PROVE  r.live
  <2>1. session # None /\ session.id = r.sid
    BY <1>2, CallersAssumption DEF Valid
  <2>2. r.sid \notin ended
    BY <2>1 DEF Inv, EndedForGood
  <2> QED
    BY <2>2 DEF Known
<1> QED
  BY <1>1, <1>2

LEMMA TokenAccepted ==
  ASSUME Inv, HttpInv, NEW c \in Clients, CheckToken(c), Valid(c), UNCHANGED ended
  PROVE  HttpInv'
<1> DEFINE next == [call[c] EXCEPT !.known = call[c].bearer, !.left = Tail(@)]
<1>1. Become(c, next) /\ UNCHANGED shared
  BY DEF CheckToken
<1> SUFFICES ASSUME NEW r, r = call[c], NEW new, new = next, Become(c, new)
             PROVE  HttpInv'
  BY <1>1
<1>2. new = [r EXCEPT !.known = r.bearer, !.left = Tail(r.left)]
  OBVIOUS
<1> HIDE DEF next
<1>3. PICK step \in {"token", "session"} : Doing(c, step)
  BY DEF CheckToken
<1>4. step \in BeforeSteps /\ step # "serve"
  BY DEF BeforeSteps
<1>5. r # None /\ CallOK(r) /\ r.left # <<>> /\ Head(r.left) = step /\ IsCall(r)
  BY <1>3, Serving
<1>6. /\ Fixed(r) /\ Known(r) /\ Asking(r)
      /\ ToSet(r.left) = {Head(r.left)} \cup ToSet(Tail(r.left))
      /\ Open(Tail(r.left)) /\ "serve" \in ToSet(Tail(r.left))
  BY <1>4, <1>5, AskingSteps
<1>7. /\ Alike(r, new)
      /\ new.left = Tail(r.left) /\ new.keys = r.keys /\ new.known = r.bearer
  BY <1>2, <1>5 DEF IsCall, Fields, Alike
<1>8. r.bearer \in Users /\ r.bearer # None /\ (r.bearer = Account => r.live)
  BY <1>6, ValidIsLive
<1>9. "serve" \in ToSet(new.left)
  BY <1>4, <1>5, <1>6, <1>7 DEF Asking
<1>10. Follows(r, new)
  <2>1. ~Landed(new)
    BY <1>9 DEF Landed
  <2> QED
    BY <1>5, <1>6, <1>7, <2>1, StillFollows
<1>11. Fixed(new)
  <2>1. KeysOf(new) = KeysOf(r)
    BY <1>7 DEF Alike, KeysOf, Whose, Language
  <2> QED
    BY <1>6, <1>7, <2>1 DEF Fixed, Alike
<1>12. Known(new)
  BY <1>6, <1>7, <1>8 DEF Known, Alike
<1>13. Asking(new)
  BY <1>6, <1>7, <1>8, <1>9 DEF Asking, Alike
<1>14. CallOK(new)
  BY <1>11, <1>12, <1>13 DEF CallOK
<1> QED
  BY <1>1, <1>10, <1>14, Moved DEF shared

LEMMA CheckTokenKeeps ==
  ASSUME Inv, HttpInv, NEW c \in Clients, CheckToken(c), UNCHANGED ended
  PROVE  HttpInv'
<1>1. CASE Valid(c)
  BY <1>1, TokenAccepted
<1>2. CASE ~Valid(c)
  <2>1. PICK step : Doing(c, step)
    BY DEF CheckToken
  <2> DEFINE err == {"Unauthorized"}
  <2>2. err \in Errors
    BY DEF Errors
  <2>3. Refuse(c, err) /\ UNCHANGED shared
    BY <1>2 DEF CheckToken
  <2> HIDE DEF err
  <2> QED
    BY <2>1, <2>2, <2>3, Refuses DEF shared
<1> QED
  BY <1>1, <1>2

-----------------------------------------------------------------------------
(* Refusals, and the steps that are just passed. *)

LEMMA FailedCallsKnown ==
  ASSUME NEW c \in Clients
  PROVE  CallFailed(c) \in Errors
  BY DEF CallFailed, Errors

LEMMA RefusalsKnown ==
  ASSUME NEW check \in DOMAIN Refusals
  PROVE  /\ check \in BeforeSteps \ {"serve", "token"}
         /\ Refusals[check] \subseteq Errors
<1>1. Invalid \subseteq Errors
  BY DEF Errors, Invalid
<1>2. /\ LimitErrors \subseteq Errors /\ {{"Unauthorized"}} \subseteq Errors
      /\ {{"InvalidID"}} \subseteq Errors /\ InputErrors \subseteq Errors
      /\ BodyErrors \subseteq Errors
  BY DEF LimitErrors, InputErrors, BodyErrors, Errors
<1>3. check \in {"limit", "user", "purpose", "id", "page", "query", "input", "body"}
  BY DEF Refusals
<1>4. Refusals[check] \in {LimitErrors, {{"Unauthorized"}}, {{"InvalidID"}}, Invalid, InputErrors,
                          BodyErrors}
  BY <1>3 DEF Refusals
<1>5. check \in BeforeSteps \ {"serve", "token"}
  BY <1>3 DEF BeforeSteps
<1> QED
  BY <1>1, <1>2, <1>4, <1>5

LEMMA RefuseCheckKeeps ==
  ASSUME HttpInv, NEW c \in Clients, RefuseCheck(c), UNCHANGED ended
  PROVE  HttpInv'
<1>1. PICK check \in DOMAIN Refusals :
        Doing(c, check) /\ \E err \in Refusals[check] : Refuse(c, err)
  BY DEF RefuseCheck
<1>2. PICK err \in Refusals[check] : Refuse(c, err)
  BY <1>1
<1>3. err \in Errors
  BY RefusalsKnown
<1>4. UNCHANGED shared
  BY DEF RefuseCheck
<1> QED
  BY <1>1, <1>2, <1>3, <1>4, Refuses DEF shared

LEMMA SessionUnreadableKeeps ==
  ASSUME HttpInv, NEW c \in Clients, SessionUnreadable(c), UNCHANGED ended
  PROVE  HttpInv'
<1>1. PICK step : Doing(c, step)
  BY DEF SessionUnreadable
<1>2. CallFailed(c) \in Errors
  BY FailedCallsKnown
<1>3. Refuse(c, CallFailed(c)) /\ UNCHANGED shared
  BY DEF SessionUnreadable
<1> QED
  BY <1>1, <1>2, <1>3, Refuses DEF shared

LEMMA FailKeeps ==
  ASSUME HttpInv, NEW c \in Clients, Fail(c), UNCHANGED ended
  PROVE  HttpInv'
<1>1. Doing(c, "serve") /\ UNCHANGED shared
  BY DEF Fail
<1>2. PICK err \in Routes[call[c].route].errors \cup {CallFailed(c)} : Refuse(c, err)
  BY DEF Fail
<1>3. err \in Errors
  <2>1. call[c].route \in DOMAIN Routes
    BY <1>1, Serving DEF CallOK, Fixed
  <2> QED
    BY <1>2, <2>1, RouteFacts, FailedCallsKnown
<1> QED
  BY <1>1, <1>2, <1>3, Refuses DEF shared

LEMMA FailAfterCommitKeeps ==
  ASSUME HttpInv, NEW c \in Clients, FailAfterCommit(c), UNCHANGED ended
  PROVE  HttpInv'
<1>1. /\ Doing(c, "serve") /\ Refuse(c, CallFailed(c)) /\ CallFailed(c) \in Errors
      /\ written \subseteq written' /\ UNCHANGED <<version, acknowledged, entry, ended>>
  BY FailedCallsKnown DEF FailAfterCommit
<1> QED
  BY <1>1, Refuses

LEMMA PassesKeep ==
  ASSUME HttpInv, NEW c \in Clients, UNCHANGED ended,
         PassCache(c) \/ KeyUnreadable(c) \/ LoadFails(c) \/ PassOptional(c) \/ Check(c)
  PROVE  HttpInv'
<1>1. PICK step \in BeforeSteps \ {"serve", "token"} : Doing(c, step)
  <2>1. "cache" \in BeforeSteps /\ "load" \in BeforeSteps /\ "session" \in BeforeSteps
    BY DEF BeforeSteps
  <2>2. CASE Check(c)
    BY <2>2, RefusalsKnown DEF Check
  <2>3. CASE PassCache(c) \/ KeyUnreadable(c)
    BY <2>1, <2>3 DEF PassCache, KeyUnreadable
  <2>4. CASE LoadFails(c)
    BY <2>1, <2>4 DEF LoadFails
  <2>5. CASE PassOptional(c)
    BY <2>1, <2>5 DEF PassOptional
  <2> QED
    BY <2>2, <2>3, <2>4, <2>5
<1>2. Pass(c) /\ UNCHANGED shared
  BY DEF PassCache, KeyUnreadable, LoadFails, PassOptional, Check
<1> QED
  BY <1>1, <1>2, AskingPasses

-----------------------------------------------------------------------------
(* Answers from what is remembered and from the tables. *)

(* A GET that is answered with success. *)
LEMMA QueryAnswered ==
  ASSUME HttpInv, NEW c \in Clients, NEW r, r = call[c], r # None, CallOK(r),
         Routes[r.route].get,
         NEW left \in Seq(AfterSteps), NEW answer, NEW new, Replies(r, new, answer, left),
         Fulfilled(new),
         "store" \in ToSet(left) => \A key \in ToSet(r.keys) : EntryOK(key, answer)
  PROVE  Follows(r, new) /\ CallOK(new)
<1>1. Routes[r.route].writes = {}
  BY RouteFacts DEF CallOK, Fixed
<1>2. Follows(r, new)
  BY <1>1, ReplyFollows
<1>3. Answering(new)
  BY DEF Answering, Replies
<1> QED
  BY <1>2, <1>3 DEF CallOK, Replies

(* What a request shows under one of its keys. *)
LEMMA KeyFacts ==
  ASSUME HttpInv, NEW c \in Clients, NEW r, r = call[c], r # None, CallOK(r),
         NEW key \in ToSet(r.keys)
  PROVE  /\ key[1] \in 0..version /\ key[2] = Whose(r) /\ key[3] = r.route
         /\ key[4] = Language(r)
         /\ Holds(r, key[1])
         /\ Routes[r.route].get /\ r.route \in DOMAIN Routes
<1>1. r.keys \in Seq(KeysOf(r)) /\ r.route \in DOMAIN Routes /\ Known(r)
  BY DEF CallOK, Fixed
<1>2. key \in KeysOf(r)
  BY <1>1, ToSetOfSeq
<1>3. Holds(r, key[1])
  BY DEF Holds
<1>4. r.keys # <<>>
  BY ToSetOfNone
<1> QED
  BY <1>1, <1>2, <1>3, <1>4 DEF KeysOf, Known

(* An entry is found.                                                      *)
LEMMA FoundIsFulfilled ==
  ASSUME HttpInv, NEW c \in Clients, NEW r, r = call[c], r # None, CallOK(r),
         NEW key \in ToSet(r.keys), NEW answer, EntryOK(key, answer),
         NEW new, Alike(r, new), new.answer = answer
  PROVE  Fulfilled(new)
<1>1. Fixed(r) /\ Known(r) /\ r.keys # <<>>
  BY ToSetOfNone DEF CallOK
<1>2. /\ key[2] = Whose(r) /\ key[3] = r.route /\ key[4] = Language(r) /\ Holds(r, key[1])
      /\ Routes[r.route].get
  BY KeyFacts
<1>3. answer.status < 400 /\ answer.language = Language(r)
  BY <1>2 DEF EntryOK
<1>4. ASSUME r.route \in DOMAIN Private
      PROVE  answer.of = r.bearer /\ r.bearer \in Users /\ (r.bearer = Account => r.live)
  <2>1. answer.of = Whose(r) /\ Whose(r) \in Users
    BY <1>2, <1>4 DEF EntryOK
  <2>2. r.bearer = Whose(r) /\ r.bearer # None
    BY <2>1, CallersAssumption DEF Whose, Users
  <2>3. r.known = r.bearer
    BY <1>1, <2>2 DEF Known
  <2> QED
    BY <1>1, <2>1, <2>2, <2>3 DEF Known
<1>5. ASSUME r.route # "check"
      PROVE  Touching(r.since, r.route) \subseteq answer.shown
  <2>1. Good(key[1], r.route, answer.shown)
    BY <1>2, <1>5 DEF EntryOK
  <2> QED
    BY <1>2, <2>1 DEF Good
<1> QED
  BY <1>2, <1>3, <1>4, <1>5 DEF Fulfilled, Alike, Language

LEMMA LookupKeeps ==
  ASSUME HttpInv, NEW c \in Clients, Load(c), UNCHANGED ended
  PROVE  HttpInv'
<1>1. Doing(c, "load") /\ "load" \in BeforeSteps \ {"serve", "token"} /\ UNCHANGED shared
  BY DEF Load, BeforeSteps
<1>2. CASE Last(call[c].keys) \notin DOMAIN entry
  <2>1. Pass(c)
    BY <1>2 DEF Load
  <2> QED
    BY <1>1, <2>1, AskingPasses
<1>3. ASSUME NEW key, key = Last(call[c].keys), key \in DOMAIN entry,
             NEW answer, answer = entry[key], NEW left, left = <<>>,
             NEW r, r = call[c]
      PROVE  HttpInv'
  <2>1. Reply(c, answer, left)
    BY <1>3 DEF Load
  <2>2. left \in Seq(AfterSteps) /\ ToSet(left) = {}
    BY <1>3, ToSetOfNone
  <2>3. r # None /\ CallOK(r) /\ r.left # <<>> /\ Head(r.left) = "load"
    BY <1>1, <1>3, Serving
  <2>4. Fixed(r) /\ Known(r) /\ Asking(r) /\ "load" \in ToSet(r.left)
    BY <1>1, <2>3, AskingSteps
  <2>5. key \in ToSet(r.keys)
    BY <1>3, <2>4, ToSetOfSeq DEF Asking, Fixed
  <2>6. EntryOK(key, answer)
    BY <1>3 DEF HttpInv, SharedOK
  <2>7. PICK new : Become(c, new) /\ Replies(r, new, answer, left)
    BY <1>1, <1>3, <2>1, <2>2, ReplyIs
  <2>8. Fulfilled(new)
    BY <1>3, <2>3, <2>5, <2>6, <2>7, FoundIsFulfilled DEF Replies
  <2>9. Routes[r.route].get
    BY <1>3, <2>3, <2>5, KeyFacts
  <2>10. Follows(r, new) /\ CallOK(new)
    BY <1>3, <2>2, <2>3, <2>7, <2>8, <2>9, QueryAnswered
  <2> QED
    BY <1>1, <1>3, <2>7, <2>10, Moved DEF shared
<1> QED
  BY <1>2, <1>3

(* What follows an answer from the tables. *)
LEMMA Followups ==
  ASSUME NEW remember, NEW keys
  PROVE  LET left == (IF remember THEN <<"remember">> ELSE <<>>)
                     \o (IF keys = <<>> THEN <<>> ELSE <<"store">>)
         IN /\ left \in Seq(AfterSteps)
            /\ "end" \notin ToSet(left)
<1> DEFINE first == IF remember THEN <<"remember">> ELSE <<>>
           second == IF keys = <<>> THEN <<>> ELSE <<"store">>
<1>1. "remember" \in AfterSteps /\ "store" \in AfterSteps
  BY DEF AfterSteps
<1>2. first \in Seq(AfterSteps) /\ ToSet(first) \subseteq {"remember"}
  BY <1>1, ToSetOfOne, ToSetOfNone
<1>3. second \in Seq(AfterSteps) /\ ToSet(second) \subseteq {"store"}
  BY <1>1, ToSetOfOne, ToSetOfNone
<1> HIDE DEF first, second
<1>4. /\ first \o second \in Seq(AfterSteps)
      /\ ToSet(first \o second) = ToSet(first) \cup ToSet(second)
  BY <1>2, <1>3, ToSetOfConcat
<1> QED
  BY <1>2, <1>3, <1>4 DEF first, second

LEMMA RecallKeeps ==
  ASSUME HttpInv, NEW c \in Clients, Recall(c), UNCHANGED ended
  PROVE  HttpInv'
<1>1. Doing(c, "recall") /\ "recall" \in BeforeSteps \ {"serve", "token"} /\ UNCHANGED shared
  BY DEF Recall, BeforeSteps
<1>2. CASE Pass(c)
  BY <1>1, <1>2, AskingPasses
<1>3. ASSUME NEW r, r = call[c],
             Reply(c, Success(200, remembered, None, LanguageOf(c)),
                   IF r.keys = <<>> THEN <<>> ELSE <<"store">>)
      PROVE  HttpInv'
  <2> DEFINE answer == Success(200, remembered, None, LanguageOf(c))
             left == IF r.keys = <<>> THEN <<>> ELSE <<"store">>
  <2>9. r = call[c] /\ Reply(c, answer, left)
    BY <1>3
  <2>1. r # None /\ CallOK(r) /\ r.left # <<>> /\ Head(r.left) = "recall"
    BY <1>1, <1>3, Serving
  <2>2. r.route = "check"
    <3>1. "recall" \in ToSet(r.left) /\ Asking(r)
      BY <1>1, <2>1, AskingSteps
    <3> QED
      BY <3>1 DEF Asking
  <2>3. /\ answer.status = 200 /\ answer.language = Language(r)
        /\ r.route \notin DOMAIN Private /\ Routes[r.route].get
    BY <1>3, <2>2, CheckRoute DEF Success, LanguageOf, Language, Query
  <2>4. left \in Seq(AfterSteps) /\ "end" \notin ToSet(left)
    <3>1. "store" \in AfterSteps /\ "store" # "end"
      BY DEF AfterSteps
    <3> QED
      BY <1>3, <3>1, ToSetOfOne, ToSetOfNone
  <2> HIDE DEF answer, left
  <2>5. PICK new : Become(c, new) /\ Replies(r, new, answer, left)
    BY <1>1, <1>3, <2>4, <2>9, ReplyIs
  <2>6. Fulfilled(new)
    BY <2>2, <2>3, <2>5 DEF Fulfilled, Replies, Alike, Language
  <2>7. \A key \in ToSet(r.keys) : EntryOK(key, answer)
    BY <1>3, <2>1, <2>2, <2>3, KeyFacts DEF EntryOK
  <2>10. Routes[r.route].get
    BY <2>3
  <2>8. Follows(r, new) /\ CallOK(new)
    BY <2>9, <2>1, <2>4, <2>5, <2>6, <2>7, <2>10, QueryAnswered
  <2> QED
    BY <1>1, <1>3, <2>5, <2>8, Moved DEF shared
<1> QED
  BY <1>2, <1>3 DEF Recall

(* At the service the user of a private route is known.                    *)
LEMMA ServedUser ==
  ASSUME NEW r, CallOK(r), r.left # <<>>, Head(r.left) = "serve", r.route \in DOMAIN Private
  PROVE  r.known = r.bearer /\ r.bearer \in Users /\ (r.bearer = Account => r.live)
<1>1. "serve" \in BeforeSteps /\ "token" # "serve"
  BY DEF BeforeSteps
<1>2. Known(r) /\ Asking(r) /\ ToSet(r.left) = {"serve"}
  BY <1>1, AskingSteps
<1>3. r.known # None
  BY <1>1, <1>2 DEF Asking
<1> QED
  BY <1>2, <1>3 DEF Known

(* What the tables show now satisfies whoever asked by now.                *)
LEMMA ShownNow ==
  ASSUME HttpInv, NEW route, NEW v
  PROVE  /\ Good(v, route, Touching(written, route))
         /\ \A since \in SUBSET acknowledged :
              Touching(since, route) \subseteq Touching(written, route)
<1>1. Settled \subseteq written
  BY DEF HttpInv, SharedOK
<1>2. Touching(Settled, route) \subseteq Touching(written, route)
  BY <1>1 DEF Touching
<1>3. ASSUME NEW since \in SUBSET acknowledged
      PROVE  Touching(since, route) \subseteq Touching(written, route)
  BY <1>2, AcknowledgedAreSettled
<1>4. ASSUME NEW c \in Clients, NEW r, r = call[c], Holds(r, v)
      PROVE  Touching(r.since, route) \subseteq Touching(written, route)
  <2>1. r.since \in SUBSET acknowledged
    BY <1>4 DEF Holds, HttpInv, CallsOK, CallOK, Fixed
  <2> QED
    BY <1>3, <2>1
<1> QED
  BY <1>2, <1>3, <1>4 DEF Good

LEMMA ReadDataKeeps ==
  ASSUME HttpInv, NEW c \in Clients, ReadData(c), UNCHANGED ended
  PROVE  HttpInv'
<1>1. Doing(c, "serve") /\ Routes[call[c].route].get /\ UNCHANGED shared
  BY DEF ReadData
<1> SUFFICES ASSUME NEW r, r = call[c]
             PROVE  HttpInv'
  OBVIOUS
<1> DEFINE shown == Touching(written, r.route)
           answer == Success(200, shown, r.known, LanguageOf(c))
           left == (IF r.route = "check" THEN <<"remember">> ELSE <<>>)
                   \o (IF r.keys = <<>> THEN <<>> ELSE <<"store">>)
<1>11. Reply(c, answer, left)
  BY DEF ReadData, Touching
<1>2. r # None /\ CallOK(r) /\ r.left # <<>> /\ Head(r.left) = "serve"
  BY <1>1, Serving
<1>3. left \in Seq(AfterSteps) /\ "end" \notin ToSet(left)
  BY Followups
<1>5. /\ answer.status = 200 /\ answer.language = Language(r) /\ answer.of = r.known
      /\ answer.shown = shown
  BY DEF Success, LanguageOf, Language
<1> HIDE DEF left, answer
<1>4. PICK new : Become(c, new) /\ Replies(r, new, answer, left)
  BY <1>1, <1>3, <1>11, ReplyIs
<1>6. r.route \in DOMAIN Private =>
        r.known = r.bearer /\ r.bearer \in Users /\ (r.bearer = Account => r.live)
  BY <1>2, ServedUser
<1>7. r.since \in SUBSET acknowledged
  BY <1>2 DEF CallOK, Fixed
<1>8. Fulfilled(new)
  <2>1. Touching(r.since, r.route) \subseteq shown
    BY <1>7, ShownNow
  <2> QED
    BY <1>1, <1>4, <1>5, <1>6, <2>1 DEF Fulfilled, Replies, Alike, Language
<1>9. ASSUME NEW key \in ToSet(r.keys)
      PROVE  EntryOK(key, answer)
  <2>1. /\ key[1] \in 0..version /\ key[2] = Whose(r) /\ key[3] = r.route
        /\ key[4] = Language(r) /\ r.route \in DOMAIN Routes
    BY <1>2, KeyFacts
  <2>2. Good(key[1], key[3], answer.shown)
    BY <1>5, <2>1, ShownNow
  <2>3. r.route \in DOMAIN Private => Whose(r) = r.bearer
    BY <1>6, CallersAssumption DEF Whose, Users
  <2> QED
    BY <1>5, <1>6, <2>1, <2>2, <2>3 DEF EntryOK
<1>10. Follows(r, new) /\ CallOK(new)
  BY <1>1, <1>2, <1>3, <1>4, <1>8, <1>9, QueryAnswered
<1> QED
  BY <1>1, <1>4, <1>10, Moved DEF shared

LEMMA CommitKeeps ==
  ASSUME HttpInv, NEW c \in Clients, Commit(c), UNCHANGED ended
  PROVE  HttpInv'
<1> SUFFICES ASSUME NEW r, r = call[c]
             PROVE  HttpInv'
  OBVIOUS
<1> DEFINE answer == Success(Routes[r.route].status, {}, r.known, LanguageOf(c))
           left == After(r.route)
<1>1. /\ Doing(c, "serve") /\ ~Routes[r.route].get /\ Reply(c, answer, left)
      /\ written' = written \cup {r.route}
      /\ version' = version /\ entry' = entry /\ acknowledged' = acknowledged
  BY DEF Commit
<1>2. r # None /\ CallOK(r) /\ r.left # <<>> /\ Head(r.left) = "serve"
  BY <1>1, Serving
<1>3. r.route \in DOMAIN Routes
  BY <1>2 DEF CallOK, Fixed
<1>4. /\ left \in Seq(AfterSteps) /\ "store" \notin ToSet(left) /\ "end" \notin ToSet(left)
      /\ Routes[r.route].writes # {} => "invalidate" \in ToSet(left)
  BY <1>3, AfterFacts
<1>5. answer.status < 400 /\ answer.language = Language(r) /\ answer.of = r.known
  <2>1. Routes[r.route].status \in {200, 201}
    BY <1>3, RouteFacts
  <2> QED
    BY <2>1 DEF Success, LanguageOf, Language
<1> HIDE DEF answer, left
<1>6. PICK new : Become(c, new) /\ Replies(r, new, answer, left)
  BY <1>1, <1>4, ReplyIs
<1>7. Follows(r, new)
  BY <1>2, <1>4, <1>6, ReplyFollows
<1>8. Forward
  BY <1>1, <1>6, <1>7, FollowingIsForward
<1>9. Grows
  BY <1>1 DEF Grows
<1>10. SharedOK
  BY DEF HttpInv
<1>11. Settled' \subseteq written' /\ acknowledged' \subseteq DOMAIN Routes
  BY <1>1, <1>8, <1>10 DEF Forward, SharedOK
<1>12. Fulfilled(new)'
  <2>1. r.route \in DOMAIN Private =>
          r.known = r.bearer /\ r.bearer \in Users /\ (r.bearer = Account => r.live)
    BY <1>2, ServedUser
  <2> QED
    BY <1>1, <1>5, <1>6, <2>1 DEF Fulfilled, Replies, Alike, Language
<1>13. Fixed(new)' /\ Known(new)'
  <2>1. Fixed(new) /\ Known(new)
    BY <1>6 DEF Replies
  <2> QED
    BY <1>1, <2>1 DEF Fixed, Known, KeysOf
<1>14. Answering(new)'
  BY <1>4, <1>6, <1>12 DEF Answering, Replies
<1>15. CallOK(new)'
  BY <1>13, <1>14 DEF CallOK
<1> QED
  BY <1>1, <1>6, <1>8, <1>9, <1>11, <1>15, Stepped

-----------------------------------------------------------------------------
(* After the service. *)

(* A step after the service is passed, the generation stays.               *)
LEMMA AnsweringPasses ==
  ASSUME HttpInv, NEW c \in Clients, NEW step \in AfterSteps \ {"end", "invalidate"},
         Doing(c, step), Pass(c), UNCHANGED <<version, written, acknowledged, ended>>,
         \A key \in DOMAIN entry' : \/ key \in DOMAIN entry /\ entry'[key] = entry[key]
                                    \/ EntryOK(key, entry'[key])
  PROVE  HttpInv'
<1> DEFINE old == call[c]
           next == [old EXCEPT !.left = Tail(@)]
<1>1. Become(c, next)
  BY DEF Pass
<1> SUFFICES ASSUME NEW r, r = old, NEW new, new = next, Become(c, new)
             PROVE  HttpInv'
  BY <1>1
<1>2. r # None /\ CallOK(r) /\ r.left # <<>> /\ Head(r.left) = step /\ IsCall(r)
  BY Serving
<1>3. new = [r EXCEPT !.left = Tail(@)]
  OBVIOUS
<1> HIDE DEF old, next
<1>4. /\ Alike(r, new)
      /\ new.left = Tail(r.left) /\ new.keys = r.keys /\ new.known = r.known
      /\ new.answer = r.answer /\ new.missed = r.missed
  BY <1>2, <1>3, Passed
<1>5. Follows(r, new) /\ CallOK(new)
  BY <1>2, <1>4, PassAnswering DEF old
<1> QED
  BY <1>5, Moved DEF old

LEMMA MemoryKeeps ==
  ASSUME HttpInv, NEW c \in Clients, Remember(c) \/ Forget(c), UNCHANGED ended
  PROVE  HttpInv'
<1>1. PICK step \in AfterSteps \ {"end", "invalidate"} : Doing(c, step)
  <2>1. {"remember", "forget"} \subseteq AfterSteps \ {"end", "invalidate"}
    BY DEF AfterSteps
  <2> QED
    BY <2>1 DEF Remember, Forget
<1>2. Pass(c) /\ UNCHANGED <<version, written, entry, acknowledged>>
  BY DEF Remember, Forget
<1> QED
  BY <1>1, <1>2, AnsweringPasses

LEMMA StoreKeeps ==
  ASSUME HttpInv, NEW c \in Clients, Store(c), UNCHANGED ended
  PROVE  HttpInv'
<1>1. Doing(c, "store") /\ Pass(c) /\ UNCHANGED <<written, version, acknowledged>>
  BY DEF Store
<1>2. "store" \in AfterSteps \ {"end", "invalidate"}
  BY DEF AfterSteps
<1> SUFFICES ASSUME NEW r, r = call[c]
             PROVE  HttpInv'
  OBVIOUS
<1>3. r # None /\ CallOK(r) /\ r.left # <<>> /\ Head(r.left) = "store"
  BY <1>1, Serving
<1>4. Answering(r) /\ Closed(r.left)
  BY <1>2, <1>3, AnsweringSteps
<1>5. "store" \in ToSet(r.left)
  BY <1>3, <1>4, ClosedSteps
<1>6. \A key \in ToSet(r.keys) : EntryOK(key, r.answer)
  BY <1>4, <1>5 DEF Answering
<1>7. \A key \in DOMAIN entry' : \/ key \in DOMAIN entry /\ entry'[key] = entry[key]
                                 \/ EntryOK(key, entry'[key])
  <2> SUFFICES ASSUME NEW key \in DOMAIN entry', NEW a, a = entry'[key]
               PROVE  \/ key \in DOMAIN entry /\ a = entry[key]
                      \/ EntryOK(key, a)
    OBVIOUS
  <2>1. CASE key \in ToSet(r.keys)
    <3>1. a = r.answer \/ (key \in DOMAIN entry /\ a = entry[key])
      BY <2>1 DEF Store
    <3> QED
      BY <1>6, <2>1, <3>1
  <2>2. CASE key \notin ToSet(r.keys)
    BY <2>2 DEF Store
  <2> QED
    BY <2>1, <2>2
<1> QED
  BY <1>1, <1>2, <1>7, AnsweringPasses

(* A request that is answered with success has done what it was sent for.  *)
LEMMA SuccessIsFulfilled ==
  ASSUME NEW r, Answering(r), r.answer.status < 400
  PROVE  Fulfilled(r)
<1>1. ~Refused(r)
  <2>1. ASSUME NEW err \in Errors, NEW language
        PROVE  Failure(err, language).status \in Nat /\ Failure(err, language).status >= 400
    <3>1. Failure(err, language).status = StatusCode(err)
      BY DEF Failure
    <3> QED
      BY <3>1, ErrorFacts
  <2> QED
    BY <2>1 DEF Refused
<1> QED
  BY <1>1 DEF Answering

LEMMA InvalidateKeeps ==
  ASSUME HttpInv, NEW c \in Clients, Invalidate(c), UNCHANGED ended
  PROVE  HttpInv'
<1> DEFINE old == call[c]
           next == [old EXCEPT !.left = Tail(@)]
<1>1. /\ Doing(c, "invalidate") /\ Become(c, next) /\ version' = version + 1
      /\ UNCHANGED <<written, entry, acknowledged>>
  BY DEF Invalidate, Pass
<1> SUFFICES ASSUME NEW r, r = old, NEW new, new = next, Become(c, new)
             PROVE  HttpInv'
  BY <1>1
<1>2. r # None /\ CallOK(r) /\ r.left # <<>> /\ Head(r.left) = "invalidate" /\ IsCall(r)
  BY <1>1, Serving
<1>3. new = [r EXCEPT !.left = Tail(@)]
  OBVIOUS
<1> HIDE DEF old, next
<1>4. /\ Alike(r, new)
      /\ new.left = Tail(r.left) /\ new.keys = r.keys /\ new.known = r.known
      /\ new.answer = r.answer /\ new.missed = r.missed
  BY <1>2, <1>3, Passed
<1>5. "invalidate" \in AfterSteps \ {"end"}
  BY DEF AfterSteps
<1>6. CallOK(new)
  BY <1>2, <1>4, <1>5, PassAnswering DEF old
<1>7. Answering(r)
  BY <1>2, <1>5, AnsweringSteps
<1>8. /\ call'[c] = new
      /\ \A d \in Clients \ {c} : call'[d] = call[d]
  BY Becomes
<1>9. SharedOK
  BY DEF HttpInv
<1>10. Forward
  <2>1. ASSUME NEW d \in Clients, NEW v \in 0..version, Holds(call'[d], v)
        PROVE  Holds(call[d], v) /\ call'[d].since = call[d].since
    <3>1. CASE d = c
      BY <1>2, <1>4, <1>8, <2>1, <3>1 DEF Holds, Alike, old
    <3>2. CASE d # c
      BY <1>8, <2>1, <3>2
    <3> QED
      BY <3>1, <3>2
  <2> QED
    BY <1>1, <2>1 DEF Forward
<1>11. Grows
  BY <1>1 DEF Grows
<1>12. ASSUME NEW m \in Settled'
       PROVE  m \in written'
  <2>1. /\ m \in acknowledged \/ \E d \in Clients : Landed(call'[d]) /\ m = call'[d].route
        /\ Routes[m].writes # {}
    BY <1>1 DEF Settled, Landing
  <2>2. CASE m \in Settled
    BY <1>1, <1>9, <2>2 DEF SharedOK
  <2>3. ASSUME NEW d \in Clients, Landed(call'[d]), m = call'[d].route
        PROVE  m \in written
    <3>1. CASE d = c
      <4>1. Fulfilled(r)
        BY <1>4, <1>7, <1>8, <2>3, <3>1, SuccessIsFulfilled DEF Landed
      <4>2. m = r.route /\ m \in DOMAIN Routes
        BY <1>2, <1>4, <1>8, <2>3, <3>1 DEF Alike, CallOK, Fixed
      <4>3. ~Routes[m].get
        BY <2>1, <4>2, RouteFacts
      <4> QED
        BY <4>1, <4>2, <4>3 DEF Fulfilled
    <3>2. CASE d # c
      <4>1. m \in Settled
        BY <1>8, <2>1, <2>3, <3>2 DEF Settled, Landing
      <4> QED
        BY <1>9, <4>1 DEF SharedOK
    <3> QED
      BY <3>1, <3>2
  <2> QED
    BY <1>1, <2>1, <2>2, <2>3 DEF Settled
<1>13. acknowledged' \subseteq DOMAIN Routes
  BY <1>1, <1>9 DEF SharedOK
<1>14. CallOK(new)'
  BY <1>6, <1>9, <1>10, <1>11, CallStays
<1> QED
  BY <1>1, <1>10, <1>11, <1>12, <1>13, <1>14, Stepped

LEMMA InvalidateFailsKeeps ==
  ASSUME HttpInv, NEW c \in Clients, InvalidateFails(c), UNCHANGED ended
  PROVE  HttpInv'
<1> DEFINE old == call[c]
           next == [old EXCEPT !.missed = TRUE, !.left = Tail(@)]
<1>1. Doing(c, "invalidate") /\ Become(c, next) /\ UNCHANGED shared
  BY DEF InvalidateFails
<1> SUFFICES ASSUME NEW r, r = old, NEW new, new = next, Become(c, new)
             PROVE  HttpInv'
  BY <1>1
<1>2. r # None /\ CallOK(r) /\ r.left # <<>> /\ Head(r.left) = "invalidate" /\ IsCall(r)
  BY <1>1, Serving
<1>3. new = [r EXCEPT !.missed = TRUE, !.left = Tail(@)]
  OBVIOUS
<1> HIDE DEF old, next
<1>4. /\ Alike(r, new)
      /\ new.left = Tail(r.left) /\ new.keys = r.keys /\ new.known = r.known
      /\ new.answer = r.answer /\ new.missed
  BY <1>2, <1>3 DEF IsCall, Fields, Alike
<1>5. "invalidate" \in AfterSteps \ {"end"}
  BY DEF AfterSteps
<1>6. CallOK(new) /\ Follows(r, new)
  BY <1>2, <1>4, <1>5, PassAnswering DEF old
<1> QED
  BY <1>1, <1>6, Moved DEF shared, old

LEMMA RefusalStatus ==
  ASSUME NEW r, Refused(r)
  PROVE  r.answer.status \in Nat /\ r.answer.status >= 400
<1>1. PICK err \in Errors : r.answer = Failure(err, Language(r))
  BY DEF Refused
<1>2. r.answer.status = StatusCode(err)
  BY <1>1 DEF Failure
<1> QED
  BY <1>2, ErrorFacts

LEMMA SendKeeps ==
  ASSUME HttpInv, NEW c \in Clients, Send(c), UNCHANGED ended
  PROVE  HttpInv'
<1> DEFINE old == call[c]
           late == old.late /\ old.answer.status < 400
           answer == IF late THEN Failure({"Timeout"}, LanguageOf(c)) ELSE old.answer
           next == [old EXCEPT !.left = <<>>, !.answer = answer]
<1>1. /\ Doing(c, "end") /\ Become(c, next)
      /\ acknowledged' = IF late \/ old.missed \/ old.answer.status >= 400 THEN acknowledged
                         ELSE acknowledged \cup {old.route}
      /\ UNCHANGED <<written, version, entry>>
  BY DEF Send
<1> SUFFICES ASSUME NEW r, r = old, NEW new, new = next, Become(c, new)
             PROVE  HttpInv'
  BY <1>1
<1>2. r # None /\ CallOK(r) /\ r.left # <<>> /\ Head(r.left) = "end" /\ IsCall(r)
  BY <1>1, Serving
<1>3. new = [r EXCEPT !.left = <<>>, !.answer = answer]
  OBVIOUS
<1>4. \/ answer = Failure({"Timeout"}, Language(r))
      \/ ~late /\ answer = r.answer
  BY DEF Language, LanguageOf
<1>5. /\ acknowledged \subseteq acknowledged'
      /\ acknowledged' \subseteq acknowledged \cup {r.route}
      /\ acknowledged' # acknowledged => ~r.missed /\ ~(r.answer.status >= 400)
  BY <1>1
<1> HIDE DEF old, answer, late, next
<1>6. /\ Alike(r, new)
      /\ new.left = <<>> /\ new.keys = r.keys /\ new.known = r.known
      /\ new.answer = answer /\ new.missed = r.missed
  BY <1>2, <1>3 DEF IsCall, Fields, Alike
<1>7. Fixed(r) /\ Known(r) /\ Answering(r) /\ ToSet(r.left) = {"end"}
  <2>1. "end" \in AfterSteps
    BY DEF AfterSteps
  <2> QED
    BY <1>2, <2>1, AnsweringSteps, ClosedSteps
<1>8. ToSet(new.left) = {}
  BY <1>6, ToSetOfNone
<1>9. {"Timeout"} \in Errors
  BY DEF Errors
<1>11. Refused(new) \/ (new.answer = r.answer /\ (Refused(new) \/ Fulfilled(new)))
  <2>1. CASE answer = Failure({"Timeout"}, Language(r))
    BY <1>6, <1>9, <2>1 DEF Refused, Alike, Language
  <2>2. CASE answer = r.answer
    <3>1. Refused(r) => Refused(new)
      BY <1>6, <2>2 DEF Refused, Alike, Language
    <3>2. Fulfilled(r) => Fulfilled(new)
      BY <1>6, <2>2 DEF Fulfilled, Alike, Language
    <3> QED
      BY <1>6, <1>7, <2>2, <3>1, <3>2 DEF Answering
  <2> QED
    BY <1>4, <2>1, <2>2
<1>12. CallOK(new)
  <2>1. Fixed(new) /\ Known(new)
    BY <1>6, <1>7, StillKnown
  <2>2. Answering(new)
    BY <1>6, <1>8, <1>11 DEF Answering
  <2> QED
    BY <2>1, <2>2 DEF CallOK
<1>13. Landed(r) <=> r.answer.status < 400 /\ ~r.missed
  BY <1>2, <1>7 DEF Landed
<1>14. Landed(new) => Landed(r)
  <2>1. ASSUME Landed(new)
        PROVE  Landed(r)
    <3>1. new.answer.status < 400 /\ ~r.missed
      BY <1>6, <2>1 DEF Landed
    <3>2. ~Refused(new)
      BY <3>1, RefusalStatus
    <3> QED
      BY <1>11, <1>13, <3>1, <3>2
  <2> QED
    BY <2>1
<1>15. Follows(r, new)
  BY <1>2, <1>6, <1>7, <1>14, StillFollows DEF old
<1>16. ASSUME NEW m \in acknowledged'
       PROVE  m \in acknowledged \cup Settled \/ Routes[m].writes = {}
  <2>1. CASE m \in acknowledged
    BY <2>1
  <2>2. CASE m \notin acknowledged
    <3>1. m = r.route /\ ~r.missed /\ ~(r.answer.status >= 400)
      BY <1>5, <2>2
    <3>2. Fulfilled(r)
      BY <1>7, <3>1, RefusalStatus DEF Answering
    <3>3. Landed(r)
      BY <1>13, <3>1, <3>2 DEF Fulfilled
    <3> QED
      BY <3>1, <3>3 DEF Settled, Landing, old
  <2> QED
    BY <2>1, <2>2
<1>17. Forward
  BY <1>1, <1>15, <1>16, FollowingIsForward DEF old
<1>18. SharedOK
  BY DEF HttpInv
<1>19. Grows
  BY <1>1, <1>5 DEF Grows
<1>20. Settled' \subseteq written' /\ acknowledged' \subseteq DOMAIN Routes
  BY <1>1, <1>5, <1>7, <1>17, <1>18 DEF Forward, SharedOK, Fixed
<1>21. CallOK(new)'
  BY <1>12, <1>17, <1>18, <1>19, CallStays
<1> QED
  BY <1>1, <1>17, <1>19, <1>20, <1>21, Stepped

LEMMA LeaveKeeps ==
  ASSUME HttpInv, NEW c \in Clients, Leave(c), UNCHANGED ended
  PROVE  HttpInv'
<1>1. Become(c, None) /\ UNCHANGED shared
  BY DEF Leave
<1>2. Follows(call[c], None)
  BY DEF Follows
<1> QED
  BY <1>1, <1>2, Moved DEF shared

LEMMA DeadlinePassesKeeps ==
  ASSUME HttpInv, NEW c \in Clients, DeadlinePasses(c), UNCHANGED ended
  PROVE  HttpInv'
<1> DEFINE old == call[c]
           next == [old EXCEPT !.late = TRUE]
<1>1. old # None /\ Become(c, next) /\ UNCHANGED shared
  BY DEF DeadlinePasses
<1> SUFFICES ASSUME NEW r, r = old, NEW new, new = next, Become(c, new)
             PROVE  HttpInv'
  BY <1>1
<1>2. r # None /\ CallOK(r) /\ IsCall(r) /\ Fixed(r) /\ Known(r)
  BY <1>1 DEF HttpInv, CallsOK, CallOK, Fixed
<1>3. new = [r EXCEPT !.late = TRUE]
  OBVIOUS
<1> HIDE DEF old, next
<1>4. /\ Alike(r, new)
      /\ new.left = r.left /\ new.keys = r.keys /\ new.known = r.known
      /\ new.answer = r.answer /\ new.missed = r.missed
  BY <1>2, <1>3 DEF IsCall, Fields, Alike
<1>5. Follows(r, new)
  <2>1. Landed(new) => Landed(r)
    BY <1>2, <1>4 DEF Landed
  <2> QED
    BY <1>2, <1>4, <2>1, StillFollows DEF old
<1>6. Fixed(new) /\ Known(new)
  BY <1>2, <1>4, StillKnown
<1>7. Asking(r) => Asking(new)
  BY <1>4 DEF Asking, Alike
<1>8. Answering(r) => Answering(new)
  <2>1. Refused(r) => Refused(new)
    BY <1>4 DEF Refused, Alike, Language
  <2>2. Fulfilled(r) => Fulfilled(new)
    BY <1>4 DEF Fulfilled, Alike, Language
  <2> QED
    BY <1>4, <2>1, <2>2 DEF Answering
<1>9. CallOK(new)
  BY <1>2, <1>6, <1>7, <1>8 DEF CallOK
<1> QED
  BY <1>1, <1>5, <1>9, Moved DEF shared, old

LEMMA ArriveKeeps ==
  ASSUME HttpInv, NEW c \in Clients, NEW asked \in Asked, Arrive(c, asked), UNCHANGED ended
  PROVE  HttpInv'
<1> DEFINE next == [route |-> asked.route, bearer |-> asked.bearer, sid |-> asked.sid,
                    header |-> asked.header, left |-> Chain(asked.route), keys |-> <<>>,
                    known |-> None, late |-> FALSE, missed |-> FALSE, since |-> acknowledged,
                    live |-> asked.sid \notin ended, answer |-> None]
<1>1. Become(c, next) /\ UNCHANGED shared
  BY DEF Arrive
<1> SUFFICES ASSUME NEW new, new = next, Become(c, new)
             PROVE  HttpInv'
  BY <1>1
<1>2. /\ new.route \in DOMAIN Routes /\ new.header \in Headers
      /\ new.bearer = asked.bearer /\ new.sid = asked.sid
      /\ new.left = Chain(new.route) /\ new.keys = <<>> /\ new.known = None
      /\ new.since = acknowledged /\ new.live = (asked.sid \notin ended)
  BY DEF Asked
<1>3. IsCall(new)
  BY DEF IsCall, Fields
<1> HIDE DEF next
<1>4. /\ Open(new.left) /\ "load" \notin ToSet(new.left)
      /\ new.route \in DOMAIN Private => "token" \in ToSet(new.left)
      /\ "recall" \in ToSet(new.left) => new.route = "check"
  BY <1>2, ChainFacts
<1>5. Fixed(new)
  <2>1. <<>> \in Seq(KeysOf(new))
    BY ToSetOfNone
  <2> QED
    BY <1>2, <1>3, <2>1 DEF Fixed
<1>6. Known(new)
  BY <1>2, CallersAssumption DEF Known
<1>7. Asking(new)
  BY <1>4 DEF Asking
<1>8. Follows(call[c], new)
  <2>1. ~Landed(new)
    BY <1>4, OpenSteps DEF Landed
  <2>2. \A v : ~Holds(new, v)
    BY <1>2, ToSetOfNone DEF Holds
  <2> QED
    BY <1>2, <2>1, <2>2 DEF Follows
<1>9. CallOK(new)
  BY <1>5, <1>6, <1>7 DEF CallOK
<1> QED
  BY <1>1, <1>8, <1>9, Moved DEF shared

-----------------------------------------------------------------------------
(* The steps of no request, and those of the session store. *)

LEMMA NothingServed ==
  ASSUME HttpInv, UNCHANGED <<call, version, acknowledged, written>>, ended \subseteq ended',
         \A key \in DOMAIN entry' : key \in DOMAIN entry /\ entry'[key] = entry[key]
  PROVE  HttpInv'
<1>1. SharedOK /\ CallsOK
  BY DEF HttpInv
<1>2. Settled' = Settled
  BY DEF Settled, Landing
<1>3. Forward
  BY <1>2 DEF Forward
<1>4. Grows
  BY DEF Grows
<1>5. ASSUME NEW key, NEW a, key \in DOMAIN entry', a = entry'[key]
      PROVE  EntryOK(key, a)'
  <2>1. EntryOK(key, a)
    BY <1>1, <1>5 DEF SharedOK
  <2> QED
    BY <1>1, <1>3, <2>1, EntryStays
<1>6. SharedOK'
  BY <1>1, <1>2, <1>5 DEF SharedOK
<1>7. ASSUME NEW c \in Clients, NEW r, r = call'[c], r # None
      PROVE  CallOK(r)'
  <2>1. CallOK(r)
    BY <1>1, <1>7 DEF CallsOK
  <2> QED
    BY <1>1, <1>3, <1>4, <2>1, CallStays
<1>8. CallsOK'
  BY <1>7 DEF CallsOK
<1> QED
  BY <1>6, <1>8 DEF HttpInv

LEMMA EndedGrow ==
  ASSUME [Next]_vars
  PROVE  ended \subseteq ended'
  BY DEF Next, vars, storeVars, RefreshStep, PasswordStep, LogoutStep, End, Expire, CheckPassword,
         Create, Locate, LoadLocated, Rotate, AnswerRefresh, Validate, Revoke, Logout, TakeToken,
         StorePassword, LoadUser, RevokeLoaded, CheckCurrent, StoreChanged

LEMMA HttpStepKeeps ==
  ASSUME Inv, HttpInv, HttpStep(Asked), UNCHANGED vars
  PROVE  HttpInv'
<1>1. UNCHANGED ended
  BY DEF vars
<1>2. ASSUME NEW c \in Clients, Progress(c)
      PROVE  HttpInv'
  BY <1>1, <1>2, PassesKeep, ReadKeyKeeps, LookupKeeps, CheckTokenKeeps, RefuseCheckKeeps,
     RecallKeeps, ReadDataKeeps, CommitKeeps, FailKeeps, MemoryKeeps, StoreKeeps, InvalidateKeeps,
     SendKeeps, LeaveKeeps DEF Progress
<1>3. ASSUME NEW c \in Clients, Faults(c)
      PROVE  HttpInv'
  BY <1>1, <1>3, PassesKeep, SessionUnreadableKeeps, FailAfterCommitKeeps, InvalidateFailsKeeps,
     DeadlinePassesKeeps DEF Faults
<1>4. ASSUME NEW c \in Clients, NEW asked \in Asked, Arrive(c, asked)
      PROVE  HttpInv'
  BY <1>1, <1>4, ArriveKeeps
<1>5. CASE EntryExpires
  <2>1. \A key \in DOMAIN entry' : key \in DOMAIN entry /\ entry'[key] = entry[key]
    BY <1>5 DEF EntryExpires
  <2> QED
    BY <1>1, <1>5, <2>1, NothingServed DEF EntryExpires
<1>6. CASE MemoryExpires
  BY <1>1, <1>6, NothingServed DEF MemoryExpires
<1> QED
  BY <1>2, <1>3, <1>4, <1>5, <1>6 DEF HttpStep

-----------------------------------------------------------------------------
(* The invariant of the server. *)

LEMMA ServerInitInv == Init /\ HttpInit => ServerInv
<1> SUFFICES ASSUME Init, HttpInit
             PROVE  ServerInv
  OBVIOUS
<1>1. Inv
  BY InitInv
<1>2. \A c \in Clients : call[c] = None
  BY DEF HttpInit
<1>3. Settled = {}
  BY <1>2 DEF HttpInit, Settled, Landing, Landed
<1>4. SharedOK
  BY <1>3 DEF HttpInit, SharedOK
<1>5. CallsOK /\ DOMAIN call = Clients
  BY <1>2 DEF HttpInit, CallsOK
<1> QED
  BY <1>1, <1>4, <1>5 DEF ServerInv, HttpInv

LEMMA ServerNextInv == ServerInv /\ [ServerStep(Asked)]_<<vars, httpVars>> => ServerInv'
<1> SUFFICES ASSUME ServerInv, [ServerStep(Asked)]_<<vars, httpVars>>
             PROVE  ServerInv'
  OBVIOUS
<1>1. Inv /\ HttpInv
  BY DEF ServerInv
<1>2. [Next]_vars
  BY DEF ServerStep
<1>3. Inv'
  BY <1>1, <1>2, NextInv
<1>4. CASE UNCHANGED httpVars
  <2>1. ended \subseteq ended'
    BY <1>2, EndedGrow
  <2> QED
    BY <1>1, <1>3, <1>4, <2>1, NothingServed DEF httpVars, ServerInv
<1>5. CASE HttpStep(Asked) /\ UNCHANGED vars
  BY <1>1, <1>3, <1>5, HttpStepKeeps DEF ServerInv
<1> QED
  BY <1>4, <1>5 DEF ServerStep

(* The invariant of the whole server, whatever its callers ask at once: the *)
(* sessions' Inv, and for every GET, every remembered answer and every     *)
(* request on its way, which commands it shows and whose it is.            *)
THEOREM ServerInvHolds == ServerSpec => []ServerInv
  BY ServerInitInv, ServerNextInv, PTL DEF ServerSpec

LEMMA AnsweredIs ==
  ASSUME ServerInv, NEW c \in Clients, NEW r, r = call[c], Answered(c)
  PROVE  /\ Fixed(r) /\ Answering(r)
         /\ r.answer.status < 400 => Fulfilled(r)
         /\ ~(r.answer.status < 400) => Refused(r)
<1>1. r # None /\ CallOK(r) /\ r.left = <<>>
  BY DEF Answered, ServerInv, HttpInv, CallsOK
<1>2. ~Asking(r)
  BY <1>1, OpenSteps DEF Asking
<1>3. Fixed(r) /\ Answering(r)
  BY <1>1, <1>2 DEF CallOK
<1> QED
  BY <1>3, SuccessIsFulfilled DEF Answering, Fulfilled

(* A GET never shows less than what was acknowledged before it began, for  *)
(* any number of requests, languages and tokens, however they meet: every  *)
(* command that writes a table is registered with Invalidate, and Cache    *)
(* reads the version before the data.  The username check is left out.     *)
THEOREM AnswersStayFresh == ServerSpec => []AnswersAreFresh
<1>1. ServerInv => AnswersAreFresh
  <2> SUFFICES ASSUME ServerInv, NEW c \in Clients, NEW r, r = call[c],
                      Answered(c), r.answer.status < 400, Routes[r.route].get, r.route # "check",
                      NEW m \in r.since, Touches(m, r.route)
               PROVE  m \in r.answer.shown
    BY DEF AnswersAreFresh, Succeeded
  <2>1. Fulfilled(r)
    BY AnsweredIs
  <2> QED
    BY <2>1 DEF Fulfilled, Touching
<1> QED
  BY <1>1, ServerInvHolds, PTL

(* An answer, remembered or loaded, is the caller's own or a shared one,   *)
(* in the language the caller asked for, and a private route answers with  *)
(* success only to its user, and to nobody whose session had ended when    *)
(* the request began: the identity and language of a cache key are those   *)
(* of the request that computed it, and Session runs before the handler.   *)
THEOREM AnswersReachTheCaller == ServerSpec => []AnswersAreForTheCaller
<1>1. ServerInv => AnswersAreForTheCaller
  <2> SUFFICES ASSUME ServerInv, NEW c \in Clients, NEW r, r = call[c], Answered(c)
               PROVE  /\ Asks(r.header, r.answer.language)
                      /\ r.answer.status < 400 /\ r.route \in DOMAIN Private =>
                           /\ r.answer.of = r.bearer /\ r.bearer \in {Account, Other}
                           /\ r.bearer = Account => r.live
    BY DEF AnswersAreForTheCaller, Succeeded
  <2>1. /\ Fixed(r) /\ Answering(r)
        /\ r.answer.status < 400 => Fulfilled(r)
    BY AnsweredIs
  <2>2. r.answer.language = Language(r)
    <3>1. CASE Refused(r)
      <4>1. PICK err \in Errors : r.answer = Failure(err, Language(r))
        BY <3>1 DEF Refused
      <4> QED
        BY <4>1 DEF Failure
    <3>2. CASE Fulfilled(r)
      BY <3>2 DEF Fulfilled
    <3> QED
      BY <2>1, <3>1, <3>2 DEF Answering
  <2>3. Asks(r.header, r.answer.language)
    BY <2>1, <2>2, LanguageIsAskedFor DEF Fixed, Language
  <2> QED
    BY <2>1, <2>3 DEF Fulfilled, Users
<1> QED
  BY <1>1, ServerInvHolds, PTL

(* Whatever a service fails with, the status, the code and the slug of the *)
(* envelope are those of one row of ERRORS.md, and a server error does not *)
(* show its cause: the three switches of apperror agree on every mixture   *)
(* of causes a handler can return.                                         *)
THEOREM ErrorTableHolds == ServerSpec => []ErrorsAgree
<1>1. ServerInv => ErrorsAgree
  <2> SUFFICES ASSUME ServerInv, NEW c \in Clients, NEW r, r = call[c], Answered(c),
                      ~(r.answer.status < 400), "http422" \notin r.answer.reason,
                      NEW row, row = <<r.answer.slug, r.answer.code, r.answer.status>>
               PROVE  /\ r.answer.code = 1000 + r.answer.status
                      /\ (\E known \in Documented : known[1] = r.answer.slug) => row \in Documented
                      /\ r.answer.status >= 500 => r.answer.reason = {r.answer.slug}
    BY DEF ErrorsAgree, Succeeded
  <2>1. PICK err \in Errors : r.answer = Failure(err, Language(r))
    BY AnsweredIs DEF Refused
  <2>2. /\ r.answer.status = StatusCode(err) /\ r.answer.code = Code(err)
        /\ r.answer.slug = Slug(err) /\ r.answer.reason = ErrorDetails(err)
    BY <2>1 DEF Failure
  <2>3. "http422" \notin err
    BY <2>2, ErrorFacts DEF ErrorDetails
  <2>4. Agrees(err)
    BY <2>3, ErrorFacts
  <2>5. ASSUME NEW known \in Documented
        PROVE  known[1] \notin {"foreign_key_violation", "check_constraint_violation"}
    BY DEF Documented
  <2> QED
    BY <2>2, <2>4, <2>5 DEF Agrees, ErrorDetails
<1> QED
  BY <1>1, ServerInvHolds, PTL
=============================================================================
