--------------------------- MODULE AccountsProofs ---------------------------
(***************************************************************************)
(* Proofs about one-time codes and the account service, for any number of  *)
(* addresses, names, accounts, requests, attempts and codes: what the code *)
(* store promises whatever its users do, that the account service uses it  *)
(* as module Codes allows, and that no two accounts come to share an       *)
(* address or a name.                                                      *)
(***************************************************************************)
EXTENDS Accounts, TLAPS

-----------------------------------------------------------------------------
(* The inductive invariant of the code store (module Codes). *)

(* What a request does with a code has a key.                              *)
Keyed == \A c \in Requests : req[c].at # "idle" => req[c].key \in Keys

(* Who sends holds the cooldown of the key, and a code that is not mailed. *)
SendersOK ==
  \A c \in Requests : req[c].at \in Sending =>
    /\ req[c].code \in 1..made /\ req[c].code \notin mailed
    /\ sentFor[req[c].code] = [key |-> req[c].key, user |-> req[c].user]
    /\ cooldown[req[c].key]

(* A stored code was made for the key it is stored under, and not accepted *)
(* so far.                                                                 *)
StoredOK ==
  \A k \in Keys : stored[k] # Wrong =>
    /\ stored[k] <= made
    /\ sentFor[stored[k]].key = k
    /\ accepted[stored[k]] = 0

(* Nothing happened to a code before it is made.                           *)
UnmadeOK ==
  /\ \A n \in mailed : n <= made
  /\ \A n \in Codes : n > made => accepted[n] = 0 /\ tries[n] = 0

(* Nothing happened to a code before it is stored.                         *)
NewOK ==
  \A c \in Requests : req[c].at = "setCode" =>
    /\ accepted[req[c].code] = 0 /\ tries[req[c].code] = 0
    /\ stored[req[c].key] # req[c].code

(* The shared counter bounds the failed attempts on the stored code.       *)
TriesOK ==
  \A k \in Keys :
    /\ attempts[k].count < MaxAttempts
    /\ stored[k] # Wrong /\ tries[stored[k]] > 0 =>
         attempts[k].of = stored[k] /\ tries[stored[k]] <= attempts[k].count

(* While a code is sent its key holds no other.                            *)
SentOK ==
  \A c \in Requests : req[c].at \in {"setSubject", "mail"} =>
    stored[req[c].key] \in {Wrong, req[c].code}

BoundTo(k, u, n) == subject[k] \in {NoSubject, [user |-> u, code |-> n]}

(* The account is stored by the time a code for one is mailed.             *)
MailingOK ==
  \A c \in Requests :
    req[c].at = "mail" /\ req[c].user # None => BoundTo(req[c].key, req[c].user, req[c].code)

BoundOK ==
  \A k \in Keys :
    stored[k] \in mailed /\ sentFor[stored[k]].user # None =>
      BoundTo(k, sentFor[stored[k]].user, stored[k])

CodesInv ==
  /\ CodesTypeOK /\ Keyed
  /\ SendersOK /\ OneSenderAtATime /\ StoredOK /\ UnmadeOK /\ NewOK
  /\ CodesWorkOnce /\ TriesOK /\ GuessesAreBounded /\ SentOK
  /\ MailingOK /\ BoundOK

LEMMA CodeNumbers ==
  /\ Codes \subseteq Nat /\ Wrong \notin Codes /\ Default \notin Codes
  /\ Wrong # Default /\ Default \in Nat /\ MaxCodes \in Nat /\ MaxAttempts \in Nat \ {0}
  BY MaxCodesAssumption, MaxAttemptsAssumption DEF Codes, Wrong, Default

LEMMA CodesInitInv == CodesInit => CodesInv
  BY CodeNumbers, NoneIsNoUser, MaxCodesAssumption
  DEF CodesInit, CodesInv, CodesTypeOK, Keyed, SendersOK, OneSenderAtATime, StoredOK,
      UnmadeOK, NewOK,
      CodesWorkOnce, TriesOK, GuessesAreBounded, SentOK, MailingOK, BoundOK, NoRequest, NoAttempts,
      NoSubject, Stages, Sending, Wrong

-----------------------------------------------------------------------------
(* What a step does to the requests. *)

RequestRecords ==
  [at : Stages, key : Keys \cup {None}, user : Users \cup {None}, code : {Wrong, Default} \cup Codes]

OthersStay(c) == \A d \in Requests \ {c} : req'[d] = req[d]

LEMMA GoesFacts ==
  ASSUME CodesTypeOK, NEW c \in Requests, NEW stage \in Stages, Goes(c, stage)
  PROVE  /\ req' \in [Requests -> RequestRecords] /\ OthersStay(c)
         /\ req'[c].at = stage /\ req'[c].key = req[c].key
         /\ req'[c].user = req[c].user /\ req'[c].code = req[c].code
  BY DEF CodesTypeOK, RequestRecords, OthersStay, Goes

LEMMA EndsFacts ==
  ASSUME CodesTypeOK, NEW c \in Requests, Ends(c)
  PROVE  /\ req' \in [Requests -> RequestRecords] /\ OthersStay(c)
         /\ req'[c].at = "idle"
  BY DEF CodesTypeOK, RequestRecords, OthersStay, Ends, NoRequest, Stages

LEMMA SenderFacts ==
  ASSUME CodesInv, NEW c \in Requests, req[c].at \in Sending
  PROVE  /\ req[c].key \in Keys /\ req[c].code \in Codes /\ req[c].code <= made
         /\ made \in Nat /\ made <= MaxCodes
         /\ \A d \in Requests \ {c} : req[d].at \in Sending =>
              req[d].key # req[c].key /\ req[d].code # req[c].code
<1>1. req[c].at # "idle" /\ made \in Nat /\ made <= MaxCodes
  BY CodeNumbers DEF CodesInv, CodesTypeOK, Sending
<1>2. ASSUME NEW d \in Requests, req[d].at \in Sending
      PROVE  /\ req[d].code \in 1..made
             /\ sentFor[req[d].code].key = req[d].key
  <2>1. /\ req[d].code \in 1..made
        /\ sentFor[req[d].code] = [key |-> req[d].key, user |-> req[d].user]
    BY <1>2 DEF CodesInv, SendersOK
  <2> QED
    BY <2>1
<1>3. req[c].key \in Keys
  BY <1>1 DEF CodesInv, Keyed
<1>7. req[c].code \in 1..made
  BY <1>2
<1>4. req[c].code \in Codes /\ req[c].code <= made
  BY <1>1, <1>7, CodeNumbers DEF Codes
<1>5. ASSUME NEW d \in Requests \ {c}, req[d].at \in Sending
      PROVE  req[d].key # req[c].key
  BY <1>5 DEF CodesInv, OneSenderAtATime
<1>6. ASSUME NEW d \in Requests \ {c}, req[d].at \in Sending
      PROVE  req[d].code # req[c].code
  <2>1. sentFor[req[c].code].key = req[c].key
    BY <1>2
  <2>2. sentFor[req[d].code].key = req[d].key
    BY <1>2, <1>6
  <2> QED
    BY <2>1, <2>2, <1>5, <1>6
<1> QED
  BY <1>1, <1>3, <1>4, <1>5, <1>6

(* The new code is stored, unless Redis fails.                             *)
LEMMA SetCodeInv ==
  ASSUME CodesInv, NEW c \in Requests, SetCode(c)
  PROVE  CodesInv'
<1>1. /\ req' \in [Requests -> RequestRecords] /\ OthersStay(c)
      /\ req'[c].at \in {"mail", "setSubject", "undoCooldown"} /\ req'[c].key = req[c].key
      /\ req'[c].user = req[c].user /\ req'[c].code = req[c].code
  BY GoesFacts DEF SetCode, Stages, Sending, CodesInv
<1>2. /\ req[c].at \in Sending /\ req[c].key \in Keys /\ req[c].code \in Codes
      /\ req[c].code <= made /\ made \in Nat /\ made <= MaxCodes
      /\ \A d \in Requests \ {c} : req[d].at \in Sending =>
           req[d].key # req[c].key /\ req[d].code # req[c].code
  BY SenderFacts DEF SetCode, Sending
<1>17. /\ stored' \in {stored, [stored EXCEPT ![req[c].key] = req[c].code]}
       /\ UNCHANGED <<attempts, cooldown, subject, made, mailed, sentFor, accepted, tries>>
  BY DEF SetCode, history
<1>18. \A k \in Keys : stored'[k] # stored[k] => k = req[c].key /\ stored'[k] = req[c].code
  BY <1>17 DEF CodesInv, CodesTypeOK
<1>16. accepted[req[c].code] = 0 /\ tries[req[c].code] = 0
  BY DEF CodesInv, NewOK, SetCode
<1>3. CodesTypeOK'
  BY <1>1, <1>2, CodeNumbers
  DEF CodesInv, CodesTypeOK, SetCode, RequestRecords, OthersStay, Sending, store, history, Wrong
<1>4. Keyed'
  BY <1>1, <1>2, CodeNumbers
  DEF CodesInv, Keyed, SetCode, RequestRecords, OthersStay, Sending, store, history, Wrong
<1>5. SendersOK'
  <2> SUFFICES ASSUME NEW d \in Requests, req'[d].at \in Sending
               PROVE  /\ req'[d].code \in 1..made /\ req'[d].code \notin mailed
                      /\ sentFor[req'[d].code] = [key |-> req'[d].key, user |-> req'[d].user]
                      /\ cooldown[req'[d].key]
    BY <1>17 DEF SendersOK
  <2>1. /\ req[d].at \in Sending
        /\ req'[d].code = req[d].code /\ req'[d].key = req[d].key /\ req'[d].user = req[d].user
    BY <1>1 DEF OthersStay, SetCode, Sending
  <2> QED
    BY <2>1 DEF CodesInv, SendersOK
<1>6. OneSenderAtATime'
  BY <1>1, <1>2 DEF CodesInv, OneSenderAtATime, OthersStay
<1>7. StoredOK'
  <2> SUFFICES ASSUME NEW k \in Keys, stored'[k] # Wrong
               PROVE  /\ stored'[k] <= made /\ sentFor[stored'[k]].key = k
                      /\ accepted[stored'[k]] = 0
    BY DEF SetCode, StoredOK, history
  <2>1. stored'[k] = stored[k] \/ (k = req[c].key /\ stored'[k] = req[c].code)
    BY DEF SetCode, CodesInv, CodesTypeOK
  <2>2. sentFor[req[c].code] = [key |-> req[c].key, user |-> req[c].user]
    BY <1>2 DEF CodesInv, SendersOK
  <2>3. req[c].code <= made /\ accepted[req[c].code] = 0
    BY <1>2 DEF SetCode, CodesInv, NewOK
  <2> QED
    BY <2>1, <2>2, <2>3 DEF CodesInv, StoredOK
<1>8. UnmadeOK'
  BY <1>17 DEF CodesInv, UnmadeOK
<1>9. NewOK'
  <2> SUFFICES ASSUME NEW d \in Requests, req'[d].at = "setCode"
               PROVE  /\ accepted[req'[d].code] = 0 /\ tries[req'[d].code] = 0
                      /\ stored'[req'[d].key] # req'[d].code
    BY DEF SetCode, NewOK, history
  <2>1. d # c /\ req'[d] = req[d]
    BY <1>1 DEF OthersStay
  <2>2. req[d].key # req[c].key /\ req[d].key \in Keys
    BY <1>2, <2>1, SenderFacts DEF Sending
  <2>3. stored'[req[d].key] = stored[req[d].key]
    BY <2>2 DEF SetCode, CodesInv, CodesTypeOK
  <2> QED
    BY <2>1, <2>3 DEF CodesInv, NewOK
<1>10. CodesWorkOnce'
  BY <1>17 DEF CodesInv, CodesWorkOnce
<1>11. TriesOK'
  <2> SUFFICES ASSUME NEW k \in Keys
               PROVE  /\ attempts[k].count < MaxAttempts
                      /\ stored'[k] # Wrong /\ tries[stored'[k]] > 0 =>
                           attempts[k].of = stored'[k] /\ tries[stored'[k]] <= attempts[k].count
    BY <1>17 DEF TriesOK
  <2>1. CASE stored'[k] = stored[k]
    BY <2>1 DEF CodesInv, TriesOK
  <2>2. CASE stored'[k] # stored[k]
    <3>1. tries[stored'[k]] = 0
      BY <1>18, <1>16, <2>2
    <3> QED
      BY <3>1 DEF CodesInv, TriesOK
  <2> QED
    BY <2>1, <2>2
<1>12. GuessesAreBounded'
  BY <1>17 DEF CodesInv, GuessesAreBounded
<1>13. SentOK'
  <2> SUFFICES ASSUME NEW d \in Requests, req'[d].at \in {"setSubject", "mail"}
               PROVE  stored'[req'[d].key] \in {Wrong, req'[d].code}
    BY DEF SentOK
  <2>1. CASE d = c
    <3>1. stored' = [stored EXCEPT ![req[c].key] = req[c].code]
      BY <1>1, <2>1 DEF SetCode, Goes, CodesInv, CodesTypeOK
    <3> QED
      BY <1>1, <1>2, <2>1, <3>1 DEF CodesInv, CodesTypeOK
  <2>2. CASE d # c
    <3>1. req'[d] = req[d] /\ req[d].at \in Sending
      BY <1>1, <2>2 DEF OthersStay, Sending
    <3>2. req[d].key # req[c].key /\ req[d].key \in Keys
      BY <1>2, <2>2, <3>1, SenderFacts
    <3>3. stored'[req[d].key] = stored[req[d].key]
      BY <3>2 DEF SetCode, CodesInv, CodesTypeOK
    <3> QED
      BY <3>1, <3>3 DEF CodesInv, SentOK
  <2> QED
    BY <2>1, <2>2
<1>14. MailingOK'
  <2> SUFFICES ASSUME NEW d \in Requests, req'[d].at = "mail", req'[d].user # None
               PROVE  BoundTo(req[d].key, req[d].user, req[d].code) /\ req'[d] = req[d]
    BY DEF SetCode, MailingOK, BoundTo
  <2>1. d # c
    BY <1>1 DEF SetCode, Goes, CodesInv, CodesTypeOK
  <2> QED
    BY <1>1, <2>1 DEF OthersStay, CodesInv, MailingOK
<1>15. BoundOK'
  <2> SUFFICES ASSUME NEW k \in Keys, stored'[k] \in mailed, sentFor[stored'[k]].user # None
               PROVE  BoundTo(k, sentFor[stored'[k]].user, stored'[k])
    BY DEF SetCode, BoundOK, BoundTo, history
  <2>1. stored'[k] = stored[k] \/ stored'[k] = req[c].code
    BY DEF SetCode, CodesInv, CodesTypeOK
  <2>2. req[c].code \notin mailed
    BY <1>2 DEF CodesInv, SendersOK
  <2> QED
    BY <2>1, <2>2 DEF CodesInv, BoundOK
<1> QED
  BY <1>3, <1>4, <1>5, <1>6, <1>7, <1>8, <1>9, <1>10, <1>11, <1>12, <1>13, <1>14, <1>15 DEF
      CodesInv

(* The account is stored beside the code, unless Redis fails.              *)
LEMMA SetSubjectInv ==
  ASSUME CodesInv, NEW c \in Requests, SetSubject(c)
  PROVE  CodesInv'
<1>1. /\ req' \in [Requests -> RequestRecords] /\ OthersStay(c)
      /\ req'[c].at \in {"mail", "undoCode"} /\ req'[c].key = req[c].key
      /\ req'[c].user = req[c].user /\ req'[c].code = req[c].code
  BY GoesFacts DEF SetSubject, Stages, Sending, CodesInv
<1>2. /\ req[c].at \in Sending /\ req[c].key \in Keys /\ req[c].code \in Codes
      /\ req[c].code <= made /\ made \in Nat /\ made <= MaxCodes
      /\ \A d \in Requests \ {c} : req[d].at \in Sending =>
           req[d].key # req[c].key /\ req[d].code # req[c].code
  BY SenderFacts DEF SetSubject, Sending
<1>3. CodesTypeOK'
  <2>1. [user |-> req[c].user, code |-> req[c].code]
          \in [user : Users \cup {None}, code : {Wrong} \cup Codes]
    BY <1>2 DEF CodesInv, CodesTypeOK
  <2>2. subject' \in [Keys -> [user : Users \cup {None}, code : {Wrong} \cup Codes]]
    BY <1>2, <2>1 DEF SetSubject, CodesInv, CodesTypeOK
  <2> QED
    BY <1>1, <2>2 DEF SetSubject, CodesInv, CodesTypeOK, RequestRecords, history
<1>4. Keyed'
  BY <1>1, <1>2, CodeNumbers
  DEF CodesInv, Keyed, SetSubject, RequestRecords, OthersStay, Sending, store, history, Wrong
<1>5. SendersOK'
  <2>1. /\ \A d \in Requests : /\ req'[d].at \in Sending => req[d].at \in Sending
                                /\ req'[d].code = req[d].code /\ req'[d].key = req[d].key
                                /\ req'[d].user = req[d].user
    BY <1>1, <1>2 DEF OthersStay
  <2> QED
    BY <2>1 DEF SetSubject, CodesInv, SendersOK, history
<1>6. OneSenderAtATime'
  BY <1>1, <1>2 DEF CodesInv, OneSenderAtATime, OthersStay, Sending
<1>7. StoredOK'
  BY <1>1, <1>2, CodeNumbers
  DEF CodesInv, CodesTypeOK, SendersOK, StoredOK, NewOK, SetSubject, RequestRecords,
      OthersStay, Sending, store, history, Wrong
<1>8. UnmadeOK'
  BY <1>1, <1>2, CodeNumbers
  DEF CodesInv, CodesTypeOK, StoredOK, UnmadeOK, SetSubject, RequestRecords, OthersStay,
      Sending, store, history, Wrong
<1>9. NewOK'
  BY <1>1, <1>2, CodeNumbers
  DEF CodesInv, CodesTypeOK, SendersOK, StoredOK, UnmadeOK, NewOK, SetSubject, RequestRecords,
      OthersStay, Sending, store, history, Wrong
<1>10. CodesWorkOnce'
  BY <1>1, <1>2, CodeNumbers
  DEF CodesInv, CodesTypeOK, StoredOK, CodesWorkOnce, SetSubject, RequestRecords, OthersStay,
      Sending, store, history, Wrong
<1>11. TriesOK'
  BY <1>1, <1>2, CodeNumbers
  DEF CodesInv, CodesTypeOK, NewOK, StoredOK, TriesOK, SetSubject, RequestRecords, OthersStay,
      Sending, store, history, Wrong
<1>12. GuessesAreBounded'
  BY <1>1, <1>2, CodeNumbers
  DEF CodesInv, CodesTypeOK, StoredOK, TriesOK, GuessesAreBounded, SetSubject, RequestRecords,
      OthersStay, Sending, store, history, Wrong
<1>13. SentOK'
  BY <1>1, <1>2, CodeNumbers
  DEF CodesInv, CodesTypeOK, Keyed, SentOK, SetSubject, RequestRecords, OthersStay, Sending,
      store, history, Wrong
<1>14. MailingOK'
  <2> SUFFICES ASSUME NEW d \in Requests, req'[d].at = "mail", req'[d].user # None
               PROVE  subject'[req'[d].key] \in {NoSubject, [user |-> req'[d].user, code |-> req'[d].code]}
    BY DEF MailingOK, BoundTo, NoSubject, Wrong
  <2>1. CASE d = c
    <3>1. subject' = [subject EXCEPT ![req[c].key] = [user |-> req[c].user, code |-> req[c].code]]
      BY <1>1, <2>1 DEF SetSubject, Goes, CodesInv, CodesTypeOK
    <3>2. subject'[req[c].key] = [user |-> req[c].user, code |-> req[c].code]
      BY <1>2, <3>1 DEF CodesInv, CodesTypeOK
    <3> QED
      BY <1>1, <2>1, <3>2
  <2>2. CASE d # c
    <3>1. req'[d] = req[d] /\ req[d].at \in Sending
      BY <1>1, <2>2 DEF OthersStay, Sending
    <3>2. req[d].key # req[c].key /\ req[d].key \in Keys
      BY <1>2, <2>2, <3>1, SenderFacts
    <3>3. subject'[req[d].key] = subject[req[d].key]
      BY <3>2 DEF SetSubject, CodesInv, CodesTypeOK
    <3> QED
      BY <3>1, <3>3 DEF CodesInv, MailingOK, BoundTo
  <2> QED
    BY <2>1, <2>2
<1>15. BoundOK'
  <2> SUFFICES ASSUME NEW k \in Keys, stored[k] \in mailed, sentFor[stored[k]].user # None
               PROVE  BoundTo(k, sentFor[stored[k]].user, stored[k])'
    BY DEF SetSubject, BoundOK, BoundTo, history
  <2>1. stored[req[c].key] \in {Wrong, req[c].code} /\ req[c].code \notin mailed
    BY <1>2 DEF SetSubject, CodesInv, SentOK, SendersOK
  <2>2. Wrong \notin mailed
    BY CodeNumbers DEF CodesInv, CodesTypeOK
  <2>3. k # req[c].key
    BY <2>1, <2>2
  <2>4. subject'[k] = subject[k]
    BY <2>3 DEF SetSubject, CodesInv, CodesTypeOK
  <2> QED
    BY <2>4 DEF CodesInv, BoundOK, BoundTo, SetSubject, history
<1> QED
  BY <1>3, <1>4, <1>5, <1>6, <1>7, <1>8, <1>9, <1>10, <1>11, <1>12, <1>13, <1>14, <1>15 DEF
      CodesInv

(* The code is mailed, and may arrive.                                     *)
LEMMA MailInv ==
  ASSUME CodesInv, NEW c \in Requests, Mail(c)
  PROVE  CodesInv'
<1>1. /\ req' \in [Requests -> RequestRecords] /\ OthersStay(c) /\ req'[c].at = "idle"
  BY EndsFacts DEF Mail, CodesInv
<1>2. /\ req[c].at \in Sending /\ req[c].key \in Keys /\ req[c].code \in Codes
      /\ req[c].code <= made /\ made \in Nat /\ made <= MaxCodes
      /\ \A d \in Requests \ {c} : req[d].at \in Sending =>
           req[d].key # req[c].key /\ req[d].code # req[c].code
  BY SenderFacts DEF Mail, Sending
<1>3. CodesTypeOK'
  BY <1>1, <1>2, CodeNumbers
  DEF CodesInv, CodesTypeOK, Mail, RequestRecords, OthersStay, Sending, store, history, Wrong
<1>4. Keyed'
  BY <1>1, <1>2, CodeNumbers
  DEF CodesInv, Keyed, Mail, RequestRecords, OthersStay, Sending, store, history, Wrong
<1>5. SendersOK'
  BY <1>1, <1>2, CodeNumbers
  DEF CodesInv, CodesTypeOK, SendersOK, UnmadeOK, Mail, RequestRecords, OthersStay, Sending,
      store, history, Wrong
<1>6. OneSenderAtATime'
  BY <1>1, <1>2 DEF CodesInv, OneSenderAtATime, OthersStay, Sending
<1>7. StoredOK'
  BY <1>1, <1>2, CodeNumbers
  DEF CodesInv, CodesTypeOK, SendersOK, StoredOK, NewOK, Mail, RequestRecords, OthersStay,
      Sending, store, history, Wrong
<1>8. UnmadeOK'
  BY <1>1, <1>2, CodeNumbers
  DEF CodesInv, CodesTypeOK, StoredOK, UnmadeOK, Mail, RequestRecords, OthersStay, Sending,
      store, history, Wrong
<1>9. NewOK'
  BY <1>1, <1>2, CodeNumbers
  DEF CodesInv, CodesTypeOK, SendersOK, StoredOK, UnmadeOK, NewOK, Mail, RequestRecords,
      OthersStay, Sending, store, history, Wrong
<1>10. CodesWorkOnce'
  BY <1>1, <1>2, CodeNumbers
  DEF CodesInv, CodesTypeOK, StoredOK, CodesWorkOnce, Mail, RequestRecords, OthersStay,
      Sending, store, history, Wrong
<1>11. TriesOK'
  BY <1>1, <1>2, CodeNumbers
  DEF CodesInv, CodesTypeOK, NewOK, StoredOK, TriesOK, Mail, RequestRecords, OthersStay,
      Sending, store, history, Wrong
<1>12. GuessesAreBounded'
  BY <1>1, <1>2, CodeNumbers
  DEF CodesInv, CodesTypeOK, StoredOK, TriesOK, GuessesAreBounded, Mail, RequestRecords,
      OthersStay, Sending, store, history, Wrong
<1>13. SentOK'
  BY <1>1, <1>2, CodeNumbers
  DEF CodesInv, CodesTypeOK, Keyed, SentOK, Mail, RequestRecords, OthersStay, Sending, store,
      history, Wrong
<1>14. MailingOK'
  BY <1>1, <1>2, CodeNumbers
  DEF CodesInv, CodesTypeOK, Keyed, SendersOK, MailingOK, BoundTo, Mail, RequestRecords,
      OthersStay, Sending, store, history, Wrong
<1>15. BoundOK'
  <2> SUFFICES ASSUME NEW k \in Keys, stored[k] \in mailed', sentFor[stored[k]].user # None
               PROVE  BoundTo(k, sentFor[stored[k]].user, stored[k])
    BY DEF Mail, BoundOK, BoundTo, store, history
  <2>1. CASE stored[k] \in mailed
    BY <2>1 DEF CodesInv, BoundOK
  <2>2. CASE stored[k] = req[c].code
    <3>1. sentFor[req[c].code] = [key |-> req[c].key, user |-> req[c].user]
      BY <1>2 DEF CodesInv, SendersOK
    <3>2. k = req[c].key
      BY <1>2, <2>2, <3>1, CodeNumbers DEF CodesInv, StoredOK
    <3> QED
      BY <2>2, <3>1, <3>2 DEF Mail, CodesInv, MailingOK
  <2> QED
    BY <2>1, <2>2 DEF Mail
<1> QED
  BY <1>3, <1>4, <1>5, <1>6, <1>7, <1>8, <1>9, <1>10, <1>11, <1>12, <1>13, <1>14, <1>15 DEF
      CodesInv

(* The code is deleted again, unless Redis fails.                          *)
LEMMA UndoCodeInv ==
  ASSUME CodesInv, NEW c \in Requests, UndoCode(c)
  PROVE  CodesInv'
<1>1. /\ req' \in [Requests -> RequestRecords] /\ OthersStay(c)
      /\ req'[c].at \in {"undoCooldown"} /\ req'[c].key = req[c].key
      /\ req'[c].user = req[c].user /\ req'[c].code = req[c].code
  BY GoesFacts DEF UndoCode, Stages, Sending, CodesInv
<1>2. /\ req[c].at \in Sending /\ req[c].key \in Keys /\ req[c].code \in Codes
      /\ req[c].code <= made /\ made \in Nat /\ made <= MaxCodes
      /\ \A d \in Requests \ {c} : req[d].at \in Sending =>
           req[d].key # req[c].key /\ req[d].code # req[c].code
  BY SenderFacts DEF UndoCode, Sending
<1>3. CodesTypeOK'
  BY <1>1, <1>2, CodeNumbers
  DEF CodesInv, CodesTypeOK, UndoCode, RequestRecords, OthersStay, Sending, store, history,
      Wrong
<1>4. Keyed'
  BY <1>1, <1>2, CodeNumbers
  DEF CodesInv, Keyed, UndoCode, RequestRecords, OthersStay, Sending, store, history, Wrong
<1>5. SendersOK'
  BY <1>1, <1>2, CodeNumbers
  DEF CodesInv, CodesTypeOK, SendersOK, UnmadeOK, UndoCode, RequestRecords, OthersStay,
      Sending, store, history, Wrong
<1>6. OneSenderAtATime'
  BY <1>1, <1>2 DEF CodesInv, OneSenderAtATime, OthersStay, Sending
<1>7. StoredOK'
  BY <1>1, <1>2, CodeNumbers
  DEF CodesInv, CodesTypeOK, SendersOK, StoredOK, NewOK, UndoCode, RequestRecords, OthersStay,
      Sending, store, history, Wrong
<1>8. UnmadeOK'
  BY <1>1, <1>2, CodeNumbers
  DEF CodesInv, CodesTypeOK, StoredOK, UnmadeOK, UndoCode, RequestRecords, OthersStay,
      Sending, store, history, Wrong
<1>9. NewOK'
  <2> SUFFICES ASSUME NEW d \in Requests, req'[d].at = "setCode"
               PROVE  /\ accepted[req'[d].code] = 0 /\ tries[req'[d].code] = 0
                      /\ stored'[req'[d].key] # req'[d].code
    BY DEF UndoCode, NewOK, history
  <2>1. d # c /\ req'[d] = req[d]
    BY <1>1 DEF OthersStay
  <2>2. req[d].key # req[c].key /\ req[d].key \in Keys
    BY <1>2, <2>1, SenderFacts DEF Sending
  <2>3. stored'[req[d].key] = stored[req[d].key]
    BY <2>2 DEF UndoCode, CodesInv, CodesTypeOK
  <2> QED
    BY <2>1, <2>3 DEF CodesInv, NewOK
<1>10. CodesWorkOnce'
  BY <1>1, <1>2, CodeNumbers
  DEF CodesInv, CodesTypeOK, StoredOK, CodesWorkOnce, UndoCode, RequestRecords, OthersStay,
      Sending, store, history, Wrong
<1>11. TriesOK'
  BY <1>1, <1>2, CodeNumbers
  DEF CodesInv, CodesTypeOK, NewOK, StoredOK, TriesOK, UndoCode, RequestRecords, OthersStay,
      Sending, store, history, Wrong
<1>12. GuessesAreBounded'
  BY <1>1, <1>2, CodeNumbers
  DEF CodesInv, CodesTypeOK, StoredOK, TriesOK, GuessesAreBounded, UndoCode, RequestRecords,
      OthersStay, Sending, store, history, Wrong
<1>13. SentOK'
  BY <1>1, <1>2, CodeNumbers
  DEF CodesInv, CodesTypeOK, Keyed, SentOK, UndoCode, RequestRecords, OthersStay, Sending,
      store, history, Wrong
<1>14. MailingOK'
  BY <1>1, <1>2, CodeNumbers
  DEF CodesInv, CodesTypeOK, Keyed, SendersOK, MailingOK, BoundTo, UndoCode, RequestRecords,
      OthersStay, Sending, store, history, Wrong
<1>15. BoundOK'
  BY <1>1, <1>2, CodeNumbers
  DEF CodesInv, CodesTypeOK, Keyed, SendersOK, StoredOK, UnmadeOK, SentOK, MailingOK, BoundOK,
      BoundTo, UndoCode, RequestRecords, OthersStay, Sending, store, history, Wrong
<1> QED
  BY <1>3, <1>4, <1>5, <1>6, <1>7, <1>8, <1>9, <1>10, <1>11, <1>12, <1>13, <1>14, <1>15 DEF
      CodesInv

(* The cooldown is deleted again: nobody else holds it.                    *)
LEMMA UndoCooldownInv ==
  ASSUME CodesInv, NEW c \in Requests, UndoCooldown(c)
  PROVE  CodesInv'
<1>1. /\ req' \in [Requests -> RequestRecords] /\ OthersStay(c) /\ req'[c].at = "idle"
  BY EndsFacts DEF UndoCooldown, CodesInv
<1>2. /\ req[c].at \in Sending /\ req[c].key \in Keys /\ req[c].code \in Codes
      /\ req[c].code <= made /\ made \in Nat /\ made <= MaxCodes
      /\ \A d \in Requests \ {c} : req[d].at \in Sending =>
           req[d].key # req[c].key /\ req[d].code # req[c].code
  BY SenderFacts DEF UndoCooldown, Sending
<1>3. CodesTypeOK'
  BY <1>1, <1>2, CodeNumbers
  DEF CodesInv, CodesTypeOK, UndoCooldown, RequestRecords, OthersStay, Sending, store,
      history, Wrong
<1>4. Keyed'
  BY <1>1, <1>2, CodeNumbers
  DEF CodesInv, Keyed, UndoCooldown, RequestRecords, OthersStay, Sending, store, history, Wrong
<1>5. SendersOK'
  <2> SUFFICES ASSUME NEW d \in Requests, req'[d].at \in Sending
               PROVE  /\ req'[d].code \in 1..made /\ req'[d].code \notin mailed
                      /\ sentFor[req'[d].code] = [key |-> req'[d].key, user |-> req'[d].user]
                      /\ cooldown'[req'[d].key]
    BY DEF UndoCooldown, SendersOK, history
  <2>1. d # c /\ req'[d] = req[d]
    BY <1>1 DEF OthersStay, Sending
  <2>2. req[d].key # req[c].key /\ req[d].key \in Keys
    BY <1>2, <2>1, SenderFacts
  <2>3. cooldown'[req[d].key] = cooldown[req[d].key]
    BY <2>2 DEF UndoCooldown, CodesInv, CodesTypeOK
  <2> QED
    BY <2>1, <2>3 DEF CodesInv, SendersOK
<1>6. OneSenderAtATime'
  BY <1>1, <1>2 DEF CodesInv, OneSenderAtATime, OthersStay, Sending
<1>7. StoredOK'
  BY <1>1, <1>2, CodeNumbers
  DEF CodesInv, CodesTypeOK, SendersOK, StoredOK, NewOK, UndoCooldown, RequestRecords,
      OthersStay, Sending, store, history, Wrong
<1>8. UnmadeOK'
  BY <1>1, <1>2, CodeNumbers
  DEF CodesInv, CodesTypeOK, StoredOK, UnmadeOK, UndoCooldown, RequestRecords, OthersStay,
      Sending, store, history, Wrong
<1>9. NewOK'
  BY <1>1, <1>2, CodeNumbers
  DEF CodesInv, CodesTypeOK, SendersOK, StoredOK, UnmadeOK, NewOK, UndoCooldown,
      RequestRecords, OthersStay, Sending, store, history, Wrong
<1>10. CodesWorkOnce'
  BY <1>1, <1>2, CodeNumbers
  DEF CodesInv, CodesTypeOK, StoredOK, CodesWorkOnce, UndoCooldown, RequestRecords,
      OthersStay, Sending, store, history, Wrong
<1>11. TriesOK'
  BY <1>1, <1>2, CodeNumbers
  DEF CodesInv, CodesTypeOK, NewOK, StoredOK, TriesOK, UndoCooldown, RequestRecords,
      OthersStay, Sending, store, history, Wrong
<1>12. GuessesAreBounded'
  BY <1>1, <1>2, CodeNumbers
  DEF CodesInv, CodesTypeOK, StoredOK, TriesOK, GuessesAreBounded, UndoCooldown,
      RequestRecords, OthersStay, Sending, store, history, Wrong
<1>13. SentOK'
  BY <1>1, <1>2, CodeNumbers
  DEF CodesInv, CodesTypeOK, Keyed, SentOK, UndoCooldown, RequestRecords, OthersStay, Sending,
      store, history, Wrong
<1>14. MailingOK'
  BY <1>1, <1>2, CodeNumbers
  DEF CodesInv, CodesTypeOK, Keyed, SendersOK, MailingOK, BoundTo, UndoCooldown,
      RequestRecords, OthersStay, Sending, store, history, Wrong
<1>15. BoundOK'
  BY <1>1, <1>2, CodeNumbers
  DEF CodesInv, CodesTypeOK, Keyed, SendersOK, StoredOK, UnmadeOK, SentOK, MailingOK, BoundOK,
      BoundTo, UndoCooldown, RequestRecords, OthersStay, Sending, store, history, Wrong
<1> QED
  BY <1>3, <1>4, <1>5, <1>6, <1>7, <1>8, <1>9, <1>10, <1>11, <1>12, <1>13, <1>14, <1>15 DEF
      CodesInv

(* A request that ends leaves the store as it is.                          *)
LEMMA GiveUpInv ==
  ASSUME CodesInv, NEW c \in Requests, GiveUp(c)
  PROVE  CodesInv'
<1>1. /\ req' \in [Requests -> RequestRecords] /\ OthersStay(c) /\ req'[c].at = "idle"
  BY EndsFacts DEF GiveUp, CodesInv
<1>2. CodesTypeOK'
  BY <1>1, CodeNumbers
  DEF CodesInv, CodesTypeOK, GiveUp, RequestRecords, OthersStay, Sending, store, history, Wrong
<1>3. Keyed'
  BY <1>1, CodeNumbers
  DEF CodesInv, Keyed, GiveUp, RequestRecords, OthersStay, Sending, store, history, Wrong
<1>4. SendersOK'
  BY <1>1, CodeNumbers
  DEF CodesInv, CodesTypeOK, SendersOK, UnmadeOK, GiveUp, RequestRecords, OthersStay, Sending,
      store, history, Wrong
<1>5. OneSenderAtATime'
  BY <1>1 DEF CodesInv, OneSenderAtATime, OthersStay, Sending
<1>6. StoredOK'
  BY <1>1, CodeNumbers
  DEF CodesInv, CodesTypeOK, SendersOK, StoredOK, NewOK, GiveUp, RequestRecords, OthersStay,
      Sending, store, history, Wrong
<1>7. UnmadeOK'
  BY <1>1, CodeNumbers
  DEF CodesInv, CodesTypeOK, StoredOK, UnmadeOK, GiveUp, RequestRecords, OthersStay, Sending,
      store, history, Wrong
<1>8. NewOK'
  BY <1>1, CodeNumbers
  DEF CodesInv, CodesTypeOK, SendersOK, StoredOK, UnmadeOK, NewOK, GiveUp, RequestRecords,
      OthersStay, Sending, store, history, Wrong
<1>9. CodesWorkOnce'
  BY <1>1, CodeNumbers
  DEF CodesInv, CodesTypeOK, StoredOK, CodesWorkOnce, GiveUp, RequestRecords, OthersStay,
      Sending, store, history, Wrong
<1>10. TriesOK'
  BY <1>1, CodeNumbers
  DEF CodesInv, CodesTypeOK, NewOK, StoredOK, TriesOK, GiveUp, RequestRecords, OthersStay,
      Sending, store, history, Wrong
<1>11. GuessesAreBounded'
  BY <1>1, CodeNumbers
  DEF CodesInv, CodesTypeOK, StoredOK, TriesOK, GuessesAreBounded, GiveUp, RequestRecords,
      OthersStay, Sending, store, history, Wrong
<1>12. SentOK'
  BY <1>1, CodeNumbers
  DEF CodesInv, CodesTypeOK, Keyed, SentOK, GiveUp, RequestRecords, OthersStay, Sending,
      store, history, Wrong
<1>13. MailingOK'
  BY <1>1, CodeNumbers
  DEF CodesInv, CodesTypeOK, Keyed, SendersOK, MailingOK, BoundTo, GiveUp, RequestRecords,
      OthersStay, Sending, store, history, Wrong
<1>14. BoundOK'
  BY <1>1, CodeNumbers
  DEF CodesInv, CodesTypeOK, Keyed, SendersOK, StoredOK, UnmadeOK, SentOK, MailingOK, BoundOK,
      BoundTo, GiveUp, RequestRecords, OthersStay, Sending, store, history, Wrong
<1> QED
  BY <1>2, <1>3, <1>4, <1>5, <1>6, <1>7, <1>8, <1>9, <1>10, <1>11, <1>12, <1>13, <1>14 DEF
      CodesInv

(* So does one that has used its acceptance.                               *)
LEMMA UseInv ==
  ASSUME CodesInv, NEW c \in Requests, Use(c)
  PROVE  CodesInv'
<1>1. /\ req' \in [Requests -> RequestRecords] /\ OthersStay(c) /\ req'[c].at = "idle"
  BY EndsFacts DEF Use, CodesInv
<1>2. CodesTypeOK'
  BY <1>1, CodeNumbers
  DEF CodesInv, CodesTypeOK, Use, RequestRecords, OthersStay, Sending, store, history, Wrong
<1>3. Keyed'
  BY <1>1, CodeNumbers
  DEF CodesInv, Keyed, Use, RequestRecords, OthersStay, Sending, store, history, Wrong
<1>4. SendersOK'
  BY <1>1, CodeNumbers
  DEF CodesInv, CodesTypeOK, SendersOK, UnmadeOK, Use, RequestRecords, OthersStay, Sending,
      store, history, Wrong
<1>5. OneSenderAtATime'
  BY <1>1 DEF CodesInv, OneSenderAtATime, OthersStay, Sending
<1>6. StoredOK'
  BY <1>1, CodeNumbers
  DEF CodesInv, CodesTypeOK, SendersOK, StoredOK, NewOK, Use, RequestRecords, OthersStay,
      Sending, store, history, Wrong
<1>7. UnmadeOK'
  BY <1>1, CodeNumbers
  DEF CodesInv, CodesTypeOK, StoredOK, UnmadeOK, Use, RequestRecords, OthersStay, Sending,
      store, history, Wrong
<1>8. NewOK'
  BY <1>1, CodeNumbers
  DEF CodesInv, CodesTypeOK, SendersOK, StoredOK, UnmadeOK, NewOK, Use, RequestRecords,
      OthersStay, Sending, store, history, Wrong
<1>9. CodesWorkOnce'
  BY <1>1, CodeNumbers
  DEF CodesInv, CodesTypeOK, StoredOK, CodesWorkOnce, Use, RequestRecords, OthersStay,
      Sending, store, history, Wrong
<1>10. TriesOK'
  BY <1>1, CodeNumbers
  DEF CodesInv, CodesTypeOK, NewOK, StoredOK, TriesOK, Use, RequestRecords, OthersStay,
      Sending, store, history, Wrong
<1>11. GuessesAreBounded'
  BY <1>1, CodeNumbers
  DEF CodesInv, CodesTypeOK, StoredOK, TriesOK, GuessesAreBounded, Use, RequestRecords,
      OthersStay, Sending, store, history, Wrong
<1>12. SentOK'
  BY <1>1, CodeNumbers
  DEF CodesInv, CodesTypeOK, Keyed, SentOK, Use, RequestRecords, OthersStay, Sending, store,
      history, Wrong
<1>13. MailingOK'
  BY <1>1, CodeNumbers
  DEF CodesInv, CodesTypeOK, Keyed, SendersOK, MailingOK, BoundTo, Use, RequestRecords,
      OthersStay, Sending, store, history, Wrong
<1>14. BoundOK'
  BY <1>1, CodeNumbers
  DEF CodesInv, CodesTypeOK, Keyed, SendersOK, StoredOK, UnmadeOK, SentOK, MailingOK, BoundOK,
      BoundTo, Use, RequestRecords, OthersStay, Sending, store, history, Wrong
<1> QED
  BY <1>2, <1>3, <1>4, <1>5, <1>6, <1>7, <1>8, <1>9, <1>10, <1>11, <1>12, <1>13, <1>14 DEF
      CodesInv

(* A request to send begins.                                               *)
LEMMA SendInv ==
  ASSUME CodesInv, NEW c \in Requests, NEW k \in Keys, NEW u \in Users \cup {None}, Send(c, k, u)
  PROVE  CodesInv'
<1>1. /\ req' \in [Requests -> RequestRecords] /\ OthersStay(c)
      /\ req'[c].at = "reserve" /\ req'[c].key = k
  BY DEF Send, CodesInv, CodesTypeOK, RequestRecords, OthersStay, Stages
<1>2. CodesTypeOK'
  BY <1>1, CodeNumbers
  DEF CodesInv, CodesTypeOK, Send, RequestRecords, OthersStay, Sending, store, history, Wrong
<1>3. Keyed'
  BY <1>1, CodeNumbers
  DEF CodesInv, Keyed, Send, RequestRecords, OthersStay, Sending, store, history, Wrong
<1>4. SendersOK'
  BY <1>1, CodeNumbers
  DEF CodesInv, CodesTypeOK, SendersOK, UnmadeOK, Send, RequestRecords, OthersStay, Sending,
      store, history, Wrong
<1>5. OneSenderAtATime'
  BY <1>1 DEF CodesInv, OneSenderAtATime, OthersStay, Sending
<1>6. StoredOK'
  BY <1>1, CodeNumbers
  DEF CodesInv, CodesTypeOK, SendersOK, StoredOK, NewOK, Send, RequestRecords, OthersStay,
      Sending, store, history, Wrong
<1>7. UnmadeOK'
  BY <1>1, CodeNumbers
  DEF CodesInv, CodesTypeOK, StoredOK, UnmadeOK, Send, RequestRecords, OthersStay, Sending,
      store, history, Wrong
<1>8. NewOK'
  BY <1>1, CodeNumbers
  DEF CodesInv, CodesTypeOK, SendersOK, StoredOK, UnmadeOK, NewOK, Send, RequestRecords,
      OthersStay, Sending, store, history, Wrong
<1>9. CodesWorkOnce'
  BY <1>1, CodeNumbers
  DEF CodesInv, CodesTypeOK, StoredOK, CodesWorkOnce, Send, RequestRecords, OthersStay,
      Sending, store, history, Wrong
<1>10. TriesOK'
  BY <1>1, CodeNumbers
  DEF CodesInv, CodesTypeOK, NewOK, StoredOK, TriesOK, Send, RequestRecords, OthersStay,
      Sending, store, history, Wrong
<1>11. GuessesAreBounded'
  BY <1>1, CodeNumbers
  DEF CodesInv, CodesTypeOK, StoredOK, TriesOK, GuessesAreBounded, Send, RequestRecords,
      OthersStay, Sending, store, history, Wrong
<1>12. SentOK'
  BY <1>1, CodeNumbers
  DEF CodesInv, CodesTypeOK, Keyed, SentOK, Send, RequestRecords, OthersStay, Sending, store,
      history, Wrong
<1>13. MailingOK'
  BY <1>1, CodeNumbers
  DEF CodesInv, CodesTypeOK, Keyed, SendersOK, MailingOK, BoundTo, Send, RequestRecords,
      OthersStay, Sending, store, history, Wrong
<1>14. BoundOK'
  BY <1>1, CodeNumbers
  DEF CodesInv, CodesTypeOK, Keyed, SendersOK, StoredOK, UnmadeOK, SentOK, MailingOK, BoundOK,
      BoundTo, Send, RequestRecords, OthersStay, Sending, store, history, Wrong
<1> QED
  BY <1>2, <1>3, <1>4, <1>5, <1>6, <1>7, <1>8, <1>9, <1>10, <1>11, <1>12, <1>13, <1>14 DEF
      CodesInv

(* A request to present a code begins.                                     *)
LEMMA PresentInv ==
  ASSUME CodesInv, NEW c \in Requests, NEW k \in Keys, NEW u \in Users \cup {None},
         NEW n \in {Wrong, Default} \cup Codes, Present(c, k, u, n)
  PROVE  CodesInv'
<1>1. /\ req' \in [Requests -> RequestRecords] /\ OthersStay(c)
      /\ req'[c].at = "present" /\ req'[c].key = k
  BY DEF Present, CodesInv, CodesTypeOK, RequestRecords, OthersStay, Stages
<1>2. CodesTypeOK'
  BY <1>1, CodeNumbers
  DEF CodesInv, CodesTypeOK, Present, RequestRecords, OthersStay, Sending, store, history, Wrong
<1>3. Keyed'
  BY <1>1, CodeNumbers
  DEF CodesInv, Keyed, Present, RequestRecords, OthersStay, Sending, store, history, Wrong
<1>4. SendersOK'
  BY <1>1, CodeNumbers
  DEF CodesInv, CodesTypeOK, SendersOK, UnmadeOK, Present, RequestRecords, OthersStay,
      Sending, store, history, Wrong
<1>5. OneSenderAtATime'
  BY <1>1 DEF CodesInv, OneSenderAtATime, OthersStay, Sending
<1>6. StoredOK'
  BY <1>1, CodeNumbers
  DEF CodesInv, CodesTypeOK, SendersOK, StoredOK, NewOK, Present, RequestRecords, OthersStay,
      Sending, store, history, Wrong
<1>7. UnmadeOK'
  BY <1>1, CodeNumbers
  DEF CodesInv, CodesTypeOK, StoredOK, UnmadeOK, Present, RequestRecords, OthersStay, Sending,
      store, history, Wrong
<1>8. NewOK'
  BY <1>1, CodeNumbers
  DEF CodesInv, CodesTypeOK, SendersOK, StoredOK, UnmadeOK, NewOK, Present, RequestRecords,
      OthersStay, Sending, store, history, Wrong
<1>9. CodesWorkOnce'
  BY <1>1, CodeNumbers
  DEF CodesInv, CodesTypeOK, StoredOK, CodesWorkOnce, Present, RequestRecords, OthersStay,
      Sending, store, history, Wrong
<1>10. TriesOK'
  BY <1>1, CodeNumbers
  DEF CodesInv, CodesTypeOK, NewOK, StoredOK, TriesOK, Present, RequestRecords, OthersStay,
      Sending, store, history, Wrong
<1>11. GuessesAreBounded'
  BY <1>1, CodeNumbers
  DEF CodesInv, CodesTypeOK, StoredOK, TriesOK, GuessesAreBounded, Present, RequestRecords,
      OthersStay, Sending, store, history, Wrong
<1>12. SentOK'
  BY <1>1, CodeNumbers
  DEF CodesInv, CodesTypeOK, Keyed, SentOK, Present, RequestRecords, OthersStay, Sending,
      store, history, Wrong
<1>13. MailingOK'
  BY <1>1, CodeNumbers
  DEF CodesInv, CodesTypeOK, Keyed, SendersOK, MailingOK, BoundTo, Present, RequestRecords,
      OthersStay, Sending, store, history, Wrong
<1>14. BoundOK'
  BY <1>1, CodeNumbers
  DEF CodesInv, CodesTypeOK, Keyed, SendersOK, StoredOK, UnmadeOK, SentOK, MailingOK, BoundOK,
      BoundTo, Present, RequestRecords, OthersStay, Sending, store, history, Wrong
<1> QED
  BY <1>2, <1>3, <1>4, <1>5, <1>6, <1>7, <1>8, <1>9, <1>10, <1>11, <1>12, <1>13, <1>14 DEF
      CodesInv

(* A code expires with its attempts.                                       *)
LEMMA ExpireCodeInv ==
  ASSUME CodesInv, NEW k \in Keys, ExpireCode(k)
  PROVE  CodesInv'
<1>1. CodesTypeOK'
  BY CodeNumbers
  DEF CodesInv, CodesTypeOK, ExpireCode, NoAttempts, store, history, Wrong
<1>2. Keyed'
  BY CodeNumbers
  DEF CodesInv, Keyed, ExpireCode, Fresh, RequestRecords, OthersStay, Sending, store, history,
      Wrong
<1>3. SendersOK'
  BY CodeNumbers
  DEF CodesInv, CodesTypeOK, SendersOK, UnmadeOK, ExpireCode, Fresh, RequestRecords,
      OthersStay, Sending, store, history, Wrong
<1>4. OneSenderAtATime'
  BY DEF CodesInv, OneSenderAtATime, ExpireCode
<1>5. StoredOK'
  BY CodeNumbers
  DEF CodesInv, CodesTypeOK, SendersOK, StoredOK, NewOK, ExpireCode, Fresh, RequestRecords,
      OthersStay, Sending, store, history, Wrong
<1>6. UnmadeOK'
  BY CodeNumbers
  DEF CodesInv, CodesTypeOK, StoredOK, UnmadeOK, ExpireCode, Fresh, RequestRecords,
      OthersStay, Sending, store, history, Wrong
<1>7. NewOK'
  <2> SUFFICES ASSUME NEW d \in Requests, req[d].at = "setCode"
               PROVE  /\ accepted[req[d].code] = 0 /\ tries[req[d].code] = 0
                      /\ stored'[req[d].key] # req[d].code
    BY DEF ExpireCode, NewOK, history
  <2>1. req[d].key \in Keys /\ req[d].code # Wrong
    BY SenderFacts, CodeNumbers DEF Sending
  <2>2. stored'[req[d].key] \in {stored[req[d].key], Wrong}
    BY <2>1 DEF ExpireCode, CodesInv, CodesTypeOK
  <2> QED
    BY <2>1, <2>2 DEF CodesInv, NewOK
<1>8. CodesWorkOnce'
  BY CodeNumbers
  DEF CodesInv, CodesTypeOK, StoredOK, CodesWorkOnce, ExpireCode, Fresh, RequestRecords,
      OthersStay, Sending, store, history, Wrong
<1>9. TriesOK'
  BY CodeNumbers
  DEF CodesInv, CodesTypeOK, TriesOK, ExpireCode, NoAttempts, history, Wrong
<1>10. GuessesAreBounded'
  BY CodeNumbers
  DEF CodesInv, CodesTypeOK, StoredOK, TriesOK, GuessesAreBounded, ExpireCode, Fresh,
      RequestRecords, OthersStay, Sending, store, history, Wrong
<1>11. SentOK'
  BY CodeNumbers
  DEF CodesInv, CodesTypeOK, Keyed, SentOK, ExpireCode, Fresh, RequestRecords, OthersStay,
      Sending, store, history, Wrong
<1>12. MailingOK'
  BY CodeNumbers
  DEF CodesInv, CodesTypeOK, Keyed, SendersOK, MailingOK, BoundTo, ExpireCode, Fresh,
      RequestRecords, OthersStay, Sending, store, history, Wrong
<1>13. BoundOK'
  BY CodeNumbers
  DEF CodesInv, CodesTypeOK, Keyed, SendersOK, StoredOK, UnmadeOK, SentOK, MailingOK, BoundOK,
      BoundTo, ExpireCode, Fresh, RequestRecords, OthersStay, Sending, store, history, Wrong
<1> QED
  BY <1>1, <1>2, <1>3, <1>4, <1>5, <1>6, <1>7, <1>8, <1>9, <1>10, <1>11, <1>12, <1>13 DEF
      CodesInv

(* The attempts on an earlier code expire.                                 *)
LEMMA ExpireAttemptsInv ==
  ASSUME CodesInv, NEW k \in Keys, ExpireAttempts(k)
  PROVE  CodesInv'
<1>1. CodesTypeOK'
  BY CodeNumbers
  DEF CodesInv, CodesTypeOK, ExpireAttempts, NoAttempts, RequestRecords, OthersStay, Sending,
      store, history, Wrong
<1>2. Keyed'
  BY CodeNumbers
  DEF CodesInv, Keyed, ExpireAttempts, NoAttempts, RequestRecords, OthersStay, Sending, store,
      history, Wrong
<1>3. SendersOK'
  BY CodeNumbers
  DEF CodesInv, CodesTypeOK, SendersOK, UnmadeOK, ExpireAttempts, NoAttempts, RequestRecords,
      OthersStay, Sending, store, history, Wrong
<1>4. OneSenderAtATime'
  BY DEF CodesInv, OneSenderAtATime, ExpireAttempts
<1>5. StoredOK'
  BY CodeNumbers
  DEF CodesInv, CodesTypeOK, SendersOK, StoredOK, NewOK, ExpireAttempts, NoAttempts,
      RequestRecords, OthersStay, Sending, store, history, Wrong
<1>6. UnmadeOK'
  BY CodeNumbers
  DEF CodesInv, CodesTypeOK, StoredOK, UnmadeOK, ExpireAttempts, NoAttempts, RequestRecords,
      OthersStay, Sending, store, history, Wrong
<1>7. NewOK'
  BY CodeNumbers
  DEF CodesInv, CodesTypeOK, SendersOK, StoredOK, UnmadeOK, NewOK, ExpireAttempts, NoAttempts,
      RequestRecords, OthersStay, Sending, store, history, Wrong
<1>8. CodesWorkOnce'
  BY CodeNumbers
  DEF CodesInv, CodesTypeOK, StoredOK, CodesWorkOnce, ExpireAttempts, NoAttempts,
      RequestRecords, OthersStay, Sending, store, history, Wrong
<1>9. TriesOK'
  BY CodeNumbers
  DEF CodesInv, CodesTypeOK, NewOK, StoredOK, TriesOK, ExpireAttempts, NoAttempts,
      RequestRecords, OthersStay, Sending, store, history, Wrong
<1>10. GuessesAreBounded'
  BY CodeNumbers
  DEF CodesInv, CodesTypeOK, StoredOK, TriesOK, GuessesAreBounded, ExpireAttempts, NoAttempts,
      RequestRecords, OthersStay, Sending, store, history, Wrong
<1>11. SentOK'
  BY CodeNumbers
  DEF CodesInv, CodesTypeOK, Keyed, SentOK, ExpireAttempts, NoAttempts, RequestRecords,
      OthersStay, Sending, store, history, Wrong
<1>12. MailingOK'
  BY CodeNumbers
  DEF CodesInv, CodesTypeOK, Keyed, SendersOK, MailingOK, BoundTo, ExpireAttempts, NoAttempts,
      RequestRecords, OthersStay, Sending, store, history, Wrong
<1>13. BoundOK'
  BY CodeNumbers
  DEF CodesInv, CodesTypeOK, Keyed, SendersOK, StoredOK, UnmadeOK, SentOK, MailingOK, BoundOK,
      BoundTo, ExpireAttempts, NoAttempts, RequestRecords, OthersStay, Sending, store, history,
      Wrong
<1> QED
  BY <1>1, <1>2, <1>3, <1>4, <1>5, <1>6, <1>7, <1>8, <1>9, <1>10, <1>11, <1>12, <1>13 DEF
      CodesInv

(* A cooldown expires when nobody sends.                                   *)
LEMMA ExpireCooldownInv ==
  ASSUME CodesInv, NEW k \in Keys, ExpireCooldown(k)
  PROVE  CodesInv'
<1>1. CodesTypeOK'
  BY CodeNumbers
  DEF CodesInv, CodesTypeOK, ExpireCooldown, BeingSent, RequestRecords, OthersStay, Sending,
      store, history, Wrong
<1>2. Keyed'
  BY CodeNumbers
  DEF CodesInv, Keyed, ExpireCooldown, BeingSent, RequestRecords, OthersStay, Sending, store,
      history, Wrong
<1>3. SendersOK'
  BY CodeNumbers
  DEF CodesInv, CodesTypeOK, SendersOK, UnmadeOK, ExpireCooldown, BeingSent, RequestRecords,
      OthersStay, Sending, store, history, Wrong
<1>4. OneSenderAtATime'
  BY DEF CodesInv, OneSenderAtATime, ExpireCooldown
<1>5. StoredOK'
  BY CodeNumbers
  DEF CodesInv, CodesTypeOK, SendersOK, StoredOK, NewOK, ExpireCooldown, BeingSent,
      RequestRecords, OthersStay, Sending, store, history, Wrong
<1>6. UnmadeOK'
  BY CodeNumbers
  DEF CodesInv, CodesTypeOK, StoredOK, UnmadeOK, ExpireCooldown, BeingSent, RequestRecords,
      OthersStay, Sending, store, history, Wrong
<1>7. NewOK'
  BY CodeNumbers
  DEF CodesInv, CodesTypeOK, SendersOK, StoredOK, UnmadeOK, NewOK, ExpireCooldown, BeingSent,
      RequestRecords, OthersStay, Sending, store, history, Wrong
<1>8. CodesWorkOnce'
  BY CodeNumbers
  DEF CodesInv, CodesTypeOK, StoredOK, CodesWorkOnce, ExpireCooldown, BeingSent,
      RequestRecords, OthersStay, Sending, store, history, Wrong
<1>9. TriesOK'
  BY CodeNumbers
  DEF CodesInv, CodesTypeOK, NewOK, StoredOK, TriesOK, ExpireCooldown, BeingSent,
      RequestRecords, OthersStay, Sending, store, history, Wrong
<1>10. GuessesAreBounded'
  BY CodeNumbers
  DEF CodesInv, CodesTypeOK, StoredOK, TriesOK, GuessesAreBounded, ExpireCooldown, BeingSent,
      RequestRecords, OthersStay, Sending, store, history, Wrong
<1>11. SentOK'
  BY CodeNumbers
  DEF CodesInv, CodesTypeOK, Keyed, SentOK, ExpireCooldown, BeingSent, RequestRecords,
      OthersStay, Sending, store, history, Wrong
<1>12. MailingOK'
  BY CodeNumbers
  DEF CodesInv, CodesTypeOK, Keyed, SendersOK, MailingOK, BoundTo, ExpireCooldown, BeingSent,
      RequestRecords, OthersStay, Sending, store, history, Wrong
<1>13. BoundOK'
  BY CodeNumbers
  DEF CodesInv, CodesTypeOK, Keyed, SendersOK, StoredOK, UnmadeOK, SentOK, MailingOK, BoundOK,
      BoundTo, ExpireCooldown, BeingSent, RequestRecords, OthersStay, Sending, store, history,
      Wrong
<1> QED
  BY <1>1, <1>2, <1>3, <1>4, <1>5, <1>6, <1>7, <1>8, <1>9, <1>10, <1>11, <1>12, <1>13 DEF
      CodesInv

(* The account of a code is forgotten.                                     *)
LEMMA ForgetSubjectInv ==
  ASSUME CodesInv, NEW k \in Keys, ForgetSubject(k)
  PROVE  CodesInv'
<1>1. CodesTypeOK'
  BY CodeNumbers
  DEF CodesInv, CodesTypeOK, ForgetSubject, NoSubject, RequestRecords, OthersStay, Sending,
      store, history, Wrong
<1>2. Keyed'
  BY CodeNumbers
  DEF CodesInv, Keyed, ForgetSubject, NoSubject, RequestRecords, OthersStay, Sending, store,
      history, Wrong
<1>3. SendersOK'
  BY CodeNumbers
  DEF CodesInv, CodesTypeOK, SendersOK, UnmadeOK, ForgetSubject, NoSubject, RequestRecords,
      OthersStay, Sending, store, history, Wrong
<1>4. OneSenderAtATime'
  BY DEF CodesInv, OneSenderAtATime, ForgetSubject
<1>5. StoredOK'
  BY CodeNumbers
  DEF CodesInv, CodesTypeOK, SendersOK, StoredOK, NewOK, ForgetSubject, NoSubject,
      RequestRecords, OthersStay, Sending, store, history, Wrong
<1>6. UnmadeOK'
  BY CodeNumbers
  DEF CodesInv, CodesTypeOK, StoredOK, UnmadeOK, ForgetSubject, NoSubject, RequestRecords,
      OthersStay, Sending, store, history, Wrong
<1>7. NewOK'
  BY CodeNumbers
  DEF CodesInv, CodesTypeOK, SendersOK, StoredOK, UnmadeOK, NewOK, ForgetSubject, NoSubject,
      RequestRecords, OthersStay, Sending, store, history, Wrong
<1>8. CodesWorkOnce'
  BY CodeNumbers
  DEF CodesInv, CodesTypeOK, StoredOK, CodesWorkOnce, ForgetSubject, NoSubject,
      RequestRecords, OthersStay, Sending, store, history, Wrong
<1>9. TriesOK'
  BY CodeNumbers
  DEF CodesInv, CodesTypeOK, NewOK, StoredOK, TriesOK, ForgetSubject, NoSubject,
      RequestRecords, OthersStay, Sending, store, history, Wrong
<1>10. GuessesAreBounded'
  BY CodeNumbers
  DEF CodesInv, CodesTypeOK, StoredOK, TriesOK, GuessesAreBounded, ForgetSubject, NoSubject,
      RequestRecords, OthersStay, Sending, store, history, Wrong
<1>11. SentOK'
  BY CodeNumbers
  DEF CodesInv, CodesTypeOK, Keyed, SentOK, ForgetSubject, NoSubject, RequestRecords,
      OthersStay, Sending, store, history, Wrong
<1>12. MailingOK'
  BY CodeNumbers
  DEF CodesInv, CodesTypeOK, Keyed, SendersOK, MailingOK, BoundTo, ForgetSubject, NoSubject,
      RequestRecords, OthersStay, Sending, store, history, Wrong
<1>13. BoundOK'
  BY CodeNumbers
  DEF CodesInv, CodesTypeOK, Keyed, SendersOK, StoredOK, UnmadeOK, SentOK, MailingOK, BoundOK,
      BoundTo, ForgetSubject, NoSubject, RequestRecords, OthersStay, Sending, store, history,
      Wrong
<1> QED
  BY <1>1, <1>2, <1>3, <1>4, <1>5, <1>6, <1>7, <1>8, <1>9, <1>10, <1>11, <1>12, <1>13 DEF
      CodesInv

(* A request that could not reserve leaves, with or without a cooldown set. *)
LEMMA TurnedAwayInv ==
  ASSUME CodesInv, NEW c \in Requests, req[c].at = "reserve", Ends(c),
         cooldown' \in {cooldown, [cooldown EXCEPT ![req[c].key] = TRUE]},
         UNCHANGED <<stored, attempts, subject, made, mailed, history>>
  PROVE  CodesInv'
<1>1. /\ req' \in [Requests -> RequestRecords] /\ OthersStay(c) /\ req'[c].at = "idle"
  BY EndsFacts DEF CodesInv
<1>2. req[c].key \in Keys
  BY DEF CodesInv, Keyed
<1>3. CodesTypeOK'
  BY <1>1, <1>2, CodeNumbers
  DEF CodesInv, CodesTypeOK, RequestRecords, OthersStay, Sending, store, history, Wrong
<1>4. Keyed'
  BY <1>1, <1>2, CodeNumbers
  DEF CodesInv, Keyed, RequestRecords, OthersStay, Sending, store, history, Wrong
<1>5. SendersOK'
  <2> SUFFICES ASSUME NEW d \in Requests, req'[d].at \in Sending
               PROVE  /\ req'[d].code \in 1..made /\ req'[d].code \notin mailed
                      /\ sentFor[req'[d].code] = [key |-> req'[d].key, user |-> req'[d].user]
                      /\ cooldown'[req'[d].key]
    BY DEF SendersOK, history
  <2>1. req'[d] = req[d] /\ req[d].key \in Keys
    BY <1>1, SenderFacts DEF OthersStay, Sending
  <2>2. cooldown[req[d].key]
    BY <2>1 DEF CodesInv, SendersOK
  <2>3. cooldown'[req[d].key]
    BY <2>1, <2>2 DEF CodesInv, CodesTypeOK
  <2> QED
    BY <2>1, <2>3 DEF CodesInv, SendersOK
<1>6. OneSenderAtATime'
  BY <1>1, <1>2, CodeNumbers
  DEF CodesInv, SendersOK, OneSenderAtATime, RequestRecords, OthersStay, Sending, store,
      history, Wrong
<1>7. StoredOK'
  BY <1>1, <1>2, CodeNumbers
  DEF CodesInv, CodesTypeOK, SendersOK, StoredOK, NewOK, RequestRecords, OthersStay, Sending,
      store, history, Wrong
<1>8. UnmadeOK'
  BY <1>1, <1>2, CodeNumbers
  DEF CodesInv, CodesTypeOK, StoredOK, UnmadeOK, RequestRecords, OthersStay, Sending, store,
      history, Wrong
<1>9. NewOK'
  BY <1>1, <1>2, CodeNumbers
  DEF CodesInv, CodesTypeOK, SendersOK, StoredOK, UnmadeOK, NewOK, RequestRecords, OthersStay,
      Sending, store, history, Wrong
<1>10. CodesWorkOnce'
  BY <1>1, <1>2, CodeNumbers
  DEF CodesInv, CodesTypeOK, StoredOK, CodesWorkOnce, RequestRecords, OthersStay, Sending,
      store, history, Wrong
<1>11. TriesOK'
  BY <1>1, <1>2, CodeNumbers
  DEF CodesInv, CodesTypeOK, NewOK, StoredOK, TriesOK, RequestRecords, OthersStay, Sending,
      store, history, Wrong
<1>12. GuessesAreBounded'
  BY <1>1, <1>2, CodeNumbers
  DEF CodesInv, CodesTypeOK, StoredOK, TriesOK, GuessesAreBounded, RequestRecords, OthersStay,
      Sending, store, history, Wrong
<1>13. SentOK'
  BY <1>1, <1>2, CodeNumbers
  DEF CodesInv, CodesTypeOK, Keyed, SentOK, RequestRecords, OthersStay, Sending, store,
      history, Wrong
<1>14. MailingOK'
  BY <1>1, <1>2, CodeNumbers
  DEF CodesInv, CodesTypeOK, Keyed, SendersOK, MailingOK, BoundTo, RequestRecords, OthersStay,
      Sending, store, history, Wrong
<1>15. BoundOK'
  BY <1>1, <1>2, CodeNumbers
  DEF CodesInv, CodesTypeOK, Keyed, SendersOK, StoredOK, UnmadeOK, SentOK, MailingOK, BoundOK,
      BoundTo, RequestRecords, OthersStay, Sending, store, history, Wrong
<1> QED
  BY <1>3, <1>4, <1>5, <1>6, <1>7, <1>8, <1>9, <1>10, <1>11, <1>12, <1>13, <1>14, <1>15 DEF
      CodesInv

(* A request that reserved the cooldown makes the next code.               *)
LEMMA ReservedInv ==
  ASSUME CodesInv, NEW c \in Requests, req[c].at = "reserve",
         ~cooldown[req[c].key], Reserved(c, req[c].key)
  PROVE  CodesInv'
<1>1. /\ req[c].key \in Keys /\ made \in Nat /\ made + 1 \in Codes /\ made' = made + 1
      /\ req[c].user \in Users \cup {None}
  BY CodeNumbers DEF Reserved, CodesInv, CodesTypeOK, Keyed, Codes
<1>2. /\ req' \in [Requests -> RequestRecords] /\ OthersStay(c)
      /\ req'[c].at = "setCode" /\ req'[c].key = req[c].key
      /\ req'[c].user = req[c].user /\ req'[c].code = made + 1
  BY <1>1 DEF Reserved, CodesInv, CodesTypeOK, RequestRecords, OthersStay, Stages, Sending
<1>3. [key |-> req[c].key, user |-> req[c].user] \in [key : Keys, user : Users \cup {None}]
  BY <1>1
<1>4. /\ sentFor'[made + 1] = [key |-> req[c].key, user |-> req[c].user]
      /\ \A n \in Codes : n <= made => sentFor'[n] = sentFor[n]
  BY <1>1, CodeNumbers DEF Reserved, CodesInv, CodesTypeOK
<1>5. \A d \in Requests : req[d].at \in Sending => req[d].key # req[c].key
  BY DEF CodesInv, SendersOK
<1>6. CodesTypeOK'
  <2>1. sentFor' \in [Codes -> [key : Keys, user : Users \cup {None}] \cup {None}]
    BY <1>1, <1>3 DEF Reserved, CodesInv, CodesTypeOK
  <2>2. made' \in 0..MaxCodes
    BY <1>1, CodeNumbers DEF Codes
  <2>3. cooldown' \in [Keys -> BOOLEAN]
    BY DEF Reserved, CodesInv, CodesTypeOK
  <2> QED
    BY <1>2, <2>1, <2>2, <2>3 DEF Reserved, CodesInv, CodesTypeOK, RequestRecords
<1>7. Keyed'
  BY <1>1, <1>2, <1>3, <1>4, <1>5, CodeNumbers
  DEF CodesInv, Keyed, Reserved, RequestRecords, OthersStay, Sending, store, history, Wrong
<1>8. SendersOK'
  <2> SUFFICES ASSUME NEW d \in Requests, req'[d].at \in Sending
               PROVE  /\ req'[d].code \in 1..made' /\ req'[d].code \notin mailed
                      /\ sentFor'[req'[d].code] = [key |-> req'[d].key, user |-> req'[d].user]
                      /\ cooldown'[req'[d].key]
    BY DEF Reserved, SendersOK
  <2>1. CASE d = c
    BY <1>1, <1>2, <1>4, <2>1 DEF Reserved, CodesInv, CodesTypeOK, UnmadeOK
  <2>2. CASE d # c
    <3>1. req'[d] = req[d] /\ req[d].key \in Keys /\ req[d].code \in Codes /\ req[d].code <= made
      BY <1>2, <2>2, SenderFacts DEF OthersStay
    <3>2. sentFor'[req[d].code] = sentFor[req[d].code]
      BY <1>1, <1>4, <3>1
    <3> QED
      BY <1>1, <3>1, <3>2 DEF Reserved, CodesInv, CodesTypeOK, SendersOK
  <2> QED
    BY <2>1, <2>2
<1>9. OneSenderAtATime'
  BY <1>2, <1>5 DEF CodesInv, OneSenderAtATime, OthersStay
<1>10. StoredOK'
  <2> SUFFICES ASSUME NEW k \in Keys, stored[k] # Wrong
               PROVE  /\ stored[k] <= made' /\ sentFor'[stored[k]].key = k
                      /\ accepted[stored[k]] = 0
    BY DEF Reserved, StoredOK
  <2>1. stored[k] \in Codes /\ stored[k] <= made
    BY DEF CodesInv, CodesTypeOK, StoredOK
  <2>2. sentFor'[stored[k]] = sentFor[stored[k]]
    BY <1>1, <1>4, <2>1
  <2>3. stored[k] \in Nat
    BY <2>1, CodeNumbers
  <2>4. stored[k] <= made'
    BY <1>1, <2>1, <2>3
  <2> QED
    BY <2>2, <2>4 DEF CodesInv, StoredOK
<1>11. UnmadeOK'
  <2>1. \A n \in mailed : n \in Nat
    BY CodeNumbers DEF CodesInv, CodesTypeOK
  <2> QED
    BY <1>1, <2>1, CodeNumbers DEF Reserved, CodesInv, UnmadeOK
<1>12. NewOK'
  <2> SUFFICES ASSUME NEW d \in Requests, req'[d].at = "setCode"
               PROVE  /\ accepted[req'[d].code] = 0 /\ tries[req'[d].code] = 0
                      /\ stored[req'[d].key] # req'[d].code
    BY DEF Reserved, NewOK
  <2>1. CASE d = c
    <3>1. stored[req[c].key] <= made
      BY <1>1, CodeNumbers DEF CodesInv, CodesTypeOK, StoredOK, Wrong
    <3> QED
      BY <1>1, <1>2, <2>1, <3>1, CodeNumbers DEF CodesInv, CodesTypeOK, UnmadeOK
  <2>2. CASE d # c
    BY <1>2, <2>2 DEF OthersStay, CodesInv, NewOK
  <2> QED
    BY <2>1, <2>2
<1>13. CodesWorkOnce'
  BY <1>1, <1>2, <1>3, <1>4, <1>5, CodeNumbers
  DEF CodesInv, CodesTypeOK, StoredOK, CodesWorkOnce, Reserved, RequestRecords, OthersStay,
      Sending, store, history, Wrong
<1>14. TriesOK'
  BY <1>1, <1>2, <1>3, <1>4, <1>5, CodeNumbers
  DEF CodesInv, CodesTypeOK, NewOK, StoredOK, TriesOK, Reserved, RequestRecords, OthersStay,
      Sending, store, history, Wrong
<1>15. GuessesAreBounded'
  BY <1>1, <1>2, <1>3, <1>4, <1>5, CodeNumbers
  DEF CodesInv, CodesTypeOK, StoredOK, TriesOK, GuessesAreBounded, Reserved, RequestRecords,
      OthersStay, Sending, store, history, Wrong
<1>16. SentOK'
  BY <1>1, <1>2, <1>3, <1>4, <1>5, CodeNumbers
  DEF CodesInv, CodesTypeOK, Keyed, SentOK, Reserved, RequestRecords, OthersStay, Sending,
      store, history, Wrong
<1>17. MailingOK'
  BY <1>1, <1>2, <1>3, <1>4, <1>5, CodeNumbers
  DEF CodesInv, CodesTypeOK, Keyed, SendersOK, MailingOK, BoundTo, Reserved, RequestRecords,
      OthersStay, Sending, store, history, Wrong
<1>18. BoundOK'
  <2> SUFFICES ASSUME NEW k \in Keys, stored[k] \in mailed, sentFor'[stored[k]].user # None
               PROVE  BoundTo(k, sentFor'[stored[k]].user, stored[k])
    BY DEF Reserved, BoundOK, BoundTo
  <2>1. stored[k] \in Codes /\ stored[k] <= made
    BY CodeNumbers DEF CodesInv, CodesTypeOK, UnmadeOK
  <2>2. sentFor'[stored[k]] = sentFor[stored[k]]
    BY <1>1, <1>4, <2>1
  <2> QED
    BY <2>2 DEF CodesInv, BoundOK
<1> QED
  BY <1>6, <1>7, <1>8, <1>9, <1>10, <1>11, <1>12, <1>13, <1>14, <1>15, <1>16, <1>17, <1>18 DEF
      CodesInv

(* The script of Verify: the code is consumed, missed, or not there.       *)
LEMMA SpendInv ==
  ASSUME CodesInv, NEW c \in Requests, NEW k \in Keys, NEW n,
         req[c].at = "present", Goes(c, "accepted") \/ Ends(c),
         Consume(k, n) \/ Miss(k, n) \/ UNCHANGED <<stored, attempts, accepted, tries>>,
         UNCHANGED <<cooldown, subject, made, mailed, sentFor>>
  PROVE  CodesInv'
<1>1. /\ req' \in [Requests -> RequestRecords] /\ OthersStay(c)
      /\ req'[c].at \in {"idle", "accepted"}
  BY GoesFacts, EndsFacts DEF CodesInv, Stages
<1>2. req'[c].at = "accepted" => req'[c].key \in Keys
  BY GoesFacts, EndsFacts DEF CodesInv, Keyed, Stages
<1>3. /\ stored' \in [Keys -> {Wrong} \cup Codes]
      /\ \A j \in Keys : stored'[j] \in {stored[j], Wrong}
  BY DEF Consume, Miss, CodesInv, CodesTypeOK
<1>4. /\ accepted' \in [Codes -> Nat] /\ tries' \in [Codes -> Nat]
      /\ \A m \in Codes : m # stored[k] => accepted'[m] = accepted[m] /\ tries'[m] = tries[m]
  <2>1. CASE Consume(k, n)
    <3>1. n \in Codes /\ n = stored[k] /\ accepted[n] + 1 \in Nat
      BY <2>1 DEF Consume, CodesInv, CodesTypeOK
    <3> QED
      BY <2>1, <3>1 DEF Consume, CodesInv, CodesTypeOK
  <2>2. CASE Miss(k, n)
    <3>1. stored[k] \in Codes /\ tries[stored[k]] + 1 \in Nat
      BY <2>2 DEF Miss, CodesInv, CodesTypeOK
    <3> QED
      BY <2>2, <3>1 DEF Miss, Counts, CodesInv, CodesTypeOK
  <2>3. CASE UNCHANGED <<stored, attempts, accepted, tries>>
    BY <2>3 DEF CodesInv, CodesTypeOK
  <2> QED
    BY <2>1, <2>2, <2>3
<1>5. attempts' \in [Keys -> [count : Nat, of : {Wrong} \cup Codes]]
  <2>1. attempts[k].count + 1 \in Nat /\ stored[k] \in {Wrong} \cup Codes
    BY DEF CodesInv, CodesTypeOK
  <2> QED
    BY <2>1 DEF Consume, Miss, NoAttempts, CodesInv, CodesTypeOK
<1>6. CodesTypeOK'
  BY <1>1, <1>3, <1>4, <1>5 DEF CodesInv, CodesTypeOK, RequestRecords
<1>7. Keyed'
  BY <1>1, <1>2, <1>3, <1>4, <1>5, CodeNumbers
  DEF CodesInv, Keyed, RequestRecords, OthersStay, Sending, store, history, Wrong
<1>8. SendersOK'
  BY <1>1 DEF CodesInv, SendersOK, OthersStay, Sending
<1>9. OneSenderAtATime'
  BY <1>1 DEF CodesInv, OneSenderAtATime, OthersStay, Sending
<1>10. StoredOK'
  <2> SUFFICES ASSUME NEW j \in Keys, stored'[j] # Wrong
               PROVE  /\ stored'[j] <= made /\ sentFor[stored'[j]].key = j
                      /\ accepted'[stored'[j]] = 0
    BY DEF StoredOK
  <2>1. stored'[j] = stored[j] /\ stored[j] \in Codes
    BY <1>3 DEF CodesInv, CodesTypeOK
  <2>2. CASE j = k
    BY <2>1, <2>2, <1>3 DEF Consume, Miss, Counts, CodesInv, CodesTypeOK, StoredOK
  <2>3. CASE j # k
    <3>1. stored[j] # stored[k]
      BY <2>1, <2>3 DEF CodesInv, StoredOK
    <3>2. accepted'[stored[j]] = accepted[stored[j]]
      BY <1>4, <2>1, <3>1
    <3> QED
      BY <2>1, <3>2 DEF CodesInv, StoredOK
  <2> QED
    BY <2>2, <2>3
<1>11. UnmadeOK'
  <2>1. ASSUME NEW m \in Codes, m > made PROVE m # stored[k]
    BY <2>1, CodeNumbers DEF CodesInv, CodesTypeOK, StoredOK, Wrong
  <2> QED
    BY <1>4, <2>1 DEF CodesInv, UnmadeOK
<1>12. NewOK'
  <2> SUFFICES ASSUME NEW d \in Requests, req'[d].at = "setCode"
               PROVE  /\ accepted'[req'[d].code] = 0 /\ tries'[req'[d].code] = 0
                      /\ stored'[req'[d].key] # req'[d].code
    BY DEF NewOK
  <2>1. req'[d] = req[d] /\ req[d].key \in Keys /\ req[d].code \in Codes
    BY <1>1, SenderFacts DEF OthersStay, Sending
  <2>2. sentFor[req[d].code] = [key |-> req[d].key, user |-> req[d].user]
    BY <2>1 DEF CodesInv, SendersOK, Sending
  <2>3. req[d].code # stored[k]
    BY <2>1, <2>2, CodeNumbers DEF CodesInv, StoredOK, NewOK
  <2>4. /\ accepted[req[d].code] = 0 /\ tries[req[d].code] = 0
        /\ stored[req[d].key] # req[d].code
    BY <2>1 DEF CodesInv, NewOK
  <2>5. stored'[req[d].key] # req[d].code
    BY <1>3, <2>1, <2>4, CodeNumbers
  <2> QED
    BY <1>4, <2>1, <2>3, <2>4, <2>5
<1>13. CodesWorkOnce'
  <2>1. ASSUME NEW m \in Codes PROVE accepted'[m] <= 1
    <3>1. CASE accepted'[m] = accepted[m]
      BY <3>1 DEF CodesInv, CodesWorkOnce
    <3>2. CASE accepted'[m] # accepted[m]
      <4>1. m = stored[k] /\ accepted' = [accepted EXCEPT ![m] = @ + 1]
        BY <1>4, <3>2 DEF Consume, Miss, Counts
      <4>2. accepted[m] = 0
        BY <4>1, CodeNumbers DEF CodesInv, StoredOK
      <4> QED
        BY <4>1, <4>2 DEF CodesInv, CodesTypeOK
    <3> QED
      BY <3>1, <3>2
  <2> QED
    BY <2>1 DEF CodesWorkOnce
<1>14. TriesOK'
  <2> SUFFICES ASSUME NEW j \in Keys
               PROVE  /\ attempts'[j].count < MaxAttempts
                      /\ stored'[j] # Wrong /\ tries'[stored'[j]] > 0 =>
                           /\ attempts'[j].of = stored'[j]
                           /\ tries'[stored'[j]] <= attempts'[j].count
    BY DEF TriesOK
  <2>1. CASE j = k
    <3>1. CASE Consume(k, n)
      BY <2>1, <3>1, CodeNumbers DEF Consume, NoAttempts, CodesInv, CodesTypeOK
    <3>2. CASE Miss(k, n)
      <4>1. /\ stored[k] \in Codes /\ attempts[k].count \in Nat /\ tries[stored[k]] \in Nat
            /\ tries'[stored[k]] = tries[stored[k]] + 1
        BY <3>2, <1>4 DEF Miss, Counts, CodesInv, CodesTypeOK
      <4>2. tries[stored[k]] <= attempts[k].count
        BY <3>2, <4>1 DEF Miss, CodesInv, TriesOK
      <4>3. CASE attempts[k].count + 1 >= MaxAttempts
        BY <2>1, <3>2, <4>3, CodeNumbers DEF Miss, NoAttempts, CodesInv, CodesTypeOK
      <4>4. CASE ~(attempts[k].count + 1 >= MaxAttempts)
        <5>1. stored'[k] = stored[k] /\ attempts'[k] = [count |-> attempts[k].count + 1, of |-> stored[k]]
          BY <3>2, <4>4 DEF Miss, CodesInv, CodesTypeOK
        <5> QED
          BY <2>1, <4>1, <4>2, <4>4, <5>1, CodeNumbers
      <4> QED
        BY <4>3, <4>4
    <3>3. CASE UNCHANGED <<stored, attempts, accepted, tries>>
      BY <2>1, <3>3 DEF CodesInv, TriesOK
    <3> QED
      BY <3>1, <3>2, <3>3
  <2>2. CASE j # k
    <3>1. attempts'[j] = attempts[j]
      BY <2>2 DEF Consume, Miss, CodesInv, CodesTypeOK
    <3>2. CASE stored'[j] = Wrong
      BY <3>1, <3>2 DEF CodesInv, TriesOK
    <3>3. CASE stored'[j] # Wrong
      <4>1. stored'[j] = stored[j] /\ stored[j] \in Codes /\ stored[j] # stored[k]
        BY <1>3, <2>2, <3>3 DEF CodesInv, CodesTypeOK, StoredOK
      <4>2. tries'[stored[j]] = tries[stored[j]]
        BY <1>4, <4>1
      <4> QED
        BY <3>1, <4>1, <4>2 DEF CodesInv, TriesOK
    <3> QED
      BY <3>2, <3>3
  <2> QED
    BY <2>1, <2>2
<1>15. GuessesAreBounded'
  <2>1. ASSUME NEW m \in Codes PROVE tries'[m] <= MaxAttempts
    <3>1. CASE tries'[m] = tries[m]
      BY <3>1 DEF CodesInv, GuessesAreBounded
    <3>2. CASE tries'[m] # tries[m]
      <4>1. m = stored[k] /\ tries' = [tries EXCEPT ![m] = @ + 1]
        BY <1>4, <3>2 DEF Consume, Miss, Counts
      <4>2. tries[m] < MaxAttempts
        BY <4>1, CodeNumbers DEF CodesInv, CodesTypeOK, TriesOK
      <4> QED
        BY <4>1, <4>2, CodeNumbers DEF CodesInv, CodesTypeOK
    <3> QED
      BY <3>1, <3>2
  <2> QED
    BY <2>1 DEF GuessesAreBounded
<1>16. SentOK'
  BY <1>1, <1>2, <1>3, <1>4, <1>5, CodeNumbers
  DEF CodesInv, CodesTypeOK, Keyed, SentOK, RequestRecords, OthersStay, Sending, store,
      history, Wrong
<1>17. MailingOK'
  BY <1>1 DEF CodesInv, MailingOK, BoundTo, OthersStay
<1>18. BoundOK'
  BY <1>1, <1>2, <1>3, <1>4, <1>5, CodeNumbers
  DEF CodesInv, CodesTypeOK, Keyed, SendersOK, StoredOK, UnmadeOK, SentOK, MailingOK, BoundOK,
      BoundTo, RequestRecords, OthersStay, Sending, store, history, Wrong
<1> QED
  BY <1>6, <1>7, <1>8, <1>9, <1>10, <1>11, <1>12, <1>13, <1>14, <1>15, <1>16, <1>17, <1>18 DEF
      CodesInv

(* SET NX reserves, or the request is turned away, or Redis fails.         *)
LEMMA ReserveInv ==
  ASSUME CodesInv, NEW c \in Requests, Reserve(c)
  PROVE  CodesInv'
<1>1. CASE ~cooldown[req[c].key] /\ Reserved(c, req[c].key)
  BY <1>1, ReservedInv DEF Reserve
<1>2. CASE ~(~cooldown[req[c].key] /\ Reserved(c, req[c].key))
  BY <1>2, TurnedAwayInv DEF Reserve, store
<1> QED
  BY <1>1, <1>2

(* Presenting a code: it is spent, or the built-in one, or Redis fails.    *)
LEMMA VerifyInv ==
  ASSUME CodesInv, NEW c \in Requests, Verify(c) \/ VerifyFails(c)
  PROVE  CodesInv'
<1>1. req[c].at = "present" /\ req[c].key \in Keys
  BY DEF Verify, VerifyFails, CodesInv, Keyed
<1>2. Goes(c, "accepted") \/ Ends(c)
  BY DEF Verify, VerifyFails
<1>3. \/ Consume(req[c].key, req[c].code) \/ Miss(req[c].key, req[c].code)
      \/ UNCHANGED <<stored, attempts, accepted, tries>>
  BY DEF Verify, VerifyFails, NoCode
<1>4. UNCHANGED <<cooldown, subject, made, mailed, sentFor>>
  BY DEF Verify, VerifyFails
<1> QED
  BY <1>1, <1>2, <1>3, <1>4, SpendInv

LEMMA CodeStepInv ==
  ASSUME CodesInv, NEW c \in Requests, CodeStep(c)
  PROVE  CodesInv'
  BY ReserveInv, SetCodeInv, SetSubjectInv, MailInv, UndoCodeInv, UndoCooldownInv, VerifyInv
  DEF CodeStep

LEMMA ExpireInv ==
  ASSUME CodesInv, Expire
  PROVE  CodesInv'
  BY ExpireCodeInv, ExpireAttemptsInv, ExpireCooldownInv, ForgetSubjectInv
  DEF Expire, ExpireSubject

LEMMA CodesStutterInv ==
  ASSUME CodesInv, UNCHANGED codeVars
  PROVE  CodesInv'
<1>1. /\ CodesTypeOK' /\ Keyed' /\ SendersOK' /\ OneSenderAtATime' /\ StoredOK' /\ UnmadeOK'
  BY DEF codeVars, store, history, CodesInv, CodesTypeOK, Keyed, SendersOK, OneSenderAtATime,
         StoredOK, UnmadeOK
<1>2. /\ NewOK' /\ CodesWorkOnce' /\ TriesOK' /\ GuessesAreBounded' /\ SentOK'
      /\ MailingOK' /\ BoundOK'
  BY DEF codeVars, store, history, CodesInv, NewOK, CodesWorkOnce, TriesOK, GuessesAreBounded,
         SentOK, MailingOK, BoundOK, BoundTo
<1> QED
  BY <1>1, <1>2 DEF CodesInv

LEMMA CodesNextInv ==
  ASSUME CodesInv, [CodesNext]_codeVars
  PROVE  CodesInv'
<1>1. ASSUME NEW c \in Requests, NEW k \in Keys, NEW u \in Users \cup {None}, Send(c, k, u)
      PROVE  CodesInv'
  BY <1>1, SendInv
<1>2. ASSUME NEW c \in Requests, NEW k \in Keys, NEW u \in Users \cup {None},
             NEW n \in mailed \cup {Wrong, Default}, Present(c, k, u, n)
      PROVE  CodesInv'
  <2>1. n \in {Wrong, Default} \cup Codes
    BY DEF CodesInv, CodesTypeOK
  <2> QED
    BY <1>2, <2>1, PresentInv
<1>3. ASSUME NEW c \in Requests, CodeStep(c) \/ Use(c) \/ GiveUp(c) PROVE CodesInv'
  BY <1>3, CodeStepInv, UseInv, GiveUpInv
<1> QED
  BY <1>1, <1>2, <1>3, ForgetSubjectInv, ExpireInv, CodesStutterInv DEF CodesNext

-----------------------------------------------------------------------------
(* Theorems. *)

(* The strengthened invariant holds in every reachable state of the code   *)
(* store and of the requests that use it (createOTPFlow and consumeOTP).   *)
THEOREM CodesInvHolds == CodesSpec => []CodesInv
  BY CodesInitInv, CodesNextInv, PTL DEF CodesSpec

(* No code is accepted twice, whoever presents it and whatever fails       *)
(* (Verify in cache.go).                                                   *)
THEOREM CodesAreUsedOnce == CodesSpec => []CodesWorkOnce
<1>1. CodesInv => CodesWorkOnce
  BY DEF CodesInv
<1> QED
  BY <1>1, CodesInvHolds, PTL

(* No code bears more failed attempts than the configured number, although *)
(* the codes of a key share one counter (Verify in cache.go).              *)
THEOREM AttemptsAreBounded == CodesSpec => []GuessesAreBounded
<1>1. CodesInv => GuessesAreBounded
  BY DEF CodesInv
<1> QED
  BY <1>1, CodesInvHolds, PTL

(* Two requests never send to one key at once (Reserve in cache.go).       *)
THEOREM SendersExclude == CodesSpec => []OneSenderAtATime
<1>1. CodesInv => OneSenderAtATime
  BY DEF CodesInv
<1> QED
  BY <1>1, CodesInvHolds, PTL

(* The account beside a mailed code is that of the code (createOTPFlow).   *)
THEOREM AccountsMatchCodes == CodesSpec => []SubjectsMatch
<1>1. CodesInv => SubjectsMatch
  <2> SUFFICES ASSUME CodesInv, NEW k \in Keys, stored[k] \in mailed,
                      sentFor[stored[k]].user # None, subject[k] # NoSubject
               PROVE  subject[k].user = sentFor[stored[k]].user
    BY DEF SubjectsMatch
  <2>1. subject[k] = [user |-> sentFor[stored[k]].user, code |-> stored[k]]
    BY DEF CodesInv, BoundOK, BoundTo
  <2> QED
    BY <2>1
<1> QED
  BY <1>1, CodesInvHolds, PTL

-----------------------------------------------------------------------------
(* The inductive invariant of the account service (module Accounts). *)

AccountRecords == [email : Emails, name : Names]
TaskRecords ==
  [op : Ops \cup {"none"}, at : TaskStages, user : Users \cup {None},
   email : Emails \cup {None}, name : Names \cup {None}]

AccountTypes ==
  /\ user \in [Users -> AccountRecords \cup {None}]
  /\ task \in [Requests -> TaskRecords]

(* An operation knows what it needs, and the account it changes exists.    *)
Shaped(t) ==
  /\ t.op = "none" => t.user = None /\ t.at = "idle"
  /\ t.op = "register" =>
       /\ t.user \in Users /\ t.email \in Emails /\ t.name \in Names /\ user[t.user] = None
       /\ t.at \in {"lookup", "code", "session", "commit"}
  /\ t.op = "change" =>
       /\ t.user \in Users /\ t.email \in Emails /\ user[t.user] # None
       /\ t.at \in {"subject", "code", "forget"}
  /\ t.op = "rename" =>
       /\ t.user \in Users /\ t.email = None /\ t.name \in Names /\ user[t.user] # None
       /\ t.at \in {"save", "sync", "commit"}
  /\ t.op = "reset" => t.user = None /\ t.email \in Emails /\ t.at = "code"

TasksOK == \A c \in Requests : Shaped(task[c])

(* Every registration has an account of its own.                           *)
FreshUsers ==
  \A c, d \in Requests : c # d /\ task[c].op = "register" => task[d].user # task[c].user

IdsOf(t) == {t.email, t.name} \ {None}
Apart(t, s) == IdsOf(t) \cap IdsOf(s) = {} /\ t.user # s.user

(* A row that is written and not committed is unique, too.                 *)
WritersOK ==
  \A c \in Requests : Writing(c) =>
    /\ ~Taken(task[c].user, IdsOf(task[c]))
    /\ \A d \in Requests \ {c} : Writing(d) => Apart(task[c], task[d])

AccountsInv == AccountTypes /\ TasksOK /\ FreshUsers /\ WritersOK /\ IdentitiesAreUnique

LEMMA TakenFacts ==
  ASSUME AccountTypes, NEW u, NEW x
  PROVE  Taken(u, x) <=> \E v \in Users \ {u} :
           user[v] # None /\ (user[v].email \in x \/ user[v].name \in x)
  BY DEF Taken, EmailOf, NameOf

LEMMA UniqueFacts ==
  AccountTypes =>
    (IdentitiesAreUnique <=> \A u, v \in Users :
       u # v /\ user[u] # None /\ user[v] # None =>
         user[u].email # user[v].email /\ user[u].name # user[v].name)
<1> SUFFICES ASSUME AccountTypes
             PROVE  IdentitiesAreUnique <=> \A u, v \in Users :
                      u # v /\ user[u] # None /\ user[v] # None =>
                        user[u].email # user[v].email /\ user[u].name # user[v].name
  OBVIOUS
<1>1. ASSUME NEW u \in Users, user[u] # None
      PROVE  /\ EmailOf(u) = user[u].email /\ NameOf(u) = user[u].name
             /\ user[u].email \in Emails /\ user[u].name \in Names
  BY <1>1 DEF AccountTypes, AccountRecords, EmailOf, NameOf
<1>2. ASSUME NEW u \in Users, NEW v \in Users, user[u] # None, user[v] # None
      PROVE  user[u].email # user[v].name
  BY <1>1, <1>2, IdentitiesDiffer
<1>3. ASSUME NEW u \in Users, user[u] # None
      PROVE  Taken(u, {EmailOf(u), NameOf(u)}) <=> \E v \in Users \ {u} :
               user[v] # None /\ (user[v].email = user[u].email \/ user[v].name = user[u].name)
  BY <1>1, <1>2, <1>3, TakenFacts
<1> QED
  BY <1>3 DEF IdentitiesAreUnique

LEMMA UniqueFactsNext ==
  AccountTypes' =>
    (IdentitiesAreUnique <=> \A u, v \in Users :
       u # v /\ user[u] # None /\ user[v] # None =>
         user[u].email # user[v].email /\ user[u].name # user[v].name)'
  BY UniqueFacts, PTL

LEMMA AccountsInitInv == Init => AccountsInv
  BY NoneIsNoAccount
  DEF Init, AccountsInv, AccountTypes, TasksOK, FreshUsers, WritersOK, IdentitiesAreUnique, NoTask,
      Shaped, Taken, Writing, TaskRecords, AccountRecords, Ops, TaskStages

-----------------------------------------------------------------------------
(* Steps that leave the table as it is. *)

WritingStages == {"session", "sync", "commit"}

(* A task may become any that is shaped, does not take over the account of *)
(* a registration, and writes nothing another one writes.                  *)
LEMMA TaskStep ==
  ASSUME AccountsInv, NEW c \in Requests, NEW t \in TaskRecords, Shaped(t),
         task' = [task EXCEPT ![c] = t], UNCHANGED user,
         \A d \in Requests \ {c} : t.op = "register" => task[d].user # t.user,
         t.at \in WritingStages =>
           /\ ~Taken(t.user, IdsOf(t))
           /\ \A d \in Requests \ {c} : Writing(d) => Apart(t, task[d])
  PROVE  AccountsInv'
<1>1. /\ task' \in [Requests -> TaskRecords] /\ task'[c] = t
      /\ \A d \in Requests \ {c} : task'[d] = task[d]
  BY DEF AccountsInv, AccountTypes
<1>2. AccountTypes'
  BY <1>1 DEF AccountsInv, AccountTypes
<1>3. TasksOK'
  BY <1>1 DEF AccountsInv, TasksOK, Shaped
<1>4. FreshUsers'
  <2> SUFFICES ASSUME NEW d \in Requests, NEW e \in Requests, d # e, task'[d].op = "register"
               PROVE  task'[e].user # task'[d].user
    BY DEF FreshUsers
  <2>1. CASE d = c
    BY <1>1, <2>1
  <2>2. CASE e = c
    <3>1. /\ task[d].op = "register" /\ task'[d] = task[d] /\ task'[e] = t
          /\ task[d].user \in Users /\ user[task[d].user] = None
      BY <1>1, <2>2 DEF AccountsInv, TasksOK, Shaped
    <3>2. CASE t.op = "register"
      BY <3>1, <3>2, <2>2
    <3>3. CASE t.op # "register"
      <4>1. t.user = None \/ user[t.user] # None
        BY <3>3 DEF Shaped, TaskRecords, Ops
      <4> QED
        BY <3>1, <4>1, NoneIsNoUser
    <3> QED
      BY <3>2, <3>3
  <2>3. CASE d # c /\ e # c
    BY <1>1, <2>3 DEF AccountsInv, FreshUsers
  <2> QED
    BY <2>1, <2>2, <2>3
<1>5. WritersOK'
  <2> SUFFICES ASSUME NEW d \in Requests, Writing(d)'
               PROVE  /\ ~Taken(task'[d].user, IdsOf(task'[d]))
                      /\ \A e \in Requests \ {d} : Writing(e)' => Apart(task'[d], task'[e])
    BY DEF WritersOK, Taken, IdsOf, Apart, EmailOf, NameOf
  <2>1. \A e \in Requests \ {c} : Writing(e)' <=> Writing(e)
    BY <1>1 DEF Writing
  <2>2. CASE d = c
    BY <1>1, <2>1, <2>2 DEF Writing, WritingStages
  <2>3. CASE d # c
    <3>1. Writing(d) /\ task'[d] = task[d]
      BY <1>1, <2>1, <2>3
    <3>2. /\ ~Taken(task[d].user, IdsOf(task[d]))
          /\ \A e \in Requests \ {d} : Writing(e) => Apart(task[d], task[e])
      BY <3>1 DEF AccountsInv, WritersOK
    <3>3. ASSUME NEW e \in Requests \ {d}, Writing(e)' PROVE Apart(task[d], task'[e])
      <4>1. CASE e = c
        <5>1. Apart(t, task[d])
          BY <1>1, <2>3, <3>1, <3>3, <4>1 DEF Writing, WritingStages
        <5> QED
          BY <1>1, <4>1, <5>1 DEF Apart
      <4>2. CASE e # c
        BY <1>1, <2>1, <3>2, <3>3, <4>2
      <4> QED
        BY <4>1, <4>2
    <3> QED
      BY <3>1, <3>2, <3>3
  <2> QED
    BY <2>2, <2>3
<1>6. IdentitiesAreUnique'
  BY DEF AccountsInv, IdentitiesAreUnique, Taken, EmailOf, NameOf
<1> QED
  BY <1>2, <1>3, <1>4, <1>5, <1>6 DEF AccountsInv

(* A request that ends.                                                    *)
LEMMA LeavesInv ==
  ASSUME AccountsInv, NEW c \in Requests, Leaves(c), UNCHANGED user
  PROVE  AccountsInv'
<1>1. NoTask \in TaskRecords /\ Shaped(NoTask) /\ NoTask.at = "idle" /\ NoTask.op = "none"
  BY DEF NoTask, TaskRecords, TaskStages, Shaped
<1>2. NoTask.at \notin WritingStages
  BY <1>1 DEF WritingStages
<1> QED
  BY <1>1, <1>2, TaskStep DEF Leaves

(* A request that goes on, with nothing written or what it had written.    *)
LEMMA TurnsInv ==
  ASSUME AccountsInv, NEW c \in Requests, NEW stage \in TaskStages, Turns(c, stage), UNCHANGED user,
         Shaped([task[c] EXCEPT !.at = stage]),
         stage \in WritingStages =>
           \/ Writing(c)
           \/ /\ ~Taken(task[c].user, IdsOf(task[c]))
              /\ \A d \in Requests \ {c} : Writing(d) => Apart(task[c], task[d])
  PROVE  AccountsInv'
<1> DEFINE t == [task[c] EXCEPT !.at = stage]
<1>1. /\ t \in TaskRecords /\ t.at = stage /\ t.op = task[c].op /\ t.user = task[c].user
      /\ t.email = task[c].email /\ t.name = task[c].name
  BY DEF AccountsInv, AccountTypes, TaskRecords
<1>2. task' = [task EXCEPT ![c] = t]
  BY DEF Turns
<1>3. \A d \in Requests \ {c} : t.op = "register" => task[d].user # t.user
  BY <1>1 DEF AccountsInv, FreshUsers
<1>4. stage \in WritingStages =>
        /\ ~Taken(task[c].user, IdsOf(task[c]))
        /\ \A d \in Requests \ {c} : Writing(d) => Apart(task[c], task[d])
  BY DEF AccountsInv, WritersOK
<1>5. IdsOf(t) = IdsOf(task[c]) /\ \A s : Apart(t, s) <=> Apart(task[c], s)
  BY <1>1 DEF IdsOf, Apart
<1>6. t.at \in WritingStages =>
        /\ ~Taken(t.user, IdsOf(t))
        /\ \A d \in Requests \ {c} : Writing(d) => Apart(t, task[d])
  BY <1>1, <1>4, <1>5
<1>7. Shaped(t)
  OBVIOUS
<1> HIDE DEF t
<1> QED
  BY <1>1, <1>2, <1>3, <1>6, <1>7, TaskStep

(* A request that begins.                                                  *)
LEMMA StartsInv ==
  ASSUME AccountsInv, NEW c \in Requests, NEW op \in Ops, NEW stage \in TaskStages \ WritingStages,
         NEW u \in Users \cup {None}, NEW e \in Emails \cup {None}, NEW m \in Names \cup {None},
         Starts(c, op, stage, u, e, m), UNCHANGED user,
         Shaped([op |-> op, at |-> stage, user |-> u, email |-> e, name |-> m]),
         op = "register" => \A d \in Requests : task[d].user # u
  PROVE  AccountsInv'
<1> DEFINE t == [op |-> op, at |-> stage, user |-> u, email |-> e, name |-> m]
<1>1. t \in TaskRecords /\ t.at \notin WritingStages /\ t.op = op /\ t.user = u
  BY DEF TaskRecords
<1>2. task' = [task EXCEPT ![c] = t]
  BY DEF Starts
<1>3. Shaped(t)
  OBVIOUS
<1> HIDE DEF t
<1> QED
  BY <1>1, <1>2, <1>3, TaskStep

-----------------------------------------------------------------------------
(* Each operation. *)

LEMMA StartRegisterInv ==
  ASSUME AccountsInv, NEW c \in Requests, NEW u \in Users, NEW e \in Emails, NEW m \in Names,
         StartRegister(c, u, e, m)
  PROVE  AccountsInv'
<1>1. Shaped([op |-> "register", at |-> "lookup", user |-> u, email |-> e, name |-> m])
  BY DEF StartRegister, Shaped
<1> QED
  BY <1>1, StartsInv DEF StartRegister, Ops, TaskStages, WritingStages

LEMMA StartChangeInv ==
  ASSUME AccountsInv, NEW c \in Requests, NEW u \in Users, NEW e \in Emails, StartChange(c, u, e)
  PROVE  AccountsInv'
<1>1. Shaped([op |-> "change", at |-> "subject", user |-> u, email |-> e, name |-> None])
  BY DEF StartChange, NewEmailFor, Shaped
<1> QED
  BY <1>1, StartsInv DEF StartChange, Ops, TaskStages, WritingStages

LEMMA StartRenameInv ==
  ASSUME AccountsInv, NEW c \in Requests, NEW u \in Users, NEW m \in Names, StartRename(c, u, m)
  PROVE  AccountsInv'
<1>1. Shaped([op |-> "rename", at |-> "save", user |-> u, email |-> None, name |-> m])
  BY DEF StartRename, Shaped
<1> QED
  BY <1>1, StartsInv DEF StartRename, Ops, TaskStages, WritingStages

LEMMA StartResetInv ==
  ASSUME AccountsInv, NEW c \in Requests, NEW e \in Emails, NEW n, StartReset(c, e, n)
  PROVE  AccountsInv'
<1>1. Shaped([op |-> "reset", at |-> "code", user |-> None, email |-> e, name |-> None])
  BY DEF Shaped
<1> QED
  BY <1>1, StartsInv DEF StartReset, Ops, TaskStages, WritingStages

LEMMA LookupInv ==
  ASSUME AccountsInv, NEW c \in Requests, NEW n, Lookup(c, n)
  PROVE  AccountsInv'
<1>1. Shaped([task[c] EXCEPT !.at = "code"])
  BY DEF Lookup, At, AccountsInv, AccountTypes, TaskRecords, TasksOK, Shaped
<1> QED
  BY <1>1, LeavesInv, TurnsInv DEF Lookup, TaskStages, WritingStages

LEMMA CheckSubjectInv ==
  ASSUME AccountsInv, NEW c \in Requests, NEW n, CheckSubject(c, n)
  PROVE  AccountsInv'
<1>1. Shaped([task[c] EXCEPT !.at = "code"])
  BY DEF CheckSubject, At, AccountsInv, AccountTypes, TaskRecords, TasksOK, Shaped
<1> QED
  BY <1>1, LeavesInv, TurnsInv DEF CheckSubject, TaskStages, WritingStages

(* Who need not wait writes what nobody else is writing.                   *)
LEMMA WaitFacts ==
  ASSUME AccountsInv, NEW c \in Requests, NEW x, task[c].user \in Users,
         IdsOf(task[c]) \subseteq x, task[c].op \in {"register", "rename"},
         task[c].op = "rename" => task[c].user \in x,
         ~Waits(c, x)
  PROVE  \A d \in Requests \ {c} : Writing(d) => Apart(task[c], task[d])
<1> SUFFICES ASSUME NEW d \in Requests \ {c}, Writing(d) PROVE Apart(task[c], task[d])
  OBVIOUS
<1>1. Holds(d) \cap x = {}
  BY DEF Waits
<1>2. IdsOf(task[d]) \subseteq Holds(d)
  BY DEF IdsOf, Holds
<1>3. task[c].user # task[d].user
  <2>1. CASE task[c].op = "register"
    BY <2>1 DEF AccountsInv, FreshUsers
  <2>2. CASE task[c].op = "rename"
    BY <1>1, <2>2, NoneIsNoUser DEF Holds
  <2> QED
    BY <2>1, <2>2
<1> QED
  BY <1>1, <1>2, <1>3 DEF Apart

LEMMA InsertInv ==
  ASSUME AccountsInv, NEW c \in Requests, Insert(c)
  PROVE  AccountsInv'
<1>1. /\ task[c].op = "register" /\ task[c].user \in Users
      /\ IdsOf(task[c]) = {task[c].email, task[c].name}
      /\ Shaped([task[c] EXCEPT !.at = "session"])
  BY NoneIsNoIdentity
  DEF Insert, At, IdsOf, AccountsInv, AccountTypes, TaskRecords, TasksOK, Shaped
<1>2. CASE Leaves(c)
  BY <1>2, LeavesInv DEF Insert
<1>3. CASE Turns(c, "session") /\ ~Taken(task[c].user, {task[c].email, task[c].name})
  <2>1. \A d \in Requests \ {c} : Writing(d) => Apart(task[c], task[d])
    BY <1>1, WaitFacts DEF Insert
  <2> QED
    BY <1>1, <1>3, <2>1, TurnsInv DEF Insert, TaskStages, WritingStages
<1> QED
  BY <1>2, <1>3 DEF Insert

LEMMA UpdateProfileInv ==
  ASSUME AccountsInv, NEW c \in Requests, UpdateProfile(c)
  PROVE  AccountsInv'
<1>1. /\ task[c].op = "rename" /\ task[c].user \in Users
      /\ IdsOf(task[c]) = {task[c].name}
      /\ Shaped([task[c] EXCEPT !.at = "sync"])
  BY NoneIsNoIdentity
  DEF UpdateProfile, At, IdsOf, AccountsInv, AccountTypes, TaskRecords, TasksOK, Shaped
<1>2. CASE Leaves(c)
  BY <1>2, LeavesInv DEF UpdateProfile
<1>3. CASE Turns(c, "sync") /\ ~Taken(task[c].user, {task[c].name})
  <2>1. \A d \in Requests \ {c} : Writing(d) => Apart(task[c], task[d])
    BY <1>1, WaitFacts DEF UpdateProfile
  <2> QED
    BY <1>1, <1>3, <2>1, TurnsInv DEF UpdateProfile, TaskStages, WritingStages
<1> QED
  BY <1>2, <1>3 DEF UpdateProfile

LEMMA CreateSessionInv ==
  ASSUME AccountsInv, NEW c \in Requests, CreateSession(c)
  PROVE  AccountsInv'
<1>1. Shaped([task[c] EXCEPT !.at = "commit"]) /\ Writing(c)
  BY DEF CreateSession, At, Writing, AccountsInv, AccountTypes, TaskRecords, TasksOK, Shaped
<1> QED
  BY <1>1, TurnsInv DEF CreateSession, TaskStages

LEMMA SyncMembersInv ==
  ASSUME AccountsInv, NEW c \in Requests, SyncMembers(c)
  PROVE  AccountsInv'
<1>1. Shaped([task[c] EXCEPT !.at = "commit"]) /\ Writing(c)
  BY DEF SyncMembers, At, Writing, AccountsInv, AccountTypes, TaskRecords, TasksOK, Shaped
<1> QED
  BY <1>1, TurnsInv DEF SyncMembers, TaskStages

-----------------------------------------------------------------------------
(* Steps that change the table. *)

Replaces(c, u, row, t) ==
  user' = [user EXCEPT ![u] = row] /\ task' = [task EXCEPT ![c] = t]

(* The row is unique, what others write included.                          *)
Fits(c, u, row) ==
  /\ \A d \in Requests \ {c} : task[d].op = "register" => task[d].user # u
  /\ \A v \in Users \ {u} : user[v] # None => row.email # user[v].email /\ row.name # user[v].name
  /\ \A d \in Requests \ {c} : Writing(d) =>
       task[d].user # u /\ row.email \notin IdsOf(task[d]) /\ row.name \notin IdsOf(task[d])

(* An account may get a row that differs from every other row, committed   *)
(* or not, when no other registration is for it.                           *)
LEMMA RowStep ==
  ASSUME AccountsInv, NEW c \in Requests, NEW u \in Users, NEW row \in AccountRecords,
         NEW t \in TaskRecords, t.at \notin WritingStages,
         t = NoTask \/ (t.op = "change" /\ t.user = u /\ t.email \in Emails /\ t.at = "forget"),
         Replaces(c, u, row, t), Fits(c, u, row)
  PROVE  AccountsInv'
<1>1. /\ task' \in [Requests -> TaskRecords] /\ task'[c] = t
      /\ \A d \in Requests \ {c} : task'[d] = task[d]
  BY DEF AccountsInv, AccountTypes, Replaces
<1>2. /\ user' \in [Users -> AccountRecords \cup {None}] /\ user'[u] = row /\ user'[u] # None
      /\ \A v \in Users \ {u} : user'[v] = user[v]
  BY NoneIsNoAccount DEF AccountsInv, AccountTypes, AccountRecords, Replaces
<1>3. AccountTypes'
  BY <1>1, <1>2 DEF AccountTypes
<1>4. TasksOK'
  <2> SUFFICES ASSUME NEW d \in Requests PROVE Shaped(task[d])'
    BY DEF TasksOK
  <2>1. CASE d = c
    <3>1. CASE t = NoTask
      BY <1>1, <2>1, <3>1 DEF NoTask, Shaped
    <3>2. CASE t # NoTask
      BY <1>1, <1>2, <2>1, <3>2 DEF Shaped
    <3> QED
      BY <3>1, <3>2
  <2>2. CASE d # c
    BY <1>1, <1>2, <2>2 DEF AccountsInv, TasksOK, Shaped, Fits
  <2> QED
    BY <2>1, <2>2
<1>5. FreshUsers'
  <2> SUFFICES ASSUME NEW d \in Requests, NEW e \in Requests, d # e, task'[d].op = "register"
               PROVE  task'[e].user # task'[d].user
    BY DEF FreshUsers
  <2>1. d # c
    BY <1>1 DEF NoTask
  <2>2. task'[d] = task[d] /\ task[d].user \in Users /\ task[d].user # u
    BY <1>1, <2>1 DEF AccountsInv, TasksOK, Shaped, Fits
  <2>3. CASE e = c
    BY <1>1, <2>2, <2>3, NoneIsNoUser DEF NoTask
  <2>4. CASE e # c
    BY <1>1, <2>1, <2>4 DEF AccountsInv, FreshUsers
  <2> QED
    BY <2>3, <2>4
<1>6. WritersOK'
  <2> SUFFICES ASSUME NEW d \in Requests, Writing(d)'
               PROVE  (/\ ~Taken(task[d].user, IdsOf(task[d]))
                       /\ \A e \in Requests \ {d} : Writing(e) => Apart(task[d], task[e]))'
    BY DEF WritersOK
  <2>1. \A e \in Requests : Writing(e)' => e # c /\ Writing(e) /\ task'[e] = task[e]
    BY <1>1 DEF Writing, WritingStages
  <2>2. /\ ~Taken(task[d].user, IdsOf(task[d]))
        /\ \A e \in Requests \ {d} : Writing(e) => Apart(task[d], task[e])
    BY <2>1 DEF AccountsInv, WritersOK
  <2>3. (\A e \in Requests \ {d} : Writing(e) => Apart(task[d], task[e]))'
    BY <2>1, <2>2 DEF Apart, IdsOf
  <2>4. \A v \in Users \ {task[d].user} : user'[v] # None =>
          user'[v].email \notin IdsOf(task[d]) /\ user'[v].name \notin IdsOf(task[d])
    <3>1. \A v \in Users \ {task[d].user} : user[v] # None =>
            user[v].email \notin IdsOf(task[d]) /\ user[v].name \notin IdsOf(task[d])
      BY <2>2, TakenFacts DEF AccountsInv
    <3>2. row.email \notin IdsOf(task[d]) /\ row.name \notin IdsOf(task[d])
      BY <2>1 DEF Fits
    <3> QED
      BY <1>2, <3>1, <3>2
  <2>5. ~Taken(task[d].user, IdsOf(task[d]))'
    <3>1. task'[d] = task[d]
      BY <2>1
    <3> SUFFICES ASSUME NEW v \in Users \ {task[d].user}, user'[v] # None,
                        {EmailOf(v)', NameOf(v)'} \cap IdsOf(task[d]) # {}
                 PROVE  FALSE
      BY <3>1 DEF Taken, IdsOf, EmailOf, NameOf
    <3>2. EmailOf(v)' = user'[v].email /\ NameOf(v)' = user'[v].name
      BY DEF EmailOf, NameOf
    <3> QED
      BY <2>4, <3>2
  <2> QED
    BY <2>3, <2>5
<1>7. IdentitiesAreUnique'
  <2>1. \A v, w \in Users :
          v # w /\ user'[v] # None /\ user'[w] # None =>
            user'[v].email # user'[w].email /\ user'[v].name # user'[w].name
    BY <1>2, UniqueFacts DEF AccountsInv, Fits
  <2> QED
    BY <1>3, <2>1, UniqueFactsNext
<1> QED
  BY <1>3, <1>4, <1>5, <1>6, <1>7 DEF AccountsInv

LEMMA CommitRegistrationInv ==
  ASSUME AccountsInv, NEW c \in Requests, CommitRegistration(c)
  PROVE  AccountsInv'
<1> DEFINE u == task[c].user
           row == [email |-> task[c].email, name |-> task[c].name]
<1>1. /\ u \in Users /\ row \in AccountRecords /\ Writing(c) /\ task[c].op = "register"
      /\ IdsOf(task[c]) = {row.email, row.name}
  BY NoneIsNoIdentity
  DEF CommitRegistration, At, Writing, AccountsInv, AccountTypes, AccountRecords, TaskRecords,
      TasksOK, Shaped, IdsOf
<1>2. \A d \in Requests \ {c} : task[d].user # u
  BY <1>1 DEF AccountsInv, FreshUsers
<1>3. /\ ~Taken(u, {row.email, row.name})
      /\ \A d \in Requests \ {c} : Writing(d) => Apart(task[c], task[d])
  BY <1>1 DEF AccountsInv, WritersOK
<1>4. \A v \in Users \ {u} : user[v] # None => row.email # user[v].email /\ row.name # user[v].name
  BY <1>3, TakenFacts DEF AccountsInv
<1>5. \A d \in Requests \ {c} : Writing(d) =>
        task[d].user # u /\ row.email \notin IdsOf(task[d]) /\ row.name \notin IdsOf(task[d])
  BY <1>1, <1>2, <1>3 DEF Apart
<1>6. Replaces(c, u, row, NoTask) /\ Fits(c, u, row)
  BY <1>2, <1>4, <1>5 DEF CommitRegistration, Leaves, Replaces, Fits
<1>7. NoTask \in TaskRecords /\ NoTask.at \notin WritingStages
  BY DEF NoTask, TaskRecords, TaskStages, WritingStages
<1> HIDE DEF u, row
<1> QED
  BY <1>1, <1>6, <1>7, RowStep

LEMMA CommitProfileInv ==
  ASSUME AccountsInv, NEW c \in Requests, CommitProfile(c)
  PROVE  AccountsInv'
<1> DEFINE u == task[c].user
           row == [user[u] EXCEPT !.name = task[c].name]
<1>1. /\ u \in Users /\ user[u] \in AccountRecords /\ user[u] # None /\ Writing(c)
      /\ task[c].name \in Names /\ IdsOf(task[c]) = {task[c].name}
  BY NoneIsNoIdentity
  DEF CommitProfile, At, Writing, AccountsInv, AccountTypes, TaskRecords, TasksOK, Shaped, IdsOf
<1>2. row \in AccountRecords /\ row.email = user[u].email /\ row.name = task[c].name
  BY <1>1 DEF AccountRecords
<1>3. /\ ~Taken(u, {row.name})
      /\ \A d \in Requests \ {c} : Writing(d) => Apart(task[c], task[d])
  BY <1>1, <1>2 DEF AccountsInv, WritersOK
<1>4. \A d \in Requests \ {c} : task[d].op = "register" => task[d].user # u
  BY <1>1 DEF AccountsInv, TasksOK, Shaped
<1>5. \A v \in Users \ {u} : user[v] # None => row.name # user[v].name
  BY <1>3, TakenFacts DEF AccountsInv
<1>6. \A v \in Users \ {u} : user[v] # None => row.email # user[v].email
  BY <1>1, <1>2, UniqueFacts DEF AccountsInv
<1>7. ASSUME NEW d \in Requests \ {c}, Writing(d)
      PROVE  task[d].user # u /\ row.email \notin IdsOf(task[d]) /\ row.name \notin IdsOf(task[d])
  <2>1. task[d].user # u /\ row.name \notin IdsOf(task[d])
    BY <1>1, <1>2, <1>3, <1>7 DEF Apart
  <2>2. ~Taken(task[d].user, IdsOf(task[d]))
    BY <1>7 DEF AccountsInv, WritersOK
  <2>3. user[u].email \notin IdsOf(task[d])
    BY <1>1, <2>1, <2>2, TakenFacts DEF AccountsInv
  <2> QED
    BY <1>2, <2>1, <2>3
<1>8. Replaces(c, u, row, NoTask) /\ Fits(c, u, row)
  BY <1>4, <1>5, <1>6, <1>7 DEF CommitProfile, Leaves, Replaces, Fits
<1>9. NoTask \in TaskRecords /\ NoTask.at \notin WritingStages
  BY DEF NoTask, TaskRecords, TaskStages, WritingStages
<1> HIDE DEF u, row
<1> QED
  BY <1>1, <1>2, <1>8, <1>9, RowStep

LEMMA SaveEmailInv ==
  ASSUME AccountsInv, NEW c \in Requests, SaveEmail(c)
  PROVE  AccountsInv'
<1> DEFINE u == task[c].user
           row == [user[u] EXCEPT !.email = task[c].email]
           t == [task[c] EXCEPT !.at = "forget"]
<1>1. /\ u \in Users /\ user[u] \in AccountRecords /\ user[u] # None
      /\ task[c].op = "change" /\ task[c].email \in Emails
  BY DEF SaveEmail, At, AccountsInv, AccountTypes, TaskRecords, TasksOK, Shaped
<1>2. CASE Leaves(c) /\ UNCHANGED user
  BY <1>2, LeavesInv
<1>3. CASE ~(Leaves(c) /\ UNCHANGED user)
  <2>1. /\ ~Taken(u, {task[c].email}) /\ ~Waits(c, {u, task[c].email})
        /\ user' = [user EXCEPT ![u] = row] /\ task' = [task EXCEPT ![c] = t]
    BY <1>3 DEF SaveEmail, Turns
  <2>2. row \in AccountRecords /\ row.email = task[c].email /\ row.name = user[u].name
    BY <1>1 DEF AccountRecords
  <2>3. /\ t \in TaskRecords /\ t.at = "forget" /\ t.op = "change" /\ t.user = u
        /\ t.email \in Emails
    BY <1>1 DEF AccountsInv, AccountTypes, TaskRecords, TaskStages
  <2>4. \A d \in Requests \ {c} : task[d].op = "register" => task[d].user # u
    BY <1>1 DEF AccountsInv, TasksOK, Shaped
  <2>5. \A v \in Users \ {u} : user[v] # None => row.email # user[v].email
    BY <2>1, <2>2, TakenFacts DEF AccountsInv
  <2>6. \A v \in Users \ {u} : user[v] # None => row.name # user[v].name
    BY <1>1, <2>2, UniqueFacts DEF AccountsInv
  <2>7. ASSUME NEW d \in Requests \ {c}, Writing(d)
        PROVE  task[d].user # u /\ row.email \notin IdsOf(task[d]) /\ row.name \notin IdsOf(task[d])
    <3>1. Holds(d) \cap {u, task[c].email} = {}
      BY <2>1, <2>7 DEF Waits
    <3>2. task[d].user # u /\ row.email \notin IdsOf(task[d])
      BY <1>1, <2>2, <3>1, NoneIsNoUser, NoneIsNoIdentity DEF Holds, IdsOf
    <3>3. ~Taken(task[d].user, IdsOf(task[d]))
      BY <2>7 DEF AccountsInv, WritersOK
    <3>4. user[u].name \notin IdsOf(task[d])
      BY <1>1, <3>2, <3>3, TakenFacts DEF AccountsInv
    <3> QED
      BY <2>2, <3>2, <3>4
  <2>8. t.at \notin WritingStages
    BY <2>3 DEF WritingStages
  <2>9. Replaces(c, u, row, t) /\ Fits(c, u, row)
    BY <2>1, <2>4, <2>5, <2>6, <2>7 DEF Replaces, Fits
  <2> HIDE DEF u, row, t
  <2> QED
    BY <1>1, <2>2, <2>3, <2>8, <2>9, RowStep
<1> QED
  BY <1>2, <1>3

-----------------------------------------------------------------------------
(* Every step. *)

LEMMA AccountsStutterInv ==
  ASSUME AccountsInv, UNCHANGED <<user, task>>
  PROVE  AccountsInv'
  BY DEF AccountsInv, AccountTypes, TasksOK, Shaped, FreshUsers, WritersOK, Writing, Taken, IdsOf,
         Apart, IdentitiesAreUnique, EmailOf, NameOf

LEMMA AccountStepInv ==
  ASSUME AccountsInv, NEW c \in Requests, AccountStep(c)
  PROVE  AccountsInv'
<1>1. ASSUME NEW n, Lookup(c, n) \/ CheckSubject(c, n) PROVE AccountsInv'
  BY <1>1, LookupInv, CheckSubjectInv
<1>2. ASSUME ForgetRequest(c) \/ ReadSubject(c) \/ Refuse(c) \/ Abandon(c) PROVE AccountsInv'
  BY <1>2, LeavesInv DEF ForgetRequest, ReadSubject, Grants, Refuse, Abandon
<1>3. ASSUME \/ Insert(c) \/ CreateSession(c) \/ CommitRegistration(c) \/ SaveEmail(c)
             \/ UpdateProfile(c) \/ SyncMembers(c) \/ CommitProfile(c)
      PROVE  AccountsInv'
  BY <1>3, InsertInv, CreateSessionInv, CommitRegistrationInv, SaveEmailInv, UpdateProfileInv,
     SyncMembersInv, CommitProfileInv
<1> QED
  BY <1>1, <1>2, <1>3 DEF AccountStep

LEMMA BeginInv ==
  ASSUME AccountsInv, NEW c \in Requests, Begin(c)
  PROVE  AccountsInv'
<1>1. ASSUME NEW e \in Emails, SendRegistration(c, e) PROVE AccountsInv'
  BY <1>1, AccountsStutterInv DEF SendRegistration, accountVars
<1>2. ASSUME NEW e \in Emails, NEW n, StartReset(c, e, n) PROVE AccountsInv'
  BY <1>2, StartResetInv
<1>3. ASSUME NEW u \in Users, SendPasswordReset(c, u) PROVE AccountsInv'
  BY <1>3, AccountsStutterInv DEF SendPasswordReset, accountVars
<1>4. ASSUME NEW u \in Users, NEW e \in Emails, SendEmailChange(c, u, e) PROVE AccountsInv'
  BY <1>4, AccountsStutterInv DEF SendEmailChange, accountVars
<1> QED
  BY <1>1, <1>2, <1>3, <1>4, StartChangeInv, StartRegisterInv, StartRenameInv DEF Begin

LEMMA AccountsNextInv ==
  ASSUME AccountsInv, [Next]_vars
  PROVE  AccountsInv'
  BY AccountStepInv, BeginInv, AccountsStutterInv DEF Next, vars, accountVars

-----------------------------------------------------------------------------
(* Theorems. *)

THEOREM AccountsInvHolds == Spec => []AccountsInv
  BY AccountsInitInv, AccountsNextInv, PTL DEF Spec

(* No two accounts share an address or a name, whatever registrations,     *)
(* address changes and renames run at once (service.go).                   *)
THEOREM AccountsAreUnique == Spec => []IdentitiesAreUnique
<1>1. AccountsInv => IdentitiesAreUnique
  BY DEF AccountsInv
<1> QED
  BY <1>1, AccountsInvHolds, PTL

(* What an operation does to the code store is a step of module Codes.     *)
LEMMA StepRefines ==
  ASSUME AccountsInv, [Next]_vars
  PROVE  [CodesNext]_codeVars
<1>1. ASSUME NEW c \in Requests, NEW e \in Emails, SendRegistration(c, e) PROVE CodesNext
  <2>1. <<"registration", e>> \in Keys
    BY DEF Keys, Purposes
  <2> QED
    BY <1>1, <2>1 DEF SendRegistration, CodesNext
<1>2. ASSUME NEW c \in Requests, NEW u \in Users, SendPasswordReset(c, u) PROVE CodesNext
  <2>1. <<"password_reset", EmailOf(u)>> \in Keys
    BY <1>2 DEF SendPasswordReset, Keys, Purposes, EmailOf, AccountsInv, AccountTypes, AccountRecords
  <2> QED
    BY <1>2, <2>1 DEF SendPasswordReset, CodesNext
<1>3. ASSUME NEW c \in Requests, NEW u \in Users, NEW e \in Emails, SendEmailChange(c, u, e)
      PROVE  CodesNext
  <2>1. <<"email_change", e>> \in Keys
    BY DEF Keys, Purposes
  <2> QED
    BY <1>3, <2>1 DEF SendEmailChange, CodesNext
<1>4. ASSUME NEW c \in Requests, NEW e \in Emails, NEW n \in Presented, StartReset(c, e, n)
      PROVE  CodesNext
  <2>1. <<"password_reset", e>> \in Keys
    BY DEF Keys, Purposes
  <2> QED
    BY <1>4, <2>1 DEF StartReset, Presented, CodesNext
<1>5. ASSUME NEW c \in Requests, Begin(c) PROVE [CodesNext]_codeVars
  BY <1>1, <1>2, <1>3, <1>4, <1>5 DEF Begin, StartChange, StartRegister, StartRename
<1>6. ASSUME NEW c \in Requests, NEW n \in Presented, Lookup(c, n) PROVE [CodesNext]_codeVars
  <2>1. <<"registration", task[c].email>> \in Keys
    BY <1>6 DEF Lookup, At, Keys, Purposes, AccountsInv, TasksOK, Shaped
  <2> QED
    BY <1>6, <2>1 DEF Lookup, Presented, CodesNext
<1>7. ASSUME NEW c \in Requests, NEW n \in Presented, CheckSubject(c, n) PROVE [CodesNext]_codeVars
  <2>1. <<"email_change", task[c].email>> \in Keys
    BY <1>7 DEF CheckSubject, At, Keys, Purposes, AccountsInv, TasksOK, Shaped
  <2> QED
    BY <1>7, <2>1 DEF CheckSubject, Presented, CodesNext
<1>8. ASSUME NEW c \in Requests, ForgetRequest(c) PROVE [CodesNext]_codeVars
  <2>1. <<"email_change", task[c].email>> \in Keys
    BY <1>8 DEF ForgetRequest, At, Keys, Purposes, AccountsInv, TasksOK, Shaped
  <2> QED
    BY <1>8, <2>1 DEF ForgetRequest, CodesNext
<1>9. ASSUME NEW c \in Requests, AccountStep(c) PROVE [CodesNext]_codeVars
  <2>1. ASSUME Use(c) \/ GiveUp(c) PROVE CodesNext
    BY <2>1 DEF CodesNext
  <2> QED
    BY <1>6, <1>7, <1>8, <1>9, <2>1
    DEF AccountStep, Insert, CreateSession, CommitRegistration, SaveEmail, UpdateProfile,
        SyncMembers, CommitProfile, ReadSubject, Grants, Refuse, Abandon
<1>10. CASE UNCHANGED vars
  BY <1>10 DEF vars
<1> QED
  BY <1>5, <1>9, <1>10 DEF Next, CodesNext

(* The account service implements the flows of module Codes, so what holds *)
(* of every use of the code store holds of the service's.                  *)
THEOREM UsesCodes == Spec => CodesSpec
<1>1. Init => CodesInit
  BY DEF Init
<1> QED
  BY <1>1, StepRefines, AccountsInvHolds, PTL DEF Spec, CodesSpec

(* No code is accepted twice by the account service.                       *)
THEOREM AccountCodesAreUsedOnce == Spec => []CodesWorkOnce
  BY UsesCodes, CodesAreUsedOnce, PTL

(* No code of the account service bears more failed attempts than          *)
(* configured.                                                             *)
THEOREM AccountAttemptsAreBounded == Spec => []GuessesAreBounded
  BY UsesCodes, AttemptsAreBounded, PTL

(* The account beside a mailed code is the one the service sent it for.    *)
THEOREM AccountCodesMatch == Spec => []SubjectsMatch
  BY UsesCodes, AccountsMatchCodes, PTL

-----------------------------------------------------------------------------
(* How an account comes by its address. *)

RegistrationKeys == {"registration"} \X Emails

KeyOf(t) ==
  <<IF t.op = "register" THEN "registration" ELSE IF t.op = "change" THEN "email_change"
    ELSE "password_reset", t.email>>

(* A code that was accepted for an operation was mailed for it; one that   *)
(* is presented for a change would, if it is the stored one.               *)
Knows(c) ==
  /\ req[c].at \in Sending \cup {"reserve"} =>
       task[c].at = "idle" /\ (req[c].user = None <=> req[c].key \in RegistrationKeys)
  /\ req[c].at \in {"present", "accepted"} =>
       /\ req[c].code \in mailed \cup {Wrong, Default}
       /\ task[c].at # "idle" /\ req[c].key = KeyOf(task[c])
  /\ req[c].at = "present" /\ req[c].code \in mailed /\ task[c].op = "change" =>
       (stored[req[c].key] = req[c].code => sentFor[req[c].code].user = task[c].user)
  /\ req[c].at = "accepted" /\ req[c].code # Default =>
       /\ req[c].code \in mailed /\ sentFor[req[c].code].key = req[c].key
       /\ task[c].op = "change" => sentFor[req[c].code].user = task[c].user
  /\ task[c].op = "register" /\ task[c].at \in {"session", "commit"} => req[c].at = "accepted"
  /\ task[c].op = "rename" \/ task[c].at \in {"lookup", "subject", "forget"} => req[c].at = "idle"

(* Exactly the codes for registrations are for no account.                 *)
SentForOK ==
  \A n \in Codes : n <= made =>
    /\ sentFor[n] \in [key : Keys, user : Users \cup {None}]
    /\ sentFor[n].user = None <=> sentFor[n].key \in RegistrationKeys

(* Every address is proven. *)
Proven == via \in [Users -> Nat] /\ AddressesAreProven

ProvenInv == (\A c \in Requests : Knows(c)) /\ SentForOK /\ Proven

AllInv == CodesInv /\ AccountsInv /\ ProvenInv

LEMMA ProvenInitInv == Init => ProvenInv
  BY CodeNumbers
  DEF Init, CodesInit, ProvenInv, Knows, SentForOK, Proven, AddressesAreProven, Wrong, NoRequest, NoTask, Sending,
      Codes

(* What was mailed stays as it was mailed, and is stored no second time.   *)
Grows ==
  /\ mailed \subseteq mailed' /\ mailed' \subseteq Codes /\ made <= made'
  /\ \A n \in Codes : n <= made => sentFor'[n] = sentFor[n]
  /\ \A k \in Keys : stored'[k] = stored[k] \/ stored'[k] \notin mailed

LEMMA CodeStepGrows ==
  ASSUME CodesInv, NEW c \in Requests, CodeStep(c)
  PROVE  Grows
<1>1. CASE Reserve(c)
  BY <1>1, CodeNumbers DEF Reserve, Reserved, Grows, CodesInv, CodesTypeOK, store, history
<1>2. CASE SetCode(c)
  <2>1. req[c].code \notin mailed
    BY <1>2 DEF SetCode, CodesInv, SendersOK, Sending
  <2> QED
    BY <1>2, <2>1, CodeNumbers DEF SetCode, Grows, CodesInv, CodesTypeOK, history
<1>5. CASE Mail(c)
  <2>1. req[c].code \in Codes
    BY <1>5, SenderFacts DEF Mail, Sending
  <2>2. /\ mailed' \in {mailed, mailed \cup {req[c].code}}
        /\ UNCHANGED <<stored, made, sentFor>>
    BY <1>5 DEF Mail, store, history
  <2>3. mailed \subseteq Codes /\ made \in Nat
    BY CodeNumbers DEF CodesInv, CodesTypeOK
  <2> QED
    BY <2>1, <2>2, <2>3 DEF Grows
<1>3. CASE SetSubject(c) \/ UndoCooldown(c)
  <2>1. UNCHANGED <<stored, made, mailed, sentFor>>
    BY <1>3 DEF SetSubject, UndoCooldown, history
  <2> QED
    BY <2>1, CodeNumbers DEF Grows, CodesInv, CodesTypeOK
<1>4. CASE UndoCode(c) \/ Verify(c) \/ VerifyFails(c)
  <2>1. Wrong \notin mailed
    BY CodeNumbers DEF CodesInv, CodesTypeOK
  <2>2. \A k \in Keys : stored'[k] \in {stored[k], Wrong}
    BY <1>4 DEF UndoCode, Verify, VerifyFails, Consume, Miss, NoCode, CodesInv, CodesTypeOK
  <2>3. UNCHANGED <<made, mailed, sentFor>>
    BY <1>4 DEF UndoCode, Verify, VerifyFails, history
  <2> QED
    BY <2>1, <2>2, <2>3, CodeNumbers DEF Grows, CodesInv, CodesTypeOK
<1> QED
  BY <1>1, <1>2, <1>3, <1>4, <1>5 DEF CodeStep

LEMMA ExpireGrows ==
  ASSUME CodesInv, Expire
  PROVE  Grows /\ UNCHANGED req
<1>1. Wrong \notin mailed /\ mailed \subseteq Codes
  BY CodeNumbers DEF CodesInv, CodesTypeOK
<1>3. made \in Nat
  BY CodeNumbers DEF CodesInv, CodesTypeOK
<1>2. /\ \A k \in Keys : stored'[k] \in {stored[k], Wrong}
      /\ UNCHANGED <<made, mailed, sentFor, req>>
  BY DEF Expire, ExpireCode, ExpireAttempts, ExpireCooldown, ExpireSubject, ForgetSubject,
         CodesInv, CodesTypeOK, history
<1> QED
  BY <1>1, <1>2, <1>3 DEF Grows

(* The other requests know what they knew.                                 *)
LEMMA KnowsStays ==
  ASSUME CodesInv, NEW c \in Requests, Knows(c), Grows, req'[c] = req[c], task'[c] = task[c]
  PROVE  Knows(c)'
<1>1. \A n \in mailed : n \in Codes /\ n <= made /\ sentFor'[n] = sentFor[n]
  BY DEF CodesInv, CodesTypeOK, UnmadeOK, Grows
<1>2. req[c].at = "present" => req[c].key \in Keys
  BY DEF CodesInv, Keyed
<1>3. req[c].at = "present" /\ req[c].code \in mailed' => req[c].code \in mailed
  BY CodeNumbers DEF Knows, Grows
<1> QED
  BY <1>1, <1>2, <1>3 DEF Knows, KeyOf, RegistrationKeys, Grows

LEMMA OthersKnow ==
  ASSUME AllInv, NEW c \in Requests, Grows,
         OthersStay(c), \A d \in Requests \ {c} : task'[d] = task[d],
         Knows(c)'
  PROVE  \A d \in Requests : Knows(d)'
  BY KnowsStays DEF AllInv, ProvenInv, OthersStay

(* What proves an address goes on proving it.                              *)
LEMMA ProofsStay ==
  ASSUME AllInv, Grows, UNCHANGED <<user, via>>
  PROVE  Proven'
<1>1. \A n \in mailed : n \in mailed' /\ sentFor'[n] = sentFor[n]
  BY DEF AllInv, CodesInv, CodesTypeOK, UnmadeOK, Grows
<1> QED
  BY <1>1 DEF AllInv, ProvenInv, Proven, AddressesAreProven, EmailOf

LEMMA SentForStays ==
  ASSUME AllInv, Grows, UNCHANGED made
  PROVE  SentForOK'
  BY DEF AllInv, ProvenInv, SentForOK, Grows, RegistrationKeys

LEMMA IdleTask ==
  ASSUME AllInv, NEW c \in Requests, task[c].at = "idle"
  PROVE  task[c].op = "none"
  BY DEF AllInv, AccountsInv, AccountTypes, TaskRecords, Ops, TasksOK, Shaped

(* A request that sends, and goes on sending.                              *)
LEMMA SendingKnows ==
  ASSUME AllInv, NEW c \in Requests, req[c].at \in Sending \cup {"reserve"},
         req'[c].at \in Sending \cup {"reserve"},
         req'[c].key = req[c].key, req'[c].user = req[c].user, task'[c] = task[c]
  PROVE  Knows(c)'
<1>1. task[c].at = "idle" /\ (req[c].user = None <=> req[c].key \in RegistrationKeys)
  BY DEF AllInv, ProvenInv, Knows
<1>2. task[c].op = "none"
  BY <1>1, IdleTask
<1> QED
  BY <1>1, <1>2 DEF Knows, Sending, RegistrationKeys

(* A request that is done with its code, or was refused.                   *)
LEMMA EndedKnows ==
  ASSUME NEW c \in Requests, req'[c].at = "idle",
         ~(task'[c].op = "register" /\ task'[c].at \in {"session", "commit"})
  PROVE  Knows(c)'
  BY DEF Knows, Sending

LEMMA CodeStepProven ==
  ASSUME AllInv, NEW c \in Requests, CodeStep(c), UNCHANGED accountVars
  PROVE  ProvenInv'
<1>1. Grows /\ UNCHANGED <<user, task, via>>
  BY CodeStepGrows DEF AllInv, accountVars
<1>2. Proven'
  BY <1>1, ProofsStay
<1>3. CodesTypeOK /\ CodesInv /\ Knows(c) /\ SentForOK
  BY DEF AllInv, CodesInv, ProvenInv
<1>4. CASE Reserve(c) /\ ~Ends(c)
  <2>1. /\ req[c].at = "reserve" /\ Reserved(c, req[c].key)
    BY <1>4 DEF Reserve
  <2>2. /\ req[c].key \in Keys /\ made \in Nat /\ made + 1 \in Codes /\ made' = made + 1
        /\ req[c].user \in Users \cup {None}
    BY <1>3, <2>1, CodeNumbers DEF Reserved, CodesInv, CodesTypeOK, Keyed, Codes
  <2>3. /\ OthersStay(c) /\ req'[c].at = "setCode" /\ req'[c].key = req[c].key
        /\ req'[c].user = req[c].user
    BY <1>3, <2>1, <2>2 DEF Reserved, CodesTypeOK, OthersStay
  <2>4. Knows(c)'
    BY <1>1, <2>1, <2>3, SendingKnows DEF Sending
  <2>5. sentFor' = [sentFor EXCEPT ![made + 1] = [key |-> req[c].key, user |-> req[c].user]]
    BY <2>1 DEF Reserved
  <2>6. req[c].user = None <=> req[c].key \in RegistrationKeys
    BY <1>3, <2>1 DEF Knows
  <2>7. SentForOK'
    <3> SUFFICES ASSUME NEW n \in Codes, n <= made'
                 PROVE  /\ sentFor'[n] \in [key : Keys, user : Users \cup {None}]
                        /\ sentFor'[n].user = None <=> sentFor'[n].key \in RegistrationKeys
      BY DEF SentForOK, RegistrationKeys
    <3>1. CASE n = made + 1
      <4>1. sentFor'[n] = [key |-> req[c].key, user |-> req[c].user]
        BY <1>3, <2>5, <3>1 DEF CodesTypeOK
      <4> QED
        BY <2>2, <2>6, <4>1
    <3>2. CASE n # made + 1
      <4>1. n <= made /\ sentFor'[n] = sentFor[n]
        BY <1>3, <2>2, <2>5, <3>2, CodeNumbers DEF CodesTypeOK
      <4> QED
        BY <1>3, <4>1 DEF SentForOK
    <3> QED
      BY <3>1, <3>2
  <2> QED
    BY <1>1, <1>2, <2>3, <2>4, <2>7, OthersKnow DEF ProvenInv
<1>5. CASE ~(Reserve(c) /\ ~Ends(c))
  <2>1. UNCHANGED made
    <3>1. CASE Reserve(c)
      <4>1. ~Reserved(c, req[c].key)
        BY <1>3, <1>5, <3>1, EndsFacts DEF Reserved, CodesTypeOK
      <4> QED
        BY <3>1, <4>1 DEF Reserve
    <3>2. CASE SetCode(c) \/ SetSubject(c) \/ Mail(c) \/ UndoCode(c) \/ UndoCooldown(c)
      BY <3>2 DEF SetCode, SetSubject, Mail, UndoCode, UndoCooldown, store
    <3>3. CASE Verify(c) \/ VerifyFails(c)
      BY <3>3 DEF Verify, VerifyFails
    <3> QED
      BY <3>1, <3>2, <3>3 DEF CodeStep
  <2>2. SentForOK'
    BY <1>1, <2>1, SentForStays
  <2>3. CASE Ends(c)
    <3>1. OthersStay(c) /\ req'[c].at = "idle"
      BY <1>3, <2>3, EndsFacts
    <3>2. req[c].at # "accepted"
      BY DEF CodeStep, Reserve, SetCode, SetSubject, Mail, UndoCode, UndoCooldown, Verify, VerifyFails
    <3>3. ~(task'[c].op = "register" /\ task'[c].at \in {"session", "commit"})
      BY <1>1, <1>3, <3>2 DEF Knows
    <3>4. Knows(c)'
      BY <3>1, <3>3, EndedKnows
    <3> QED
      BY <1>1, <1>2, <2>2, <3>1, <3>4, OthersKnow DEF ProvenInv
  <2>4. CASE (SetCode(c) \/ SetSubject(c) \/ UndoCode(c)) /\ ~Ends(c)
    <3>1. PICK stage \in Sending : Goes(c, stage)
      BY <2>4 DEF SetCode, SetSubject, UndoCode, Sending
    <3>2. req[c].at \in Sending
      BY <2>4 DEF SetCode, SetSubject, UndoCode, Sending
    <3>3. /\ OthersStay(c) /\ req'[c].at = stage /\ req'[c].key = req[c].key
          /\ req'[c].user = req[c].user
      BY <1>3, <3>1, GoesFacts DEF Stages
    <3>4. Knows(c)'
      BY <1>1, <3>2, <3>3, SendingKnows
    <3> QED
      BY <1>1, <1>2, <2>2, <3>3, <3>4, OthersKnow DEF ProvenInv
  <2>5. CASE Verify(c) /\ ~Ends(c)
    <3>1. /\ req[c].at = "present" /\ Goes(c, "accepted") /\ UNCHANGED sentFor
          /\ mailed' = mailed
          /\ req[c].code = Default \/ Consume(req[c].key, req[c].code)
      BY <2>5 DEF Verify
    <3>2. /\ OthersStay(c) /\ req'[c].at = "accepted" /\ req'[c].key = req[c].key
          /\ req'[c].code = req[c].code
      BY <1>3, <3>1, GoesFacts DEF Stages
    <3>3. /\ req[c].code \in mailed \cup {Wrong, Default}
          /\ task[c].at # "idle" /\ req[c].key = KeyOf(task[c])
          /\ ~(task[c].op = "rename" \/ task[c].at \in {"lookup", "subject", "forget"})
      BY <1>3, <3>1 DEF Knows
    <3>4. ASSUME req[c].code # Default
          PROVE  /\ req[c].code \in mailed /\ sentFor[req[c].code].key = req[c].key
                 /\ task[c].op = "change" => sentFor[req[c].code].user = task[c].user
      <4>1. stored[req[c].key] = req[c].code /\ req[c].code \in Codes
        BY <3>1, <3>4 DEF Consume
      <4>2. req[c].code \in mailed
        BY <3>3, <3>4, <4>1, CodeNumbers
      <4>3. req[c].key \in Keys
        BY <1>3, <3>1 DEF CodesInv, Keyed
      <4>4. sentFor[req[c].code].key = req[c].key
        BY <1>3, <4>1, <4>3, CodeNumbers DEF CodesInv, StoredOK
      <4> QED
        BY <1>3, <3>1, <4>1, <4>2, <4>4 DEF Knows
    <3>5. Knows(c)'
      BY <1>1, <3>1, <3>2, <3>3, <3>4 DEF Knows, KeyOf, Sending
    <3> QED
      BY <1>1, <1>2, <2>2, <3>2, <3>5, OthersKnow DEF ProvenInv
  <2> QED
    BY <1>5, <2>3, <2>4, <2>5 DEF CodeStep, Mail, UndoCooldown, VerifyFails
<1> QED
  BY <1>4, <1>5

(* A step that makes, stores and mails nothing.                            *)
LEMMA QuietStep ==
  ASSUME AllInv, NEW c \in Requests, UNCHANGED <<stored, made, mailed, sentFor>>,
         OthersStay(c), \A d \in Requests \ {c} : task'[d] = task[d], Knows(c)',
         UNCHANGED <<user, via>> \/ Proven'
  PROVE  ProvenInv'
<1>1. Grows
  BY DEF Grows, AllInv, CodesInv, CodesTypeOK
<1> QED
  BY <1>1, OthersKnow, SentForStays, ProofsStay DEF ProvenInv

(* What the actions do to the requests and to the tasks.                   *)
LEMMA LeavesFacts ==
  ASSUME AllInv, NEW c \in Requests, Leaves(c)
  PROVE  /\ task'[c].op = "none" /\ task'[c].at = "idle"
         /\ \A d \in Requests \ {c} : task'[d] = task[d]
  BY DEF Leaves, NoTask, AllInv, AccountsInv, AccountTypes

LEMMA TurnsFacts ==
  ASSUME AllInv, NEW c \in Requests, NEW stage, Turns(c, stage)
  PROVE  /\ task'[c].op = task[c].op /\ task'[c].at = stage /\ task'[c].user = task[c].user
         /\ task'[c].email = task[c].email
         /\ \A d \in Requests \ {c} : task'[d] = task[d]
  BY DEF Turns, AllInv, AccountsInv, AccountTypes, TaskRecords

LEMMA UseFacts ==
  ASSUME AllInv, NEW c \in Requests, Use(c) \/ GiveUp(c)
  PROVE  /\ UNCHANGED <<stored, made, mailed, sentFor>> /\ OthersStay(c) /\ req'[c].at = "idle"
  BY EndsFacts DEF Use, GiveUp, AllInv, CodesInv, store, history

LEMMA PresentFacts ==
  ASSUME AllInv, NEW c \in Requests, NEW k, NEW u, NEW n, Present(c, k, u, n)
  PROVE  /\ UNCHANGED <<stored, made, mailed, sentFor>> /\ OthersStay(c)
         /\ req'[c].at = "present" /\ req'[c].key = k /\ req'[c].code = n
  BY DEF Present, AllInv, CodesInv, CodesTypeOK, OthersStay, store, history

LEMMA SendProven ==
  ASSUME AllInv, NEW c \in Requests, NEW k, NEW u, Free(c), Send(c, k, u),
         u = None <=> k \in RegistrationKeys, UNCHANGED accountVars
  PROVE  ProvenInv'
<1>1. /\ OthersStay(c) /\ req'[c].at = "reserve" /\ req'[c].key = k /\ req'[c].user = u
  BY DEF Send, AllInv, CodesInv, CodesTypeOK, OthersStay
<1>2. UNCHANGED <<stored, made, mailed, sentFor, task, user, via>>
  BY DEF Send, store, history, accountVars
<1>3. task[c].at = "idle" /\ task[c].op = "none"
  BY IdleTask DEF Free
<1>4. Knows(c)'
  BY <1>1, <1>2, <1>3 DEF Knows, Sending, RegistrationKeys
<1> QED
  BY <1>1, <1>2, <1>4, QuietStep

LEMMA BeginProven ==
  ASSUME AllInv, NEW c \in Requests, Begin(c)
  PROVE  ProvenInv'
<1>1. ASSUME NEW e \in Emails, SendRegistration(c, e) PROVE ProvenInv'
  <2>1. <<"registration", e>> \in RegistrationKeys
    BY DEF RegistrationKeys
  <2> QED
    BY <1>1, <2>1, SendProven DEF SendRegistration
<1>2. ASSUME NEW u \in Users, SendPasswordReset(c, u) PROVE ProvenInv'
  <2>1. <<"password_reset", EmailOf(u)>> \notin RegistrationKeys /\ u # None
    BY NoneIsNoUser DEF RegistrationKeys
  <2> QED
    BY <1>2, <2>1, SendProven DEF SendPasswordReset
<1>3. ASSUME NEW u \in Users, NEW e \in Emails, SendEmailChange(c, u, e) PROVE ProvenInv'
  <2>1. <<"email_change", e>> \notin RegistrationKeys /\ u # None
    BY NoneIsNoUser DEF RegistrationKeys
  <2> QED
    BY <1>3, <2>1, SendProven DEF SendEmailChange
<1>4. ASSUME NEW e \in Emails, NEW n \in Presented, StartReset(c, e, n) PROVE ProvenInv'
  <2>1. /\ task'[c].op = "reset" /\ task'[c].at = "code" /\ task'[c].email = e
        /\ \A d \in Requests \ {c} : task'[d] = task[d]
    BY <1>4 DEF StartReset, Starts, AllInv, AccountsInv, AccountTypes
  <2>2. /\ UNCHANGED <<stored, made, mailed, sentFor>> /\ OthersStay(c)
        /\ req'[c].at = "present" /\ req'[c].key = <<"password_reset", e>> /\ req'[c].code = n
    BY <1>4, PresentFacts DEF StartReset
  <2>3. Knows(c)'
    BY <2>1, <2>2 DEF Knows, KeyOf, Sending, Presented
  <2> QED
    BY <1>4, <2>1, <2>2, <2>3, QuietStep DEF StartReset
<1>5. ASSUME NEW op \in Ops, NEW stage \in {"lookup", "subject", "save"}, NEW u, NEW e, NEW m,
             Starts(c, op, stage, u, e, m), UNCHANGED <<codeVars, user, via, granted>>
      PROVE  ProvenInv'
  <2>1. task'[c].at = stage /\ \A d \in Requests \ {c} : task'[d] = task[d]
    BY <1>5 DEF Starts, AllInv, AccountsInv, AccountTypes
  <2>2. req'[c].at = "idle" /\ OthersStay(c) /\ UNCHANGED <<stored, made, mailed, sentFor, user, via>>
    BY <1>5 DEF Starts, Free, codeVars, store, history, OthersStay
  <2>3. Knows(c)'
    BY <2>1, <2>2, EndedKnows
  <2> QED
    BY <2>1, <2>2, <2>3, QuietStep
<1> QED
  BY <1>1, <1>2, <1>3, <1>4, <1>5 DEF Begin, StartChange, StartRegister, StartRename, Ops

(* A request that leaves what it was doing. *)
LEMMA LeftProven ==
  ASSUME AllInv, NEW c \in Requests, Leaves(c), req'[c].at = "idle", OthersStay(c),
         UNCHANGED <<stored, made, mailed, sentFor>>,
         UNCHANGED <<user, via>> \/ Proven'
  PROVE  ProvenInv'
<1>1. task'[c].op = "none" /\ \A d \in Requests \ {c} : task'[d] = task[d]
  BY LeavesFacts
<1>2. Knows(c)'
  BY <1>1, EndedKnows
<1> QED
  BY <1>1, <1>2, QuietStep

LEMMA IdleStays ==
  ASSUME AllInv, NEW c \in Requests, req[c].at = "idle", UNCHANGED codeVars
  PROVE  req'[c].at = "idle" /\ OthersStay(c) /\ UNCHANGED <<stored, made, mailed, sentFor>>
  BY DEF codeVars, store, history, OthersStay

(* What an accepted code says of the operation it was presented for. *)
LEMMA AcceptedFacts ==
  ASSUME AllInv, NEW c \in Requests, req[c].at = "accepted", req[c].code # Default,
         task[c].op \in {"register", "change"}
  PROVE  /\ req[c].code \in mailed /\ req[c].code \in Codes
         /\ task[c].op = "register" =>
              sentFor[req[c].code] = [key |-> <<"registration", task[c].email>>, user |-> None]
         /\ task[c].op = "change" =>
              sentFor[req[c].code] = [key |-> <<"email_change", task[c].email>>, user |-> task[c].user]
<1>1. /\ req[c].code \in mailed /\ sentFor[req[c].code].key = KeyOf(task[c])
      /\ task[c].op = "change" => sentFor[req[c].code].user = task[c].user
  BY DEF AllInv, ProvenInv, Knows
<1>2. req[c].code \in Codes /\ req[c].code <= made
  BY <1>1 DEF AllInv, CodesInv, CodesTypeOK, UnmadeOK
<1>3. /\ sentFor[req[c].code] \in [key : Keys, user : Users \cup {None}]
      /\ sentFor[req[c].code].user = None <=> sentFor[req[c].code].key \in RegistrationKeys
  BY <1>2 DEF AllInv, ProvenInv, SentForOK
<1>4. task[c].email \in Emails
  BY DEF AllInv, AccountsInv, TasksOK, Shaped
<1>5. task[c].op = "register" => sentFor[req[c].code].user = None
  BY <1>1, <1>3, <1>4 DEF KeyOf, RegistrationKeys
<1> QED
  BY <1>1, <1>2, <1>3, <1>5 DEF KeyOf

(* An account that gets its address from an accepted code. *)
LEMMA AddressProven ==
  ASSUME AllInv, NEW c \in Requests, req[c].at = "accepted", task[c].op \in {"register", "change"},
         NEW m \in Names, task[c].user \in Users,
         user' = [user EXCEPT ![task[c].user] = [email |-> task[c].email, name |-> m]],
         via' = [via EXCEPT ![task[c].user] = req[c].code], UNCHANGED <<mailed, sentFor>>
  PROVE  Proven'
<1>1. user \in [Users -> AccountRecords \cup {None}] /\ via \in [Users -> Nat] /\ req[c].code \in Nat
  <2>1. req[c].code \in {Wrong, Default} \cup Codes
    BY DEF AllInv, CodesInv, CodesTypeOK
  <2>2. Wrong \in Nat
    BY DEF Wrong
  <2>3. req[c].code \in Nat
    BY <2>1, <2>2, CodeNumbers
  <2> QED
    BY <2>3 DEF AllInv, AccountsInv, AccountTypes, ProvenInv, Proven
<1>2. via' \in [Users -> Nat]
  BY <1>1
<1>3. ASSUME NEW u \in Users, user'[u] # None, u # task[c].user
      PROVE  \/ via'[u] = Default
             \/ /\ via'[u] \in mailed'
                /\ sentFor'[via'[u]] \in {[key |-> <<"registration", EmailOf(u)'>>, user |-> None],
                                          [key |-> <<"email_change", EmailOf(u)'>>, user |-> u]}
  <2>1. user'[u] = user[u] /\ via'[u] = via[u]
    BY <1>1, <1>3
  <2>2. EmailOf(u)' = EmailOf(u)
    BY <2>1 DEF EmailOf
  <2>3. \/ via[u] = Default
        \/ /\ via[u] \in mailed
           /\ sentFor[via[u]] \in {[key |-> <<"registration", EmailOf(u)>>, user |-> None],
                                   [key |-> <<"email_change", EmailOf(u)>>, user |-> u]}
    BY <1>3, <2>1 DEF AllInv, ProvenInv, Proven, AddressesAreProven
  <2> QED
    BY <2>1, <2>2, <2>3
<1>4. ASSUME NEW u \in Users, user'[u] # None, u = task[c].user
      PROVE  \/ via'[u] = Default
             \/ /\ via'[u] \in mailed'
                /\ sentFor'[via'[u]] \in {[key |-> <<"registration", EmailOf(u)'>>, user |-> None],
                                          [key |-> <<"email_change", EmailOf(u)'>>, user |-> u]}
  <2>1. via'[u] = req[c].code /\ user'[u] = [email |-> task[c].email, name |-> m]
    BY <1>1, <1>4
  <2>2. EmailOf(u)' = task[c].email
    BY <1>4, <2>1 DEF EmailOf
  <2>3. CASE req[c].code # Default
    BY <1>4, <2>1, <2>2, <2>3, AcceptedFacts
  <2> QED
    BY <2>1, <2>3
<1> QED
  BY <1>2, <1>3, <1>4 DEF Proven, AddressesAreProven

(* A request that goes on with what it was doing. *)
LEMMA TurnsProven ==
  ASSUME AllInv, NEW c \in Requests, NEW stage, Turns(c, stage),
         stage \notin {"lookup", "subject", "code", "idle"}, task[c].at # "idle",
         OthersStay(c), UNCHANGED <<stored, made, mailed, sentFor>>,
         req'[c] = req[c] \/ req'[c].at = "idle",
         stage \in {"session", "commit"} /\ task[c].op = "register" => req'[c].at = "accepted",
         stage \notin {"session", "commit"} \/ task[c].op # "register" => req'[c].at = "idle",
         UNCHANGED <<user, via>> \/ Proven'
  PROVE  ProvenInv'
<1>1. /\ task'[c].op = task[c].op /\ task'[c].at = stage /\ task'[c].user = task[c].user
      /\ task'[c].email = task[c].email /\ \A d \in Requests \ {c} : task'[d] = task[d]
  BY TurnsFacts
<1>2. KeyOf(task[c])' = KeyOf(task[c])
  BY <1>1 DEF KeyOf
<1>3. Knows(c)
  BY DEF AllInv, ProvenInv
<1>4. Knows(c)'
  <2>1. CASE req'[c].at = "idle"
    BY <1>1, <2>1 DEF Knows, Sending
  <2>2. CASE req'[c].at = "accepted" /\ req'[c] = req[c]
    BY <1>1, <1>2, <1>3, <2>2 DEF Knows, Sending
  <2> QED
    BY <2>1, <2>2
<1> QED
  BY <1>1, <1>4, QuietStep

LEMMA LookupProven ==
  ASSUME AllInv, NEW c \in Requests, NEW n \in Presented, Lookup(c, n)
  PROVE  ProvenInv'
<1>1. req[c].at = "idle" /\ task[c].op = "register" /\ UNCHANGED <<user, via>>
  BY DEF Lookup, At, AllInv, ProvenInv, Knows
<1>2. CASE Leaves(c) /\ UNCHANGED codeVars
  BY <1>1, <1>2, IdleStays, LeftProven
<1>3. CASE Present(c, <<"registration", task[c].email>>, None, n) /\ Turns(c, "code")
  <2>1. /\ UNCHANGED <<stored, made, mailed, sentFor>> /\ OthersStay(c)
        /\ req'[c].at = "present" /\ req'[c].key = <<"registration", task[c].email>>
        /\ req'[c].code = n
    BY <1>3, PresentFacts
  <2>2. /\ task'[c].op = "register" /\ task'[c].at = "code" /\ task'[c].email = task[c].email
        /\ \A d \in Requests \ {c} : task'[d] = task[d]
    BY <1>1, <1>3, TurnsFacts
  <2>3. Knows(c)'
    BY <2>1, <2>2 DEF Knows, KeyOf, Sending, Presented
  <2> QED
    BY <1>1, <2>1, <2>2, <2>3, QuietStep
<1> QED
  BY <1>2, <1>3 DEF Lookup

LEMMA CheckSubjectProven ==
  ASSUME AllInv, NEW c \in Requests, NEW n \in Presented, CheckSubject(c, n)
  PROVE  ProvenInv'
<1>1. /\ req[c].at = "idle" /\ task[c].op = "change" /\ UNCHANGED <<user, via>>
      /\ task[c].user \in Users /\ task[c].email \in Emails
  BY DEF CheckSubject, At, AllInv, ProvenInv, Knows, AccountsInv, TasksOK, Shaped
<1>2. CASE Leaves(c) /\ UNCHANGED codeVars
  BY <1>1, <1>2, IdleStays, LeftProven
<1> DEFINE k == <<"email_change", task[c].email>>
<1>3. CASE subject[k].user = task[c].user /\ Present(c, k, None, n) /\ Turns(c, "code")
  <2>1. /\ UNCHANGED <<stored, made, mailed, sentFor>> /\ OthersStay(c)
        /\ req'[c].at = "present" /\ req'[c].key = k /\ req'[c].code = n
    BY <1>3, PresentFacts
  <2>2. /\ task'[c].op = "change" /\ task'[c].at = "code" /\ task'[c].email = task[c].email
        /\ task'[c].user = task[c].user
        /\ \A d \in Requests \ {c} : task'[d] = task[d]
    BY <1>1, <1>3, TurnsFacts
  <2>3. k \in Keys /\ k \notin RegistrationKeys
    BY <1>1 DEF Keys, Purposes, RegistrationKeys
  <2>4. ASSUME n \in mailed, stored[k] = n
        PROVE  sentFor[n].user = task[c].user
    <3>1. n \in Codes /\ n <= made /\ sentFor[n].key = k
      BY <2>3, <2>4, CodeNumbers DEF AllInv, CodesInv, CodesTypeOK, UnmadeOK, StoredOK
    <3>2. sentFor[n].user # None
      BY <2>3, <3>1 DEF AllInv, ProvenInv, SentForOK
    <3>3. BoundTo(k, sentFor[n].user, n)
      BY <2>3, <2>4, <3>2 DEF AllInv, CodesInv, BoundOK
    <3>4. subject[k] # NoSubject
      BY <1>1, <1>3, NoneIsNoUser DEF NoSubject
    <3> QED
      BY <1>3, <3>3, <3>4 DEF BoundTo
  <2>5. Knows(c)'
    BY <2>1, <2>2, <2>4 DEF Knows, KeyOf, Sending, Presented
  <2> QED
    BY <1>1, <2>1, <2>2, <2>5, QuietStep
<1> QED
  BY <1>2, <1>3 DEF CheckSubject

LEMMA RegisterProven ==
  ASSUME AllInv, NEW c \in Requests, Insert(c) \/ CreateSession(c) \/ CommitRegistration(c)
  PROVE  ProvenInv'
<1>1. task[c].op = "register" /\ task[c].at # "idle" /\ req[c].at = "accepted"
  BY DEF Insert, CreateSession, CommitRegistration, At, Accepted, AllInv, ProvenInv, Knows
<1>2. CASE Use(c) /\ Leaves(c) /\ UNCHANGED <<user, via>>
  BY <1>2, UseFacts, LeftProven
<1>3. ASSUME NEW stage \in {"session", "commit"}, Turns(c, stage), UNCHANGED <<codeVars, user, via>>
      PROVE  ProvenInv'
  <2>1. OthersStay(c) /\ req'[c] = req[c] /\ UNCHANGED <<stored, made, mailed, sentFor>>
    BY <1>3 DEF codeVars, store, history, OthersStay
  <2> QED
    BY <1>1, <1>3, <2>1, TurnsProven
<1>4. CASE CommitRegistration(c)
  <2>1. task[c].user \in Users /\ task[c].name \in Names
    BY <1>1 DEF AllInv, AccountsInv, TasksOK, Shaped
  <2>2. UNCHANGED <<stored, made, mailed, sentFor>> /\ OthersStay(c) /\ req'[c].at = "idle"
    BY <1>4, UseFacts DEF CommitRegistration
  <2>3. /\ user' = [user EXCEPT ![task[c].user] = [email |-> task[c].email, name |-> task[c].name]]
        /\ via' = [via EXCEPT ![task[c].user] = req[c].code]
        /\ Leaves(c)
    BY <1>4 DEF CommitRegistration
  <2>4. Proven'
    BY <1>1, <2>1, <2>2, <2>3, AddressProven
  <2> QED
    BY <2>2, <2>3, <2>4, LeftProven
<1> QED
  BY <1>2, <1>3, <1>4 DEF Insert, CreateSession

LEMMA SaveEmailProven ==
  ASSUME AllInv, NEW c \in Requests, SaveEmail(c)
  PROVE  ProvenInv'
<1>1. task[c].op = "change" /\ task[c].at # "idle" /\ req[c].at = "accepted" /\ Use(c)
  BY DEF SaveEmail, At, Accepted
<1>2. UNCHANGED <<stored, made, mailed, sentFor>> /\ OthersStay(c) /\ req'[c].at = "idle"
  BY <1>1, UseFacts
<1>3. CASE Leaves(c) /\ UNCHANGED <<user, via>>
  BY <1>2, <1>3, LeftProven
<1>4. CASE /\ user' = [user EXCEPT ![task[c].user].email = task[c].email]
           /\ via' = [via EXCEPT ![task[c].user] = req[c].code]
           /\ Turns(c, "forget")
  <2>1. task[c].user \in Users /\ user[task[c].user] \in AccountRecords
    BY <1>1 DEF AllInv, AccountsInv, AccountTypes, TasksOK, Shaped
  <2>2. PICK m \in Names : m = user[task[c].user].name
    BY <2>1 DEF AccountRecords
  <2>3. user' = [user EXCEPT ![task[c].user] = [email |-> task[c].email, name |-> m]]
    <3>1. [user[task[c].user] EXCEPT !.email = task[c].email] = [email |-> task[c].email, name |-> m]
      BY <2>1, <2>2 DEF AccountRecords
    <3> QED
      BY <1>4, <3>1
  <2>4. Proven'
    BY <1>1, <1>2, <1>4, <2>1, <2>3, AddressProven
  <2> QED
    BY <1>1, <1>2, <1>4, <2>4, TurnsProven
<1> QED
  BY <1>3, <1>4 DEF SaveEmail

LEMMA RenameProven ==
  ASSUME AllInv, NEW c \in Requests, UpdateProfile(c) \/ SyncMembers(c) \/ CommitProfile(c)
  PROVE  ProvenInv'
<1>1. task[c].op = "rename" /\ task[c].at # "idle" /\ req[c].at = "idle" /\ UNCHANGED <<codeVars, via>>
  BY DEF UpdateProfile, SyncMembers, CommitProfile, At, AllInv, ProvenInv, Knows
<1>2. /\ req'[c] = req[c] /\ req'[c].at = "idle" /\ OthersStay(c)
      /\ UNCHANGED <<stored, made, mailed, sentFor>>
  BY <1>1, IdleStays DEF codeVars
<1>3. CASE Leaves(c) /\ UNCHANGED user
  BY <1>1, <1>2, <1>3, LeftProven
<1>4. ASSUME NEW stage \in {"sync", "commit"}, Turns(c, stage), UNCHANGED user
      PROVE  ProvenInv'
  BY <1>1, <1>2, <1>4, TurnsProven
<1>5. CASE CommitProfile(c)
  <2>1. /\ task[c].user \in Users /\ user[task[c].user] # None
        /\ user' = [user EXCEPT ![task[c].user].name = task[c].name] /\ Leaves(c)
    BY <1>1, <1>5 DEF CommitProfile, AllInv, AccountsInv, TasksOK, Shaped
  <2>2. user[task[c].user] \in AccountRecords /\ user \in [Users -> AccountRecords \cup {None}]
    BY <2>1 DEF AllInv, AccountsInv, AccountTypes
  <2>3. user'[task[c].user] = [email |-> user[task[c].user].email, name |-> task[c].name]
    BY <2>1, <2>2 DEF AccountRecords
  <2>4. ASSUME NEW u \in Users, user'[u] # None
        PROVE  user[u] # None /\ EmailOf(u)' = EmailOf(u)
    <3>1. CASE u = task[c].user
      BY <2>1, <2>3, <2>4, <3>1 DEF EmailOf
    <3>2. CASE u # task[c].user
      BY <2>1, <2>2, <2>4, <3>2 DEF EmailOf
    <3> QED
      BY <3>1, <3>2
  <2>5. Proven'
    BY <1>1, <1>2, <2>4 DEF AllInv, ProvenInv, Proven, AddressesAreProven
  <2> QED
    BY <1>2, <2>1, <2>5, LeftProven
<1> QED
  BY <1>3, <1>4, <1>5 DEF UpdateProfile, SyncMembers

LEMMA EndsProven ==
  ASSUME AllInv, NEW c \in Requests,
         ForgetRequest(c) \/ ReadSubject(c) \/ Refuse(c) \/ Abandon(c)
  PROVE  ProvenInv'
<1>1. Leaves(c) /\ UNCHANGED <<user, via>>
  BY DEF ForgetRequest, ReadSubject, Grants, Refuse, Abandon
<1>2. CASE Use(c) \/ GiveUp(c)
  BY <1>1, <1>2, UseFacts, LeftProven
<1>3. CASE req[c].at = "idle" /\ UNCHANGED codeVars
  BY <1>1, <1>3, IdleStays, LeftProven
<1>4. CASE ForgetRequest(c)
  <2>1. req[c].at = "idle"
    BY <1>4 DEF ForgetRequest, At, AllInv, ProvenInv, Knows
  <2>2. UNCHANGED <<stored, made, mailed, sentFor, req>>
    BY <1>4 DEF ForgetRequest, ForgetSubject, codeVars, store, history
  <2> QED
    BY <1>1, <2>1, <2>2, LeftProven DEF OthersStay
<1> QED
  BY <1>2, <1>3, <1>4 DEF ReadSubject, Grants, Refuse, Abandon

LEMMA ProvenNextInv ==
  ASSUME AllInv, [Next]_vars
  PROVE  ProvenInv'
<1>1. ASSUME NEW c \in Requests, AccountStep(c) PROVE ProvenInv'
  BY <1>1, LookupProven, CheckSubjectProven, RegisterProven, SaveEmailProven, RenameProven, EndsProven
  DEF AccountStep
<1>2. ASSUME Grows, UNCHANGED <<req, made, accountVars>> PROVE ProvenInv'
  <2>1. \A c \in Requests : Knows(c)'
    BY <1>2, KnowsStays DEF accountVars, AllInv, ProvenInv
  <2> QED
    BY <1>2, <2>1, SentForStays, ProofsStay DEF accountVars, ProvenInv
<1>3. ASSUME Expire, UNCHANGED accountVars PROVE ProvenInv'
  <2>1. UNCHANGED made
    BY <1>3 DEF Expire, ExpireCode, ExpireAttempts, ExpireCooldown, ExpireSubject, ForgetSubject
  <2> QED
    BY <1>2, <1>3, <2>1, ExpireGrows DEF AllInv
<1>4. CASE UNCHANGED vars
  <2>1. UNCHANGED <<stored, made, mailed, sentFor, req, accountVars>>
    BY <1>4 DEF vars, codeVars, store, history
  <2>2. Grows
    BY <2>1, CodeNumbers DEF AllInv, CodesInv, CodesTypeOK, Grows
  <2> QED
    BY <1>2, <2>1, <2>2
<1> QED
  BY <1>1, <1>3, <1>4, BeginProven, CodeStepProven DEF Next

(* Every account has an address that a code was mailed to, for registering *)
(* it or because this very account asked for it (service.go and            *)
(* email_change.go).                                                       *)
THEOREM AccountAddressesAreProven == Spec => []AddressesAreProven
<1>1. Init => AllInv
  BY CodesInitInv, AccountsInitInv, ProvenInitInv DEF Init, AllInv
<1>2. AllInv /\ [Next]_vars => AllInv'
  BY StepRefines, CodesNextInv, AccountsNextInv, ProvenNextInv DEF AllInv
<1>3. AllInv => AddressesAreProven
  BY DEF AllInv, ProvenInv, Proven
<1> QED
  BY <1>1, <1>2, <1>3, PTL DEF Spec

-----------------------------------------------------------------------------
(* Whose password a code resets. *)

(* The account stored under a key is the one a code of that key is for.    *)
SubjectsOK ==
  \A k \in Keys : subject[k].user # None =>
    /\ subject[k].code \in 1..made
    /\ sentFor[subject[k].code] = [key |-> k, user |-> subject[k].user]

(* That code is not older than any that was mailed for an account.         *)
NewestOK ==
  \A k \in Keys, n \in mailed :
    sentFor[n].key = k /\ sentFor[n].user # None /\ subject[k].user # None
      => n <= subject[k].code

(* Nor is the code that is being sent.                                     *)
LatestOK ==
  \A c \in Requests : req[c].at \in Sending =>
    \A n \in 1..made : sentFor[n].key = req[c].key => n <= req[c].code

(* A code that reset a password was made for that account, or a later one  *)
(* for the same address was.                                               *)
GrantsOK ==
  \A n \in Codes : granted[n] # None =>
    \E m \in n..made : sentFor[m] = [key |-> sentFor[n].key, user |-> granted[n]]

StoreInv == SubjectsOK /\ NewestOK /\ LatestOK

ResetsInv == AllInv /\ StoreInv /\ granted \in [Codes -> Users \cup {None}] /\ GrantsOK

LEMMA StoreInitInv == CodesInit => StoreInv
  BY NoneIsNoUser
  DEF CodesInit, StoreInv, SubjectsOK, NewestOK, LatestOK, NoSubject, NoRequest, Sending

(* Who sends after a step sent before it.                                  *)
NoNewSender ==
  \A d \in Requests : req'[d].at \in Sending =>
    req[d].at \in Sending /\ req'[d].key = req[d].key /\ req'[d].code = req[d].code

LEMMA LatestStays ==
  ASSUME LatestOK, NoNewSender, UNCHANGED <<made, sentFor>>
  PROVE  LatestOK'
  BY DEF LatestOK, NoNewSender

(* A step that touches no code and no account.                             *)
LEMMA QuietStore ==
  ASSUME StoreInv, NoNewSender, UNCHANGED <<subject, made, mailed, sentFor>>
  PROVE  StoreInv'
<1>1. SubjectsOK' /\ NewestOK'
  BY DEF StoreInv, SubjectsOK, NewestOK
<1> QED
  BY <1>1, LatestStays DEF StoreInv

(* A step that forgets accounts.                                           *)
LEMMA ForgettingStore ==
  ASSUME StoreInv, NEW k \in Keys, ForgetSubject(k)
  PROVE  StoreInv'
<1>1. UNCHANGED <<made, mailed, req, sentFor>>
  BY DEF ForgetSubject, history
<1>2. \A j \in Keys : subject'[j].user # None => subject'[j] = subject[j]
  BY DEF ForgetSubject, NoSubject
<1>3. SubjectsOK' /\ NewestOK'
  BY <1>1, <1>2 DEF StoreInv, SubjectsOK, NewestOK
<1> QED
  BY <1>1, <1>3, LatestStays DEF StoreInv, NoNewSender

(* A code is reserved: it is the newest of all.                            *)
LEMMA ReservedStore ==
  ASSUME CodesInv, StoreInv, NEW c \in Requests, ~cooldown[req[c].key], Reserved(c, req[c].key)
  PROVE  StoreInv'
<1>1. /\ made \in Nat /\ made' = made + 1 /\ made' \in Codes
      /\ mailed' = mailed /\ mailed \subseteq 1..made /\ subject' = subject
  BY CodeNumbers DEF Reserved, CodesInv, CodesTypeOK, UnmadeOK, Codes
<1>2. \A n \in 1..made : sentFor'[n] = sentFor[n]
  BY <1>1 DEF Reserved, CodesInv, CodesTypeOK, Codes
<1>3. SubjectsOK'
  BY <1>1, <1>2 DEF StoreInv, SubjectsOK
<1>4. NewestOK'
  BY <1>1, <1>2 DEF StoreInv, NewestOK
<1>5. /\ req'[c].code = made + 1 /\ req'[c].key = req[c].key
      /\ \A d \in Requests \ {c} : req'[d] = req[d]
      /\ sentFor'[made + 1].key = req[c].key
  BY <1>1 DEF Reserved, CodesInv, CodesTypeOK
<1>6. ASSUME NEW d \in Requests \ {c}, req[d].at \in Sending PROVE req[d].key # req[c].key
  BY <1>6 DEF CodesInv, SendersOK
<1>7. ASSUME NEW d \in Requests, req'[d].at \in Sending, NEW n \in 1..made',
             sentFor'[n].key = req'[d].key
      PROVE  n <= req'[d].code
  <2>1. CASE d = c
    BY <1>1, <1>5, <2>1
  <2>2. CASE d # c
    <3>1. req'[d] = req[d] /\ req[d].key # req[c].key
      BY <1>5, <1>6, <1>7, <2>2
    <3>2. n \in 1..made
      BY <1>1, <1>5, <1>7, <3>1
    <3> QED
      BY <1>2, <1>7, <3>1, <3>2 DEF StoreInv, LatestOK
  <2> QED
    BY <2>1, <2>2
<1> QED
  BY <1>3, <1>4, <1>7 DEF StoreInv, LatestOK

(* The account is stored: it is that of the newest code of its key.        *)
LEMMA SetSubjectStore ==
  ASSUME CodesInv, StoreInv, NEW c \in Requests, SetSubject(c)
  PROVE  StoreInv'
<1> DEFINE k == req[c].key
<1>1. req[c].at \in Sending /\ k \in Keys
  BY SenderFacts DEF SetSubject, Sending
<1>2. UNCHANGED <<made, mailed, sentFor>>
  BY DEF SetSubject, history
<1>3. /\ req[c].code \in 1..made
      /\ sentFor[req[c].code] = [key |-> k, user |-> req[c].user]
  BY <1>1 DEF CodesInv, SendersOK
<1>4. \A j \in Keys : \/ subject'[j] = subject[j]
                      \/ j = k /\ subject'[j] = [user |-> req[c].user, code |-> req[c].code]
  BY DEF SetSubject, CodesInv, CodesTypeOK
<1>5. NoNewSender
  <2>1. Goes(c, "mail") \/ Goes(c, "undoCode")
    BY DEF SetSubject
  <2>2. "mail" \in Stages /\ "undoCode" \in Stages
    BY DEF Stages, Sending
  <2>3. OthersStay(c) /\ req'[c].key = req[c].key /\ req'[c].code = req[c].code
    BY <2>1, <2>2, GoesFacts DEF CodesInv
  <2> QED
    BY <1>1, <2>3 DEF NoNewSender, OthersStay
<1>6. \A n \in mailed : n \in 1..made
  BY CodeNumbers DEF CodesInv, CodesTypeOK, UnmadeOK, Codes
<1>7. SubjectsOK'
  BY <1>2, <1>3, <1>4 DEF StoreInv, SubjectsOK
<1>8. ASSUME NEW n \in mailed, sentFor[n].key = k PROVE n <= req[c].code
  BY <1>1, <1>6, <1>8 DEF StoreInv, LatestOK
<1>9. NewestOK'
  <2> SUFFICES ASSUME NEW j \in Keys, NEW n \in mailed,
                      sentFor[n].key = j, sentFor[n].user # None, subject'[j].user # None
               PROVE  n <= subject'[j].code
    BY <1>2 DEF NewestOK
  <2>1. CASE subject'[j] = subject[j]
    BY <2>1 DEF StoreInv, NewestOK
  <2>2. CASE subject'[j] # subject[j]
    BY <1>4, <1>8, <2>2
  <2> QED
    BY <2>1, <2>2
<1> QED
  BY <1>2, <1>5, <1>7, <1>9, LatestStays DEF StoreInv

(* A code is mailed when its account is stored.                            *)
LEMMA MailStore ==
  ASSUME CodesInv, StoreInv, NEW c \in Requests, Mail(c)
  PROVE  StoreInv'
<1>1. UNCHANGED <<subject, made, sentFor>> /\ mailed' \in {mailed, mailed \cup {req[c].code}}
  BY DEF Mail, store, history
<1>2. req[c].at \in Sending /\ req[c].at = "mail" /\ req[c].key \in Keys
  BY SenderFacts DEF Mail, Sending
<1>3. sentFor[req[c].code] = [key |-> req[c].key, user |-> req[c].user] /\ req[c].code \in 1..made
  BY <1>2 DEF CodesInv, SendersOK
<1>4. ASSUME req[c].user # None, subject[req[c].key].user # None
      PROVE  subject[req[c].key].code = req[c].code
  <2>1. BoundTo(req[c].key, req[c].user, req[c].code)
    BY <1>2, <1>4 DEF CodesInv, MailingOK
  <2> QED
    BY <1>4, <2>1 DEF BoundTo, NoSubject
<1>5. NoNewSender
  BY EndsFacts DEF Mail, NoNewSender, CodesInv, OthersStay, Sending
<1>6. SubjectsOK'
  BY <1>1 DEF StoreInv, SubjectsOK
<1>7. NewestOK'
  <2> SUFFICES ASSUME NEW j \in Keys, NEW n \in mailed \cup {req[c].code},
                      sentFor[n].key = j, sentFor[n].user # None, subject[j].user # None
               PROVE  n <= subject[j].code
    BY <1>1 DEF NewestOK
  <2>1. CASE n = req[c].code
    BY <1>3, <1>4, <2>1
  <2>2. CASE n # req[c].code
    BY <2>2 DEF StoreInv, NewestOK
  <2> QED
    BY <2>1, <2>2
<1> QED
  BY <1>1, <1>5, <1>6, <1>7, LatestStays DEF StoreInv

(* The other steps of a request with a code start no sending.              *)
LEMMA OtherStore ==
  ASSUME CodesInv, StoreInv, NEW c \in Requests,
         \/ Use(c) \/ GiveUp(c) \/ SetCode(c) \/ UndoCode(c) \/ UndoCooldown(c)
         \/ Verify(c) \/ VerifyFails(c)
  PROVE  StoreInv'
<1>1. UNCHANGED <<subject, made, mailed, sentFor>>
  BY DEF Use, GiveUp, SetCode, UndoCode, UndoCooldown, Verify, VerifyFails, store, history
<1>2. CASE Ends(c)
  BY <1>1, <1>2, EndsFacts, QuietStore DEF NoNewSender, CodesInv, OthersStay, Sending
<1>3. CASE req[c].at \in Sending /\ (SetCode(c) \/ UndoCode(c))
  <2>1. NoNewSender
    BY <1>3 DEF SetCode, UndoCode, Goes, NoNewSender, CodesInv, CodesTypeOK
  <2> QED
    BY <1>1, <2>1, QuietStore
<1>4. CASE Goes(c, "accepted")
  BY <1>1, <1>4, GoesFacts, QuietStore DEF NoNewSender, CodesInv, OthersStay, Sending, Stages
<1> QED
  BY <1>2, <1>3, <1>4
  DEF Use, GiveUp, SetCode, UndoCode, UndoCooldown, Verify, VerifyFails, Sending

(* A request that begins with a code sends nothing yet.                    *)
LEMMA BeginsStore ==
  ASSUME CodesInv, StoreInv, NEW c \in Requests, NEW k, NEW u, NEW n,
         Send(c, k, u) \/ Present(c, k, u, n)
  PROVE  StoreInv'
<1>1. UNCHANGED <<subject, made, mailed, sentFor>>
  BY DEF Send, Present, store, history
<1>2. NoNewSender
  BY DEF Send, Present, NoNewSender, CodesInv, CodesTypeOK, Sending
<1> QED
  BY <1>1, <1>2, QuietStore

LEMMA ReserveStore ==
  ASSUME CodesInv, StoreInv, NEW c \in Requests, Reserve(c)
  PROVE  StoreInv'
<1>1. CASE ~cooldown[req[c].key] /\ Reserved(c, req[c].key)
  BY <1>1, ReservedStore
<1>2. CASE ~(~cooldown[req[c].key] /\ Reserved(c, req[c].key))
  <2>1. Ends(c) /\ UNCHANGED <<subject, made, mailed, sentFor>>
    BY <1>2 DEF Reserve, store, history
  <2> QED
    BY <2>1, EndsFacts, QuietStore DEF NoNewSender, CodesInv, OthersStay, Sending
<1> QED
  BY <1>1, <1>2

LEMMA StoreNextInv ==
  ASSUME CodesInv, StoreInv, [CodesNext]_codeVars
  PROVE  StoreInv'
<1>1. ASSUME NEW c \in Requests, CodeStep(c) \/ Use(c) \/ GiveUp(c) PROVE StoreInv'
  BY <1>1, ReserveStore, SetSubjectStore, MailStore, OtherStore DEF CodeStep
<1>2. ASSUME UNCHANGED <<subject, made, mailed, sentFor, req>> PROVE StoreInv'
  BY <1>2, QuietStore DEF NoNewSender
<1>3. CASE Expire
  BY <1>2, <1>3, ForgettingStore
  DEF Expire, ExpireCode, ExpireAttempts, ExpireCooldown, ExpireSubject, history
<1>4. CASE UNCHANGED codeVars
  BY <1>2, <1>4 DEF codeVars, store, history
<1> QED
  BY <1>1, <1>3, <1>4, BeginsStore, ForgettingStore DEF CodesNext

-----------------------------------------------------------------------------
(* The account is read after the code was consumed. *)

(* What the accepted code of a reset, and the account read for it, say.    *)
LEMMA ReadFacts ==
  ASSUME ResetsInv, NEW c \in Requests, ReadSubject(c), req[c].code \in Codes,
         subject[<<"password_reset", task[c].email>>].user # None
  PROVE  \E m \in req[c].code..made :
           sentFor[m] = [key |-> sentFor[req[c].code].key,
                         user |-> subject[<<"password_reset", task[c].email>>].user]
<1> DEFINE k == <<"password_reset", task[c].email>>
           n == req[c].code
<1>1. /\ task[c].op = "reset" /\ task[c].at = "code" /\ req[c].at = "accepted"
      /\ task[c].email \in Emails
  BY DEF ReadSubject, At, Accepted, ResetsInv, AllInv, AccountsInv, TasksOK, Shaped
<1>2. k \in Keys /\ k \notin RegistrationKeys /\ KeyOf(task[c]) = k
  BY <1>1 DEF Keys, Purposes, RegistrationKeys, KeyOf
<1>3. n \in mailed /\ sentFor[n].key = k
  BY <1>1, <1>2, CodeNumbers DEF ResetsInv, AllInv, ProvenInv, Knows
<1>4. n \in 1..made /\ made \in Nat /\ sentFor[n].user # None
  <2>1. n \in Codes /\ n <= made /\ made \in Nat
    <3>1. CodesTypeOK /\ UnmadeOK
      BY DEF ResetsInv, AllInv, CodesInv
    <3>2. made \in Nat
      BY <3>1, CodeNumbers DEF CodesTypeOK
    <3> QED
      BY <1>3, <3>1, <3>2 DEF UnmadeOK
  <2>2. sentFor[n].user # None
    BY <1>2, <1>3, <2>1 DEF ResetsInv, AllInv, ProvenInv, SentForOK
  <2> QED
    BY <2>1, <2>2 DEF Codes
<1>5. /\ subject[k].code \in 1..made
      /\ sentFor[subject[k].code] = [key |-> k, user |-> subject[k].user]
  BY <1>2 DEF ResetsInv, StoreInv, SubjectsOK
<1>6. n <= subject[k].code
  BY <1>2, <1>3, <1>4 DEF ResetsInv, StoreInv, NewestOK
<1> QED
  BY <1>3, <1>4, <1>5, <1>6

(* Codes that reset a password go on to match.                             *)
LEMMA GrantsStay ==
  ASSUME ResetsInv, Grows, made' \in Nat, UNCHANGED granted
  PROVE  GrantsOK'
<1>1. made \in Nat /\ made <= MaxCodes /\ made <= made'
  BY CodeNumbers DEF ResetsInv, AllInv, CodesInv, CodesTypeOK, Grows
<1> SUFFICES ASSUME NEW n \in Codes, granted[n] # None
             PROVE  \E m \in n..made' :
                      sentFor'[m] = [key |-> sentFor'[n].key, user |-> granted[n]]
  BY DEF GrantsOK
<1>2. PICK m \in n..made : sentFor[m] = [key |-> sentFor[n].key, user |-> granted[n]]
  BY DEF ResetsInv, GrantsOK
<1>3. n \in 1..made /\ m \in 1..made
  BY <1>1, <1>2, CodeNumbers DEF Codes
<1>4. \A x \in 1..made : x \in Codes /\ x <= made
  BY <1>1, CodeNumbers DEF Codes
<1>5. sentFor'[n] = sentFor[n] /\ sentFor'[m] = sentFor[m]
  BY <1>3, <1>4 DEF Grows
<1> QED
  BY <1>1, <1>2, <1>3, <1>5

LEMMA GrantsInv ==
  ASSUME ResetsInv, NEW c \in Requests, ReadSubject(c)
  PROVE  granted' \in [Codes -> Users \cup {None}] /\ GrantsOK'
<1> DEFINE s == subject[<<"password_reset", task[c].email>>]
<1>1. Use(c)
  BY DEF ReadSubject, Grants
<1>2. Grows /\ UNCHANGED <<made, sentFor>> /\ made' \in Nat
  <2>1. UNCHANGED <<stored, made, mailed, sentFor>>
    BY <1>1 DEF Use, store, history
  <2> QED
    BY <2>1, CodeNumbers DEF Grows, ResetsInv, AllInv, CodesInv, CodesTypeOK
<1>3. CASE UNCHANGED granted
  BY <1>2, <1>3, GrantsStay DEF ResetsInv
<1>4. CASE granted' # granted
  <2>1. /\ req[c].code \in Codes /\ s.user # None
        /\ granted' = [granted EXCEPT ![req[c].code] = s.user]
    BY <1>4, CodeNumbers DEF ReadSubject, Grants
  <2>2. s.user \in Users
    <3>1. task[c].email \in Emails
      BY DEF ReadSubject, At, ResetsInv, AllInv, AccountsInv, TasksOK, Shaped
    <3>2. <<"password_reset", task[c].email>> \in Keys
      BY <3>1 DEF Keys, Purposes
    <3> QED
      BY <2>1, <3>2 DEF ResetsInv, AllInv, CodesInv, CodesTypeOK
  <2>3. granted' \in [Codes -> Users \cup {None}]
    BY <2>1, <2>2 DEF ResetsInv
  <2>4. \E m \in req[c].code..made :
          sentFor[m] = [key |-> sentFor[req[c].code].key, user |-> s.user]
    BY <2>1, ReadFacts
  <2>5. ASSUME NEW n \in Codes, granted'[n] # None
        PROVE  \E m \in n..made : sentFor[m] = [key |-> sentFor[n].key, user |-> granted'[n]]
    <3>1. CASE n = req[c].code
      BY <2>1, <2>4, <3>1 DEF ResetsInv
    <3>2. CASE n # req[c].code
      BY <2>1, <2>5, <3>2 DEF ResetsInv, GrantsOK
    <3> QED
      BY <3>1, <3>2
  <2> QED
    BY <1>2, <2>3, <2>5 DEF GrantsOK
<1> QED
  BY <1>3, <1>4

(* Every step of the code store keeps what was mailed.                     *)
LEMMA CodesNextGrows ==
  ASSUME CodesInv, [CodesNext]_codeVars
  PROVE  Grows
<1>1. ASSUME UNCHANGED <<stored, made, mailed, sentFor>> PROVE Grows
  BY <1>1, CodeNumbers DEF Grows, CodesInv, CodesTypeOK
<1> QED
  BY <1>1, CodeStepGrows, ExpireGrows
  DEF CodesNext, Send, Present, Use, GiveUp, ForgetSubject, codeVars, store, history

LEMMA ResetsNextInv ==
  ASSUME ResetsInv, [Next]_vars
  PROVE  ResetsInv'
<1>1. AllInv /\ [CodesNext]_codeVars
  BY StepRefines DEF ResetsInv, AllInv
<1>2. AllInv'
  BY <1>1, CodesNextInv, AccountsNextInv, ProvenNextInv DEF AllInv
<1>3. StoreInv'
  BY <1>1, StoreNextInv DEF ResetsInv, AllInv
<1>4. Grows /\ made' \in Nat
  BY <1>1, <1>2, CodesNextGrows DEF AllInv, CodesInv, CodesTypeOK
<1>5. CASE UNCHANGED granted
  BY <1>2, <1>3, <1>4, <1>5, GrantsStay DEF ResetsInv
<1>6. CASE granted' # granted
  <2>1. \E c \in Requests : ReadSubject(c)
    BY <1>6
    DEF Next, vars, accountVars, Begin, SendRegistration, StartReset, SendPasswordReset,
        SendEmailChange, StartChange, StartRegister, StartRename, AccountStep, Lookup,
        CheckSubject, Insert, CreateSession, CommitRegistration, SaveEmail, ForgetRequest,
        UpdateProfile, SyncMembers, CommitProfile, Refuse, Abandon
  <2> QED
    BY <1>2, <1>3, <2>1, GrantsInv DEF ResetsInv
<1> QED
  BY <1>5, <1>6

(* A code resets the password of the account it was sent for, or of one    *)
(* that a later code for the same address was sent for, although the       *)
(* account is read after the code was consumed (VerifyPasswordOTP).        *)
THEOREM AccountResetsMatch == Spec => []ResetsMatch
<1>1. Init => ResetsInv
  BY CodesInitInv, AccountsInitInv, ProvenInitInv, StoreInitInv
  DEF Init, AllInv, ResetsInv, GrantsOK
<1>2. ResetsInv => ResetsMatch
  <2> SUFFICES ASSUME ResetsInv, NEW n \in Codes, granted[n] # None
               PROVE  \E m \in n..MaxCodes :
                        sentFor[m] = [key |-> sentFor[n].key, user |-> granted[n]]
    BY DEF ResetsMatch
  <2>1. made \in Nat /\ made <= MaxCodes /\ MaxCodes \in Nat /\ n \in Nat
    BY CodeNumbers DEF ResetsInv, AllInv, CodesInv, CodesTypeOK
  <2> QED
    BY <2>1 DEF ResetsInv, GrantsOK
<1> QED
  BY <1>1, <1>2, ResetsNextInv, PTL DEF Spec
=============================================================================
