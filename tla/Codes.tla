------------------------------- MODULE Codes -------------------------------
(***************************************************************************)
(* One-time codes in Redis (package otp) and the two flows of the account  *)
(* service that use them: createOTPFlow, which reserves a cooldown, stores *)
(* a new code and the account it is for, and mails it; and consumeOTP,     *)
(* which presents a code.                                                  *)
(*                                                                         *)
(* One Redis command or script is one step.  A command may fail: then it   *)
(* was executed or not, and the request cannot tell.  A request may also   *)
(* end anywhere, with its deadline or with the process.                    *)
(*                                                                         *)
(* Codes are numbered in the order they are made and are all different.    *)
(* Elapsed time is a choice, but a request is over (10 s) before a         *)
(* cooldown (60 s) or a code (120 s) that it set expires.                  *)
(***************************************************************************)
EXTENDS Naturals

CONSTANTS
  Emails, Users, Requests,
  MaxAttempts,  \* OTP_MAX_ATTEMPTS, which Verify takes to be 1 at least
  MaxCodes,     \* BOUND: codes made
  None

ASSUME MaxAttemptsAssumption == MaxAttempts \in Nat \ {0}
ASSUME MaxCodesAssumption == MaxCodes \in Nat
ASSUME NoneIsNoUser == None \notin Users

Purposes == {"registration", "password_reset", "email_change"}
Keys == Purposes \X Emails

Codes == 1..MaxCodes
Wrong == 0               \* whatever is no code that was mailed
Default == MaxCodes + 1  \* the built-in code, which is always accepted

VARIABLES
  stored,    \* [Keys -> the code that is valid, or Wrong for none]
  attempts,  \* [Keys -> failed attempts, and the code whose lifetime they have]
  cooldown,  \* [Keys -> a code was sent a moment ago]
  subject,   \* [Keys -> the account the code is for, and that code's number]
  made,      \* codes made so far
  mailed,    \* codes that may have arrived
  req,       \* [Requests -> what the request is doing with a code]
  sentFor,   \* HISTORY: [Codes -> the key and the account it was made for]
  accepted,  \* HISTORY: [Codes -> how often it was accepted]
  tries      \* HISTORY: [Codes -> failed attempts while it was valid]

store == <<stored, attempts, cooldown, subject>>
history == <<sentFor, accepted, tries>>
codeVars == <<store, made, mailed, req, history>>

NoAttempts == [count |-> 0, of |-> Wrong]
NoSubject == [user |-> None, code |-> Wrong]
NoRequest == [at |-> "idle", key |-> None, user |-> None, code |-> Wrong]

Sending == {"setCode", "setSubject", "mail", "undoCode", "undoCooldown"}
Stages == {"idle", "reserve", "present", "accepted"} \cup Sending

CodesInit ==
  /\ stored = [k \in Keys |-> Wrong]
  /\ attempts = [k \in Keys |-> NoAttempts]
  /\ cooldown = [k \in Keys |-> FALSE]
  /\ subject = [k \in Keys |-> NoSubject]
  /\ made = 0 /\ mailed = {}
  /\ req = [c \in Requests |-> NoRequest]
  /\ sentFor = [n \in Codes |-> None]
  /\ accepted = [n \in Codes |-> 0] /\ tries = [n \in Codes |-> 0]

Goes(c, stage) == req' = [req EXCEPT ![c].at = stage]
Ends(c) == req' = [req EXCEPT ![c] = NoRequest]

-----------------------------------------------------------------------------
(* createOTPFlow *)

Send(c, k, u) ==
  /\ req[c].at = "idle"
  /\ req' = [req EXCEPT ![c] = [at |-> "reserve", key |-> k, user |-> u, code |-> Wrong]]
  /\ UNCHANGED <<store, made, mailed, history>>

Reserved(c, k) ==
  LET n == made + 1 IN
  /\ made < MaxCodes
  /\ cooldown' = [cooldown EXCEPT ![k] = TRUE]
  /\ made' = n
  /\ sentFor' = [sentFor EXCEPT ![n] = [key |-> k, user |-> req[c].user]]
  /\ req' = [req EXCEPT ![c].at = "setCode", ![c].code = n]
  /\ UNCHANGED <<stored, attempts, subject, mailed, accepted, tries>>

(* SET NX: whoever finds the cooldown is told to wait.                     *)
Reserve(c) ==
  LET k == req[c].key IN
  /\ req[c].at = "reserve"
  /\ \/ ~cooldown[k] /\ Reserved(c, k)
     \/ /\ cooldown[k] /\ Ends(c)
        /\ UNCHANGED <<store, made, mailed, history>>
     \/ /\ cooldown' \in {cooldown, [cooldown EXCEPT ![k] = TRUE]} /\ Ends(c)
        /\ UNCHANGED <<stored, attempts, subject, made, mailed, history>>

(* Mutant: the account is not stored with the code. *)
SetCodeOnly(c) ==
  LET k == req[c].key IN
  /\ req[c].at = "setCode"
  /\ stored' = [stored EXCEPT ![k] = req[c].code]
  /\ Goes(c, "mail")
  /\ UNCHANGED <<attempts, cooldown, subject, made, mailed, history>>

(* A new code replaces the one before, and inherits its failed attempts.   *)
SetCode(c) ==
  LET k == req[c].key
      done == [stored EXCEPT ![k] = req[c].code] IN
  /\ req[c].at = "setCode"
  /\ \/ stored' = done /\ Goes(c, IF req[c].user = None THEN "mail" ELSE "setSubject")
     \/ stored' \in {stored, done} /\ Goes(c, "undoCooldown")
  /\ UNCHANGED <<attempts, cooldown, subject, made, mailed, history>>

SetSubject(c) ==
  LET k == req[c].key
      done == [subject EXCEPT ![k] = [user |-> req[c].user, code |-> req[c].code]] IN
  /\ req[c].at = "setSubject"
  /\ \/ subject' = done /\ Goes(c, "mail")
     \/ subject' \in {subject, done} /\ Goes(c, "undoCode")
  /\ UNCHANGED <<stored, attempts, cooldown, made, mailed, history>>

(* A delivery that fails is not undone: the built-in code still works.     *)
Mail(c) ==
  /\ req[c].at = "mail"
  /\ mailed' \in {mailed, mailed \cup {req[c].code}}
  /\ Ends(c)
  /\ UNCHANGED <<store, made, history>>

(* DEL of the key, whatever it holds; both keys are tried.                 *)
UndoCode(c) ==
  /\ req[c].at = "undoCode"
  /\ stored' \in {stored, [stored EXCEPT ![req[c].key] = Wrong]}
  /\ Goes(c, "undoCooldown")
  /\ UNCHANGED <<attempts, cooldown, subject, made, mailed, history>>

UndoCooldown(c) ==
  /\ req[c].at = "undoCooldown"
  /\ cooldown' \in {cooldown, [cooldown EXCEPT ![req[c].key] = FALSE]}
  /\ Ends(c)
  /\ UNCHANGED <<stored, attempts, subject, made, mailed, history>>

-----------------------------------------------------------------------------
(* consumeOTP *)

Present(c, k, u, n) ==
  /\ req[c].at = "idle"
  /\ req' = [req EXCEPT ![c] = [at |-> "present", key |-> k, user |-> u, code |-> n]]
  /\ UNCHANGED <<store, made, mailed, history>>

(* Mutant: the script compares, and the key is deleted by nobody. *)
ConsumeNothing(k, n) ==
  /\ stored[k] = n /\ n \in Codes
  /\ attempts' = [attempts EXCEPT ![k] = NoAttempts]
  /\ accepted' = [accepted EXCEPT ![n] = @ + 1]
  /\ UNCHANGED <<stored, tries>>

(* What the script of Verify does when the code is the stored one.         *)
Consume(k, n) ==
  /\ stored[k] = n /\ n \in Codes
  /\ stored' = [stored EXCEPT ![k] = Wrong]
  /\ attempts' = [attempts EXCEPT ![k] = NoAttempts]
  /\ accepted' = [accepted EXCEPT ![n] = @ + 1]
  /\ UNCHANGED tries

Counts(k) == tries' = [tries EXCEPT ![stored[k]] = @ + 1] /\ UNCHANGED accepted

(* Mutant: one attempt more. *)
MissOneMore(k, n) ==
  LET count == attempts[k].count + 1 IN
  /\ stored[k] # Wrong /\ stored[k] # n
  /\ Counts(k)
  /\ IF count > MaxAttempts
     THEN /\ stored' = [stored EXCEPT ![k] = Wrong]
          /\ attempts' = [attempts EXCEPT ![k] = NoAttempts]
     ELSE /\ attempts' = [attempts EXCEPT ![k] = [count |-> count, of |-> stored[k]]]
          /\ UNCHANGED stored

(* When it is another one: the attempts live as long as the stored code,   *)
(* and the last one takes the code with it.                                *)
Miss(k, n) ==
  LET count == attempts[k].count + 1 IN
  /\ stored[k] # Wrong /\ stored[k] # n
  /\ Counts(k)
  /\ IF count >= MaxAttempts
     THEN /\ stored' = [stored EXCEPT ![k] = Wrong]
          /\ attempts' = [attempts EXCEPT ![k] = NoAttempts]
     ELSE /\ attempts' = [attempts EXCEPT ![k] = [count |-> count, of |-> stored[k]]]
          /\ UNCHANGED stored

NoCode(k) == stored[k] = Wrong /\ UNCHANGED <<stored, attempts, accepted, tries>>

Verify(c) ==
  LET k == req[c].key
      n == req[c].code IN
  /\ req[c].at = "present"
  /\ \/ /\ n = Default /\ Goes(c, "accepted")
        /\ UNCHANGED <<stored, attempts, accepted, tries>>
     \/ n # Default /\ Consume(k, n) /\ Goes(c, "accepted")
     \/ n # Default /\ (Miss(k, n) \/ NoCode(k)) /\ Ends(c)
  /\ UNCHANGED <<cooldown, subject, made, mailed, sentFor>>

(* Redis fails; the script ran, or it did not.                             *)
VerifyFails(c) ==
  LET k == req[c].key
      n == req[c].code IN
  /\ req[c].at = "present" /\ n # Default
  /\ \/ Consume(k, n) \/ Miss(k, n)
     \/ UNCHANGED <<stored, attempts, accepted, tries>>
  /\ Ends(c)
  /\ UNCHANGED <<cooldown, subject, made, mailed, sentFor>>

(* The caller has used the acceptance.                                     *)
Use(c) ==
  /\ req[c].at = "accepted"
  /\ Ends(c)
  /\ UNCHANGED <<store, made, mailed, history>>

-----------------------------------------------------------------------------
(* The request ends: its deadline passed, or its process did.              *)
GiveUp(c) ==
  /\ req[c].at # "idle"
  /\ Ends(c)
  /\ UNCHANGED <<store, made, mailed, history>>

BeingSent(k) == \E c \in Requests : req[c].at \in Sending /\ req[c].key = k
Fresh(n) == \E c \in Requests : req[c].at \in Sending /\ req[c].code = n

(* A code expires, and with it the attempts that were made on it.          *)
ExpireCode(k) ==
  /\ stored[k] # Wrong /\ ~Fresh(stored[k])
  /\ stored' = [stored EXCEPT ![k] = Wrong]
  /\ attempts' = [attempts EXCEPT ![k] = NoAttempts]
  /\ UNCHANGED <<cooldown, subject, made, mailed, req, history>>

(* The attempts that were made on an earlier code expire with that one.    *)
ExpireAttempts(k) ==
  /\ attempts[k].count > 0 /\ attempts[k].of # stored[k]
  /\ attempts' = [attempts EXCEPT ![k] = NoAttempts]
  /\ UNCHANGED <<stored, cooldown, subject, made, mailed, req, history>>

ExpireCooldown(k) ==
  /\ cooldown[k] /\ ~BeingSent(k)
  /\ cooldown' = [cooldown EXCEPT ![k] = FALSE]
  /\ UNCHANGED <<stored, attempts, subject, made, mailed, req, history>>

(* The account of a code is forgotten after the code, or by ChangeEmail.   *)
ForgetSubject(k) ==
  /\ subject[k] # NoSubject
  /\ subject' = [subject EXCEPT ![k] = NoSubject]
  /\ UNCHANGED <<stored, attempts, cooldown, made, mailed, req, history>>

ExpireSubject(k) ==
  subject[k].code # stored[k] /\ ~Fresh(subject[k].code) /\ ForgetSubject(k)

CodeStep(c) ==
  \/ Reserve(c) \/ SetCode(c) \/ SetSubject(c) \/ Mail(c)
  \/ UndoCode(c) \/ UndoCooldown(c)
  \/ Verify(c) \/ VerifyFails(c)

Expire ==
  \E k \in Keys : ExpireCode(k) \/ ExpireAttempts(k) \/ ExpireCooldown(k) \/ ExpireSubject(k)

(* Any request may send to any key and present anything.                   *)
CodesNext ==
  \/ \E c \in Requests :
       \/ \E k \in Keys, u \in Users \cup {None} : Send(c, k, u)
       \/ \E k \in Keys, u \in Users \cup {None}, n \in mailed \cup {Wrong, Default} :
            Present(c, k, u, n)
       \/ CodeStep(c) \/ Use(c) \/ GiveUp(c)
  \/ \E k \in Keys : ForgetSubject(k)
  \/ Expire

CodesSpec == CodesInit /\ [][CodesNext]_codeVars

-----------------------------------------------------------------------------
(* Properties. *)

CodesTypeOK ==
  /\ stored \in [Keys -> {Wrong} \cup Codes]
  /\ attempts \in [Keys -> [count : Nat, of : {Wrong} \cup Codes]]
  /\ cooldown \in [Keys -> BOOLEAN]
  /\ subject \in [Keys -> [user : Users \cup {None}, code : {Wrong} \cup Codes]]
  /\ made \in 0..MaxCodes /\ mailed \in SUBSET Codes
  /\ req \in [Requests -> [at : Stages, key : Keys \cup {None}, user : Users \cup {None},
                           code : {Wrong, Default} \cup Codes]]
  /\ sentFor \in [Codes -> [key : Keys, user : Users \cup {None}] \cup {None}]
  /\ accepted \in [Codes -> Nat] /\ tries \in [Codes -> Nat]

(* A code is accepted once, however many requests present it at once and   *)
(* whichever of them fail (cache.go, Verify).                              *)
CodesWorkOnce == \A n \in Codes : accepted[n] <= 1

(* A code bears MaxAttempts failed attempts, across the codes that replace *)
(* each other under one key and the counter they share (cache.go).         *)
GuessesAreBounded == \A n \in Codes : tries[n] <= MaxAttempts

(* Reserve lets one request at a time send to an address ("so concurrent   *)
(* requests cannot both send an OTP").                                     *)
OneSenderAtATime ==
  \A c, d \in Requests :
    req[c].at \in Sending /\ req[d].at \in Sending /\ req[c].key = req[d].key => c = d

(* The two keys of a flow agree: the account stored beside a code that was *)
(* mailed is the one it was mailed for, although they are set one after    *)
(* the other and undone one by one (createOTPFlow).                        *)
SubjectsMatch ==
  \A k \in Keys :
    LET n == stored[k] IN
    n \in mailed /\ sentFor[n].user # None /\ subject[k] # NoSubject
      => subject[k].user = sentFor[n].user
=============================================================================
