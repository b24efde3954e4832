------------------------------ MODULE Requests ------------------------------
(***************************************************************************)
(* What happens to one HTTP request on its way through the app: the        *)
(* middleware (pkg/middleware, pkg/cache), the handler of its route        *)
(* (pkg/routes and the handlers of internal), and the envelope it is       *)
(* answered with (pkg/responses, pkg/apperror, pkg/localization).          *)
(*                                                                         *)
(* A handler is abstracted to the input it checks, in the code's order,    *)
(* the errors its service may return, and the tables it reads or writes;   *)
(* what the services do to those tables is in the modules of their own.    *)
(* What a response shows is the set of commands (mutating requests)        *)
(* committed by then that wrote a table it reads.  The caller's session is *)
(* the one of module Sessions, whose requests run beside these.            *)
(* Coalescing of concurrent misses is in module ResponseCache.             *)
(***************************************************************************)
EXTENDS Sessions, SequencesExt

CONSTANTS
  Clients,   \* HTTP requests served at the same time
  Account,   \* the user whose session module Sessions is about
  Other,     \* another user, logged in all the time
  Headers    \* language headers: [app, accept : a sequence of [lang, q]]

ASSUME CallersAssumption ==
  /\ Account # Other
  /\ {None, "public"} \cap {Account, Other} = {}

ASSUME HeadersAssumption ==
  \A header \in Headers : header.accept \in Seq([lang : STRING, q : Nat])

-----------------------------------------------------------------------------
(* Languages. *)

Languages == {"uz", "ru", "en"}

(* Mutant: of equal priorities the last one is taken. *)
BetterOrEqual(best, range) == IF range.lang \in Languages /\ range.q >= best.q THEN range ELSE best

Better(best, range) == IF range.lang \in Languages /\ range.q > best.q THEN range ELSE best

ResolveAcceptLanguage(accept) == FoldLeft(Better, [lang |-> "en", q |-> 0], accept).lang

RequestLanguage(header) ==
  IF header.app \in Languages THEN header.app ELSE ResolveAcceptLanguage(header.accept)

-----------------------------------------------------------------------------
(* Errors.  An error is the set of the kinds and causes that errors.Is and *)
(* errors.As find in it; "reason" stands for a Localized one.  The kinds   *)
(* that no code returns are left out.                                      *)

(* The first row one of whose kinds the error holds. *)
FirstMatch(err, rows, otherwise) ==
  LET i == SelectInSeq(rows, LAMBDA row : row[1] \cap err # {})
  IN IF i = 0 THEN otherwise ELSE rows[i][2]

(* Mutant: a delivery that failed because time ran out is a timeout. *)
NormalizeEmail(err) ==
  err \cup FirstMatch(err, <<
    <<{"noRows"},   {"RecordNotFound"}>>,
    <<{"deadline"}, {"Timeout"}>>,
    <<{"pg23505"},  {"DuplicatedKey"}>>,
    <<{"pg23503"},  {"ForeignKeyViolated"}>>,
    <<{"pg23514"},  {"CheckConstraintViolated"}>>,
    <<{"pgValue"},  {"InvalidData"}>>,
    <<{"http422"},  {"Unprocessable"}>> >>, {})

(* What kind of failure an error means, the first row that fits; a failed  *)
(* delivery of mail keeps the kind it has.                                 *)
KindRows == <<
  <<{"EmailUnavailable"}, {}>>,
  <<{"noRows"},   {"RecordNotFound"}>>,
  <<{"deadline"}, {"Timeout"}>>,
  <<{"pg23505"},  {"DuplicatedKey"}>>,
  <<{"pg23503"},  {"ForeignKeyViolated"}>>,
  <<{"pg23514"},  {"CheckConstraintViolated"}>>,
  <<{"pgValue"},  {"InvalidData"}>>,
  <<{"http422"},  {"Unprocessable"}>> >>

Normalize(err) == err \cup FirstMatch(err, KindRows, {})

StatusRows == <<
  <<{"http422"}, 422>>,
  <<{"InternalServer"}, 500>>,
  <<{"Timeout"}, 504>>,
  <<{"EmailUnavailable"}, 503>>,
  <<{"Unauthorized", "InvalidCredentials", "InvalidResetToken", "SessionRevoked"}, 401>>,
  <<{"Forbidden"}, 403>>,
  <<{"RecordNotFound"}, 404>>,
  <<{"DuplicatedKey", "Conflict", "AlreadyExists", "RegistrationIdentityExists"}, 409>>,
  <<{"ForeignKeyViolated", "CheckConstraintViolated"}, 400>>,
  <<{"InvalidData", "InvalidID", "InvalidFormat"}, 400>>,
  <<{"Unprocessable"}, 422>>,
  <<{"LimitExceeded"}, 429>>,
  <<{"InvalidOTP"}, 400>> >>

StatusCode(err) == FirstMatch(Normalize(err), StatusRows, 500)

CodeRows == <<
  <<{"Unauthorized", "InvalidCredentials", "InvalidResetToken", "SessionRevoked"}, 1401>>,
  <<{"Forbidden"}, 1403>>,
  <<{"RecordNotFound"}, 1404>>,
  <<{"AlreadyExists", "RegistrationIdentityExists", "Conflict", "DuplicatedKey"}, 1409>>,
  <<{"LimitExceeded"}, 1429>>,
  <<{"InvalidOTP"}, 1400>>,
  <<{"EmailUnavailable"}, 1503>>,
  <<{"InvalidData", "InvalidFormat"}, 1400>> >>

Code(err) == FirstMatch(Normalize(err), CodeRows, 1000 + StatusCode(err))

SlugRows == <<
  <<{"Unauthorized"}, "unauthorized">>,
  <<{"InvalidCredentials"}, "invalid_credentials">>,
  <<{"InvalidResetToken"}, "invalid_or_expired_reset_token">>,
  <<{"SessionRevoked"}, "session_revoked">>,
  <<{"Forbidden"}, "forbidden">>,
  <<{"RecordNotFound"}, "not_found">>,
  <<{"RegistrationIdentityExists"}, "email_or_username_exists">>,
  <<{"AlreadyExists", "Conflict", "DuplicatedKey"}, "conflict">>,
  <<{"LimitExceeded"}, "rate_limit_exceeded">>,
  <<{"InvalidOTP"}, "invalid_or_expired_otp">>,
  <<{"EmailUnavailable"}, "email_delivery_unavailable">>,
  <<{"InvalidData", "InvalidFormat"}, "invalid_data">>,
  <<{"InvalidID"}, "invalid_id">>,
  <<{"ForeignKeyViolated"}, "foreign_key_violation">>,
  <<{"CheckConstraintViolated"}, "check_constraint_violation">>,
  <<{"Timeout"}, "timeout">>,
  <<{"Unprocessable"}, "unprocessable_entity">> >>

Slug(err) == FirstMatch(Normalize(err), SlugRows, "internal_error")

(* Outside development a server error shows its slug, not its cause. *)
ErrorDetails(err) == IF StatusCode(err) >= 500 THEN {Slug(err)} ELSE err

(* The envelope of an answer; shown and of say which data and whose. *)
Success(status, shown, of, language) ==
  [status |-> status, code |-> 0, slug |-> "ok", reason |-> {},
   shown |-> shown, of |-> of, language |-> language]

Failure(err, language) ==
  [status |-> StatusCode(err), code |-> Code(err), slug |-> Slug(err), reason |-> ErrorDetails(err),
   shown |-> {}, of |-> None, language |-> language]

-----------------------------------------------------------------------------
(* What the queries behind the GET routes read. *)

Unexpected == {{"noRows"}, {"pg23505"}, {"pg23503"}, {"pg23514"}, {"pgValue"}, {"other"}}

GroupAccess        == {"groups", "members"}
UserReads          == {"users"}
SearchReads        == {"users"}
NotificationReads  == {"notifications"}
DebtReads          == {"debts"}
DebtSummaryReads   == {"debts"}
RepaymentReads     == {"debts", "repayments"}
GroupListReads     == GroupAccess \cup {"balances", "profits", "locations", "customers", "orders"}
MemberListReads    == {"members", "users", "locations", "balances", "profits", "invitations"}
MemberReads        == {"members", "users", "locations", "balances", "profits", "orders",
                       "cancellations"}
AdjustmentReads    == {"adjustments", "users"}
LocationReads      == {"locations", "members", "users"}
CustomerReads      == {"customers"}
OrderReads         == {"orders", "members", "users", "locations", "customers"}
ConfirmationReads  == {"confirmations"}
CancellationReads  == {"cancellations", "members", "users"}
OrderListReads     == {"orders", "members", "users", "locations", "confirmations", "cancellations"}
EventReads         == {"events", "users"}

(* What the services refuse with. *)
Invalid  == {{"InvalidData", "reason"}}
NotFound == {{"RecordNotFound"}, {"RecordNotFound", "reason"}}

OrderErrors == Invalid \cup NotFound \cup {{"Conflict", "reason"}, {"Forbidden"}, {"Forbidden", "reason"}}
GroupErrors == OrderErrors \cup {{"Conflict"}, {"AlreadyExists"}, {"Unauthorized"}}
DebtErrors  == Invalid \cup {{"RecordNotFound", "reason"}, {"Conflict", "reason"}}
CodeErrors  == {{"LimitExceeded"}, {"InvalidOTP"}, {"EmailUnavailable", "other"},
                {"EmailUnavailable", "deadline"}, {"InvalidResetToken"}}
(* A name, a language, an avatar or a password that is not allowed.       *)
ProfileErrors == Invalid
AuthErrors  == ProfileErrors \cup CodeErrors \cup
               {{"InvalidData"}, {"RecordNotFound", "reason"}, {"Unauthorized"}, {"SessionRevoked"},
                {"InvalidCredentials"}, {"InvalidCredentials", "reason"}, {"AlreadyExists", "reason"},
                {"RegistrationIdentityExists"}, {"RegistrationIdentityExists", "pg23505"}}

-----------------------------------------------------------------------------
(* The handlers: what they check of the input, in their order, the status  *)
(* of success, and the tables.                                             *)

Query(checks, errors, reads) ==
  [get |-> TRUE, checks |-> checks, status |-> 200, errors |-> errors \cup Unexpected,
   reads |-> reads, writes |-> {}]

Command(checks, status, errors, writes) ==
  [get |-> FALSE, checks |-> checks, status |-> status, errors |-> errors \cup Unexpected,
   reads |-> {}, writes |-> writes]

Register          == Command(<<"body">>, 200, AuthErrors, {"users"})
SendOTP           == Command(<<"body", "purpose">>, 200, AuthErrors, {})
Login             == Command(<<"body">>, 200, AuthErrors, {"users"})
Refresh           == Command(<<"body">>, 200, AuthErrors, {})
VerifyPassword    == Command(<<"body">>, 200, AuthErrors, {})
ResetPassword     == Command(<<"body">>, 200, AuthErrors, {"users"})
CheckUsername     == Query(<<"query", "recall">>, {}, {"users"})
CurrentUser       == Query(<<"user">>, AuthErrors, UserReads)
UpdateCurrentUser == Command(<<"user", "body">>, 200, AuthErrors, {"users", "members"})
ChangeEmail       == Command(<<"user", "body">>, 200, AuthErrors, {"users"})
ChangeLogin       == Command(<<"user", "body">>, 200, AuthErrors, {"users"})
EndLogin          == Command(<<"user">>, 200, AuthErrors, {})
Lookup            == Query(<<"query">>, {}, SearchReads)
Notifications     == Query(<<"user", "page">>, {}, NotificationReads)

DebtSummary     == Query(<<"user">>, {}, DebtSummaryReads)
DebtList        == Query(<<"user", "page">>, Invalid, DebtReads)
DebtCreate      == Command(<<"user", "body">>, 201, DebtErrors, {"debts"})
DebtGet         == Query(<<"user", "id">>, DebtErrors, DebtReads)
DebtRepay       == Command(<<"user", "id", "body">>, 201, DebtErrors, {"debts", "repayments"})
DebtRepayments  == Query(<<"user", "id", "page">>, DebtErrors, RepaymentReads)
DebtComplete    == Command(<<"user", "id">>, 200, DebtErrors, {"debts"})
DebtDelete      == Command(<<"user", "id">>, 200, DebtErrors, {"debts"})

GroupCreate     == Command(<<"user", "body">>, 201, GroupErrors, {"groups", "members"})
GroupList       == Query(<<"user">>, {}, GroupListReads)
GroupDelete     == Command(<<"user", "id", "body">>, 200, GroupErrors,
                           GroupAccess \cup {"invitations", "notifications", "locations", "customers",
                                             "orders"})
GroupInvite     == Command(<<"user", "id", "body", "input">>, 201, GroupErrors,
                           {"invitations", "notifications"})
GroupAction     == Command(<<"user", "id", "body">>, 200, GroupErrors,
                           {"invitations", "members", "balances", "notifications"})
MemberList      == Query(<<"user", "id">>, GroupErrors, GroupAccess \cup MemberListReads)
MemberGet       == Query(<<"user", "id", "id">>, GroupErrors, GroupAccess \cup MemberReads)
MemberEdit      == Command(<<"user", "id", "id", "body", "input">>, 200, GroupErrors,
                           {"members", "locations", "balances"})
MemberRemove    == Command(<<"user", "id", "id">>, 200, GroupErrors, {"members", "locations"})
BalanceAdjust   == Command(<<"user", "id", "id", "body">>, 201, GroupErrors, {"balances", "adjustments"})
BalanceHistory  == Query(<<"user", "id", "id", "page">>, GroupErrors,
                         GroupAccess \cup MemberReads \cup AdjustmentReads)
LocationList    == Query(<<"user", "id">>, GroupErrors, GroupAccess \cup LocationReads)
LocationCreate  == Command(<<"user", "id", "body", "input">>, 201, GroupErrors, {"locations"})
LocationDelete  == Command(<<"user", "id", "id">>, 200, GroupErrors, {"locations"})
CustomerList    == Query(<<"user", "id", "page">>, GroupErrors, GroupAccess \cup CustomerReads)

OrderWrites == {"orders", "events", "notifications"}
MoneyWrites == {"balances", "profits"}

OrderCreate  == Command(<<"user", "id", "body", "input">>, 201, OrderErrors,
                        OrderWrites \cup {"customers"})
OrderList    == Query(<<"user", "id", "page">>, OrderErrors, GroupAccess \cup OrderListReads)
OrderGet     == Query(<<"user", "id", "id">>, OrderErrors,
                      GroupAccess \cup OrderReads \cup ConfirmationReads \cup CancellationReads)
OrderEdit    == Command(<<"user", "id", "id", "body", "input">>, 200, OrderErrors,
                        OrderWrites \cup MoneyWrites \cup {"customers", "confirmations"})
OrderConfirm == Command(<<"user", "id", "id", "body">>, 200, OrderErrors,
                        OrderWrites \cup MoneyWrites \cup {"confirmations"})
OrderEvents  == Query(<<"user", "id", "id">>, OrderErrors, GroupAccess \cup OrderReads \cup EventReads)
OrderCancel  == Command(<<"user", "id", "id", "body">>, 201, OrderErrors,
                        OrderWrites \cup {"cancellations"})
OrderRespond == Command(<<"user", "id", "id", "body">>, 200, OrderErrors,
                        OrderWrites \cup MoneyWrites \cup {"cancellations"})

-----------------------------------------------------------------------------
(* The routes, and what runs before and after each handler.                *)

Private == [
  me |-> CurrentUser, patch_me |-> UpdateCurrentUser, email |-> ChangeEmail,
  password |-> ChangeLogin, logout |-> EndLogin, users |-> Lookup,
  notifications |-> Notifications, answer_invitation |-> GroupAction,
  debt_summary |-> DebtSummary, debts |-> DebtList, post_debt |-> DebtCreate, debt |-> DebtGet,
  delete_debt |-> DebtDelete, repay |-> DebtRepay, repayments |-> DebtRepayments,
  complete |-> DebtComplete,
  post_group |-> GroupCreate, groups |-> GroupList, delete_group |-> GroupDelete,
  invite |-> GroupInvite, members |-> MemberList, member |-> MemberGet,
  patch_member |-> MemberEdit, delete_member |-> MemberRemove, adjust |-> BalanceAdjust,
  adjustments |-> BalanceHistory, locations |-> LocationList, post_location |-> LocationCreate,
  delete_location |-> LocationDelete, customers |-> CustomerList,
  post_order |-> OrderCreate, orders |-> OrderList, order |-> OrderGet, patch_order |-> OrderEdit,
  confirm |-> OrderConfirm, events |-> OrderEvents, cancel |-> OrderCancel,
  respond |-> OrderRespond]

Public == [
  register |-> Register, send |-> SendOTP, check |-> CheckUsername, login |-> Login,
  refresh |-> Refresh, verify |-> VerifyPassword, reset |-> ResetPassword]

Routes == [r \in DOMAIN Private \cup DOMAIN Public |->
             IF r \in DOMAIN Private THEN Private[r] ELSE Public[r]]

(* Mutant: registration is registered without it. *)
InvalidatingLogins ==
  ({r \in DOMAIN Private : ~Private[r].get} \ {"logout"}) \cup {"login", "reset"}

(* Registered with Invalidate.                                             *)
Invalidating ==
  ({r \in DOMAIN Private : ~Private[r].get} \ {"logout"}) \cup {"register", "login", "reset"}

(* The cache of the public group also runs for the private routes: both    *)
(* groups have the prefix /api/v1.                                         *)
Before(r) ==
  CASE r \in DOMAIN Private -> <<"cache", "token", "cache">>
    [] r \in {"send"}       -> <<"cache", "limit", "session">>
    [] r \in {"check"}      -> <<"cache", "limit">>
    [] r \in {"login"}      -> <<"cache", "limit", "limit">>
    [] OTHER                -> <<"cache">>

(* A username that was just taken is forgotten, the cache is invalidated.  *)
After(r) ==
  (IF r \in {"register", "patch_me"} THEN <<"forget">> ELSE <<>>)
  \o (IF r \in Invalidating THEN <<"invalidate">> ELSE <<>>)

Chain(r) == Before(r) \o Routes[r].checks \o <<"serve">>

-----------------------------------------------------------------------------
VARIABLES
  written,      \* the commands whose transaction committed
  version,      \* the generation of the response cache
  entry,        \* the response cache: a function from keys to what an answer shows
  remembered,   \* what the remembered answer about a username shows, or None
  acknowledged, \* HISTORY: commands that were answered with success
  call          \* [Clients -> the request being served, or None]

httpVars == <<written, version, entry, remembered, acknowledged, call>>
shared == <<written, version, entry, remembered, acknowledged>>

HttpInit ==
  /\ written = {} /\ version = 0 /\ entry = <<>> /\ remembered = None /\ acknowledged = {}
  /\ call = [c \in Clients |-> None]

Doing(c, step) == call[c] # None /\ call[c].left # <<>> /\ Head(call[c].left) = step

Become(c, new) == call' = [call EXCEPT ![c] = new]

Pass(c) == Become(c, [call[c] EXCEPT !.left = Tail(@)])

Reply(c, answer, left) ==
  Become(c, [call[c] EXCEPT !.answer = answer, !.left = left \o <<"end">>])

LanguageOf(c) == RequestLanguage(call[c].header)

Refuse(c, err) == Reply(c, Failure(err, LanguageOf(c)), <<>>)

(* What clients may send, with the session id of the access token.         *)
Asked == [route : DOMAIN Routes, bearer : {None, "bad", Account, Other}, sid : Tokens,
          header : Headers]

(* A request begins; since and live are history.                           *)
Arrive(c, asked) ==
  /\ call[c] = None
  /\ asked.sid <= issued
  /\ Routes[asked.route].get \/ asked.route \notin written \* BOUND
  /\ Become(c, [route |-> asked.route, bearer |-> asked.bearer, sid |-> asked.sid,
                header |-> asked.header, left |-> Chain(asked.route), keys |-> <<>>,
                known |-> None, late |-> FALSE, missed |-> FALSE, since |-> acknowledged,
                live |-> asked.sid \notin ended, answer |-> None])
  /\ UNCHANGED shared

-----------------------------------------------------------------------------
(* The cache before the handler. *)

(* Mutant: the Authorization header is not looked at. *)
AnyIdentity(c) == IF call[c].known # None THEN {call[c].known} ELSE {"public"}

(* The user, nobody, or no identity to cache for.                          *)
CacheIdentity(c) ==
  IF call[c].known # None THEN {call[c].known}
  ELSE IF call[c].bearer = None THEN {"public"} ELSE {}

ResponseKey(identity, c) == <<version, identity, call[c].route, LanguageOf(c)>>

PassCache(c) ==
  /\ Doing(c, "cache")
  /\ ~Routes[call[c].route].get \/ CacheIdentity(c) = {}
  /\ Pass(c)
  /\ UNCHANGED shared

ReadKey(c) ==
  /\ Doing(c, "cache") /\ ~call[c].late
  /\ Routes[call[c].route].get
  /\ \E identity \in CacheIdentity(c) :
       Become(c, [call[c] EXCEPT !.left = <<"load">> \o Tail(@),
                                 !.keys = Append(@, ResponseKey(identity, c))])
  /\ UNCHANGED shared

KeyUnreadable(c) == Doing(c, "cache") /\ Pass(c) /\ UNCHANGED shared

Load(c) ==
  /\ Doing(c, "load") /\ ~call[c].late
  /\ LET key == Last(call[c].keys)
     IN IF key \in DOMAIN entry THEN Reply(c, entry[key], <<>>) ELSE Pass(c)
  /\ UNCHANGED shared

LoadFails(c) == Doing(c, "load") /\ Pass(c) /\ UNCHANGED shared

-----------------------------------------------------------------------------
(* The access token, the limits and the input. *)

Valid(c) ==
  \/ call[c].bearer = Other
  \/ (call[c].bearer = Account /\ session # None /\ session.id = call[c].sid)

CheckToken(c) ==
  /\ Doing(c, "token") \/ (Doing(c, "session") /\ call[c].bearer # None)
  /\ call[c].bearer \in {Account, Other} => ~call[c].late
  /\ IF Valid(c) THEN Become(c, [call[c] EXCEPT !.known = call[c].bearer, !.left = Tail(@)])
     ELSE Refuse(c, {"Unauthorized"})
  /\ UNCHANGED shared

PassOptional(c) ==
  /\ Doing(c, "session") /\ call[c].bearer = None
  /\ Pass(c)
  /\ UNCHANGED shared

CallFailed(c) == IF call[c].late THEN {"deadline"} ELSE {"other"}

SessionUnreadable(c) ==
  /\ Doing(c, "token") \/ Doing(c, "session")
  /\ call[c].bearer \in {Account, Other}
  /\ Refuse(c, CallFailed(c))
  /\ UNCHANGED shared

LimitErrors == {{"LimitExceeded", "reason"}}
InputErrors == {{"InvalidID"}}
BodyErrors  == {{"InvalidData", "other"}, {"InvalidData", "http422"}}

(* user and purpose refuse a request without a user only.                  *)
Refusals == [
  limit   |-> LimitErrors,
  user    |-> {{"Unauthorized"}},
  purpose |-> {{"Unauthorized"}},
  id      |-> {{"InvalidID"}},
  page    |-> Invalid,
  query   |-> Invalid,
  input   |-> InputErrors,
  body    |-> BodyErrors]

Check(c) ==
  /\ \E check \in DOMAIN Refusals :
       Doing(c, check) /\ (check = "user" => call[c].known # None)
  /\ Pass(c)
  /\ UNCHANGED shared

RefuseCheck(c) ==
  /\ \E check \in DOMAIN Refusals :
       /\ Doing(c, check)
       /\ check \in {"user", "purpose"} => call[c].known = None
       /\ \E err \in Refusals[check] : Refuse(c, err)
  /\ UNCHANGED shared

(* The remembered answer about a username, before the database.            *)
Recall(c) ==
  /\ Doing(c, "recall")
  /\ \/ /\ remembered # None /\ ~call[c].late
        /\ Reply(c, Success(200, remembered, None, LanguageOf(c)),
                 IF call[c].keys = <<>> THEN <<>> ELSE <<"store">>)
     \/ Pass(c)
  /\ UNCHANGED shared

-----------------------------------------------------------------------------
(* The service. *)

Touches(m, r) == Routes[m].writes \cap Routes[r].reads # {}

ReadData(c) ==
  LET r == call[c].route
      shown == {m \in written : Touches(m, r)}
  IN /\ Doing(c, "serve") /\ Routes[r].get /\ ~call[c].late
     /\ Reply(c, Success(200, shown, call[c].known, LanguageOf(c)),
              (IF r = "check" THEN <<"remember">> ELSE <<>>)
              \o (IF call[c].keys = <<>> THEN <<>> ELSE <<"store">>))
     /\ UNCHANGED shared

Commit(c) ==
  LET r == call[c].route IN
  /\ Doing(c, "serve") /\ ~Routes[r].get /\ ~call[c].late
  /\ written' = written \cup {r}
  /\ Reply(c, Success(Routes[r].status, {}, call[c].known, LanguageOf(c)), After(r))
  /\ UNCHANGED <<version, entry, remembered, acknowledged>>

Fail(c) ==
  /\ Doing(c, "serve")
  /\ \E err \in Routes[call[c].route].errors \cup {CallFailed(c)} : Refuse(c, err)
  /\ UNCHANGED shared

(* The answer to COMMIT is lost, or what the service reads after it is.    *)
FailAfterCommit(c) ==
  /\ Doing(c, "serve") /\ ~Routes[call[c].route].get
  /\ written' = written \cup {call[c].route}
  /\ Refuse(c, CallFailed(c))
  /\ UNCHANGED <<version, entry, remembered, acknowledged>>

-----------------------------------------------------------------------------
(* After the handler; every one of these calls may fail, and fails when    *)
(* the deadline has passed.                                                *)

Remember(c) ==
  /\ Doing(c, "remember") /\ Pass(c)
  /\ \/ remembered' = call[c].answer.shown /\ ~call[c].late
     \/ UNCHANGED remembered
  /\ UNCHANGED <<written, version, entry, acknowledged>>

Forget(c) ==
  /\ Doing(c, "forget") /\ Pass(c)
  /\ \/ remembered' = None /\ ~call[c].late
     \/ UNCHANGED remembered
  /\ UNCHANGED <<written, version, entry, acknowledged>>

Store(c) ==
  LET keys == ToSet(call[c].keys) IN
  /\ Doing(c, "store") /\ Pass(c)
  /\ \/ /\ ~call[c].late
        /\ entry' = [key \in keys \cup DOMAIN entry |->
                       IF key \in keys THEN call[c].answer ELSE entry[key]]
     \/ UNCHANGED entry
  /\ UNCHANGED <<written, version, remembered, acknowledged>>

Invalidate(c) ==
  /\ Doing(c, "invalidate") /\ ~call[c].late
  /\ Pass(c)
  /\ version' = version + 1
  /\ UNCHANGED <<written, entry, remembered, acknowledged>>

InvalidateFails(c) ==
  /\ Doing(c, "invalidate")
  /\ Become(c, [call[c] EXCEPT !.missed = TRUE, !.left = Tail(@)])
  /\ UNCHANGED shared

(* A request that ended after its deadline is a timeout, unless it is      *)
(* refused already.                                                        *)
Send(c) ==
  LET late == call[c].late /\ call[c].answer.status < 400 IN
  /\ Doing(c, "end")
  /\ Become(c, [call[c] EXCEPT !.left = <<>>,
                               !.answer = IF late THEN Failure({"Timeout"}, LanguageOf(c)) ELSE @])
  /\ acknowledged' = IF late \/ call[c].missed \/ call[c].answer.status >= 400 THEN acknowledged
                     ELSE acknowledged \cup {call[c].route}
  /\ UNCHANGED <<written, version, entry, remembered>>

Answered(c) == call[c] # None /\ call[c].left = <<>>

Leave(c) == Answered(c) /\ Become(c, None) /\ UNCHANGED shared

DeadlinePasses(c) ==
  /\ call[c] # None /\ ~Answered(c)
  /\ Become(c, [call[c] EXCEPT !.late = TRUE])
  /\ UNCHANGED shared

EntryExpires ==
  /\ \E key \in DOMAIN entry : entry' = [other \in DOMAIN entry \ {key} |-> entry[other]]
  /\ UNCHANGED <<written, version, remembered, acknowledged, call>>

MemoryExpires ==
  /\ remembered' = None /\ remembered # None
  /\ UNCHANGED <<written, version, entry, acknowledged, call>>

Progress(c) ==
  \/ PassCache(c) \/ ReadKey(c) \/ Load(c) \/ CheckToken(c) \/ PassOptional(c)
  \/ Check(c) \/ RefuseCheck(c) \/ Recall(c) \/ ReadData(c) \/ Commit(c) \/ Fail(c)
  \/ Remember(c) \/ Forget(c) \/ Store(c) \/ Invalidate(c) \/ Send(c) \/ Leave(c)

Faults(c) ==
  \/ KeyUnreadable(c) \/ LoadFails(c) \/ SessionUnreadable(c) \/ FailAfterCommit(c)
  \/ InvalidateFails(c) \/ DeadlinePasses(c)

(* The clients send what is in asks.                                       *)
HttpStep(asks) ==
  \/ \E c \in Clients : Progress(c) \/ Faults(c) \/ \E asked \in asks : Arrive(c, asked)
  \/ EntryExpires \/ MemoryExpires

ServerStep(asks) ==
  \/ Next /\ UNCHANGED httpVars
  \/ HttpStep(asks) /\ UNCHANGED vars

ServerSpec == Init /\ HttpInit /\ [][ServerStep(Asked)]_<<vars, httpVars>>

-----------------------------------------------------------------------------
(* Properties. *)

Succeeded(c) == Answered(c) /\ call[c].answer.status < 400

(* A GET shows every command that was answered with success before it      *)
(* began, whatever was cached for it: each command that writes what a GET  *)
(* reads is registered with Invalidate.  CheckUsername has a memory of its *)
(* own (see the README), and a command whose Incr failed does not count.   *)
AnswersAreFresh ==
  \A c \in Clients : Succeeded(c) /\ Routes[call[c].route].get /\ call[c].route # "check" =>
    \A m \in call[c].since : Touches(m, call[c].route) => m \in call[c].answer.shown

(* What a language header asks for: the app's language if it is supported, *)
(* or else the first of the supported ones with the highest priority.      *)
Asks(header, language) ==
  LET wanted == {i \in DOMAIN header.accept :
                   header.accept[i].lang \in Languages /\ header.accept[i].q > 0}
  IN IF header.app \in Languages THEN language = header.app
     ELSE IF wanted = {} THEN language = "en"
     ELSE \E i \in wanted :
            /\ language = header.accept[i].lang
            /\ \A j \in wanted : \/ header.accept[i].q > header.accept[j].q
                                 \/ header.accept[i].q = header.accept[j].q /\ i <= j

(* Cached or not, an answer is in the language asked for; what a private   *)
(* route answers with success is of the user who asks, and that user's     *)
(* session had not ended when the request began.                           *)
AnswersAreForTheCaller ==
  \A c \in Clients : Answered(c) =>
    /\ Asks(call[c].header, call[c].answer.language)
    /\ Succeeded(c) /\ call[c].route \in DOMAIN Private =>
         /\ call[c].answer.of = call[c].bearer /\ call[c].bearer \in {Account, Other}
         /\ call[c].bearer = Account => call[c].live

(* The table of ERRORS.md: slug, code, status. *)
Documented == {
  <<"invalid_data", 1400, 400>>, <<"invalid_id", 1400, 400>>,
  <<"invalid_or_expired_otp", 1400, 400>>, <<"unauthorized", 1401, 401>>,
  <<"invalid_credentials", 1401, 401>>, <<"session_revoked", 1401, 401>>,
  <<"invalid_or_expired_reset_token", 1401, 401>>, <<"forbidden", 1403, 403>>,
  <<"not_found", 1404, 404>>, <<"conflict", 1409, 409>>,
  <<"email_or_username_exists", 1409, 409>>, <<"rate_limit_exceeded", 1429, 429>>,
  <<"email_delivery_unavailable", 1503, 503>>, <<"timeout", 1504, 504>>,
  <<"internal_error", 1500, 500>>}

(* Whatever mixture of causes an error holds, status, code and slug, which *)
(* three switches choose apart, agree as ERRORS.md says, and a server      *)
(* error does not show its cause.  A body of a type the framework does not *)
(* read is left out (see the README).                                      *)
ErrorsAgree ==
  \A c \in Clients : Answered(c) /\ ~Succeeded(c) /\ "http422" \notin call[c].answer.reason =>
    LET answer == call[c].answer
        row == <<answer.slug, answer.code, answer.status>>
    IN /\ answer.code = 1000 + answer.status
       /\ (\E known \in Documented : known[1] = answer.slug) => row \in Documented
       /\ answer.status >= 500 => answer.reason = {answer.slug}
=============================================================================
