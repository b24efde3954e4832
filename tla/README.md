# brothers-app: TLA+ specifications, model checks and proofs

The back end of brothers-app (Go, Fiber, pgx on PostgreSQL, Redis) keeps the
orders of small groups of money carriers: two employees confirm an amount, the
completed order moves their balances and their monthly profits, and both must
agree again to cancel it. Around it are groups and their members, private
debts, accounts with sessions and one-time codes, and a cache of responses.
This directory models that system, checks the models with TLC on small
instances, and proves the properties that matter most with TLAPS.

- [The system](#the-system): its parts, their state, how they interact
- [Modules](#modules): which module models what, and how
- [Runs](#runs), [Bounds](#bounds), [Fairness and deadlock](#fairness-and-deadlock)
- [Proofs](#proofs)
- [Where code and documents disagree](#where-code-and-documents-disagree)
- [What is not modelled](#what-is-not-modelled), [Plan](#plan)

## The system

| part | state it keeps | operations | what makes it correct |
|---|---|---|---|
| orders (`src/internal/order`) | `orders`, `order_confirmations`, `order_cancellations`, `order_events`; writes `employee_balances`, `member_profit_periods`, notifications | Create, Edit, Confirm, RequestCancellation, RespondCancellation; Get, List, ListEvents | an order completes once, by two agreeing confirmations of its present terms; it is reversed once, by what was posted; whoever it waits for can act |
| groups (`src/internal/group`) | `groups`, `group_members`, `group_invitations`, `locations`, `balance_adjustments` | Create, Delete, Invite, RespondInvitation, EditMember, RemoveMember, AdjustBalance, locations | who leaves is settled; members accepted an invitation; locations are held by employees; a deletion leaves nothing |
| debts (`src/internal/debt`) | `debts`, `debt_repayments` | Create, Repay, Complete, Delete; List, Summary | repayments add up, a debt is never repaid beyond what is owed |
| accounts (`src/internal/auth/service`) | users; the remembered answer about a username | SendOTP, Register, Login, Refresh, Logout, VerifyPasswordOTP, ResetPassword, ChangePassword, ChangeEmail, UpdateCurrentUser, CheckUsername | names and addresses are unique, an address is proven by a code, a reset ends the session |
| one-time codes (`src/internal/auth/otp`) | code, subject, attempts and cooldown of an address and purpose, in Redis | Set, Verify, Take, Reserve, Delete; Increment | a code is accepted once, by few guesses, for the account it was made for |
| sessions (`src/internal/auth/session`) | one session per account and one refresh key in Redis | Create, Validate, Rotate, Revoke, RevokeUser | a refresh token is exchanged once, an ended session stays ended |
| response cache (`src/pkg/cache`) | a version and entries in Redis; a singleflight group per process | Cache, Invalidate | nobody is shown data from before an invalidation, nobody waits for ever |
| routes, middleware, errors, languages (`src/pkg/routes`, `middleware`, `apperror`, `responses`, `localization`) | the request being served | the chain of every route; StatusCode, Code, Slug; the language of an answer | an answer is fresh, for the caller, in the caller's language, and its error is one of the documented ones |
| notifications (`src/internal/notification`) | `notification_recipients` | List, MarkRead | - |
| error reporter (`src/pkg/telegramlog`) | a bounded queue in memory | Report, Close, the worker | reporting never blocks a request; what is accepted is sent in order or given up |
| pool, server (`src/pkg/database`, `src/internal/app`) | connections | Connect, shutdown | stores outlive the requests, the process ends |

**Interaction.** Every request is a goroutine. Its writes are one PostgreSQL
transaction at READ COMMITTED, mostly `Begin`, reads, a `SELECT ... FOR UPDATE`
of the row it is about, writes, `Commit`; a deferred `Rollback` runs on every
early return. Answers are loaded afterwards by another query. Order operations
and member management meet in the rows of members and balances, and read each
other's rows without locks. Mutating routes advance the cache version after
the handler answered; GET routes read through the cache. Redis is used command
by command, or by Lua scripts, which are atomic.

**What is hard.** Statements of concurrent transactions in orders no test
drives; numbers read without a lock and used later; rows locked in different
orders; the same order confirmed, edited, cancelled and reversed in long
sequences while members leave, change roles and come back; values read from
Redis one round trip before they are written back; entries stored late.
`PROJECT.json` lists these hazards one by one, each at its line, with the
properties that watch it or the reason why none does yet.

## Modules

```
 Ledger <--- refines --- Orders <--- every commit is a step of --- Transactions
                          ^   ^                                        ^
                 OrdersAccounting, OrdersProofs                  MCTransactions
                          ^
                       MCOrders
 Groups  <- GroupsProofs, MCGroups
 Debts   <- DebtsProofs, MCDebts          FoldProofs <- OrdersProofs

 Delivery <--- refines --- Shutdown (the process) ---> Reporter
                               ^
                    ShutdownProofs, MCShutdown

 Codes <--- Accounts <- MCAccounts          ResponseCache <- ResponseCacheProofs,
                ^                                            MCResponseCache
          AccountsProofs                   Sessions <--- Requests <- MCRequests
                                                            ^
                                              FoldProofs <- RequestsProofs
```

**Orders** is the order service with the membership operations that read or
write the same rows, one committed transaction per action. `order`,
`confirmation`, `cancellation`, `balance`, `profit`, `adjusted` are the tables;
`role` is the membership's role, "absent" before it exists and "removed" after
its soft deletion. A membership belongs to one user (`UserOf`); a user invited
again gets a new membership, which matters because `Edit` compares users while
orders point to memberships. `completedAt` is the column that is set once: it
tells a cancelled order that was completed before from one that was not.
`Confirm` includes the settlement it may trigger, `Edit` the clearing of both
confirmations, `ApproveCancellation` the reversal. Phones, locations,
the fee shown on the order and comments are one abstract `Details` value,
because nothing depends on them but whether they changed. Events and notifications are written in
the same transaction and never read by a later guard: they are left out.

**Ledger** is what the service promises about money, without a word about who
confirms or cancels: an order posts one entry at most, an entry is reversed at
most once and by its own numbers, nothing else but an adjustment moves a
balance. `Orders` maps an order that was ever completed to its entry.
**OrdersAccounting** states the same in closed form, as sums.

**Transactions** runs the operations of `Orders` statement by statement on
several connections. A connection has the request it serves with what it read
(`work`), the statements left (`todo`), its uncommitted row versions, which
are also its locks (`rows`), and the KEY SHARE locks of its foreign keys
(`shares`). A statement that needs a held row waits; when it runs it sees the
row as committed by then, while what it read before stays as read. That
includes two details of PostgreSQL that matter here: `lockOrder` joins the
order with its parties, so after a wait a changed party makes the join fail
(not found), and `loadMember FOR UPDATE` returns counts of other tables from
the start of the statement. Rollbacks, failed commits and the deadlock
detector (one statement of every cycle fails) are actions.

**Debts** has its own connections: `Repay` and `Complete` lock the debt's row,
decide, commit, and load the debt again to answer.

**ResponseCache** is one cache key next to the mutations. The data is
abstracted to the number of mutations committed when it was read. A GET goes
through the calls of `Cache`: version, load, `group.Do` (the first request
leads, the others wait), load again, handler, `Set`. A mutation commits, then
advances the version, or fails to (`LeaveStale`).

**Sessions** is the session of one account, Redis call by Redis call, with the
requests of `Login`, `Refresh`, `Logout`, `ResetPassword` and
`ChangePassword`. Random tokens and ids never repeat, so a fresh number stands
for them. `ended` and `heirs` are history variables: which sessions ended and
which tokens a token was exchanged for.

**Requests** is a request from its arrival to its answer. `Routes` gives for
each of the 45 routes what its handler checks and in which order, the status
of success, the kinds of errors its service may return, and the tables it reads
or writes; `Chain` is the middleware before it, `After` what follows a commit.
`call` holds the steps that are left. Data is abstracted to the set of commands
an answer shows. The public group's cache also runs for the private routes
(both groups share the prefix), before the user is known: a request with an
`Authorization` header has no identity there and passes, one without is
"public". The caller's session is that of **Sessions**, which runs beside the
HTTP clients, so tokens can be replaced while a request is on its way. The
deadline may pass at any step, each Redis call may fail, a commit may be
answered with an error. An error is the set of kinds and causes `errors.Is`
and `errors.As` find in it: `Normalize`, `StatusCode`, `Code` and `Slug` are
the four switches of `apperror`. Kinds that no code returns are left out of
their tables.

**Codes** is the store of one-time codes, Redis command by Redis command:
`createOTPFlow` (cooldown, code, subject, mail, and the undoing of what was
done) and `consumeOTP`/`Verify` with its counter of attempts. Each command may
fail with or without having been executed, and a request may end anywhere.
**Accounts** adds the table of users and the operations that a code guards:
registration, the change of an address, the verification before a reset; and
the change of a username, which competes for names. Unique indexes are waited
for as PostgreSQL does. `via` and `granted` are history: the code an address
was proven by, and the account a code opened.

**Groups** is the life of one group, statement by statement: rows with
versions, locks, unique indexes, `UPDATE`s of several rows that take them one
by one, and the sweep of `Delete` over the group's tables. It complements
Transactions, which has balances and orders.

**Reporter** is `telegramlog`: `Report` with its read lock, its look at
`closed` and its non-blocking send; the worker with its rate and its one retry;
`Close` with the write lock and its deadline. **Shutdown** puts it into the
process: requests that hold connections and report failures, the signals, the
drain with its timeout, the shutdown hook, the pool and Redis. **Delivery** is
what the reporter promises, without locks and channels; `Shutdown` implements
it (`ChatSpec`).

In every module a definition called "Mutant" in its comment is no part of the
specification: it is the same operation with a plausible mistake, kept to see
that a property notices it.

## Runs

| run | module, cfg | what it shows |
|---|---|---|
| `orders` | MCOrders, MCOrders.cfg | all operations on one order while a user leaves and comes back: `OpenRequestAnswerable`, `PendingPartiesAreEmployees`, `OpenRequestFreezes`, and the refinement of Ledger (`LedgerSpec`) |
| `orders_terms` | MCOrders, MCOrdersTerms.cfg | one order between three employees, two amounts, two fees, two details, two months, adjustments: `CompletedAgreed`, `NoAgreementLeftPending`, `CancelledByBoth`, `ConfirmationsKeepTheirTerms`, `BooksAddUp` |
| `role_money` | MCOrders, MCOrdersRoles.cfg | a violation of `OnlyEmployeesHoldMoney`, see below |
| `transactions` | MCTransactions, MCTransactions.cfg | two requests statement by statement: every commit is a step of Orders (`OrderOperationsAreAtomic`), and `LeaversStaySettled`, `PendingPartiesAreEmployees` hold although the numbers a removal decides on are not locked |
| `tx_ends` | MCTransactions, MCTxEnds.cfg | creations that lock two customers, reversals that lock two balances, in either order: every request ends (`RequestsEnd`) |
| `create_leaves` | MCTransactions, MCTxCreateLeaves.cfg | a violation of `PendingPartiesAreEmployees`, see below |
| `groups` | MCGroups, MCGroups.cfg | two requests meet on invitations, on locations, or on the deletion of the group: `MembershipsAreAccepted`, `HoldersAreEmployees`, `DeletionIsComplete` |
| `debts` | MCDebts, MCDebts.cfg | three connections on one debt: `RepaymentsAddUp`, `ActiveDebtsOwe`, `ClosedDebtsStay`, `AnswersShowTheRequest` |
| `accounts` | MCAccounts, MCAccounts.cfg | two requests with codes, names and addresses: `CodesWorkOnce`, `GuessesAreBounded`, `SubjectsMatch`, `IdentitiesAreUnique`, `AddressesAreProven`, `ResetsMatch` |
| `requests` | MCRequests, MCRequests.cfg | the session of an account under three requests: `OneRefreshKey`, `RotatedOnce`, `EndedForGood`, `ResetEndsSession`; every route with its cache, its checks and its errors: `AnswersAreFresh`, `AnswersAreForTheCaller`, `ErrorsAgree` |
| `response_cache` | MCResponseCache, MCResponseCache.cfg | `FreshAnswers`, `ReadsEnd` |
| `shutdown` | MCShutdown, MCShutdown.cfg | three requests, the reporter and one or two signals: `NothingIsSentOnAClosedQueue`, `DrainSendsAll`, `StoresOutliveRequests`, `ProcessEnds`, and the refinement of Delivery (`ChatSpec`) |

**Why `OrderOperationsAreAtomic` matters.** The properties of Orders are stated
and proved one transaction at a time. For operations on orders and for
adjustments the run `transactions` justifies that: whatever the statements of
concurrent requests do in between, what commits is one step of Orders. Between
an order operation and a membership operation it is not true of every pair,
which is why that run also checks the properties themselves, and why
`create_leaves` exists.

**What `AnswersAreFresh` adds to `FreshAnswers`.** ResponseCache shows that an
entry stored late cannot hide a mutation that advanced the version. Whether
every mutation does is a matter of how two dozen routes are registered:
Requests compares, for each GET, the tables it reads with those the committed
commands wrote. Each command that writes what some cached GET reads has to
invalidate.

### Bounds

- `orders`: three users with four memberships (one user can leave and return),
  one order, amounts {1, 2} so that parties can disagree, `MaxMonth` = 2 so
  that a reversal can fall into a later month. Every party-dependent guard
  talks of at most two parties and an actor; balances of two orders only add
  up (that is what the proofs cover for any number of orders).
- `orders_terms`: fees {0, 1} because a zero fee writes no profit row; one
  adjustment value that is no order's amount.
- `transactions`: two connections, three members, two orders. Requests meet
  orders seeded at each stage (`SeededInit`), each stage being reachable in
  Orders, so that TLC does not have to replay the history first. `Chosen` takes
  the pairs worth running: with one order all that changes it or the money of
  its parties (`OrderOps`); with two orders, each about to complete or with an
  open request, what finishes them and what removes a member or changes a role
  (`MemberOps`).
- `tx_ends`, `create_leaves`: two connections; a deadlock needs two.
- `groups`: two connections, one user who is invited, joins, is removed and
  invited again (two membership rows), two invitations, two locations, and the
  scenes `answers`, `locations`, `deletion`. A request that inserts begins while
  there is a spare row for it and for those that began before (`Spare`).
- `debts`: debts of 1 and 3, payments below, at and above what remains, zero
  and negative ones; three connections so that a repayment can overtake both a
  commit and the answer loaded after it.
- `accounts`: two requests, two codes, two attempts, and four scenes: `codes`
  (sending and presenting one address's code, any Redis command failing),
  `names` (registrations and renames), `addresses` (a registration and a change
  to the same address), `resets` (a reset code for an address that has another
  owner since, the one start that is not empty). Two requests suffice for a
  check that is stale when used; a second code is what replaces the first.
- `requests`, in five scenes. `sessions`: three requests, four tokens, one
  reset token, two passwords - the shortest history that could bring a session
  back takes a login, a refresh loaded before, and one request that ends the
  session. `routes`: two clients, every GET next to a command it must show and
  every command next to such a GET. `errors`: one client on each route with
  every bearer and every error. `faults`: a GET and a command with Redis
  failing and deadlines passing anywhere. `keys`: one client after the other,
  two sessions in turn, all bearers, two languages, at most two entries. Each
  command commits at most once; entries expire in `keys` only, since an entry
  that is gone can show nothing old.
- `response_cache`: two readers, two processes (so coalesced in one, or apart
  in two) and two mutations, so the order of commits and of version
  increments can differ. The version counts successful increments, at most one
  per mutation.
- `shutdown`: three requests and a queue of one, so that it is full, empty and
  being drained with a report in the worker's hands and another refused.

### Fairness and deadlock

`tx_ends` assumes strong fairness of the next statement of every connection
and weak fairness of the deadlock detector. PostgreSQL queues lock waiters
first come, first served, so a statement whose row becomes free again and again
is granted it; every request has a goroutine that does not stop by itself,
and `deadlock_timeout` makes the detector run on any waiting backend. New
requests are not fair: clients may stop sending. `response_cache` assumes weak
fairness of every reader: its goroutine goes on, and every Redis command and
query returns (with a result or an error) within the request timeout.
`shutdown` assumes it of main after a signal, of the worker, of `Close`, of a
failing handler's report, and of a handler that gives its connection back (its
query ends with its deadline). No client has to come, no handler has to answer
and nobody has to signal: `ProcessEnds` is about a process that was signalled.
`groups`, `accounts`, `debts` and `requests` check safety and assume nothing.

Deadlock checking is off where the system may rightly stop, because it is
bounded: all orders used up (`orders`, `orders_terms`, `role_money`), all
versions, codes, rows or tokens used up (`response_cache`, `accounts`,
`groups`, `requests`); in `shutdown`, because the process ends; and in
Transactions because a request that nobody answers any more is not a stop of
the server; there `RequestsEnd` says what deadlock checking could not. `debts`
checks it.

## Proofs

TLAPS proves, for any sets of members, orders, amounts, connections, tokens:

| module | theorems |
|---|---|
| OrdersProofs | `TypeCorrect`, `InvHolds`, `CompletedOrdersAreAgreed`, `AgreementsComplete`, `RequestsStayAnswerable`, `RemovedStaySettled`, `PendingPartiesStayEmployees`, `CancellationNeedsBoth`, `ConfirmationsKeepTerms`, `OpenRequestsFreeze`, `OrdersImplementLedger`, `MoneyIsAccountedFor` |
| DebtsProofs | `InvHolds`, `RepaymentsNeverExceed`, `ActiveDebtsOweSomething`, `AnswersAreFresh`, `ClosedDebtsNeverChange` |
| ResponseCacheProofs | `InvHolds`, `AnswersAreFresh` |
| RequestsProofs | `InvHolds`, `OneKeyPerSession`, `TokensRotateOnce`, `EndedStayEnded`, `ResetsEndTheSession` (of the sessions alone); `ServerInvHolds`, `AnswersStayFresh`, `AnswersReachTheCaller`, `ErrorTableHolds` |
| GroupsProofs | `GroupsStayInOrder`, `EveryMemberAccepted`, `EveryHolderIsAnEmployee`, `NothingOutlivesItsGroup` |
| AccountsProofs | `CodesInvHolds`, `CodesAreUsedOnce`, `AttemptsAreBounded`, `SendersExclude`, `AccountsMatchCodes` (of the code store alone); `AccountsInvHolds`, `AccountsAreUnique`, `UsesCodes`, `AccountCodesAreUsedOnce`, `AccountAttemptsAreBounded`, `AccountCodesMatch`, `AccountAddressesAreProven`, `AccountResetsMatch` |
| ShutdownProofs | `ReporterSafe`, `ReporterKeepsPromise`, `ProcessInvariant`, `ProcessOutlivesRequests`, `ProcessReports`, `ClosedQueueStaysSilent`, `ProcessKeepsPromise` |

The assumptions are the `ASSUME`s next to the constants: amounts are positive
integers (the column checks), `None` is nothing else, the tables are finite
(`OrdersAreFinite`, `RowsAreFinite`; `FiniteSet`-sums and "the one membership of
this invitation" mean nothing without it), and in Groups the members' users, the
scenes and the inputs are of the kinds the requests take (`GroupsAssumption`).
In Requests the two users are two, neither of them nobody or "public", the
identity of whoever has not logged in (`CallersAssumption`), and a header has a
sequence of languages with their priorities (`HeadersAssumption`).

**FoldProofs** has what the others need about finite data: an induction over
the parts of a finite set, stated for a set of parts instead of a predicate
because the provers cannot instantiate a predicate (`PartsInduction`), and with
it that the fold of the community modules is the fold of any order
(`FoldExists`, `FoldsAgree`) and how a sum changes with one of its terms.

**Orders.** None of the properties is inductive alone. `Inv` adds to the types:
`OrderOK` (one order by itself: a completed or once completed order keeps
exactly the confirmations of its two parties for one amount; a pending one
never has two agreeing ones; a request belongs to a party), `PartiesStay` (the
parties of an unfinished order are employees, those of an open request are
members) and `LeaversHoldNothing`. The critical steps: completion may choose
either confirmation as the first, which is harmless because the other one
agrees; a removal is refused while the member is a party of an unfinished order,
and a completion or a reversal touches the balances of parties of such an order
only. The refinement maps every action to a posting, a reversal, an adjustment,
a month, or a stutter. `MoneyIsAccountedFor` is about sums over all orders: a step
changes one order's contribution and moves the balances by just that
difference, so what is left to show is that a sum changes by the difference of
one term (FoldProofs).

**Debts.** What a request read under the row lock is still true when it
commits, since nobody else holds the row.

**ResponseCache.** What is stored, or will be, under a version (`NewEnough`)
is at least as new as what was invalidated when the version was current, and
as what preceded any reader who still uses that version. A late `Set` goes
under the version read first, so it can only be found by readers whose version
was read before the next increment.

**Sessions.** Numbers up to `issued` are used up, so a new session id never
ended and a new token has no heir. A refresh remembers the session it loaded;
if the script finds the hash unchanged, the session is still that one
(`RequestsRemember`): hashes identify sessions because they are never reused.
Any step moves the store `Onward`, which is what all requests in flight need.

**Requests.** The theorems are about `ServerSpec`, in which any client may ask
any route with any bearer and header; TLC's scenes are parts of it. `ServerInv`
is the sessions' `Inv` with `HttpInv`, whose parts are these.

- *Freshness.* `Settled` are the commands that were acknowledged or have
  advanced the version and only have to be answered. An entry under version v
  shows enough (`Good`) if, while v is current, it shows all settled commands,
  and if it shows to every request that holds a key of v what was acknowledged
  before that request arrived. The first part alone is not inductive: after an
  increment the old entry remains, and a request that read the version before
  it may still find it, or store what it loaded; the second says why that is no
  harm. Keys are read before the data, so what a request loads shows at least
  what was settled under its keys. An increment makes a version that no
  entry has and nobody holds. That every route which writes a table is
  registered with `Invalidate` is a lemma of its own (`WritersInvalidate`).
- *Whose an answer is.* The keys of a request carry its own identity and
  language (`Fixed`, `Known`), those of an entry the user and language of the
  answer in it. The steps left of a request end with its service, once
  (`Open`), and as long as the user of a private route is unknown the check of
  the token is among them: at the service the user is known, and its session
  was found, hence had not ended when the request arrived. The sessions' own
  `Inv` is needed here: a session that is stored never ended.
- *The language* is a fold over the positions of the header's sequence. That it
  finds the best of them is an induction over these positions, which FoldProofs
  provides.
- *Errors.* A failed request was answered with one of 33 mixtures of kinds and
  causes (`Errors`), whatever the route. The first row that fits is worked out
  row by row for an arbitrary mixture, once for each of the four tables; then
  the 33 are compared with ERRORS.md.

To make this provable the tables of `Normalize`, `StatusCode`, `Code` and
`Slug` have names of their own; nothing they say was changed.

**Codes.** Everything turns on who holds the cooldown of an address and
purpose: while a request sends (`SendersOK`) no other one does
(`OneSenderAtATime`), so the code and the subject stored beside it are of the
same request once the code is mailed (`MailingOK`, `BoundOK`). Codes are counted
up, so a new one was never tried or accepted (`UnmadeOK`). This is where
"a request is over before a cooldown it set expires" is needed.

**Accounts.** A step of the account service is a step of `Codes` or leaves the
codes alone (`UsesCodes`), so the theorems of Codes carry over. Uniqueness needs
only that a writer holds its row until it commits and that a registration's
account is its own (`FreshUsers`). `AddressesAreProven` additionally needs what a
change of address remembers between reading the subject and presenting the
code.

`AccountResetsMatch` is about two keys read at different times. The account
stored under a key is that of one of the key's codes (`SubjectsOK`), never of an
older one than any that was mailed (`NewestOK`), since who sends holds the
newest code of the key (`LatestOK`); a code that was accepted was mailed, so the
account read after it was consumed is its own or that of a later code.

**Groups.** `Inv` says of every request, stage by stage, what it has read and
written so far, which of it is still true, and which rows it therefore holds;
and of the rows, that memberships of one user are apart, that an accepted
invitation and its membership name each other, and that a holder is an employee.
A request that has written is the only one that can change these rows until it
commits, so its uncommitted versions fit the committed rest. The critical steps
are the commits: an answer and the invitations it competes with hold the
invitation's row; an assignment and a removal meet on the membership's row; and
who inserts a member, an invitation or a location under a group shares a lock on
the group's row, so the deletion either waits for the insertion and sweeps the
row, or the insertion waits and finds the group gone (`NothingOutlivesItsGroup`).

**Shutdown.** `ReporterInv` says who holds the lock and what is in the queue;
`closed` is set and the channel closed under the write lock, and a report sends
under the read lock, so no send meets a closed channel. The refinement maps
queue and worker to the pending reports: a send is an acceptance, a delivery or
a failed retry settles the first one, and the loss of the queue at the deadline
gives up all. A second signal kills the process, which gives up all as well
(`ProcessKeepsPromise`). The proofs cover the safety part of `Delivery`.

Only model-checked: `OrderOperationsAreAtomic` and the other properties of
Transactions, and all that needs fairness, which this prover does not treat:
`RequestsEnd`, `ReadsEnd`, `ProcessEnds`, and that every report is settled in
the end (the liveness part of `ChatSpec`).

## Where code and documents disagree

- `role_money`: docs/superpowers/specs/2026-09-30-member-management-design.md
  says that a member who leaves the employee role keeps a balance row at 0.
  Cancelling an order completed before that reverses its amount on the row of
  a member who is a manager or an investor now (`order/effects.go:101`), and
  `AdjustBalance` refuses to correct it, since it takes employees only.
- `create_leaves`: the same document requires no active orders of a member who
  is removed or leaves the role. Creation reads the parties without a lock
  (`order/access.go:60`), and so does the removal count the orders: both
  commit, and a pending order waits for somebody who cannot confirm it.

Others need no run of their own; they were met while modelling:

- The same document promises that no cancellation request is left which nobody
  can answer. `requireActiveParties` (`order/cancel.go:250`) counts memberships
  without a lock beside a removal that counted requests. To see it, let
  `MemberOps` in MCTransactions be `{"request", "remove"}`, start without
  `ChosenInit`'s last conjunct, and check `OpenRequestAnswerable`.
- Add `"adjust"` to `MemberOps` and `LeaversStaySettled` is violated, because
  `AdjustBalance` locks the balance row but not the membership. No document
  promises otherwise.
- ERRORS.md:39 says that `code` is 1000 plus the HTTP status. A body in a type
  that Fiber does not parse is wrapped by `InvalidBody` as invalid data *and*
  carries Fiber's 422: the status is 422, the code 1400, the slug
  `invalid_data`. `ErrorsAgree` leaves that one error out.
- `apperror.go:94-95` calls a violated foreign key and a violated check "409";
  `StatusCode` gives 400, and their slugs are not among those of ERRORS.md.
- `username.go:105` says that a taken name is reported as taken immediately. A
  check that read "free" before the registration committed may store that
  answer after the registration forgot it, for 30 seconds. Nothing depends on
  the answer: `IdentitiesAreUnique` holds whatever it was.

## Known limits of what the properties say

- `FreshAnswers` and `AnswersAreFresh` speak of mutations that advanced the
  version. Between a commit and its increment, or when the increment or the
  handler fails after the commit, older data is shown until the entry expires
  (30 s by default); two GETs in that window may even see newer data first. Both
  assume that Redis does not lose the version key, which would give version
  numbers out again. `AnswersAreFresh` leaves out the username check, which
  has a memory of its own.
- A command that committed is answered 504 when its deadline passes before the
  end, and with 500 when a query after the commit fails. ERRORS.md advises to
  retry; there are no idempotency keys. A repayment whose debt is deleted
  before the answer is loaded is answered 404.
- `ResetEndsSession` speaks of the session there was when the password
  changed. A login that checked the old password before may still create its
  session afterwards.
- A refresh whose last step fails has used up its token.
- `DeletionIsComplete` is about the step that deletes the group. An invitation
  whose insertion waits then is inserted afterwards, and can be accepted, since
  `respond` never looks at the group's `deleted_at`
  (.design/groups/TASKS.md:133 asks to revoke invitations and access).
- `HoldersAreEmployees` leaves out locations that were given at their creation:
  `CreateLocation` locks neither the employee nor the manager.
- In Transactions and Groups, statements that can only wait at the first are one
  step; reads without a lock that follow it are part of that step.
- A rate limit may refuse any request in Requests; what it counts is left out.

## What is not modelled

The number of connections in the pool: an edit that changes nothing asks for a
second connection while it holds one (`order/edit.go:15`), which only the
request timeout resolves. The texts of events, notifications and messages, and
what is redacted of a report: wording without state. Names, avatars and the
numbers of a page. The mail client and the configuration: input and output.
Generated code (`src/docs/v1/docs.go` alone is 4872 lines, `src/internal/db`)
and the test database. Parsing of tokens and hashing of passwords have no
state: a token is valid when its session is. `PROJECT.json` gives the reason
for each part.

## Plan

Done: Orders, Ledger and their proofs; Transactions; Debts; ResponseCache;
Sessions; Reporter and Shutdown; Codes and Accounts; Groups; Requests.

What could still be added, in this order:

1. `OrderOperationsAreAtomic` as a theorem.
2. ConnPool: requests that hold a connection and ask for another.
3. The event log of an order as a function of its operations, and the timeline
   shown from it.
