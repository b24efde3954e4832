------------------------------ MODULE Reporter ------------------------------
(***************************************************************************)
(* Package telegramlog: request handlers report server-side failures into  *)
(* a bounded queue, one worker sends them to a Telegram chat, and Close    *)
(* drains the queue until its deadline.                                    *)
(*                                                                         *)
(* Report takes the read lock, looks at closed, tries to send on the       *)
(* channel and unlocks; Close takes the write lock, sets closed and closes *)
(* the channel.  A channel operation or a lock operation is one step.      *)
(* Elapsed time is a choice: a timer that is set may fire at any moment.   *)
(***************************************************************************)
EXTENDS Naturals, Sequences

CONSTANTS
  Reports,   \* the failures to report, each by the handler of its request
  Capacity,  \* size of the queue (64)
  None

ASSUME CapacityAssumption == Capacity \in Nat \ {0}
ASSUME NoneAssumption == None \notin Reports

VARIABLES
  call,       \* [Reports -> where the call of Report is]
  close,      \* where the call of Close is
  closed,     \* the queue was closed to new reports
  cancelled,  \* the worker's context was cancelled
  queue,      \* the buffered channel
  worker,     \* where the worker is
  current,    \* the report it has taken off the queue
  resting,    \* the interval after the last report is not over
  received,   \* what the chat shows
  accepted,   \* HISTORY: reports that were queued
  tried,      \* HISTORY: reports that were sent at least once
  refused     \* HISTORY: reports turned away because the queue was closed

callVars == <<call, refused>>
closeVars == <<close, closed, cancelled>>
workerVars == <<worker, current, resting, received, tried>>
reporterVars == <<call, close, closed, cancelled, queue, worker, current, resting,
                  received, accepted, tried, refused>>

CallStates == {"idle", "called", "locked", "sending", "returned"}
CloseStates == {"idle", "locking", "waiting", "late", "returned", "failed"}
WorkerStates == {"selecting", "taken", "pausing", "sending", "backoff", "resending", "done"}

ReporterInit ==
  /\ call = [r \in Reports |-> "idle"]
  /\ close = "idle" /\ closed = FALSE /\ cancelled = FALSE
  /\ queue = <<>>
  /\ worker = "selecting" /\ current = None /\ resting = FALSE
  /\ received = <<>> /\ accepted = {} /\ tried = {} /\ refused = {}

-----------------------------------------------------------------------------
(* Report, called by the handler whose request failed. *)

(* Mutant: Report does not take the lock. *)
NoReaders == {}

Readers == {r \in Reports : call[r] \in {"locked", "sending"}}

Goes(r, state) == call' = [call EXCEPT ![r] = state]

CallReport(r) ==
  /\ call[r] = "idle"
  /\ Goes(r, "called")
  /\ UNCHANGED <<close, closed, cancelled, queue, worker, current, resting,
                 received, accepted, tried, refused>>

(* A writer that waits keeps new readers out.                              *)
LockToReport(r) ==
  /\ call[r] = "called"
  /\ close # "locking"
  /\ Goes(r, "locked")
  /\ UNCHANGED <<queue, accepted, refused>> /\ UNCHANGED closeVars /\ UNCHANGED workerVars

CheckClosed(r) ==
  /\ call[r] = "locked"
  /\ IF closed THEN Goes(r, "returned") /\ refused' = refused \cup {r}
               ELSE Goes(r, "sending") /\ UNCHANGED refused
  /\ UNCHANGED <<queue, accepted>> /\ UNCHANGED closeVars /\ UNCHANGED workerVars

(* The queue takes it or, when it is full, it is dropped: nothing waits.   *)
QueueReport(r) ==
  /\ call[r] = "sending"
  /\ IF Len(queue) < Capacity
     THEN queue' = Append(queue, r) /\ accepted' = accepted \cup {r}
     ELSE UNCHANGED <<queue, accepted>>
  /\ Goes(r, "returned")
  /\ UNCHANGED refused /\ UNCHANGED closeVars /\ UNCHANGED workerVars

Reporting(r) == LockToReport(r) \/ CheckClosed(r) \/ QueueReport(r)

-----------------------------------------------------------------------------
(* Close, called once by the shutdown hook. *)

CallClose ==
  /\ close = "idle"
  /\ close' = "locking"
  /\ UNCHANGED <<closed, cancelled, queue, accepted>>
  /\ UNCHANGED callVars /\ UNCHANGED workerVars

(* Granted when no reader is left. *)
CloseQueue ==
  /\ close = "locking"
  /\ Readers = {}
  /\ close' = "waiting" /\ closed' = TRUE
  /\ UNCHANGED <<cancelled, queue, accepted>> /\ UNCHANGED callVars /\ UNCHANGED workerVars

Drained ==
  /\ close \in {"waiting", "late"}
  /\ worker = "done"
  /\ close' = IF close = "waiting" THEN "returned" ELSE "failed"
  /\ cancelled' = TRUE
  /\ UNCHANGED <<closed, queue, accepted>> /\ UNCHANGED callVars /\ UNCHANGED workerVars

CloseDeadline ==
  /\ close = "waiting"
  /\ close' = "late" /\ cancelled' = TRUE
  /\ UNCHANGED <<closed, queue, accepted>> /\ UNCHANGED callVars /\ UNCHANGED workerVars

Closing == CloseQueue \/ Drained

-----------------------------------------------------------------------------
(* The worker. *)

Aside == UNCHANGED <<accepted>> /\ UNCHANGED callVars /\ UNCHANGED closeVars

(* Mutant: a break leaves the select, not the loop. *)
WorkerBreaks ==
  /\ worker' = "selecting"
  /\ UNCHANGED <<queue, current, resting, received, tried>> /\ Aside

WorkerStops ==
  /\ worker' = "done"
  /\ UNCHANGED <<queue, current, resting, received, tried>> /\ Aside

(* Mutant: a closed queue ends the worker whatever it still holds. *)
TakeReportWhileOpen ==
  /\ worker = "selecting"
  /\ \/ /\ ~closed /\ queue # <<>>
        /\ current' = Head(queue) /\ queue' = Tail(queue)
        /\ worker' = "taken"
        /\ UNCHANGED <<resting, received, tried>> /\ Aside
     \/ (closed \/ cancelled) /\ WorkerStops

(* A select with both cases ready takes either.                            *)
TakeReport ==
  /\ worker = "selecting"
  /\ \/ /\ queue # <<>>
        /\ current' = Head(queue) /\ queue' = Tail(queue)
        /\ worker' = "taken"
        /\ UNCHANGED <<resting, received, tried>> /\ Aside
     \/ /\ cancelled \/ (queue = <<>> /\ closed)
        /\ WorkerStops

(* wait for the interval since the report before.                          *)
StartPause ==
  /\ worker = "taken"
  /\ \/ /\ resting \/ ~cancelled
        /\ worker' = IF resting THEN "pausing" ELSE "sending"
        /\ UNCHANGED <<queue, current, resting, received, tried>> /\ Aside
     \/ ~resting /\ cancelled /\ WorkerStops

EndPause ==
  /\ worker = "pausing"
  /\ \/ /\ worker' = "sending" /\ resting' = FALSE
        /\ UNCHANGED <<queue, current, received, tried>> /\ Aside
     \/ cancelled /\ WorkerStops

(* The report is settled: the next one waits for the interval.             *)
Rest ==
  /\ worker' = "selecting" /\ current' = None /\ resting' = TRUE
  /\ UNCHANGED queue /\ Aside

Sent == tried' = tried \cup {current}

Succeeds == Sent /\ received' = Append(received, current) /\ Rest

(* Refused, or the answer is lost: the chat may show the report or not.    *)
Fails == Sent /\ received' \in {received, Append(received, current)} /\ Rest

(* Mutant: every failure is retried. *)
SendRetries ==
  /\ worker = "sending"
  /\ \/ Succeeds
     \/ /\ Sent /\ received' \in {received, Append(received, current)}
        /\ worker' = "backoff"
        /\ UNCHANGED <<queue, current, resting>> /\ Aside

(* The first attempt; Telegram may ask to come back later, and then it has *)
(* not taken the report.                                                   *)
Send ==
  /\ worker = "sending"
  /\ \/ Succeeds
     \/ Fails
     \/ /\ Sent /\ worker' = "backoff"
        /\ UNCHANGED <<queue, current, resting, received>> /\ Aside

Backoff ==
  /\ worker = "backoff"
  /\ \/ /\ worker' = "resending"
        /\ UNCHANGED <<queue, current, resting, received, tried>> /\ Aside
     \/ cancelled /\ UNCHANGED <<received, tried>> /\ Rest

(* The second attempt is the last, also when it is throttled again.        *)
Resend == worker = "resending" /\ (Succeeds \/ Fails)

Working == TakeReport \/ StartPause \/ EndPause \/ Send \/ Backoff \/ Resend

-----------------------------------------------------------------------------
(* What the reporter does by itself, once it is called. *)
ReporterStep ==
  \/ \E r \in Reports : Reporting(r)
  \/ Closing \/ CloseDeadline
  \/ Working

ReporterNext == ReporterStep \/ CallClose \/ \E r \in Reports : CallReport(r)

ReporterSpec == ReporterInit /\ [][ReporterNext]_reporterVars

-----------------------------------------------------------------------------
(* Properties. *)

Entries(seq) == {seq[i] : i \in DOMAIN seq}

ReporterTypeOK ==
  /\ call \in [Reports -> CallStates]
  /\ close \in CloseStates /\ closed \in BOOLEAN /\ cancelled \in BOOLEAN
  /\ queue \in Seq(Reports) /\ Len(queue) \in 0..Capacity
  /\ worker \in WorkerStates /\ current \in Reports \cup {None} /\ resting \in BOOLEAN
  /\ received \in Seq(Reports)
  /\ accepted \in SUBSET Reports /\ tried \in SUBSET Reports /\ refused \in SUBSET Reports

(* A handler never sends on the closed channel, which would end the        *)
(* process: between its look at closed and its send the lock keeps Close   *)
(* out (reporter.go, Report and Close).                                    *)
NothingIsSentOnAClosedQueue == closed => \A r \in Reports : call[r] # "sending"

(* Close before its deadline loses nothing: unless the deadline passed,    *)
(* the worker stops when every report that was accepted has been sent.     *)
DrainSendsAll ==
  worker = "done" /\ close \notin {"late", "failed"} => accepted \subseteq tried

(* Why these hold: who is where, and that a report is accepted before it   *)
(* is sent, sent before it is shown, and accepted once.                    *)
ReporterInv ==
  /\ ReporterTypeOK
  /\ closed <=> close \in {"waiting", "late", "returned", "failed"}
  /\ cancelled => close \in {"late", "returned", "failed"}
  /\ close = "returned" => worker = "done"
  /\ NothingIsSentOnAClosedQueue
  /\ worker = "done" => closed
  /\ worker = "done" /\ close \notin {"late", "failed"} => queue = <<>> /\ current = None
  /\ worker = "selecting" => current = None
  /\ worker \in {"taken", "pausing", "sending", "backoff", "resending"} => current # None
  /\ worker \in {"backoff", "resending"} => current \in tried
  /\ close \notin {"late", "failed"} => accepted \subseteq tried \cup Entries(queue) \cup {current}
  /\ Entries(queue) \cup Entries(received) \cup tried \cup ({current} \ {None}) \subseteq accepted
  /\ \A r \in accepted \cup refused : call[r] = "returned"

(* What is accepted and not settled: the one in hand and the queue.        *)
Pending ==
  IF worker = "done" THEN <<>>
  ELSE (IF current = None THEN <<>> ELSE <<current>>) \o queue

Promise == INSTANCE Delivery WITH pending <- Pending, Capacity <- Capacity + 1

(* The reporter keeps the promise of module Delivery.                      *)
KeepsPromise == Promise!DeliverySafe
=============================================================================
