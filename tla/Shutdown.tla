------------------------------ MODULE Shutdown ------------------------------
(***************************************************************************)
(* The life of the process: requests in flight, their failures given to    *)
(* the error reporter, and what main does after a signal: Fiber stops      *)
(* accepting and waits for the requests up to shutdownTimeout, its hook    *)
(* closes the reporter, then the database pool and the Redis client are    *)
(* closed.  A second signal ends the process at once.                      *)
(*                                                                         *)
(* A request is named by the failure it may report.                        *)
(***************************************************************************)
EXTENDS Reporter

VARIABLES
  request,      \* [Reports -> what the request is doing]
  main,         \* where main is
  timedOut,     \* the drain was given up
  poolClosed,   \* the pool hands out no more connections
  redisClosed

mainVars == <<main, timedOut, poolClosed, redisClosed>>
vars == <<reporterVars, request, mainVars>>

RequestStates == {"outside", "serving", "querying", "failing", "answered"}
MainStates == {"listening", "draining", "hook", "closing", "pool", "emptying", "redis",
               "ended", "killed"}

InFlight == {r \in Reports : request[r] \in {"serving", "querying", "failing"}}

Over == main \in {"ended", "killed"}

Init ==
  /\ ReporterInit
  /\ request = [r \in Reports |-> "outside"]
  /\ main = "listening" /\ timedOut = FALSE /\ poolClosed = FALSE /\ redisClosed = FALSE

-----------------------------------------------------------------------------
(* Requests. *)

Becomes(r, state) == request' = [request EXCEPT ![r] = state]

Arrive(r) ==
  /\ request[r] = "outside" /\ main = "listening"
  /\ Becomes(r, "serving")
  /\ UNCHANGED reporterVars /\ UNCHANGED mainVars

(* A request holds a connection of the pool while it queries.              *)
Acquire(r) ==
  /\ request[r] = "serving" /\ ~poolClosed
  /\ Becomes(r, "querying")
  /\ UNCHANGED reporterVars /\ UNCHANGED mainVars

(* Its query ends, with its deadline at the latest.                        *)
GiveBack(r) ==
  /\ request[r] = "querying"
  /\ Becomes(r, "serving")
  /\ UNCHANGED reporterVars /\ UNCHANGED mainVars

(* Answered with less than 500: nothing is reported.                       *)
Answer(r) ==
  /\ request[r] = "serving"
  /\ Becomes(r, "answered")
  /\ UNCHANGED reporterVars /\ UNCHANGED mainVars

(* writeFailure reports before it answers with 500 or more.                *)
Fail(r) ==
  /\ request[r] = "serving"
  /\ CallReport(r)
  /\ Becomes(r, "failing")
  /\ UNCHANGED mainVars

AnswerFailure(r) ==
  /\ request[r] = "failing" /\ call[r] = "returned"
  /\ Becomes(r, "answered")
  /\ UNCHANGED reporterVars /\ UNCHANGED mainVars

-----------------------------------------------------------------------------
(* main. *)

(* Mutant: the pool is the first thing to be closed. *)
SignalClosesPool ==
  /\ main = "listening"
  /\ main' = "draining" /\ poolClosed' = TRUE
  /\ UNCHANGED <<request, timedOut, redisClosed>> /\ UNCHANGED reporterVars

Signal ==
  /\ main = "listening"
  /\ main' = "draining"
  /\ UNCHANGED <<request, timedOut, poolClosed, redisClosed>> /\ UNCHANGED reporterVars

(* ShutdownWithTimeout: the requests have ended, or the time is up.        *)
Drain ==
  /\ main = "draining"
  /\ main' = "hook"
  /\ IF InFlight = {} THEN UNCHANGED timedOut ELSE timedOut' = TRUE
  /\ UNCHANGED <<request, poolClosed, redisClosed>> /\ UNCHANGED reporterVars

(* The hook runs when the server is down.                                  *)
RunHook ==
  /\ main = "hook"
  /\ CallClose
  /\ main' = "closing"
  /\ UNCHANGED <<request, timedOut, poolClosed, redisClosed>>

HookReturns ==
  /\ main = "closing" /\ close \in {"returned", "failed"}
  /\ main' = "pool"
  /\ UNCHANGED <<request, timedOut, poolClosed, redisClosed>> /\ UNCHANGED reporterVars

(* pool.Close refuses new acquisitions and waits for the connections.      *)
ClosePool ==
  /\ main = "pool"
  /\ poolClosed' = TRUE /\ main' = "emptying"
  /\ UNCHANGED <<request, timedOut, redisClosed>> /\ UNCHANGED reporterVars

PoolIsEmpty ==
  /\ main = "emptying"
  /\ \A r \in Reports : request[r] # "querying"
  /\ main' = "redis"
  /\ UNCHANGED <<request, timedOut, poolClosed, redisClosed>> /\ UNCHANGED reporterVars

(* main returns after the last cleanup.                                    *)
CloseRedis ==
  /\ main = "redis"
  /\ redisClosed' = TRUE /\ main' = "ended"
  /\ UNCHANGED <<request, timedOut, poolClosed>> /\ UNCHANGED reporterVars

(* signal.Stop has restored the default handling.                          *)
SecondSignal ==
  /\ main # "listening"
  /\ main' = "killed"
  /\ UNCHANGED <<request, timedOut, poolClosed, redisClosed>> /\ UNCHANGED reporterVars

MainStep == Drain \/ RunHook \/ HookReturns \/ ClosePool \/ PoolIsEmpty \/ CloseRedis

ReporterRuns == ReporterStep /\ UNCHANGED request /\ UNCHANGED mainVars

RequestStep(r) ==
  \/ Arrive(r) \/ Acquire(r) \/ GiveBack(r) \/ Answer(r) \/ Fail(r) \/ AnswerFailure(r)

Next ==
  /\ ~Over
  /\ \/ \E r \in Reports : RequestStep(r)
     \/ ReporterRuns
     \/ MainStep \/ Signal \/ SecondSignal

Spec == Init /\ [][Next]_vars

(* Goroutines run, timers fire, and a query ends with its deadline.  No    *)
(* client has to come, no handler has to succeed and nobody has to signal. *)
Runs(step) == step /\ ~Over

Fairness ==
  /\ WF_vars(Runs(MainStep))
  /\ WF_vars(Runs(Working /\ UNCHANGED request /\ UNCHANGED mainVars))
  /\ WF_vars(Runs(Closing /\ UNCHANGED request /\ UNCHANGED mainVars))
  /\ \A r \in Reports :
       /\ WF_vars(Runs(Reporting(r) /\ UNCHANGED request /\ UNCHANGED mainVars))
       /\ WF_vars(Runs(GiveBack(r)))

FairSpec == Spec /\ Fairness

-----------------------------------------------------------------------------
(* Properties. *)

TypeOK ==
  /\ ReporterTypeOK
  /\ request \in [Reports -> RequestStates]
  /\ main \in MainStates
  /\ timedOut \in BOOLEAN /\ poolClosed \in BOOLEAN /\ redisClosed \in BOOLEAN

(* The reporter outlives the requests: a failure is turned away by a       *)
(* closed reporter only if the drain was given up (server.go, app.go).     *)
OnlyLateFailuresAreRefused == refused # {} => timedOut

(* The stores outlive the requests, too: the pool is closed under a        *)
(* request only if the drain was given up, and Redis when no request       *)
(* holds a connection any more.                                            *)
StoresOutliveRequests ==
  /\ poolClosed /\ InFlight # {} => timedOut
  /\ redisClosed => poolClosed /\ \A r \in Reports : request[r] # "querying"

(* Why these hold: main closes the reporter, then the stores, when the     *)
(* requests are done or given up, and only a failing request reports.      *)
Inv ==
  /\ ReporterInv
  /\ TypeOK
  /\ main \in {"listening", "draining", "hook"} => close = "idle"
  /\ \A r \in Reports : call[r] \in {"called", "locked", "sending"} => request[r] = "failing"
  /\ main \notin {"listening", "draining", "killed"} /\ InFlight # {} => timedOut
  /\ poolClosed => main \in {"emptying", "redis", "ended", "killed"}
  /\ main \in {"emptying", "redis", "ended"} => poolClosed
  /\ main \in {"redis", "ended"} => \A r \in Reports : request[r] # "querying"
  /\ OnlyLateFailuresAreRefused
  /\ StoresOutliveRequests

(* A signal ends the process, whatever the requests, the chat and the      *)
(* reporter's queue are doing.                                             *)
ProcessEnds == main = "draining" ~> Over

(* What a killed process had queued is given up.                           *)
Chat ==
  INSTANCE Delivery WITH pending <- IF main = "killed" THEN <<>> ELSE Pending,
                         Capacity <- Capacity + 1

(* Reports are delivered in order, at most once, and settled in the end.   *)
ChatSpec == Chat!DeliverySpec
=============================================================================
