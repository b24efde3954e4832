--------------------------- MODULE ShutdownProofs ---------------------------
(***************************************************************************)
(* Proofs about the error reporter and the shutdown, for any number of     *)
(* requests and any capacity of the queue.                                 *)
(***************************************************************************)
EXTENDS Shutdown, TLAPS

-----------------------------------------------------------------------------
(* Sequences. *)

(* What appending does to the entries of a queue.                          *)
LEMMA AppendFacts ==
  ASSUME NEW S, NEW s \in Seq(S), NEW e \in S
  PROVE  /\ Append(s, e) \in Seq(S)
         /\ Len(Append(s, e)) = Len(s) + 1
         /\ Entries(Append(s, e)) = Entries(s) \cup {e}
<1>1. DOMAIN Append(s, e) = DOMAIN s \cup {Len(s) + 1}
  OBVIOUS
<1>2. \A i \in DOMAIN s : Append(s, e)[i] = s[i]
  OBVIOUS
<1>3. Append(s, e)[Len(s) + 1] = e
  OBVIOUS
<1>4. Entries(Append(s, e)) = Entries(s) \cup {e}
  BY <1>1, <1>2, <1>3 DEF Entries
<1> QED
  BY <1>4

(* What taking the head does to the entries of a queue.                    *)
LEMMA TailFacts ==
  ASSUME NEW S, NEW s \in Seq(S), s # <<>>
  PROVE  /\ Head(s) \in S /\ Tail(s) \in Seq(S)
         /\ Len(Tail(s)) = Len(s) - 1
         /\ Entries(s) = Entries(Tail(s)) \cup {Head(s)}
<1>1. /\ Head(s) = s[1] /\ 1 \in DOMAIN s
      /\ Tail(s) \in Seq(S) /\ Len(Tail(s)) = Len(s) - 1
      /\ \A i \in 1..Len(Tail(s)) : Tail(s)[i] = s[i + 1]
  OBVIOUS
<1>2. Entries(Tail(s)) \cup {Head(s)} \subseteq Entries(s)
  BY <1>1 DEF Entries
<1>3. ASSUME NEW i \in DOMAIN s PROVE s[i] \in Entries(Tail(s)) \cup {Head(s)}
  <2>1. CASE i = 1
    BY <1>1, <2>1
  <2>2. CASE i # 1
    <3>1. i - 1 \in DOMAIN Tail(s) /\ Tail(s)[i - 1] = s[i]
      BY <1>1, <2>2
    <3> QED
      BY <3>1 DEF Entries
  <2> QED
    BY <2>1, <2>2
<1>4. Entries(s) \subseteq Entries(Tail(s)) \cup {Head(s)}
  BY <1>3 DEF Entries
<1> QED
  BY <1>1, <1>2, <1>4

(* A report in front of the queue is its head, the queue its tail.         *)
LEMMA ConsFacts ==
  ASSUME NEW S, NEW s \in Seq(S), NEW e \in S
  PROVE  /\ <<e>> \o s \in Seq(S) /\ <<e>> \o s # <<>>
         /\ Len(<<e>> \o s) = Len(s) + 1
         /\ Head(<<e>> \o s) = e
         /\ Tail(<<e>> \o s) = s
         /\ Entries(<<e>> \o s) = Entries(s) \cup {e}
<1>1. /\ <<e>> \o s \in Seq(S) /\ Len(<<e>> \o s) = Len(s) + 1 /\ <<e>> \o s # <<>>
      /\ Head(<<e>> \o s) = e
  OBVIOUS
<1>2. Tail(<<e>> \o s) = s
  <2>1. Tail(<<e>> \o s) \in Seq(S) /\ Len(Tail(<<e>> \o s)) = Len(s)
    OBVIOUS
  <2>2. \A i \in 1..Len(s) : Tail(<<e>> \o s)[i] = s[i]
    OBVIOUS
  <2> QED
    BY <2>1, <2>2
<1> QED
  BY <1>1, <1>2, TailFacts

(* Taking the head off and putting it in front gives the queue back.       *)
LEMMA HeadTail ==
  ASSUME NEW S, NEW s \in Seq(S), s # <<>>
  PROVE  <<Head(s)>> \o Tail(s) = s
<1>1. <<Head(s)>> \o Tail(s) \in Seq(S) /\ Len(<<Head(s)>> \o Tail(s)) = Len(s)
  OBVIOUS
<1>2. \A i \in 1..Len(s) : (<<Head(s)>> \o Tail(s))[i] = s[i]
  OBVIOUS
<1> QED
  BY <1>1, <1>2

(* Appending behind the report in hand is appending to the queue.          *)
LEMMA ConsAppend ==
  ASSUME NEW S, NEW s \in Seq(S), NEW e \in S, NEW f \in S
  PROVE  <<e>> \o Append(s, f) = Append(<<e>> \o s, f)
<1>1. /\ <<e>> \o Append(s, f) \in Seq(S) /\ Append(<<e>> \o s, f) \in Seq(S)
      /\ Len(<<e>> \o Append(s, f)) = Len(s) + 2 /\ Len(Append(<<e>> \o s, f)) = Len(s) + 2
  OBVIOUS
<1>2. \A i \in 1..(Len(s) + 2) : (<<e>> \o Append(s, f))[i] = Append(<<e>> \o s, f)[i]
  OBVIOUS
<1> QED
  BY <1>1, <1>2

-----------------------------------------------------------------------------
(* The reporter. *)

(* The reporter starts as its invariant says.                              *)
LEMMA ReporterStarts == ReporterInit => ReporterInv
<1>1. Entries(<<>>) = {} /\ <<>> \in Seq(Reports) /\ Len(<<>>) = 0 /\ 0 \in 0..Capacity
  BY CapacityAssumption DEF Entries
<1> QED
  BY <1>1
  DEF ReporterInit, ReporterInv, ReporterTypeOK, NothingIsSentOnAClosedQueue,
      CallStates, CloseStates, WorkerStates

(* A call of Report keeps the invariant.                                   *)
LEMMA CallKeeps ==
  ASSUME ReporterInv, NEW r \in Reports, CallReport(r)
  PROVE  ReporterInv'
BY DEF CallReport, Goes, ReporterInv, ReporterTypeOK, NothingIsSentOnAClosedQueue, Entries,
       CallStates

(* So do its steps: what it queues was not accepted before.                *)
LEMMA ReportingKeeps ==
  ASSUME ReporterInv, NEW r \in Reports, Reporting(r)
  PROVE  ReporterInv'
<1>1. CASE LockToReport(r)
  BY <1>1
  DEF LockToReport, Goes, closeVars, workerVars, ReporterInv, ReporterTypeOK,
      NothingIsSentOnAClosedQueue, Entries, CallStates
<1>2. CASE CheckClosed(r)
  BY <1>2
  DEF CheckClosed, Goes, closeVars, workerVars, ReporterInv, ReporterTypeOK,
      NothingIsSentOnAClosedQueue, Entries, CallStates
<1>3. CASE QueueReport(r)
  <2>1. CASE Len(queue) < Capacity
    <3>0. queue \in Seq(Reports) /\ queue' = Append(queue, r)
      BY <1>3, <2>1 DEF QueueReport, ReporterInv, ReporterTypeOK
    <3>1. /\ queue' \in Seq(Reports) /\ Len(queue') = Len(queue) + 1
          /\ Entries(queue') = Entries(queue) \cup {r}
      BY <3>0, AppendFacts
    <3>2. ReporterTypeOK'
      BY <1>3, <2>1, <3>1, CapacityAssumption
      DEF QueueReport, Goes, closeVars, workerVars, ReporterInv, ReporterTypeOK, CallStates
    <3>3. ~closed /\ worker # "done"
      BY <1>3 DEF QueueReport, ReporterInv, NothingIsSentOnAClosedQueue
    <3>4. Entries(received)' = Entries(received)
      BY <1>3 DEF QueueReport, workerVars, Entries
    <3> QED
      BY <1>3, <2>1, <3>1, <3>2, <3>3, <3>4
      DEF QueueReport, Goes, closeVars, workerVars, ReporterInv, ReporterTypeOK,
          NothingIsSentOnAClosedQueue
  <2>2. CASE ~(Len(queue) < Capacity)
    BY <1>3, <2>2
    DEF QueueReport, Goes, closeVars, workerVars, ReporterInv, ReporterTypeOK,
        NothingIsSentOnAClosedQueue, Entries, CallStates
  <2> QED
    BY <2>1, <2>2
<1> QED
  BY <1>1, <1>2, <1>3 DEF Reporting

(* Close keeps the invariant: the lock is granted when nobody sends.       *)
LEMMA CloseKeeps ==
  ASSUME ReporterInv, CallClose \/ Closing \/ CloseDeadline
  PROVE  ReporterInv'
<1>1. CASE CallClose
  BY <1>1
  DEF CallClose, callVars, workerVars, ReporterInv, ReporterTypeOK, NothingIsSentOnAClosedQueue,
      Entries, CloseStates
<1>2. CASE CloseQueue
  BY <1>2
  DEF CloseQueue, Readers, callVars, workerVars, ReporterInv, ReporterTypeOK,
      NothingIsSentOnAClosedQueue, Entries, CloseStates
<1>3. CASE Drained
  BY <1>3
  DEF Drained, callVars, workerVars, ReporterInv, ReporterTypeOK, NothingIsSentOnAClosedQueue,
      Entries, CloseStates
<1>4. CASE CloseDeadline
  BY <1>4
  DEF CloseDeadline, callVars, workerVars, ReporterInv, ReporterTypeOK,
      NothingIsSentOnAClosedQueue, Entries, CloseStates
<1> QED
  BY <1>1, <1>2, <1>3, <1>4 DEF Closing

(* The worker keeps the invariant.                                         *)
LEMMA WorkingKeeps ==
  ASSUME ReporterInv, Working
  PROVE  ReporterInv'
<1> USE DEF Aside, callVars, closeVars
<1>1. ASSUME worker \in {"selecting", "taken", "pausing"}, WorkerStops,
             cancelled \/ (worker = "selecting" /\ queue = <<>> /\ closed)
      PROVE  ReporterInv'
  BY <1>1
  DEF WorkerStops, ReporterInv, ReporterTypeOK, NothingIsSentOnAClosedQueue, Entries,
      WorkerStates
<1>2. ASSUME worker \in {"sending", "resending"}, Sent, Rest,
             received' \in {received, Append(received, current)}
      PROVE  ReporterInv'
  <2>1. current \in Reports
    BY <1>2 DEF ReporterInv, ReporterTypeOK
  <2>4. received \in Seq(Reports)
    BY DEF ReporterInv, ReporterTypeOK
  <2>2. received' \in Seq(Reports) /\ Entries(received') \subseteq Entries(received) \cup {current}
    <3>1. /\ Append(received, current) \in Seq(Reports)
          /\ Entries(Append(received, current)) = Entries(received) \cup {current}
      BY <2>1, <2>4, AppendFacts
    <3> QED
      BY <1>2, <2>4, <3>1
  <2>3. Entries(queue)' = Entries(queue)
    BY <1>2 DEF Rest, Entries
  <2> QED
    BY <1>2, <2>1, <2>2, <2>3, NoneAssumption
    DEF Sent, Rest, ReporterInv, ReporterTypeOK, NothingIsSentOnAClosedQueue, WorkerStates
<1>3. CASE TakeReport
  <2>1. CASE WorkerStops
    <3>1. cancelled \/ (queue = <<>> /\ closed)
      BY <1>3, <2>1 DEF TakeReport, WorkerStops
    <3> QED
      BY <1>1, <1>3, <2>1, <3>1 DEF TakeReport
  <2>2. CASE ~WorkerStops
    <3>1. queue # <<>> /\ current' = Head(queue) /\ queue' = Tail(queue) /\ worker' = "taken"
          /\ UNCHANGED <<resting, received, tried>> /\ Aside
      BY <1>3, <2>2 DEF TakeReport
    <3>4. queue \in Seq(Reports) /\ Len(queue) \in 0..Capacity
      BY DEF ReporterInv, ReporterTypeOK
    <3>2. /\ current' \in Reports /\ queue' \in Seq(Reports)
          /\ Len(queue') = Len(queue) - 1
          /\ Entries(queue) = Entries(queue') \cup {current'}
      BY <3>1, <3>4, TailFacts
    <3>5. Len(queue') \in 0..Capacity
      BY <3>1, <3>2, <3>4, CapacityAssumption
    <3>3. Entries(received)' = Entries(received)
      BY <3>1 DEF Entries
    <3> QED
      BY <1>3, <3>1, <3>2, <3>3, <3>5, NoneAssumption
      DEF TakeReport, ReporterInv, ReporterTypeOK, NothingIsSentOnAClosedQueue, WorkerStates
  <2> QED
    BY <2>1, <2>2
<1>4. CASE StartPause
  <2>1. CASE WorkerStops
    BY <1>1, <1>4, <2>1 DEF StartPause, WorkerStops
  <2>2. CASE ~WorkerStops
    BY <1>4, <2>2
    DEF StartPause, ReporterInv, ReporterTypeOK, NothingIsSentOnAClosedQueue, Entries,
        WorkerStates
  <2> QED
    BY <2>1, <2>2
<1>5. CASE EndPause
  <2>1. CASE WorkerStops
    BY <1>1, <1>5, <2>1 DEF EndPause, WorkerStops
  <2>2. CASE ~WorkerStops
    <3>1. Entries(queue)' = Entries(queue) /\ Entries(received)' = Entries(received)
      BY <1>5, <2>2 DEF EndPause, Entries
    <3>2. ReporterTypeOK'
      BY <1>5, <2>2 DEF EndPause, ReporterInv, ReporterTypeOK, WorkerStates
    <3> QED
      BY <1>5, <2>2, <3>1, <3>2 DEF EndPause, ReporterInv, NothingIsSentOnAClosedQueue
  <2> QED
    BY <2>1, <2>2
<1>6. CASE Send
  <2>1. CASE Succeeds \/ Fails
    BY <1>2, <1>6, <2>1 DEF Send, Succeeds, Fails
  <2>2. CASE ~(Succeeds \/ Fails)
    BY <1>6, <2>2
    DEF Send, Sent, ReporterInv, ReporterTypeOK, NothingIsSentOnAClosedQueue, Entries,
        WorkerStates
  <2> QED
    BY <2>1, <2>2
<1>7. CASE Backoff
  <2>1. Entries(queue)' = Entries(queue) /\ Entries(received)' = Entries(received)
    BY <1>7 DEF Backoff, Rest, Entries
  <2>2. ReporterTypeOK'
    BY <1>7 DEF Backoff, Rest, ReporterInv, ReporterTypeOK, WorkerStates
  <2>3. CASE worker' = "resending"
    BY <1>7, <2>1, <2>2, <2>3
    DEF Backoff, Rest, ReporterInv, NothingIsSentOnAClosedQueue
  <2>4. CASE cancelled /\ UNCHANGED <<received, tried>> /\ Rest
    BY <1>7, <2>1, <2>2, <2>4
    DEF Backoff, Rest, ReporterInv, NothingIsSentOnAClosedQueue
  <2> QED
    BY <1>7, <2>3, <2>4 DEF Backoff
<1>8. CASE Resend
  BY <1>2, <1>8 DEF Resend, Succeeds, Fails
<1> QED
  BY <1>3, <1>4, <1>5, <1>6, <1>7, <1>8 DEF Working

(* Every step of the reporter keeps its invariant.                         *)
LEMMA ReporterKeeps ==
  ASSUME ReporterInv, [ReporterNext]_reporterVars
  PROVE  ReporterInv'
<1>1. CASE UNCHANGED reporterVars
  BY <1>1
  DEF reporterVars, ReporterInv, ReporterTypeOK, NothingIsSentOnAClosedQueue, Entries
<1>2. CASE ReporterNext
  BY <1>2, CallKeeps, ReportingKeeps, CloseKeeps, WorkingKeeps DEF ReporterNext, ReporterStep
<1> QED
  BY <1>1, <1>2

(* The reporter by itself: nothing is sent on a closed queue, and a Close  *)
(* that meets its deadline has sent everything.                            *)
THEOREM ReporterSafe ==
  ReporterSpec => [](ReporterInv /\ NothingIsSentOnAClosedQueue /\ DrainSendsAll)
<1>1. ReporterInv => NothingIsSentOnAClosedQueue /\ DrainSendsAll
  BY NoneAssumption DEF ReporterInv, DrainSendsAll, ReporterTypeOK, Entries
<1> QED
  BY ReporterStarts, ReporterKeeps, <1>1, PTL DEF ReporterSpec

-----------------------------------------------------------------------------
(* The reporter keeps the promise of module Delivery. *)

(* What is pending, as a sequence: the report in hand before the queue.    *)
LEMMA PendingFacts ==
  ASSUME ReporterInv
  PROVE  /\ worker = "done" => Pending = <<>>
         /\ worker = "selecting" => Pending = queue
         /\ worker \notin {"done", "selecting"} =>
              /\ current \in Reports
              /\ Pending = <<current>> \o queue
              /\ Pending # <<>> /\ Head(Pending) = current /\ Tail(Pending) = queue
<1>1. queue \in Seq(Reports) /\ worker \in WorkerStates /\ current \in Reports \cup {None}
  BY DEF ReporterInv, ReporterTypeOK
<1>2. worker = "selecting" => Pending = queue
  BY <1>1 DEF Pending, ReporterInv
<1>3. ASSUME worker \notin {"done", "selecting"}
      PROVE  /\ current \in Reports
             /\ Pending = <<current>> \o queue
             /\ Pending # <<>> /\ Head(Pending) = current /\ Tail(Pending) = queue
  <2>1. current \in Reports /\ current # None
    BY <1>1, <1>3 DEF ReporterInv, WorkerStates
  <2>2. Pending = <<current>> \o queue
    BY <1>3, <2>1 DEF Pending
  <2> QED
    BY <1>1, <2>1, <2>2, ConsFacts
<1> QED
  BY <1>2, <1>3 DEF Pending

(* Queueing a report is accepting it.                                      *)
LEMMA QueueingAccepts ==
  ASSUME ReporterInv, ReporterInv', NEW r \in Reports, QueueReport(r), Len(queue) < Capacity
  PROVE  Promise!Accept(r)
<1>1. /\ queue \in Seq(Reports) /\ queue' = Append(queue, r)
      /\ r \notin accepted /\ worker # "done" /\ worker' = worker /\ current' = current
      /\ received' = received
  BY DEF QueueReport, ReporterInv, ReporterTypeOK, NothingIsSentOnAClosedQueue, workerVars
<1>2. /\ Entries(Pending) \subseteq accepted
      /\ Len(Pending) < Capacity + 1
      /\ Pending' = Append(Pending, r)
  <2>1. CASE worker = "selecting"
    <3>1. Pending = queue /\ Pending' = queue'
      BY <1>1, <2>1, PendingFacts DEF Pending, ReporterInv
    <3>2. Entries(queue) \subseteq accepted
      BY DEF ReporterInv
    <3> QED
      BY <1>1, <3>1, <3>2, CapacityAssumption
  <2>2. CASE worker # "selecting"
    <3>1. current \in Reports /\ Pending = <<current>> \o queue
      BY <1>1, <2>2, PendingFacts
    <3>2. Pending' = <<current>> \o queue'
      BY <1>1, <2>2, <3>1, NoneAssumption DEF Pending
    <3>3. /\ Len(Pending) = Len(queue) + 1
          /\ Entries(Pending) = Entries(queue) \cup {current}
      BY <1>1, <3>1, ConsFacts
    <3>4. Pending' = Append(Pending, r)
      BY <1>1, <3>1, <3>2, ConsAppend
    <3>5. Entries(queue) \cup {current} \subseteq accepted
      BY <3>1, NoneAssumption DEF ReporterInv
    <3>6. Len(Pending) < Capacity + 1
      BY <1>1, <3>3, CapacityAssumption
    <3> QED
      BY <3>3, <3>4, <3>5, <3>6
  <2> QED
    BY <2>1, <2>2
<1>3. Entries(received) \subseteq accepted
  BY DEF ReporterInv
<1> QED
  BY <1>1, <1>2, <1>3 DEF Promise!Accept, Promise!Listed, Entries

(* What the worker does delivers the report in hand, gives it up, or does  *)
(* not show.                                                               *)
LEMMA WorkingSettles ==
  ASSUME ReporterInv, ReporterInv', Working
  PROVE  [Promise!DeliveryNext]_(Promise!dvars)
<1> USE DEF Aside, callVars, closeVars
<1>1. ASSUME worker # "done", WorkerStops
      PROVE  [Promise!DeliveryNext]_(Promise!dvars)
  <2>1. Pending' = <<>> /\ received' = received
    BY <1>1 DEF WorkerStops, Pending
  <2> QED
    BY <2>1 DEF Promise!DeliveryNext, Promise!GiveUpAll, Promise!dvars
<1>2. ASSUME worker \in {"sending", "resending", "backoff"}, Rest,
             received' \in {received, Append(received, current)}
      PROVE  [Promise!DeliveryNext]_(Promise!dvars)
  <2>1. Pending' = queue
    BY <1>2, PendingFacts, NoneAssumption DEF Rest, Pending, ReporterInv
  <2>2. Pending # <<>> /\ Head(Pending) = current /\ Tail(Pending) = queue
    BY <1>2, PendingFacts
  <2> QED
    BY <1>2, <2>1, <2>2 DEF Promise!DeliveryNext, Promise!Deliver, Promise!GiveUp
<1>3. ASSUME worker \notin {"done", "selecting"}, worker' \notin {"done", "selecting"},
             UNCHANGED <<queue, current, received>>
      PROVE  [Promise!DeliveryNext]_(Promise!dvars)
  BY <1>3, PendingFacts DEF Promise!dvars, Pending
<1>4. CASE TakeReport
  <2>1. CASE WorkerStops
    BY <1>1, <1>4, <2>1 DEF TakeReport
  <2>2. CASE ~WorkerStops
    <3>1. /\ worker = "selecting" /\ queue # <<>> /\ current' = Head(queue)
          /\ queue' = Tail(queue) /\ worker' = "taken" /\ received' = received
      BY <1>4, <2>2 DEF TakeReport
    <3>2. queue \in Seq(Reports) /\ Head(queue) \in Reports
      BY <3>1, TailFacts DEF ReporterInv, ReporterTypeOK
    <3>3. Pending = queue
      BY <3>1, PendingFacts
    <3>4. Pending' = <<Head(queue)>> \o Tail(queue)
      BY <3>1, <3>2, NoneAssumption DEF Pending
    <3>5. Pending' = Pending
      BY <3>1, <3>2, <3>3, <3>4, HeadTail
    <3> QED
      BY <3>1, <3>5 DEF Promise!dvars
  <2> QED
    BY <2>1, <2>2
<1>5. CASE StartPause
  BY <1>1, <1>3, <1>5 DEF StartPause
<1>6. CASE EndPause
  BY <1>1, <1>3, <1>6 DEF EndPause
<1>7. CASE Send
  <2>1. CASE Succeeds \/ Fails
    BY <1>2, <1>7, <2>1 DEF Send, Succeeds, Fails
  <2>2. CASE ~(Succeeds \/ Fails)
    BY <1>3, <1>7, <2>2 DEF Send
  <2> QED
    BY <2>1, <2>2
<1>8. CASE Backoff
  BY <1>2, <1>3, <1>8 DEF Backoff
<1>9. CASE Resend
  BY <1>2, <1>9 DEF Resend, Succeeds, Fails
<1> QED
  BY <1>4, <1>5, <1>6, <1>7, <1>8, <1>9 DEF Working

(* Every step of the reporter is a step of Delivery or does not show.      *)
LEMMA ReporterStepDelivers ==
  ASSUME ReporterInv, ReporterInv', [ReporterNext]_reporterVars
  PROVE  [Promise!DeliveryNext]_(Promise!dvars)
<1>1. ASSUME UNCHANGED <<worker, current, queue, received>>
      PROVE  [Promise!DeliveryNext]_(Promise!dvars)
  BY <1>1 DEF Promise!dvars, Pending
<1>2. CASE UNCHANGED reporterVars
  BY <1>1, <1>2 DEF reporterVars
<1>3. ASSUME NEW r \in Reports, CallReport(r) \/ LockToReport(r) \/ CheckClosed(r)
      PROVE  [Promise!DeliveryNext]_(Promise!dvars)
  BY <1>1, <1>3 DEF CallReport, LockToReport, CheckClosed, workerVars
<1>4. ASSUME NEW r \in Reports, QueueReport(r)
      PROVE  [Promise!DeliveryNext]_(Promise!dvars)
  <2>1. CASE Len(queue) < Capacity
    BY <1>4, <2>1, QueueingAccepts DEF Promise!DeliveryNext
  <2>2. CASE ~(Len(queue) < Capacity)
    BY <1>1, <1>4, <2>2 DEF QueueReport, workerVars
  <2> QED
    BY <2>1, <2>2
<1>5. CASE CallClose \/ Closing \/ CloseDeadline
  BY <1>1, <1>5 DEF CallClose, Closing, CloseQueue, Drained, CloseDeadline, workerVars
<1> QED
  BY <1>2, <1>3, <1>4, <1>5, WorkingSettles DEF ReporterNext, ReporterStep, Reporting

(* Reports reach the chat in the order they were accepted in, each at most *)
(* once, and never more than the queue and the worker hold are pending.    *)
THEOREM ReporterKeepsPromise == ReporterSpec => KeepsPromise
<1>1. ReporterInit => Promise!DeliveryInit
  BY DEF ReporterInit, Promise!DeliveryInit, Pending
<1> QED
  BY <1>1, ReporterStarts, ReporterKeeps, ReporterStepDelivers, PTL
  DEF ReporterSpec, KeepsPromise, Promise!DeliverySafe

-----------------------------------------------------------------------------
(* The process. *)

(* The process begins as its invariant says.                               *)
LEMMA ProcessStarts == Init => Inv
BY ReporterStarts
DEF Init, Inv, ReporterInv, TypeOK, RequestStates, MainStates, InFlight, ReporterInit,
    OnlyLateFailuresAreRefused, StoresOutliveRequests

(* A step of the process is a step of the reporter or leaves it alone.     *)
LEMMA ProcessRunsReporter == [Next]_vars => [ReporterNext]_reporterVars
BY DEF Next, vars, reporterVars, RequestStep, Arrive, Acquire, GiveBack, Answer, Fail,
       AnswerFailure, ReporterRuns, MainStep, Drain, RunHook, HookReturns, ClosePool,
       PoolIsEmpty, CloseRedis, Signal, SecondSignal, ReporterNext

(* The steps of the process keep what is said of its own variables.        *)
LEMMA ProcessKeeps ==
  ASSUME Inv, [Next]_vars
  PROVE  Inv'
<1> DEFINE Own ==
      /\ request \in [Reports -> RequestStates]
      /\ main \in MainStates
      /\ timedOut \in BOOLEAN /\ poolClosed \in BOOLEAN /\ redisClosed \in BOOLEAN
      /\ main \in {"listening", "draining", "hook"} => close = "idle"
      /\ \A r \in Reports : call[r] \in {"called", "locked", "sending"} => request[r] = "failing"
      /\ main \notin {"listening", "draining", "killed"} /\ InFlight # {} => timedOut
      /\ poolClosed => main \in {"emptying", "redis", "ended", "killed"}
      /\ main \in {"emptying", "redis", "ended"} => poolClosed
      /\ main \in {"redis", "ended"} => \A r \in Reports : request[r] # "querying"
      /\ OnlyLateFailuresAreRefused
      /\ StoresOutliveRequests
<1>1. ReporterInv'
  BY ProcessRunsReporter, ReporterKeeps DEF Inv
<1>2. Own /\ call \in [Reports -> CallStates]
  BY DEF Inv, TypeOK, ReporterTypeOK
<1>3. Inv' <=> Own'
  BY <1>1 DEF Inv, TypeOK, ReporterInv
<1> USE DEF InFlight, OnlyLateFailuresAreRefused, StoresOutliveRequests
<1> HIDE DEF Own
<1>4. CASE UNCHANGED vars
  <2>1. UNCHANGED <<call, close, refused, request, main, timedOut, poolClosed, redisClosed>>
    BY <1>4 DEF vars, reporterVars, mainVars
  <2>2. /\ InFlight' = InFlight
        /\ OnlyLateFailuresAreRefused' <=> OnlyLateFailuresAreRefused
        /\ StoresOutliveRequests' <=> StoresOutliveRequests
    BY <2>1
  <2> HIDE DEF InFlight, OnlyLateFailuresAreRefused, StoresOutliveRequests
  <2> QED
    BY <1>2, <1>3, <2>1, <2>2 DEF Own
<1>5. ASSUME ~Over, NEW r \in Reports, RequestStep(r)
      PROVE  Own'
  <2> USE DEF Own, Becomes, RequestStates, MainStates, mainVars, reporterVars
  <2>1. CASE Arrive(r)
    BY <1>2, <2>1 DEF Arrive
  <2>2. CASE Acquire(r)
    BY <1>2, <2>2 DEF Acquire
  <2>3. CASE GiveBack(r)
    BY <1>2, <2>3 DEF GiveBack
  <2>4. CASE Answer(r)
    BY <1>2, <2>4 DEF Answer
  <2>5. CASE Fail(r)
    BY <1>2, <2>5 DEF Fail, CallReport, Goes, CallStates
  <2>6. CASE AnswerFailure(r)
    BY <1>2, <2>6 DEF AnswerFailure
  <2> QED
    BY <1>5, <2>1, <2>2, <2>3, <2>4, <2>5, <2>6 DEF RequestStep
<1>6. ASSUME ~Over, ReporterRuns
      PROVE  Own'
  <2> USE DEF Own, mainVars, ReporterRuns
  <2>1. ASSUME NEW r \in Reports, LockToReport(r)
        PROVE  Own'
    BY <1>2, <1>6, <2>1 DEF LockToReport, Goes, closeVars, CallStates
  <2>2. ASSUME NEW r \in Reports, CheckClosed(r)
        PROVE  Own'
    <3>1. closed => main \notin {"listening", "draining", "hook", "killed"}
      BY <1>2, <1>6 DEF Inv, ReporterInv, Over
    <3>2. InFlight # {}
      BY <1>2, <2>2 DEF CheckClosed
    <3> QED
      BY <1>2, <1>6, <2>2, <3>1, <3>2 DEF CheckClosed, Goes, closeVars, CallStates
  <2>3. ASSUME NEW r \in Reports, QueueReport(r)
        PROVE  Own'
    BY <1>2, <1>6, <2>3 DEF QueueReport, Goes, closeVars, CallStates
  <2>4. CASE Closing \/ CloseDeadline
    BY <1>2, <1>6, <2>4 DEF Closing, CloseQueue, Drained, CloseDeadline, callVars
  <2>5. CASE Working
    <3>1. UNCHANGED callVars /\ UNCHANGED closeVars
      BY <2>5
      DEF Working, TakeReport, WorkerStops, StartPause, EndPause, Send, Succeeds, Fails, Rest,
          Backoff, Resend, Aside
    <3> QED
      BY <1>2, <1>6, <3>1 DEF callVars, closeVars
  <2> QED
    BY <1>6, <2>1, <2>2, <2>3, <2>4, <2>5 DEF ReporterStep, Reporting
<1>7. ASSUME ~Over, MainStep \/ Signal \/ SecondSignal
      PROVE  Own'
  <2> USE DEF Own, mainVars, reporterVars, MainStates
  <2>1. CASE Signal \/ SecondSignal
    BY <1>2, <2>1 DEF Signal, SecondSignal
  <2>2. CASE Drain
    BY <1>2, <2>2 DEF Drain
  <2>3. CASE RunHook
    BY <1>2, <2>3 DEF RunHook, CallClose, callVars
  <2>4. CASE HookReturns
    BY <1>2, <2>4 DEF HookReturns
  <2>5. CASE ClosePool
    BY <1>2, <2>5 DEF ClosePool
  <2>6. CASE PoolIsEmpty
    BY <1>2, <2>6 DEF PoolIsEmpty
  <2>7. CASE CloseRedis
    BY <1>2, <2>7 DEF CloseRedis
  <2> QED
    BY <1>7, <2>1, <2>2, <2>3, <2>4, <2>5, <2>6, <2>7 DEF MainStep
<1> QED
  BY <1>3, <1>4, <1>5, <1>6, <1>7 DEF Next

(* The process keeps its invariant.                                        *)
THEOREM ProcessInvariant == Spec => []Inv
BY ProcessStarts, ProcessKeeps, PTL DEF Spec

(* A failure is turned away by a closed reporter only after the drain was  *)
(* given up, and the stores are closed under a request only then.          *)
THEOREM ProcessOutlivesRequests ==
  Spec => [](OnlyLateFailuresAreRefused /\ StoresOutliveRequests)
<1>1. Inv => OnlyLateFailuresAreRefused /\ StoresOutliveRequests
  BY DEF Inv
<1> QED
  BY <1>1, ProcessInvariant, PTL

(* In the whole process, too, a Close that meets its deadline has sent     *)
(* every report that was accepted.                                         *)
THEOREM ProcessReports == Spec => []DrainSendsAll
<1>1. Inv => DrainSendsAll
  BY NoneAssumption DEF Inv, ReporterInv, DrainSendsAll, ReporterTypeOK, Entries
<1> QED
  BY <1>1, ProcessInvariant, PTL

(* No handler of the process sends on the closed queue.                    *)
THEOREM ClosedQueueStaysSilent == Spec => []NothingIsSentOnAClosedQueue
<1>1. Inv => NothingIsSentOnAClosedQueue
  BY DEF Inv, ReporterInv
<1> QED
  BY <1>1, ProcessInvariant, PTL

-----------------------------------------------------------------------------
(* The process keeps the promise of module Delivery, a second signal       *)
(* included: it gives up what the queue holds.                             *)

(* What the process shows as pending while it is not killed.               *)
LEMMA AliveDelivers ==
  ASSUME Inv, Inv', [ReporterNext]_reporterVars, main # "killed", main' # "killed"
  PROVE  [Chat!DeliveryNext]_(Chat!dvars)
<1>1. [Promise!DeliveryNext]_(Promise!dvars)
  BY ReporterStepDelivers DEF Inv
<1> QED
  BY <1>1
  DEF Promise!DeliveryNext, Promise!dvars, Promise!Accept, Promise!Listed, Promise!Deliver,
      Promise!GiveUp, Promise!GiveUpAll, Chat!DeliveryNext, Chat!dvars, Chat!Accept,
      Chat!Listed, Chat!Deliver, Chat!GiveUp, Chat!GiveUpAll

(* A second signal gives up what is pending, if anything is.               *)
LEMMA KillingGivesUp ==
  ASSUME SecondSignal, main # "killed"
  PROVE  [Chat!DeliveryNext]_(Chat!dvars)
<1>1. main' = "killed" /\ received' = received
  BY DEF SecondSignal, reporterVars
<1> QED
  BY <1>1 DEF Chat!DeliveryNext, Chat!GiveUpAll, Chat!dvars

(* Every step of the process is a step of Delivery or does not show.       *)
LEMMA ProcessStepDelivers ==
  ASSUME Inv, Inv', [Next]_vars
  PROVE  [Chat!DeliveryNext]_(Chat!dvars)
<1>1. CASE UNCHANGED vars
  BY <1>1 DEF vars, reporterVars, mainVars, Chat!dvars, Pending
<1>2. CASE Next
  <2>1. main # "killed"
    BY <1>2 DEF Next, Over
  <2>2. CASE main' = "killed"
    <3>1. SecondSignal
      BY <1>2, <2>1, <2>2
      DEF Next, RequestStep, Arrive, Acquire, GiveBack, Answer, Fail, AnswerFailure,
          ReporterRuns, MainStep, Drain, RunHook, HookReturns, ClosePool, PoolIsEmpty,
          CloseRedis, Signal, mainVars
    <3> QED
      BY <2>1, <3>1, KillingGivesUp
  <2>3. CASE main' # "killed"
    BY <1>2, <2>1, <2>3, ProcessRunsReporter, AliveDelivers
  <2> QED
    BY <2>2, <2>3
<1> QED
  BY <1>1, <1>2

(* What the chat shows, whenever the process is ended: reports in the      *)
(* order they were accepted in, each at most once.                         *)
THEOREM ProcessKeepsPromise == Spec => Chat!DeliverySafe
<1>1. Init => Chat!DeliveryInit
  BY DEF Init, ReporterInit, Chat!DeliveryInit, Pending
<1> QED
  BY <1>1, ProcessStarts, ProcessKeeps, ProcessStepDelivers, PTL DEF Spec, Chat!DeliverySafe
=============================================================================
