--------------------------- MODULE GatewayProofs ---------------------------
(***************************************************************************)
(* Theorems about Gateway, for every set of requests, every concurrency    *)
(* limit, every sequence bound and any requests that may hang up or whose  *)
(* events may be impossible to build.                                      *)
(***************************************************************************)
EXTENDS Gateway, FiniteSetTheorems, TLAPS

\* Taking one waiter out of a queue leaves a queue of the same kind of waiters.
LEMMA RemoveAtType ==
  ASSUME NEW S, NEW q \in Seq(S), NEW i \in DOMAIN q
  PROVE  RemoveAt(q, i) \in Seq(S)
<1>1. SubSeq(q, 1, i - 1) \in Seq(S) /\ SubSeq(q, i + 1, Len(q)) \in Seq(S)
  OBVIOUS
<1>2. QED
  BY <1>1 DEF RemoveAt

\* Queueing a request keeps the gate's queue well typed.
LEMMA QueueType ==
  ASSUME TypeOK, NEW r \in Requests,
         waiters' = waiters \/ waiters' = Append(waiters, r)
  PROVE  waiters' \in Seq(Requests)
<1>1. waiters \in Seq(Requests)
  BY DEF TypeOK
<1>2. QED
  BY <1>1

\* Appending the event a request owes keeps the log well typed.
LEMMA LogType ==
  ASSUME TypeOK, NEW r \in Requests,
         log' = log \/ (pc[r] = "append" /\ log' = Append(log, NewEvent(r)))
  PROVE  log' \in Seq(Event)
<1>1. log \in Seq(Event)
  BY DEF TypeOK
<1>2. pc[r] = "append" => NewEvent(r) \in Event
  BY GatewayAssumption DEF TypeOK, NewEvent, Event, GatewayAssumption
<1>3. QED
  BY <1>1, <1>2

\* Allocating a request id keeps the types: the sequence never passes its bound.
LEMMA AllocateKeepsTypes ==
  ASSUME TypeOK, NEW r \in Requests, AllocateRequestId(r)
  PROVE  TypeOK'
<1> USE DEF Goto
<1>1. CASE last_allocated = MaxSequence
  <2>1. ~(last_allocated < MaxSequence)
    BY <1>1, GatewayAssumption DEF GatewayAssumption
  <2>2. /\ UNCHANGED <<decision, sequence, last_allocated, audit_failed, readers, waiters,
                     contacted, log, poisoned, closed, exited>>
        /\ pc' = [pc EXCEPT ![r] = "done"]
        /\ reply' = [reply EXCEPT ![r] = "internal_error"]
        /\ permits' = permits \ {r} /\ fatal_errors' = TRUE
    BY <1>1, <2>1
       DEF AllocateRequestId, FailRequest, Answer, ReportFatal, idVars, gateVars, sinkVars
  <2>3. QED
    BY <2>2 DEF TypeOK, Location, Reply
<1>2. CASE last_allocated # MaxSequence
  <2>1. /\ UNCHANGED <<permits, reply, fatal_errors, audit_failed, readers, waiters,
                     contacted, log, poisoned, closed, exited>>
        /\ last_allocated < MaxSequence
        /\ last_allocated' = last_allocated + 1
        /\ sequence' = [sequence EXCEPT ![r] = last_allocated + 1]
    BY <1>2 DEF AllocateRequestId, gateVars, sinkVars
  <2>2. last_allocated' \in 0 .. MaxSequence /\ sequence' \in [Requests -> 0 .. MaxSequence]
    BY <2>1, GatewayAssumption DEF TypeOK, GatewayAssumption
  <2>3. CASE r \in permits
    <3>1. UNCHANGED decision /\ pc' = [pc EXCEPT ![r] = "accept"]
      BY <1>2, <2>3 DEF AllocateRequestId
    <3>2. QED
      BY <2>1, <2>2, <3>1 DEF TypeOK, Location
  <2>4. CASE r \notin permits
    <3>1. /\ decision' = [decision EXCEPT ![r] = "denied"]
          /\ pc' = [pc EXCEPT ![r] = "append"]
      BY <1>2, <2>4 DEF AllocateRequestId, MustAudit
    <3>2. QED
      BY <2>1, <2>2, <3>1 DEF TypeOK, Location, Decisions, Undecided
  <2>5. QED
    BY <2>3, <2>4
<1>3. QED
  BY <1>1, <1>2

\* The variables keep their types in every state the gateway can reach.
THEOREM TypeCorrect == Spec => []TypeOK
<1>1. Init => TypeOK
  <2> SUFFICES ASSUME Init PROVE TypeOK
    OBVIOUS
  <2> USE GatewayAssumption DEF GatewayAssumption, Init
  <2>1. pc \in [Requests -> Location] /\ reply \in [Requests -> Reply]
    BY DEF Location, Reply
  <2>2. sequence \in [Requests -> 0 .. MaxSequence] /\ last_allocated \in 0 .. MaxSequence
    OBVIOUS
  <2>3. decision \in [Requests -> Decisions \cup {Undecided}]
    OBVIOUS
  <2>4. waiters \in Seq(Requests) /\ log \in Seq(Event)
    OBVIOUS
  <2>5. /\ permits \subseteq Requests /\ readers \subseteq Requests
        /\ contacted \subseteq Requests /\ closed \subseteq Requests
    OBVIOUS
  <2>6. /\ audit_failed \in BOOLEAN /\ poisoned \in BOOLEAN
        /\ fatal_errors \in BOOLEAN /\ exited \in BOOLEAN
    OBVIOUS
  <2>7. \A r \in Requests : pc[r] \notin {"append", "appended"}
    OBVIOUS
  <2>8. QED
    BY <2>1, <2>2, <2>3, <2>4, <2>5, <2>6, <2>7 DEF TypeOK
<1>2. TypeOK /\ [Next]_vars => TypeOK'
  <2> SUFFICES ASSUME TypeOK, [Next]_vars PROVE TypeOK'
    OBVIOUS
  <2> USE GatewayAssumption DEF GatewayAssumption, TypeOK, Location, Reply, Decisions, Undecided, Goto, idVars,
          gateVars, sinkVars
  <2>1. ASSUME NEW r \in Requests, Arrive(r) PROVE TypeOK'
    BY <2>1 DEF Arrive
  <2>2. ASSUME NEW r \in Requests, RequireAuditAvailable(r) PROVE TypeOK'
    BY <2>2 DEF RequireAuditAvailable, FailRequest, Answer, ReportFatal
  <2>3. ASSUME NEW r \in Requests, TryAcquire(r) PROVE TypeOK'
    BY <2>3 DEF TryAcquire
  <2>4. ASSUME NEW r \in Requests, AllocateRequestId(r) PROVE TypeOK'
    BY <2>4, AllocateKeepsTypes
  <2>5. ASSUME NEW r \in Requests, AcceptTarget(r) PROVE TypeOK'
    BY <2>5 DEF AcceptTarget, MustAudit
  <2>6. ASSUME NEW r \in Requests, ReadBody(r) PROVE TypeOK'
    <3>1. waiters' \in Seq(Requests)
      BY <2>6, QueueType DEF ReadBody
    <3>2. QED
      BY <2>6, <3>1 DEF ReadBody, MustAudit
  <2>7. ASSUME NEW r \in Requests, AcquireRead(r) PROVE TypeOK'
    BY <2>7 DEF AcquireRead
  <2>8. ASSUME NEW r \in Requests, BeginForwarding(r) PROVE TypeOK'
    BY <2>8 DEF BeginForwarding, FailRequest, Answer, ReportFatal
  <2>9. ASSUME NEW r \in Requests, SendReturns(r) PROVE TypeOK'
    BY <2>9 DEF SendReturns, Answer, MustAudit
  <2>10. ASSUME NEW r \in Requests, StreamEnds(r) PROVE TypeOK'
    BY <2>10 DEF StreamEnds, MustAudit
  <2>11. ASSUME NEW r \in Requests, AuditUnavailable(r) PROVE TypeOK'
    BY <2>11 DEF AuditUnavailable
  <2>12. ASSUME NEW r \in Requests, SendTerminalStreamError(r) PROVE TypeOK'
    BY <2>12 DEF SendTerminalStreamError, EndStream, Answer
  <2>13. ASSUME NEW r \in Requests, SendStreamError(r) PROVE TypeOK'
    BY <2>13 DEF SendStreamError, EndStream, FailedBody, Answer
  <2>14. ASSUME NEW r \in Requests, EventPanics(r) PROVE TypeOK'
    BY <2>14 DEF EventPanics, Answer
  <2>15. ASSUME NEW r \in Requests, AppendOk(r) PROVE TypeOK'
    <3>1. log' \in Seq(Event)
      BY <2>15, LogType DEF AppendOk
    <3>2. QED
      BY <2>15, <3>1 DEF AppendOk
  <2>16. ASSUME NEW r \in Requests, AppendFails(r) PROVE TypeOK'
    <3>1. log' \in Seq(Event)
      BY <2>16, LogType DEF AppendFails
    <3>2. QED
      BY <2>16, <3>1 DEF AppendFails
  <2>17. ASSUME NEW r \in Requests, Complete(r) PROVE TypeOK'
    BY <2>17 DEF Complete, Answer, RepliesFor, FailedBody, Started
  <2>18. ASSUME NEW r \in Requests, StoreAuditFailed(r) PROVE TypeOK'
    BY <2>18 DEF StoreAuditFailed
  <2>19. ASSUME NEW r \in Requests, RequestWrite(r) PROVE TypeOK'
    BY <2>19 DEF RequestWrite
  <2>20. ASSUME NEW r \in Requests, AcquireWrite(r) PROVE TypeOK'
    BY <2>20 DEF AcquireWrite
  <2>21. ASSUME NEW r \in Requests, ReportAuditFailure(r) PROVE TypeOK'
    BY <2>21 DEF ReportAuditFailure, FailRequest, Answer, ReportFatal, Started
  <2>22. ASSUME NEW r \in Requests, DropHandler(r) PROVE TypeOK'
    <3>1. waiters' \in Seq(Requests)
      <4>1. CASE \E i \in DOMAIN waiters : waiters[i] = r
        BY <2>22, <4>1, RemoveAtType DEF DropHandler
      <4>2. CASE ~ \E i \in DOMAIN waiters : waiters[i] = r
        BY <2>22, <4>2 DEF DropHandler
      <4>3. QED
        BY <4>1, <4>2
    <3>2. pc' = [pc EXCEPT ![r] = "dropped"]
      BY <2>22 DEF DropHandler
    <3>3. log' \in Seq(Event)
      BY <2>22, LogType DEF DropHandler
    <3>4. QED
      BY <2>22, <3>1, <3>2, <3>3 DEF DropHandler
  <2>23. ASSUME Exit PROVE TypeOK'
    BY <2>23 DEF Exit
  <2>24. ASSUME UNCHANGED vars PROVE TypeOK'
    BY <2>24 DEF vars
  <2>25. QED
    BY <2>1, <2>2, <2>3, <2>4, <2>5, <2>6, <2>7, <2>8, <2>9, <2>10, <2>11, <2>12, <2>13, <2>14,
       <2>15, <2>16, <2>17, <2>18, <2>19, <2>20, <2>21, <2>22, <2>23, <2>24
       DEF Next, RequestStep, HandlerStep, StreamStep, AuditStep, Rest
<1>3. QED
  BY <1>1, <1>2, PTL DEF Spec

-----------------------------------------------------------------------------
(***************************************************************************)
(* Why no send outlives close_forwarding.  The flag is stored before the   *)
(* write lock is asked for, so a closed gate implies the flag; whoever     *)
(* sends holds a read guard, so the write lock is granted only when nobody *)
(* sends; and whoever acquires a read guard afterwards finds the flag set. *)
(***************************************************************************)
GateInv ==
  /\ closed # {} => audit_failed
  /\ \A r \in Requests : pc[r] \in {"lock", "drain", "report", "abort"} => audit_failed
  /\ \A r \in Requests : pc[r] \in {"begin", "sending"} => r \in readers
  /\ NoSendAfterClose

\* GateInv holds in every reachable state.
LEMMA GateInvariant == Spec => []GateInv
<1>1. Init => GateInv
  BY DEF Init, GateInv, NoSendAfterClose
<1>2. TypeOK /\ GateInv /\ [Next]_vars => GateInv'
  <2> SUFFICES ASSUME TypeOK, GateInv, [Next]_vars PROVE GateInv'
    OBVIOUS
  <2> USE DEF GateInv, NoSendAfterClose, Goto, gateVars
  <2>1. pc \in [Requests -> Location]
    BY DEF TypeOK
  <2>2. ASSUME NEW r \in Requests, Arrive(r) PROVE GateInv'
    BY <2>1, <2>2 DEF Arrive
  <2>3. ASSUME NEW r \in Requests, RequireAuditAvailable(r) PROVE GateInv'
    BY <2>1, <2>3 DEF RequireAuditAvailable
  <2>4. ASSUME NEW r \in Requests, TryAcquire(r) PROVE GateInv'
    BY <2>1, <2>4 DEF TryAcquire
  <2>5. ASSUME NEW r \in Requests, AllocateRequestId(r) PROVE GateInv'
    BY <2>1, <2>5 DEF AllocateRequestId
  <2>6. ASSUME NEW r \in Requests, AcceptTarget(r) PROVE GateInv'
    BY <2>1, <2>6 DEF AcceptTarget
  <2>7. ASSUME NEW r \in Requests, ReadBody(r) PROVE GateInv'
    BY <2>1, <2>7 DEF ReadBody
  <2>8. ASSUME NEW r \in Requests, AcquireRead(r) PROVE GateInv'
    BY <2>1, <2>8 DEF AcquireRead
  <2>9. ASSUME NEW r \in Requests, BeginForwarding(r) PROVE GateInv'
    BY <2>1, <2>9 DEF BeginForwarding
  <2>10. ASSUME NEW r \in Requests, SendReturns(r) PROVE GateInv'
    BY <2>1, <2>10 DEF SendReturns
  <2>11. ASSUME NEW r \in Requests, StreamEnds(r) PROVE GateInv'
    BY <2>1, <2>11 DEF StreamEnds
  <2>12. ASSUME NEW r \in Requests, AuditUnavailable(r) PROVE GateInv'
    BY <2>1, <2>12 DEF AuditUnavailable
  <2>13. ASSUME NEW r \in Requests, SendTerminalStreamError(r) PROVE GateInv'
    BY <2>1, <2>13 DEF SendTerminalStreamError, EndStream
  <2>14. ASSUME NEW r \in Requests, SendStreamError(r) PROVE GateInv'
    BY <2>1, <2>14 DEF SendStreamError, EndStream
  <2>15. ASSUME NEW r \in Requests, EventPanics(r) PROVE GateInv'
    BY <2>1, <2>15 DEF EventPanics
  <2>16. ASSUME NEW r \in Requests, AppendOk(r) PROVE GateInv'
    BY <2>1, <2>16 DEF AppendOk
  <2>17. ASSUME NEW r \in Requests, AppendFails(r) PROVE GateInv'
    BY <2>1, <2>17 DEF AppendFails
  <2>18. ASSUME NEW r \in Requests, Complete(r) PROVE GateInv'
    BY <2>1, <2>18 DEF Complete
  <2>19. ASSUME NEW r \in Requests, StoreAuditFailed(r) PROVE GateInv'
    BY <2>1, <2>19 DEF StoreAuditFailed
  <2>20. ASSUME NEW r \in Requests, RequestWrite(r) PROVE GateInv'
    BY <2>1, <2>20 DEF RequestWrite
  <2>21. ASSUME NEW r \in Requests, AcquireWrite(r) PROVE GateInv'
    BY <2>1, <2>21 DEF AcquireWrite
  <2>22. ASSUME NEW r \in Requests, ReportAuditFailure(r) PROVE GateInv'
    BY <2>1, <2>22 DEF ReportAuditFailure
  <2>23. ASSUME NEW r \in Requests, DropHandler(r) PROVE GateInv'
    BY <2>1, <2>23 DEF DropHandler
  <2>24. ASSUME Exit PROVE GateInv'
    BY <2>24 DEF Exit
  <2>25. ASSUME UNCHANGED vars PROVE GateInv'
    BY <2>25 DEF vars
  <2>26. QED
    BY <2>2, <2>3, <2>4, <2>5, <2>6, <2>7, <2>8, <2>9, <2>10, <2>11, <2>12, <2>13, <2>14, <2>15, <2>16, <2>17, <2>18, <2>19, <2>20, <2>21, <2>22, <2>23, <2>24, <2>25
       DEF Next, RequestStep, HandlerStep, StreamStep, AuditStep, Rest
<1>3. QED
  BY <1>1, <1>2, TypeCorrect, PTL DEF Spec

\* No upstream send is in flight once any close_forwarding call has returned,
\* however many requests race and whoever hangs up.
THEOREM ClosedGateDrained == Spec => []NoSendAfterClose
<1>1. GateInv => NoSendAfterClose
  BY DEF GateInv
<1>2. QED
  BY <1>1, GateInvariant, PTL

-----------------------------------------------------------------------------
(***************************************************************************)
(* Why no answer precedes its event.  A request passes from "append" to    *)
(* "appended" only by the step that puts its event, with the decision it   *)
(* owes, into the log; the log only grows, and only a request at           *)
(* "appended" is answered with a decision.  Cut bodies, which need not be  *)
(* recorded, are treated below.                                            *)
(***************************************************************************)
Recorded(r, what) == \E i \in DOMAIN log : log[i].req = r /\ log[i].decision = what

AnswerInv ==
  \A r \in Requests :
    /\ pc[r] = "appended" => Recorded(r, decision[r])
    /\ reply[r] = "denied" => Recorded(r, "denied")
    /\ reply[r] = "complete" => Recorded(r, "allowed")
    /\ reply[r] = "bad_gateway" =>
         Recorded(r, "upstream_error") \/ Recorded(r, "response_error")

\* What is recorded stays recorded when the log grows by one event.
LEMMA RecordedStays ==
  ASSUME TypeOK, NEW r \in Requests, NEW what, Recorded(r, what),
         log' = log \/ \E s \in Requests : log' = Append(log, NewEvent(s))
  PROVE  Recorded(r, what)'
<1>1. log \in Seq(Event)
  BY DEF TypeOK
<1>2. PICK i \in DOMAIN log : log[i].req = r /\ log[i].decision = what
  BY DEF Recorded
<1>3. i \in DOMAIN log' /\ log'[i] = log[i]
  BY <1>1, <1>2
<1>4. QED
  BY <1>2, <1>3 DEF Recorded

\* The event a request owes is recorded once it is appended.
LEMMA AppendRecords ==
  ASSUME TypeOK, NEW r \in Requests, log' = Append(log, NewEvent(r)), UNCHANGED decision
  PROVE  Recorded(r, decision[r])'
<1>1. log \in Seq(Event)
  BY DEF TypeOK
<1>2. Len(log) + 1 \in DOMAIN log' /\ log'[Len(log) + 1] = NewEvent(r)
  BY <1>1
<1>3. NewEvent(r).req = r /\ NewEvent(r).decision = decision[r]
  BY DEF NewEvent
<1>4. QED
  BY <1>2, <1>3 DEF Recorded

\* AnswerInv holds in every reachable state.
LEMMA AnswerInvariant == Spec => []AnswerInv
<1>1. Init => AnswerInv
  BY DEF Init, AnswerInv
<1>2. TypeOK /\ AnswerInv /\ [Next]_vars => AnswerInv'
  <2> SUFFICES ASSUME TypeOK, AnswerInv, [Next]_vars PROVE AnswerInv'
    OBVIOUS
  <2>1. /\ pc \in [Requests -> Location] /\ reply \in [Requests -> Reply]
        /\ decision \in [Requests -> Decisions \cup {Undecided}]
    BY DEF TypeOK
  <2> USE DEF AnswerInv, Recorded, Goto, sinkVars
  <2>2. ASSUME NEW r \in Requests, Arrive(r) PROVE AnswerInv'
    BY <2>1, <2>2 DEF Arrive
  <2>3. ASSUME NEW r \in Requests, RequireAuditAvailable(r) PROVE AnswerInv'
    BY <2>1, <2>3 DEF RequireAuditAvailable, FailRequest, Answer
  <2>4. ASSUME NEW r \in Requests, TryAcquire(r) PROVE AnswerInv'
    BY <2>1, <2>4 DEF TryAcquire
  <2>5. ASSUME NEW r \in Requests, AllocateRequestId(r) PROVE AnswerInv'
    BY <2>1, <2>5 DEF AllocateRequestId, FailRequest, Answer, MustAudit
  <2>6. ASSUME NEW r \in Requests, AcceptTarget(r) PROVE AnswerInv'
    BY <2>1, <2>6 DEF AcceptTarget, MustAudit
  <2>7. ASSUME NEW r \in Requests, ReadBody(r) PROVE AnswerInv'
    BY <2>1, <2>7 DEF ReadBody, MustAudit
  <2>8. ASSUME NEW r \in Requests, AcquireRead(r) PROVE AnswerInv'
    BY <2>1, <2>8 DEF AcquireRead
  <2>9. ASSUME NEW r \in Requests, BeginForwarding(r) PROVE AnswerInv'
    BY <2>1, <2>9 DEF BeginForwarding, FailRequest, Answer
  <2>10. ASSUME NEW r \in Requests, SendReturns(r) PROVE AnswerInv'
    BY <2>1, <2>10 DEF SendReturns, Answer, MustAudit
  <2>11. ASSUME NEW r \in Requests, StreamEnds(r) PROVE AnswerInv'
    BY <2>1, <2>11 DEF StreamEnds, MustAudit
  <2>12. ASSUME NEW r \in Requests, AuditUnavailable(r) PROVE AnswerInv'
    BY <2>1, <2>12 DEF AuditUnavailable
  <2>13. ASSUME NEW r \in Requests, SendTerminalStreamError(r) PROVE AnswerInv'
    BY <2>1, <2>13 DEF SendTerminalStreamError, EndStream, Answer
  <2>14. ASSUME NEW r \in Requests, SendStreamError(r) PROVE AnswerInv'
    BY <2>1, <2>14 DEF SendStreamError, EndStream, FailedBody, Answer
  <2>15. ASSUME NEW r \in Requests, EventPanics(r) PROVE AnswerInv'
    BY <2>1, <2>15 DEF EventPanics, Answer
  <2>16. ASSUME NEW r \in Requests, AppendOk(r) PROVE AnswerInv'
    <3>1. /\ log' = Append(log, NewEvent(r)) /\ UNCHANGED <<reply, decision>>
          /\ pc' = [pc EXCEPT ![r] = "appended"]
      BY <2>16 DEF AppendOk
    <3>2. Recorded(r, decision[r])'
      BY <3>1, AppendRecords
    <3>3. \A s \in Requests : \A what : Recorded(s, what) => Recorded(s, what)'
      BY <3>1, RecordedStays
    <3>4. QED
      <4> HIDE DEF Recorded
      <4>1. QED
        BY <2>1, <3>1, <3>2, <3>3
  <2>17. ASSUME NEW r \in Requests, AppendFails(r) PROVE AnswerInv'
    <3>1. /\ log' = log \/ log' = Append(log, NewEvent(r))
          /\ UNCHANGED <<reply, decision>>
          /\ pc' = [pc EXCEPT ![r] = "close"]
      BY <2>17 DEF AppendFails
    <3>2. \A s \in Requests : \A what : Recorded(s, what) => Recorded(s, what)'
      BY <3>1, RecordedStays
    <3>3. QED
      <4> HIDE DEF Recorded
      <4>1. QED
        BY <2>1, <3>1, <3>2
  <2>18. ASSUME NEW r \in Requests, Complete(r) PROVE AnswerInv'
    <3>1. decision[r] \in Decisions /\ pc[r] = "appended"
      BY <2>18 DEF Complete, TypeOK
    <3>2. /\ UNCHANGED <<log, decision>> /\ pc' = [pc EXCEPT ![r] = "done"]
          /\ \E what \in RepliesFor(r) : reply' = [reply EXCEPT ![r] = what]
      BY <2>18 DEF Complete, Answer
    <3>3. CASE decision[r] = "denied"
      BY <2>1, <3>1, <3>2, <3>3 DEF RepliesFor, Reply
    <3>4. CASE decision[r] = "allowed"
      BY <2>1, <3>1, <3>2, <3>4 DEF RepliesFor, Reply
    <3>5. CASE decision[r] \in {"upstream_error", "response_error"}
      BY <2>1, <3>1, <3>2, <3>5 DEF RepliesFor, FailedBody, Reply
    <3>6. QED
      BY <3>1, <3>3, <3>4, <3>5 DEF Decisions
  <2>19. ASSUME NEW r \in Requests, StoreAuditFailed(r) PROVE AnswerInv'
    BY <2>1, <2>19 DEF StoreAuditFailed
  <2>20. ASSUME NEW r \in Requests, RequestWrite(r) PROVE AnswerInv'
    BY <2>1, <2>20 DEF RequestWrite
  <2>21. ASSUME NEW r \in Requests, AcquireWrite(r) PROVE AnswerInv'
    BY <2>1, <2>21 DEF AcquireWrite
  <2>22. ASSUME NEW r \in Requests, ReportAuditFailure(r) PROVE AnswerInv'
    BY <2>1, <2>22 DEF ReportAuditFailure, FailRequest, Answer
  <2>23. ASSUME NEW r \in Requests, DropHandler(r) PROVE AnswerInv'
    <3>1. /\ log' = log \/ log' = Append(log, NewEvent(r))
          /\ UNCHANGED <<reply, decision>>
          /\ pc' = [pc EXCEPT ![r] = "dropped"]
      BY <2>23 DEF DropHandler
    <3>2. \A s \in Requests : \A what : Recorded(s, what) => Recorded(s, what)'
      BY <3>1, RecordedStays
    <3>3. QED
      <4> HIDE DEF Recorded
      <4>1. QED
        BY <2>1, <3>1, <3>2
  <2>24. ASSUME Exit PROVE AnswerInv'
    BY <2>24 DEF Exit
  <2>25. ASSUME UNCHANGED vars PROVE AnswerInv'
    BY <2>25 DEF vars
  <2>26. QED
    BY <2>2, <2>3, <2>4, <2>5, <2>6, <2>7, <2>8, <2>9, <2>10, <2>11, <2>12, <2>13, <2>14, <2>15, <2>16, <2>17, <2>18, <2>19, <2>20, <2>21, <2>22, <2>23, <2>24, <2>25
       DEF Next, RequestStep, HandlerStep, StreamStep, AuditStep, Rest
<1>3. QED
  BY <1>1, <1>2, TypeCorrect, PTL DEF Spec

-----------------------------------------------------------------------------
(***************************************************************************)
(* What the log says of a request.  Until it owes its event a request is   *)
(* not in the log, and the event it comes to owe is a denial exactly if    *)
(* the provider was not contacted; it owes it once, because no step leads  *)
(* from behind the append back to it.  One whose event could not be built  *)
(* is not in the log either.                                               *)
(***************************************************************************)
Uncontacted ==
  {"idle", "proxy", "admit", "allocate", "accept", "body", "gate", "begin"}

Unlogged == Uncontacted \cup {"sending", "streaming", "append", "panicked"}

ContactInv ==
  /\ \A r \in Requests : pc[r] \in Uncontacted => r \notin contacted
  /\ \A r \in Requests : pc[r] \in {"sending", "streaming"} => r \in contacted
  /\ \A r \in Requests : pc[r] = "append" => (decision[r] = "denied" <=> r \notin contacted)
  /\ \A r \in Requests : pc[r] \in {"close", "lock", "drain", "report", "abort"} =>
       decision[r] = "denied" \/ r \in contacted
  /\ \A i \in DOMAIN log : pc[log[i].req] \notin Unlogged
  /\ \A i \in DOMAIN log : log[i].decision = decision[log[i].req]
  /\ LogTellsContact

\* An event is appended behind the others and names the request that owed it.
LEMMA AppendedEvent ==
  ASSUME TypeOK, NEW r \in Requests, log' = Append(log, NewEvent(r))
  PROVE  /\ DOMAIN log' = DOMAIN log \cup {Len(log) + 1}
         /\ \A i \in DOMAIN log : i # Len(log) + 1 /\ log'[i] = log[i]
         /\ log'[Len(log) + 1].req = r
         /\ log'[Len(log) + 1].sequence = sequence[r]
         /\ log'[Len(log) + 1].decision = decision[r]
<1>1. log \in Seq(Event)
  BY DEF TypeOK
<1>2. log'[Len(log) + 1] = NewEvent(r)
  BY <1>1
<1>3. DOMAIN log' = DOMAIN log \cup {Len(log) + 1}
  BY <1>1
<1>4. \A i \in DOMAIN log : i # Len(log) + 1 /\ log'[i] = log[i]
  BY <1>1
<1>5. QED
  BY <1>2, <1>3, <1>4 DEF NewEvent

\* The requests the log names are requests.
LEMMA LoggedRequests == TypeOK => \A i \in DOMAIN log : log[i].req \in Requests
<1> SUFFICES ASSUME TypeOK, NEW i \in DOMAIN log PROVE log[i].req \in Requests
  OBVIOUS
<1>1. log \in Seq(Event)
  BY DEF TypeOK
<1>2. log[i] \in Event
  BY <1>1
<1>3. QED
  BY <1>2 DEF Event

\* ContactInv holds in every reachable state.
LEMMA ContactInvariant == Spec => []ContactInv
<1>1. Init => ContactInv
  BY DEF Init, ContactInv, LogTellsContact
<1>2. TypeOK /\ ContactInv /\ [Next]_vars => ContactInv'
  <2> SUFFICES ASSUME TypeOK, ContactInv, [Next]_vars PROVE ContactInv'
    OBVIOUS
  <2>1. /\ pc \in [Requests -> Location]
        /\ decision \in [Requests -> Decisions \cup {Undecided}]
        /\ \A i \in DOMAIN log : log[i].req \in Requests
    BY LoggedRequests DEF TypeOK
  <2> USE DEF ContactInv, LogTellsContact, Uncontacted, Unlogged, Goto, sinkVars
  <2>2. ASSUME NEW r \in Requests, Arrive(r) PROVE ContactInv'
    BY <2>1, <2>2 DEF Arrive
  <2>3. ASSUME NEW r \in Requests, RequireAuditAvailable(r) PROVE ContactInv'
    BY <2>1, <2>3 DEF RequireAuditAvailable
  <2>4. ASSUME NEW r \in Requests, TryAcquire(r) PROVE ContactInv'
    BY <2>1, <2>4 DEF TryAcquire
  <2>5. ASSUME NEW r \in Requests, AllocateRequestId(r) PROVE ContactInv'
    BY <2>1, <2>5 DEF AllocateRequestId, MustAudit
  <2>6. ASSUME NEW r \in Requests, AcceptTarget(r) PROVE ContactInv'
    BY <2>1, <2>6 DEF AcceptTarget, MustAudit
  <2>7. ASSUME NEW r \in Requests, ReadBody(r) PROVE ContactInv'
    BY <2>1, <2>7 DEF ReadBody, MustAudit
  <2>8. ASSUME NEW r \in Requests, AcquireRead(r) PROVE ContactInv'
    BY <2>1, <2>8 DEF AcquireRead
  <2>9. ASSUME NEW r \in Requests, BeginForwarding(r) PROVE ContactInv'
    BY <2>1, <2>9 DEF BeginForwarding
  <2>10. ASSUME NEW r \in Requests, SendReturns(r) PROVE ContactInv'
    BY <2>1, <2>10 DEF SendReturns, MustAudit
  <2>11. ASSUME NEW r \in Requests, StreamEnds(r) PROVE ContactInv'
    BY <2>1, <2>11 DEF StreamEnds, MustAudit
  <2>12. ASSUME NEW r \in Requests, AuditUnavailable(r) PROVE ContactInv'
    BY <2>1, <2>12 DEF AuditUnavailable
  <2>13. ASSUME NEW r \in Requests, SendTerminalStreamError(r) PROVE ContactInv'
    BY <2>1, <2>13 DEF SendTerminalStreamError, EndStream
  <2>14. ASSUME NEW r \in Requests, SendStreamError(r) PROVE ContactInv'
    BY <2>1, <2>14 DEF SendStreamError, EndStream
  <2>15. ASSUME NEW r \in Requests, EventPanics(r) PROVE ContactInv'
    BY <2>1, <2>15 DEF EventPanics
  <2>16. ASSUME NEW r \in Requests, AppendOk(r) PROVE ContactInv'
    <3>1. /\ UNCHANGED <<decision, contacted>> /\ pc[r] = "append"
          /\ pc' = [pc EXCEPT ![r] = "appended"]
          /\ log' = Append(log, NewEvent(r))
      BY <2>16 DEF AppendOk
    <3>2. QED
      BY <2>1, <3>1, AppendedEvent
  <2>17. ASSUME NEW r \in Requests, AppendFails(r) PROVE ContactInv'
    <3>1. /\ UNCHANGED <<decision, contacted>> /\ pc[r] = "append"
          /\ pc' = [pc EXCEPT ![r] = "close"]
          /\ log' = log \/ log' = Append(log, NewEvent(r))
      BY <2>17 DEF AppendFails
    <3>2. CASE log' = Append(log, NewEvent(r))
      BY <2>1, <3>1, <3>2, AppendedEvent
    <3>3. CASE log' = log
      BY <2>1, <3>1, <3>3
    <3>4. QED
      BY <3>1, <3>2, <3>3
  <2>18. ASSUME NEW r \in Requests, Complete(r) PROVE ContactInv'
    BY <2>1, <2>18 DEF Complete
  <2>19. ASSUME NEW r \in Requests, StoreAuditFailed(r) PROVE ContactInv'
    BY <2>1, <2>19 DEF StoreAuditFailed
  <2>20. ASSUME NEW r \in Requests, RequestWrite(r) PROVE ContactInv'
    BY <2>1, <2>20 DEF RequestWrite
  <2>21. ASSUME NEW r \in Requests, AcquireWrite(r) PROVE ContactInv'
    BY <2>1, <2>21 DEF AcquireWrite
  <2>22. ASSUME NEW r \in Requests, ReportAuditFailure(r) PROVE ContactInv'
    BY <2>1, <2>22 DEF ReportAuditFailure
  <2>23. ASSUME NEW r \in Requests, DropHandler(r) PROVE ContactInv'
    <3>1. /\ UNCHANGED <<decision, contacted>> /\ (log' = log \/ pc[r] = "append")
          /\ pc' = [pc EXCEPT ![r] = "dropped"]
          /\ log' = log \/ log' = Append(log, NewEvent(r))
      BY <2>23 DEF DropHandler
    <3>2. CASE log' = Append(log, NewEvent(r))
      BY <2>1, <3>1, <3>2, AppendedEvent
    <3>3. CASE log' = log
      BY <2>1, <3>1, <3>3
    <3>4. QED
      BY <3>1, <3>2, <3>3
  <2>24. ASSUME Exit PROVE ContactInv'
    BY <2>1, <2>24 DEF Exit
  <2>25. ASSUME UNCHANGED vars PROVE ContactInv'
    BY <2>1, <2>25 DEF vars
  <2>26. QED
    BY <2>2, <2>3, <2>4, <2>5, <2>6, <2>7, <2>8, <2>9, <2>10, <2>11, <2>12, <2>13, <2>14, <2>15, <2>16, <2>17, <2>18, <2>19, <2>20, <2>21, <2>22, <2>23, <2>24, <2>25
       DEF Next, RequestStep, HandlerStep, StreamStep, AuditStep, Rest
<1>3. QED
  BY <1>1, <1>2, TypeCorrect, PTL DEF Spec

\* The log says denied of exactly the recorded requests the provider was not
\* contacted for, for every number of requests.
THEOREM LogTruthful == Spec => []LogTellsContact
<1>1. ContactInv => LogTellsContact
  BY DEF ContactInv
<1>2. QED
  BY <1>1, ContactInvariant, PTL

-----------------------------------------------------------------------------
(***************************************************************************)
(* What a cut body stands for.  send_stream_error is reached with the      *)
(* failure recorded or the audit failed, and only for a body that is to be *)
(* recorded as failed; the other cut bodies are those of panicked tasks.   *)
(***************************************************************************)
CutInv ==
  \A r \in Requests : reply[r] = "cut" =>
    \/ pc[r] = "panicked"
    \/ /\ pc[r] = "done" /\ decision[r] = "response_error"
       /\ audit_failed \/ Recorded(r, "response_error")

\* CutInv holds in every reachable state.
LEMMA CutInvariant == Spec => []CutInv
<1>1. Init => CutInv
  BY DEF Init, CutInv
<1>2. TypeOK /\ GateInv /\ AnswerInv /\ CutInv /\ [Next]_vars => CutInv'
  <2> SUFFICES ASSUME TypeOK, GateInv, AnswerInv, CutInv, [Next]_vars PROVE CutInv'
    OBVIOUS
  <2>1. /\ pc \in [Requests -> Location] /\ reply \in [Requests -> Reply]
        /\ decision \in [Requests -> Decisions \cup {Undecided}]
    BY DEF TypeOK
  <2>2. log' = log => \A r \in Requests : \A what : Recorded(r, what)' = Recorded(r, what)
    BY DEF Recorded
  <2>3. \A r, s \in Requests : log' = Append(log, NewEvent(s)) =>
          \A what : Recorded(r, what) => Recorded(r, what)'
    BY RecordedStays
  <2> USE <2>1, <2>2, <2>3 DEF CutInv, Goto, sinkVars
  <2>4. ASSUME NEW r \in Requests, Arrive(r) \/ TryAcquire(r) PROVE CutInv'
    BY <2>4 DEF Arrive, TryAcquire
  <2>5. ASSUME NEW r \in Requests, RequireAuditAvailable(r) PROVE CutInv'
    BY <2>5 DEF RequireAuditAvailable, FailRequest, Answer
  <2>6. ASSUME NEW r \in Requests, AllocateRequestId(r) PROVE CutInv'
    BY <2>6 DEF AllocateRequestId, FailRequest, Answer, MustAudit
  <2>7. ASSUME NEW r \in Requests, AcceptTarget(r) \/ ReadBody(r) PROVE CutInv'
    BY <2>7 DEF AcceptTarget, ReadBody, MustAudit
  <2>8. ASSUME NEW r \in Requests, AcquireRead(r) \/ BeginForwarding(r) PROVE CutInv'
    BY <2>8 DEF AcquireRead, BeginForwarding, FailRequest, Answer
  <2>9. ASSUME NEW r \in Requests, SendReturns(r) PROVE CutInv'
    BY <2>9 DEF SendReturns, Answer, MustAudit
  <2>10. ASSUME NEW r \in Requests, StreamEnds(r) \/ AuditUnavailable(r) PROVE CutInv'
    BY <2>10 DEF StreamEnds, AuditUnavailable, MustAudit
  <2>11. ASSUME NEW r \in Requests, SendStreamError(r) \/ SendTerminalStreamError(r)
         PROVE  CutInv'
    BY <2>11 DEF SendStreamError, SendTerminalStreamError, EndStream, FailedBody, Answer, GateInv
  <2>12. ASSUME NEW r \in Requests, AppendOk(r) \/ AppendFails(r) PROVE CutInv'
    <3>1. /\ log' = log \/ log' = Append(log, NewEvent(r))
          /\ UNCHANGED <<reply, decision, audit_failed>> /\ pc[r] = "append"
          /\ \E to \in {"appended", "close"} : pc' = [pc EXCEPT ![r] = to]
      BY <2>12 DEF AppendOk, AppendFails
    <3>2. QED
      BY <3>1
  <2>13. ASSUME NEW r \in Requests, EventPanics(r) PROVE CutInv'
    BY <2>13 DEF EventPanics, Answer
  <2>14. ASSUME NEW r \in Requests, Complete(r) PROVE CutInv'
    <3>1. /\ UNCHANGED <<log, decision, audit_failed>> /\ pc' = [pc EXCEPT ![r] = "done"]
          /\ pc[r] = "appended" /\ Recorded(r, decision[r]) /\ decision[r] \in Decisions
          /\ \E what \in RepliesFor(r) : reply' = [reply EXCEPT ![r] = what]
      BY <2>14 DEF Complete, Answer, AnswerInv, TypeOK
    <3>2. CASE decision[r] = "response_error"
      BY <3>1, <3>2 DEF RepliesFor, FailedBody
    <3>3. CASE decision[r] \in {"denied", "allowed", "upstream_error"}
      BY <3>1, <3>3 DEF RepliesFor
    <3>4. QED
      BY <3>1, <3>2, <3>3 DEF Decisions
  <2>15. ASSUME NEW r \in Requests, StoreAuditFailed(r) \/ RequestWrite(r) \/ AcquireWrite(r)
         PROVE  CutInv'
    BY <2>15 DEF StoreAuditFailed, RequestWrite, AcquireWrite
  <2>16. ASSUME NEW r \in Requests, ReportAuditFailure(r) PROVE CutInv'
    BY <2>16 DEF ReportAuditFailure, FailRequest, Answer
  <2>17. ASSUME NEW r \in Requests, DropHandler(r) PROVE CutInv'
    <3>1. /\ log' = log \/ log' = Append(log, NewEvent(r))
          /\ UNCHANGED <<reply, decision, audit_failed>>
          /\ pc[r] \notin {"done", "panicked"} /\ pc' = [pc EXCEPT ![r] = "dropped"]
      BY <2>17 DEF DropHandler
    <3>2. QED
      BY <3>1
  <2>18. ASSUME Exit \/ UNCHANGED vars PROVE CutInv'
    BY <2>18 DEF Exit, vars
  <2>19. QED
    BY <2>4, <2>5, <2>6, <2>7, <2>8, <2>9, <2>10, <2>11, <2>12, <2>13, <2>14, <2>15, <2>16,
       <2>17, <2>18
       DEF Next, RequestStep, HandlerStep, StreamStep, AuditStep, Rest
<1>3. QED
  BY <1>1, <1>2, TypeCorrect, GateInvariant, AnswerInvariant, PTL DEF Spec

\* No harness is told a decision that is not in the log, and a body that only looks
\* whole never stands for an allowed exchange, for every number of requests and
\* whatever fails, hangs up or panics.
THEOREM AuditedBeforeAnswered == Spec => []NoUnauditedAnswer
<1>1. AnswerInv /\ ContactInv /\ CutInv => NoUnauditedAnswer
  <2> SUFFICES ASSUME AnswerInv, ContactInv, CutInv,
                      NEW r \in Requests, reply[r] \in DOMAIN Told
               PROVE  \/ HasEvent(r, Told[reply[r]])
                      \/ /\ reply[r] = "cut" /\ ~HasEvent(r, {"allowed"})
                         /\ audit_failed \/ pc[r] = "panicked"
    BY DEF NoUnauditedAnswer
  <2>1. \A what, decisions : Recorded(r, what) /\ what \in decisions => HasEvent(r, decisions)
    BY DEF Recorded, HasEvent, EventsOf
  <2>2. CASE reply[r] \in {"denied", "bad_gateway", "complete"}
    <3>1. \E what \in Told[reply[r]] : Recorded(r, what)
      BY <2>2 DEF AnswerInv, Told
    <3>2. QED
      BY <2>1, <3>1
  <2>3. CASE reply[r] = "cut" /\ pc[r] = "panicked"
    BY <2>3 DEF ContactInv, Unlogged, HasEvent, EventsOf
  <2>4. CASE reply[r] = "cut" /\ decision[r] = "response_error" /\ audit_failed
    BY <2>4 DEF ContactInv, HasEvent, EventsOf
  <2>5. CASE reply[r] = "cut" /\ Recorded(r, "response_error")
    BY <2>1, <2>5 DEF Told
  <2>6. QED
    BY <2>2, <2>3, <2>4, <2>5 DEF Told, CutInv
<1>2. QED
  BY <1>1, AnswerInvariant, ContactInvariant, CutInvariant, PTL

-----------------------------------------------------------------------------
(***************************************************************************)
(* Why events are unique.  A sequence number is claimed together with the  *)
(* counter's advance, so two requests never hold the same one, and an      *)
(* event carries the number of its request.                                *)
(***************************************************************************)
Unnumbered == {"idle", "proxy", "admit", "allocate"}

IdentityInv ==
  /\ \A r \in Requests : pc[r] \in Unnumbered => sequence[r] = 0
  /\ \A r \in Requests : pc[r] \in Unlogged \ Unnumbered => sequence[r] # 0
  /\ \A r \in Requests : sequence[r] <= last_allocated
  /\ \A r, s \in Requests : r # s /\ sequence[r] = sequence[s] => sequence[r] = 0
  /\ \A i \in DOMAIN log : log[i].sequence = sequence[log[i].req] /\ log[i].sequence # 0
  /\ \A i, j \in DOMAIN log : i # j => log[i].req # log[j].req

\* IdentityInv makes both halves of an event's identity unique.
LEMMA IdentityInvSuffices == TypeOK /\ IdentityInv => OneEventPerRequest
BY LoggedRequests DEF IdentityInv, OneEventPerRequest

\* IdentityInv holds in every reachable state.
LEMMA IdentityInvariant == Spec => []IdentityInv
<1>1. Init => IdentityInv
  <2> SUFFICES ASSUME Init PROVE IdentityInv
    OBVIOUS
  <2>1. \A r \in Requests : pc[r] = "idle" /\ sequence[r] = 0
    BY DEF Init
  <2>2. 0 <= last_allocated
    BY GatewayAssumption DEF GatewayAssumption, Init
  <2>3. DOMAIN log = {}
    BY DEF Init
  <2>4. QED
    BY <2>1, <2>2, <2>3 DEF IdentityInv, Unnumbered, Uncontacted, Unlogged
<1>2. TypeOK /\ ContactInv /\ IdentityInv /\ [Next]_vars => IdentityInv'
  <2> SUFFICES ASSUME TypeOK, ContactInv, IdentityInv, [Next]_vars PROVE IdentityInv'
    OBVIOUS
  <2>1. /\ pc \in [Requests -> Location]
        /\ sequence \in [Requests -> 0 .. MaxSequence] /\ last_allocated \in 0 .. MaxSequence
        /\ \A i \in DOMAIN log : log[i].req \in Requests /\ pc[log[i].req] \notin Unlogged
        /\ MaxSequence \in Nat
    BY LoggedRequests, GatewayAssumption DEF TypeOK, ContactInv, GatewayAssumption
  <2> USE DEF IdentityInv, Unnumbered, Uncontacted, Unlogged, Goto, idVars, sinkVars
  <2>2. ASSUME NEW r \in Requests, Arrive(r) PROVE IdentityInv'
    BY <2>1, <2>2 DEF Arrive
  <2>3. ASSUME NEW r \in Requests, RequireAuditAvailable(r) PROVE IdentityInv'
    BY <2>1, <2>3 DEF RequireAuditAvailable
  <2>4. ASSUME NEW r \in Requests, TryAcquire(r) PROVE IdentityInv'
    BY <2>1, <2>4 DEF TryAcquire
  <2>5. ASSUME NEW r \in Requests, AllocateRequestId(r) PROVE IdentityInv'
    <3>1. CASE last_allocated = MaxSequence
      BY <2>1, <2>5, <3>1 DEF AllocateRequestId
    <3>2. CASE last_allocated # MaxSequence
      <4>1. /\ UNCHANGED log /\ pc[r] = "allocate"
            /\ last_allocated' = last_allocated + 1
            /\ sequence' = [sequence EXCEPT ![r] = last_allocated + 1]
            /\ \E to \in {"accept", "append"} : pc' = [pc EXCEPT ![r] = to]
        BY <2>5, <3>2 DEF AllocateRequestId
      <4>2. QED
        BY <2>1, <4>1
    <3>3. QED
      BY <3>1, <3>2
  <2>6. ASSUME NEW r \in Requests, AcceptTarget(r) PROVE IdentityInv'
    BY <2>1, <2>6 DEF AcceptTarget
  <2>7. ASSUME NEW r \in Requests, ReadBody(r) PROVE IdentityInv'
    BY <2>1, <2>7 DEF ReadBody
  <2>8. ASSUME NEW r \in Requests, AcquireRead(r) PROVE IdentityInv'
    BY <2>1, <2>8 DEF AcquireRead
  <2>9. ASSUME NEW r \in Requests, BeginForwarding(r) PROVE IdentityInv'
    BY <2>1, <2>9 DEF BeginForwarding
  <2>10. ASSUME NEW r \in Requests, SendReturns(r) PROVE IdentityInv'
    BY <2>1, <2>10 DEF SendReturns
  <2>11. ASSUME NEW r \in Requests, StreamEnds(r) PROVE IdentityInv'
    BY <2>1, <2>11 DEF StreamEnds
  <2>12. ASSUME NEW r \in Requests, AuditUnavailable(r) PROVE IdentityInv'
    BY <2>1, <2>12 DEF AuditUnavailable
  <2>13. ASSUME NEW r \in Requests, SendTerminalStreamError(r) PROVE IdentityInv'
    BY <2>1, <2>13 DEF SendTerminalStreamError, EndStream
  <2>14. ASSUME NEW r \in Requests, SendStreamError(r) PROVE IdentityInv'
    BY <2>1, <2>14 DEF SendStreamError, EndStream
  <2>15. ASSUME NEW r \in Requests, EventPanics(r) PROVE IdentityInv'
    BY <2>1, <2>15 DEF EventPanics
  <2>16. ASSUME NEW r \in Requests, AppendOk(r) PROVE IdentityInv'
    <3>1. /\ UNCHANGED <<sequence, last_allocated>> /\ pc[r] = "append"
          /\ pc' = [pc EXCEPT ![r] = "appended"]
          /\ log' = Append(log, NewEvent(r))
      BY <2>16 DEF AppendOk
    <3>2. QED
      BY <2>1, <3>1, AppendedEvent
  <2>17. ASSUME NEW r \in Requests, AppendFails(r) PROVE IdentityInv'
    <3>1. /\ UNCHANGED <<sequence, last_allocated>> /\ pc[r] = "append"
          /\ pc' = [pc EXCEPT ![r] = "close"]
          /\ log' = log \/ log' = Append(log, NewEvent(r))
      BY <2>17 DEF AppendFails
    <3>2. CASE log' = Append(log, NewEvent(r))
      BY <2>1, <3>1, <3>2, AppendedEvent
    <3>3. CASE log' = log
      BY <2>1, <3>1, <3>3
    <3>4. QED
      BY <3>1, <3>2, <3>3
  <2>18. ASSUME NEW r \in Requests, Complete(r) PROVE IdentityInv'
    BY <2>1, <2>18 DEF Complete
  <2>19. ASSUME NEW r \in Requests, StoreAuditFailed(r) PROVE IdentityInv'
    BY <2>1, <2>19 DEF StoreAuditFailed
  <2>20. ASSUME NEW r \in Requests, RequestWrite(r) PROVE IdentityInv'
    BY <2>1, <2>20 DEF RequestWrite
  <2>21. ASSUME NEW r \in Requests, AcquireWrite(r) PROVE IdentityInv'
    BY <2>1, <2>21 DEF AcquireWrite
  <2>22. ASSUME NEW r \in Requests, ReportAuditFailure(r) PROVE IdentityInv'
    BY <2>1, <2>22 DEF ReportAuditFailure
  <2>23. ASSUME NEW r \in Requests, DropHandler(r) PROVE IdentityInv'
    <3>1. /\ UNCHANGED <<sequence, last_allocated>> /\ (log' = log \/ pc[r] = "append")
          /\ pc' = [pc EXCEPT ![r] = "dropped"]
          /\ log' = log \/ log' = Append(log, NewEvent(r))
      BY <2>23 DEF DropHandler
    <3>2. CASE log' = Append(log, NewEvent(r))
      BY <2>1, <3>1, <3>2, AppendedEvent
    <3>3. CASE log' = log
      BY <2>1, <3>1, <3>3
    <3>4. QED
      BY <3>1, <3>2, <3>3
  <2>24. ASSUME Exit PROVE IdentityInv'
    BY <2>1, <2>24 DEF Exit
  <2>25. ASSUME UNCHANGED vars PROVE IdentityInv'
    BY <2>1, <2>25 DEF vars
  <2>26. QED
    BY <2>2, <2>3, <2>4, <2>5, <2>6, <2>7, <2>8, <2>9, <2>10, <2>11, <2>12, <2>13, <2>14, <2>15, <2>16, <2>17, <2>18, <2>19, <2>20, <2>21, <2>22, <2>23, <2>24, <2>25
       DEF Next, RequestStep, HandlerStep, StreamStep, AuditStep, Rest
<1>3. QED
  BY <1>1, <1>2, TypeCorrect, ContactInvariant, PTL DEF Spec

\* No request is recorded twice and no two events share a request id, for every
\* number of requests and every length of the request-id sequence.
THEOREM EventsUnique == Spec => []OneEventPerRequest
  BY IdentityInvariant, IdentityInvSuffices, TypeCorrect, PTL

-----------------------------------------------------------------------------
(***************************************************************************)
(* Why the exchanges never outnumber the permits.  A request without a     *)
(* permit goes straight to its denial, and one with a permit keeps it      *)
(* until its exchange has ended, its stream included.                      *)
(***************************************************************************)
Admitted == {"accept", "body", "gate", "begin", "sending", "streaming"}

PermitInv ==
  /\ IsFiniteSet(permits) /\ Cardinality(permits) <= MaxConcurrent
  /\ \A r \in Requests : pc[r] \in Admitted => r \in permits

\* Dropping a permit leaves a finite set of permits within the limit.
LEMMA PermitDropped ==
  ASSUME PermitInv, NEW r, permits' = permits \ {r}
  PROVE  IsFiniteSet(permits)' /\ (Cardinality(permits) <= MaxConcurrent)'
<1>1. IsFiniteSet(permits \ {r}) /\ Cardinality(permits \ {r}) <= Cardinality(permits)
  BY FS_Subset DEF PermitInv
<1>2. Cardinality(permits) \in Nat /\ Cardinality(permits \ {r}) \in Nat
  BY <1>1, FS_CardinalityType DEF PermitInv
<1>3. QED
  BY <1>1, <1>2, GatewayAssumption DEF PermitInv, GatewayAssumption

\* A permit is handed out only below the limit.
LEMMA PermitTaken ==
  ASSUME PermitInv, NEW r, Cardinality(permits) < MaxConcurrent, permits' = permits \cup {r}
  PROVE  IsFiniteSet(permits)' /\ (Cardinality(permits) <= MaxConcurrent)'
<1>1. IsFiniteSet(permits \cup {r})
      /\ Cardinality(permits \cup {r}) \in {Cardinality(permits), Cardinality(permits) + 1}
  BY FS_AddElement DEF PermitInv
<1>2. Cardinality(permits) \in Nat
  BY FS_CardinalityType DEF PermitInv
<1>3. QED
  BY <1>1, <1>2, GatewayAssumption DEF PermitInv, GatewayAssumption

\* PermitInv holds in every reachable state.
LEMMA PermitInvariant == Spec => []PermitInv
<1>1. Init => PermitInv
  BY FS_EmptySet, GatewayAssumption DEF Init, PermitInv, Admitted, GatewayAssumption
<1>2. TypeOK /\ PermitInv /\ [Next]_vars => PermitInv'
  <2> SUFFICES ASSUME TypeOK, PermitInv, [Next]_vars PROVE PermitInv'
    OBVIOUS
  <2> DEFINE Counted == IsFiniteSet(permits) /\ Cardinality(permits) <= MaxConcurrent
             Holders == \A r \in Requests : pc[r] \in Admitted => r \in permits
  <2>1. UNCHANGED permits \/ (\E r : permits' = permits \ {r}) => Counted'
    BY PermitDropped DEF PermitInv
  <2>2. pc \in [Requests -> Location]
    BY DEF TypeOK
  <2>3. Holders /\ (Counted' /\ Holders' => PermitInv')
    BY DEF PermitInv
  <2> HIDE DEF Counted
  <2> USE <2>1, <2>2, <2>3 DEF Admitted, Goto
  <2>4. ASSUME NEW r \in Requests, Arrive(r) \/ RequireAuditAvailable(r) PROVE PermitInv'
    BY <2>4 DEF Arrive, RequireAuditAvailable, FailRequest
  <2>5. ASSUME NEW r \in Requests, TryAcquire(r) PROVE PermitInv'
    <3>1. pc' = [pc EXCEPT ![r] = "allocate"] /\ permits \subseteq permits'
      BY <2>5 DEF TryAcquire
    <3>2. Counted'
      BY <2>5, PermitTaken DEF TryAcquire, Counted
    <3>3. QED
      BY <3>1, <3>2
  <2>6. ASSUME NEW r \in Requests, AllocateRequestId(r) PROVE PermitInv'
    BY <2>6 DEF AllocateRequestId, FailRequest
  <2>7. ASSUME NEW r \in Requests, AcceptTarget(r) \/ ReadBody(r) PROVE PermitInv'
    BY <2>7 DEF AcceptTarget, ReadBody
  <2>8. ASSUME NEW r \in Requests, AcquireRead(r) \/ BeginForwarding(r) PROVE PermitInv'
    BY <2>8 DEF AcquireRead, BeginForwarding, FailRequest
  <2>9. ASSUME NEW r \in Requests, SendReturns(r) PROVE PermitInv'
    BY <2>9 DEF SendReturns
  <2>10. ASSUME NEW r \in Requests, StreamStep(r) PROVE PermitInv'
    BY <2>10 DEF StreamStep, StreamEnds, AuditUnavailable, SendStreamError,
                SendTerminalStreamError, EndStream
  <2>11. ASSUME NEW r \in Requests, AppendOk(r) \/ AppendFails(r) \/ EventPanics(r) \/ Complete(r)
         PROVE  PermitInv'
    BY <2>11 DEF AppendOk, AppendFails, EventPanics, Complete
  <2>12. ASSUME NEW r \in Requests, StoreAuditFailed(r) \/ RequestWrite(r) \/ AcquireWrite(r)
         PROVE  PermitInv'
    BY <2>12 DEF StoreAuditFailed, RequestWrite, AcquireWrite
  <2>13. ASSUME NEW r \in Requests, ReportAuditFailure(r) PROVE PermitInv'
    BY <2>13 DEF ReportAuditFailure, FailRequest
  <2>14. ASSUME NEW r \in Requests, DropHandler(r) PROVE PermitInv'
    BY <2>14 DEF DropHandler
  <2>15. ASSUME Exit \/ UNCHANGED vars PROVE PermitInv'
    BY <2>15 DEF Exit, vars
  <2>16. QED
    BY <2>4, <2>5, <2>6, <2>7, <2>8, <2>9, <2>10, <2>11, <2>12, <2>13, <2>14, <2>15
       DEF Next, RequestStep, HandlerStep, AuditStep, Rest
<1>3. QED
  BY <1>1, <1>2, TypeCorrect, PTL DEF Spec

\* The exchanges open with the provider, streamed bodies included, never outnumber
\* the permits, for every number of requests and every limit.
THEOREM ConcurrencyBounded == Spec => []UpstreamConcurrencyBounded
<1>1. TypeOK /\ PermitInv => UpstreamConcurrencyBounded
  <2> SUFFICES ASSUME TypeOK, PermitInv PROVE UpstreamConcurrencyBounded
    OBVIOUS
  <2>1. UpstreamBusy \subseteq permits
    BY DEF UpstreamBusy, PermitInv, Admitted
  <2>2. IsFiniteSet(UpstreamBusy) /\ Cardinality(UpstreamBusy) <= Cardinality(permits)
    BY <2>1, FS_Subset DEF PermitInv
  <2>3. Cardinality(UpstreamBusy) \in Nat /\ Cardinality(permits) \in Nat
    BY <2>2, FS_CardinalityType DEF PermitInv
  <2>4. QED
    BY <2>2, <2>3, GatewayAssumption
       DEF PermitInv, UpstreamConcurrencyBounded, GatewayAssumption
<1>2. QED
  BY <1>1, TypeCorrect, PermitInvariant, PTL

-----------------------------------------------------------------------------
(***************************************************************************)
(* Why no exchange goes unrecorded.  A contacted request ends only with    *)
(* its event in the log, by way of a failure of the audit, with its        *)
(* handler dropped because the harness hung up, or with its task dead of   *)
(* an event it could not build.                                            *)
(***************************************************************************)
ExchangeInv ==
  /\ \A r \in Requests : pc[r] = "dropped" => r \in Disconnecting
  /\ \A r \in Requests : pc[r] = "panicked" => r \in Outgrowing
  /\ \A r \in Requests : pc[r] = "done" /\ r \in contacted =>
       audit_failed \/ \E what : Recorded(r, what)

\* Every step keeps ExchangeInv, hang-ups of any request included.
LEMMA ExchangeInvariant == Spec => []ExchangeInv
<1>1. Init => ExchangeInv
  BY DEF Init, ExchangeInv
<1>2. TypeOK /\ GateInv /\ AnswerInv /\ ContactInv /\ ExchangeInv /\ [Next]_vars
        => ExchangeInv'
  <2> SUFFICES ASSUME TypeOK, GateInv, AnswerInv, ContactInv, ExchangeInv, [Next]_vars
               PROVE  ExchangeInv'
    OBVIOUS
  <2>1. pc \in [Requests -> Location]
    BY DEF TypeOK
  <2>2. log' = log => \A r \in Requests : \A what : Recorded(r, what)' = Recorded(r, what)
    BY DEF Recorded
  <2>3. \A r, s \in Requests : log' = Append(log, NewEvent(s)) =>
          \A what : Recorded(r, what) => Recorded(r, what)'
    BY RecordedStays
  <2> USE <2>1, <2>2, <2>3 DEF ExchangeInv, Goto, sinkVars
  <2>4. ASSUME NEW r \in Requests, Arrive(r) \/ TryAcquire(r) PROVE ExchangeInv'
    BY <2>4 DEF Arrive, TryAcquire
  <2>5. ASSUME NEW r \in Requests, RequireAuditAvailable(r) \/ AllocateRequestId(r)
        PROVE  ExchangeInv'
    BY <2>5 DEF RequireAuditAvailable, AllocateRequestId, ContactInv, Uncontacted
  <2>6. ASSUME NEW r \in Requests, AcceptTarget(r) \/ ReadBody(r) PROVE ExchangeInv'
    BY <2>6 DEF AcceptTarget, ReadBody
  <2>7. ASSUME NEW r \in Requests, AcquireRead(r) \/ BeginForwarding(r) PROVE ExchangeInv'
    BY <2>7 DEF AcquireRead, BeginForwarding
  <2>8. ASSUME NEW r \in Requests, SendReturns(r) PROVE ExchangeInv'
    BY <2>8 DEF SendReturns
  <2>9. ASSUME NEW r \in Requests, StreamStep(r) PROVE ExchangeInv'
    BY <2>9 DEF StreamStep, StreamEnds, AuditUnavailable, SendStreamError,
                SendTerminalStreamError, EndStream, GateInv
  <2>10. ASSUME NEW r \in Requests, AppendOk(r) \/ AppendFails(r) PROVE ExchangeInv'
    <3>1. /\ log' = log \/ log' = Append(log, NewEvent(r))
          /\ UNCHANGED <<audit_failed, contacted>>
          /\ \E to \in {"appended", "close"} : pc' = [pc EXCEPT ![r] = to]
      BY <2>10 DEF AppendOk, AppendFails
    <3>2. QED
      BY <3>1
  <2>11. ASSUME NEW r \in Requests, Complete(r) PROVE ExchangeInv'
    <3>1. Recorded(r, decision[r])
      BY <2>11 DEF Complete, AnswerInv
    <3>2. QED
      BY <2>11, <3>1 DEF Complete
  <2>12. ASSUME NEW r \in Requests, StoreAuditFailed(r) \/ RequestWrite(r) \/ AcquireWrite(r)
         PROVE  ExchangeInv'
    BY <2>12 DEF StoreAuditFailed, RequestWrite, AcquireWrite
  <2>13. ASSUME NEW r \in Requests, ReportAuditFailure(r) PROVE ExchangeInv'
    BY <2>13 DEF ReportAuditFailure, GateInv
  <2>14. ASSUME NEW r \in Requests, EventPanics(r) PROVE ExchangeInv'
    BY <2>14 DEF EventPanics
  <2>15. ASSUME Exit \/ UNCHANGED vars PROVE ExchangeInv'
    BY <2>15 DEF Exit, vars
  <2>16. ASSUME NEW r \in Requests, DropHandler(r) PROVE ExchangeInv'
    <3>1. /\ log' = log \/ log' = Append(log, NewEvent(r))
          /\ UNCHANGED <<audit_failed, contacted>>
          /\ pc' = [pc EXCEPT ![r] = "dropped"]
          /\ r \in Disconnecting
      BY <2>16 DEF DropHandler
    <3>2. QED
      BY <3>1
  <2>17. QED
    BY <2>4, <2>5, <2>6, <2>7, <2>8, <2>9, <2>10, <2>11, <2>12, <2>13, <2>15, <2>16, <2>14
       DEF Next, RequestStep, HandlerStep, AuditStep, Rest
<1>3. QED
  BY <1>1, <1>2, TypeCorrect, GateInvariant, AnswerInvariant, ContactInvariant, PTL DEF Spec

\* Whatever the other harnesses do, an exchange is lost only if its own harness
\* hangs up (proxy, whose future hyper drops) or its own event cannot be built
\* (AuditUpstreamTarget::from_url, which panics).
THEOREM OthersLoseNoEvent == Spec => []LostOnlyByHangUpOrPanic
<1>1. ExchangeInv => LostOnlyByHangUpOrPanic
  BY DEF ExchangeInv, LostOnlyByHangUpOrPanic, Ended, Recorded, EventsOf
<1>2. QED
  BY <1>1, ExchangeInvariant, PTL

\* If no harness hangs up and no query outgrows its limit, every contacted request
\* that ended has its event, or auditing has failed.
THEOREM ExchangesAudited ==
  ASSUME Disconnecting = {}, Outgrowing = {} PROVE Spec => []EveryExchangeAudited
<1>1. LostOnlyByHangUpOrPanic => EveryExchangeAudited
  BY DEF LostOnlyByHangUpOrPanic, EveryExchangeAudited
<1>2. QED
  BY <1>1, OthersLoseNoEvent, PTL
=============================================================================
