----------------------- MODULE GatewayContractProofs ------------------------
(***************************************************************************)
(* The gateway implements AuditContract, for every set of requests, every  *)
(* concurrency limit and any requests that may hang up or whose events may *)
(* be impossible to build: each of its steps is one step of the contract,  *)
(* or a step the contract does not see.                                    *)
(***************************************************************************)
EXTENDS GatewayContract, GatewayProofs

\* What the contract sees of the gateway.
Flight == {r \in Requests : pc[r] = "sending"}
Records == [r \in Requests |-> RecordOf(r)]
Tolds == [r \in Requests |-> ToldTo(r)]

\* A request that has not ended was told nothing yet.
ReplyInv ==
  \A r \in Requests : pc[r] \notin {"done", "panicked"} => reply[r] \in {"none", "head"}

\* ReplyInv holds in every reachable state.
LEMMA ReplyInvariant == Spec => []ReplyInv
<1>1. Init => ReplyInv
  BY DEF Init, ReplyInv
<1>2. TypeOK /\ ReplyInv /\ [Next]_vars => ReplyInv'
  <2> SUFFICES ASSUME TypeOK, ReplyInv, [Next]_vars PROVE ReplyInv'
    OBVIOUS
  <2>1. pc \in [Requests -> Location] /\ reply \in [Requests -> Reply]
    BY DEF TypeOK
  <2> USE <2>1 DEF ReplyInv, Goto
  <2>2. ASSUME NEW r \in Requests, Arrive(r) \/ RequireAuditAvailable(r) PROVE ReplyInv'
    BY <2>2 DEF Arrive, RequireAuditAvailable, FailRequest, Answer
  <2>3. ASSUME NEW r \in Requests, TryAcquire(r) \/ AllocateRequestId(r) PROVE ReplyInv'
    BY <2>3 DEF TryAcquire, AllocateRequestId, FailRequest, Answer
  <2>4. ASSUME NEW r \in Requests, AcceptTarget(r) \/ ReadBody(r) PROVE ReplyInv'
    BY <2>4 DEF AcceptTarget, ReadBody
  <2>5. ASSUME NEW r \in Requests, AcquireRead(r) \/ BeginForwarding(r) PROVE ReplyInv'
    BY <2>5 DEF AcquireRead, BeginForwarding, FailRequest, Answer
  <2>6. ASSUME NEW r \in Requests, SendReturns(r) PROVE ReplyInv'
    BY <2>6 DEF SendReturns, Answer
  <2>7. ASSUME NEW r \in Requests, StreamStep(r) PROVE ReplyInv'
    BY <2>7 DEF StreamStep, StreamEnds, AuditUnavailable, SendStreamError,
                SendTerminalStreamError, EndStream, Answer
  <2>8. ASSUME NEW r \in Requests, AppendOk(r) \/ AppendFails(r) \/ EventPanics(r) \/ Complete(r)
        PROVE  ReplyInv'
    BY <2>8 DEF AppendOk, AppendFails, EventPanics, Complete, Answer
  <2>9. ASSUME NEW r \in Requests, StoreAuditFailed(r) \/ RequestWrite(r) \/ AcquireWrite(r)
        PROVE  ReplyInv'
    BY <2>9 DEF StoreAuditFailed, RequestWrite, AcquireWrite
  <2>10. ASSUME NEW r \in Requests, ReportAuditFailure(r) PROVE ReplyInv'
    BY <2>10 DEF ReportAuditFailure, FailRequest, Answer
  <2>11. ASSUME NEW r \in Requests, DropHandler(r) PROVE ReplyInv'
    BY <2>11 DEF DropHandler
  <2>12. ASSUME Exit \/ UNCHANGED vars PROVE ReplyInv'
    BY <2>12 DEF Exit, vars
  <2>13. QED
    BY <2>2, <2>3, <2>4, <2>5, <2>6, <2>7, <2>8, <2>9, <2>10, <2>11, <2>12
       DEF Next, RequestStep, HandlerStep, AuditStep, Rest
<1>3. QED
  BY <1>1, <1>2, TypeCorrect, PTL DEF Spec

-----------------------------------------------------------------------------
(* What a step leaves as the contract saw it                               *)

\* A step to and from locations other than "sending" leaves the flight alone.
LEMMA FlightKept ==
  ASSUME TypeOK, NEW r \in Requests, NEW to, pc' = [pc EXCEPT ![r] = to],
         pc[r] # "sending", to # "sending"
  PROVE  Flight' = Flight
BY DEF TypeOK, Flight

\* The records are those of the log.
LEMMA RecordsKept ==
  ASSUME UNCHANGED log
  PROVE  Records' = Records
BY DEF Records, RecordOf, EventsOf

\* Deciding on an event tells nobody anything while its request goes on.
LEMMA ToldsKept ==
  ASSUME TypeOK, ReplyInv, NEW r \in Requests, UNCHANGED reply,
         \/ UNCHANGED decision
         \/ pc[r] \notin {"done", "panicked"} /\ \E what : decision' = [decision EXCEPT ![r] = what]
  PROVE  Tolds' = Tolds
<1>1. \A s \in Requests : ToldTo(s)' = ToldTo(s)
  <2> TAKE s \in Requests
  <2>1. CASE UNCHANGED decision
    BY <2>1 DEF ToldTo
  <2>2. CASE s = r /\ pc[r] \notin {"done", "panicked"}
    BY <2>2 DEF ToldTo, ReplyInv
  <2>3. CASE s # r /\ \E what : decision' = [decision EXCEPT ![r] = what]
    BY <2>3 DEF ToldTo, TypeOK
  <2>4. QED
    BY <2>1, <2>2, <2>3
<1>2. QED
  BY <1>1 DEF Tolds

\* An answer tells its own request only.
LEMMA Answered ==
  ASSUME TypeOK, NEW r \in Requests, NEW what, Answer(r, what), UNCHANGED decision
  PROVE  /\ what \in {"internal_error", "broken"} => Tolds' = [Tolds EXCEPT ![r] = "refused"]
         /\ what = "cut" => Tolds' = [Tolds EXCEPT ![r] = "cut_short"]
         /\ what \in {"denied", "bad_gateway", "complete"} =>
              Tolds' = [Tolds EXCEPT ![r] = decision[r]]
<1>1. reply \in [Requests -> Reply] /\ reply' = [reply EXCEPT ![r] = what]
  BY DEF TypeOK, Answer
<1>2. \A s \in Requests : s # r => ToldTo(s)' = ToldTo(s)
  BY <1>1 DEF ToldTo
<1>3. reply'[r] = what
  BY <1>1
<1>4. what \in {"internal_error", "broken"} => ToldTo(r)' = "refused"
  BY <1>3 DEF ToldTo
<1>5. what \in {"denied", "bad_gateway", "complete"} => ToldTo(r)' = decision[r]
  BY <1>3 DEF ToldTo
<1>6. what = "cut" => ToldTo(r)' = "cut_short"
  BY <1>3 DEF ToldTo
<1>7. QED
  BY <1>2, <1>4, <1>5, <1>6 DEF Tolds

\* A request whose event is not in the log is unrecorded.
LEMMA NotRecorded ==
  ASSUME ContactInv, NEW r \in Requests, pc[r] \in Unlogged
  PROVE  EventsOf(r) = {} /\ RecordOf(r) = "unrecorded"
BY DEF ContactInv, EventsOf, RecordOf

\* The record of a request with an event is the decision of that event.
LEMMA RecordIsDecision ==
  ASSUME IdentityInv, NEW r \in Requests, NEW what, Recorded(r, what)
  PROVE  RecordOf(r) = what
<1>1. PICK i \in DOMAIN log : log[i].req = r /\ log[i].decision = what
  BY DEF Recorded
<1>2. EventsOf(r) = {i}
  BY <1>1 DEF EventsOf, IdentityInv
<1>3. QED
  BY <1>1, <1>2 DEF RecordOf

\* Appending the event a request owes records its decision and nothing else.
LEMMA Appended ==
  ASSUME TypeOK, ContactInv, NEW r \in Requests, pc[r] = "append",
         log' = Append(log, NewEvent(r))
  PROVE  Records' = [Records EXCEPT ![r] = decision[r]]
<1> DEFINE n == Len(log) + 1
<1>1. /\ DOMAIN log' = DOMAIN log \cup {n} /\ n \notin DOMAIN log
      /\ \A i \in DOMAIN log : log'[i] = log[i]
      /\ log'[n].req = r /\ log'[n].decision = decision[r]
  BY AppendedEvent
<1>2. EventsOf(r) = {}
  BY NotRecorded DEF Unlogged
<1> HIDE DEF n
<1>3. EventsOf(r)' = {n}
  BY <1>1, <1>2 DEF EventsOf
<1>4. RecordOf(r)' = decision[r]
  BY <1>1, <1>3 DEF RecordOf
<1>5. \A s \in Requests : s # r => RecordOf(s)' = RecordOf(s)
  <2> SUFFICES ASSUME NEW s \in Requests, s # r PROVE RecordOf(s)' = RecordOf(s)
    OBVIOUS
  <2>1. EventsOf(s)' = EventsOf(s)
    BY <1>1 DEF EventsOf
  <2>2. \A i \in EventsOf(s) : log'[i] = log[i]
    BY <1>1 DEF EventsOf
  <2>3. CASE EventsOf(s) = {}
    BY <2>1, <2>3 DEF RecordOf
  <2>4. CASE EventsOf(s) # {}
    <3> DEFINE Pick(events) == CHOOSE i \in events : TRUE
    <3>1. Pick(EventsOf(s)) \in EventsOf(s)
      BY <2>4
    <3>2. RecordOf(s) = log[Pick(EventsOf(s))].decision
      BY <2>4 DEF RecordOf
    <3>3. RecordOf(s)' = log'[Pick(EventsOf(s)')].decision
      BY <2>1, <2>4, Zenon DEF RecordOf
    <3> HIDE DEF Pick
    <3>4. QED
      BY <2>1, <2>2, <3>1, <3>2, <3>3
  <2>5. QED
    BY <2>3, <2>4
<1>6. QED
  BY <1>4, <1>5 DEF Records

-----------------------------------------------------------------------------
(* The refinement                                                          *)

\* The invariants the refinement rests on.
RefinementInv ==
  TypeOK /\ GateInv /\ AnswerInv /\ ContactInv /\ IdentityInv /\ ReplyInv

\* The gateway starts as the contract does.
LEMMA ContractInitially == Init => Contract!ContractInit
<1> SUFFICES ASSUME Init PROVE Contract!ContractInit
  OBVIOUS
<1>1. Flight = {} /\ contacted = {} /\ Gate = "open"
  BY DEF Init, Flight, Gate
<1>2. \A r \in Requests : RecordOf(r) = "unrecorded" /\ ToldTo(r) = "untold"
  BY DEF Init, RecordOf, ToldTo, EventsOf
<1>3. QED
  BY <1>1, <1>2 DEF Contract!ContractInit, Contract!Unrecorded, Contract!Untold, Flight

\* A handler error that ends a request in another place than "sending" refuses it.
LEMMA Failure ==
  ASSUME RefinementInv, NEW r \in Requests, NEW from, Goto(r, from, "done"),
         from \notin {"sending", "done", "panicked"}, FailRequest(r),
         UNCHANGED <<decision, audit_failed, contacted, log, closed>>
  PROVE  Contract!Refuse(r)
<1>1. TypeOK /\ ReplyInv /\ pc[r] = from /\ pc' = [pc EXCEPT ![r] = "done"]
  BY DEF RefinementInv, Goto
<1>2. Flight' = Flight /\ Records' = Records /\ Gate' = Gate
  BY <1>1, FlightKept, RecordsKept DEF Gate
<1>3. Tolds' = [Tolds EXCEPT ![r] = "refused"]
  BY <1>1, Answered DEF FailRequest
<1>4. ToldTo(r) = "untold"
  BY <1>1 DEF ReplyInv, ToldTo
<1>5. QED
  BY <1>2, <1>3, <1>4 DEF Contract!Refuse, Contract!Untold, Contract!Refused, Flight, Records, Tolds

\* The record of a request whose event is not in the log or is a failed exchange's.
LEMMA FailedOrUnrecorded ==
  ASSUME ContactInv, NEW r \in Requests, decision[r] = "response_error"
  PROVE  RecordOf(r) \in {"unrecorded", "response_error"}
<1>1. CASE EventsOf(r) = {}
  BY <1>1 DEF RecordOf
<1>2. CASE EventsOf(r) # {}
  <2> DEFINE i == CHOOSE j \in EventsOf(r) : TRUE
  <2>1. i \in EventsOf(r)
    BY <1>2
  <2>2. log[i].decision = "response_error"
    BY <2>1 DEF EventsOf, ContactInv
  <2>3. RecordOf(r) = log[i].decision
    BY <1>2 DEF RecordOf
  <2>4. QED
    BY <2>2, <2>3
<1>3. QED
  BY <1>1, <1>2

\* A stream task that ends with its event recorded as a failure, with the audit failed
\* or in a panic before its event may leave a body cut short.
LEMMA CuttingShort ==
  ASSUME RefinementInv, NEW r \in Requests, NEW from, NEW to, Goto(r, from, to),
         from \notin Uncontacted \cup {"sending", "done", "panicked", "dropped"},
         to \in {"done", "panicked"},
         Answer(r, "cut"), UNCHANGED <<decision, audit_failed, contacted, log, closed>>,
         r \in contacted,
         \/ RecordOf(r) = "response_error"
         \/ RecordOf(r) = "unrecorded" /\ (audit_failed \/ r \in Outgrowing)
  PROVE  Contract!Cut(r)
<1>1. TypeOK /\ ReplyInv /\ pc[r] = from /\ pc' = [pc EXCEPT ![r] = to]
  BY DEF RefinementInv, Goto
<1>2. Flight' = Flight /\ Records' = Records /\ Gate' = Gate
  BY <1>1, FlightKept, RecordsKept DEF Gate
<1>3. Tolds' = [Tolds EXCEPT ![r] = "cut_short"]
  BY <1>1, Answered
<1>4. ToldTo(r) = "untold" /\ r \notin Flight
  BY <1>1 DEF ReplyInv, ToldTo, Flight
<1>5. audit_failed => Gate # "open"
  BY DEF Gate
<1>6. QED
  BY <1>2, <1>3, <1>4, <1>5
     DEF Contract!Cut, Contract!Untold, Contract!Unrecorded, Contract!CutShort, Flight,
         Records, Tolds

\* A step that appends the event its request owes, on its way elsewhere, records it.
LEMMA Recording ==
  ASSUME RefinementInv, NEW r \in Requests, NEW to, Goto(r, "append", to), to # "sending",
         log' = Append(log, NewEvent(r)),
         UNCHANGED <<reply, decision, audit_failed, contacted, closed>>
  PROVE  Contract!ContractNext
<1>1. TypeOK /\ ReplyInv /\ ContactInv /\ pc[r] = "append" /\ pc' = [pc EXCEPT ![r] = to]
  BY DEF RefinementInv, Goto
<1>2. Flight' = Flight /\ Tolds' = Tolds /\ Gate' = Gate
  BY <1>1, FlightKept, ToldsKept DEF Gate
<1>3. Records' = [Records EXCEPT ![r] = decision[r]]
  BY <1>1, Appended
<1>4. ToldTo(r) = "untold" /\ RecordOf(r) = "unrecorded"
  BY <1>1, NotRecorded DEF ReplyInv, ToldTo, Unlogged
<1>5. decision[r] \in Decisions /\ (decision[r] = "denied" <=> r \notin contacted)
  BY <1>1 DEF TypeOK, ContactInv
<1>6. r \notin Flight
  BY <1>1 DEF Flight
<1>7. Contract!Record(r, decision[r])
  BY <1>2, <1>3, <1>4, <1>5, <1>6
     DEF Contract!Record, Contract!Untold, Contract!Unrecorded, Flight, Records, Tolds
<1>8. QED
  BY <1>5, <1>7 DEF Contract!ContractNext, Decisions

\* A step between locations other than "sending" that decides at most on an event
\* is none the contract sees.
LEMMA Unseen ==
  ASSUME RefinementInv, NEW r \in Requests, NEW from, NEW to, Goto(r, from, to),
         from \notin {"sending", "done", "panicked"}, to # "sending",
         UNCHANGED decision \/ \E what : MustAudit(r, what),
         UNCHANGED <<reply, log, contacted>>,
         UNCHANGED Gate
  PROVE  UNCHANGED Contract!contractVars
<1>1. TypeOK /\ ReplyInv /\ pc[r] = from /\ pc' = [pc EXCEPT ![r] = to]
  BY DEF RefinementInv, Goto
<1>2. Flight' = Flight /\ Records' = Records
  BY <1>1, FlightKept, RecordsKept
<1>3. Tolds' = Tolds
  BY <1>1, ToldsKept DEF MustAudit
<1>4. QED
  BY <1>2, <1>3 DEF Contract!contractVars, Flight, Records, Tolds

\* Every step of the gateway is a step of the contract or leaves what it sees.
LEMMA ContractStep ==
  RefinementInv /\ [Next]_vars => [Contract!ContractNext]_Contract!contractVars
<1> SUFFICES ASSUME RefinementInv, [Next]_vars
             PROVE  Contract!ContractNext \/ UNCHANGED Contract!contractVars
  OBVIOUS
<1> USE DEF gateVars, sinkVars, idVars
<1>1. /\ TypeOK /\ GateInv /\ AnswerInv /\ ContactInv /\ IdentityInv /\ ReplyInv
      /\ pc \in [Requests -> Location]
  BY DEF RefinementInv, TypeOK
<1>2. ASSUME NEW r \in Requests, Arrive(r) \/ TryAcquire(r)
      PROVE  UNCHANGED Contract!contractVars
  BY <1>2, Unseen DEF Arrive, TryAcquire, Gate
<1>3. ASSUME NEW r \in Requests, RequireAuditAvailable(r)
      PROVE  Contract!ContractNext \/ UNCHANGED Contract!contractVars
  BY <1>3, Unseen, Failure DEF RequireAuditAvailable, Gate, Contract!ContractNext
<1>4. ASSUME NEW r \in Requests, AllocateRequestId(r)
      PROVE  Contract!ContractNext \/ UNCHANGED Contract!contractVars
  BY <1>4, Unseen, Failure DEF AllocateRequestId, Gate, Contract!ContractNext
<1>5. ASSUME NEW r \in Requests, AcceptTarget(r) \/ ReadBody(r)
      PROVE  UNCHANGED Contract!contractVars
  BY <1>5, Unseen DEF AcceptTarget, ReadBody, Gate
<1>6. ASSUME NEW r \in Requests, AcquireRead(r)
      PROVE  UNCHANGED Contract!contractVars
  BY <1>6, Unseen DEF AcquireRead, Gate
<1>7. ASSUME NEW r \in Requests, BeginForwarding(r)
      PROVE  Contract!ContractNext
  <2>1. CASE audit_failed
    BY <1>7, <2>1, Failure DEF BeginForwarding, Contract!ContractNext
  <2>2. CASE ~audit_failed
    <3>1. /\ pc[r] = "begin" /\ pc' = [pc EXCEPT ![r] = "sending"]
          /\ contacted' = contacted \cup {r}
          /\ UNCHANGED <<log, reply, decision, audit_failed, closed>>
      BY <1>7, <2>2 DEF BeginForwarding, Goto
    <3>2. Gate = "open" /\ Gate' = Gate
      BY <1>1, <2>2, <3>1 DEF Gate, GateInv
    <3>3. r \notin contacted /\ RecordOf(r) = "unrecorded" /\ ToldTo(r) = "untold"
      BY <1>1, <3>1, NotRecorded
         DEF ContactInv, Uncontacted, Unlogged, ReplyInv, ToldTo
    <3>4. Flight' = Flight \cup {r} /\ Records' = Records /\ Tolds' = Tolds
      BY <1>1, <3>1, RecordsKept, ToldsKept DEF Flight
    <3>5. Contract!Contact(r)
      BY <3>1, <3>2, <3>3, <3>4
         DEF Contract!Contact, Contract!Unrecorded, Contract!Untold, Flight, Records, Tolds
    <3>6. QED
      BY <3>5 DEF Contract!ContractNext
  <2>3. QED
    BY <2>1, <2>2
<1>8. ASSUME NEW r \in Requests, SendReturns(r)
      PROVE  Contract!ContractNext
  <2>1. /\ pc[r] = "sending"
        /\ \E to \in {"streaming", "append"} : pc' = [pc EXCEPT ![r] = to]
        /\ UNCHANGED <<log, audit_failed, closed, contacted>>
    BY <1>8 DEF SendReturns, Goto
  <2>2. Flight' = Flight \ {r} /\ Records' = Records /\ Gate' = Gate
    BY <1>1, <2>1, RecordsKept DEF Flight, Gate
  <2>3. Tolds' = Tolds
    <3>1. CASE reply' = reply
      BY <1>1, <1>8, <2>1, <3>1, ToldsKept DEF SendReturns, MustAudit
    <3>2. CASE UNCHANGED decision /\ Answer(r, "head")
      BY <1>1, <2>1, <3>2 DEF Answer, ReplyInv, ToldTo, Tolds, TypeOK
    <3>3. QED
      BY <1>8, <3>1, <3>2 DEF SendReturns
  <2>4. Contract!Return(r)
    BY <2>1, <2>2, <2>3 DEF Contract!Return, Flight, Records, Tolds
  <2>5. QED
    BY <2>4 DEF Contract!ContractNext
<1>9. ASSUME NEW r \in Requests, StreamEnds(r) \/ AuditUnavailable(r)
      PROVE  UNCHANGED Contract!contractVars
  BY <1>9, Unseen DEF StreamEnds, AuditUnavailable, Gate
<1>10. ASSUME NEW r \in Requests, pc[r] = "abort", EndStream(r), Answer(r, "broken")
      PROVE  Contract!ContractNext
  <2>1. /\ pc[r] = "abort" /\ pc' = [pc EXCEPT ![r] = "done"]
        /\ UNCHANGED <<log, decision, audit_failed, closed, contacted>>
    BY <1>10 DEF EndStream, Goto
  <2>2. Flight' = Flight /\ Records' = Records /\ Gate' = Gate
    BY <1>1, <2>1, FlightKept, RecordsKept DEF Gate
  <2>3. Tolds' = [Tolds EXCEPT ![r] = "refused"] /\ ToldTo(r) = "untold"
    BY <1>1, <1>10, <2>1, Answered DEF ReplyInv, ToldTo
  <2>4. Contract!Refuse(r)
    BY <2>1, <2>2, <2>3
       DEF Contract!Refuse, Contract!Untold, Contract!Refused, Flight, Records, Tolds
  <2>5. QED
    BY <2>4 DEF Contract!ContractNext
<1>11. ASSUME NEW r \in Requests, SendTerminalStreamError(r)
       PROVE  Contract!ContractNext
  BY <1>10, <1>11 DEF SendTerminalStreamError, EndStream, Goto
<1>12. ASSUME NEW r \in Requests, SendStreamError(r)
       PROVE  Contract!ContractNext
  <2>1. /\ pc[r] = "abort" /\ Goto(r, "abort", "done") /\ decision[r] = "response_error"
        /\ UNCHANGED <<log, decision, audit_failed, closed, contacted>>
    BY <1>12 DEF SendStreamError, EndStream, Goto
  <2>2. CASE Answer(r, "broken")
    BY <1>10, <1>12, <2>1, <2>2 DEF SendStreamError
  <2>3. CASE Answer(r, "cut")
    <3>1. audit_failed /\ r \in contacted
      BY <1>1, <2>1 DEF GateInv, ContactInv
    <3>2. Contract!Cut(r)
      BY <1>1, <2>1, <2>3, <3>1, FailedOrUnrecorded, CuttingShort DEF Uncontacted
    <3>3. QED
      BY <3>2 DEF Contract!ContractNext
  <2>4. QED
    BY <1>12, <2>2, <2>3 DEF SendStreamError, FailedBody
<1>13. ASSUME NEW r \in Requests, EventPanics(r)
       PROVE  Contract!ContractNext \/ UNCHANGED Contract!contractVars
  <2>1. /\ Goto(r, "append", "panicked") /\ pc[r] = "append"
        /\ r \in Outgrowing /\ r \in contacted
        /\ UNCHANGED <<log, decision, audit_failed, closed, contacted>>
    BY <1>1, <1>13 DEF EventPanics, Goto, ContactInv
  <2>2. CASE Started(r)
    <3>1. RecordOf(r) = "unrecorded"
      BY <1>1, <2>1, NotRecorded DEF Unlogged
    <3>2. Contract!Cut(r)
      BY <1>13, <2>1, <2>2, <3>1, CuttingShort DEF EventPanics, Uncontacted
    <3>3. QED
      BY <3>2 DEF Contract!ContractNext
  <2>3. CASE ~Started(r)
    BY <1>13, <2>1, <2>3, Unseen DEF EventPanics, Gate
  <2>4. QED
    BY <2>2, <2>3
<1>14. ASSUME NEW r \in Requests, AppendOk(r)
       PROVE  Contract!ContractNext
  BY <1>14, Recording DEF AppendOk
<1>15. ASSUME NEW r \in Requests, AppendFails(r)
       PROVE  Contract!ContractNext \/ UNCHANGED Contract!contractVars
  BY <1>15, Recording, Unseen DEF AppendFails, Gate
<1>16. ASSUME NEW r \in Requests, Complete(r)
       PROVE  Contract!ContractNext
  <2>1. /\ pc[r] = "appended" /\ pc' = [pc EXCEPT ![r] = "done"]
        /\ UNCHANGED <<log, decision, audit_failed, closed, contacted>>
    BY <1>16 DEF Complete, Goto
  <2>2. Flight' = Flight /\ Records' = Records /\ Gate' = Gate
    BY <1>1, <2>1, FlightKept, RecordsKept DEF Gate
  <2>3. ToldTo(r) = "untold"
    BY <1>1, <2>1 DEF ReplyInv, ToldTo
  <2>4. RecordOf(r) = decision[r] /\ decision[r] \in Decisions
    BY <1>1, <2>1, RecordIsDecision DEF AnswerInv, TypeOK
  <2>5. decision[r] # "unrecorded"
    BY <2>4 DEF Decisions
  <2>6. PICK what \in RepliesFor(r) : Answer(r, what)
    BY <1>16 DEF Complete
  <2>7. CASE what = "broken"
    <3>1. Tolds' = [Tolds EXCEPT ![r] = "refused"]
      BY <1>1, <2>1, <2>6, <2>7, Answered
    <3>2. Contract!Refuse(r)
      BY <2>1, <2>2, <2>3, <3>1
         DEF Contract!Refuse, Contract!Untold, Contract!Refused, Flight, Records, Tolds
    <3>3. QED
      BY <3>2 DEF Contract!ContractNext
  <2>8. CASE what \in {"denied", "bad_gateway", "complete"}
    <3>1. Tolds' = [Tolds EXCEPT ![r] = decision[r]]
      BY <1>1, <2>1, <2>6, <2>8, Answered
    <3>2. Contract!Tell(r)
      BY <2>1, <2>2, <2>3, <2>4, <2>5, <3>1
         DEF Contract!Tell, Contract!Untold, Contract!Unrecorded, Flight, Records, Tolds
    <3>3. QED
      BY <3>2 DEF Contract!ContractNext
  <2>9. CASE what = "cut" /\ decision[r] = "response_error"
    <3>1. r \in contacted /\ Goto(r, "appended", "done")
      BY <1>1, <1>16, <2>1, <2>9 DEF AnswerInv, Recorded, ContactInv, LogTellsContact, Complete
    <3>2. Contract!Cut(r)
      BY <2>1, <2>4, <2>6, <2>9, <3>1, CuttingShort DEF Uncontacted
    <3>3. QED
      BY <3>2 DEF Contract!ContractNext
  <2>10. QED
    <3>1. CASE decision[r] \in {"denied", "allowed", "upstream_error"}
      BY <2>6, <2>8, <3>1 DEF RepliesFor
    <3>2. CASE decision[r] = "response_error"
      BY <2>6, <2>7, <2>8, <2>9, <3>2 DEF RepliesFor, FailedBody
    <3>3. QED
      BY <2>4, <3>1, <3>2 DEF Decisions
<1>17. ASSUME NEW r \in Requests, StoreAuditFailed(r)
       PROVE  Contract!ContractNext \/ UNCHANGED Contract!contractVars
  <2>1. /\ pc[r] = "close" /\ pc' = [pc EXCEPT ![r] = "lock"] /\ audit_failed'
        /\ UNCHANGED <<log, reply, decision, closed, contacted>>
    BY <1>17 DEF StoreAuditFailed, Goto
  <2>2. Flight' = Flight /\ Records' = Records /\ Tolds' = Tolds
    BY <1>1, <2>1, FlightKept, RecordsKept, ToldsKept
  <2>3. Gate' = Gate \/ (Gate = "open" /\ Gate' = "closing")
    BY <1>1, <2>1 DEF Gate, GateInv
  <2>4. QED
    BY <2>1, <2>2, <2>3
       DEF Contract!ContractNext, Contract!StartClosing, Contract!contractVars, Flight,
           Records, Tolds
<1>18. ASSUME NEW r \in Requests, RequestWrite(r)
       PROVE  UNCHANGED Contract!contractVars
  BY <1>18, Unseen DEF RequestWrite, Gate
<1>19. ASSUME NEW r \in Requests, AcquireWrite(r)
       PROVE  Contract!ContractNext \/ UNCHANGED Contract!contractVars
  <2>1. /\ pc[r] = "drain" /\ pc' = [pc EXCEPT ![r] = "report"] /\ readers = {}
        /\ closed' = closed \cup {r}
        /\ UNCHANGED <<log, reply, decision, audit_failed, contacted>>
    BY <1>19 DEF AcquireWrite, Goto
  <2>2. Flight' = Flight /\ Records' = Records /\ Tolds' = Tolds
    BY <1>1, <2>1, FlightKept, RecordsKept, ToldsKept
  <2>3. Flight = {}
    BY <1>1, <2>1 DEF Flight, GateInv
  <2>4. Gate \in {"closing", "shut"} /\ Gate' = "shut"
    BY <1>1, <2>1 DEF Gate, GateInv
  <2>5. QED
    BY <2>1, <2>2, <2>3, <2>4
       DEF Contract!ContractNext, Contract!Shut, Contract!contractVars, Flight, Records, Tolds
<1>20. ASSUME NEW r \in Requests, ReportAuditFailure(r)
       PROVE  Contract!ContractNext \/ UNCHANGED Contract!contractVars
  BY <1>20, Unseen, Failure DEF ReportAuditFailure, Gate, Contract!ContractNext
<1>21. ASSUME NEW r \in Requests, DropHandler(r)
       PROVE  Contract!ContractNext \/ UNCHANGED Contract!contractVars
  <2>1. PICK await \in {"body", "gate", "sending", "append", "drain"} :
          /\ Goto(r, await, "dropped")
          /\ log' \in IF await = "append" /\ ~poisoned
                        THEN {log, Append(log, NewEvent(r))} ELSE {log}
    BY <1>21 DEF DropHandler
  <2>2. UNCHANGED <<reply, decision, audit_failed, closed, contacted>> /\ Gate' = Gate
    BY <1>21 DEF DropHandler, Gate
  <2>3. CASE log' # log
    BY <2>1, <2>2, <2>3, Recording
  <2>4. CASE log' = log /\ await # "sending"
    BY <2>1, <2>2, <2>4, Unseen
  <2>5. CASE log' = log /\ await = "sending"
    <3>1. Flight' = Flight \ {r} /\ Records' = Records /\ Tolds' = Tolds
      BY <1>1, <2>1, <2>2, <2>5, RecordsKept, ToldsKept DEF Flight, Goto
    <3>2. Contract!Return(r)
      BY <2>2, <3>1 DEF Contract!Return, Flight, Records, Tolds
    <3>3. QED
      BY <3>2 DEF Contract!ContractNext
  <2>6. QED
    BY <2>3, <2>4, <2>5
<1>22. ASSUME Exit \/ UNCHANGED vars
       PROVE  UNCHANGED Contract!contractVars
  <2>1. UNCHANGED <<pc, log, reply, decision, audit_failed, closed, contacted>>
    BY <1>22 DEF Exit, vars
  <2>2. Flight' = Flight /\ Records' = Records /\ Tolds' = Tolds /\ Gate' = Gate
    BY <2>1, RecordsKept DEF Flight, Gate, Tolds, ToldTo
  <2>3. QED
    BY <2>1, <2>2 DEF Contract!contractVars, Flight, Records, Tolds
<1>23. QED
  BY <1>2, <1>3, <1>4, <1>5, <1>6, <1>7, <1>8, <1>9, <1>10, <1>14, <1>15, <1>16, <1>17,
     <1>18, <1>19, <1>20, <1>21, <1>22, <1>11, <1>12, <1>13
     DEF Next, RequestStep, HandlerStep, StreamStep, AuditStep, Rest

\* The gateway keeps the audit contract: an outcome is told only after it is
\* recorded, a record is final, a body is cut short only if its exchange failed or
\* cannot be recorded, and a shut gateway contacts the provider no more.
THEOREM GatewayImplementsContract == Spec => ImplementsContract
<1>1. Spec => []RefinementInv
  BY TypeCorrect, GateInvariant, AnswerInvariant, ContactInvariant, IdentityInvariant,
     ReplyInvariant, PTL DEF RefinementInv
<1>2. QED
  BY <1>1, ContractInitially, ContractStep, PTL
     DEF Spec, ImplementsContract, Contract!ContractSpec
=============================================================================
