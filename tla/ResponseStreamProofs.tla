------------------------ MODULE ResponseStreamProofs ------------------------
(***************************************************************************)
(* Theorems about ResponseStream, for every channel capacity, every limit, *)
(* any chunk sizes and any number of chunks.                               *)
(***************************************************************************)
EXTENDS ResponseStream, Induction

(***************************************************************************)
(* No step is missed because of a late registration: whoever passed the    *)
(* check of the flag did so before it was stored, so the notification that *)
(* follows the store finds the future already created.                     *)
(***************************************************************************)
WatchInv ==
  /\ watch \in WatchLocation
  /\ failure # "none" => audit_failed
  /\ pc \in Streaming /\ watch \in {"checked", "waiting"}
       /\ failure \in {"notified", "reported"} => heard

\* WatchInv holds in every reachable state.
LEMMA WatchInvariant == Spec => []WatchInv
<1>1. Init => WatchInv
  BY DEF Init, WatchInv, WatchLocation
<1>2. WatchInv /\ [Next]_vars => WatchInv'
  <2> SUFFICES ASSUME WatchInv, [Next]_vars PROVE WatchInv'
    OBVIOUS
  <2> USE DEF WatchInv, WatchLocation, Streaming, waiter, failing, process
  <2>1. ASSUME ReadChunk PROVE WatchInv'
    BY <2>1 DEF ReadChunk, Goto, StartAudit
  <2>2. ASSUME FlushThenWithhold \/ FlushFails \/ FlushThenFail PROVE WatchInv'
    BY <2>2 DEF FlushThenWithhold, FlushFails, FlushThenFail, Goto, StartAudit
  <2>3. ASSUME UpstreamFails \/ UpstreamEnds \/ ReserveFinal PROVE WatchInv'
    BY <2>3 DEF UpstreamFails, UpstreamEnds, ReserveFinal, Goto, StartAudit
  <2>4. ASSUME StreamTimesOut PROVE WatchInv'
    BY <2>4 DEF StreamTimesOut, Goto, StartAudit
  <2>5. ASSUME CreateNotified PROVE WatchInv'
    BY <2>5 DEF CreateNotified, Watch
  <2>6. ASSUME LoadFlag PROVE WatchInv'
    BY <2>6 DEF LoadFlag, Watch
  <2>7. ASSUME AwaitNotified PROVE WatchInv'
    BY <2>7 DEF AwaitNotified, Watch
  <2>8. ASSUME Wake PROVE WatchInv'
    BY <2>8 DEF Wake, Watch
  <2>9. ASSUME AuditOk \/ AuditFails PROVE WatchInv'
    BY <2>9 DEF AuditOk, AuditFails, Goto
  <2>10. ASSUME SendStreamError \/ SendTerminalStreamError PROVE WatchInv'
    BY <2>10 DEF SendStreamError, SendTerminalStreamError, Goto
  <2>11. ASSUME HarnessReads \/ HarnessCloses PROVE WatchInv'
    BY <2>11 DEF HarnessReads, HarnessCloses
  <2>12. ASSUME OtherStoresFailure \/ OtherNotifies \/ OtherReports PROVE WatchInv'
    BY <2>12 DEF OtherStoresFailure, OtherNotifies, OtherReports
  <2>13. ASSUME Exit \/ UNCHANGED vars PROVE WatchInv'
    BY <2>13 DEF Exit, vars
  <2>14. QED
    BY <2>1, <2>2, <2>3, <2>4, <2>5, <2>6, <2>7, <2>8, <2>9, <2>10, <2>11, <2>12, <2>13
       DEF Next, TaskStep, UpstreamStep, WatchStep, Rest
<1>3. QED
  BY <1>1, <1>2, PTL DEF Spec

\* A stream that waits for an audit failure was woken once the failing request
\* has notified (wait_for_audit_failure, close_forwarding).
THEOREM NoFailureMissed == Spec => []NoMissedFailure
<1>1. WatchInv => NoMissedFailure
  BY DEF WatchInv, NoMissedFailure
<1>2. QED
  BY <1>1, WatchInvariant, PTL

-----------------------------------------------------------------------------
(* Types                                                                   *)

\* What the task reads, withholds and audits.
TaskType ==
  /\ pc \in Location
  /\ sizes \in Seq(ChunkSizes) /\ Len(sizes) <= MaxChunks
  /\ withheld \in {NoChunk} \cup Chunks
  /\ bytes \in Nat
  /\ outcome \in Outcomes \cup {"none"}
  /\ log \in Seq([outcome : Outcomes, bytes : Nat])
  /\ pc \in {"fail", "audit"} => outcome \in Outcomes
  /\ pc = "flush" => sizes # <<>>

WireType == channel \in Seq(Frames) /\ seen \in Seq(Frames)

SwitchType ==
  /\ reserved \in BOOLEAN /\ closed \in BOOLEAN /\ closed_first \in BOOLEAN
  /\ finished \in BOOLEAN /\ audit_failed \in BOOLEAN /\ fatal \in BOOLEAN
  /\ exited \in BOOLEAN /\ heard \in BOOLEAN
  /\ failure \in FailureProgress

\* The task's variables keep their types in every step.
LEMMA TaskSteps ==
  ASSUME TaskType, [Next]_vars PROVE TaskType'
<1> USE StreamAssumption DEF StreamAssumption, TaskType, Location, Chunks, NoChunk, body, ending,
        Outcomes
<1>1. ASSUME ReadChunk PROVE TaskType'
  <2>1. PICK size \in ChunkSizes :
          /\ sizes' = Append(sizes, size)
          /\ \/ Goto("next", "flush") /\ UNCHANGED <<withheld, bytes, ending>>
             \/ /\ Goto("next", "next") /\ withheld' = Len(sizes') /\ bytes' = bytes + size
                /\ UNCHANGED ending
             \/ /\ StartAudit("next", "response_body_too_large")
                /\ bytes' = bytes + size /\ UNCHANGED withheld
    BY <1>1 DEF ReadChunk
  <2>2. Len(sizes) < MaxChunks /\ UNCHANGED log
    BY <1>1 DEF ReadChunk
  <2>3. size \in Nat
    OBVIOUS
  <2>4. sizes' \in Seq(ChunkSizes) /\ Len(sizes') = Len(sizes) + 1 /\ Len(sizes) \in Nat
    BY <2>1
  <2>5. QED
    BY <2>1, <2>2, <2>3, <2>4 DEF Goto, StartAudit
<1>2. ASSUME FlushThenWithhold PROVE TaskType'
  <2>1. Last(sizes) \in Nat /\ Len(sizes) \in {0} \cup Chunks
    <3>1. Len(sizes) \in 1 .. MaxChunks /\ Last(sizes) = sizes[Len(sizes)]
      BY <1>2 DEF FlushThenWithhold, Goto, Last
    <3>2. sizes[Len(sizes)] \in ChunkSizes
      BY <3>1
    <3>3. QED
      BY <3>1, <3>2
  <2>2. QED
    BY <1>2, <2>1 DEF FlushThenWithhold, Goto, StartAudit
<1>3. ASSUME FlushFails \/ FlushThenFail PROVE TaskType'
  BY <1>3 DEF FlushFails, FlushThenFail, Goto, StartAudit
<1>4. ASSUME UpstreamFails \/ UpstreamEnds \/ ReserveFinal \/ StreamTimesOut PROVE TaskType'
  BY <1>4 DEF UpstreamFails, UpstreamEnds, ReserveFinal, StreamTimesOut, Goto, StartAudit
<1>5. ASSUME WatchStep PROVE TaskType'
  BY <1>5 DEF WatchStep, CreateNotified, LoadFlag, AwaitNotified, Wake
<1>6. ASSUME AuditOk PROVE TaskType'
  <2> DEFINE Events == [outcome : Outcomes, bytes : Nat]
             event == [outcome |-> outcome, bytes |-> bytes]
  <2>1. event \in Events /\ log \in Seq(Events)
    BY <1>6 DEF AuditOk, Goto
  <2>2. log' \in Seq(Events)
    <3>1. log' = log \/ log' = Append(log, event)
      BY <1>6, Zenon DEF AuditOk
    <3> HIDE DEF Events, event
    <3>2. QED
      BY ONLY <2>1, <3>1
  <2>3. QED
    BY <1>6, <2>2 DEF AuditOk, Goto
<1>7. ASSUME AuditFails PROVE TaskType'
  BY <1>7 DEF AuditFails, Goto
<1>8. ASSUME SendStreamError \/ SendTerminalStreamError PROVE TaskType'
  BY <1>8 DEF SendStreamError, SendTerminalStreamError, Goto
<1>9. ASSUME HarnessReads \/ HarnessCloses PROVE TaskType'
  BY <1>9 DEF HarnessReads, HarnessCloses
<1>10. ASSUME OtherStoresFailure \/ OtherNotifies \/ OtherReports PROVE TaskType'
  BY <1>10 DEF OtherStoresFailure, OtherNotifies, OtherReports
<1>11. ASSUME Exit \/ UNCHANGED vars PROVE TaskType'
  BY <1>11 DEF Exit, vars
<1>12. QED
  BY <1>1, <1>2, <1>3, <1>4, <1>5, <1>6, <1>7, <1>8, <1>9, <1>10, <1>11
     DEF Next, TaskStep, UpstreamStep, Rest

\* What the channel and the harness hold are frames.
LEMMA WireSteps ==
  ASSUME TaskType, WireType, [Next]_vars PROVE WireType'
<1> USE DEF WireType, wire, harness
<1>1. withheld \in Frames /\ Error \in Frames
  BY DEF TaskType, Frames, NoChunk, Error
<1>2. ASSUME UNCHANGED <<channel, seen>> PROVE WireType'
  BY <1>2
<1>3. ASSUME NEW frame \in Frames, channel' = Append(channel, frame), UNCHANGED seen
      PROVE  WireType'
  BY <1>3
<1>4. ASSUME HarnessReads PROVE WireType'
  <2>1. channel \in Seq(Frames) /\ channel # <<>>
    BY <1>4 DEF HarnessReads
  <2>2. Head(channel) \in Frames /\ Tail(channel) \in Seq(Frames)
    BY <2>1
  <2>3. QED
    BY <1>4, <2>2 DEF HarnessReads
<1>5. ASSUME HarnessCloses PROVE WireType'
  BY <1>5 DEF HarnessCloses
<1>6. ASSUME ReadChunk \/ FlushFails \/ UpstreamFails \/ UpstreamEnds \/ ReserveFinal
             \/ StreamTimesOut \/ WatchStep \/ AuditFails
      PROVE  WireType'
  BY <1>2, <1>6 DEF ReadChunk, FlushFails, UpstreamFails, UpstreamEnds, ReserveFinal,
     StreamTimesOut, WatchStep, CreateNotified, LoadFlag, AwaitNotified, Wake, AuditFails
<1>7. ASSUME FlushThenWithhold \/ FlushThenFail \/ AuditOk
             \/ SendStreamError \/ SendTerminalStreamError
      PROVE  WireType'
  BY <1>1, <1>2, <1>3, <1>7
     DEF FlushThenWithhold, FlushThenFail, AuditOk, SendStreamError,
         SendTerminalStreamError, Send
<1>8. ASSUME OtherStoresFailure \/ OtherNotifies \/ OtherReports \/ Exit \/ UNCHANGED vars
      PROVE  WireType'
  BY <1>2, <1>8 DEF OtherStoresFailure, OtherNotifies, OtherReports, Exit, vars
<1>9. QED
  BY <1>4, <1>5, <1>6, <1>7, <1>8 DEF Next, TaskStep, UpstreamStep, Rest

\* The switches stay Booleans.
LEMMA SwitchSteps ==
  ASSUME SwitchType, [Next]_vars PROVE SwitchType'
<1> USE DEF SwitchType, FailureProgress, wire, harness, ending, process, waiter, failing
<1>1. ASSUME ReadChunk \/ FlushThenWithhold \/ FlushThenFail
      PROVE  SwitchType'
  <2>1. CASE ReadChunk
    BY <2>1, Zenon DEF ReadChunk, StartAudit
  <2>2. CASE FlushThenWithhold
    BY <2>2, Zenon DEF FlushThenWithhold, StartAudit
  <2>3. CASE FlushThenFail
    BY <2>3, Zenon DEF FlushThenFail, StartAudit
  <2>4. QED
    BY <1>1, <2>1, <2>2, <2>3
<1>2. ASSUME FlushFails \/ UpstreamFails \/ UpstreamEnds \/ ReserveFinal \/ StreamTimesOut
      PROVE  SwitchType'
  <2>1. CASE FlushFails \/ StreamTimesOut
    BY <2>1, Zenon DEF FlushFails, StreamTimesOut, StartAudit
  <2>2. CASE UpstreamFails
    BY <2>2, Zenon DEF UpstreamFails, StartAudit
  <2>3. CASE UpstreamEnds
    BY <2>3, Zenon DEF UpstreamEnds, StartAudit
  <2>4. CASE ReserveFinal
    BY <2>4, Zenon DEF ReserveFinal, StartAudit
  <2>5. QED
    BY <1>2, <2>1, <2>2, <2>3, <2>4
<1>3. ASSUME WatchStep PROVE SwitchType'
  BY <1>3, Zenon DEF WatchStep, CreateNotified, LoadFlag, AwaitNotified, Wake
<1>4. ASSUME AuditOk \/ AuditFails PROVE SwitchType'
  BY <1>4, Zenon DEF AuditOk, AuditFails
<1>5. ASSUME SendStreamError \/ SendTerminalStreamError \/ HarnessReads \/ HarnessCloses
      PROVE  SwitchType'
  BY <1>5, Zenon DEF SendStreamError, SendTerminalStreamError, HarnessReads, HarnessCloses
<1>6. ASSUME OtherStoresFailure \/ OtherNotifies \/ OtherReports \/ Exit \/ UNCHANGED vars
      PROVE  SwitchType'
  <2>1. (watch # "loop") \in BOOLEAN
    OBVIOUS
  <2>2. QED
    BY <1>6, <2>1, Zenon DEF OtherStoresFailure, OtherNotifies, OtherReports, Exit, vars
<1>7. QED
  BY <1>1, <1>2, <1>3, <1>4, <1>5, <1>6, Zenon DEF Next, TaskStep, UpstreamStep, Rest

\* The types of TypeOK, with what the task's location tells of them.
LEMMA TypeInvariant == Spec => [](TaskType /\ WireType /\ SwitchType)
<1>1. Init => TaskType /\ WireType /\ SwitchType
  <2>1. Init => TaskType /\ WireType
    BY StreamAssumption DEF StreamAssumption, Init, TaskType, WireType, Location
  <2>2. Init => SwitchType
    BY Zenon DEF Init, SwitchType, FailureProgress
  <2>3. QED
    BY <2>1, <2>2
<1>2. TaskType /\ WireType /\ SwitchType /\ [Next]_vars
        => (TaskType /\ WireType /\ SwitchType)'
  BY TaskSteps, WireSteps, SwitchSteps, Zenon
<1>3. QED
  BY <1>1, <1>2, PTL DEF Spec

\* The variables of the stream keep their types (stream_upstream_response).
THEOREM TypeCorrect == Spec => []TypeOK
<1>1. TaskType /\ WireType /\ SwitchType /\ WatchInv => TypeOK
  BY Zenon DEF TaskType, WireType, SwitchType, WatchInv, TypeOK
<1>2. QED
  BY <1>1, TypeInvariant, WatchInvariant, PTL

-----------------------------------------------------------------------------
(* The terminal event                                                      *)

(***************************************************************************)
(* What the task withholds and has recorded, by where it stands: until the *)
(* terminal audit ends nothing is recorded; afterwards the event is there, *)
(* or auditing has failed.  When the upstream body ends, the chunk withheld*)
(* is its last.                                                            *)
(***************************************************************************)
UpstreamFailures == {"upstream_response_stream_failed", "upstream_response_timeout"}

AuditInv ==
  /\ pc \in Streaming \cup {"audit"} => ~finished /\ log = <<>>
  /\ Len(log) <= 1
  /\ pc \in {"graced", "abort", "done"} => log # <<>> \/ audit_failed
  /\ pc \in {"next", "fail", "reserve"} => withheld = Len(sizes)
  /\ pc = "flush" => withheld = Len(sizes) - 1
  /\ pc \in {"flush", "fail", "reserve"} => withheld > 0
  /\ pc = "fail" => outcome \in UpstreamFailures
  /\ pc = "audit" /\ outcome = "allowed" /\ closed_first => sizes = <<>>
  /\ EventOf("allowed") /\ closed_first => sizes = <<>>

\* An event that is not there has no outcome.
LEMMA NoEvent == log = <<>> => ~EventOf("allowed")
  BY DEF EventOf

\* AuditInv is preserved by every step.
LEMMA AuditSteps ==
  ASSUME TaskType, AuditInv, [Next]_vars PROVE AuditInv'
<1> USE DEF Streaming, NoChunk, body, wire, harness, ending, process, waiter, failing
<1>1. Len(sizes) \in Nat /\ Len(log) \in Nat /\ withheld \in Nat /\ (sizes = <<>> <=> Len(sizes) = 0)
  BY StreamAssumption DEF StreamAssumption, TaskType, Chunks
<1>2. (UNCHANGED log) => (EventOf("allowed")' = EventOf("allowed"))
  BY DEF EventOf
<1>3. ASSUME ReadChunk PROVE AuditInv'
  <2>1. PICK size \in ChunkSizes :
          /\ sizes' = Append(sizes, size)
          /\ \/ withheld # NoChunk /\ Goto("next", "flush") /\ UNCHANGED <<withheld, bytes, ending>>
             \/ Goto("next", "next") /\ withheld' = Len(sizes') /\ UNCHANGED ending
             \/ StartAudit("next", "response_body_too_large") /\ UNCHANGED withheld
    BY <1>3 DEF ReadChunk
  <2>2. UNCHANGED <<log, finished, audit_failed>> /\ log = <<>> /\ pc = "next"
    BY <1>3, <2>1 DEF ReadChunk, AuditInv, Goto, StartAudit
  <2>3. Len(sizes') = Len(sizes) + 1
    BY <2>1 DEF TaskType
  <2>4. ~EventOf("allowed")'
    BY <1>2, <2>2, NoEvent
  <2>5. QED
    BY <1>1, <2>1, <2>2, <2>3, <2>4 DEF AuditInv, Goto, StartAudit
<1>4. ASSUME FlushThenWithhold \/ FlushFails \/ FlushThenFail PROVE AuditInv'
  <2>1. UNCHANGED <<log, finished, audit_failed, sizes>> /\ log = <<>> /\ pc \in {"flush", "fail"}
    BY <1>4 DEF FlushThenWithhold, FlushFails, FlushThenFail, AuditInv, Goto, StartAudit
  <2>2. ~EventOf("allowed")'
    BY <1>2, <2>1, NoEvent
  <2>3. \/ pc' = "next" /\ withheld' = Len(sizes')
        \/ pc' = "audit" /\ outcome' # "allowed"
    BY <1>1, <1>4, <2>1
       DEF FlushThenWithhold, FlushFails, FlushThenFail, Goto, StartAudit, AuditInv, UpstreamFailures
  <2>4. QED
    BY <1>1, <2>1, <2>2, <2>3 DEF AuditInv
<1>5. ASSUME UpstreamFails \/ UpstreamEnds \/ ReserveFinal \/ StreamTimesOut PROVE AuditInv'
  <2>1. UNCHANGED <<log, finished, audit_failed, sizes>> /\ log = <<>> /\ ~finished
    BY <1>5 DEF UpstreamFails, UpstreamEnds, ReserveFinal, StreamTimesOut, AuditInv, Goto, StartAudit
  <2>2. ~EventOf("allowed")'
    BY <1>2, <2>1, NoEvent
  <2>3. \/ pc' = "fail" /\ outcome' \in UpstreamFailures /\ withheld' = Len(sizes) /\ withheld' > 0
        \/ pc' = "reserve" /\ withheld' = Len(sizes) /\ withheld' > 0
        \/ pc' = "audit" /\ outcome' # "allowed"
        \/ pc' = "audit" /\ sizes = <<>>
        \/ pc' = "audit" /\ ~closed_first'
    <3>1. CASE UpstreamFails
      BY <1>1, <3>1 DEF AuditInv, UpstreamFails, Goto, StartAudit, UpstreamFailures
    <3>2. CASE UpstreamEnds
      BY <1>1, <3>2 DEF AuditInv, UpstreamEnds, Goto, StartAudit
    <3>3. CASE ReserveFinal
      BY <1>1, <3>3 DEF ReserveFinal, Goto, StartAudit
    <3>4. CASE StreamTimesOut
      BY <3>4 DEF StreamTimesOut, Goto, StartAudit
    <3>5. QED
      BY <1>5, <3>1, <3>2, <3>3, <3>4
  <2>4. QED
    BY <1>1, <2>1, <2>2, <2>3 DEF AuditInv
<1>6. ASSUME WatchStep PROVE AuditInv'
  <2>1. UNCHANGED <<log, finished, audit_failed, sizes, closed_first>>
    BY <1>6 DEF WatchStep, CreateNotified, LoadFlag, AwaitNotified, Wake
  <2>2. UNCHANGED <<pc, withheld, outcome>> \/ (pc' = "abort" /\ audit_failed)
    BY <1>6 DEF WatchStep, CreateNotified, LoadFlag, AwaitNotified, Wake
  <2>3. CASE UNCHANGED <<pc, withheld, outcome>>
    BY <1>2, <2>1, <2>3 DEF AuditInv
  <2>4. CASE pc' = "abort" /\ audit_failed
    BY <1>2, <2>1, <2>4 DEF AuditInv
  <2>5. QED
    BY <2>2, <2>3, <2>4
<1>7. ASSUME AuditOk PROVE AuditInv'
  <2>1. /\ log' = Append(log, [outcome |-> outcome, bytes |-> bytes])
        /\ log = <<>> /\ UNCHANGED <<sizes, outcome, closed_first>> /\ pc = "audit"
        /\ pc' \in {"graced", "done"}
    BY <1>7 DEF AuditOk, AuditInv, Goto
  <2>2. Len(log') = 1 /\ log'[1].outcome = outcome /\ log' # <<>> /\ DOMAIN log' = 1 .. 1
    BY <2>1
  <2>3. EventOf("allowed")' => outcome = "allowed"
    BY <2>2 DEF EventOf
  <2>4. QED
    BY <2>1, <2>2, <2>3 DEF AuditInv
<1>8. ASSUME AuditFails PROVE AuditInv'
  <2>1. UNCHANGED log /\ log = <<>> /\ pc' \in {"graced", "abort", "done"} /\ audit_failed'
    BY <1>8 DEF AuditFails, AuditInv, Goto
  <2>2. ~EventOf("allowed")'
    BY <1>2, <2>1, NoEvent
  <2>3. QED
    BY <1>1, <2>1, <2>2 DEF AuditInv
<1>9. ASSUME SendStreamError \/ SendTerminalStreamError PROVE AuditInv'
  <2>1. UNCHANGED <<log, finished, audit_failed, sizes, closed_first>> /\ pc' = "done"
        /\ pc \in {"graced", "abort"}
    BY <1>9 DEF SendStreamError, SendTerminalStreamError, Goto
  <2>2. QED
    BY <1>1, <1>2, <2>1 DEF AuditInv
<1>10. ASSUME HarnessReads \/ HarnessCloses \/ OtherStoresFailure \/ OtherNotifies \/ OtherReports
              \/ Exit \/ UNCHANGED vars
       PROVE  AuditInv'
  <2>1. UNCHANGED <<pc, log, finished, sizes, withheld, outcome, closed_first>>
        /\ (audit_failed => audit_failed')
    BY <1>10 DEF HarnessReads, HarnessCloses, OtherStoresFailure, OtherNotifies, OtherReports,
       Exit, vars
  <2>2. QED
    BY <1>1, <1>2, <2>1 DEF AuditInv
<1>11. QED
  BY <1>3, <1>4, <1>5, <1>6, <1>7, <1>8, <1>9, <1>10
     DEF Next, TaskStep, UpstreamStep, Rest

\* AuditInv holds in every reachable state.
LEMMA AuditInvariant == Spec => [](TaskType /\ WireType /\ SwitchType /\ AuditInv)
<1>1. Init => AuditInv
  BY NoEvent DEF Init, AuditInv, Streaming, NoChunk
<1>2. TaskType /\ AuditInv /\ [Next]_vars => AuditInv'
  BY AuditSteps
<1>3. QED
  BY <1>1, <1>2, TypeInvariant, PTL DEF Spec

\* No stream writes two terminal events (terminal_audit_finished).
THEOREM OneTerminalEvent == Spec => []AtMostOneTerminalEvent
<1>1. AuditInv => AtMostOneTerminalEvent
  BY DEF AuditInv, AtMostOneTerminalEvent
<1>2. QED
  BY <1>1, AuditInvariant, PTL

\* A harness that hung up before the terminal audit is not recorded as served
\* (reserve, audit_after_response_started).
THEOREM HangUpsRecorded == Spec => []HangUpIsRecorded
<1>1. AuditInv => HangUpIsRecorded
  BY DEF AuditInv, HangUpIsRecorded
<1>2. QED
  BY <1>1, AuditInvariant, PTL

-----------------------------------------------------------------------------
(* What the harness was sent                                               *)

(***************************************************************************)
(* Frame i is chunk i until the task is done, and the frames stop before   *)
(* the withheld chunk: right before it while the harness holds the body,   *)
(* which drops the queued frames when it closes.  A reserved slot belongs  *)
(* to the last chunk of a body being audited as allowed.                   *)
(***************************************************************************)
Numbered == \A i \in 1 .. Len(Sent) : Sent[i] = i

SentInv ==
  /\ pc # "done" => Numbered
  /\ InOrder
  /\ reserved => pc = "audit" /\ outcome = "allowed" /\ withheld = Len(sizes) /\ withheld > 0
  /\ pc \in Streaming \/ reserved =>
       /\ withheld > 0 => Len(Sent) < withheld
       /\ withheld > 0 /\ ~closed => Len(Sent) + 1 = withheld
       /\ withheld = 0 => Len(Sent) = 0
  /\ LastChunkWithheld

\* How a step may change what was sent: not at all, by one frame at the end, or by
\* losing the frames still queued.
Kept == UNCHANGED Sent
Sends(frame) ==
  /\ Len(Sent') = Len(Sent) + 1
  /\ \A i \in 1 .. Len(Sent) : Sent'[i] = Sent[i]
  /\ Sent'[Len(Sent) + 1] = frame
Loses ==
  /\ Len(Sent') <= Len(Sent)
  /\ \A i \in 1 .. Len(Sent') : Sent'[i] = Sent[i]

\* Len(Sent) is a number and Sent a sequence, before and after a step.
LEMMA SentIsSeq == ASSUME WireType PROVE Sent \in Seq(Frames) /\ Len(Sent) \in Nat
  BY DEF WireType, Sent

\* A queued frame extends what was sent.
LEMMA Queued ==
  ASSUME WireType, NEW frame \in Frames, channel' = Append(channel, frame), UNCHANGED seen
  PROVE  Sends(frame)
<1> DEFINE n == Len(seen) m == Len(channel)
<1>1. n \in Nat /\ m \in Nat /\ Len(channel') = m + 1 /\ channel' \in Seq(Frames)
  BY DEF WireType
<1>2. Sent \in Seq(Frames) /\ Len(Sent) = n + m /\ Len(Sent') = n + (m + 1)
  BY <1>1 DEF WireType, Sent
<1>3. \A i \in 1 .. (n + m) : Sent[i] = IF i <= n THEN seen[i] ELSE channel[i - n]
  BY ConcatProperties DEF WireType, Sent
<1>4. \A i \in 1 .. (n + (m + 1)) : Sent'[i] = IF i <= n THEN seen[i] ELSE channel'[i - n]
  BY <1>1, ConcatProperties DEF WireType, Sent
<1>5. channel'[m + 1] = frame /\ \A i \in 1 .. m : channel'[i] = channel[i]
  BY <1>1 DEF WireType
<1> HIDE DEF n, m
<1>6. \A i \in 1 .. (n + m) : Sent'[i] = Sent[i]
  <2> TAKE i \in 1 .. (n + m)
  <2>1. CASE i <= n
    BY <1>1, <1>3, <1>4, <2>1
  <2>2. CASE ~(i <= n)
    <3>1. i - n \in 1 .. m /\ i \in 1 .. (n + (m + 1))
      BY <1>1, <2>2
    <3>2. QED
      BY <1>3, <1>4, <1>5, <2>2, <3>1
  <2>3. QED
    BY <2>1, <2>2
<1>7. Sent'[n + m + 1] = frame
  <2> DEFINE k == n + m + 1
  <2>1. k \in 1 .. (n + (m + 1)) /\ ~(k <= n) /\ k - n = m + 1
    BY <1>1
  <2> HIDE DEF k
  <2>2. Sent'[k] = channel'[k - n]
    BY <1>4, <2>1
  <2>3. Sent'[k] = frame
    BY <1>5, <2>1, <2>2
  <2>4. QED
    BY <2>3 DEF k
<1>8. QED
  BY <1>1, <1>2, <1>6, <1>7 DEF Sends

\* Reading moves the first queued frame to what was seen.
LEMMA ReadKeeps == ASSUME WireType, HarnessReads PROVE Kept
<1>1. /\ channel \in Seq(Frames) /\ channel # <<>> /\ seen \in Seq(Frames)
      /\ seen' = Append(seen, Head(channel)) /\ channel' = Tail(channel)
  BY DEF WireType, HarnessReads
<1>2. QED
  BY <1>1 DEF Kept, Sent

\* Closing loses what is queued.
LEMMA CloseLoses == ASSUME WireType, HarnessCloses PROVE Loses
<1>1. channel' = <<>> /\ seen' = seen
  BY DEF HarnessCloses, harness, wire
<1>2. Sent' = seen
  BY <1>1 DEF Sent, WireType
<1>3. Len(seen) \in Nat /\ Len(Sent) = Len(seen) + Len(channel) /\ Len(channel) \in Nat
  BY DEF WireType, Sent
<1>4. \A i \in 1 .. Len(seen) : Sent[i] = seen[i]
  BY <1>3, ConcatProperties DEF WireType, Sent
<1>5. QED
  BY <1>2, <1>3, <1>4 DEF Loses

\* Frames that keep their numbers keep what SentInv says of them.
LEMMA KeptInOrder ==
  ASSUME WireType, WireType', Kept PROVE (Numbered => Numbered') /\ (InOrder => InOrder')
  BY DEF Kept, Numbered, InOrder

\* Losing the queued frames leaves the others where they were.
LEMMA LosesInOrder ==
  ASSUME WireType, WireType', Loses PROVE (Numbered => Numbered') /\ (InOrder => InOrder')
<1>1. Len(Sent) \in Nat /\ Len(Sent') \in Nat /\ DOMAIN Sent = 1 .. Len(Sent)
      /\ DOMAIN Sent' = 1 .. Len(Sent')
  BY DEF WireType, Sent
<1>2. \A i \in 1 .. Len(Sent') : i \in 1 .. Len(Sent) /\ (i = Len(Sent) => i = Len(Sent'))
  <2> DEFINE n == Len(Sent) m == Len(Sent')
  <2>1. n \in Nat /\ m \in Nat /\ m <= n
    BY <1>1 DEF Loses
  <2> HIDE DEF n, m
  <2>2. \A i \in 1 .. m : i \in 1 .. n /\ (i = n => i = m)
    BY <2>1
  <2>3. QED
    BY <2>2 DEF n, m
<1>3. Numbered => Numbered'
  BY <1>2 DEF Loses, Numbered
<1>4. ASSUME InOrder PROVE InOrder'
  <2> SUFFICES ASSUME NEW i \in 1 .. Len(Sent')
               PROVE  Sent'[i] = i \/ (Sent'[i] = Error /\ i = Len(Sent'))
    BY <1>1 DEF InOrder
  <2>1. Sent'[i] = Sent[i] /\ i \in DOMAIN Sent
    BY <1>1, <1>2 DEF Loses
  <2>2. QED
    BY <1>2, <1>4, <2>1 DEF InOrder
<1>5. QED
  BY <1>3, <1>4

\* A chunk that follows numbered frames is numbered; an error frame ends them.
LEMMA SendsInOrder ==
  ASSUME WireType, WireType', Numbered, NEW frame \in Frames, Sends(frame)
  PROVE  /\ frame = Len(Sent) + 1 => Numbered' /\ InOrder'
         /\ frame = Error => InOrder'
<1>1. Len(Sent) \in Nat /\ DOMAIN Sent' = 1 .. Len(Sent')
  BY DEF WireType, Sent
<1>2. \A i \in 1 .. Len(Sent') : i \in 1 .. Len(Sent) \/ i = Len(Sent')
  BY <1>1 DEF Sends
<1>3. QED
  BY <1>1, <1>2 DEF Sends, Numbered, InOrder

\* Numbered frames do not contain a chunk that comes after them.
LEMMA BeforeLast ==
  ASSUME NEW s \in Seq(Frames), NEW n \in Nat, Len(s) < n, \A i \in 1 .. Len(s) : s[i] = i
  PROVE  ~Contains(s, n)
  BY DEF Contains

\* SentInv is preserved by every step.
LEMMA SentSteps ==
  ASSUME TaskType, TaskType', WireType, WireType', AuditInv, AuditInv', SentInv, [Next]_vars
  PROVE  SentInv'
<1> USE DEF Streaming, NoChunk, body, wire, harness, ending, process, waiter, failing
<1>1. /\ Len(sizes) \in Nat /\ Len(Sent) \in Nat /\ withheld \in Nat
      /\ sizes = <<>> <=> Len(sizes) = 0
      /\ withheld \in Frames /\ Error \in Frames
  BY StreamAssumption, SentIsSeq DEF StreamAssumption, TaskType, Chunks, Frames, Error
<1>2. Len(sizes') \in Nat /\ (sizes' = <<>> <=> Len(sizes') = 0) /\ Sent' \in Seq(Frames)
      /\ Len(Sent') \in Nat
  BY DEF TaskType, WireType, Sent
<1>3. UNCHANGED <<channel, seen>> => Kept
  BY DEF Kept, Sent
<1>4. pc # "done" => Numbered
  BY DEF SentInv
<1>5. pc \in Streaming =>
        Len(Sent) <= withheld /\ withheld <= Len(sizes) /\ (Len(Sent) < Len(sizes) \/ sizes = <<>>)
        /\ ~reserved
  BY <1>1 DEF SentInv, AuditInv
<1>6. ASSUME Numbered', Len(Sent') < Len(sizes') PROVE LastChunkWithheld'
  BY <1>2, <1>6, BeforeLast DEF Numbered, LastChunkWithheld
<1>7. sizes' = <<>> => LastChunkWithheld'
  BY DEF LastChunkWithheld
<1>8. Kept => (Numbered => Numbered') /\ (InOrder => InOrder')
  BY KeptInOrder
<1>9. ASSUME ReadChunk PROVE SentInv'
  <2>1. /\ UNCHANGED <<reserved, closed>> /\ Kept /\ pc = "next"
        /\ \/ pc' = "flush" /\ withheld' = withheld /\ withheld > 0
           \/ pc' = "next" /\ withheld = 0 /\ withheld' = Len(sizes')
           \/ pc' = "audit"
    BY <1>1, <1>3, <1>9 DEF ReadChunk, Goto, StartAudit
  <2>2. Len(sizes') = Len(sizes) + 1
    BY <1>9 DEF ReadChunk, TaskType
  <2>3. Numbered' /\ InOrder' /\ Len(Sent') = Len(Sent) /\ ~reserved'
    BY <1>4, <1>5, <1>8, <2>1 DEF SentInv, Kept
  <2>4. LastChunkWithheld'
    BY <1>1, <1>5, <1>6, <2>1, <2>2, <2>3
  <2>5. pc' \in Streaming => (withheld' > 0 /\ Len(Sent') < withheld'
                              /\ (~closed' => Len(Sent') + 1 = withheld'))
    BY <1>1, <1>5, <2>1, <2>2, <2>3 DEF SentInv, AuditInv
  <2>6. QED
    BY <2>3, <2>4, <2>5 DEF SentInv
<1>10. ASSUME FlushThenWithhold PROVE SentInv'
  <2>1. /\ UNCHANGED <<sizes, reserved, closed, seen>> /\ channel' = Append(channel, withheld)
        /\ pc = "flush" /\ ~closed
        /\ \/ pc' = "next" /\ withheld' = Len(sizes)
           \/ pc' = "audit"
    BY <1>10 DEF FlushThenWithhold, Send, Goto, StartAudit
  <2>2. Sends(withheld) /\ Len(Sent) + 1 = withheld /\ withheld = Len(sizes) - 1
    BY <1>1, <2>1, Queued DEF SentInv, AuditInv
  <2>3. Numbered' /\ InOrder' /\ Len(Sent') = withheld /\ ~reserved'
    BY <1>1, <1>4, <1>5, <2>1, <2>2, SendsInOrder DEF Sends
  <2>4. LastChunkWithheld'
    BY <1>1, <1>6, <2>1, <2>2, <2>3
  <2>5. QED
    BY <1>1, <2>1, <2>2, <2>3, <2>4 DEF SentInv
<1>11. ASSUME FlushThenFail PROVE SentInv'
  <2>1. /\ UNCHANGED <<sizes, reserved, closed, seen>>
        /\ \/ channel' = Append(channel, withheld) /\ ~closed
           \/ UNCHANGED channel
        /\ pc = "fail" /\ pc' = "audit" /\ outcome' \in UpstreamFailures
    BY <1>11 DEF FlushThenFail, Send, Goto, StartAudit, AuditInv
  <2>2. CASE UNCHANGED channel
    BY <1>3, <1>4, <1>5, <1>8, <2>1, <2>2
       DEF SentInv, LastChunkWithheld, UpstreamFailures
  <2>3. CASE channel' = Append(channel, withheld) /\ ~closed
    <3>1. Sends(withheld) /\ Len(Sent) + 1 = withheld
      BY <1>1, <2>1, <2>3, Queued DEF SentInv, AuditInv
    <3>2. Numbered' /\ InOrder'
      BY <1>1, <1>4, <2>1, <3>1, SendsInOrder
    <3>3. QED
      BY <1>5, <2>1, <3>2 DEF SentInv, LastChunkWithheld, UpstreamFailures
  <2>4. QED
    BY <2>1, <2>2, <2>3
<1>12. ASSUME pc \in Streaming, pc' \in {"audit", "abort"}, Kept, UNCHANGED <<sizes, closed>>,
              reserved' => /\ pc' = "audit" /\ outcome' = "allowed" /\ withheld' = Len(sizes')
                           /\ withheld' > 0 /\ withheld' = withheld
       PROVE  SentInv'
  <2>1. Numbered' /\ InOrder' /\ Len(Sent') = Len(Sent)
    BY <1>4, <1>8, <1>12 DEF Kept, SentInv
  <2>2. LastChunkWithheld'
    BY <1>1, <1>5, <1>6, <1>7, <1>12, <2>1
  <2>3. QED
    BY <1>1, <1>12, <2>1, <2>2 DEF SentInv
<1>13. ASSUME FlushFails \/ StreamTimesOut PROVE SentInv'
  <2>1. pc \in Streaming /\ pc' = "audit" /\ Kept /\ UNCHANGED <<closed, sizes, reserved>>
    BY <1>3, <1>13 DEF FlushFails, StreamTimesOut, StartAudit, Goto
  <2>2. QED
    BY <1>5, <1>12, <2>1
<1>14. ASSUME UpstreamFails \/ UpstreamEnds PROVE SentInv'
  <2>1. /\ pc = "next" /\ pc' \in {"audit", "fail", "reserve"} /\ Kept
        /\ UNCHANGED <<closed, sizes, reserved, withheld>>
    BY <1>3, <1>14 DEF UpstreamFails, UpstreamEnds, StartAudit, Goto
  <2>2. CASE pc' = "audit"
    BY <1>5, <1>12, <2>1, <2>2
  <2>3. CASE pc' \in {"fail", "reserve"}
    <3>1. Numbered' /\ InOrder' /\ Len(Sent') = Len(Sent) /\ ~reserved'
      BY <1>4, <1>5, <1>8, <2>1 DEF Kept, SentInv
    <3>2. LastChunkWithheld'
      BY <1>5, <1>6, <1>7, <2>1, <3>1
    <3>3. QED
      BY <2>1, <2>3, <3>1, <3>2 DEF SentInv
  <2>4. QED
    BY <2>1, <2>2, <2>3
<1>15. ASSUME ReserveFinal PROVE SentInv'
  <2>1. /\ pc = "reserve" /\ pc' = "audit" /\ Kept /\ UNCHANGED <<closed, sizes, withheld>>
        /\ \/ ~closed /\ outcome' = "allowed"
           \/ UNCHANGED reserved
    BY <1>3, <1>15 DEF ReserveFinal, StartAudit, Goto
  <2>2. withheld = Len(sizes) /\ withheld > 0
    BY <2>1 DEF AuditInv
  <2>3. QED
    BY <1>5, <1>12, <2>1, <2>2
<1>16. ASSUME Kept, UNCHANGED <<pc, sizes, withheld, reserved, closed, outcome, log>>
       PROVE  SentInv'
  BY <1>16 DEF SentInv, Kept, Numbered, InOrder, LastChunkWithheld, EventOf
<1>17. ASSUME WatchStep PROVE SentInv'
  <2>1. /\ Kept /\ pc \in Streaming
        /\ UNCHANGED <<sizes, reserved, closed, outcome, log>>
        /\ \/ UNCHANGED <<pc, withheld>>
           \/ pc' = "abort"
    BY <1>3, <1>17 DEF WatchStep, CreateNotified, LoadFlag, AwaitNotified, Wake, Watch
  <2>2. CASE pc' = "abort"
    BY <1>5, <1>12, <2>1, <2>2
  <2>3. QED
    BY <1>16, <2>1, <2>2
<1>18. ASSUME AuditOk PROVE SentInv'
  <2>1. /\ UNCHANGED <<sizes, outcome, closed, seen>> /\ pc = "audit" /\ pc' \in {"graced", "done"}
        /\ outcome = "allowed" => pc' = "done"
        /\ log = <<>> /\ log' = Append(log, [outcome |-> outcome, bytes |-> bytes])
        /\ ~reserved'
        /\ \/ reserved /\ ~closed /\ channel' = Append(channel, withheld)
           \/ UNCHANGED channel
    BY <1>18 DEF AuditOk, AuditInv, Goto, TellsHarness
  <2>2. ~EventOf("allowed")
    BY <2>1, NoEvent
  <2>3. CASE UNCHANGED channel
    <3>1. Numbered' /\ InOrder' /\ Kept
      BY <1>3, <1>4, <1>8, <2>1, <2>3 DEF SentInv
    <3>2. LastChunkWithheld'
      BY <2>1, <2>2, <3>1 DEF SentInv, LastChunkWithheld, Kept
    <3>3. QED
      BY <2>1, <3>1, <3>2 DEF SentInv
  <2>4. CASE reserved /\ ~closed /\ channel' = Append(channel, withheld)
    <3>1. Sends(withheld) /\ Len(Sent) + 1 = withheld /\ outcome = "allowed"
      BY <1>1, <2>1, <2>4, Queued DEF SentInv
    <3>2. Numbered' /\ InOrder'
      BY <1>1, <1>4, <2>1, <3>1, SendsInOrder
    <3>3. EventOf("allowed")'
      <4>1. DOMAIN log' = 1 .. 1 /\ log'[1].outcome = outcome
        BY <2>1
      <4>2. QED
        BY <3>1, <4>1 DEF EventOf
    <3>4. QED
      BY <2>1, <3>2, <3>3 DEF SentInv, LastChunkWithheld
  <2>5. QED
    BY <2>1, <2>3, <2>4
<1>19. ASSUME AuditFails PROVE SentInv'
  <2>1. /\ UNCHANGED <<sizes, outcome, closed, log>> /\ Kept /\ pc = "audit" /\ ~reserved'
        /\ pc' \in {"graced", "abort", "done"}
    BY <1>3, <1>19 DEF AuditFails, Goto
  <2>2. QED
    BY <1>4, <1>8, <2>1 DEF SentInv, LastChunkWithheld, Kept, EventOf
<1>20. ASSUME SendStreamError \/ SendTerminalStreamError PROVE SentInv'
  <2>1. /\ UNCHANGED <<sizes, outcome, closed, log, reserved, seen>> /\ pc' = "done"
        /\ pc \in {"graced", "abort"}
        /\ channel' = Append(channel, Error) \/ UNCHANGED channel
    BY <1>20 DEF SendStreamError, SendTerminalStreamError, Send, Goto
  <2>2. ~reserved'
    BY <2>1 DEF SentInv
  <2>3. CASE UNCHANGED channel
    BY <1>3, <1>8, <2>1, <2>2, <2>3 DEF SentInv, LastChunkWithheld, Kept, EventOf
  <2>4. CASE channel' = Append(channel, Error)
    <3>1. Sends(Error) /\ InOrder'
      BY <1>1, <1>4, <2>1, <2>4, Queued, SendsInOrder
    <3>2. sizes # <<>> /\ Contains(Sent', Len(sizes)) => Contains(Sent, Len(sizes))
      BY <1>1, <1>2, <3>1 DEF Sends, Contains, Error
    <3>3. LastChunkWithheld'
      BY <2>1, <3>2 DEF SentInv, LastChunkWithheld, EventOf
    <3>4. QED
      BY <2>1, <2>2, <3>1, <3>3 DEF SentInv
  <2>5. QED
    BY <2>1, <2>3, <2>4
<1>21. ASSUME HarnessReads PROVE SentInv'
  <2>1. Kept /\ UNCHANGED <<pc, sizes, withheld, reserved, closed, outcome, log>>
    BY <1>21, ReadKeeps DEF HarnessReads
  <2>2. QED
    BY <1>16, <2>1
<1>22. ASSUME HarnessCloses PROVE SentInv'
  <2>1. Loses /\ UNCHANGED <<pc, sizes, withheld, reserved, outcome, log>> /\ closed'
    BY <1>22, CloseLoses DEF HarnessCloses
  <2>2. /\ Numbered => Numbered'
        /\ InOrder => InOrder'
        /\ Len(Sent') <= Len(Sent)
    BY <2>1, LosesInOrder DEF Loses
  <2>3. Contains(Sent', Len(sizes)) => Contains(Sent, Len(sizes))
    BY <1>1, <1>2, <2>1 DEF Loses, Contains
  <2>4. LastChunkWithheld'
    BY <2>1, <2>3 DEF SentInv, LastChunkWithheld, EventOf
  <2>5. QED
    BY <1>1, <1>2, <2>1, <2>2, <2>4 DEF SentInv
<1>23. ASSUME OtherStoresFailure \/ OtherNotifies \/ OtherReports \/ Exit \/ UNCHANGED vars
       PROVE  SentInv'
  <2>1. Kept /\ UNCHANGED <<pc, sizes, withheld, reserved, closed, outcome, log>>
    BY <1>3, <1>23 DEF OtherStoresFailure, OtherNotifies, OtherReports, Exit, vars
  <2>2. QED
    BY <1>16, <2>1
<1>24. QED
  BY <1>9, <1>10, <1>11, <1>13, <1>14, <1>15, <1>17, <1>18, <1>19, <1>20, <1>21, <1>22, <1>23
     DEF Next, TaskStep, UpstreamStep, Rest

\* SentInv holds in every reachable state.
LEMMA SentInvariant == Spec => [](WireType /\ AuditInv /\ SentInv)
<1>1. Init => SentInv
  <2>1. Init => Sent = <<>> /\ Len(Sent) = 0
    BY DEF Init, Sent
  <2>2. QED
    BY <2>1 DEF Init, SentInv, InOrder, Numbered, LastChunkWithheld, NoChunk
<1>2. TaskType /\ TaskType' /\ WireType /\ WireType' /\ AuditInv /\ AuditInv' /\ SentInv
        /\ [Next]_vars => SentInv'
  BY SentSteps
<1>3. QED
  BY <1>1, <1>2, AuditInvariant, PTL DEF Spec

\* The harness gets the chunks in order, and an error frame only as the last one
\* (stream_upstream_response).
THEOREM FramesInOrder == Spec => []InOrder
<1>1. SentInv => InOrder
  BY DEF SentInv
<1>2. QED
  BY <1>1, SentInvariant, PTL

\* The last chunk of a body leaves after its "allowed" event, or after the body
\* has failed (the withheld chunk, reserve).
THEOREM LastChunkKept == Spec => []LastChunkWithheld
<1>1. SentInv => LastChunkWithheld
  BY DEF SentInv
<1>2. QED
  BY <1>1, SentInvariant, PTL

\* No error frame is sent while a terminal event is owed (send_stream_error).
THEOREM ErrorsAfterAudit == Spec => []ErrorAfterAudit
<1>1. ASSUME WireType, AuditInv, SentInv PROVE ErrorAfterAudit
  <2>1. CASE pc = "done"
    BY <1>1, <2>1 DEF AuditInv, ErrorAfterAudit
  <2>2. CASE pc # "done"
    <3>1. \A i \in 1 .. Len(Sent) : Sent[i] # Error
      BY <1>1, <2>2, SentIsSeq DEF SentInv, Numbered, Error
    <3>2. QED
      BY <3>1 DEF ErrorAfterAudit, Contains
  <2>3. QED
    BY <2>1, <2>2
<1>2. QED
  BY <1>1, SentInvariant, PTL

-----------------------------------------------------------------------------
(* The bytes accounted for                                                 *)

\* One step of Total, as a function.
AddSize(s) == [x \in Nat \X (1 .. Len(s)) |-> x[1] + s[x[2]]]

\* Total adds one size at a time.
LEMMA TotalRuns ==
  ASSUME NEW s \in Seq(Nat)
  PROVE  FoldRuns(Nat, 0, Len(s), AddSize(s), Total(s))
<1> DEFINE m == Len(s)
           c == 0
           step == AddSize(s)
           pick == [t \in SUBSET (1 .. m) |-> Max(t)]
           Body(h, t) == IF t = {} THEN c ELSE h[t \ {Max(t)}] + s[Max(t)]
           iter == CHOOSE h : h = [t \in SUBSET DOMAIN s |-> Body(h, t)]
<1>1. c \in Nat /\ m \in Nat /\ DOMAIN s = 1 .. m /\ \A i \in 1 .. m : s[i] \in Nat
  BY LenProperties
<1>2. step \in [Nat \X (1 .. m) -> Nat]
  BY <1>1 DEF AddSize
<1>3. \A a \in Nat, i \in 1 .. m : step[<<a, i>>] = a + s[i]
  BY <1>1 DEF AddSize
<1> HIDE DEF m, c, step
<1>4. FoldDefined(Nat, c, 1 .. m, step, pick)
  BY <1>1, <1>2, FoldFromLeft
<1>5. PICK g \in [SUBSET (1 .. m) -> Nat] :
        \A t \in SUBSET (1 .. m) : g[t] = FoldStep(c, step, pick, g, t)
  BY <1>4 DEF FoldDefined
<1>6. \A t \in SUBSET (1 .. m) : t # {} => Max(t) \in t /\ t \ {Max(t)} \in SUBSET (1 .. m)
  BY <1>1, MaxIn
<1>7. \A t \in SUBSET (1 .. m) : g[t] = Body(g, t)
  BY <1>3, <1>5, <1>6 DEF FoldStep
<1>8. g = [t \in SUBSET DOMAIN s |-> Body(g, t)]
  BY <1>1, <1>5, <1>7
<1>9. iter = [t \in SUBSET DOMAIN s |-> Body(iter, t)]
  BY <1>8
<1>10. Total(s) = iter[DOMAIN s]
  BY DEF Total, FoldLeft, MapThenFoldSet, c
<1> HIDE DEF iter
<1>11. iter[{}] = c
  BY <1>9
<1>12. ASSUME NEW t \in SUBSET (1 .. m), t # {}, iter[t \ {Max(t)}] \in Nat
       PROVE  iter[t] = step[<<iter[t \ {Max(t)}], Max(t)>>]
  BY <1>3, <1>1, <1>6, <1>9, <1>12
<1>13. FoldRuns(Nat, c, m, step, iter[1 .. m])
  BY <1>1, <1>2, <1>11, <1>12, FoldPositions
<1>14. QED
  BY <1>1, <1>10, <1>13 DEF m, c, step

\* A total is a number.
LEMMA TotalType == ASSUME NEW s \in Seq(Nat) PROVE Total(s) \in Nat
<1>1. Len(s) \in Nat
  OBVIOUS
<1>2. QED
  BY <1>1, TotalRuns, FoldType

\* The total of no sizes, and of one more size.
LEMMA TotalEmpty == Total(<<>>) = 0
<1>1. <<>> \in Seq(Nat) /\ Len(<<>>) = 0
  OBVIOUS
<1>2. QED
  BY <1>1, TotalRuns, FoldOfNone

\* One more size adds itself to the total.
LEMMA TotalAppend ==
  ASSUME NEW s \in Seq(Nat), NEW size \in Nat
  PROVE  Total(Append(s, size)) = Total(s) + size
<1> DEFINE t == Append(s, size)
           m == Len(s)
<1>1. /\ t \in Seq(Nat) /\ Len(t) = m + 1 /\ m \in Nat
      /\ \A i \in 1 .. m : t[i] = s[i]
      /\ t[m + 1] = size
  BY AppendProperties, LenProperties
<1>2. FoldRuns(Nat, 0, m, AddSize(s), Total(s)) /\ FoldRuns(Nat, 0, m + 1, AddSize(t), Total(t))
  BY <1>1, TotalRuns
<1> HIDE DEF t
<1>3. ASSUME NEW a \in Nat, NEW i \in 1 .. m
      PROVE  AddSize(t)[<<a, i>>] = AddSize(s)[<<a, i>>]
  <2>1. <<a, i>> \in Nat \X (1 .. Len(s)) /\ <<a, i>> \in Nat \X (1 .. Len(t))
    BY <1>1
  <2>2. AddSize(s)[<<a, i>>] = a + s[i] /\ AddSize(t)[<<a, i>>] = a + t[i]
    BY <2>1 DEF AddSize
  <2>3. QED
    BY <1>1, <2>2
<1>4. Total(t) = AddSize(t)[<<Total(s), m + 1>>]
  BY <1>1, <1>2, <1>3, FoldExtends
<1>5. Total(t) = Total(s) + size
  BY <1>1, <1>4, TotalType DEF AddSize
<1>6. QED
  BY <1>5 DEF t

\* What comes first has no greater total.
LEMMA TotalOfPrefix ==
  ASSUME NEW s \in Seq(Nat), NEW n \in 0 .. Len(s)
  PROVE  Total(SubSeq(s, 1, n)) <= Total(s)
<1> DEFINE S == {r \in Seq(Nat) : \A k \in 0 .. Len(r) : Total(SubSeq(r, 1, k)) <= Total(r)}
<1>1. <<>> \in S
  <2>1. <<>> \in Seq(Nat) /\ \A k \in 0 .. Len(<<>>) : SubSeq(<<>>, 1, k) = <<>>
    OBVIOUS
  <2>2. Total(<<>>) <= Total(<<>>)
    BY TotalEmpty
  <2>3. \A k \in 0 .. Len(<<>>) : Total(SubSeq(<<>>, 1, k)) <= Total(<<>>)
    BY <2>1, <2>2, Zenon
  <2>4. QED
    BY <2>1, <2>3, Zenon
<1>2. ASSUME NEW r \in Seq(Nat), NEW size \in Nat, r \in S PROVE Append(r, size) \in S
  <2>1. SUFFICES ASSUME NEW k \in 0 .. Len(r) + 1
                 PROVE  Total(SubSeq(Append(r, size), 1, k)) <= Total(Append(r, size))
    OBVIOUS
  <2>2. Total(r) <= Total(Append(r, size)) /\ Total(Append(r, size)) \in Nat /\ Total(r) \in Nat
    <3>1. /\ Total(r) \in Nat /\ Total(Append(r, size)) \in Nat
          /\ Total(Append(r, size)) = Total(r) + size
      <4>1. Append(r, size) \in Seq(Nat)
        OBVIOUS
      <4>2. QED
        BY <4>1, TotalType, TotalAppend, Zenon
    <3>2. QED
      BY <3>1
  <2>3. CASE k = Len(r) + 1
    <3>1. SubSeq(Append(r, size), 1, k) = Append(r, size)
      BY <2>3
    <3>2. Total(SubSeq(Append(r, size), 1, k)) = Total(Append(r, size))
      BY <3>1, Zenon
    <3>3. QED
      BY <2>2, <3>2
  <2>4. CASE k \in 0 .. Len(r)
    <3>1. SubSeq(Append(r, size), 1, k) = SubSeq(r, 1, k) /\ SubSeq(r, 1, k) \in Seq(Nat)
      BY <2>4
    <3>2. Total(SubSeq(r, 1, k)) <= Total(r) /\ Total(SubSeq(r, 1, k)) \in Nat
      BY <1>2, <2>4, <3>1, TotalType
    <3>3. Total(SubSeq(Append(r, size), 1, k)) = Total(SubSeq(r, 1, k))
      BY <3>1, Zenon
    <3>4. QED
      BY <2>2, <3>2, <3>3
  <2>5. QED
    BY <2>1, <2>3, <2>4
<1>3. Seq(Nat) \subseteq S
  <2> HIDE DEF S
  <2> QED BY <1>1, <1>2, InductionOverSeq
<1>4. QED
  BY <1>3

\* The sizes of the frames the harness was sent; an error frame has none.
SentSizes == [k \in DOMAIN Sent |-> IF Sent[k] = Error THEN 0 ELSE sizes[Sent[k]]]
SentBytes == Total(SentSizes)

\* Every frame sent is an error or a chunk read from the upstream.
SentFrom == \A k \in DOMAIN Sent : Sent[k] \in {Error} \cup 1 .. Len(sizes)

(***************************************************************************)
(* The bytes accounted are those read, but for a chunk that waits for the  *)
(* withheld one to leave; they cover the frames sent and the chunk that is *)
(* still to be sent, and pass the limit only where the outcome says so.    *)
(***************************************************************************)
BytesInv ==
  /\ SentFrom
  /\ SentBytes <= bytes
  /\ (pc \in Streaming \/ reserved) /\ withheld > 0 => SentBytes + sizes[withheld] <= bytes
  /\ pc \in Streaming => bytes <= MaxResponseBytes
  /\ pc \in {"next", "fail", "reserve"} => bytes = Total(sizes)
  /\ pc = "flush" => bytes + Last(sizes) = Total(sizes)
  /\ pc = "audit" =>
       /\ bytes > MaxResponseBytes <=> outcome = "response_body_too_large"
       /\ Accounted(outcome, bytes)
  /\ \A i \in DOMAIN log :
       /\ log[i].bytes = bytes
       /\ bytes > MaxResponseBytes <=> log[i].outcome = "response_body_too_large"
       /\ Accounted(log[i].outcome, bytes)

\* The sizes read, and those of the frames sent, are numbers to add up.
LEMMA SizesAreNumbers ==
  ASSUME TaskType, WireType, SentFrom
  PROVE  /\ sizes \in Seq(Nat) /\ Total(sizes) \in Nat
         /\ SentSizes \in Seq(Nat) /\ Len(SentSizes) = Len(Sent) /\ SentBytes \in Nat
<1>1. sizes \in Seq(Nat) /\ \A j \in 1 .. Len(sizes) : sizes[j] \in Nat
  <2>1. sizes \in Seq(Nat)
    BY StreamAssumption, SeqMonotonic DEF StreamAssumption, TaskType
  <2>2. QED
    BY <2>1
<1>2. DOMAIN Sent = 1 .. Len(Sent) /\ Len(Sent) \in Nat
  BY SentIsSeq
<1>3. \A k \in 1 .. Len(Sent) : (IF Sent[k] = Error THEN 0 ELSE sizes[Sent[k]]) \in Nat
  BY <1>1, <1>2 DEF SentFrom
<1>4. SentSizes \in Seq(Nat) /\ Len(SentSizes) = Len(Sent)
  BY <1>2, <1>3 DEF SentSizes
<1>5. QED
  BY <1>1, <1>4, TotalType DEF SentBytes

\* Chunks that were read stay known when another is read.
LEMMA BytesKept ==
  ASSUME WireType, SentFrom, Kept, Len(sizes) \in Nat, Len(sizes') \in Nat, Len(sizes) <= Len(sizes'),
         \A j \in 1 .. Len(sizes) : sizes'[j] = sizes[j]
  PROVE  SentFrom' /\ SentBytes' = SentBytes
<1>1. \A k \in DOMAIN Sent :
        (IF Sent[k] = Error THEN 0 ELSE sizes'[Sent[k]]) = IF Sent[k] = Error THEN 0 ELSE sizes[Sent[k]]
  BY DEF SentFrom
<1>2. SentSizes' = SentSizes
  BY <1>1 DEF Kept, SentSizes
<1>3. SentFrom'
  BY DEF SentFrom, Kept
<1>4. QED
  BY <1>2, <1>3 DEF SentBytes

\* A frame that is sent adds its size.
LEMMA BytesSent ==
  ASSUME TaskType, WireType, WireType', SentFrom, UNCHANGED sizes,
         NEW frame \in {Error} \cup 1 .. Len(sizes), Sends(frame)
  PROVE  SentFrom' /\ SentBytes' = SentBytes + IF frame = Error THEN 0 ELSE sizes[frame]
<1> DEFINE size == IF frame = Error THEN 0 ELSE sizes[frame]
           n == Len(Sent)
<1>1. /\ DOMAIN Sent = 1 .. n /\ n \in Nat
      /\ DOMAIN Sent' = 1 .. n + 1
  BY SentIsSeq DEF Sends, WireType, Sent
<1>2. size \in Nat /\ SentSizes \in Seq(Nat) /\ Len(SentSizes) = n
  BY SizesAreNumbers
<1>3. \A k \in 1 .. n + 1 : k \in 1 .. n \/ k = n + 1
  BY <1>1
<1>4. SentFrom'
  BY <1>1, <1>3 DEF SentFrom, Sends
<1>5. SentSizes' = Append(SentSizes, size)
  <2>1. \A k \in 1 .. n : SentSizes'[k] = SentSizes[k]
    BY <1>1, <1>3 DEF SentSizes, Sends
  <2>2. SentSizes'[n + 1] = size
    BY <1>1 DEF SentSizes, Sends
  <2>3. SentSizes' = [k \in 1 .. n + 1 |-> SentSizes'[k]]
    BY <1>1 DEF SentSizes
  <2>4. Append(SentSizes, size) = [k \in 1 .. n + 1 |-> Append(SentSizes, size)[k]]
    BY <1>2
  <2>5. \A k \in 1 .. n + 1 : Append(SentSizes, size)[k] = SentSizes'[k]
    BY <1>2, <1>3, <2>1, <2>2, AppendProperties
  <2>6. QED
    BY <2>3, <2>4, <2>5
<1>6. Total(Append(SentSizes, size)) = Total(SentSizes) + size
  BY <1>2, TotalAppend, Zenon
<1>7. QED
  BY <1>4, <1>5, <1>6, Zenon DEF SentBytes

\* Frames that are lost take their sizes with them.
LEMMA BytesLost ==
  ASSUME TaskType, WireType, WireType', SentFrom, UNCHANGED sizes, Loses
  PROVE  SentFrom' /\ SentBytes' \in Nat /\ SentBytes' <= SentBytes
<1> DEFINE n == Len(Sent')
<1>1. DOMAIN Sent = 1 .. Len(Sent) /\ Len(Sent) \in Nat /\ DOMAIN Sent' = 1 .. n /\ n \in 0 .. Len(Sent)
  BY SentIsSeq DEF Loses, WireType, Sent
<1>2. SentSizes \in Seq(Nat) /\ Len(SentSizes) = Len(Sent)
  BY SizesAreNumbers
<1>3. SentFrom'
  BY <1>1 DEF SentFrom, Loses
<1>4. SentSizes' = SubSeq(SentSizes, 1, n)
  <2>1. \A k \in 1 .. n : SentSizes'[k] = SentSizes[k]
    BY <1>1 DEF SentSizes, Loses
  <2>2. SentSizes' = [k \in 1 .. n |-> SentSizes'[k]]
    BY <1>1 DEF SentSizes
  <2>3. SubSeq(SentSizes, 1, n) = [k \in 1 .. n |-> SentSizes[k]]
    BY <1>1, <1>2
  <2>4. QED
    BY <2>1, <2>2, <2>3
<1>5. /\ Total(SubSeq(SentSizes, 1, n)) <= Total(SentSizes)
      /\ Total(SubSeq(SentSizes, 1, n)) \in Nat
  <2>1. SubSeq(SentSizes, 1, n) \in Seq(Nat)
    BY <1>1, <1>2
  <2>2. QED
    BY <1>1, <1>2, <2>1, TotalOfPrefix, TotalType
<1>6. QED
  BY <1>3, <1>4, <1>5, Zenon DEF SentBytes

\* A size that is read joins the sizes to add up.
LEMMA BytesRead ==
  ASSUME TaskType, TaskType', NEW size \in ChunkSizes, sizes' = Append(sizes, size)
  PROVE  /\ size \in Nat /\ Len(sizes) \in Nat /\ Len(sizes') = Len(sizes) + 1
         /\ Total(sizes) \in Nat /\ Total(sizes') = Total(sizes) + size
         /\ sizes'[Len(sizes')] = size /\ Last(sizes') = size
         /\ \A j \in 1 .. Len(sizes) : sizes'[j] = sizes[j]
<1>1. sizes \in Seq(Nat) /\ size \in Nat
  BY StreamAssumption, SeqMonotonic DEF StreamAssumption, TaskType
<1>2. Total(sizes) \in Nat /\ Total(Append(sizes, size)) = Total(sizes) + size
  BY <1>1, TotalType, TotalAppend, Zenon
<1>3. QED
  BY <1>1, <1>2, AppendProperties DEF Last

\* BytesInv is preserved by every step.
LEMMA BytesSteps ==
  ASSUME TaskType, TaskType', WireType, WireType', AuditInv, AuditInv', SentInv, SentInv',
         BytesInv, [Next]_vars
  PROVE  BytesInv'
<1> USE DEF Streaming, NoChunk, body, wire, harness, ending, process, waiter, failing
<1>1. /\ Len(sizes) \in Nat /\ Len(Sent) \in Nat /\ withheld \in Nat
      /\ sizes \in Seq(Nat) /\ Total(sizes) \in Nat /\ SentBytes \in Nat
      /\ bytes \in Nat /\ MaxResponseBytes \in Nat
      /\ \A j \in 1 .. Len(sizes) : sizes[j] \in Nat
      /\ withheld \in Frames /\ Error \in Frames
  <2>1. sizes \in Seq(Nat) /\ Total(sizes) \in Nat /\ SentBytes \in Nat
    BY SizesAreNumbers DEF BytesInv
  <2>2. QED
    BY <2>1, StreamAssumption, SentIsSeq DEF StreamAssumption, TaskType, Chunks, Frames, Error
<1>2. /\ SentFrom /\ SentBytes <= bytes
      /\ pc \in Streaming => bytes <= MaxResponseBytes /\ log = <<>> /\ ~reserved
      /\ pc \in {"next", "fail", "reserve"} => bytes = Total(sizes) /\ withheld = Len(sizes)
      /\ pc = "flush" => bytes + Last(sizes) = Total(sizes) /\ withheld = Len(sizes) - 1
  BY DEF BytesInv, AuditInv, SentInv
<1>3. UNCHANGED <<sizes, channel, seen>> => SentFrom' /\ SentBytes' = SentBytes
  BY <1>1, <1>2, BytesKept DEF Kept, Sent
\* A step of the streaming task that reads, sends and accounts nothing.
<1>4. ASSUME pc \in Streaming, pc' \in {"audit", "abort"}, UNCHANGED <<body, channel, seen, log>>,
             pc' = "audit" => /\ outcome' # "response_body_too_large"
                              /\ Accounted(outcome', bytes),
             reserved' => UNCHANGED withheld
      PROVE  BytesInv'
  BY <1>1, <1>2, <1>3, <1>4 DEF BytesInv, Accounted
<1>5. ASSUME ReadChunk PROVE BytesInv'
  <2>1. PICK size \in ChunkSizes :
          /\ sizes' = Append(sizes, size)
          /\ \/ pc' = "flush" /\ UNCHANGED <<withheld, bytes>> /\ withheld # 0
             \/ pc' = "next" /\ withheld = 0 /\ withheld' = Len(sizes') /\ bytes' = bytes + size
                /\ bytes + size <= MaxResponseBytes
             \/ pc' = "audit" /\ withheld = 0 /\ bytes' = bytes + size /\ UNCHANGED withheld
                /\ ~(bytes + size <= MaxResponseBytes) /\ outcome' = "response_body_too_large"
    BY <1>5 DEF ReadChunk, Goto, StartAudit, Fits
  <2>2. pc = "next" /\ UNCHANGED <<reserved, channel, seen, log>>
    BY <1>5 DEF ReadChunk, Goto, StartAudit
  <2>3. /\ size \in Nat /\ Len(sizes') = Len(sizes) + 1
        /\ Total(sizes') = Total(sizes) + size
        /\ sizes'[Len(sizes')] = size /\ Last(sizes') = size
        /\ \A j \in 1 .. Len(sizes) : sizes'[j] = sizes[j]
    BY <2>1, BytesRead
  <2>4. SentFrom' /\ SentBytes' = SentBytes
    BY <1>1, <1>2, <2>2, <2>3, BytesKept DEF Kept, Sent
  <2>5. withheld > 0 => SentBytes + sizes'[withheld] <= bytes
    <3>1. withheld > 0 => withheld \in 1 .. Len(sizes) /\ SentBytes + sizes[withheld] <= bytes
      BY <1>1, <1>2, <2>2 DEF BytesInv
    <3>2. QED
      BY <2>3, <3>1
  <2>6. SentBytes' <= bytes'
    BY <1>1, <1>2, <2>1, <2>3, <2>4
  <2>7. log = <<>> /\ ~reserved' /\ SentBytes <= bytes /\ bytes = Total(sizes)
    BY <1>2, <2>2
  <2>8. CASE pc' = "flush"
    BY <1>1, <1>2, <2>1, <2>2, <2>3, <2>4, <2>5, <2>6, <2>7, <2>8 DEF BytesInv
  <2>9. CASE pc' = "next"
    BY <1>1, <2>1, <2>2, <2>3, <2>4, <2>6, <2>7, <2>9 DEF BytesInv
  <2>10. CASE pc' = "audit"
    BY <1>1, <2>1, <2>2, <2>3, <2>4, <2>6, <2>7, <2>10 DEF BytesInv, Accounted
  <2>11. QED
    BY <2>1, <2>8, <2>9, <2>10
<1>6. ASSUME FlushThenWithhold PROVE BytesInv'
  <2>1. /\ UNCHANGED <<sizes, reserved, seen, log>> /\ channel' = Append(channel, withheld)
        /\ pc = "flush" /\ bytes' = bytes + Last(sizes)
        /\ \/ pc' = "next" /\ withheld' = Len(sizes) /\ bytes' <= MaxResponseBytes
           \/ pc' = "audit" /\ ~(bytes' <= MaxResponseBytes)
              /\ outcome' = "response_body_too_large"
    BY <1>6 DEF FlushThenWithhold, Send, Goto, StartAudit, Fits
  <2>2. withheld > 0 /\ withheld \in 1 .. Len(sizes) /\ sizes[withheld] \in Nat
        /\ SentBytes + sizes[withheld] <= bytes
    BY <1>1, <1>2, <2>1 DEF AuditInv, BytesInv
  <2>3. Sends(withheld)
    BY <1>1, <2>1, Queued
  <2>4. SentFrom' /\ SentBytes' = SentBytes + sizes[withheld]
    BY <1>2, <2>1, <2>2, <2>3, BytesSent DEF Error
  <2>5. Last(sizes) = sizes[Len(sizes)] /\ Last(sizes) \in Nat
    BY <1>1, <2>2 DEF Last
  <2>6. SentBytes' + Last(sizes) <= bytes'
    <3>1. bytes' = bytes + Last(sizes) /\ SentBytes' = SentBytes + sizes[withheld]
      BY <2>1, <2>4
    <3>2. /\ SentBytes + sizes[withheld] <= bytes
          /\ SentBytes \in Nat /\ bytes \in Nat /\ sizes[withheld] \in Nat /\ Last(sizes) \in Nat
      BY <1>1, <2>2, <2>5
    <3>3. QED
      BY <3>1, <3>2
  <2>7. SentBytes' \in Nat /\ bytes' \in Nat
    <3>1. bytes' = bytes + Last(sizes) /\ SentBytes' = SentBytes + sizes[withheld]
      BY <2>1, <2>4
    <3>2. SentBytes \in Nat /\ bytes \in Nat
      BY <1>1
    <3>3. QED
      BY <2>2, <2>5, <3>1, <3>2
  <2>8. log = <<>> /\ ~reserved' /\ SentBytes' <= bytes'
    <3>1. log = <<>> /\ ~reserved'
      BY <1>2, <2>1
    <3>2. QED
      BY <2>5, <2>6, <2>7, <3>1
  <2>9. pc' = "next" => SentBytes' + sizes'[withheld'] <= bytes' /\ bytes' = Total(sizes')
    <3>1. pc' = "next" => sizes'[withheld'] = Last(sizes)
      BY <2>1, <2>5
    <3>2. bytes' = Total(sizes')
      BY <1>2, <2>1
    <3>3. QED
      BY <2>6, <3>1, <3>2
  <2>10. QED
    BY <1>1, <1>2, <2>1, <2>4, <2>8, <2>9 DEF BytesInv, Accounted
<1>7. ASSUME FlushThenFail PROVE BytesInv'
  <2>1. /\ UNCHANGED <<sizes, bytes, reserved, seen, log>>
        /\ pc = "fail" /\ pc' = "audit" /\ outcome' \in UpstreamFailures
        /\ channel' = Append(channel, withheld) \/ UNCHANGED channel
    BY <1>7 DEF FlushThenFail, Send, Goto, StartAudit, AuditInv
  <2>2. withheld > 0 /\ withheld \in 1 .. Len(sizes) /\ sizes[withheld] \in Nat
        /\ SentBytes + sizes[withheld] <= bytes
    BY <1>1, <1>2, <2>1 DEF AuditInv, BytesInv
  <2>3. SentFrom' /\ SentBytes' <= bytes
    <3>1. CASE UNCHANGED channel
      BY <1>2, <1>3, <2>1, <3>1
    <3>2. CASE channel' = Append(channel, withheld)
      <4>1. Sends(withheld)
        BY <1>1, <2>1, <3>2, Queued
      <4>2. QED
        BY <1>2, <2>1, <2>2, <4>1, BytesSent DEF Error
    <3>3. QED
      BY <2>1, <3>1, <3>2
  <2>4. QED
    BY <1>1, <1>2, <2>1, <2>3 DEF BytesInv, Accounted, UpstreamFailures
<1>8. ASSUME FlushFails \/ StreamTimesOut PROVE BytesInv'
  <2>1. /\ pc \in Streaming /\ pc' = "audit" /\ UNCHANGED <<body, channel, seen, log, reserved>>
        /\ outcome' \in {"downstream_closed", "response_stream_timeout"}
    BY <1>8 DEF FlushFails, StreamTimesOut, StartAudit, Goto
  <2>2. Accounted(outcome', bytes)
    <3>1. CASE pc = "flush"
      <4>1. sizes # <<>>
        BY <1>1, <1>2, <3>1
      <4>2. QED
        BY <1>2, <2>1, <3>1, <4>1 DEF Accounted, Interruptions
    <3>2. CASE pc # "flush"
      BY <1>2, <2>1, <3>2 DEF Accounted
    <3>3. QED
      BY <3>1, <3>2
  <2>3. QED
    BY <1>2, <1>4, <2>1, <2>2
<1>9. ASSUME UpstreamFails \/ UpstreamEnds PROVE BytesInv'
  <2>1. /\ pc = "next" /\ UNCHANGED <<body, channel, seen, log, reserved, withheld>>
        /\ \/ pc' = "audit" /\ outcome' \in UpstreamFailures \cup {"allowed"}
           \/ pc' \in {"fail", "reserve"}
    BY <1>9 DEF UpstreamFails, UpstreamEnds, StartAudit, Goto, UpstreamFailures
  <2>2. CASE pc' = "audit"
    BY <1>2, <1>4, <2>1, <2>2 DEF Accounted, UpstreamFailures
  <2>3. CASE pc' \in {"fail", "reserve"}
    BY <1>1, <1>2, <1>3, <2>1, <2>3 DEF BytesInv
  <2>4. QED
    BY <2>1, <2>2, <2>3
<1>10. ASSUME ReserveFinal PROVE BytesInv'
  <2>1. /\ pc = "reserve" /\ pc' = "audit" /\ UNCHANGED <<body, channel, seen, log, withheld>>
        /\ outcome' \in {"allowed", "downstream_closed"}
    BY <1>10 DEF ReserveFinal, StartAudit, Goto
  <2>2. withheld > 0 => SentBytes + sizes[withheld] <= bytes
    BY <2>1 DEF BytesInv
  <2>3. QED
    BY <1>1, <1>2, <1>3, <2>1, <2>2 DEF BytesInv, Accounted
<1>11. ASSUME UNCHANGED <<pc, body, channel, seen, log, withheld, outcome, reserved>>
       PROVE  BytesInv'
  BY <1>3, <1>11 DEF BytesInv, Accounted, Last
<1>12. ASSUME WatchStep PROVE BytesInv'
  <2>1. /\ pc \in Streaming /\ UNCHANGED <<body, channel, seen, log, outcome, reserved>>
        /\ \/ UNCHANGED <<pc, withheld>>
           \/ pc' = "abort"
    BY <1>12 DEF WatchStep, CreateNotified, LoadFlag, AwaitNotified, Wake, Watch
  <2>2. CASE pc' = "abort"
    BY <1>2, <1>4, <2>1, <2>2
  <2>3. QED
    BY <1>11, <2>1, <2>2
<1>13. ASSUME AuditOk PROVE BytesInv'
  <2>1. /\ UNCHANGED <<body, outcome, seen>> /\ pc = "audit" /\ pc' \in {"graced", "done"}
        /\ log = <<>> /\ log' = Append(log, [outcome |-> outcome, bytes |-> bytes])
        /\ ~reserved'
        /\ \/ reserved /\ channel' = Append(channel, withheld)
           \/ UNCHANGED channel
    BY <1>13 DEF AuditOk, AuditInv, Goto
  <2>2. DOMAIN log' = 1 .. 1 /\ log'[1].outcome = outcome /\ log'[1].bytes = bytes
    BY <2>1
  <2>3. SentFrom' /\ SentBytes' <= bytes
    <3>1. CASE UNCHANGED channel
      BY <1>2, <1>3, <2>1, <3>1
    <3>2. CASE reserved /\ channel' = Append(channel, withheld)
      <4>1. withheld \in 1 .. Len(sizes) /\ SentBytes + sizes[withheld] <= bytes
        BY <1>1, <3>2 DEF SentInv, BytesInv
      <4>2. Sends(withheld)
        BY <1>1, <2>1, <3>2, Queued
      <4>3. QED
        BY <1>2, <2>1, <4>1, <4>2, BytesSent DEF Error
    <3>3. QED
      BY <2>1, <3>1, <3>2
  <2>4. /\ bytes > MaxResponseBytes <=> outcome = "response_body_too_large"
        /\ Accounted(outcome, bytes)
    BY <2>1 DEF BytesInv
  <2>5. \A i \in DOMAIN log' : log'[i].outcome = outcome /\ log'[i].bytes = bytes
    BY <2>2
  <2>6. QED
    BY <2>1, <2>3, <2>4, <2>5 DEF BytesInv, Accounted
<1>14. ASSUME AuditFails PROVE BytesInv'
  <2>1. /\ UNCHANGED <<body, log, channel, seen, outcome>> /\ ~reserved'
        /\ pc' \in {"graced", "abort", "done"}
    BY <1>14 DEF AuditFails, Goto
  <2>2. QED
    BY <1>2, <1>3, <2>1 DEF BytesInv, Accounted
<1>15. ASSUME SendStreamError \/ SendTerminalStreamError PROVE BytesInv'
  <2>1. /\ UNCHANGED <<body, log, reserved, seen, outcome>> /\ pc' = "done"
        /\ pc \in {"graced", "abort"}
        /\ channel' = Append(channel, Error) \/ UNCHANGED channel
    BY <1>15 DEF SendStreamError, SendTerminalStreamError, Send, Goto
  <2>2. ~reserved'
    BY <2>1 DEF SentInv
  <2>3. SentFrom' /\ SentBytes' <= bytes
    <3>1. CASE UNCHANGED channel
      BY <1>2, <1>3, <2>1, <3>1
    <3>2. CASE channel' = Append(channel, Error)
      <4>1. Sends(Error)
        BY <1>1, <2>1, <3>2, Queued
      <4>2. SentFrom' /\ SentBytes' = SentBytes + 0
        BY <1>2, <2>1, <4>1, BytesSent
      <4>3. QED
        BY <1>1, <1>2, <4>2
    <3>3. QED
      BY <2>1, <3>1, <3>2
  <2>4. QED
    BY <2>1, <2>2, <2>3 DEF BytesInv, Accounted
<1>16. ASSUME HarnessReads PROVE BytesInv'
  <2>1. Kept /\ UNCHANGED <<pc, body, log, withheld, outcome, reserved>>
    BY <1>16, ReadKeeps DEF HarnessReads
  <2>2. SentFrom' /\ SentBytes' = SentBytes
    BY <1>1, <1>2, <2>1, BytesKept
  <2>3. QED
    BY <2>1, <2>2 DEF BytesInv, Accounted, Last
<1>17. ASSUME HarnessCloses PROVE BytesInv'
  <2>1. Loses /\ UNCHANGED <<pc, body, log, withheld, outcome, reserved>>
    BY <1>17, CloseLoses DEF HarnessCloses
  <2>2. SentFrom' /\ SentBytes' \in Nat /\ SentBytes' <= SentBytes
    BY <1>2, <2>1, BytesLost
  <2>3. (pc \in Streaming \/ reserved) /\ withheld > 0 => SentBytes' + sizes[withheld] <= bytes
    <3>1. (pc \in Streaming \/ reserved) /\ withheld > 0 => withheld \in 1 .. Len(sizes)
      BY <1>1, <1>2 DEF SentInv
    <3>2. QED
      BY <1>1, <2>2, <3>1 DEF BytesInv
  <2>4. QED
    BY <1>1, <1>2, <2>1, <2>2, <2>3 DEF BytesInv, Accounted, Last
<1>18. ASSUME OtherStoresFailure \/ OtherNotifies \/ OtherReports \/ Exit \/ UNCHANGED vars
       PROVE  BytesInv'
  <2>1. UNCHANGED <<pc, body, channel, seen, log, withheld, outcome, reserved>>
    BY <1>18 DEF OtherStoresFailure, OtherNotifies, OtherReports, Exit, vars
  <2>2. QED
    BY <1>11, <2>1
<1>19. QED
  BY <1>5, <1>6, <1>7, <1>8, <1>9, <1>10, <1>12, <1>13, <1>14, <1>15, <1>16, <1>17, <1>18
     DEF Next, TaskStep, UpstreamStep, Rest

\* BytesInv holds in every reachable state.
LEMMA BytesInvariant == Spec => []BytesInv
<1>1. Init => BytesInv
  <2>1. ASSUME Init PROVE BytesInv
    <3>1. Sent = <<>> /\ sizes = <<>> /\ bytes = 0 /\ log = <<>> /\ withheld = 0 /\ pc = "next"
      BY <2>1 DEF Init, Sent, NoChunk
    <3>2. SentSizes = <<>>
      BY <3>1 DEF SentSizes
    <3>3. SentBytes = 0 /\ Total(sizes) = 0
      BY <3>1, <3>2, TotalEmpty, Zenon DEF SentBytes
    <3>4. QED
      BY <3>1, <3>3, StreamAssumption DEF StreamAssumption, BytesInv, SentFrom
  <2>2. QED
    BY <2>1
<1>2. TaskType /\ TaskType' /\ WireType /\ WireType' /\ AuditInv /\ AuditInv'
        /\ SentInv /\ SentInv' /\ BytesInv /\ [Next]_vars => BytesInv'
  BY BytesSteps
<1>3. QED
  BY <1>1, <1>2, TypeInvariant, SentInvariant, PTL DEF Spec

\* The terminal event accounts for every byte read, but for the chunk in hand when
\* the stream is interrupted, covers what the harness got, and only a body over the
\* limit is recorded over it (ResponseAccount).
THEOREM BytesAccounted == Spec => []AccountedBytes
<1>1. BytesInv => AccountedBytes
  BY DEF BytesInv, AccountedBytes, SentBytes, SentSizes
<1>2. QED
  BY <1>1, BytesInvariant, PTL
=============================================================================
