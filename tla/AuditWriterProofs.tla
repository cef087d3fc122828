------------------------- MODULE AuditWriterProofs --------------------------
(***************************************************************************)
(* Theorems about AuditWriter, for every set of events, any callers that   *)
(* may be dropped, any directories to create and any number of starts.     *)
(***************************************************************************)
EXTENDS AuditWriterSink, SequenceTheorems, TLAPS

(***************************************************************************)
(* How far the log's path is durable.  A start makes an entry durable      *)
(* before it creates the next one, and begins with the one an earlier      *)
(* start may have left behind: only the last entry may ever be lost.       *)
(***************************************************************************)
StartInv ==
  /\ 1 .. present - 1 \subseteq durable
  /\ process = "existing" => level <= present /\ (level < present => level = Directories)
  /\ process = "create" => level < Directories /\ present = level /\ 1 .. level \subseteq durable
  /\ process = "entry" => level > 0 /\ present = level
  /\ process = "open" => 1 .. Directories \subseteq durable
  /\ process = "log" => 1 .. Directories \subseteq durable /\ present = LogEntry
  /\ process \in {"tail", "up", "refused"} => Entries \subseteq durable

\* The parts of TypeOK the callers, the file and the start keep.
CallerType ==
  /\ pc \in [Events -> Location]
  /\ queue \in Seq(Events)
  /\ holder \in Events \cup {Nobody}
  /\ holder = Nobody \/ pc[holder] \in {"write", "flush", "commit"}
  /\ background \in Events \cup {Nobody}

FileType ==
  /\ poisoned \in BOOLEAN /\ io_error \in BOOLEAN
  /\ file \in Seq(Cells)
  /\ synced \in 0 .. Len(file)

StartType ==
  /\ present \in 0 .. LogEntry /\ durable \subseteq 1 .. present
  /\ level \in 0 .. Directories
  /\ process \in Opening \cup {"down", "up", "refused"}
  /\ starts \in 0 .. MaxStarts

\* TypeOK is its three parts.
LEMMA Parts == TypeOK <=> CallerType /\ FileType /\ StartType
BY DEF TypeOK, CallerType, FileType, StartType

\* What the callers' steps leave alone.
Callers == <<pc, queue, holder, background>>
Starting == <<present, durable, level, process, starts>>

\* The start's variables keep their types and StartInv in every step.
LEMMA StartSteps ==
  ASSUME StartType, StartInv, [Next]_vars
  PROVE  StartType' /\ StartInv'
<1> USE WriterAssumption DEF WriterAssumption, StartType, StartInv, LogEntry, Entries,
        Opening, Start, Below
<1>1. ASSUME UNCHANGED Starting PROVE StartType' /\ StartInv'
  BY <1>1 DEF Starting
<1>2. ASSUME NEW e \in Events, CallerStep(e) \/ DropCaller(e) PROVE UNCHANGED Starting
  BY <1>2 DEF CallerStep, Serialize, Lock, WriteAll, Flush, Commit, DropCaller, Starting,
              server, path, disk
<1>3. ASSUME WriteInBackground PROVE UNCHANGED Starting
  BY <1>3 DEF WriteInBackground, Starting, server, path
<1>4. ASSUME Probe PROVE StartType' /\ StartInv'
  BY <1>4 DEF Probe, disk, path
<1>5. ASSUME SyncExisting PROVE StartType' /\ StartInv'
  <2>1. /\ process = "existing" /\ durable' = durable \cup ({level} \cap 1 .. Directories + 1)
        /\ UNCHANGED <<present, level, starts>>
        /\ process' = IF level < Directories THEN "create" ELSE "open"
    BY <1>5 DEF SyncExisting
  <2>2. durable' \subseteq 1 .. present /\ durable \subseteq durable'
    BY <2>1
  <2>3. 1 .. level \subseteq durable'
    BY <2>1
  <2>4. QED
    BY <2>1, <2>2, <2>3
<1>6. ASSUME CreateDirectory PROVE StartType' /\ StartInv'
  BY <1>6 DEF CreateDirectory
<1>7. ASSUME SyncDirectory PROVE StartType' /\ StartInv'
  <2>1. /\ process = "entry" /\ durable' = durable \cup {level}
        /\ UNCHANGED <<present, level, starts>>
        /\ process' = IF level < Directories THEN "create" ELSE "open"
    BY <1>7 DEF SyncDirectory
  <2>2. durable' \subseteq 1 .. present /\ 1 .. level \subseteq durable'
    BY <2>1
  <2>3. QED
    BY <2>1, <2>2
<1>8. ASSUME OpenLog PROVE StartType' /\ StartInv'
  BY <1>8 DEF OpenLog
<1>9. ASSUME SyncLog PROVE StartType' /\ StartInv'
  BY <1>9 DEF SyncLog
<1>10. ASSUME CheckLog PROVE StartType' /\ StartInv'
  BY <1>10 DEF CheckLog, disk, path
<1>11. ASSUME OpenFails PROVE StartType' /\ StartInv'
  BY <1>11 DEF OpenFails, disk, path
<1>12. ASSUME Crash PROVE StartType' /\ StartInv'
  <2>1. PICK top \in 0 .. present :
          /\ top < present => top + 1 \notin durable
          /\ present' = top /\ durable' = durable \cap 1 .. top
    BY <1>12 DEF Crash
  <2>2. process' = "down" /\ UNCHANGED <<level, starts>>
    BY <1>12 DEF Crash
  <2>3. top - 1 <= present - 1
    BY <2>1
  <2>4. QED
    BY <2>1, <2>2, <2>3
<1>13. ASSUME UNCHANGED vars PROVE UNCHANGED Starting
  BY <1>13 DEF vars, Starting
<1>14. QED
  BY <1>1, <1>2, <1>3, <1>4, <1>5, <1>6, <1>7, <1>8, <1>9, <1>10, <1>11, <1>12, <1>13
     DEF Next, StartStep, Rest

-----------------------------------------------------------------------------
(* The callers and the file                                                *)

\* Taking one waiter out of a queue leaves a queue of the same kind of waiters.
LEMMA RemoveAtType ==
  ASSUME NEW S, NEW q \in Seq(S), NEW i \in DOMAIN q
  PROVE  RemoveAt(q, i) \in Seq(S)
<1>1. SubSeq(q, 1, i - 1) \in Seq(S) /\ SubSeq(q, i + 1, Len(q)) \in Seq(S)
  OBVIOUS
<1>2. QED
  BY <1>1 DEF RemoveAt

\* The start's steps, which leave the callers and the file alone but for poisoned.
Opens == StartStep \/ OpenFails \/ UNCHANGED vars

LEMMA OpensLeaves ==
  ASSUME Opens PROVE UNCHANGED <<Callers, io_error, file, synced>>
BY DEF Opens, StartStep, OpenFails, Probe, SyncExisting, CreateDirectory, SyncDirectory,
       OpenLog, SyncLog, CheckLog, vars, Callers, mutex, disk

\* The callers' variables keep their types in every step.
LEMMA CallerSteps ==
  ASSUME CallerType, [Next]_vars
  PROVE  CallerType'
<1> USE WriterAssumption DEF WriterAssumption, CallerType, Location, Goto, mutex
<1>1. ASSUME NEW e \in Events, Serialize(e) PROVE CallerType'
  BY <1>1 DEF Serialize
<1>2. ASSUME NEW e \in Events, Lock(e) PROVE CallerType'
  BY <1>2 DEF Lock
<1>3. ASSUME NEW e \in Events, WriteAll(e) PROVE CallerType'
  BY <1>3 DEF WriteAll, FailWrite
<1>4. ASSUME NEW e \in Events, Flush(e) PROVE CallerType'
  BY <1>4 DEF Flush, FailWrite
<1>5. ASSUME NEW e \in Events, Commit(e) PROVE CallerType'
  BY <1>5 DEF Commit, FailWrite
<1>6. ASSUME NEW e \in Events, DropCaller(e) PROVE CallerType'
  <2>1. queue' \in Seq(Events)
    BY <1>6, RemoveAtType DEF DropCaller
  <2>2. /\ pc' = [pc EXCEPT ![e] = "dropped"] /\ UNCHANGED background
        /\ holder' = IF holder = e THEN Nobody ELSE holder
    BY <1>6 DEF DropCaller
  <2>3. QED
    BY <2>1, <2>2
<1>7. ASSUME WriteInBackground PROVE CallerType'
  BY <1>7 DEF WriteInBackground
<1>8. ASSUME Opens PROVE CallerType'
  BY <1>8, OpensLeaves DEF Callers
<1>9. ASSUME Crash PROVE CallerType'
  BY <1>9 DEF Crash
<1>10. QED
  BY <1>1, <1>2, <1>3, <1>4, <1>5, <1>6, <1>7, <1>8, <1>9 DEF Next, CallerStep, Opens, Rest

\* The file keeps its type in every step.
LEMMA FileSteps ==
  ASSUME CallerType, FileType, StartType, [Next]_vars
  PROVE  FileType'
<1> USE DEF FileType
<1>1. ASSUME NEW e \in Events, Serialize(e) \/ Lock(e) \/ DropCaller(e) PROVE FileType'
  BY <1>1 DEF Serialize, Lock, DropCaller, disk
<1>2. ASSUME NEW e \in Events, WriteAll(e) \/ Flush(e) PROVE FileType'
  BY <1>2 DEF WriteAll, Flush, FailWrite, disk
<1>3. ASSUME NEW e \in Events, Commit(e) PROVE FileType'
  <2>1. Len(file) \in 0 .. Len(file)
    OBVIOUS
  <2>2. QED
    BY <1>3, <2>1 DEF Commit, FailWrite
<1>4. ASSUME WriteInBackground PROVE FileType'
  <2>1. background \in Events
    BY <1>4 DEF WriteInBackground, CallerType
  <2>2. Body(background) \in Cells /\ Newline(background) \in Cells
    BY <2>1 DEF Body, Newline, Cells
  <2>3. Line(background) \in Seq(Cells) /\ Len(Line(background)) = 2
    BY <2>2 DEF Line
  <2>4. /\ \/ file' = file
           \/ file' = Append(file, Body(background))
           \/ file' = file \o Line(background)
        /\ UNCHANGED <<poisoned, synced>>
    BY <1>4 DEF WriteInBackground
  <2>5. file' \in Seq(Cells) /\ Len(file') >= Len(file)
    <3>1. file \in Seq(Cells)
      OBVIOUS
    <3>2. CASE file' = Append(file, Body(background))
      BY <2>2, <3>1, <3>2
    <3>3. CASE file' = file \o Line(background)
      BY <2>3, <3>1, <3>3, ConcatProperties
    <3>4. QED
      BY <2>4, <3>1, <3>2, <3>3
  <2>6. io_error' \in BOOLEAN
    BY <1>4 DEF WriteInBackground
  <2>7. synced' \in 0 .. Len(file')
    BY <2>4, <2>5
  <2>8. QED
    BY <2>4, <2>5, <2>6, <2>7
<1>5. ASSUME Opens PROVE FileType'
  <2>1. UNCHANGED <<io_error, file, synced>>
    BY <1>5, OpensLeaves
  <2>2. poisoned' \in BOOLEAN
    BY <1>5 DEF Opens, StartStep, OpenFails, Probe, SyncExisting, CreateDirectory,
                SyncDirectory, OpenLog, SyncLog, CheckLog, vars
  <2>3. FileType'
    BY <2>1, <2>2
  <2>4. QED
    BY <2>3
<1>6. ASSUME Crash PROVE FileType'
  <2>1. PICK kept \in 0 .. Len(file) :
          /\ file' = SubSeq(file, 1, kept)
          /\ synced' = IF synced < kept THEN synced ELSE kept
    BY <1>6 DEF Crash
  <2>2. file' \in Seq(Cells) /\ Len(file') = kept
    BY <2>1
  <2>3. synced' \in 0 .. Len(file')
    BY <2>1, <2>2
  <2>4. poisoned' \in BOOLEAN /\ io_error' \in BOOLEAN
    BY <1>6 DEF Crash
  <2>5. QED
    BY <2>2, <2>3, <2>4
<1>7. QED
  BY <1>1, <1>2, <1>3, <1>4, <1>5, <1>6 DEF Next, CallerStep, Opens, Rest

\* The types and StartInv hold in every reachable state.
LEMMA StartInvariant == Spec => [](TypeOK /\ StartInv)
<1>1. Init => TypeOK /\ StartInv
  <2> SUFFICES ASSUME Init PROVE TypeOK /\ StartInv
    OBVIOUS
  <2> USE WriterAssumption DEF WriterAssumption, Init
  <2>1. CallerType
    BY DEF CallerType, Location
  <2>2. FileType
    <3>1. file \in Seq(Cells) /\ synced \in 0 .. Len(file)
      OBVIOUS
    <3>2. QED
      BY <3>1 DEF FileType
  <2>3. StartType /\ StartInv
    BY DEF StartType, StartInv, LogEntry, Opening
  <2>4. QED
    BY <2>1, <2>2, <2>3, Parts
<1>2. TypeOK /\ StartInv /\ [Next]_vars => TypeOK' /\ StartInv'
  <2> SUFFICES ASSUME TypeOK, StartInv, [Next]_vars PROVE TypeOK' /\ StartInv'
    OBVIOUS
  <2>1. CallerType /\ FileType /\ StartType
    BY Parts
  <2>2. CallerType' /\ FileType' /\ StartType' /\ StartInv'
    BY <2>1, CallerSteps, FileSteps, StartSteps
  <2>3. QED
    BY <2>2 DEF TypeOK, CallerType, FileType, StartType
<1>3. QED
  BY <1>1, <1>2, PTL DEF Spec

\* The variables keep their types in every state the writer can reach.
THEOREM TypeCorrect == Spec => []TypeOK
BY StartInvariant, PTL

-----------------------------------------------------------------------------
(***************************************************************************)
(* Who may write.  Only the holder of the mutex is past its lock, the      *)
(* writer it holds is not poisoned, and a write goes to the background     *)
(* only while no error is pending: a torn tail is never written behind.    *)
(***************************************************************************)
MutexInv ==
  /\ \A e \in Events : pc[e] \in {"write", "flush", "commit"} => holder = e
  /\ holder # Nobody => ~poisoned /\ process = "up"
  /\ background # Nobody => ~io_error /\ ~poisoned /\ process = "up"
  /\ \A e \in Events : pc[e] = "commit" => background = Nobody
  /\ process = "up" /\ TornTail => io_error \/ poisoned

\* A background write appends nothing, the event's body, or its whole line; it
\* reports no error exactly for the whole line.
LEMMA Written ==
  ASSUME TypeOK, WriteInBackground, NEW n, n = Len(file)
  PROVE  /\ background \in Events /\ n \in Nat /\ DOMAIN file = 1 .. n
         /\ \/ io_error' = TRUE /\ file' = file
            \/ /\ io_error' = TRUE /\ Len(file') = n + 1 /\ DOMAIN file' = 1 .. n + 1
               /\ \A i \in 1 .. n : file'[i] = file[i]
               /\ file'[n + 1] = Body(background)
            \/ /\ io_error' = io_error /\ Len(file') = n + 2 /\ DOMAIN file' = 1 .. n + 2
               /\ \A i \in 1 .. n : file'[i] = file[i]
               /\ file'[n + 1] = Body(background) /\ file'[n + 2] = Newline(background)
<1>1. background \in Events
  BY DEF WriteInBackground, TypeOK
<1>2. Body(background) \in Cells /\ Newline(background) \in Cells
  BY <1>1 DEF Body, Newline, Cells
<1>3. file \in Seq(Cells) /\ n \in Nat /\ DOMAIN file = 1 .. n
  BY DEF TypeOK
<1>4. CASE io_error' = TRUE /\ file' = file
  BY <1>1, <1>3, <1>4
<1>5. CASE io_error' = TRUE /\ file' = Append(file, Body(background))
  <2>1. /\ Len(file') = n + 1 /\ DOMAIN file' = 1 .. n + 1
        /\ \A i \in 1 .. n : file'[i] = file[i]
        /\ file'[n + 1] = Body(background)
    BY <1>2, <1>3, <1>5, AppendProperties
  <2>2. QED
    BY <1>1, <1>3, <1>5, <2>1
<1>6. CASE io_error' = io_error /\ file' = file \o Line(background)
  <2>1. /\ Line(background) \in Seq(Cells) /\ Len(Line(background)) = 2
        /\ Line(background)[1] = Body(background) /\ Line(background)[2] = Newline(background)
    BY <1>2 DEF Line
  <2>2. /\ Len(file') = n + 2 /\ DOMAIN file' = 1 .. n + 2
        /\ \A i \in 1 .. n + 2 : file'[i] = IF i <= n THEN file[i] ELSE Line(background)[i - n]
    <3>1. /\ file' \in Seq(Cells)
          /\ Len(file') = Len(file) + Len(Line(background))
          /\ \A i \in 1 .. Len(file) + Len(Line(background)) :
               file'[i] = IF i <= Len(file) THEN file[i] ELSE Line(background)[i - Len(file)]
      BY <1>3, <1>6, <2>1, ConcatProperties
    <3>2. DOMAIN file' = 1 .. Len(file')
      BY <3>1
    <3>3. QED
      BY <2>1, <3>1, <3>2
  <2>3. /\ \A i \in 1 .. n : file'[i] = file[i]
        /\ file'[n + 1] = Body(background) /\ file'[n + 2] = Newline(background)
    BY <1>3, <2>1, <2>2
  <2>4. QED
    BY <1>1, <1>3, <1>6, <2>2, <2>3
<1>7. QED
  BY <1>4, <1>5, <1>6 DEF WriteInBackground

\* MutexInv is preserved by every step.
LEMMA MutexSteps ==
  ASSUME TypeOK, MutexInv, [Next]_vars
  PROVE  MutexInv'
<1> USE WriterAssumption DEF WriterAssumption, MutexInv, Goto, mutex
<1>0. pc \in [Events -> Location]
  BY DEF TypeOK
<1>1. ASSUME UNCHANGED file PROVE TornTail' <=> TornTail
  BY <1>1 DEF TornTail
<1>2. ASSUME NEW e \in Events, Serialize(e) PROVE MutexInv'
  BY <1>0, <1>1, <1>2 DEF Serialize, disk, server
<1>3. ASSUME NEW e \in Events, Lock(e) PROVE MutexInv'
  BY <1>0, <1>1, <1>3 DEF Lock, disk, server
<1>4. ASSUME NEW e \in Events, WriteAll(e) PROVE MutexInv'
  BY <1>0, <1>1, <1>4 DEF WriteAll, FailWrite, disk, server
<1>5. ASSUME NEW e \in Events, Flush(e) PROVE MutexInv'
  BY <1>0, <1>1, <1>5 DEF Flush, FailWrite, disk, server
<1>6. ASSUME NEW e \in Events, Commit(e) PROVE MutexInv'
  BY <1>0, <1>1, <1>6 DEF Commit, FailWrite, path, server
<1>7. ASSUME NEW e \in Events, DropCaller(e) PROVE MutexInv'
  <2>1. /\ process = "up" /\ pc' = [pc EXCEPT ![e] = "dropped"]
        /\ holder' = IF holder = e THEN Nobody ELSE holder
        /\ UNCHANGED <<poisoned, background, io_error, file, process>>
    BY <1>7 DEF DropCaller, disk, server
  <2>2. QED
    BY <1>0, <1>1, <2>1
<1>8. ASSUME WriteInBackground PROVE MutexInv'
  <2>1. background # Nobody /\ background' = Nobody /\ UNCHANGED <<pc, holder, poisoned, process>>
    BY <1>8 DEF WriteInBackground, server
  <2>2. TornTail' => io_error'
    <3>1. CASE io_error' = TRUE
      BY <3>1
    <3>2. CASE io_error' # TRUE
      <4>1. /\ Len(file') = Len(file) + 2
            /\ file'[Len(file) + 2] = Newline(background)
        BY <1>8, <3>2, Written
      <4>2. QED
        BY <4>1 DEF TornTail, Last, Newline
    <3>3. QED
      BY <3>1, <3>2
  <2>3. QED
    BY <1>0, <2>1, <2>2
<1>9. ASSUME Opens PROVE MutexInv'
  <2>1. UNCHANGED <<pc, holder, background, io_error, file>>
    BY <1>9, OpensLeaves DEF Callers
  <2>2. CASE UNCHANGED <<process, poisoned>>
    BY <1>1, <2>1, <2>2
  <2>3. CASE process \in Opening \cup {"down"} /\ process' # "up"
    BY <2>1, <2>3 DEF Opening
  <2>4. CASE process \in Opening /\ process' = "up" /\ ~TornTail
    BY <1>1, <2>1, <2>4 DEF Opening
  <2>5. Opens => \/ UNCHANGED <<process, poisoned>>
                 \/ process \in Opening \cup {"down"} /\ process' # "up"
                 \/ process \in Opening /\ process' = "up" /\ ~TornTail
    BY DEF Opens, StartStep, OpenFails, Probe, SyncExisting, CreateDirectory, SyncDirectory,
           OpenLog, SyncLog, CheckLog, vars, Start, Opening, Below, EmptyTail, TornTail
  <2>6. QED
    BY <1>9, <2>2, <2>3, <2>4, <2>5
<1>10. ASSUME Crash PROVE MutexInv'
  BY <1>0, <1>10 DEF Crash
<1>11. QED
  BY <1>2, <1>3, <1>4, <1>5, <1>6, <1>7, <1>8, <1>9, <1>10 DEF Next, CallerStep, Opens, Rest

-----------------------------------------------------------------------------
(***************************************************************************)
(* What is in the file.  An event's cells are there only once its caller   *)
(* is past the write, and a line is written only behind a whole one.       *)
(***************************************************************************)
Unwritten == {"idle", "queued", "write"}

LineInv ==
  /\ \A i \in DOMAIN file : pc[file[i][1]] \notin Unwritten
  /\ background # Nobody =>
       pc[background] \notin Unwritten /\ \A i \in DOMAIN file : file[i][1] # background
  /\ EveryLineIsAnEvent
  /\ DuplicateFree

\* A crash leaves a beginning of the file.
LEMMA Cut ==
  ASSUME TypeOK, Crash
  PROVE  \E k \in 0 .. Len(file) : /\ Len(file') = k /\ DOMAIN file' = 1 .. k
                                   /\ DOMAIN file = 1 .. Len(file) /\ Len(file) \in Nat
                                   /\ \A i \in 1 .. k : file'[i] = file[i]
<1>1. file \in Seq(Cells) /\ synced \in 0 .. Len(file)
  BY DEF TypeOK
<1>2. PICK kept \in 0 .. Len(file) : file' = SubSeq(file, 1, kept)
  BY <1>1 DEF Crash
<1>3. QED
  BY <1>1, <1>2

\* The cells of the file are cells of events.
LEMMA FileCells ==
  ASSUME TypeOK
  PROVE  \A i \in DOMAIN file : file[i][1] \in Events /\ file[i][2] \in {"body", "newline"}
                                /\ file[i] = <<file[i][1], file[i][2]>>
<1>1. file \in Seq(Cells)
  BY DEF TypeOK
<1>2. \A i \in DOMAIN file : file[i] \in Cells
  BY <1>1
<1>3. QED
  BY <1>2 DEF Cells

\* LineInv is preserved by every step.
LEMMA LineSteps ==
  ASSUME TypeOK, MutexInv, LineInv, [Next]_vars
  PROVE  LineInv'
<1> USE WriterAssumption DEF WriterAssumption, LineInv, Unwritten, Goto, disk
<1>0. /\ pc \in [Events -> Location] /\ background \in Events \cup {Nobody}
      /\ \A i \in DOMAIN file : file[i][1] \in Events
  BY FileCells DEF TypeOK
<1>1. ASSUME UNCHANGED file PROVE EveryLineIsAnEvent' /\ DuplicateFree'
  BY <1>1 DEF EveryLineIsAnEvent, DuplicateFree
<1>2. ASSUME NEW e \in Events, Serialize(e) PROVE LineInv'
  BY <1>0, <1>1, <1>2 DEF Serialize
<1>3. ASSUME NEW e \in Events, Lock(e) PROVE LineInv'
  BY <1>0, <1>1, <1>3 DEF Lock
<1>4. ASSUME NEW e \in Events, WriteAll(e) PROVE LineInv'
  BY <1>0, <1>1, <1>4 DEF WriteAll, FailWrite
<1>5. ASSUME NEW e \in Events, Flush(e) PROVE LineInv'
  BY <1>0, <1>1, <1>5 DEF Flush, FailWrite
<1>6. ASSUME NEW e \in Events, Commit(e) PROVE LineInv'
  BY <1>0, <1>1, <1>6 DEF Commit, FailWrite
<1>7. ASSUME NEW e \in Events, DropCaller(e) PROVE LineInv'
  <2>1. pc' = [pc EXCEPT ![e] = "dropped"] /\ UNCHANGED <<background, file>>
    BY <1>7 DEF DropCaller
  <2>2. QED
    BY <1>0, <1>1, <2>1
<1>8. ASSUME WriteInBackground PROVE LineInv'
  <2> DEFINE n == Len(file)
  <2>1. background' = Nobody /\ UNCHANGED pc /\ background # Nobody
    BY <1>8 DEF WriteInBackground
  <2>2. ~TornTail
    BY <2>1 DEF MutexInv
  <2>3. n > 0 => file[n][2] = "newline"
    BY <2>2, Written, <1>8 DEF TornTail, Last
  <2>4. /\ Body(background)[1] = background /\ Body(background)[2] = "body"
        /\ Newline(background)[1] = background /\ Newline(background)[2] = "newline"
        /\ Body(background) # Newline(background)
    BY DEF Body, Newline
  <2>5. CASE file' = file
    BY <1>1, <2>1, <2>5
  <2>6. CASE /\ n \in Nat /\ DOMAIN file = 1 .. n /\ DOMAIN file' = 1 .. n + 1
             /\ \A i \in 1 .. n : file'[i] = file[i]
             /\ file'[n + 1] = Body(background)
    <3> HIDE DEF n
    <3>1. EveryLineIsAnEvent'
      BY <2>4, <2>6 DEF EveryLineIsAnEvent
    <3>2. DuplicateFree'
      BY <2>1, <2>4, <2>6 DEF DuplicateFree
    <3>3. \A i \in DOMAIN file' : pc'[file'[i][1]] \notin Unwritten
      BY <2>1, <2>4, <2>6
    <3>4. QED
      BY <2>1, <3>1, <3>2, <3>3
  <2>7. CASE /\ n \in Nat /\ DOMAIN file = 1 .. n /\ DOMAIN file' = 1 .. n + 2
             /\ \A i \in 1 .. n : file'[i] = file[i]
             /\ file'[n + 1] = Body(background) /\ file'[n + 2] = Newline(background)
    <3> HIDE DEF n
    <3>1. EveryLineIsAnEvent'
      <4>1. ASSUME NEW i \in 1 .. n, file'[i][2] = "newline"
            PROVE  /\ i > 1 /\ file'[i - 1] = Body(file'[i][1])
                   /\ i > 2 => file'[i - 2][2] = "newline"
        BY <2>7, <4>1 DEF EveryLineIsAnEvent
      <4>2. n + 2 > 2 => file'[n][2] = "newline"
        BY <2>3, <2>7
      <4>3. QED
        BY <2>4, <2>7, <4>1, <4>2 DEF EveryLineIsAnEvent
    <3>2. DuplicateFree'
      BY <2>1, <2>4, <2>7 DEF DuplicateFree
    <3>3. \A i \in DOMAIN file' : pc'[file'[i][1]] \notin Unwritten
      BY <2>1, <2>4, <2>7
    <3>4. QED
      BY <2>1, <3>1, <3>2, <3>3
  <2>8. QED
    BY <1>8, <2>5, <2>6, <2>7, Written
<1>9. ASSUME Opens PROVE LineInv'
  BY <1>1, <1>9, OpensLeaves DEF Callers
<1>10. ASSUME Crash PROVE LineInv'
  <2>1. PICK k \in 0 .. Len(file) : /\ DOMAIN file' = 1 .. k
                                    /\ DOMAIN file = 1 .. Len(file) /\ Len(file) \in Nat
                                    /\ \A i \in 1 .. k : file'[i] = file[i]
    BY <1>10, Cut
  <2>2. EveryLineIsAnEvent' /\ DuplicateFree'
    BY <2>1 DEF EveryLineIsAnEvent, DuplicateFree
  <2>3. \A e \in Events : pc'[e] \in Unwritten => pc[e] \in Unwritten
    BY <1>0, <1>10 DEF Crash
  <2>4. background' = Nobody
    BY <1>10 DEF Crash
  <2>5. QED
    BY <1>0, <2>1, <2>2, <2>3, <2>4
<1>11. QED
  BY <1>2, <1>3, <1>4, <1>5, <1>6, <1>7, <1>8, <1>9, <1>10 DEF Next, CallerStep, Opens, Rest

\* MutexInv and LineInv hold in every reachable state.
LEMMA LineInvariant == Spec => [](MutexInv /\ LineInv)
<1>1. Init => MutexInv /\ LineInv
  BY DEF Init, MutexInv, LineInv, TornTail, EveryLineIsAnEvent, DuplicateFree
<1>2. TypeOK /\ MutexInv /\ LineInv /\ [Next]_vars => MutexInv' /\ LineInv'
  BY MutexSteps, LineSteps
<1>3. QED
  BY <1>1, <1>2, TypeCorrect, PTL DEF Spec

\* Every newline in the log closes exactly its own event: no event is joined to
\* what a torn write left, however writes fail, callers are dropped and starts end.
THEOREM LinesNeverJoined == Spec => []NoJoinedLines
<1>1. LineInv => NoJoinedLines
  BY DEF LineInv, NoJoinedLines
<1>2. QED
  BY <1>1, LineInvariant, PTL

\* An event is in the log once at most.
THEOREM NoEventTwice == Spec => []NoDuplicates
<1>1. LineInv => NoDuplicates
  BY DEF LineInv, NoDuplicates
<1>2. QED
  BY <1>1, LineInvariant, PTL

-----------------------------------------------------------------------------
(***************************************************************************)
(* Why an acknowledged event is durable.  Its caller found the line it had *)
(* put in the background whole, held the mutex while all of the file was   *)
(* committed, and the entries above the file were durable before the first *)
(* event; a crash keeps what is synced below durable entries.              *)
(***************************************************************************)
InLog(e, n) == \E i \in 1 .. n - 1 : file[i] = Body(e) /\ file[i + 1] = Newline(e)

DurableInv ==
  \A e \in Events :
    /\ pc[e] = "flush" => background = e \/ io_error \/ InLog(e, Len(file))
    /\ pc[e] = "commit" => InLog(e, Len(file))
    /\ pc[e] = "acked" => InLog(e, synced) /\ Entries \subseteq durable

\* A line stays in a file that keeps its beginning.
LEMMA LineStays ==
  ASSUME TypeOK, NEW e, NEW n \in 0 .. Len(file), NEW m \in Nat, n <= m,
         \A i \in 1 .. n : file'[i] = file[i],
         InLog(e, n)
  PROVE  \E i \in 1 .. m - 1 : file'[i] = Body(e) /\ file'[i + 1] = Newline(e)
<1>1. PICK i \in 1 .. n - 1 : file[i] = Body(e) /\ file[i + 1] = Newline(e)
  BY DEF InLog
<1>2. n \in Nat /\ i \in 1 .. n /\ i + 1 \in 1 .. n /\ i \in 1 .. m - 1
  BY DEF TypeOK
<1>3. QED
  BY <1>1, <1>2

\* DurableInv is preserved by every step.
LEMMA DurableSteps ==
  ASSUME TypeOK, TypeOK', StartInv, MutexInv, DurableInv, [Next]_vars
  PROVE  DurableInv'
<1> USE WriterAssumption DEF WriterAssumption, DurableInv, Goto, disk, path
<1>0. /\ pc \in [Events -> Location] /\ file \in Seq(Cells) /\ synced \in 0 .. Len(file)
      /\ Len(file) \in Nat
  BY DEF TypeOK
<1>1. ASSUME UNCHANGED file
      PROVE  \A e, n : (\E i \in 1 .. n - 1 : file'[i] = Body(e) /\ file'[i + 1] = Newline(e))
                         <=> InLog(e, n)
  BY <1>1 DEF InLog
<1>2. ASSUME NEW e \in Events, Serialize(e) \/ Lock(e) PROVE DurableInv'
  BY <1>0, <1>1, <1>2 DEF Serialize, Lock, InLog
<1>3. ASSUME NEW e \in Events, WriteAll(e) PROVE DurableInv'
  <2>1. /\ pc[e] = "write" /\ holder = e /\ UNCHANGED <<file, synced, durable>>
        /\ \/ /\ pc' = [pc EXCEPT ![e] = "flush"] /\ background' = e /\ UNCHANGED io_error
           \/ pc' = [pc EXCEPT ![e] = "failed"]
    BY <1>3 DEF WriteAll, FailWrite, MutexInv
  <2>2. \A d \in Events : d # e => pc[d] # "flush"
    BY <2>1 DEF MutexInv
  <2>3. QED
    BY <1>0, <2>1, <2>2 DEF InLog
<1>4. ASSUME NEW e \in Events, Flush(e) PROVE DurableInv'
  <2>1. /\ pc[e] = "flush" /\ holder = e /\ background = Nobody
        /\ UNCHANGED <<file, synced, durable, background>>
        /\ \/ pc' = [pc EXCEPT ![e] = "commit"] /\ ~io_error /\ UNCHANGED io_error
           \/ pc' = [pc EXCEPT ![e] = "failed"]
    BY <1>4 DEF Flush, FailWrite, MutexInv
  <2>2. \A d \in Events : d # e => pc[d] # "flush"
    BY <2>1 DEF MutexInv
  <2>3. QED
    BY <1>0, <2>1, <2>2 DEF InLog
<1>5. ASSUME NEW e \in Events, Commit(e) PROVE DurableInv'
  <2>1. /\ pc[e] = "commit" /\ holder = e /\ process = "up"
        /\ UNCHANGED <<file, durable, background, io_error>>
        /\ \/ pc' = [pc EXCEPT ![e] = "acked"] /\ synced' = Len(file)
           \/ pc' = [pc EXCEPT ![e] = "failed"] /\ synced' = synced
    BY <1>5 DEF Commit, FailWrite, MutexInv
  <2>2. Entries \subseteq durable
    BY <2>1 DEF StartInv
  <2>3. \A d : InLog(d, synced) => InLog(d, Len(file))
    BY <1>0 DEF InLog
  <2>4. QED
    BY <1>0, <2>1, <2>2, <2>3 DEF InLog
<1>6. ASSUME NEW e \in Events, DropCaller(e) PROVE DurableInv'
  <2>1. /\ pc' = [pc EXCEPT ![e] = "dropped"]
        /\ UNCHANGED <<file, synced, durable, background, io_error>>
    BY <1>6 DEF DropCaller
  <2>2. QED
    BY <1>0, <2>1 DEF InLog
<1>7. ASSUME WriteInBackground PROVE DurableInv'
  <2>1. /\ background' = Nobody /\ background # Nobody /\ UNCHANGED <<pc, synced, durable>>
    BY <1>7 DEF WriteInBackground
  <2>2. /\ Len(file') \in Nat /\ Len(file) <= Len(file')
        /\ \A i \in 1 .. Len(file) : file'[i] = file[i]
    <3>1. \/ file' = file
          \/ /\ Len(file') \in {Len(file) + 1, Len(file) + 2}
             /\ \A i \in 1 .. Len(file) : file'[i] = file[i]
      BY <1>7, Written
    <3>2. QED
      BY <1>0, <3>1
  <2>3. \A e : InLog(e, Len(file)) => InLog(e, Len(file))'
    BY <1>0, <2>2, LineStays DEF InLog
  <2>4. \A e : InLog(e, synced) => InLog(e, synced)'
    <3>1. \A i \in 1 .. synced : file'[i] = file[i]
      BY <1>0, <2>2
    <3>2. QED
      BY <1>0, <2>1, <3>1, LineStays DEF InLog
  <2>5. \A e \in Events : background = e => io_error' \/ InLog(e, Len(file))'
    <3> SUFFICES ASSUME NEW e \in Events, background = e, io_error' # TRUE
                 PROVE  InLog(e, Len(file))'
      OBVIOUS
    <3>1. /\ Len(file) \in Nat /\ Len(file') = Len(file) + 2
          /\ file'[Len(file) + 1] = Body(e) /\ file'[Len(file) + 2] = Newline(e)
      BY <1>7, Written
    <3>2. Len(file) + 1 \in 1 .. Len(file') - 1 /\ (Len(file) + 1) + 1 = Len(file) + 2
      BY <3>1
    <3>3. QED
      BY <3>1, <3>2 DEF InLog
  <2>6. io_error => io_error'
    BY <1>7 DEF WriteInBackground
  <2>7. QED
    BY <2>1, <2>3, <2>4, <2>5, <2>6
<1>8. ASSUME Opens PROVE DurableInv'
  <2>1. UNCHANGED <<pc, background, io_error, file, synced>>
    BY <1>8, OpensLeaves DEF Callers
  <2>2. durable \subseteq durable'
    BY <1>8 DEF Opens, StartStep, OpenFails, Probe, SyncExisting, CreateDirectory,
                SyncDirectory, OpenLog, SyncLog, CheckLog, vars
  <2>3. QED
    BY <2>1, <2>2 DEF InLog
<1>9. ASSUME Crash PROVE DurableInv'
  <2>1. \A e \in Events : /\ pc'[e] \notin {"flush", "commit"}
                          /\ pc'[e] = "acked" => pc[e] = "acked"
    BY <1>0, <1>9 DEF Crash
  <2>2. ASSUME Entries \subseteq durable
        PROVE  /\ Entries \subseteq durable' /\ synced' = synced
               /\ \A i \in 1 .. synced : file'[i] = file[i]
    <3>1. PICK top \in 0 .. present :
            /\ top < present => top + 1 \notin durable
            /\ durable' = durable \cap 1 .. top
            /\ \E kept \in IF top = LogEntry THEN synced .. Len(file) ELSE {0} :
                 /\ file' = SubSeq(file, 1, kept)
                 /\ synced' = IF synced < kept THEN synced ELSE kept
      BY <1>9 DEF Crash
    <3>2. present \in 0 .. LogEntry /\ durable \subseteq 1 .. present /\ LogEntry \in Nat
      BY DEF TypeOK, LogEntry
    <3>3. present = LogEntry
      BY <2>2, <3>2 DEF Entries, LogEntry
    <3>4. top = LogEntry
      BY <2>2, <3>1, <3>2, <3>3 DEF Entries
    <3>5. Entries \subseteq durable'
      BY <2>2, <3>1, <3>4 DEF Entries
    <3>6. PICK kept \in synced .. Len(file) :
            /\ file' = SubSeq(file, 1, kept)
            /\ synced' = IF synced < kept THEN synced ELSE kept
      BY <3>1, <3>4
    <3>7. synced' = synced /\ \A i \in 1 .. synced : file'[i] = file[i]
      BY <1>0, <3>6
    <3>8. QED
      BY <3>5, <3>7
  <2>3. ASSUME NEW e \in Events, pc[e] = "acked"
        PROVE  InLog(e, synced)' /\ Entries \subseteq durable'
    <3>1. InLog(e, synced) /\ Entries \subseteq durable
      BY <2>3
    <3>2. /\ Entries \subseteq durable' /\ synced' = synced
          /\ \A i \in 1 .. synced : file'[i] = file[i]
      BY <2>2, <3>1
    <3>3. QED
      BY <1>0, <3>1, <3>2, LineStays DEF InLog
  <2>4. QED
    BY <2>1, <2>3
<1>10. QED
  BY <1>2, <1>3, <1>4, <1>5, <1>6, <1>7, <1>8, <1>9 DEF Next, CallerStep, Opens, Rest

\* DurableInv holds in every reachable state.
LEMMA DurableInvariant == Spec => []DurableInv
<1>1. Init => DurableInv
  BY DEF Init, DurableInv
<1>2. /\ TypeOK /\ TypeOK' /\ StartInv /\ MutexInv /\ DurableInv /\ [Next]_vars
      => DurableInv'
  BY DurableSteps
<1>3. QED
  BY <1>1, <1>2, StartInvariant, LineInvariant, PTL DEF Spec

\* An acknowledged event is a whole line on stable storage under durable entries,
\* whatever crashes, fails or is dropped afterwards and however often it restarts.
THEOREM AcknowledgedIsDurable == Spec => []AckedIsDurable
<1>1. TypeOK /\ DurableInv => AckedIsDurable
  <2> SUFFICES ASSUME TypeOK, DurableInv, NEW e \in Events, pc[e] = "acked"
               PROVE  /\ Entries \subseteq durable
                      /\ \E i \in 1 .. synced - 1 : SubSeq(file, i, i + 1) = Line(e)
    BY DEF AckedIsDurable
  <2>1. Entries \subseteq durable /\ InLog(e, synced)
    BY DEF DurableInv
  <2>2. PICK i \in 1 .. synced - 1 : file[i] = Body(e) /\ file[i + 1] = Newline(e)
    BY <2>1 DEF InLog
  <2>3. file \in Seq(Cells) /\ synced \in 0 .. Len(file)
    BY DEF TypeOK
  <2>4. SubSeq(file, i, i + 1) = <<file[i], file[i + 1]>>
    <3> DEFINE line == SubSeq(file, i, i + 1)
    <3>1. i \in Nat /\ i >= 1 /\ i + 1 <= Len(file) /\ Len(file) \in Nat
      BY <2>3
    <3>2. /\ line \in Seq(Cells) /\ Len(line) = 2
          /\ line[1] = file[i] /\ line[2] = file[i + 1]
      BY <2>3, <3>1
    <3>3. DOMAIN line = 1 .. 2
      BY <3>2
    <3> HIDE DEF line
    <3>4. line = <<line[1], line[2]>>
      BY <3>2, <3>3
    <3>5. QED
      BY <3>2, <3>4 DEF line
  <2>5. QED
    BY <2>1, <2>2, <2>4 DEF Line
<1>2. QED
  BY <1>1, TypeCorrect, DurableInvariant, PTL

-----------------------------------------------------------------------------
(***************************************************************************)
(* The writer implements AuditSink.  Bodies and newlines alternate in the  *)
(* file, since a torn tail is never written behind, so every second cell   *)
(* is a line's newline; and what is written in the background belongs to   *)
(* the only caller that may be at its flush, or to one that was dropped.   *)
(***************************************************************************)
Alternating ==
  \A i \in DOMAIN file : file[i][2] = IF i % 2 = 1 THEN "body" ELSE "newline"

BackgroundOwned ==
  /\ background # Nobody => pc[background] \in {"flush", "dropped"}
  /\ \A e \in Events : pc[e] = "flush" /\ background # Nobody => background = e

\* A number is twice its half, or one more.
LEMMA Half ==
  ASSUME NEW n \in Nat
  PROVE  /\ n \div 2 \in Nat /\ n % 2 \in {0, 1} /\ n = 2 * (n \div 2) + (n % 2)
         /\ n % 2 = 0 => (n + 1) % 2 = 1 /\ (n + 1) \div 2 = n \div 2
         /\ (n + 2) % 2 = n % 2 /\ (n + 2) \div 2 = (n \div 2) + 1
  OBVIOUS

\* What is written in the background stays that of the caller at its flush.
LEMMA BackgroundSteps ==
  ASSUME TypeOK, MutexInv, BackgroundOwned, [Next]_vars
  PROVE  BackgroundOwned'
<1> USE WriterAssumption DEF WriterAssumption, BackgroundOwned, MutexInv, Goto
<1>0. pc \in [Events -> Location] /\ background \in Events \cup {Nobody}
  BY DEF TypeOK
<1>1. ASSUME NEW e \in Events, Serialize(e) \/ Lock(e) PROVE BackgroundOwned'
  BY <1>0, <1>1 DEF Serialize, Lock
<1>2. ASSUME NEW e \in Events, WriteAll(e) PROVE BackgroundOwned'
  BY <1>0, <1>2 DEF WriteAll, FailWrite
<1>3. ASSUME NEW e \in Events, Flush(e) \/ Commit(e) PROVE BackgroundOwned'
  BY <1>0, <1>3 DEF Flush, Commit, FailWrite
<1>4. ASSUME NEW e \in Events, DropCaller(e) PROVE BackgroundOwned'
  <2>1. pc' = [pc EXCEPT ![e] = "dropped"] /\ UNCHANGED background
    BY <1>4 DEF DropCaller
  <2>2. QED
    BY <1>0, <2>1
<1>5. ASSUME WriteInBackground \/ Crash PROVE BackgroundOwned'
  BY <1>5 DEF WriteInBackground, Crash
<1>6. ASSUME Opens PROVE BackgroundOwned'
  BY <1>6, OpensLeaves DEF Callers
<1>7. QED
  BY <1>1, <1>2, <1>3, <1>4, <1>5, <1>6 DEF Next, CallerStep, Opens, Rest

\* The steps that write: a line is written behind a whole number of lines.
LEMMA EvenFile ==
  ASSUME TypeOK, MutexInv, Alternating, WriteInBackground
  PROVE  Len(file) \in Nat /\ Len(file) % 2 = 0
<1>1. Len(file) \in Nat /\ DOMAIN file = 1 .. Len(file)
  BY Written
<1>2. ~TornTail
  BY DEF WriteInBackground, MutexInv
<1>3. Len(file) > 0 => Len(file) % 2 # 1
  BY <1>1, <1>2 DEF TornTail, Last, Alternating
<1>4. QED
  BY <1>1, <1>3

\* The steps that leave the file as it was, or cut it.
LEMMA FileKept ==
  ASSUME TypeOK, [Next]_vars
  PROVE  WriteInBackground \/ UNCHANGED file \/ Crash
<1>1. ASSUME NEW e \in Events, CallerStep(e) \/ DropCaller(e) PROVE UNCHANGED file
  BY <1>1 DEF CallerStep, Serialize, Lock, WriteAll, Flush, Commit, DropCaller, disk
<1>2. ASSUME Opens PROVE UNCHANGED file
  BY <1>2, OpensLeaves
<1>3. QED
  BY <1>1, <1>2 DEF Next, Opens, Rest

\* Bodies and newlines go on alternating.
LEMMA AlternatingSteps ==
  ASSUME TypeOK, MutexInv, Alternating, [Next]_vars
  PROVE  Alternating'
<1>1. CASE UNCHANGED file
  BY <1>1 DEF Alternating
<1>2. CASE Crash
  <2>1. PICK k \in 0 .. Len(file) : /\ DOMAIN file' = 1 .. k
                                    /\ DOMAIN file = 1 .. Len(file) /\ Len(file) \in Nat
                                    /\ \A i \in 1 .. k : file'[i] = file[i]
    BY <1>2, Cut
  <2>2. QED
    BY <2>1 DEF Alternating
<1>3. CASE WriteInBackground
  <2> DEFINE n == Len(file)
  <2>1. n \in Nat /\ n % 2 = 0
    BY <1>3, EvenFile
  <2>2. (n + 1) % 2 = 1 /\ (n + 2) % 2 = 0
    BY <2>1, Half
  <2>3. Body(background)[2] = "body" /\ Newline(background)[2] = "newline"
    BY DEF Body, Newline
  <2>4. CASE /\ DOMAIN file = 1 .. n /\ DOMAIN file' = 1 .. n + 1
             /\ \A i \in 1 .. n : file'[i] = file[i]
             /\ file'[n + 1] = Body(background)
    <3> HIDE DEF n
    <3> QED BY <2>1, <2>2, <2>3, <2>4 DEF Alternating
  <2>5. CASE /\ DOMAIN file = 1 .. n /\ DOMAIN file' = 1 .. n + 2
             /\ \A i \in 1 .. n : file'[i] = file[i]
             /\ file'[n + 1] = Body(background) /\ file'[n + 2] = Newline(background)
    <3> HIDE DEF n
    <3> QED BY <2>1, <2>2, <2>3, <2>5 DEF Alternating
  <2>6. QED
    BY <1>1, <1>3, <2>4, <2>5, Written
<1>4. QED
  BY <1>1, <1>2, <1>3, FileKept

\* What the refinement rests on.
LinesInv ==
  /\ TypeOK /\ MutexInv /\ LineInv /\ DurableInv
  /\ Alternating /\ BackgroundOwned

\* LinesInv holds in every reachable state.
LEMMA LinesInvariant == Spec => []LinesInv
<1>1. Init => Alternating /\ BackgroundOwned
  BY DEF Init, Alternating, BackgroundOwned
<1>2. TypeOK /\ MutexInv /\ Alternating /\ BackgroundOwned /\ [Next]_vars
        => Alternating' /\ BackgroundOwned'
  BY AlternatingSteps, BackgroundSteps
<1>3. QED
  BY <1>1, <1>2, TypeCorrect, LineInvariant, DurableInvariant, PTL DEF Spec, LinesInv

\* A line of the log is an event's newline.
LEMMA LinesTyped ==
  ASSUME NEW cells \in Seq(Cells)
  PROVE  /\ LinesOf(cells) \in Seq(Events) /\ Len(LinesOf(cells)) \in Nat
         /\ Len(LinesOf(cells)) = Len(cells) \div 2
         /\ DOMAIN LinesOf(cells) = 1 .. Len(LinesOf(cells))
         /\ \A i \in 1 .. Len(LinesOf(cells)) :
              2 * i \in DOMAIN cells /\ LinesOf(cells)[i] = cells[2 * i][1]
<1> DEFINE m == Len(cells) \div 2
<1>1. DOMAIN cells = 1 .. Len(cells) /\ Len(cells) \in Nat
  OBVIOUS
<1>2. m \in Nat /\ 2 * m <= Len(cells)
  BY <1>1, Half
<1>3. \A i \in 1 .. m : 2 * i \in DOMAIN cells
  BY <1>1, <1>2
<1>4. \A i \in 1 .. m : cells[2 * i][1] \in Events
  BY <1>3 DEF Cells
<1>5. LinesOf(cells) = [i \in 1 .. m |-> cells[2 * i][1]]
  BY DEF LinesOf
<1> HIDE DEF m
<1>6. LinesOf(cells) \in Seq(Events) /\ DOMAIN LinesOf(cells) = 1 .. m /\ Len(LinesOf(cells)) = m
  BY <1>2, <1>4, <1>5
<1>7. \A i \in 1 .. m : LinesOf(cells)[i] = cells[2 * i][1]
  BY <1>5
<1>8. QED
  BY <1>2, <1>3, <1>6, <1>7 DEF m

\* A newline in a file of alternating cells is a line of the log.
LEMMA NewlinesAreLines ==
  ASSUME NEW cells \in Seq(Cells), NEW e \in Events, NEW i \in DOMAIN cells,
         cells[i] = Newline(e), i % 2 # 1
  PROVE  \E k \in DOMAIN LinesOf(cells) : LinesOf(cells)[k] = e
<1>1. i \in Nat /\ i <= Len(cells) /\ i >= 1 /\ Len(cells) \in Nat
  OBVIOUS
<1>2. PICK k \in Nat : i = 2 * k
  BY <1>1, Half
<1>3. k \in 1 .. Len(cells) \div 2
  BY <1>1, <1>2, Half
<1>4. k \in DOMAIN LinesOf(cells) /\ LinesOf(cells)[k] = cells[2 * k][1]
  BY <1>3, LinesTyped
<1>5. QED
  BY <1>2, <1>4 DEF Newline

\* A whole line in the file is a line of the log.
LEMMA InLines ==
  ASSUME LinesInv, NEW e \in Events, NEW n \in 0 .. Len(file), InLog(e, n)
  PROVE  Sink!Logged(e)
<1>1. PICK i \in 1 .. n - 1 : file[i + 1] = Newline(e)
  BY DEF InLog
<1>2. file \in Seq(Cells) /\ i + 1 \in DOMAIN file
  BY <1>1 DEF LinesInv, TypeOK
<1>3. (i + 1) % 2 # 1
  BY <1>1, <1>2 DEF LinesInv, Alternating, Newline
<1>4. QED
  BY <1>1, <1>2, <1>3, NewlinesAreLines DEF Sink!Logged, Lines

\* InLines, in the next state.
LEMMA InLinesNext ==
  ASSUME LinesInv', NEW e \in Events, NEW n \in 0 .. Len(file'), InLog(e, n)'
  PROVE  Sink!Logged(e)'
<1>1. PICK i \in 1 .. n - 1 : file'[i + 1] = Newline(e)
  BY DEF InLog
<1>2. file' \in Seq(Cells) /\ i + 1 \in DOMAIN file'
  BY <1>1 DEF LinesInv, TypeOK
<1>3. (i + 1) % 2 # 1
  BY <1>1, <1>2 DEF LinesInv, Alternating, Newline
<1>4. QED
  BY <1>1, <1>2, <1>3, NewlinesAreLines DEF Sink!Logged, Lines

\* The events of the log are those of callers past the write.
LEMMA LinesWritten ==
  ASSUME LinesInv, NEW i \in DOMAIN Lines
  PROVE  /\ Lines[i] \in Events /\ pc[Lines[i]] \notin Unwritten
         /\ \E k \in DOMAIN file : file[k][1] = Lines[i]
<1>1. 2 * i \in DOMAIN file /\ file[2 * i][1] = Lines[i]
  BY LinesTyped DEF LinesInv, TypeOK, Lines
<1>2. QED
  BY <1>1, FileCells DEF LinesInv, LineInv

\* A background write adds its event to the lines, or leaves them.
LEMMA LinesGrow ==
  ASSUME LinesInv, LinesInv', WriteInBackground
  PROVE  Lines' = Lines \/ Lines' = Append(Lines, background)
<1> DEFINE n == Len(file)
           m == n \div 2
<1>1. n \in Nat /\ n % 2 = 0 /\ background \in Events
  BY EvenFile, Written DEF LinesInv
<1>2. m \in Nat /\ n = 2 * m /\ (n + 1) \div 2 = m /\ (n + 2) \div 2 = m + 1
  BY <1>1, Half
<1>3. /\ Lines \in Seq(Events) /\ Len(Lines) = m
      /\ \A i \in 1 .. m : Lines[i] = file[2 * i][1]
      /\ Lines' \in Seq(Events) /\ Len(Lines') = Len(file') \div 2
      /\ \A i \in 1 .. Len(Lines') : Lines'[i] = file'[2 * i][1]
  BY LinesTyped DEF LinesInv, TypeOK, Lines
<1> HIDE DEF n, m
<1>4. ASSUME \A i \in 1 .. n : file'[i] = file[i] PROVE \A i \in 1 .. m : file'[2 * i] = file[2 * i]
  BY <1>1, <1>2, <1>4
<1>5. CASE file' = file
  BY <1>5 DEF Lines
<1>6. CASE Len(file') = n + 1 /\ \A i \in 1 .. n : file'[i] = file[i]
  <2>1. Len(Lines') = m
    BY <1>2, <1>3, <1>6
  <2>2. \A i \in 1 .. m : Lines'[i] = Lines[i]
    <3>1. TAKE i \in 1 .. m
    <3>2. Lines'[i] = file'[2 * i][1] /\ Lines[i] = file[2 * i][1]
      BY <1>3, <2>1
    <3>3. file'[2 * i] = file[2 * i]
      BY <1>4, <1>6
    <3>4. QED
      BY <3>2, <3>3
  <2>3. QED
    BY <1>3, <2>1, <2>2, SeqEqual
<1>7. CASE /\ Len(file') = n + 2 /\ file'[n + 2] = Newline(background)
           /\ \A i \in 1 .. n : file'[i] = file[i]
  <2>1. Len(Lines') = m + 1 /\ Lines'[m + 1] = background /\ \A i \in 1 .. m : Lines'[i] = Lines[i]
    <3>1. Len(Lines') = m + 1 /\ 2 * (m + 1) = n + 2
      BY <1>2, <1>3, <1>7
    <3>2. Lines'[m + 1] = Newline(background)[1]
      BY <1>2, <1>3, <1>7, <3>1
    <3>3. \A i \in 1 .. m : Lines'[i] = Lines[i]
      BY <1>2, <1>3, <1>4, <1>7, <3>1
    <3>4. QED
      BY <3>1, <3>2, <3>3 DEF Newline
  <2>2. /\ Append(Lines, background) \in Seq(Events) /\ Len(Append(Lines, background)) = m + 1
        /\ \A i \in 1 .. m : Append(Lines, background)[i] = Lines[i]
        /\ Append(Lines, background)[m + 1] = background
    BY <1>1, <1>3, AppendProperties
  <2>3. \A i \in 1 .. m + 1 : Lines'[i] = Append(Lines, background)[i]
    BY <1>2, <2>1, <2>2
  <2>4. Lines' = Append(Lines, background)
    BY <1>3, <2>1, <2>2, <2>3, SeqEqual
  <2>5. QED
    BY <2>4
<1>8. QED
  BY <1>5, <1>6, <1>7, Written DEF n, LinesInv

\* A crash leaves the beginning of the log.
LEMMA LinesCut ==
  ASSUME LinesInv, LinesInv', Crash
  PROVE  \E kept \in 0 .. Len(Lines) : Lines' = SubSeq(Lines, 1, kept)
<1>1. PICK k \in 0 .. Len(file) : /\ Len(file') = k /\ Len(file) \in Nat
                                  /\ \A i \in 1 .. k : file'[i] = file[i]
  BY Cut DEF LinesInv
<1>2. /\ Lines \in Seq(Events) /\ Len(Lines) = Len(file) \div 2 /\ Len(Lines) \in Nat
      /\ \A i \in 1 .. Len(Lines) : Lines[i] = file[2 * i][1]
      /\ Lines' \in Seq(Events) /\ Len(Lines') = Len(file') \div 2 /\ Len(Lines') \in Nat
      /\ \A i \in 1 .. Len(Lines') : Lines'[i] = file'[2 * i][1]
  BY LinesTyped DEF LinesInv, TypeOK, Lines
<1> DEFINE m == Len(Lines')
<1>3. m \in 0 .. Len(Lines) /\ 2 * m <= k /\ k \in Nat
  BY <1>1, <1>2, Half
<1> HIDE DEF m
<1>4. \A i \in 1 .. m : Lines'[i] = Lines[i]
  <2>1. TAKE i \in 1 .. m
  <2>2. 2 * i \in 1 .. k /\ i \in 1 .. Len(Lines)
    BY <1>2, <1>3
  <2>3. file'[2 * i] = file[2 * i] /\ Lines[i] = file[2 * i][1]
    BY <1>1, <1>2, <2>2
  <2>4. Lines'[i] = file'[2 * i][1]
    BY <1>2 DEF m
  <2>5. QED
    BY <2>3, <2>4
<1>5. /\ SubSeq(Lines, 1, m) \in Seq(Events) /\ Len(SubSeq(Lines, 1, m)) = m
      /\ \A i \in 1 .. m : SubSeq(Lines, 1, m)[i] = Lines[i]
  BY <1>2, <1>3, SubSeqProperties
<1>6. Lines' = SubSeq(Lines, 1, m)
  <2>1. Len(Lines') = m
    BY DEF m
  <2>2. QED
    BY <1>2, <1>4, <1>5, <2>1, SeqEqual
<1>7. QED
  BY <1>3, <1>6

\* What the sink sees.
Seen == <<Lines, CallerOf, Failed, Up>>

\* A step of one caller is a step of one caller to the sink.
LEMMA CallerMoves ==
  ASSUME TypeOK, NEW e \in Events, NEW from, NEW to, Goto(e, from, to)
  PROVE  /\ Up /\ CallerOf[e] = IF from \in Waiting THEN "waiting" ELSE from
         /\ CallerOf' = [CallerOf EXCEPT ![e] = IF to \in Waiting THEN "waiting" ELSE to]
         /\ from \in Waiting /\ to \in Waiting => CallerOf' = CallerOf
<1>1. pc \in [Events -> Location] /\ pc[e] = from /\ pc' = [pc EXCEPT ![e] = to] /\ process = "up"
  BY DEF TypeOK, Goto
<1>2. CallerOf[e] = IF from \in Waiting THEN "waiting" ELSE from
  BY <1>1 DEF CallerOf
<1>3. CallerOf' = [CallerOf EXCEPT ![e] = IF to \in Waiting THEN "waiting" ELSE to]
  BY <1>1 DEF CallerOf
<1>4. from \in Waiting /\ to \in Waiting => CallerOf' = CallerOf
  BY <1>1 DEF CallerOf
<1>5. QED
  BY <1>1, <1>2, <1>3, <1>4 DEF Up

\* The initial state is one of the sink's.
LEMMA SinkInitially == Init => Sink!SinkInit
<1> SUFFICES ASSUME Init PROVE Sink!SinkInit
  OBVIOUS
<1>1. Lines = <<>>
  BY DEF Init, Lines, LinesOf
<1>2. QED
  BY <1>1 DEF Init, Sink!SinkInit, Waiting, CallerOf, Failed, Up

\* What a step of a caller leaves.
LEMMA LogLeft ==
  ASSUME UNCHANGED <<file, process>> PROVE Lines' = Lines /\ Up' = Up
  BY DEF Lines, Up

\* A write that fails poisons a writer that was not poisoned.
LEMMA WriteFailure ==
  ASSUME LinesInv, NEW e \in Events, NEW from \in {"write", "flush", "commit"}, FailWrite(e, from),
         UNCHANGED <<file, process>>
  PROVE  Sink!Fail(e)
<1>1. Up /\ CallerOf[e] = "waiting" /\ CallerOf' = [CallerOf EXCEPT ![e] = "failed"]
  BY CallerMoves DEF LinesInv, FailWrite, Waiting
<1>2. holder = e /\ e # Nobody
  BY WriterAssumption DEF WriterAssumption, LinesInv, MutexInv, FailWrite, Goto
<1>3. ~Failed /\ Failed'
  BY <1>1, <1>2 DEF LinesInv, MutexInv, Failed, FailWrite, Up
<1>4. QED
  BY <1>1, <1>3, LogLeft DEF Sink!Fail, Sink!Becomes

\* Every step is one of the sink's, or one it does not see.
LEMMA SinkStep ==
  ASSUME LinesInv, LinesInv', [Next]_vars
  PROVE  Sink!SinkNext \/ UNCHANGED Sink!sinkState
<1> USE DEF Sink!sinkState, Sink!Logged, Waiting
<1>0. TypeOK /\ (~poisoned \/ poisoned) /\ pc \in [Events -> Location]
  BY DEF LinesInv, TypeOK
<1>1. ASSUME NEW e \in Events, Serialize(e) PROVE Sink!Refuse(e) \/ Sink!Submit(e)
  <2>1. /\ Lines' = Lines /\ Up' = Up /\ Failed' = Failed /\ Up
        /\ Goto(e, "idle", "failed") \/ Goto(e, "idle", "queued")
    BY <1>1, LogLeft DEF Serialize, disk, server, Failed, Goto, Up
  <2>2. ~Sink!Logged(e)
    BY <2>1, LinesWritten DEF Goto, Unwritten
  <2>3. CASE Goto(e, "idle", "failed")
    <3>1. CallerOf[e] = "idle" /\ CallerOf' = [CallerOf EXCEPT ![e] = "failed"]
      BY <1>0, <2>3, CallerMoves
    <3>2. QED
      BY <2>1, <2>2, <3>1 DEF Sink!Refuse, Sink!Becomes
  <2>4. CASE Goto(e, "idle", "queued")
    BY <1>0, <2>1, <2>2, <2>4, CallerMoves DEF Sink!Submit, Sink!Becomes
  <2>5. QED
    BY <2>1, <2>3, <2>4
<1>2. ASSUME NEW e \in Events, Lock(e) PROVE Sink!Refuse(e) \/ UNCHANGED Seen
  <2>1. /\ Lines' = Lines /\ Up' = Up /\ Failed' = Failed /\ Up
        /\ Goto(e, "queued", "write") \/ (poisoned /\ Goto(e, "queued", "failed"))
    BY <1>2, LogLeft DEF Lock, disk, server, Failed, Goto, Up
  <2>2. CASE Goto(e, "queued", "write")
    BY <1>0, <2>1, <2>2, CallerMoves DEF Seen
  <2>3. CASE poisoned /\ Goto(e, "queued", "failed")
    <3>1. ~Sink!Logged(e)
      BY <2>3, LinesWritten DEF Goto, Unwritten
    <3>2. Failed
      BY <2>1, <2>3 DEF Failed, Up
    <3>3. CallerOf[e] = "waiting" /\ CallerOf' = [CallerOf EXCEPT ![e] = "failed"]
      BY <1>0, <2>3, CallerMoves
    <3>4. QED
      BY <2>1, <3>1, <3>2, <3>3 DEF Sink!Refuse, Sink!Becomes
  <2>4. QED
    BY <2>1, <2>2, <2>3
<1>3. ASSUME NEW e \in Events, WriteAll(e) PROVE Sink!Fail(e) \/ UNCHANGED Seen
  <2>1. CASE FailWrite(e, "write")
    BY <1>3, <2>1, WriteFailure DEF WriteAll, disk, server
  <2>2. CASE Goto(e, "write", "flush") /\ UNCHANGED poisoned
    BY <1>0, <1>3, <2>2, CallerMoves, LogLeft DEF WriteAll, disk, server, Seen, Failed
  <2>3. QED
    BY <1>3, <2>1, <2>2 DEF WriteAll
<1>4. ASSUME NEW e \in Events, Flush(e) PROVE Sink!Fail(e) \/ UNCHANGED Seen
  <2>1. CASE FailWrite(e, "flush")
    BY <1>4, <2>1, WriteFailure DEF Flush, disk, server
  <2>2. CASE Goto(e, "flush", "commit") /\ UNCHANGED poisoned
    BY <1>0, <1>4, <2>2, CallerMoves, LogLeft DEF Flush, disk, server, Seen, Failed
  <2>3. QED
    BY <1>4, <2>1, <2>2 DEF Flush
<1>5. ASSUME NEW e \in Events, Commit(e) PROVE Sink!Fail(e) \/ Sink!Acknowledge(e)
  <2>1. CASE FailWrite(e, "commit")
    BY <1>5, <2>1, WriteFailure DEF Commit, path, server
  <2>2. CASE Goto(e, "commit", "acked") /\ UNCHANGED poisoned
    <3>1. Lines' = Lines /\ Up' = Up /\ Failed' = Failed
      BY <1>5, <2>2, LogLeft DEF Commit, path, server, Failed
    <3>2. InLog(e, Len(file)) /\ Len(file) \in Nat
      BY <1>0, <2>2 DEF LinesInv, DurableInv, Goto, TypeOK
    <3>3. Sink!Logged(e)
      BY <3>2, InLines
    <3>4. QED
      <4>1. Up /\ CallerOf[e] = "waiting" /\ CallerOf' = [CallerOf EXCEPT ![e] = "acked"]
        BY <1>0, <2>2, CallerMoves
      <4>2. QED
        BY <3>1, <3>3, <4>1 DEF Sink!Acknowledge, Sink!Becomes
  <2>3. QED
    BY <1>5, <2>1, <2>2 DEF Commit
<1>6. ASSUME NEW e \in Events, DropCaller(e) PROVE Sink!Drop(e)
  <2>1. PICK await \in {"queued", "write", "flush", "commit"} : Goto(e, await, "dropped")
    BY <1>6 DEF DropCaller
  <2>2. Lines' = Lines /\ Up' = Up /\ Failed' = Failed
    BY <1>6, LogLeft DEF DropCaller, disk, server, Failed
  <2>3. QED
    BY <1>0, <2>1, <2>2, CallerMoves DEF Sink!Drop, Sink!Becomes
<1>7. ASSUME WriteInBackground PROVE (\E e \in Events : Sink!Land(e)) \/ UNCHANGED Seen
  <2>1. /\ UNCHANGED <<pc, poisoned, process>> /\ background # Nobody /\ background \in Events
        /\ process = "up" /\ ~poisoned
    BY <1>7 DEF WriteInBackground, server, LinesInv, MutexInv, TypeOK
  <2>2. CallerOf' = CallerOf /\ Failed' = Failed /\ Up' = Up /\ Up /\ ~Failed
    BY <2>1 DEF CallerOf, Failed, Up
  <2>3. CASE Lines' = Lines
    BY <2>2, <2>3 DEF Seen
  <2>4. CASE Lines' = Append(Lines, background)
    <3>1. pc[background] \in {"flush", "dropped"} /\ CallerOf[background] \in {"waiting", "dropped"}
      BY <2>1 DEF LinesInv, BackgroundOwned, CallerOf
    <3>2. ~Sink!Logged(background)
      BY <2>1, LinesWritten DEF LinesInv, LineInv
    <3>3. ASSUME NEW i \in DOMAIN Lines PROVE CallerOf[Lines[i]] # "waiting"
      <4>1. Lines[i] \in Events /\ pc[Lines[i]] \notin Unwritten /\ Lines[i] # background
        BY <3>2, LinesWritten
      <4>2. pc[Lines[i]] \notin {"flush", "commit"}
        BY <2>1, <4>1 DEF LinesInv, BackgroundOwned, MutexInv
      <4>3. QED
        BY <1>0, <4>1, <4>2 DEF CallerOf, Unwritten, Location
    <3>4. Sink!Land(background)
      BY <2>2, <2>4, <3>1, <3>2, <3>3 DEF Sink!Land
    <3>5. QED
      BY <2>1, <3>4
  <2>5. QED
    BY <1>7, <2>3, <2>4, LinesGrow
<1>8. ASSUME Opens PROVE Sink!Start \/ UNCHANGED Seen
  <2>1. UNCHANGED <<pc, file>> /\ Lines' = Lines /\ CallerOf' = CallerOf
    BY <1>8, OpensLeaves DEF Callers, Lines, CallerOf
  <2>2. CASE UNCHANGED vars
    BY <2>1, <2>2 DEF vars, Seen, Failed, Up
  <2>3. CASE process # "up" /\ process' # "up"
    BY <2>1, <2>3, Zenon DEF Seen, Failed, Up
  <2>4. CASE process # "up" /\ process' = "up" /\ poisoned' = FALSE
    <3>1. ~Up /\ Up' = TRUE /\ Failed' = Failed
      BY <2>4, Zenon DEF Up, Failed
    <3>2. QED
      BY <2>1, <3>1 DEF Sink!Start
  <2>5. QED
    BY <1>8, <2>2, <2>3, <2>4
       DEF Opens, StartStep, OpenFails, Start, Below, Opening, Probe, SyncExisting,
           CreateDirectory, SyncDirectory, OpenLog, SyncLog, CheckLog
<1>9. ASSUME Crash PROVE Sink!Stop
  <2>1. process' = "down" /\ ~Up' /\ ~Failed'
    BY <1>9 DEF Crash, Up, Failed
  <2>2. \E kept \in 0 .. Len(Lines) : Lines' = SubSeq(Lines, 1, kept)
    BY <1>9, LinesCut
  <2>3. CallerOf' = [e \in Events |-> IF CallerOf[e] = "waiting" THEN "lost" ELSE CallerOf[e]]
    BY <1>0, <1>9 DEF Crash, CallerOf, Location
  <2>4. ASSUME NEW e \in Events, CallerOf[e] = "acked" PROVE Sink!Logged(e)'
    <3>1. pc'[e] = "acked"
      BY <1>0, <1>9, <2>4 DEF CallerOf, Crash
    <3>2. InLog(e, synced)' /\ synced' \in 0 .. Len(file')
      BY <3>1 DEF LinesInv, DurableInv, TypeOK
    <3>3. QED
      BY <3>2, InLinesNext DEF InLog
  <2>5. QED
    BY <2>1, <2>2, <2>3, <2>4 DEF Sink!Stop
<1>10. QED
  BY <1>1, <1>2, <1>3, <1>4, <1>5, <1>6, <1>7, <1>8, <1>9
     DEF Next, CallerStep, Opens, Rest, Sink!SinkNext, Seen

\* The detailed writer, with its mutex, its background threads, its retries and its
\* crashes, promises its callers what AuditSink states (src/src/audit.rs,
\* AuditWriter::write_event).
THEOREM WriterImplementsSink == Spec => ImplementsSink
<1>1. LinesInv /\ LinesInv' /\ [Next]_vars => [Sink!SinkNext]_Sink!sinkState
  BY SinkStep, Zenon
<1>2. QED
  BY <1>1, SinkInitially, LinesInvariant, PTL DEF Spec, ImplementsSink, Sink!SinkSpec
=============================================================================
