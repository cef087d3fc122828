---------------------------- MODULE AuditWriter ----------------------------
(***************************************************************************)
(* The audit sink of audit.rs: one append-only NDJSON file behind a mutex, *)
(* each event written, flushed and committed before it is acknowledged,    *)
(* and the start that creates or opens the file: the missing directories   *)
(* above it, their entries and its own made durable one by one, and the    *)
(* checks of what an earlier run left in it.                               *)
(*                                                                         *)
(* An event is two cells, its bytes up to the newline and the newline, so  *)
(* that a write may be torn between them.  The async file runs a write in  *)
(* the background: a caller dropped at an await leaves the write behind,   *)
(* and the next caller finds its result.                                   *)
(***************************************************************************)
EXTENDS Naturals, Sequences, SequencesExt

CONSTANTS
  Events,          \* events callers append, each with its own request id
  Abandoned,       \* events whose caller may be dropped at an await
  Oversized,       \* events longer than CUSTODE_MAX_AUDIT_EVENT_BYTES
  Directories,     \* directories above the log that the operator left to create
  MaxStarts        \* bound: starts of the process

Nobody == "nobody"

ASSUME WriterAssumption ==
  /\ Nobody \notin Events
  /\ Abandoned \subseteq Events
  /\ Oversized \subseteq Events
  /\ Directories \in Nat
  /\ MaxStarts \in Nat

Body(e) == <<e, "body">>
Newline(e) == <<e, "newline">>
Cells == Events \X {"body", "newline"}
Line(e) == <<Body(e), Newline(e)>>

Location == {"idle", "queued", "write", "flush", "commit",
             "acked", "failed", "dropped", "lost"}

\* The entries of the log's path from the top: its directories, then the log.
LogEntry == Directories + 1
Entries == 1 .. LogEntry

\* Where a start stands: "existing" syncs the entry of the deepest directory
\* found, "create" and "entry" create the next one and sync its entry, "open"
\* and "log" do so for the log, "tail" is about to read it.
Opening == {"existing", "create", "entry", "open", "log", "tail"}

VARIABLES
  pc,          \* event -> where its caller stands
  queue,       \* callers waiting for the writer's mutex, first come first served
  holder,      \* the caller that holds it, or Nobody
  poisoned,    \* AuditWriterState.poisoned
  background,  \* the event the file is writing in the background, or Nobody
  io_error,    \* a background write failed and no caller was told yet
  file,        \* the cells of the file, as the operating system sees it
  synced,      \* how many of them are on stable storage
  present,     \* how many of the path's entries there are, from the top
  durable,     \* the entries on stable storage
  level,       \* the directory a start is at
  process,     \* "down", a location of Opening, "up", or "refused": invalid log
  starts       \* starts so far

vars == <<pc, queue, holder, poisoned, background, io_error, file, synced,
          present, durable, level, process, starts>>

mutex == <<queue, holder>>
path == <<present, durable>>
disk == <<file, synced, path>>
server == <<level, process, starts>>

TypeOK ==
  /\ pc \in [Events -> Location]
  /\ queue \in Seq(Events)
  /\ holder \in Events \cup {Nobody}
  /\ holder = Nobody \/ pc[holder] \in {"write", "flush", "commit"}
  /\ background \in Events \cup {Nobody}
  /\ poisoned \in BOOLEAN /\ io_error \in BOOLEAN
  /\ file \in Seq(Cells)
  /\ synced \in 0 .. Len(file)
  /\ present \in 0 .. LogEntry /\ durable \subseteq 1 .. present
  /\ level \in 0 .. Directories
  /\ process \in Opening \cup {"down", "up", "refused"}
  /\ starts \in 0 .. MaxStarts

Init ==
  /\ pc = [e \in Events |-> "idle"]
  /\ queue = <<>> /\ holder = Nobody
  /\ poisoned = FALSE /\ background = Nobody /\ io_error = FALSE
  /\ file = <<>> /\ synced = 0
  /\ present = 0 /\ durable = {}
  /\ level = 0 /\ process = "down" /\ starts = 0

-----------------------------------------------------------------------------
(* write_event and write_serialized_event                                  *)

Goto(e, from, to) ==
  /\ process = "up"
  /\ pc[e] = from
  /\ pc' = [pc EXCEPT ![e] = to]

\* serialize_event refuses an event over the limit before it takes the mutex.
Serialize(e) ==
  /\ \/ /\ e \in Oversized
        /\ Goto(e, "idle", "failed")
        /\ UNCHANGED queue
     \/ /\ e \notin Oversized
        /\ Goto(e, "idle", "queued")
        /\ queue' = Append(queue, e)
  /\ UNCHANGED <<holder, poisoned, background, io_error, disk, server>>

\* The mutex is granted in order; a poisoned writer refuses at once.
Lock(e) ==
  /\ holder = Nobody /\ queue # <<>> /\ Head(queue) = e
  /\ queue' = Tail(queue)
  /\ \/ /\ ~poisoned
        /\ Goto(e, "queued", "write")
        /\ holder' = e
     \/ /\ poisoned
        /\ Goto(e, "queued", "failed")
        /\ UNCHANGED holder
  /\ UNCHANGED <<poisoned, background, io_error, disk, server>>

\* Mutants of FailWrite: the writer is not poisoned; the mutex is kept.
FailWrite_NotPoisoned(e, from) ==
  /\ Goto(e, from, "failed")
  /\ holder' = Nobody
  /\ UNCHANGED poisoned

FailWrite_MutexKept(e, from) ==
  /\ Goto(e, from, "failed")
  /\ poisoned' = TRUE
  /\ UNCHANGED holder

\* An I/O error poisons the writer before the mutex is released.
FailWrite(e, from) ==
  /\ Goto(e, from, "failed")
  /\ poisoned' = TRUE
  /\ holder' = Nobody

\* write_all: the file first waits for the write a dropped caller left behind
\* and tells its error; else it takes the buffer over.
WriteAll(e) ==
  /\ background = Nobody
  /\ \/ /\ ~io_error
        /\ Goto(e, "write", "flush")
        /\ background' = e
        /\ UNCHANGED <<holder, poisoned, io_error>>
     \/ /\ io_error
        /\ FailWrite(e, "write")
        /\ io_error' = FALSE
        /\ UNCHANGED background
  /\ UNCHANGED <<queue, disk, server>>

\* flush waits for the background write and tells its error.
Flush(e) ==
  /\ background = Nobody
  /\ \/ /\ ~io_error
        /\ Goto(e, "flush", "commit")
        /\ UNCHANGED <<holder, poisoned, io_error>>
     \/ /\ io_error
        /\ FailWrite(e, "flush")
        /\ io_error' = FALSE
  /\ UNCHANGED <<queue, background, disk, server>>

\* Mutant of Commit: an event whose commit fails is written again.
Commit_Retried(e) ==
  /\ Goto(e, "commit", "write")
  /\ UNCHANGED <<mutex, poisoned, background, io_error, disk, server>>

\* commit is sync_data: only then is the append acknowledged.
Commit(e) ==
  /\ \/ /\ Goto(e, "commit", "acked")
        /\ synced' = Len(file)
        /\ holder' = Nobody
        /\ UNCHANGED poisoned
     \/ /\ FailWrite(e, "commit")
        /\ UNCHANGED synced
  /\ UNCHANGED <<queue, background, io_error, file, path, server>>

\* The background thread writes the line, or fails having written none, or part.
WriteInBackground ==
  /\ process = "up" /\ background # Nobody
  /\ background' = Nobody
  /\ \/ /\ file' = file \o Line(background)
        /\ UNCHANGED io_error
     \/ /\ file' \in {file, Append(file, Body(background))}
        /\ io_error' = TRUE
  /\ UNCHANGED <<pc, mutex, poisoned, synced, path, server>>

\* A dropped caller releases the mutex or leaves its queue; nothing is undone.
DropCaller(e) ==
  /\ e \in Abandoned
  /\ \E await \in {"queued", "write", "flush", "commit"} : Goto(e, await, "dropped")
  /\ holder' = IF holder = e THEN Nobody ELSE holder
  /\ IF \E i \in DOMAIN queue : queue[i] = e
       THEN \E i \in DOMAIN queue : queue[i] = e /\ queue' = RemoveAt(queue, i)
       ELSE UNCHANGED queue
  /\ UNCHANGED <<poisoned, background, io_error, disk, server>>

-----------------------------------------------------------------------------
(* AuditWriter::open                                                       *)

\* Complete lines are parsed one by one; a request id may not occur twice.
EveryLineIsAnEvent ==
  \A i \in DOMAIN file :
    file[i][2] = "newline" =>
      /\ i > 1 /\ file[i - 1] = Body(file[i][1])
      /\ i > 2 => file[i - 2][2] = "newline"

DuplicateFree == \A i, j \in DOMAIN file : file[i] = file[j] => i = j

EmptyTail == file = <<>>
TornTail == file # <<>> /\ Last(file)[2] # "newline"

Start(from, to) == process = from /\ process' = to

\* create_dir_all_durable walks up to the deepest directory there is.
Probe ==
  /\ Start("down", "existing")
  /\ starts < MaxStarts /\ starts' = starts + 1
  /\ level' = IF present < Directories THEN present ELSE Directories
  /\ UNCHANGED <<pc, mutex, poisoned, background, io_error, disk>>

Below(at) == IF at < Directories THEN "create" ELSE "open"

\* Mutant of SyncExisting: what is there is taken to be durable.
SyncExisting_Skipped ==
  /\ Start("existing", Below(level))
  /\ UNCHANGED <<pc, mutex, poisoned, background, io_error, disk, level, starts>>

\* An earlier start may have created it and stopped before its entry was synced.
SyncExisting ==
  /\ Start("existing", Below(level))
  /\ durable' = durable \cup ({level} \cap Entries)
  /\ UNCHANGED <<pc, mutex, poisoned, background, io_error, file, synced, present,
                 level, starts>>

CreateDirectory ==
  /\ Start("create", "entry")
  /\ level' = level + 1
  /\ present' = level + 1
  /\ UNCHANGED <<pc, mutex, poisoned, background, io_error, file, synced, durable,
                 starts>>

SyncDirectory ==
  /\ Start("entry", Below(level))
  /\ durable' = durable \cup {level}
  /\ UNCHANGED <<pc, mutex, poisoned, background, io_error, file, synced, present,
                 level, starts>>

OpenLog ==
  /\ Start("open", "log")
  /\ present' = LogEntry
  /\ UNCHANGED <<pc, mutex, poisoned, background, io_error, file, synced, durable,
                 level, starts>>

SyncLog ==
  /\ Start("log", "tail")
  /\ durable' = durable \cup {LogEntry}
  /\ UNCHANGED <<pc, mutex, poisoned, background, io_error, file, synced, present,
                 level, starts>>

\* The tail, then the lines, are checked; a fresh writer is not poisoned.
CheckLog ==
  /\ Start("tail", IF EmptyTail \/ (~TornTail /\ EveryLineIsAnEvent /\ DuplicateFree)
                     THEN "up" ELSE "refused")
  /\ poisoned' = FALSE
  /\ UNCHANGED <<pc, mutex, background, io_error, disk, level, starts>>

\* A file operation of the start fails: the process exits, its steps stay done.
OpenFails ==
  /\ \E at \in Opening : Start(at, "down")
  /\ UNCHANGED <<pc, mutex, poisoned, background, io_error, disk, level, starts>>

\* The process, or the machine under it, stops: an entry that is not durable may
\* be lost with all below it, bytes that are not synced may be lost from any
\* point on, callers are gone.
Crash ==
  /\ process \in Opening \cup {"up"}
  /\ process' = "down"
  /\ pc' = [e \in Events |-> IF pc[e] \in {"idle", "acked", "failed", "dropped"}
                               THEN pc[e] ELSE "lost"]
  /\ queue' = <<>> /\ holder' = Nobody /\ background' = Nobody /\ io_error' = FALSE
  /\ \E top \in 0 .. present :
       /\ top < present => top + 1 \notin durable
       /\ present' = top
       /\ durable' = durable \cap 1 .. top
       /\ \E kept \in IF top = LogEntry THEN synced .. Len(file) ELSE {0} :
            /\ file' = SubSeq(file, 1, kept)
            /\ synced' = IF synced < kept THEN synced ELSE kept
  /\ UNCHANGED <<poisoned, level, starts>>

CallerStep(e) == Serialize(e) \/ Lock(e) \/ WriteAll(e) \/ Flush(e) \/ Commit(e)

StartStep ==
  \/ Probe \/ SyncExisting \/ CreateDirectory \/ SyncDirectory
  \/ OpenLog \/ SyncLog \/ CheckLog

Rest ==
  /\ \/ process = "refused"
     \/ process = "down" /\ starts = MaxStarts
     \/ \A e \in Events : pc[e] \in {"acked", "failed", "dropped", "lost"}
  /\ UNCHANGED vars

Next ==
  \/ \E e \in Events : CallerStep(e) \/ DropCaller(e)
  \/ WriteInBackground
  \/ StartStep \/ OpenFails \/ Crash
  \/ Rest

Spec == Init /\ [][Next]_vars

\* Callers that can go on are polled, the disk answers; a crash is never owed.
FairSpec ==
  /\ Spec
  /\ \A e \in Events : WF_vars(CallerStep(e))
  /\ WF_vars(WriteInBackground)

-----------------------------------------------------------------------------
(* Properties                                                              *)

\* An acknowledged event is a whole line on stable storage, whatever crashes,
\* fails or is dropped afterwards.
AckedIsDurable ==
  \A e \in Events :
    pc[e] = "acked" =>
      Entries \subseteq durable /\ \E i \in 1 .. synced - 1 : SubSeq(file, i, i + 1) = Line(e)

\* No event is joined to what a torn write left behind: every newline closes
\* exactly its own event.
NoJoinedLines == EveryLineIsAnEvent

\* An event is in the log once at most.
NoDuplicates == DuplicateFree

\* Every caller is answered or dropped, or its process crashes: a failed or
\* dropped caller never keeps the mutex.
EveryAppendReturns ==
  \A e \in Events :
    pc[e] = "queued" ~> pc[e] \in {"acked", "failed", "dropped", "lost"}
=============================================================================
