----------------------------- MODULE AuditWriter ------------------------------
(***************************************************************************)
(* The audit pipeline of src/audit/mod.rs: callers hand entries to an      *)
(* AuditHandle, a bounded queue carries them to the writer thread, and     *)
(* whatever could not be stored is counted and reported later.  The store  *)
(* itself is the log that AuditStore implements: append adds all entries   *)
(* of a batch behind the others, or none.                                  *)
(*                                                                         *)
(* Interleaved: the callers, the writer thread with its panics and         *)
(* restarts, the thread that saves the counter, the retention task, a      *)
(* change of the fail mode, and the end and restart of the process.        *)
(***************************************************************************)
EXTENDS Integers, Sequences, SequencesExt, FiniteSets

CONSTANTS
    Calls,      \* calls of record and record_committed; each one brings its own entry
    Capacity,   \* QUEUE_CAPACITY
    MaxBatch,   \* MAX_BATCH
    MaxRestarts,\* restarts of the writer allowed within a minute (3)
    FailModes,  \* the values fail_closed takes while the gateway runs
    Panics,     \* whether the writer may panic
    Cancels,    \* whether a caller may be dropped while it waits for its ack
    MaxCrashes  \* bound of the model: how often the process ends

ASSUME WriterAssumption ==
    /\ Capacity \in Nat \ {0}
    /\ MaxBatch \in Nat \ {0}
    /\ MaxRestarts \in Nat
    /\ FailModes \subseteq BOOLEAN /\ FailModes # {}
    /\ Panics \in BOOLEAN /\ Cancels \in BOOLEAN
    /\ MaxCrashes \in Nat

VARIABLES
    up,          \* the process runs
    fail_closed, \* AuditSettings.fail_closed
    call,        \* each call: where it is, and the number it was acknowledged with
    queue,       \* the commands between the handles and the writer
    phase,       \* where the writer thread is
    batch,       \* the Append commands taken from the queue
    after,       \* the command that ended the batch, handled behind it
    reporting,   \* lost_before: the count that the EventsLost entry of this batch reports
    count,       \* LostEvents.count
    in_flight,   \* LostEvents.in_flight
    saved,       \* LostEvents.saved
    file,        \* <database>.lost on disk; 0 stands for "no file"
    trail,       \* the stored records: a call's entry, or an EventsLost entry
    restarts,    \* restarts of the writer in the last minute
    retention,   \* where the retention task is
    flush,       \* where a caller of flush is
    reported,    \* history: the sum of all stored EventsLost entries
    known,       \* history: the losses that the file and the trail have known of
    flushed,     \* history: the entries ahead of the Flush command
    crashes,     \* history: how often the process ended
    panicked     \* history: the writer panicked in this run of the process or an earlier one

lost == <<count, in_flight, saved, file, known>>
thread == <<phase, batch, after, reporting, restarts>>
clients == <<fail_closed, call, retention, flush, flushed>>
vars == <<up, clients, queue, thread, lost, trail, reported, crashes, panicked>>
-------------------------------------------------------------------------------
Append1(e, ack) == [cmd |-> "append", call |-> e, ack |-> ack]
Prune == [cmd |-> "prune"]
Flush == [cmd |-> "flush"]
EventsLost(n) == [lost |-> n]
Entry(e) == [call |-> e]

Command == [cmd : {"append"}, call : Calls, ack : BOOLEAN] \cup {Prune, Flush}

Commands(s) == {s[i] : i \in DOMAIN s}
\* The calls whose entries are among the commands of s.
Entries(s) == {c.call : c \in {d \in Commands(s) : d.cmd = "append"}}
Acked(s) == {c.call : c \in {d \in Commands(s) : d.cmd = "append" /\ d.ack}}
Unacked(s) == Cardinality(Entries(s) \ Acked(s))

Stored(e) == Entry(e) \in {trail[i] : i \in DOMAIN trail}

Fresh == [st |-> "new", seq |-> 0]

Init ==
    /\ up = TRUE
    /\ fail_closed \in FailModes
    /\ call = [e \in Calls |-> Fresh]
    /\ queue = << >>
    /\ phase = "recv" /\ batch = << >> /\ after = << >> /\ reporting = 0
    /\ restarts = 0
    /\ count = 0 /\ in_flight = 0 /\ saved = 0 /\ file = 0 /\ known = 0
    /\ trail = << >> /\ reported = 0
    /\ retention = "asleep"
    /\ flush = "idle" /\ flushed = {}
    /\ crashes = 0 /\ panicked = FALSE

Room == Len(queue) < Capacity

\* Calls in S, all in state `from`, move to state `to`.
Moved(S, to) == [e \in Calls |-> IF e \in S THEN [call[e] EXCEPT !.st = to] ELSE call[e]]

Caller(e, from, to) ==
    /\ up
    /\ call[e].st = from
    /\ call' = [call EXCEPT ![e].st = to]
    /\ UNCHANGED <<up, fail_closed, retention, flush, flushed, thread, trail, reported, crashes, panicked>>
-------------------------------------------------------------------------------
\* record in fail-open mode: queued without an ack, or waiting for room.
record(e) ==
    /\ ~fail_closed
    /\ IF Room
       THEN Caller(e, "new", "returned") /\ queue' = Append(queue, Append1(e, FALSE))
       ELSE Caller(e, "new", "offering") /\ UNCHANGED queue
    /\ UNCHANGED lost

\* send_timeout: room within QUEUE_WAIT, or the entry is counted as lost.
Offered(e) ==
    /\ Room
    /\ Caller(e, "offering", "returned")
    /\ queue' = Append(queue, Append1(e, FALSE))
    /\ UNCHANGED lost

QueueWaitOver(e) ==
    /\ Caller(e, "offering", "lost")
    /\ count' = count + 1
    /\ UNCHANGED <<queue, in_flight, saved, file, known>>

\* record_committed, and record in fail-closed mode: sent with an ack.
record_committed(e) == Caller(e, "new", "sending") /\ UNCHANGED <<queue, lost>>

Sent(e) ==
    /\ Room
    /\ Caller(e, "sending", "waiting")
    /\ queue' = Append(queue, Append1(e, TRUE))
    /\ UNCHANGED lost

Committed(e) == Caller(e, "acked", "stored") /\ UNCHANGED <<queue, lost>>

\* The ack is an error or was dropped: counted only if the fail mode is open now.
NotCommitted(e) ==
    /\ Caller(e, "nacked", IF fail_closed THEN "refused" ELSE "lost")
    /\ count' = IF fail_closed THEN count ELSE count + 1
    /\ UNCHANGED <<queue, in_flight, saved, file, known>>

\* The future of the caller is dropped: an aborted task, a client that hung up.
Cancel(e) == Cancels /\ Caller(e, "waiting", "dropped") /\ UNCHANGED <<queue, lost>>

\* flush: everything queued so far is handled once it returns.
FlushSent ==
    /\ up /\ Room
    /\ flush = "idle"
    /\ flush' = "waiting"
    /\ flushed' = Entries(queue) \cup Entries(batch)
    /\ queue' = Append(queue, Flush)
    /\ UNCHANGED <<up, fail_closed, call, retention, thread, lost, trail, reported, crashes, panicked>>

\* AuditSettings::apply, from the web UI.
apply(closed) ==
    /\ up
    /\ fail_closed # closed
    /\ fail_closed' = closed
    /\ UNCHANGED <<up, call, retention, flush, flushed, queue, thread, lost, trail, reported, crashes, panicked>>

\* run_retention: a round hands the writer a Prune and waits for its result.
\* A round may also be skipped (a clock jump, retention_days = 0).
run_retention ==
    /\ up /\ Room
    /\ retention = "asleep"
    /\ retention' = "waiting"
    /\ queue' = Append(queue, Prune)
    /\ UNCHANGED <<up, fail_closed, call, flush, flushed, thread, lost, trail, reported, crashes, panicked>>
-------------------------------------------------------------------------------
Thread(from, to) ==
    /\ up
    /\ phase = from
    /\ phase' = to
    /\ panicked' = (panicked \/ to = "panicked")
    /\ UNCHANGED <<up, fail_closed, crashes>>

\* writer_loop: takes the next command, and then more entries while there are
\* any, up to MaxBatch or the first command that is not an entry.
Receive ==
    /\ queue # << >>
    /\ Len(batch) < MaxBatch
    /\ IF Head(queue).cmd = "append"
       THEN Thread(phase, "collect") /\ batch' = Append(batch, Head(queue)) /\ UNCHANGED after
       ELSE Thread(phase, "collected") /\ after' = <<Head(queue)>> /\ UNCHANGED batch
    /\ phase \in {"recv", "collect"}
    /\ queue' = Tail(queue)
    /\ UNCHANGED <<call, retention, flush, flushed, reporting, restarts, lost, trail, reported>>

Collected ==
    /\ queue = << >> \/ Len(batch) = MaxBatch
    /\ Thread("collect", "collected")
    /\ UNCHANGED <<call, retention, flush, flushed, queue, batch, after, reporting, restarts,
                   lost, trail, reported>>

\* Mutant: nobody holds the lock of `saved` while the batch is written.
MutNoLock == FALSE

\* write_batch up to append: takes the lock of `saved` and the whole count.
\* The lock is held in the phases "append", "ok" and "failed".
Locked == phase \in {"append", "ok", "failed"}

Begin ==
    /\ batch # << >>
    /\ Thread("collected", "append")
    /\ reporting' = count
    /\ count' = 0
    /\ in_flight' = count + Unacked(batch)
    /\ UNCHANGED <<call, retention, flush, flushed, queue, batch, after, restarts,
                   saved, file, known, trail, reported>>

\* Mutant: the report goes in front of the batch.
MutReportFirst ==
    (IF reporting > 0 THEN <<EventsLost(reporting)>> ELSE << >>)
    \o [i \in DOMAIN batch |-> Entry(batch[i].call)]

\* The entries of the batch, and behind them the report of earlier losses.
BatchEntries ==
    [i \in DOMAIN batch |-> Entry(batch[i].call)]
    \o (IF reporting > 0 THEN <<EventsLost(reporting)>> ELSE << >>)

AppendOk ==
    /\ Thread("append", "ok")
    /\ trail' = trail \o BatchEntries
    /\ reported' = reported + reporting
    /\ UNCHANGED <<call, retention, flush, flushed, queue, batch, after, reporting, restarts, lost>>

AppendFailed ==
    /\ Thread("append", "failed")
    /\ UNCHANGED <<call, retention, flush, flushed, queue, batch, after, reporting, restarts,
                   lost, trail, reported>>

\* save_locked: the count goes to the file if it changed; writing may fail.
\* `known` remembers what file and trail together have known of.
save_locked(now) ==
    \/ /\ now # saved
       /\ saved' = now /\ file' = now
       /\ known' = IF reported + now > known THEN reported + now ELSE known
    \/ UNCHANGED <<saved, file, known>>

\* Acks of entries: the caller is told, unless it is gone.
Told(to, seq) ==
    [e \in Calls |->
        IF e \in Acked(batch) /\ call[e].st = "waiting"
        THEN [st |-> to, seq |-> IF to = "acked" THEN seq[e] ELSE 0]
        ELSE call[e]]

\* The numbers append returned: those of the batch's entries, in their order.
Numbers == [e \in Entries(batch) |->
    LET before == Len(trail) - Len(BatchEntries)
    IN  before + CHOOSE i \in DOMAIN batch : batch[i].call = e]

\* The rest of write_batch: acks, the count of a failed batch, the file.
Finish(from, to, now) ==
    /\ Thread(from, "after")
    /\ call' = Told(to, Numbers)
    /\ in_flight' = 0
    /\ count' = now
    /\ save_locked(now)
    /\ batch' = << >> /\ reporting' = 0
    /\ UNCHANGED <<retention, flush, flushed, queue, after, restarts, trail, reported>>

FinishOk == Finish("ok", "acked", count)
\* Mutant: the earlier losses are not put back after a failed append.
MutForgetReport == Finish("failed", "nacked", count + Unacked(batch))
\* Mutant: the callers are not told of a failed append.
MutSilentFailure == Finish("failed", "waiting", count + reporting + Unacked(batch))

FinishFailed == Finish("failed", "nacked", count + reporting + Unacked(batch))

\* The command that ended the batch is answered when the batch is written.
Answered(status) ==
    /\ retention' = IF after = <<Prune>> THEN status ELSE retention
    /\ flush' = IF after = <<Flush>> THEN "done" ELSE flush
    /\ after' = << >>

\* Mutant: the command that ended the batch is answered before it is written.
MutAnswerFirst ==
    /\ phase = "after" \/ (phase = "collected" /\ (batch = << >> \/ after # << >>))
    /\ Thread(phase, IF batch = << >> THEN "recv" ELSE phase)
    /\ Answered("asleep")
    /\ UNCHANGED <<call, flushed, queue, batch, reporting, restarts, lost, trail, reported>>

After ==
    /\ phase = "after" \/ (phase = "collected" /\ batch = << >>)
    /\ Thread(phase, "recv")
    /\ Answered("asleep")
    /\ UNCHANGED <<call, flushed, queue, batch, reporting, restarts, lost, trail, reported>>

\* The store panics: the lock and the acks are dropped with the batch, and
\* the retention task takes its dropped ack for WriterStopped and returns.
Panic ==
    /\ Panics
    /\ restarts < MaxRestarts \/ crashes < MaxCrashes
    /\ phase = "append" \/ (phase = "after" /\ after = <<Prune>>)
    /\ Thread(phase, "panicked")
    /\ call' = Told("nacked", Numbers)
    /\ Answered("ended")
    /\ batch' = << >> /\ reporting' = 0
    /\ UNCHANGED <<flushed, queue, restarts, lost, trail, reported>>

\* The process ends: all that was in memory is gone, an open transaction too.
End ==
    /\ up' = FALSE
    /\ crashes' = crashes + 1
    /\ call' = [e \in Calls |->
                    IF call[e].st \in {"offering", "sending", "waiting", "acked", "nacked"}
                    THEN [call[e] EXCEPT !.st = "cut"] ELSE call[e]]
    /\ queue' = << >> /\ batch' = << >> /\ after' = << >> /\ reporting' = 0
    /\ phase' = "recv"
    /\ restarts' = 0
    /\ count' = 0 /\ in_flight' = 0 /\ saved' = 0
    /\ retention' = "asleep"
    /\ flush' = "idle" /\ flushed' = {}
    /\ UNCHANGED <<fail_closed, file, known, trail, reported, panicked>>

\* The writer is restarted with the store opened again, or the gateway stops:
\* after too many restarts in a minute, or when the store does not open.
Reopen ==
    /\ restarts < MaxRestarts
    /\ Thread("panicked", "recv")
    /\ \E recent \in 0 .. restarts : restarts' = recent + 1
    /\ count' = count + in_flight
    /\ in_flight' = 0
    /\ UNCHANGED <<call, retention, flush, flushed, queue, batch, after, reporting,
                   saved, file, known, trail, reported>>

GiveUp == up /\ phase = "panicked" /\ crashes < MaxCrashes /\ End

\* The thread "audit-lost" saves the count every second.
save ==
    /\ up /\ ~Locked
    /\ count # saved
    /\ save_locked(count)
    /\ UNCHANGED <<up, clients, queue, thread, count, in_flight, trail, reported, crashes, panicked>>

Crash == up /\ crashes < MaxCrashes /\ End

\* start: LostEvents::open reads the file.
start ==
    /\ ~up
    /\ up' = TRUE
    /\ count' = file /\ saved' = file
    /\ UNCHANGED <<clients, queue, thread, in_flight, file, known, trail, reported, crashes, panicked>>
-------------------------------------------------------------------------------
CallerSteps(e) ==
    record(e) \/ Offered(e) \/ QueueWaitOver(e) \/ record_committed(e) \/ Sent(e)
    \/ Committed(e) \/ NotCommitted(e) \/ Cancel(e)

WriterSteps ==
    Receive \/ Collected \/ Begin \/ AppendOk \/ AppendFailed \/ FinishOk \/ FinishFailed
    \/ After \/ Panic \/ Reopen \/ GiveUp

Next ==
    \/ \E e \in Calls : CallerSteps(e)
    \/ WriterSteps
    \/ FlushSent \/ run_retention \/ \E closed \in FailModes : apply(closed)
    \/ save \/ Crash \/ start

Spec == Init /\ [][Next]_vars

\* The threads run and the queue wakes its senders in turn (tokio's mpsc is
\* fair), so a sender that finds room again and again gets in.  Nothing makes
\* a caller call, a panic happen or the process end.
Fairness ==
    /\ WF_vars(WriterSteps)
    /\ \A e \in Calls :
        /\ SF_vars(Sent(e))
        /\ WF_vars(Offered(e) \/ QueueWaitOver(e))
        /\ WF_vars(Committed(e) \/ NotCommitted(e))

FairSpec == Spec /\ Fairness
-------------------------------------------------------------------------------
Pending == {"offering", "sending", "waiting", "acked", "nacked"}
Final == {"returned", "stored", "lost", "refused", "dropped", "cut"}

\* The entries that wait in the queue or are being written.
Held == Entries(queue) \cup Entries(batch)

\* What the counters hold is consistent with where the writer is, and the
\* queue and the batch stay within their limits.
TypeOK ==
    /\ up \in BOOLEAN
    /\ fail_closed \in BOOLEAN
    /\ \A e \in Calls : call[e].st \in {"new"} \cup Pending \cup Final
    /\ Commands(queue) \subseteq Command /\ Len(queue) <= Capacity
    /\ Commands(batch) \subseteq Command /\ Len(batch) <= MaxBatch
    /\ after \in {<< >>, <<Prune>>, <<Flush>>}
    /\ phase \in {"recv", "collect", "collected", "append", "ok", "failed", "after", "panicked"}
    /\ {count, in_flight, saved, file, known, reporting, reported} \subseteq Nat
    /\ in_flight > 0 => Locked \/ phase = "panicked"
    /\ Locked => in_flight = reporting + Unacked(batch)
    /\ ~Locked => reporting = 0
    /\ batch # << >> => phase # "recv"
    /\ restarts \in 0 .. MaxRestarts
    /\ retention \in {"asleep", "waiting", "ended"}
    /\ flush \in {"idle", "waiting", "done"}
    /\ crashes \in 0 .. MaxCrashes /\ panicked \in BOOLEAN

\* A caller that was told a sequence number finds its own entry under that
\* number, also when a report of lost events shares the batch and after any
\* panic, crash or restart.
AckNamesRecord ==
    \A e \in Calls : call[e].st \in {"acked", "stored"} =>
        call[e].seq \in DOMAIN trail /\ trail[call[e].seq] = Entry(e)

\* The losses: entries nobody holds any more that were not stored although
\* record returned Ok, and entries their callers counted.
Missing ==
    {e \in Calls : call[e].st \in {"returned", "dropped"} /\ e \notin Held /\ ~Stored(e)}
    \cup {e \in Calls : call[e].st = "lost"}

\* What was taken out of the count and is neither reported nor put back yet.
Owed == IF phase \in {"append", "failed"} THEN reporting
        ELSE IF phase = "panicked" THEN in_flight ELSE 0

\* While the process runs and callers wait for their acks, every loss is counted or
\* reported, and only once: through full queues, failed appends, panics and changes of the
\* fail mode.  (Nobody counts the entry of a caller that was dropped while it waited.)
LossAccounted ==
    crashes = 0 /\ (\A e \in Calls : call[e].st # "dropped") =>
        Cardinality(Missing) = reported + count + Owed

\* A loss that was once in the file or reported is still in one of them when
\* the process is down: a restart does not forget it.  (A panic of the writer can:
\* the counter may be saved before Reopen puts the losses of the batch back.)
SavedLossSurvives == ~up /\ ~panicked => reported + file >= known

\* When flush returns, every entry queued before it was written or given up.
FlushIsBarrier == flush = "done" => flushed \cap Held = {}

\* Every call returns or is cut off by the end of the process: nobody waits
\* forever for room in the queue or for an ack.
CallsReturn == \A e \in Calls : call[e].st \in Pending ~> call[e].st \in Final
-------------------------------------------------------------------------------
\* The pipeline as its callers see it.  A caller whose ack is on its way still waits.
Fate == [e \in Calls |-> IF call[e].st \in {"acked", "nacked"} THEN "waiting" ELSE call[e].st]
Number == [e \in Calls |-> IF call[e].st = "stored" THEN call[e].seq ELSE 0]

\* One line from the batch to the end of the queue, without the entries that are written
\* and not acknowledged yet.
Line == (IF phase = "ok" THEN << >> ELSE batch) \o after \o queue

\* What was taken out of the count is owed until it is reported.
Debt == IF up THEN count + Owed ELSE file

Service == INSTANCE AuditService WITH
    running <- up, strict <- fail_closed, fate <- Fate, number <- Number, line <- Line,
    log <- trail, owed <- Debt, told <- reported

\* The pipeline keeps its promises (AuditService), through every failure of the store, the
\* writer thread and the process: entries are stored in the order in which they were
\* queued, a batch as a whole; a number names its caller's record; a refused entry is not
\* in the trail and never will be; and a loss is owed until it is reported.
ImplementsService == Service!SvcSpec
================================================================================
